------------------------------- MODULE Access -------------------------------
(***************************************************************************)
(* What one user may do over time: the roles and overrides the database    *)
(* holds for him, the access token that copies them when it is minted, the *)
(* tenant the token acts in, and the page of the web app that shows one.   *)
(* A token expires; a company admin of a parent tenant may have it minted  *)
(* again for a sub-tenant, with the permissions of the old.                *)
(***************************************************************************)
EXTENDS Routes, Integers, FiniteSets

CONSTANTS
  Posts,        \* the roles an administrator moves the user between
  Extras,       \* the permissions an override may add or take away
  SubTenants    \* the direct children of the parent tenant

ASSUME AccessAssumption ==
  /\ Posts \subseteq RoleNames
  /\ Extras \subseteq ALL_PERMISSIONS

VARIABLES
  home,       \* the tenant the user belongs to
  grants,     \* the database: [roles, overrides]
  changes,    \* the new roles of setUserRole requests between their two steps
  held,       \* the roles and permissions the user has had since he last signed in or refreshed
  token,      \* the access token in the browser, or NoToken
  page        \* the profile the web app shows, or NoPage

gateVars == <<home, grants, changes, held, token, page>>

Parent == "parent"
ContextTenants == {Parent} \cup SubTenants
NoToken == [live |-> FALSE]
NoPage == [tenant |-> "none"]

effectivePermissions(g) == applyOverrides(GrantedBy(g.roles), g.overrides)

-----------------------------------------------------------------------------
(* The chain in front of a route *)

authenticated == token.live

\* requireClientScope: client roles alone may only read.
clientOnly(t) == t.roles # {} /\ t.roles \subseteq CLIENT_ROLES

\* Mutant: a guard by role is passed over.
AdmittedByPermissions(guard, t) == guard.anyOf = {} \/ guard.anyOf \cap t.permissions # {}

\* requireRole, requireAnyPermission
Admitted(guard, t) ==
  /\ guard.roles = {} \/ guard.roles \cap t.roles # {}
  /\ guard.anyOf = {} \/ guard.anyOf \cap t.permissions # {}

\* The requests the API would accept now.  The tenant has been onboarded and
\* its licence is good: Licences and Tenancy are about those two gates.
Accepted ==
  {r \in AllRoutes :
     /\ authenticated
     /\ r \in GatedRoutes => (r.read \/ ~clientOnly(token))
     /\ Admitted(r.guard, token)}

\* Mutant of Profile: the permissions of the roles, without the overrides.
ProfileOfRoles(t) == [tenant |-> t.tenant, roles |-> t.roles, permissions |-> GrantedBy(t.roles)]

\* What GET /auth/me answers: the tenant, roles and permissions of the token.
Profile(t) == [tenant |-> t.tenant, roles |-> t.roles, permissions |-> t.permissions]

-----------------------------------------------------------------------------
(* The database *)

Authority(g) == g.roles \cup effectivePermissions(g)

GateInit ==
  /\ home \in {Parent} \cup {s \in SubTenants : s = CHOOSE t \in SubTenants : TRUE}
  /\ grants \in [roles : {{r} : r \in RoleNames}, overrides : {{}}]
  /\ changes = {}
  /\ held = Authority(grants)
  /\ token = NoToken
  /\ page = NoPage

\* setUserRole looks the user and the role up and deletes the roles he has ...
RemoveRoles ==
  \E role \in Posts \ changes :
    /\ changes' = changes \cup {role}
    /\ grants' = [grants EXCEPT !.roles = {}]
    /\ UNCHANGED <<home, held, token, page>>

\* ... and then gives him the new one: two requests at a time leave him both.
AssignRole ==
  \E role \in changes :
    /\ changes' = changes \ {role}
    /\ grants' = [grants EXCEPT !.roles = @ \cup {role}]
    /\ held' = held \cup Authority(grants')
    /\ UNCHANGED <<home, token, page>>

\* setUserPermissionOverrides replaces the set; an override that says what the
\* roles say already is not stored.
setUserPermissionOverrides ==
  \E wanted \in SUBSET [permission : Extras, granted : BOOLEAN] :
    /\ \A o, p \in wanted : o.permission = p.permission => o = p
    /\ LET roles == GrantedBy(grants.roles)
       IN grants' = [grants EXCEPT !.overrides =
            {o \in wanted : (o.permission \in roles) # o.granted}]
    /\ held' = held \cup Authority(grants')
    /\ UNCHANGED <<home, changes, token, page>>

-----------------------------------------------------------------------------
(* The token and the page *)

Mint(where, names, permissions, original, switched) ==
  [tenant |-> where, roles |-> names, permissions |-> permissions,
   originalTenantId |-> original, switched |-> switched, live |-> TRUE]

MintHome == Mint(home, grants.roles, effectivePermissions(grants), "none", FALSE)

\* login: the page shows the profile of the token (GET /auth/me).
login ==
  /\ page = NoPage
  /\ token' = MintHome
  /\ held' = Authority(grants)
  /\ page' = Profile(token')
  /\ UNCHANGED <<home, grants, changes>>

\* A request with an expired token is answered 401; the client refreshes and
\* sends it again.  The page keeps the profile it has.
refreshTokens ==
  /\ page # NoPage
  /\ ~authenticated
  /\ token' = MintHome
  /\ held' = Authority(grants)
  /\ UNCHANGED <<home, grants, changes, page>>

\* originalTenantId of a token that is switched to target.
WayHome(homeId, target) == IF target = homeId THEN "none" ELSE homeId

\* POST /company/switch-context: the home tenant, or an active child of it.
switchContext ==
  /\ page # NoPage
  /\ [handler |-> "switchContext", read |-> FALSE, changes |-> {},
      guard |-> requireAnyPermission({"company:manage"})] \in Accepted
  /\ LET homeId == IF token.originalTenantId = "none" THEN token.tenant
                                                      ELSE token.originalTenantId
     IN /\ homeId = Parent
        /\ \E target \in ContextTenants :
             token' = Mint(target, token.roles, token.permissions,
                           WayHome(homeId, target), TRUE)
  /\ page' = Profile(token')
  /\ UNCHANGED <<home, grants, changes, held>>

\* A page that is loaded anew asks for the profile again.
hydrate ==
  /\ page # NoPage
  /\ authenticated
  /\ page' = Profile(token)
  /\ UNCHANGED <<home, grants, changes, held, token>>

logout ==
  /\ page # NoPage
  /\ token' = NoToken
  /\ page' = NoPage
  /\ UNCHANGED <<home, grants, changes, held>>

\* The lifetime of the access token is over.
TokenExpires ==
  /\ token.live
  /\ token' = [token EXCEPT !.live = FALSE]
  /\ UNCHANGED <<home, grants, changes, held, page>>

GateNext ==
  \/ RemoveRoles
  \/ AssignRole
  \/ setUserPermissionOverrides
  \/ login
  \/ refreshTokens
  \/ switchContext
  \/ hydrate
  \/ logout
  \/ TokenExpires

-----------------------------------------------------------------------------
(* Properties *)

GateTypeOK ==
  /\ home \in ContextTenants
  /\ grants.roles \subseteq RoleNames
  /\ grants.overrides \subseteq [permission : Extras, granted : BOOLEAN]
  /\ changes \subseteq Posts
  /\ held \subseteq RoleNames \cup ALL_PERMISSIONS
  /\ token = NoToken \/ (token.tenant \in ContextTenants /\ token.permissions \subseteq ALL_PERMISSIONS)
  /\ page = NoPage \/ page.tenant \in ContextTenants

\* The asset register itself: assets and what hangs from them.
RegisterTables ==
  {"assets", "categories", "sites", "locations", "checkouts", "transfers", "maintenance", "photos",
   "documents", "customFields", "labelTemplates"}

\* The organisation: its people, keys, company record and identification.
Organisation ==
  {"users", "grants", "overrides", "invitations", "apiKeys", "webhooks", "company", "companyLogo",
   "clients", "onboarding", "subTenants", "subTenantLogos", "slug",
   "identification", "prefixes", "activePrefix", "devices"}

\* What the vendor keeps for everybody.
PlatformTables == {"tenants", "licences", "releases", "iosDevices", "smtp"}

\* The roles that read the register and do not edit it, and those that run an
\* organisation, in the words of the roles' own comments.
RegisterReaders ==
  {"Licensing Authority", "Maintenance Manager", "Maintenance Technician", "Data Collector",
   "Auditor", "Viewer", "Client Stakeholder", "Client Authority", "Finance", "Field Operator",
   "Verifier"}
Administrators == {"Company Admin", "Administrator"} \cup PLATFORM_ROLES

\* The guard lets in nobody but the roles in names, or who has a permission of
\* theirs.
GuardedFor(guard, names) ==
  \/ guard.roles # {} /\ guard.roles \subseteq names
  \/ /\ guard.anyOf # {}
     /\ \A r \in RoleNames : getPermissionsForRole(r) \cap guard.anyOf # {} => r \in names

\* The guards of the routes agree with what the roles are described as: a fact
\* about the two tables, without a user.
ASSUME GuardsAssumption ==
  \A r \in {x \in AllRoutes : ~x.read} :
    /\ r.changes \cap RegisterTables # {} => GuardedFor(r.guard, RoleNames \ RegisterReaders)
    /\ r.changes \cap (Organisation \cup PlatformTables) # {} =>
         GuardedFor(r.guard, Administrators)
    /\ (r.changes \cap PlatformTables # {} /\ r \notin OnboardingRoutes) =>
         (r.guard.roles # {} /\ r.guard.roles \subseteq PLATFORM_ROLES)

\* Whatever the order of role changes, sign-ins and refreshes: a request that
\* would change something is accepted only from a user who has held a permission
\* for it since he last signed in or refreshed, and one that changes the
\* register, the organisation or the platform only if he had it by a role that
\* is described as having it, or by hand.  So no token carries more than its
\* user has had, by a switch of tenant either, and no route is open to a role
\* whose description excludes it.
ReachIsGranted ==
  authenticated =>
    \A r \in {x \in Accepted : ~x.read} :
      /\ Admitted(r.guard, [roles |-> held, permissions |-> held])
      /\ \/ r.changes \cap RegisterTables = {}
         \/ held \cap (RoleNames \ RegisterReaders) # {}
         \/ held \cap r.guard.anyOf \cap Extras # {}
      /\ \/ r.changes \cap (Organisation \cup PlatformTables) = {}
         \/ held \cap Administrators # {}
         \/ held \cap r.guard.anyOf \cap Extras # {}
      /\ r.changes \cap PlatformTables # {} /\ r \notin OnboardingRoutes =>
           held \cap PLATFORM_ROLES # {}

\* A token acts in the tenant of its user or, for the parent's managers, in a
\* child of it, and always knows the way home; and the page shows the tenant
\* the token acts in, unless a refresh has taken a switched token home.
ContextIsKnown ==
  token # NoToken =>
    /\ token.tenant # home => home = Parent /\ token.originalTenantId = Parent
    /\ token.tenant = home => token.originalTenantId = "none"
    /\ page.tenant # token.tenant => token.tenant = home /\ ~token.switched

-----------------------------------------------------------------------------
(* What the pages of the two web apps let a user do, against what the API    *)
(* accepts from him.  The apps go by the profile they show, the API by the   *)
(* token; after a refresh the two may differ until the page is loaded anew   *)
(* or the tenant switched.                                                   *)

WebApp == INSTANCE WebPages
AdminApp == INSTANCE AdminPages

\* A button or form of a page, with every gate in front of it.
LOCAL Offer(s, o) ==
  [page |-> s.name, send |-> o.mutation.send,
   gates |-> (o.gates \cup {s.guard}) \ {SignedIn}]

\* Those with no gate at all promise nothing: the page says "not allowed" when
\* the API does.
Promises ==
  {p \in UNION {{Offer(s, o) : o \in s.offers} : s \in WebApp!AllPages \cup AdminApp!AllPages} :
     p.gates # {}}

\* Who sees it.
SeenBy(p, profile) == \A gate \in p.gates : Admitted(gate, profile)

\* The pages that let in who may read, and do not hide what he may not do; the
\* pages of the releases, which are the Super Admin's and open to every admin.
Overpromised ==
  {p \in Promises :
     \/ p.page = "UsersPage" /\ p.send \in {"inviteUser", "resendInvite", "setUserActive",
                                             "setUserRole"}
     \/ p.page = "ApiKeysPage" /\ p.send \in {"createApiKey", "revokeApiKey"}
     \/ p.page = "MaintenanceDetailPage" /\ p.send = "deletePhoto"
     \/ p.page \in {"MobileReleasesPage", "IosReleasesPage"}}

\* The pages that ask for a permission where the API asks for the roles that have
\* it, or for roles where it asks for what they have: an override tells the two
\* apart.
AskedOtherwise ==
  {p \in Promises :
     \/ p.page = "LicensingPage" /\ p.send \in {"confirmPaymentAndRenew", "suspendLicence",
          "revokeLicence", "reactivateLicence", "addDeviceSlot"}
     \/ p.page = "AuditLogPage" /\ p.send = "listAuditEventsForExport"}

\* Who passes the gates has what the guard asks for ...
HasAsked(gates, guard) ==
  /\ guard.roles = {} \/ \E g \in gates : g.roles # {} /\ g.roles \subseteq guard.roles
  /\ guard.anyOf = {} \/ \E g \in gates : g.anyOf # {} /\ g.anyOf \subseteq guard.anyOf

\* ... or every role that passes one of the gates by itself passes the guard.
HasByRole(gates, guard) ==
  \E g \in gates :
    /\ (g.roles = {}) # (g.anyOf = {})
    /\ \A name \in RoleNames :
         (g.roles # {} => name \in g.roles)
         /\ (g.anyOf # {} => getPermissionsForRole(name) \cap g.anyOf # {})
         => /\ guard.roles = {} \/ name \in guard.roles
            /\ guard.anyOf = {} \/ getPermissionsForRole(name) \cap guard.anyOf # {}

\* The gates of the pages agree with the guards of the routes: a fact about the
\* tables, without a user.
ASSUME OffersAssumption ==
  \A p \in Promises \ Overpromised : \E r \in AllRoutes :
    /\ r.handler = p.send
    /\ HasAsked(p.gates, r.guard) \/ (p \in AskedOtherwise /\ HasByRole(p.gates, r.guard))

\* Whatever the roles and overrides a token was minted from, in either app and
\* in either tenant: what a gate of a page lets a user see, the API accepts from
\* him, when the page shows the profile of the token and he is not a client,
\* but for the offers of Overpromised, and those of AskedOtherwise if an override
\* sets him apart from his roles.
OffersAreHonoured ==
  authenticated /\ page # NoPage /\ page = Profile(token) /\ ~clientOnly(token) =>
    LET accepted == {r.handler : r \in Accepted}
    IN \A p \in Promises \ Overpromised :
         /\ SeenBy(p, page)
         /\ p \in AskedOtherwise => page.permissions = GrantedBy(page.roles)
         => p.send \in accepted
=============================================================================
