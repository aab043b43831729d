------------------------------ MODULE Tenancy -------------------------------
(***************************************************************************)
(* Tenants from sign-up to deletion: registration by the user or by the    *)
(* platform, the steps of onboarding, sub-tenants, and the deletion of a   *)
(* family once its licences are revoked.  A handler is the list of the     *)
(* statements it still has to run, each atomic; any of them may fail, and  *)
(* what is written so far stays.  Names and addresses are left out: a name *)
(* that is taken is a statement that fails.  So is the optional client     *)
(* step, which is recorded but decides nothing.                            *)
(***************************************************************************)
EXTENDS Handlers, Sequences

CONSTANTS
  LoginIds,     \* ids an administrator gives: one may be given again after a deletion
  CuidIds,      \* ids the database generates: never given again
  None

ASSUME NoneAssumption == None \notin LoginIds \cup CuidIds \cup Requests

VARIABLES
  tenant,  \* the table: per id a row or NoTenant
  steps,   \* onboardingProgress: the completed steps
  grant,   \* what the licences of the tenant come to
  tenReq,  \* per request: its tenant, family, and the statements left
  former   \* history: generated ids of deleted tenants

tenVars == <<tenant, steps, grant, tenReq, former>>
tenData == <<tenant, steps, grant, former>>

-----------------------------------------------------------------------------
Ids      == LoginIds \cup CuidIds
Required == {"user_registration", "company_registration", "licence_activation"}
NoTenant == [complete |-> FALSE]
Tenant   == [parent : Ids \cup {None}, complete : BOOLEAN]   \* complete ones are active
\* none: all revoked, if any; held: one is not, be it live, suspended or expired.
Grants   == {"none", "held"}
TenIdle  == [at |-> "idle"]
\* reborn: its tenant was created after it had read the steps; fresh: those of
\* its family with a licence granted since it looked (both history).
Request  == [t : Ids, family : SUBSET Ids, reborn : BOOLEAN, fresh : SUBSET Ids,
             todo : Seq(Required \cup {"tenant", "sub-tenant", "find", "grant", "progress",
                                      "finalise", "purge"})]

Tenants     == {t \in Ids : tenant[t] # NoTenant}
Children(t) == {c \in Tenants : tenant[c].parent = t}

-----------------------------------------------------------------------------
TenInit ==
  /\ tenant = [t \in Ids |-> NoTenant]
  /\ steps = [t \in Ids |-> {}]
  /\ grant = [t \in Ids |-> "none"]
  /\ tenReq = [q \in Requests |-> TenIdle]
  /\ former = {}

\* A request for tenant t arrives: what it has read, and what it will run.
Begin(q, t, family, todo) ==
  /\ tenReq[q] = TenIdle
  /\ tenReq' = [tenReq EXCEPT ![q] = [t |-> t, family |-> family, reborn |-> FALSE,
                                      fresh |-> {}, todo |-> todo]]
  /\ UNCHANGED tenData

\* registerNewTenant and adminCreateTenant: the tenant with its roles and its
\* administrator in one transaction, then the licence, then the steps.
RegisterNewTenant(q, t) ==
  /\ t \in CuidIds
  /\ Begin(q, t, {}, <<"tenant", "find", "grant", "licence_activation">>)

AdminCreateTenant(q, t) ==
  /\ t \in LoginIds \ Tenants
  /\ Begin(q, t, {}, <<"tenant", "find", "grant", "licence_activation", "user_registration">>)

\* createSubTenant: below a tenant that is not a sub-tenant itself.
CreateSubTenant(q, t, p) ==
  /\ p \in Tenants /\ tenant[p].parent = None
  /\ t \in LoginIds \ Tenants
  /\ Begin(q, t, {p}, <<"sub-tenant">>)

\* The platform's own form generates the id, and notes the client at the parent.
AdminCreateSubTenant(q, t, p) ==
  /\ p \in Tenants /\ tenant[p].parent = None
  /\ t \in CuidIds
  /\ Begin(q, t, {p}, <<"sub-tenant", "progress", "finalise">>)

\* The steps of the wizard, which is left when the tenant is complete; each
\* answers with the progress.
InWizard(t) == t \in Tenants /\ ~tenant[t].complete

CompleteUserRegistration(q, t) ==
  InWizard(t) /\ Begin(q, t, {}, <<"user_registration", "progress", "finalise">>)

RegisterCompany(q, t) ==
  InWizard(t) /\ Begin(q, t, {}, <<"company_registration", "progress", "finalise">>)

RegisterClient(q, t) == InWizard(t) /\ Begin(q, t, {}, <<"progress", "finalise">>)

ActivateOnboardingLicence(q, t) ==
  InWizard(t) /\ Begin(q, t, {}, <<"find", "grant", "licence_activation", "progress", "finalise">>)

GetOnboardingProgress(q, t) == InWizard(t) /\ Begin(q, t, {}, <<"progress", "finalise">>)

CompleteOnboarding(q, t) == InWizard(t) /\ Begin(q, t, {}, <<"progress", "finalise">>)

\* Mutant: only the licences of the tenant itself are looked at.
DeleteTenantAlone(q, t) ==
  /\ t \in Tenants /\ grant[t] = "none"
  /\ Begin(q, t, {t} \cup Children(t), <<"purge">>)

\* deleteTenant reads the family and its licences, then purges.
DeleteTenant(q, t) ==
  /\ t \in Tenants
  /\ \A f \in {t} \cup Children(t) : grant[f] = "none"
  /\ Begin(q, t, {t} \cup Children(t), <<"purge">>)

-----------------------------------------------------------------------------
Now(q)  == Head(tenReq[q].todo)
Of(q)   == tenReq[q].t
Rest(q) == IF Len(tenReq[q].todo) = 1 THEN TenIdle ELSE [tenReq[q] EXCEPT !.todo = Tail(@)]
Fail(q) == tenReq' = [tenReq EXCEPT ![q] = TenIdle] /\ UNCHANGED tenData

\* The others in flight note that t has a new row, or a new licence.
Others(q, op(_)) ==
  [r \in Requests |-> IF r = q \/ tenReq[r] = TenIdle THEN tenReq[r] ELSE op(tenReq[r])]
Reborn(q, t) == Others(q, LAMBDA r :
  IF r.todo = <<"finalise">> THEN [r EXCEPT !.reborn = @ \/ r.t = t] ELSE r)
Fresh(q, t)  == Others(q, LAMBDA r :
  IF r.todo = <<"purge">> THEN [r EXCEPT !.fresh = @ \cup ({t} \cap r.family)] ELSE r)

\* The row of a tenant: its id and its name are unique.  What follows the row
\* of a sub-tenant is done for its parent.
Insert(q, parent) ==
  LET t == Of(q) IN
  IF t \in Tenants \cup former \/ parent \notin Tenants \cup {None}
  THEN Fail(q)
  ELSE /\ tenant' = [tenant EXCEPT ![t] = [parent |-> parent, complete |-> parent # None]]
       /\ tenReq' = [Reborn(q, t) EXCEPT ![q] =
            IF Rest(q) = TenIdle THEN TenIdle
            ELSE [Rest(q) EXCEPT !.family = {}, !.t = IF parent = None THEN t ELSE parent]]
       /\ UNCHANGED <<steps, grant, former>>

InsertTenant(q) ==
  \/ Now(q) = "tenant" /\ Insert(q, None)
  \/ Now(q) = "sub-tenant" /\ \E p \in tenReq[q].family : Insert(q, p)

\* activateLicence refuses a tenant with a live licence (a held one may be) ...
FindLicence(q) ==
  /\ Now(q) = "find"
  /\ \/ grant[Of(q)] = "held" /\ Fail(q)
     \/ tenReq' = [tenReq EXCEPT ![q] = Rest(q)] /\ UNCHANGED tenData

\* ... and creates one.  A write for a tenant that was deleted fails.
GrantLicence(q) ==
  /\ Now(q) = "grant"
  /\ IF Of(q) \notin Tenants THEN Fail(q)
     ELSE /\ grant' = [grant EXCEPT ![Of(q)] = "held"]
          /\ tenReq' = [Fresh(q, Of(q)) EXCEPT ![q] = Rest(q)]
          /\ UNCHANGED <<tenant, steps, former>>

UpsertStep(q) ==
  /\ Now(q) \in Required
  /\ IF Of(q) \notin Tenants THEN Fail(q)
     ELSE /\ steps' = [steps EXCEPT ![Of(q)] = @ \cup {Now(q)}]
          /\ tenReq' = [tenReq EXCEPT ![q] = Rest(q)]
          /\ UNCHANGED <<tenant, grant, former>>

\* Mutant: the licence step is not required.
ReadProgressWithoutLicence(q) ==
  /\ Now(q) = "progress"
  /\ IF Required \ {"licence_activation"} \subseteq steps[Of(q)]
     THEN tenReq' = [tenReq EXCEPT ![q] = Rest(q)] /\ UNCHANGED tenData
     ELSE Fail(q)

\* getOnboardingProgress and completeOnboarding read the steps ...
ReadProgress(q) ==
  /\ Now(q) = "progress"
  /\ IF Required \subseteq steps[Of(q)]
     THEN tenReq' = [tenReq EXCEPT ![q] = Rest(q)] /\ UNCHANGED tenData
     ELSE Fail(q)

\* ... and finalise the tenant, which also activates it.
Finalise(q) ==
  /\ Now(q) = "finalise"
  /\ IF Of(q) \notin Tenants THEN Fail(q)
     ELSE /\ tenant' = [tenant EXCEPT ![Of(q)].complete = TRUE]
          /\ tenReq' = [tenReq EXCEPT ![q] = Rest(q)]
          /\ UNCHANGED <<steps, grant, former>>

\* purgeTenantData for the family that was read, in one transaction: it is
\* rolled back when one of it is gone or a child that was not read exists.
PurgeTenantData(q) ==
  LET family == tenReq[q].family
      Purged(table, none) == [f \in Ids |-> IF f \in family THEN none ELSE table[f]]
  IN /\ Now(q) = "purge"
     /\ IF ~(family \subseteq Tenants /\ \A f \in family : Children(f) \subseteq family) THEN Fail(q)
        ELSE /\ tenant' = Purged(tenant, NoTenant)
             /\ steps' = Purged(steps, {})
             /\ grant' = Purged(grant, "none")
             /\ former' = former \cup (family \cap CuidIds)
             /\ tenReq' = [tenReq EXCEPT ![q] = TenIdle]

\* Activation outside the wizard, renewal, suspension, expiry and revocation of
\* a licence (module Licences).
LicenceChanges(t) ==
  /\ t \in Tenants
  /\ \/ grant[t] = "none" /\ grant' = [grant EXCEPT ![t] = "held"] /\ tenReq' = Fresh(None, t)
     \/ grant[t] = "held" /\ grant' = [grant EXCEPT ![t] = "none"] /\ UNCHANGED tenReq
  /\ UNCHANGED <<tenant, steps, former>>

Arrive(q) ==
  \E t \in Ids :
    \/ RegisterNewTenant(q, t) \/ AdminCreateTenant(q, t)
    \/ \E p \in Ids : CreateSubTenant(q, t, p) \/ AdminCreateSubTenant(q, t, p)
    \/ CompleteUserRegistration(q, t) \/ RegisterCompany(q, t) \/ RegisterClient(q, t)
    \/ ActivateOnboardingLicence(q, t) \/ GetOnboardingProgress(q, t) \/ CompleteOnboarding(q, t)
    \/ DeleteTenant(q, t)

\* The next statement of a request, or its failure: the rest is not run then.
RunStatement(q) ==
  /\ tenReq[q] # TenIdle
  /\ \/ InsertTenant(q) \/ FindLicence(q) \/ GrantLicence(q) \/ UpsertStep(q)
     \/ ReadProgress(q) \/ Finalise(q) \/ PurgeTenantData(q) \/ Fail(q)

TenNext ==
  \/ \E q \in Requests : Arrive(q) \/ RunStatement(q)
  \/ \E t \in Ids : LicenceChanges(t)

TenSpec == TenInit /\ [][TenNext]_tenVars

-----------------------------------------------------------------------------
\* Every row, request and history variable has its type.
TenTypeOK ==
  /\ tenant \in [Ids -> Tenant \cup {NoTenant}]
  /\ steps \in [Ids -> SUBSET Required]
  /\ grant \in [Ids -> Grants]
  /\ \A q \in Requests : tenReq[q] = TenIdle \/ tenReq[q] \in Request
  /\ former \subseteq CuidIds

\* Onboarding of a tenant ends only when its three required steps are recorded,
\* whichever requests overlapped or failed half-way, except through a request
\* that read the steps of a deleted tenant with the same login id.
CompletesWhole ==
  \A t \in Tenants :
       tenant'[t] # NoTenant /\ tenant'[t].complete /\ ~tenant[t].complete =>
         \/ Required \subseteq steps[t]
         \/ \E q \in Requests : tenReq[q] # tenReq'[q] /\ Of(q) = t /\ tenReq[q].reborn

\* A tenant is purged together with a licence that is not revoked only when that
\* licence was granted or renewed after the deletion had looked at the family.
PurgesRevoked ==
  \A t \in Tenants :
       tenant'[t] = NoTenant /\ grant[t] # "none" =>
         \E q \in Requests : tenReq[q] # tenReq'[q] /\ t \in tenReq[q].fresh
=============================================================================
