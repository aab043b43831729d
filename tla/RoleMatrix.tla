----------------------------- MODULE RoleMatrix -----------------------------
(***************************************************************************)
(* Who may do what, as the constants of vairiot-shared state it, and the   *)
(* roles the TUDA installation is seeded with.  A role grants a set of     *)
(* permissions; routes and pages ask for permissions, rarely for roles.    *)
(***************************************************************************)
EXTENDS TLC

\* permissions.constants.ts
ALL_PERMISSIONS ==
  {"asset:read", "asset:write", "asset:delete", "site:read", "site:write",
   "category:read", "category:write", "audit:read", "audit:write", "scan:execute",
   "gs1:admin", "tag:commission", "device:manage", "report:read", "report:export",
   "workorder:read", "workorder:write", "workorder:assigned", "user:read", "user:write",
   "apikey:read", "apikey:write", "company:manage", "client:read", "client:manage",
   "licence:manage", "system:configure"}

PLATFORM_ROLES == {"Licensing Authority", "Platform Super Admin"}
CLIENT_ROLES == {"Client Stakeholder", "Client Authority"}

LOCAL Reading == {"asset:read", "site:read", "category:read"}
LOCAL Keeping ==
  Reading \cup {"asset:write", "asset:delete", "site:write", "category:write"}
LOCAL Reporting == {"report:read", "report:export"}
LOCAL Running ==
  {"user:read", "user:write", "apikey:read", "apikey:write", "company:manage",
   "client:read", "client:manage"}
LOCAL Marking == {"tag:commission", "device:manage"}

\* ROLE_PERMISSION_MATRIX, the platform and tenant planes.
RolePermissions ==
  "Licensing Authority" :> {"licence:manage", "user:read", "report:read"}
  @@ "Platform Super Admin" :>
       ALL_PERMISSIONS \ {"workorder:assigned", "licence:manage"}
  @@ "Company Admin" :>
       Keeping \cup Reporting \cup Running \cup Marking
       \cup {"audit:read", "workorder:read", "gs1:admin"}
  @@ "Asset Manager" :>
       Keeping \cup Reporting \cup Marking
       \cup {"audit:read", "scan:execute", "workorder:read"}
  @@ "Maintenance Manager" :>
       Reading \cup Reporting \cup {"workorder:read", "workorder:write"}
  @@ "Maintenance Technician" :> Reading \cup {"workorder:read", "workorder:assigned"}
  @@ "Data Collector" :> Reading \cup {"scan:execute", "tag:commission"}
  @@ "Auditor" :>
       Reading \cup Reporting \cup {"audit:read", "audit:write", "scan:execute"}
  @@ "Viewer" :> Reading \cup {"report:read"}

\* The two roles of the client plane.
ClientPermissions ==
  [r \in CLIENT_ROLES |-> Reading \cup {"report:read", "client:read"}]

\* TUDA_ROLES of the seed; its Viewer has the name and the permissions of the
\* matrix's.
TUDA_ROLES ==
  "Administrator" :>
       ALL_PERMISSIONS \ {"workorder:assigned", "licence:manage", "system:configure"}
  @@ "Finance" :> Reading \cup Reporting \cup {"audit:read"}
  @@ "Inventory Manager" :>
       Keeping \cup Reporting \cup Marking
       \cup {"audit:read", "audit:write", "scan:execute", "workorder:read"}
  @@ "Field Operator" :>
       Reading \cup {"audit:read", "audit:write", "scan:execute", "tag:commission"}
  @@ "Verifier" :>
       Reading \cup Reporting \cup {"audit:read", "audit:write", "scan:execute"}

LOCAL Matrix == RolePermissions @@ ClientPermissions @@ TUDA_ROLES

RoleNames == DOMAIN Matrix

\* getPermissionsForRole: none for a name the matrix does not know.
getPermissionsForRole(role) == IF role \in RoleNames THEN Matrix[role] ELSE {}

\* The matrix is typed as lists of permissions; no role is called like one.
ASSUME MatrixAssumption ==
  /\ \A r \in RoleNames : getPermissionsForRole(r) \subseteq ALL_PERMISSIONS
  /\ RoleNames \cap ALL_PERMISSIONS = {}

\* roles.flatMap(role => role.permissions)
GrantedBy(names) == UNION {getPermissionsForRole(r) : r \in names}

\* applyOverrides: an override adds a permission or takes it away.
applyOverrides(permissions, overrides) ==
  (permissions \cup {o.permission : o \in {x \in overrides : x.granted}})
    \ {o.permission : o \in {x \in overrides : ~x.granted}}
=============================================================================
