------------------------------ MODULE Accounts ------------------------------
(***************************************************************************)
(* One account of a tenant: it is invited, accepts, is disabled, enabled,  *)
(* given other roles and deleted.  Each handler looks the account or the   *)
(* invitation up and writes by id in statements of its own; accepting      *)
(* hashes a password in between, and any statement may be a handler's last.*)
(***************************************************************************)
EXTENDS Handlers, Sequences, SequencesExt

CONSTANTS
  Roles,        \* the tenant's roles
  MaxInvites    \* bound: invitations of the account

ASSUME InvitesAssumption == MaxInvites \in Nat

VARIABLES
  userRow,   \* the row of the user
  roles,     \* user_roles
  invites,   \* user_invitations, in order of creation
  accReq     \* per request: what it has read and will write

accVars == <<userRow, roles, invites, accReq>>

-----------------------------------------------------------------------------
UserRow == [row : {"none", "here", "deleted"}, active : BOOLEAN, password : BOOLEAN]

\* used counts, which the code does not: the row only says accepted.
Invite  == [used : Nat, expired : BOOLEAN]
AccIdle == [at |-> "idle"]
AccStates ==
  {AccIdle}
  \cup [at : {"create", "expire", "delete"}]
  \cup [at : {"invited"}, role : Roles \cup {"none"}]
  \cup [at : {"invite"}, role : Roles \cup {"none"}]
  \cup [at : {"accept"}, invite : 1..MaxInvites]
  \cup [at : {"activate"}, active : BOOLEAN]
  \cup [at : {"clear", "grant"}, role : Roles]

AccInit ==
  /\ userRow = [row |-> "none", active |-> FALSE, password |-> FALSE]
  /\ roles = {}
  /\ invites = <<>>
  /\ accReq = [r \in Requests |-> AccIdle]

AccSet(r, state) == accReq' = [accReq EXCEPT ![r] = state]
Exists == userRow.row # "none"
OpenInvites   == {i \in DOMAIN invites : invites[i].used = 0 /\ ~invites[i].expired}

\* A handler looks something up and goes on, or answers 404 or 409.
LookFor(r, found, state) ==
  /\ accReq[r] = AccIdle /\ found
  /\ AccSet(r, state)
  /\ UNCHANGED <<userRow, roles, invites>>

\* Any handler may stop where it is.
AccFail(r) ==
  /\ accReq[r] # AccIdle
  /\ AccSet(r, AccIdle)
  /\ UNCHANGED <<userRow, roles, invites>>

-----------------------------------------------------------------------------
\* inviteUser: the e-mail is free; the unique key refuses a second row.
ReadEmail(r) == \E role \in Roles \cup {"none"} :
  LookFor(r, ~Exists, [at |-> "invited", role |-> role])
CreateUser(r) ==
  /\ accReq[r].at = "invited"
  /\ IF Exists
     THEN AccSet(r, AccIdle) /\ UNCHANGED userRow
     ELSE /\ userRow' = [userRow EXCEPT !.row = "here"]
          /\ AccSet(r, [accReq[r] EXCEPT !.at = "invite"])
  /\ UNCHANGED <<roles, invites>>

\* The invitation of inviteUser, which goes on to the role, or of resendInvite.
CreateInvite(r) ==
  /\ accReq[r].at \in {"invite", "create"} /\ Len(invites) < MaxInvites
  /\ invites' = Append(invites, [used |-> 0, expired |-> FALSE])
  /\ AccSet(r, IF accReq[r].at = "invite" /\ accReq[r].role # "none"
               THEN [at |-> "grant", role |-> accReq[r].role] ELSE AccIdle)
  /\ UNCHANGED <<userRow, roles>>

\* resendInvite: what is open expires, then there is a new one.
ReadResend(r) ==
  LookFor(r, Exists /\ ~(userRow.active /\ userRow.password), [at |-> "expire"])

\* Mutant: what is open stays open.
ExpireNothing(r) ==
  /\ accReq[r].at = "expire"
  /\ AccSet(r, [at |-> "create"])
  /\ UNCHANGED <<userRow, roles, invites>>

ExpireOthers(r) ==
  /\ accReq[r].at = "expire"
  /\ invites' = [i \in DOMAIN invites |->
       IF invites[i].used = 0 THEN [invites[i] EXCEPT !.expired = TRUE] ELSE invites[i]]
  /\ AccSet(r, [at |-> "create"])
  /\ UNCHANGED <<userRow, roles>>

\* acceptInvite: the invitation is open when it is looked up; the transaction
\* after the hashing goes by its id and the account's, whatever they are now.
ReadInvite(r) == \E i \in OpenInvites : LookFor(r, TRUE, [at |-> "accept", invite |-> i])
Accept(r) ==
  /\ accReq[r].at = "accept"
  /\ userRow' = [userRow EXCEPT !.active = TRUE, !.password = TRUE]
  /\ invites' = [invites EXCEPT ![accReq[r].invite].used = @ + 1]
  /\ AccSet(r, AccIdle)
  /\ UNCHANGED roles

\* The 48 hours are over.
Expire(i) ==
  /\ invites' = [invites EXCEPT ![i].expired = TRUE]
  /\ UNCHANGED <<userRow, roles, accReq>>

\* setUserActive, of the tenant and of the platform.
ReadActive(r) == \E active \in BOOLEAN :
  LookFor(r, Exists, [at |-> "activate", active |-> active])
WriteActive(r) ==
  /\ accReq[r].at = "activate"
  /\ userRow' = [userRow EXCEPT !.active = accReq[r].active]
  /\ AccSet(r, AccIdle)
  /\ UNCHANGED <<roles, invites>>

\* setUserRole: all roles go, then one comes.
ReadRole(r) == \E role \in Roles : LookFor(r, Exists, [at |-> "clear", role |-> role])
ClearRoles(r) ==
  /\ accReq[r].at = "clear"
  /\ roles' = {}
  /\ AccSet(r, [accReq[r] EXCEPT !.at = "grant"])
  /\ UNCHANGED <<userRow, invites>>
\* A role the account has is refused by the primary key.
GrantRole(r) ==
  /\ accReq[r].at = "grant"
  /\ roles' = roles \cup {accReq[r].role}
  /\ AccSet(r, AccIdle)
  /\ UNCHANGED <<userRow, invites>>

\* softDeleteUser: roles and account in one transaction.
ReadDeletion(r) == LookFor(r, userRow.row = "here", [at |-> "delete"])
DeleteUser(r) ==
  /\ accReq[r].at = "delete"
  /\ roles' = {}
  /\ userRow' = [userRow EXCEPT !.row = "deleted", !.active = FALSE]
  /\ AccSet(r, AccIdle)
  /\ UNCHANGED invites

AccNext ==
  \/ \E r \in Requests :
       \/ ReadEmail(r) \/ CreateUser(r) \/ CreateInvite(r)
       \/ ReadResend(r) \/ ExpireOthers(r) \/ ReadInvite(r) \/ Accept(r)
       \/ ReadActive(r) \/ WriteActive(r) \/ ReadRole(r) \/ ClearRoles(r) \/ GrantRole(r)
       \/ ReadDeletion(r) \/ DeleteUser(r) \/ AccFail(r)
  \/ \E i \in OpenInvites : Expire(i)

AccSpec == AccInit /\ [][AccNext]_accVars

-----------------------------------------------------------------------------
AccTypeOK ==
  /\ userRow \in UserRow
  /\ roles \subseteq Roles
  /\ invites \in Seq(Invite) /\ Len(invites) <= MaxInvites
  /\ accReq \in [Requests -> AccStates]

\* Overlapping requests may leave an account several open invitations, several
\* roles, or an invitation used several times, but never more of them than
\* there are requests at once.
AccessIsBounded ==
  /\ Cardinality(OpenInvites) <= Cardinality(Requests)
  /\ Cardinality(roles) <= Cardinality(Requests)
  /\ \A i \in DOMAIN invites : invites[i].used <= Cardinality(Requests)
=============================================================================
