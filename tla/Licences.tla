------------------------------ MODULE Licences ------------------------------
(***************************************************************************)
(* The licences of one tenant: activation, renewal, change of duration,    *)
(* suspension, revocation, reactivation, the status that is recomputed     *)
(* when it is read, and the gate that refuses writes.  Every handler reads *)
(* a row, decides, and updates the row by its id: the decision may be      *)
(* stale when it is written.                                               *)
(***************************************************************************)
EXTENDS Handlers, Sequences

CONSTANTS
  MaxLicences,  \* bound: licences ever created for the tenant
  MaxDay,       \* bound: the clock stops here
  MaxDate,      \* bound: the latest expiry date
  MaxTerm,      \* bound: the longest duration a licence is given at once
  Warning,      \* expiryWarningDays
  Grace         \* gracePeriodDays

ASSUME LicencesAssumption ==
  {MaxLicences, MaxDay, MaxDate, MaxTerm, Warning, Grace} \subseteq Nat

VARIABLES
  today,   \* the clock, in days
  lic,     \* the rows, in order of creation
  licReq,  \* per request: what it has read and will write
  \* history
  overlap, \* per licence: requests about to store a status computed before it was barred
  owed     \* per licence: the day up to which it is paid, or Contested

licVars == <<today, lic, licReq, overlap, owed>>

-----------------------------------------------------------------------------
Never   == MaxDate + 1            \* expiresAt NULL: the FREE tier is perpetual
Barred  == {"suspended", "revoked"}
Live    == {"active", "expiring"}
Status  == Barred \cup Live \cup {"expired"}
LicRow  == [status : Status, activated : 0..MaxDay, expires : 0..Never]
LicIdle == [at |-> "idle"]
LicIds  == DOMAIN lic
Contested == -1

\* Fields of a row that an update sets.
LicData == [status : {"active"}, expires : 0..MaxDate]
           \cup [status : {"active"}] \cup [expires : 0..MaxDate]

\* Mutant: the dates decide for every licence.
ComputeStatusByDates(row) ==
  IF row.expires = Never \/ today <= row.expires - Warning THEN "active"
  ELSE IF today > row.expires THEN "expired" ELSE "expiring"

\* What is stored is kept when it is suspended or revoked; else the dates decide.
ComputeStatus(row) ==
  IF row.status \in Barred THEN row.status
  ELSE IF row.expires = Never THEN "active"
  ELSE IF today > row.expires THEN "expired"
  ELSE IF today > row.expires - Warning THEN "expiring" ELSE "active"

\* The newest licence that is not revoked: what the status and the gate judge.
Latest == {i \in LicIds : /\ lic[i].status # "revoked"
                          /\ \A j \in LicIds : j > i => lic[j].status = "revoked"}

\* requireActiveLicence: a write is refused without a licence, while it is
\* suspended, and once its grace period is over, judged by the date.
MayWrite ==
  \E i \in Latest : /\ lic[i].status # "suspended"
                    /\ lic[i].expires # Never => today <= lic[i].expires + Grace

-----------------------------------------------------------------------------
LicInit ==
  /\ today = 0
  /\ lic = <<>>
  /\ licReq = [r \in Requests |-> LicIdle]
  /\ overlap = <<>>
  /\ owed = <<>>

LicSet(r, state) == licReq' = [licReq EXCEPT ![r] = state]
Answer(r) == /\ LicSet(r, LicIdle)
             /\ overlap' = [i \in LicIds |-> overlap[i] \ {r}]

Writing(i, r) == licReq[r].at = "write" /\ licReq[r].id = i
Dated(data)   == "expires" \in DOMAIN data

\* activateLicence looks for a live licence of the tenant and finds none.
StartActivate(r) ==
  /\ licReq[r].at = "idle" /\ Len(lic) < MaxLicences
  /\ \A i \in LicIds : lic[i].status \notin Live
  /\ LicSet(r, [at |-> "create"])
  /\ UNCHANGED <<today, lic, overlap, owed>>

\* ... and creates one: perpetual for the FREE tier, else for the default term.
Create(r) ==
  /\ licReq[r].at = "create" /\ Len(lic) < MaxLicences
  /\ \E e \in {Never} \cup ({today + MaxTerm} \cap (0..MaxDate)) :
       /\ lic' = Append(lic, [status |-> "active", activated |-> today, expires |-> e])
       /\ owed' = Append(owed, e)
  /\ overlap' = Append(overlap, {})
  /\ LicSet(r, [at |-> "status"])
  /\ UNCHANGED today

\* Two dated updates of one licence under way at once: what is paid is contested.
Contest(i) ==
  owed' = IF \E q \in Requests : Writing(i, q) /\ Dated(licReq[q].data)
          THEN [owed EXCEPT ![i] = Contested] ELSE owed

\* confirmPaymentAndRenew reads the row: it extends from the expiry if that is
\* ahead, else from now.  The status is not looked at.
ReadRenew(r, i, term) ==
  /\ licReq[r].at = "idle" /\ lic[i].expires # Never
  /\ LET base == IF lic[i].expires > today THEN lic[i].expires ELSE today
     IN  /\ base + term <= MaxDate
         /\ LicSet(r, [at |-> "write", id |-> i, paid |-> <<today, term>>,
                       data |-> [status |-> "active", expires |-> base + term]])
  /\ Contest(i)
  /\ UNCHANGED <<today, lic, overlap>>

\* changeDuration counts the new duration from the activation.
ReadDuration(r, i, term) ==
  /\ licReq[r].at = "idle" /\ lic[i].expires # Never
  /\ lic[i].activated + term <= MaxDate
  /\ LicSet(r, [at |-> "write", id |-> i, paid |-> <<lic[i].activated, term>>,
                data |-> [expires |-> lic[i].activated + term]])
  /\ Contest(i)
  /\ UNCHANGED <<today, lic, overlap>>

\* reactivateLicence takes a suspended licence only.
ReadReactivate(r, i) ==
  /\ licReq[r].at = "idle" /\ lic[i].status = "suspended"
  /\ LicSet(r, [at |-> "write", id |-> i, paid |-> <<>>, data |-> [status |-> "active"]])
  /\ UNCHANGED <<today, lic, overlap, owed>>

\* The update by id; every one of these handlers then answers with the status.
\* What is owed: a renewal adds its term to what was paid before, or to the day
\* it is paid on; a change of duration replaces what was paid.
Update(r) ==
  /\ licReq[r].at = "write"
  /\ LET i == licReq[r].id  data == licReq[r].data  paid == licReq[r].paid
         from == IF "status" \in DOMAIN data /\ owed[i] > paid[1] THEN owed[i] ELSE paid[1]
     IN  /\ lic' = [lic EXCEPT ![i] = [f \in DOMAIN @ |-> IF f \in DOMAIN data THEN data[f] ELSE @[f]]]
         /\ owed' = IF ~Dated(data) \/ owed[i] = Contested THEN owed
                    ELSE [owed EXCEPT ![i] = from + paid[2]]
         /\ overlap' = IF "status" \in DOMAIN data THEN [overlap EXCEPT ![i] = {}] ELSE overlap
  /\ LicSet(r, [at |-> "status"])
  /\ UNCHANGED today

\* suspendLicence and revokeLicence write whatever the row holds.
Bar(i, status) ==
  /\ lic[i].status # status
  /\ lic' = [lic EXCEPT ![i].status = status]
  /\ overlap' = [overlap EXCEPT ![i] = {r \in Requests : licReq[r].at = "store" /\ licReq[r].id = i}]
  /\ UNCHANGED <<today, licReq, owed>>

\* GET /licences/status, on its own or at the end of a handler, reads the
\* latest licence and computes its status ...
ReadStatus(r) ==
  /\ licReq[r].at \in {"idle", "status"}
  /\ \/ \E i \in Latest :
          IF ComputeStatus(lic[i]) = lic[i].status
          THEN licReq[r].at = "status" /\ Answer(r)
          ELSE /\ LicSet(r, [at |-> "store", id |-> i, status |-> ComputeStatus(lic[i])])
               /\ UNCHANGED overlap
     \/ Latest = {} /\ licReq[r].at = "status" /\ Answer(r)
  /\ UNCHANGED <<today, lic, owed>>

\* ... and stores it when it differs, without a second look at the row.
StoreStatus(r) ==
  /\ licReq[r].at = "store"
  /\ lic' = [lic EXCEPT ![licReq[r].id].status = licReq[r].status]
  /\ Answer(r)
  /\ UNCHANGED <<today, owed>>

Tomorrow ==
  /\ today < MaxDay /\ today' = today + 1
  /\ UNCHANGED <<lic, licReq, overlap, owed>>

LicNext ==
  \/ \E r \in Requests :
       \/ StartActivate(r) \/ Create(r) \/ Update(r) \/ ReadStatus(r) \/ StoreStatus(r)
       \/ \E i \in LicIds :
            \/ ReadReactivate(r, i)
            \/ \E term \in 1..MaxTerm : ReadRenew(r, i, term) \/ ReadDuration(r, i, term)
  \/ \E i \in LicIds, s \in Barred : Bar(i, s)
  \/ Tomorrow

LicSpec == LicInit /\ [][LicNext]_licVars

-----------------------------------------------------------------------------
LicState ==
  {LicIdle} \cup [at : {"create", "status"}]
  \cup [at : {"write"}, id : 1..MaxLicences, data : LicData, paid : Seq(0..MaxDay + MaxTerm)]
  \cup [at : {"store"}, id : 1..MaxLicences, status : Status \ Barred]

\* Every row, request and history variable has its type.
LicTypeOK ==
  /\ today \in 0..MaxDay
  /\ lic \in Seq(LicRow) /\ Len(lic) <= MaxLicences
  /\ licReq \in [Requests -> LicState]
  /\ overlap \in Seq(SUBSET Requests) /\ Len(overlap) = Len(lic)
  /\ owed \in Seq((0..Never) \cup {Contested}) /\ Len(owed) = Len(lic)

\* A licence that was suspended or revoked is usable again only when somebody
\* renews or reactivates it, or through a status request that was already in
\* flight at that moment and stores what it computed from the older row: no
\* request that starts later brings it back (computeStatus keeps both states).
BarHolds ==
  \A i \in LicIds : lic[i].status \in Barred /\ lic'[i].status \notin Barred =>
       \E r \in Requests :
          \/ licReq[r].at = "write" /\ "status" \in DOMAIN licReq[r].data
          \/ licReq[r].at = "store" /\ r \in overlap[i]

\* A tenant whose newest licence is not suspended is never refused a write
\* before the time it has paid for and the grace period are over, whatever
\* status is stored, unless two payments or changes of duration overlapped.
PaidTenantMayWrite ==
  \A i \in Latest :
     /\ lic[i].status # "suspended"
     /\ owed[i] # Contested
     /\ owed[i] = Never \/ today <= owed[i] + Grace
     => MayWrite
=============================================================================
