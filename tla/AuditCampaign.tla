--------------------------- MODULE AuditCampaign ---------------------------
(***************************************************************************)
(* The life of one audit campaign at the API (audit.service.ts).           *)
(*                                                                         *)
(* Express runs the handlers of any number of requests at once, and every  *)
(* await of a query lets another one in.  None of the handlers locks the   *)
(* campaign: each reads its status, does its other look-ups, and writes.   *)
(* A handler here does its reads in one step and each of its writes in a   *)
(* step of its own; what it read is in op.  A replica that dies takes its  *)
(* handlers with it.                                                       *)
(*                                                                         *)
(* Transactions run at READ COMMITTED, PostgreSQL's default: a delete sees *)
(* the rows that are committed when it starts.                             *)
(***************************************************************************)
EXTENDS Naturals, FiniteSets

CONSTANTS
  Handlers,     \* the requests that can be in progress at once
  Assets,       \* the assets of the tenant's register
  Unknown,      \* tags no asset has
  Zones,        \* locations
  Auditors,
  Explicit,     \* the campaign's own asset list, or {}
  Scope,        \* the locations of the campaign's site
  MaxScans,     \* how many scans are stored (bounds the model)
  MaxAdjusted   \* how many adjustments are posted (bounds the model)

ASSUME ScopeAssumption == Explicit \subseteq Assets /\ Scope \subseteq Zones
ASSUME UnknownAssumption == Unknown \cap Assets = {}

VARIABLES
  mode,         \* sighted, or blind
  status,
  register,     \* the location of each asset in the live register
  snapshot,     \* blind: the location each expected asset had at the start
                \* (none: the asset is not in the snapshot)
  scans,        \* the stored scan events
  submitted,    \* who has submitted each zone
  items,        \* the reconciliation items
  adjustments,  \* the adjustments posted
  op,           \* what each handler is doing and what it has read
  early         \* history: the scans stored when the campaign was completed

vars == <<mode, status, register, snapshot, scans, submitted, items,
          adjustments, op, early>>

Nobody == "nobody"
None   == "none"
ASSUME NamesAssumption == None \notin Zones /\ Nobody \notin Auditors
Tags   == Assets \cup Unknown
\* A scan has the clientRequestId that goes with its tag and zone: a device
\* that sends one again is replaying it.
Scan   == [tag : Tags, zone : Zones]
Class  == {"missing", "misplaced", "verified", "surplus"}
\* by: the handler whose reconciliation wrote the item, for its identity
Item   == [by : Handlers, of : Tags, class : Class,
           was : Zones \cup {None}, found : Zones \cup {None}]
\* to: the location it puts in the register, if it is to be applied
Adjustment == [item : Item, by : Auditors, to : Zones \cup {None}]

Idle == [at |-> "idle"]
Op ==
  [at : {"idle", "start", "complete", "reconcile"}]
    \cup [at : {"scan"}, scan : Scan]
    \cup [at : {"submit"}, zone : Zones, by : Auditors]
    \cup [at : {"delete"}, new : SUBSET Item]
    \cup [at : {"insert"}, new : SUBSET Item, old : SUBSET Item]
    \cup [at : {"adjust", "apply"}, adjustment : Adjustment]

TypeOK ==
  /\ mode \in {"sighted", "blind"}
  /\ status \in {"draft", "in_progress", "completed"}
  /\ register \in [Assets -> Zones]
  /\ snapshot \in [Assets -> Zones \cup {None}]
  /\ scans \in SUBSET Scan
  /\ submitted \in [Zones -> Auditors \cup {Nobody}]
  /\ items \in SUBSET Item
  /\ adjustments \in SUBSET Adjustment
  /\ op \in [Handlers -> Op]
  /\ early \in SUBSET Scan

Init ==
  /\ mode \in {"sighted", "blind"}
  /\ status = "draft"
  /\ register \in [Assets -> Zones]
  /\ snapshot = [a \in Assets |-> None]
  /\ scans = {}
  /\ submitted = [z \in Zones |-> Nobody]
  /\ items = {}
  /\ adjustments = {}
  /\ op = [h \in Handlers |-> Idle]
  /\ early = {}

\* A handler that has nothing to wait for takes a request.
Begin(h, request) == op[h] = Idle /\ op' = [op EXCEPT ![h] = request]
GoOn(h, next)     == op' = [op EXCEPT ![h] = next]
Done(h)           == GoOn(h, Idle)

-----------------------------------------------------------------------------
(* startCampaign *)

\* The campaign's own list wins over its site.
ExpectedAssets ==
  IF Explicit # {} THEN Explicit ELSE {a \in Assets : register[a] \in Scope}

Snapshotted == {a \in Assets : snapshot[a] # None}

StartCampaign(h) ==
  /\ status = "draft"
  /\ Begin(h, [at |-> "start"])
  /\ UNCHANGED <<mode, status, register, snapshot, scans, submitted, items,
                 adjustments, early>>

\* Mutant of MarkStarted: createMany with skipDuplicates.
MarkStartedSkipping(h) ==
  /\ op[h].at = "start"
  /\ snapshot' = [a \in Assets |->
                    IF mode = "blind" /\ a \in ExpectedAssets THEN register[a]
                    ELSE snapshot[a]]
  /\ status' = "in_progress"
  /\ Done(h)
  /\ UNCHANGED <<mode, register, scans, submitted, items, adjustments, early>>

\* The status is not looked at again.  A blind campaign that has been started
\* meanwhile is found out by the key (campaignId, assetId) of the snapshot,
\* and the transaction is rolled back.
MarkStarted(h) ==
  /\ op[h].at = "start"
  /\ \/ /\ mode = "sighted"
        /\ status' = "in_progress"
        /\ UNCHANGED snapshot
     \/ /\ mode = "blind" /\ ExpectedAssets \cap Snapshotted = {}
        /\ snapshot' = [a \in Assets |->
                          IF a \in ExpectedAssets THEN register[a] ELSE snapshot[a]]
        /\ status' = "in_progress"
     \/ /\ mode = "blind" /\ ExpectedAssets \cap Snapshotted # {}
        /\ UNCHANGED <<snapshot, status>>
  /\ Done(h)
  /\ UNCHANGED <<mode, register, scans, submitted, items, adjustments, early>>

-----------------------------------------------------------------------------
(* recordScan and submitZone *)

\* A replay is answered from the event that is there: nothing changes.
RecordScan(h, s) ==
  /\ status = "in_progress" /\ s \notin scans
  /\ mode = "blind" => submitted[s.zone] = Nobody
  /\ Begin(h, [at |-> "scan", scan |-> s])
  /\ UNCHANGED <<mode, status, register, snapshot, scans, submitted, items,
                 adjustments, early>>

\* The insert, or the event that won the race.
StoreScan(h) ==
  /\ op[h].at = "scan"
  /\ Cardinality(scans \cup {op[h].scan}) <= MaxScans
  /\ scans' = scans \cup {op[h].scan}
  /\ Done(h)
  /\ UNCHANGED <<mode, status, register, snapshot, submitted, items, adjustments, early>>

SubmitZone(h, z, auditor) ==
  /\ status = "in_progress" /\ mode = "blind"
  /\ submitted[z] = Nobody
  /\ Begin(h, [at |-> "submit", zone |-> z, by |-> auditor])
  /\ UNCHANGED <<mode, status, register, snapshot, scans, submitted, items,
                 adjustments, early>>

\* A zone has one submission: the insert of a second one fails.
StoreSubmission(h) ==
  /\ op[h].at = "submit"
  /\ submitted' = IF submitted[op[h].zone] = Nobody
                  THEN [submitted EXCEPT ![op[h].zone] = op[h].by]
                  ELSE submitted
  /\ Done(h)
  /\ UNCHANGED <<mode, status, register, snapshot, scans, items, adjustments, early>>

-----------------------------------------------------------------------------
(* completeCampaign and runReconciliation *)

CompleteCampaign(h) ==
  /\ status = "in_progress"
  /\ mode = "blind" => \E z \in Zones : submitted[z] # Nobody
  /\ Begin(h, [at |-> "complete"])
  /\ UNCHANGED <<mode, status, register, snapshot, scans, submitted, items,
                 adjustments, early>>

MarkCompleted(h) ==
  /\ op[h].at = "complete"
  /\ status' = "completed"
  /\ early' = IF status = "completed" THEN early ELSE scans
  /\ IF mode = "blind" THEN GoOn(h, [at |-> "reconcile"]) ELSE Done(h)
  /\ UNCHANGED <<mode, register, snapshot, scans, submitted, items, adjustments>>

ScansOf(a) == {s \in scans : s.tag = a}

\* Mutant of AssetItems: only scans in the place the register gives count.
AssetItemsInPlace(h, a) ==
  LET here == {s \in ScansOf(a) : s.zone = snapshot[a]}
  IN  {[by |-> h, of |-> a, class |-> IF here = {} THEN "missing" ELSE "verified",
        was |-> snapshot[a], found |-> IF here = {} THEN None ELSE snapshot[a]]}

\* What an asset of the snapshot can be classified as.  The first of its scans
\* decides, in whatever order the query returns them.
AssetItems(h, a) ==
  IF ScansOf(a) = {}
  THEN {[by |-> h, of |-> a, class |-> "missing", was |-> snapshot[a], found |-> None]}
  ELSE {[by |-> h, of |-> a,
         class |-> IF s.zone # snapshot[a] THEN "misplaced" ELSE "verified",
         was |-> snapshot[a], found |-> s.zone] : s \in ScansOf(a)}

\* Scans that matched no asset when they were recorded
SurplusItems(h) ==
  {[by |-> h, of |-> s.tag, class |-> "surplus", was |-> None, found |-> s.zone]
     : s \in {t \in scans : t.tag \in Unknown}}

Classifications(h) ==
  {f \in [Snapshotted -> UNION {AssetItems(h, a) : a \in Snapshotted}] :
     \A a \in Snapshotted : f[a] \in AssetItems(h, a)}

Reconcile(h) ==
  /\ op[h].at = "reconcile"
  /\ \E f \in Classifications(h) :
       GoOn(h, [at |-> "delete",
                new |-> {f[a] : a \in Snapshotted} \cup SurplusItems(h)])
  /\ UNCHANGED <<mode, status, register, snapshot, scans, submitted, items,
                 adjustments, early>>

\* Mutant of DeleteItems: the adjustments of a deleted item do not hold it.
DeleteItemsCascade(h) ==
  /\ op[h].at = "delete"
  /\ GoOn(h, [at |-> "insert", new |-> op[h].new, old |-> items])
  /\ UNCHANGED <<mode, status, register, snapshot, scans, submitted, items,
                 adjustments, early>>

\* The transaction's deleteMany.  An item with an adjustment cannot be deleted
\* (ON DELETE RESTRICT): then the transaction fails.
DeleteItems(h) ==
  /\ op[h].at = "delete"
  /\ IF \E d \in adjustments : d.item \in items
     THEN Done(h)
     ELSE GoOn(h, [at |-> "insert", new |-> op[h].new, old |-> items])
  /\ UNCHANGED <<mode, status, register, snapshot, scans, submitted, items,
                 adjustments, early>>

\* Its createMany, and the commit of both
InsertItems(h) ==
  /\ op[h].at = "insert"
  /\ items' = (items \ op[h].old) \cup op[h].new
  /\ Done(h)
  /\ UNCHANGED <<mode, status, register, snapshot, scans, submitted, adjustments, early>>

-----------------------------------------------------------------------------
(* postAdjustment *)

\* The zone of an item, for the segregation of duties
ZoneOf(item) == IF item.found # None THEN item.found ELSE item.was

PostAdjustment(h, d) ==
  /\ status = "completed"
  /\ d.item \in items
  /\ submitted[ZoneOf(d.item)] # d.by
  /\ Begin(h, [at |-> "adjust", adjustment |-> d])
  /\ UNCHANGED <<mode, status, register, snapshot, scans, submitted, items,
                 adjustments, early>>

\* Mutant of CreateAdjustment: applied even if no value was given.
CreateAdjustmentBlank(h) ==
  /\ op[h].at = "adjust"
  /\ LET d == op[h].adjustment
     IN  /\ d.item \in items
         /\ Cardinality(adjustments \cup {d}) <= MaxAdjusted
         /\ adjustments' = adjustments \cup {d}
         /\ GoOn(h, [at |-> "apply", adjustment |-> d])
  /\ UNCHANGED <<mode, status, register, snapshot, scans, submitted, items, early>>

\* The insert waits for a transaction that is deleting the item, and fails if
\* the item is gone.
CreateAdjustment(h) ==
  /\ op[h].at = "adjust"
  /\ LET d == op[h].adjustment
     IN  /\ \A g \in Handlers : op[g].at = "insert" => d.item \notin op[g].old
         /\ \/ /\ d.item \in items
               /\ Cardinality(adjustments \cup {d}) <= MaxAdjusted
               /\ adjustments' = adjustments \cup {d}
               /\ IF d.to # None /\ d.item.class # "surplus"
                  THEN GoOn(h, [at |-> "apply", adjustment |-> d])
                  ELSE Done(h)
            \/ /\ d.item \notin items
               /\ Done(h)
               /\ UNCHANGED adjustments
  /\ UNCHANGED <<mode, status, register, snapshot, scans, submitted, items, early>>

ApplyToRegister(h) ==
  /\ op[h].at = "apply"
  /\ register' = [register EXCEPT ![op[h].adjustment.item.of] = op[h].adjustment.to]
  /\ Done(h)
  /\ UNCHANGED <<mode, status, snapshot, scans, submitted, items, adjustments, early>>

-----------------------------------------------------------------------------
\* updateAsset, outside the audit
MoveAsset(a, z) ==
  /\ register' = [register EXCEPT ![a] = z]
  /\ UNCHANGED <<mode, status, snapshot, scans, submitted, items, adjustments, op, early>>

\* The replica dies, or a query fails: what is written stays.
Die(h) ==
  /\ op[h] # Idle
  /\ Done(h)
  /\ UNCHANGED <<mode, status, register, snapshot, scans, submitted, items,
                 adjustments, early>>

Handle(h) ==
  \/ StartCampaign(h) \/ MarkStarted(h)
  \/ \E s \in Scan : RecordScan(h, s)
  \/ StoreScan(h)
  \/ \E z \in Zones, auditor \in Auditors : SubmitZone(h, z, auditor)
  \/ StoreSubmission(h)
  \/ CompleteCampaign(h) \/ MarkCompleted(h)
  \/ Reconcile(h) \/ DeleteItems(h) \/ InsertItems(h)
  \/ \E item \in items, auditor \in Auditors, to \in Zones \cup {None} :
       PostAdjustment(h, [item |-> item, by |-> auditor, to |-> to])
  \/ CreateAdjustment(h) \/ ApplyToRegister(h)
  \/ Die(h)

Next ==
  \/ \E h \in Handlers : Handle(h)
  \/ \E a \in Assets, z \in Zones : MoveAsset(a, z)

Spec == Init /\ [][Next]_vars

-----------------------------------------------------------------------------
(* Properties.                                                              *)

\* What was settled stays settled, however the handlers race.  A blind campaign
\* is started once and for all: its snapshot never changes afterwards and,
\* completed, it is never in progress again.  Only the key of the snapshot
\* stands against a start that read "draft" long ago: nothing does in a sighted
\* campaign, nor in a blind one whose expected assets have all changed.  And who
\* submitted a zone is settled by the first submission: the segregation of
\* duties rests on it.
StartHolds ==
  mode = "blind" /\ Explicit # {} /\ status # "draft" =>
    /\ snapshot' = snapshot
    /\ status = "completed" => status' = "completed"
SubmissionHolds ==
  \A z \in Zones : submitted[z] # Nobody => submitted'[z] = submitted[z]
SettledStaysSettled == [][StartHolds /\ SubmissionHolds]_vars

\* A reconciliation that is stored is whole and knows every early scan: it
\* classifies every asset of the snapshot once, and every unknown tag stored
\* before the campaign was completed; and an asset scanned by then is not
\* reported missing, because the status is written before the scans are read.
ReconciliationIsSound ==
  \A i \in items :
    LET run == {j \in items : j.by = i.by}
    IN  /\ \A a \in Snapshotted : Cardinality({j \in run : j.of = a}) = 1
        /\ \A s \in early :
             /\ s.tag \in Unknown => \E j \in run : j.of = s.tag /\ j.found = s.zone
             /\ i.class = "missing" => s.tag # i.of

\* An adjustment is never left without the finding it adjusts, whatever
\* reconciliation still runs, and there is none before the campaign is over.
AdjustmentsKeepTheirItem ==
  \A d \in adjustments : d.item \in items /\ status = "completed"

\* "Clear any prior reconciliation run and insert fresh" (runReconciliation):
\* an asset has one reconciliation item.
ReconciledOnce ==
  \A i, j \in items : i.of \in Assets /\ i.of = j.of => i = j
=============================================================================
