------------------------ MODULE AuditCampaignProofs ------------------------
(***************************************************************************)
(* Proofs about AuditCampaign, for any number of handlers, assets, zones   *)
(* and auditors.                                                           *)
(***************************************************************************)
EXTENDS AuditCampaign, FiniteSetTheorems, TLAPS

-----------------------------------------------------------------------------
(* What a handler is doing *)

LEMMA Requests ==
  /\ Idle \in Op /\ [at |-> "start"] \in Op /\ [at |-> "complete"] \in Op
  /\ [at |-> "reconcile"] \in Op
  /\ \A s \in Scan : [at |-> "scan", scan |-> s] \in Op
  /\ \A z \in Zones, auditor \in Auditors : [at |-> "submit", zone |-> z, by |-> auditor] \in Op
  /\ \A new \in SUBSET Item : [at |-> "delete", new |-> new] \in Op
  /\ \A new, old \in SUBSET Item : [at |-> "insert", new |-> new, old |-> old] \in Op
  /\ \A d \in Adjustment : /\ [at |-> "adjust", adjustment |-> d] \in Op
                           /\ [at |-> "apply", adjustment |-> d] \in Op
<1>1. /\ Idle \in Op /\ [at |-> "start"] \in Op /\ [at |-> "complete"] \in Op
      /\ [at |-> "reconcile"] \in Op
  BY DEF Op, Idle
<1>2. \A s \in Scan : [at |-> "scan", scan |-> s] \in Op
  BY DEF Op
<1>3. \A z \in Zones, auditor \in Auditors :
        [at |-> "submit", zone |-> z, by |-> auditor] \in Op
  BY DEF Op
<1>4. \A new \in SUBSET Item : [at |-> "delete", new |-> new] \in Op
  BY DEF Op
<1>5. \A new, old \in SUBSET Item : [at |-> "insert", new |-> new, old |-> old] \in Op
  BY DEF Op
<1>6. \A d \in Adjustment : /\ [at |-> "adjust", adjustment |-> d] \in Op
                            /\ [at |-> "apply", adjustment |-> d] \in Op
  BY DEF Op
<1>7. QED
  BY <1>1, <1>2, <1>3, <1>4, <1>5, <1>6

LEMMA Read ==
  ASSUME TypeOK, NEW h \in Handlers
  PROVE  /\ op[h].at = "scan" => op[h].scan \in Scan
         /\ op[h].at = "submit" => op[h].zone \in Zones /\ op[h].by \in Auditors
         /\ op[h].at \in {"delete", "insert"} => op[h].new \subseteq Item
         /\ op[h].at = "insert" => op[h].old \subseteq Item
         /\ op[h].at \in {"adjust", "apply"} => op[h].adjustment \in Adjustment
<1>1. op[h] \in Op
  BY DEF TypeOK
<1>2. QED
  BY <1>1 DEF Op

LEMMA Goes ==
  ASSUME TypeOK, NEW h \in Handlers, NEW next \in Op, GoOn(h, next)
  PROVE  /\ op' \in [Handlers -> Op]
         /\ op'[h] = next
         /\ \A g \in Handlers \ {h} : op'[g] = op[g]
  BY DEF TypeOK, GoOn

\* Beginning and ending are going on, too.
LEMMA BeginsAndEnds ==
  ASSUME NEW h \in Handlers
  PROVE  /\ \A request : Begin(h, request) => op[h] = Idle /\ GoOn(h, request)
         /\ Done(h) <=> GoOn(h, Idle)
  BY DEF Begin, Done, GoOn

-----------------------------------------------------------------------------
(* Type correctness *)

\* What is put in the register is a place.
PlacesOnly == \A h \in Handlers : op[h].at = "apply" => op[h].adjustment.to \in Zones

Types == TypeOK /\ PlacesOnly

\* A step that leaves the rest alone, and takes its handler nowhere near the register.
LEMMA GoesTypes ==
  ASSUME Types, NEW h \in Handlers, NEW next \in Op, GoOn(h, next),
         next.at = "apply" => next.adjustment.to \in Zones,
         mode' = mode, status' \in {"draft", "in_progress", "completed"},
         register' \in [Assets -> Zones], snapshot' \in [Assets -> Zones \cup {None}],
         scans' \in SUBSET Scan, submitted' \in [Zones -> Auditors \cup {Nobody}],
         items' \in SUBSET Item, adjustments' \in SUBSET Adjustment, early' \in SUBSET Scan
  PROVE  Types'
<1>1. /\ op' \in [Handlers -> Op] /\ op'[h] = next
      /\ \A g \in Handlers \ {h} : op'[g] = op[g]
  BY Goes DEF Types
<1>2. TypeOK'
  BY <1>1 DEF Types, TypeOK
<1>3. PlacesOnly'
  BY <1>1 DEF Types, PlacesOnly
<1>4. QED
  BY <1>2, <1>3 DEF Types

\* What a reconciliation writes are items of its own.
LEMMA ItemTypes ==
  ASSUME TypeOK, NEW h \in Handlers
  PROVE  /\ \A a \in Assets : AssetItems(h, a) \subseteq Item
         /\ SurplusItems(h) \subseteq Item
<1>1. \A a \in Assets : snapshot[a] \in Zones \cup {None} /\ a \in Tags
  BY DEF TypeOK, Tags
<1>2. \A s \in scans : s.zone \in Zones /\ s.tag \in Tags
  BY DEF TypeOK, Scan
<1>3. ASSUME NEW a \in Assets PROVE AssetItems(h, a) \subseteq Item
  <2>1. [by |-> h, of |-> a, class |-> "missing", was |-> snapshot[a], found |-> None] \in Item
    BY <1>1 DEF Item, Class
  <2>2. \A s \in ScansOf(a) :
          [by |-> h, of |-> a,
           class |-> IF s.zone # snapshot[a] THEN "misplaced" ELSE "verified",
           was |-> snapshot[a], found |-> s.zone] \in Item
    BY <1>1, <1>2 DEF Item, Class, ScansOf
  <2>3. QED
    BY <2>1, <2>2 DEF AssetItems
<1>4. SurplusItems(h) \subseteq Item
  BY <1>2 DEF SurplusItems, Item, Class
<1>5. QED
  BY <1>3, <1>4

LEMMA InitTypes == Init => Types
<1>1. SUFFICES ASSUME Init PROVE TypeOK /\ PlacesOnly
  BY DEF Types
<1>2. op = [h \in Handlers |-> Idle] /\ Idle.at = "idle"
  BY <1>1 DEF Init, Idle
<1>3. op \in [Handlers -> Op]
  BY <1>2, Requests
<1>4. TypeOK
  BY <1>1, <1>3 DEF Init, TypeOK
<1>5. PlacesOnly
  BY <1>2 DEF PlacesOnly
<1>6. QED
  BY <1>4, <1>5

LEMMA TypesStep == Types /\ [Next]_vars => Types'
<1> SUFFICES ASSUME Types, [Next]_vars PROVE Types'
  OBVIOUS
<1>1. /\ TypeOK /\ PlacesOnly /\ mode \in {"sighted", "blind"}
      /\ status \in {"draft", "in_progress", "completed"}
      /\ register \in [Assets -> Zones] /\ snapshot \in [Assets -> Zones \cup {None}]
      /\ scans \in SUBSET Scan /\ submitted \in [Zones -> Auditors \cup {Nobody}]
      /\ items \in SUBSET Item /\ adjustments \in SUBSET Adjustment /\ early \in SUBSET Scan
      /\ Idle \in Op /\ Idle.at = "idle"
  BY Requests DEF Types, TypeOK, Idle
<1>2. ASSUME NEW h \in Handlers, StartCampaign(h) \/ CompleteCampaign(h) PROVE Types'
  <2>1. PICK phase \in {"start", "complete"} : GoOn(h, [at |-> phase])
    BY <1>2, BeginsAndEnds DEF StartCampaign, CompleteCampaign
  <2>2. [at |-> phase] \in Op
    BY Requests
  <2>3. QED
    BY <1>1, <1>2, <2>1, <2>2, GoesTypes DEF StartCampaign, CompleteCampaign
<1>3. ASSUME NEW h \in Handlers, MarkStarted(h) PROVE Types'
  <2>1. status' \in {"draft", "in_progress", "completed"}
    BY <1>1, <1>3 DEF MarkStarted
  <2>2. snapshot' \in [Assets -> Zones \cup {None}]
    BY <1>1, <1>3 DEF MarkStarted
  <2>3. QED
    BY <1>1, <1>3, <2>1, <2>2, GoesTypes, BeginsAndEnds DEF MarkStarted
<1>4. ASSUME NEW h \in Handlers, NEW s \in Scan, RecordScan(h, s) PROVE Types'
  <2>1. [at |-> "scan", scan |-> s] \in Op /\ GoOn(h, [at |-> "scan", scan |-> s])
    BY <1>4, Requests, BeginsAndEnds DEF RecordScan
  <2>2. QED
    BY <1>1, <1>4, <2>1, GoesTypes DEF RecordScan
<1>5. ASSUME NEW h \in Handlers, StoreScan(h) PROVE Types'
  <2>1. scans' \in SUBSET Scan
    BY <1>1, <1>5, Read DEF StoreScan
  <2>2. QED
    BY <1>1, <1>5, <2>1, GoesTypes, BeginsAndEnds DEF StoreScan
<1>6. ASSUME NEW h \in Handlers, NEW z \in Zones, NEW auditor \in Auditors,
             SubmitZone(h, z, auditor)
      PROVE  Types'
  <2>1. /\ [at |-> "submit", zone |-> z, by |-> auditor] \in Op
        /\ GoOn(h, [at |-> "submit", zone |-> z, by |-> auditor])
    BY <1>6, Requests, BeginsAndEnds DEF SubmitZone
  <2>2. QED
    BY <1>1, <1>6, <2>1, GoesTypes DEF SubmitZone
<1>7. ASSUME NEW h \in Handlers, StoreSubmission(h) PROVE Types'
  <2>1. submitted' \in [Zones -> Auditors \cup {Nobody}]
    BY <1>1, <1>7, Read DEF StoreSubmission
  <2>2. QED
    BY <1>1, <1>7, <2>1, GoesTypes, BeginsAndEnds DEF StoreSubmission
<1>8. ASSUME NEW h \in Handlers, MarkCompleted(h) PROVE Types'
  <2>1. PICK next \in {Idle, [at |-> "reconcile"]} : GoOn(h, next)
    BY <1>8, BeginsAndEnds DEF MarkCompleted
  <2>2. next \in Op /\ next.at # "apply"
    BY <1>1, Requests
  <2>3. early' \in SUBSET Scan
    BY <1>1, <1>8 DEF MarkCompleted
  <2>4. QED
    BY <1>1, <1>8, <2>1, <2>2, <2>3, GoesTypes DEF MarkCompleted
<1>9. ASSUME NEW h \in Handlers, Reconcile(h) PROVE Types'
  <2>1. PICK f \in Classifications(h) :
          GoOn(h, [at |-> "delete", new |-> {f[a] : a \in Snapshotted} \cup SurplusItems(h)])
    BY <1>9 DEF Reconcile
  <2>2. \A a \in Snapshotted : f[a] \in Item
    BY <1>1, <2>1, ItemTypes DEF Classifications, Snapshotted
  <2>3. {f[a] : a \in Snapshotted} \cup SurplusItems(h) \in SUBSET Item
    BY <1>1, <2>2, ItemTypes
  <2>4. [at |-> "delete", new |-> {f[a] : a \in Snapshotted} \cup SurplusItems(h)] \in Op
    BY <2>3, Requests
  <2>5. QED
    BY <1>1, <1>9, <2>1, <2>4, GoesTypes DEF Reconcile
<1>10. ASSUME NEW h \in Handlers, DeleteItems(h) PROVE Types'
  <2>1. [at |-> "insert", new |-> op[h].new, old |-> items] \in Op
    BY <1>1, <1>10, Read, Requests DEF DeleteItems
  <2>2. PICK next \in {Idle, [at |-> "insert", new |-> op[h].new, old |-> items]} :
          GoOn(h, next)
    BY <1>10, BeginsAndEnds DEF DeleteItems
  <2>3. QED
    BY <1>1, <1>10, <2>1, <2>2, GoesTypes DEF DeleteItems
<1>11. ASSUME NEW h \in Handlers, InsertItems(h) PROVE Types'
  <2>1. items' \in SUBSET Item
    BY <1>1, <1>11, Read DEF InsertItems
  <2>2. QED
    BY <1>1, <1>11, <2>1, GoesTypes, BeginsAndEnds DEF InsertItems
<1>12. ASSUME NEW h \in Handlers, NEW item \in items, NEW auditor \in Auditors,
              NEW to \in Zones \cup {None},
              PostAdjustment(h, [item |-> item, by |-> auditor, to |-> to])
       PROVE  Types'
  <2> DEFINE d == [item |-> item, by |-> auditor, to |-> to]
  <2>1. d \in Adjustment
    BY <1>1 DEF Adjustment
  <2>2. [at |-> "adjust", adjustment |-> d] \in Op
    BY <2>1, Requests
  <2>3. GoOn(h, [at |-> "adjust", adjustment |-> d])
    BY <1>12, BeginsAndEnds DEF PostAdjustment
  <2>4. QED
    BY <1>1, <1>12, <2>2, <2>3, GoesTypes DEF PostAdjustment
<1>13. ASSUME NEW h \in Handlers, CreateAdjustment(h) PROVE Types'
  <2> DEFINE d == op[h].adjustment
  <2>1. d \in Adjustment /\ d.to \in Zones \cup {None}
    BY <1>1, <1>13, Read DEF CreateAdjustment, Adjustment
  <2>2. [at |-> "apply", adjustment |-> d] \in Op
    BY <2>1, Requests
  <2>3. PICK next \in {Idle, [at |-> "apply", adjustment |-> d]} :
          GoOn(h, next) /\ (next = Idle \/ d.to # None)
    BY <1>13, BeginsAndEnds DEF CreateAdjustment
  <2>4. adjustments' \in SUBSET Adjustment
    BY <1>1, <1>13, <2>1 DEF CreateAdjustment
  <2>5. next \in Op /\ (next.at = "apply" => next.adjustment.to \in Zones)
    BY <1>1, <2>1, <2>2, <2>3
  <2>6. QED
    BY <1>1, <1>13, <2>3, <2>4, <2>5, GoesTypes DEF CreateAdjustment
<1>14. ASSUME NEW h \in Handlers, ApplyToRegister(h) PROVE Types'
  <2>1. register' \in [Assets -> Zones]
    BY <1>1, <1>14 DEF ApplyToRegister, PlacesOnly
  <2>2. QED
    BY <1>1, <1>14, <2>1, GoesTypes, BeginsAndEnds DEF ApplyToRegister
<1>15. ASSUME NEW h \in Handlers, Die(h) PROVE Types'
  BY <1>1, <1>15, GoesTypes, BeginsAndEnds DEF Die
<1>16. ASSUME NEW a \in Assets, NEW z \in Zones, MoveAsset(a, z) PROVE Types'
  BY <1>1, <1>16 DEF MoveAsset, Types, TypeOK, PlacesOnly
<1>17. CASE UNCHANGED vars
  BY <1>1, <1>17 DEF vars, Types, TypeOK, PlacesOnly
<1>18. QED
  BY <1>2, <1>3, <1>4, <1>5, <1>6, <1>7, <1>8, <1>9, <1>10, <1>11, <1>12, <1>13, <1>14,
     <1>15, <1>16, <1>17 DEF Next, Handle

\* What the API keeps of a campaign is of its type; an adjustment never puts
\* an asset in no place, though an adjustment may name none.
THEOREM TypeCorrect == Spec => []TypeOK
<1>1. Types => TypeOK
  BY DEF Types
<1>2. QED
  BY <1>1, InitTypes, TypesStep, PTL DEF Spec

-----------------------------------------------------------------------------
(* An adjustment keeps its item *)

Held ==
  \A d \in adjustments :
    /\ d.item \in items
    /\ \A h \in Handlers : op[h].at = "insert" => d.item \notin op[h].old

\* The steps in which no item and no adjustment comes or goes, nor is about to.
Aside ==
  /\ items' = items /\ adjustments' = adjustments
  /\ \A g \in Handlers : op'[g].at = "insert" => op'[g] = op[g]

LEMMA HeldAside ==
  ASSUME Held, Aside
  PROVE  Held'
  BY DEF Held, Aside

\* A handler goes on to something that is not an insert.
LEMMA GoesAside ==
  ASSUME TypeOK, NEW h \in Handlers, NEW next \in Op, GoOn(h, next), next.at # "insert",
         items' = items, adjustments' = adjustments
  PROVE  Aside
  BY Goes DEF Aside

LEMMA AsideSteps ==
  ASSUME Types, NEW h \in Handlers, Handle(h),
         ~DeleteItems(h), ~InsertItems(h), ~CreateAdjustment(h)
  PROVE  Aside
<1>1. TypeOK /\ Idle \in Op /\ Idle.at = "idle"
  BY Requests DEF Types, Idle
<1>2. CASE StartCampaign(h) \/ CompleteCampaign(h)
  <2>1. PICK phase \in {"start", "complete"} : GoOn(h, [at |-> phase])
    BY <1>2, BeginsAndEnds DEF StartCampaign, CompleteCampaign
  <2>2. [at |-> phase] \in Op
    BY Requests
  <2>3. QED
    BY <1>1, <1>2, <2>1, <2>2, GoesAside DEF StartCampaign, CompleteCampaign
<1>3. CASE MarkStarted(h) \/ StoreScan(h) \/ StoreSubmission(h) \/ ApplyToRegister(h) \/ Die(h)
  BY <1>1, <1>3, GoesAside, BeginsAndEnds
  DEF MarkStarted, StoreScan, StoreSubmission, ApplyToRegister, Die
<1>4. ASSUME NEW s \in Scan, RecordScan(h, s) PROVE Aside
  <2>1. [at |-> "scan", scan |-> s] \in Op /\ GoOn(h, [at |-> "scan", scan |-> s])
    BY <1>4, Requests, BeginsAndEnds DEF RecordScan
  <2>2. QED
    BY <1>1, <1>4, <2>1, GoesAside DEF RecordScan
<1>5. ASSUME NEW z \in Zones, NEW auditor \in Auditors, SubmitZone(h, z, auditor) PROVE Aside
  <2>1. /\ [at |-> "submit", zone |-> z, by |-> auditor] \in Op
        /\ GoOn(h, [at |-> "submit", zone |-> z, by |-> auditor])
    BY <1>5, Requests, BeginsAndEnds DEF SubmitZone
  <2>2. QED
    BY <1>1, <1>5, <2>1, GoesAside DEF SubmitZone
<1>6. CASE MarkCompleted(h)
  <2>1. PICK next \in {Idle, [at |-> "reconcile"]} : GoOn(h, next)
    BY <1>6, BeginsAndEnds DEF MarkCompleted
  <2>2. next \in Op /\ next.at # "insert"
    BY <1>1, Requests
  <2>3. QED
    BY <1>1, <1>6, <2>1, <2>2, GoesAside DEF MarkCompleted
<1>7. CASE Reconcile(h)
  <2>1. /\ op'[h].at = "delete" /\ \A g \in Handlers \ {h} : op'[g] = op[g]
        /\ items' = items /\ adjustments' = adjustments
    BY <1>1, <1>7 DEF Reconcile, GoOn, TypeOK
  <2>2. QED
    BY <2>1 DEF Aside
<1>8. ASSUME NEW item \in items, NEW auditor \in Auditors, NEW to \in Zones \cup {None},
             PostAdjustment(h, [item |-> item, by |-> auditor, to |-> to])
      PROVE  Aside
  <2> DEFINE d == [item |-> item, by |-> auditor, to |-> to]
  <2>1. d \in Adjustment
    BY <1>1 DEF Adjustment, TypeOK
  <2>2. [at |-> "adjust", adjustment |-> d] \in Op
    BY <2>1, Requests
  <2>3. GoOn(h, [at |-> "adjust", adjustment |-> d])
    BY <1>8, BeginsAndEnds DEF PostAdjustment
  <2>4. QED
    BY <1>1, <1>8, <2>2, <2>3, GoesAside DEF PostAdjustment
<1>9. QED
  BY <1>2, <1>3, <1>4, <1>5, <1>6, <1>7, <1>8 DEF Handle

LEMMA HeldStep == Types /\ Held /\ [Next]_vars => Held'
<1> SUFFICES ASSUME Types, Held, [Next]_vars PROVE Held'
  OBVIOUS
<1>1. TypeOK /\ Idle \in Op /\ Idle.at = "idle"
  BY Requests DEF Types, Idle
<1>2. ASSUME NEW h \in Handlers, DeleteItems(h) PROVE Held'
  <2>1. items' = items /\ adjustments' = adjustments
    BY <1>2 DEF DeleteItems
  <2>2. CASE \E d \in adjustments : d.item \in items
    <3>1. GoOn(h, Idle)
      BY <1>2, <2>2, BeginsAndEnds DEF DeleteItems
    <3>2. QED
      BY <1>1, <2>1, <3>1, GoesAside, HeldAside
  <2>3. CASE ~ \E d \in adjustments : d.item \in items
    <3>1. adjustments' = {}
      BY <2>1, <2>3 DEF Held
    <3>2. QED
      BY <3>1 DEF Held
  <2>4. QED
    BY <2>2, <2>3
<1>3. ASSUME NEW h \in Handlers, InsertItems(h) PROVE Held'
  <2>1. /\ op[h].at = "insert" /\ items' = (items \ op[h].old) \cup op[h].new
        /\ adjustments' = adjustments /\ GoOn(h, Idle)
    BY <1>3, BeginsAndEnds DEF InsertItems
  <2>2. op'[h] = Idle /\ \A g \in Handlers \ {h} : op'[g] = op[g]
    BY <1>1, <2>1, Goes
  <2>3. QED
    BY <1>1, <2>1, <2>2 DEF Held
<1>4. ASSUME NEW h \in Handlers, CreateAdjustment(h) PROVE Held'
  <2> DEFINE d == op[h].adjustment
  <2>1. d \in Adjustment
    BY <1>1, <1>4, Read DEF CreateAdjustment
  <2>2. [at |-> "apply", adjustment |-> d] \in Op
    BY <2>1, Requests
  <2>3. PICK next \in {Idle, [at |-> "apply", adjustment |-> d]} : GoOn(h, next)
    BY <1>4, BeginsAndEnds DEF CreateAdjustment
  <2>4. /\ op'[h].at # "insert" /\ \A g \in Handlers \ {h} : op'[g] = op[g]
    <3>1. next \in Op /\ next.at # "insert"
      BY <1>1, <2>2, <2>3
    <3>2. QED
      BY <1>1, <2>3, <3>1, Goes
  <2>5. /\ items' = items /\ adjustments' \subseteq adjustments \cup {d}
        /\ adjustments' # adjustments => d.item \in items
        /\ \A g \in Handlers : op[g].at = "insert" => d.item \notin op[g].old
    BY <1>4 DEF CreateAdjustment
  <2>6. ASSUME NEW e \in adjustments'
        PROVE  e.item \in items /\ \A g \in Handlers : op[g].at = "insert" => e.item \notin op[g].old
    BY <2>5, <2>6 DEF Held
  <2>7. QED
    BY <2>4, <2>5, <2>6 DEF Held
<1>5. ASSUME NEW a \in Assets, NEW z \in Zones, MoveAsset(a, z) PROVE Held'
  BY <1>5 DEF MoveAsset, Held
<1>6. CASE UNCHANGED vars
  BY <1>6 DEF vars, Held
<1>7. QED
  BY <1>2, <1>3, <1>4, <1>5, <1>6, AsideSteps, HeldAside DEF Next

\* An adjustment is never left without the item it adjusts, whatever
\* reconciliation was under way: it is inserted only while its item is there
\* and no transaction is deleting it, and the foreign key keeps the item from
\* then on (runReconciliation, postAdjustment).  This holds of every campaign.
THEOREM AdjustedItemStays == Spec => [](\A d \in adjustments : d.item \in items)
<1>1. Init => Held
  BY DEF Init, Held
<1>2. Held => \A d \in adjustments : d.item \in items
  BY DEF Held
<1>3. QED
  BY <1>1, <1>2, InitTypes, TypesStep, HeldStep, PTL DEF Spec

-----------------------------------------------------------------------------
(* A blind campaign with a list of its own is settled for good *)

Settled == mode = "blind" /\ status = "completed"

\* Nothing has happened to a draft but that handlers are about to start it.
Drafted ==
  status = "draft" => early = {} /\ \A h \in Handlers : op[h].at \in {"idle", "start"}

\* Once it is started its snapshot has every asset of its list.
Snapped == mode = "blind" /\ status # "draft" => Explicit \subseteq Snapshotted

\* Nothing is reconciled or adjusted before it is over.
AfterAll ==
  /\ items # {} \/ adjustments # {} => Settled
  /\ \A h \in Handlers :
       op[h].at \in {"reconcile", "delete", "insert", "adjust", "apply"} => Settled

Course == Drafted /\ Snapped /\ AfterAll

LEMMA InitCourse == Init => Course
<1>1. SUFFICES ASSUME Init PROVE Course
  OBVIOUS
<1>2. \A h \in Handlers : op[h].at = "idle"
  BY <1>1 DEF Init, Idle
<1>3. QED
  BY <1>1, <1>2 DEF Init, Course, Drafted, Snapped, AfterAll

\* What a step makes of the campaign, apart from starting and completing it.
LEMMA Elsewhere ==
  ASSUME NEW h \in Handlers, Handle(h), ~MarkStarted(h), ~MarkCompleted(h)
  PROVE  UNCHANGED <<mode, status, snapshot, early>>
  BY DEF Handle, StartCampaign, RecordScan, StoreScan, SubmitZone, StoreSubmission,
    CompleteCampaign, Reconcile, DeleteItems, InsertItems, PostAdjustment, CreateAdjustment,
    ApplyToRegister, Die

LEMMA OthersGoOn ==
  ASSUME TypeOK, NEW h \in Handlers, Handle(h)
  PROVE  \A g \in Handlers \ {h} : op'[g] = op[g]
<1>1. \E next : op' = [op EXCEPT ![h] = next]
  BY DEF Handle, StartCampaign, MarkStarted, RecordScan, StoreScan, SubmitZone,
    StoreSubmission, CompleteCampaign, MarkCompleted, Reconcile, DeleteItems, InsertItems,
    PostAdjustment, CreateAdjustment, ApplyToRegister, Die, Begin, Done, GoOn
<1>2. QED
  BY <1>1 DEF TypeOK

\* The phases a handler comes to, and from which.
LEMMA PhaseSteps ==
  ASSUME TypeOK, NEW h \in Handlers, Handle(h)
  PROVE  \/ op'[h].at = "idle"
         \/ op'[h].at = "start" /\ status = "draft" /\ op[h].at = "idle"
         \/ op'[h].at \in {"scan", "submit", "complete"} /\ status = "in_progress"
         \/ op'[h].at = "reconcile" /\ op[h].at = "complete" /\ MarkCompleted(h)
         \/ op'[h].at = "delete" /\ op[h].at = "reconcile" /\ Reconcile(h)
         \/ op'[h].at = "insert" /\ op[h].at = "delete" /\ DeleteItems(h)
         \/ op'[h].at = "adjust" /\ items # {}
         \/ op'[h].at = "apply" /\ op[h].at = "adjust"
<1>1. \A next : GoOn(h, next) => op'[h] = next
  BY DEF TypeOK, GoOn
<1>2. Idle.at = "idle" /\ (Done(h) => op'[h].at = "idle")
  BY <1>1, BeginsAndEnds DEF Idle
<1>3. \A request : Begin(h, request) => op[h].at = "idle" /\ op'[h] = request
  BY <1>1, <1>2, BeginsAndEnds
<1>4. CASE StartCampaign(h) \/ CompleteCampaign(h)
  BY <1>3, <1>4 DEF StartCampaign, CompleteCampaign
<1>5. CASE MarkStarted(h) \/ StoreScan(h) \/ StoreSubmission(h) \/ InsertItems(h)
             \/ ApplyToRegister(h) \/ Die(h)
  BY <1>2, <1>5 DEF MarkStarted, StoreScan, StoreSubmission, InsertItems, ApplyToRegister, Die
<1>6. ASSUME NEW s \in Scan, RecordScan(h, s)
      PROVE  op'[h].at = "scan" /\ status = "in_progress"
  BY <1>3, <1>6 DEF RecordScan
<1>7. ASSUME NEW z \in Zones, NEW auditor \in Auditors, SubmitZone(h, z, auditor)
      PROVE  op'[h].at = "submit" /\ status = "in_progress"
  BY <1>3, <1>7 DEF SubmitZone
<1>8. CASE MarkCompleted(h)
  BY <1>1, <1>2, <1>8 DEF MarkCompleted
<1>9. CASE Reconcile(h)
  <2>1. op'[h].at = "delete" /\ op[h].at = "reconcile"
    BY <1>1, <1>9 DEF Reconcile
  <2>2. QED
    BY <1>9, <2>1
<1>10. CASE DeleteItems(h)
  BY <1>1, <1>2, <1>10 DEF DeleteItems
<1>11. ASSUME NEW item \in items, NEW auditor \in Auditors, NEW to \in Zones \cup {None},
              PostAdjustment(h, [item |-> item, by |-> auditor, to |-> to])
       PROVE  op'[h].at = "adjust" /\ items # {}
  BY <1>3, <1>11 DEF PostAdjustment
<1>12. CASE CreateAdjustment(h)
  BY <1>1, <1>2, <1>12 DEF CreateAdjustment
<1>13. QED
  BY <1>4, <1>5, <1>6, <1>7, <1>8, <1>9, <1>10, <1>11, <1>12 DEF Handle

\* Once settled, the status, the snapshot and what was early are what they are.
LEMMA SettledStays ==
  ASSUME Explicit # {}, Snapped, Settled, [Next]_vars
  PROVE  Settled' /\ snapshot' = snapshot /\ early' = early
<1>1. ASSUME NEW h \in Handlers, MarkStarted(h)
      PROVE  Settled' /\ snapshot' = snapshot /\ early' = early
  <2>1. ExpectedAssets \cap Snapshotted # {}
    BY DEF ExpectedAssets, Snapped, Settled
  <2>2. QED
    BY <1>1, <2>1 DEF MarkStarted, Settled
<1>2. ASSUME NEW h \in Handlers, MarkCompleted(h)
      PROVE  Settled' /\ snapshot' = snapshot /\ early' = early
  BY <1>2 DEF MarkCompleted, Settled
<1>3. ASSUME NEW a \in Assets, NEW z \in Zones, MoveAsset(a, z)
      PROVE  Settled' /\ snapshot' = snapshot /\ early' = early
  BY <1>3 DEF MoveAsset, Settled
<1>4. CASE UNCHANGED vars
  BY <1>4 DEF vars, Settled
<1>5. QED
  BY <1>1, <1>2, <1>3, <1>4, Elsewhere DEF Next, Settled

LEMMA DraftedStep ==
  ASSUME Types, Drafted, AfterAll, [Next]_vars
  PROVE  Drafted'
<1>1. TypeOK
  BY DEF Types
<1>2. ASSUME NEW h \in Handlers, Handle(h) PROVE Drafted'
  <2>1. SUFFICES ASSUME status' = "draft" PROVE Drafted'
    BY DEF Drafted
  <2>2. status = "draft" /\ early' = early
    BY <1>2, <2>1, Elsewhere DEF MarkStarted, MarkCompleted
  <2>3. early = {} /\ \A g \in Handlers : op[g].at \in {"idle", "start"}
    BY <2>2 DEF Drafted
  <2>4. op'[h].at \in {"idle", "start"}
    BY <1>1, <1>2, <2>2, <2>3, PhaseSteps DEF AfterAll, Settled
  <2>5. QED
    BY <1>1, <1>2, <2>2, <2>3, <2>4, OthersGoOn DEF Drafted
<1>3. ASSUME NEW a \in Assets, NEW z \in Zones, MoveAsset(a, z) PROVE Drafted'
  BY <1>3 DEF MoveAsset, Drafted
<1>4. CASE UNCHANGED vars
  BY <1>4 DEF vars, Drafted
<1>5. QED
  BY <1>2, <1>3, <1>4 DEF Next

LEMMA SnappedStep ==
  ASSUME Types, Drafted, Snapped, [Next]_vars
  PROVE  Snapped'
<1>1. TypeOK
  BY DEF Types
<1>2. ASSUME NEW h \in Handlers, MarkStarted(h) PROVE Snapped'
  <2>1. CASE Explicit = {}
    BY <2>1 DEF Snapped
  <2>2. CASE Explicit # {} /\ mode = "blind" /\ Explicit \cap Snapshotted = {}
    <3>1. \A a \in Assets : a \in Explicit => snapshot'[a] = register[a]
      BY <1>2, <2>2 DEF MarkStarted, ExpectedAssets
    <3>2. \A a \in Explicit : a \in Assets /\ snapshot'[a] # None
      BY <1>1, <3>1, ScopeAssumption, NamesAssumption DEF TypeOK
    <3>3. QED
      BY <3>2 DEF Snapped, Snapshotted
  <2>3. CASE Explicit # {} /\ mode = "blind" /\ Explicit \cap Snapshotted # {}
    <3>1. UNCHANGED <<mode, status, snapshot>>
      BY <1>2, <2>3 DEF MarkStarted, ExpectedAssets
    <3>2. QED
      BY <3>1 DEF Snapped, Snapshotted
  <2>4. CASE mode # "blind"
    BY <1>2, <2>4 DEF MarkStarted, Snapped
  <2>5. QED
    BY <2>1, <2>2, <2>3, <2>4
<1>3. ASSUME NEW h \in Handlers, MarkCompleted(h) PROVE Snapped'
  <2>1. status # "draft" /\ UNCHANGED <<mode, snapshot>>
    BY <1>3 DEF MarkCompleted, Drafted
  <2>2. QED
    BY <2>1 DEF Snapped, Snapshotted
<1>4. ASSUME NEW a \in Assets, NEW z \in Zones, MoveAsset(a, z) PROVE Snapped'
  BY <1>4 DEF MoveAsset, Snapped, Snapshotted
<1>5. CASE UNCHANGED vars
  BY <1>5 DEF vars, Snapped, Snapshotted
<1>6. ASSUME NEW h \in Handlers, Handle(h), ~MarkStarted(h), ~MarkCompleted(h) PROVE Snapped'
  <2>1. UNCHANGED <<mode, status, snapshot>>
    BY <1>6, Elsewhere
  <2>2. QED
    BY <2>1 DEF Snapped, Snapshotted
<1>7. QED
  BY <1>2, <1>3, <1>4, <1>5, <1>6 DEF Next

LEMMA AfterAllStep ==
  ASSUME Explicit # {}, Types, Snapped, AfterAll, [Next]_vars
  PROVE  AfterAll'
<1>1. TypeOK
  BY DEF Types
<1>2. CASE Settled
  BY <1>2, SettledStays DEF AfterAll
<1>3. CASE ~Settled
  <2>1. /\ items = {} /\ adjustments = {}
        /\ \A h \in Handlers :
             op[h].at \notin {"reconcile", "delete", "insert", "adjust", "apply"}
    BY <1>3 DEF AfterAll
  <2>2. ASSUME NEW h \in Handlers, Handle(h) PROVE AfterAll'
    <3>1. Aside
      BY <2>1, <2>2, AsideSteps DEF DeleteItems, InsertItems, CreateAdjustment
    <3>2. items' = {} /\ adjustments' = {}
      BY <2>1, <3>1 DEF Aside
    <3>3. \A g \in Handlers \ {h} : op'[g] = op[g]
      BY <1>1, <2>2, OthersGoOn
    <3>4. /\ op'[h].at \notin {"delete", "insert", "adjust", "apply"}
          /\ op'[h].at = "reconcile" => MarkCompleted(h)
      BY <1>1, <2>1, <2>2, PhaseSteps
    <3>5. op'[h].at = "reconcile" => Settled'
      <4>1. SUFFICES ASSUME MarkCompleted(h), op'[h].at = "reconcile" PROVE Settled'
        BY <3>4
      <4>2. mode = "blind"
        BY <1>1, <4>1 DEF MarkCompleted, Done, GoOn, TypeOK, Idle
      <4>3. QED
        BY <4>1, <4>2 DEF MarkCompleted, Settled
    <3>6. QED
      BY <2>1, <3>2, <3>3, <3>4, <3>5 DEF AfterAll
  <2>3. ASSUME NEW a \in Assets, NEW z \in Zones, MoveAsset(a, z) PROVE AfterAll'
    BY <2>3 DEF MoveAsset, AfterAll, Settled
  <2>4. CASE UNCHANGED vars
    BY <2>4 DEF vars, AfterAll, Settled
  <2>5. QED
    BY <2>2, <2>3, <2>4 DEF Next
<1>4. QED
  BY <1>2, <1>3

LEMMA CourseStep ==
  ASSUME Explicit # {}, Types, Course, [Next]_vars
  PROVE  Course'
BY DraftedStep, SnappedStep, AfterAllStep DEF Course

LEMMA CourseHolds == Spec => [](Types /\ (Explicit # {} => Course))
<1>1. /\ Types /\ (Explicit # {} => Course) /\ [Next]_vars
      => (Types /\ (Explicit # {} => Course))'
  BY TypesStep, CourseStep
<1>2. QED
  BY <1>1, InitTypes, InitCourse, PTL DEF Spec

\* An adjustment is never left without the finding it adjusts, and there is
\* none before the campaign is over, in every campaign that has a list of
\* assets: with one that takes its site's assets the start can come back.
THEOREM AdjustmentsSettled ==
  ASSUME Explicit # {}
  PROVE  Spec => []AdjustmentsKeepTheirItem
<1>1. Course /\ (\A d \in adjustments : d.item \in items) => AdjustmentsKeepTheirItem
  BY DEF Course, AfterAll, Settled, AdjustmentsKeepTheirItem
<1>2. QED
  BY <1>1, CourseHolds, AdjustedItemStays, PTL

\* What was settled stays settled in a campaign with a list: a blind one is
\* started once, and completed for good, although no handler looks at the
\* status again before it writes (startCampaign, completeCampaign); and the
\* first to submit a zone stays its auditor, in every campaign.
THEOREM SettledForGood == Spec => SettledStaysSettled
<1>1. /\ Types /\ (Explicit # {} => Course) /\ [Next]_vars
      => [StartHolds /\ SubmissionHolds]_vars
  <2>1. SUFFICES ASSUME Types, Explicit # {} => Course, Next
                 PROVE  StartHolds /\ SubmissionHolds
    BY DEF vars
  <2>2. SubmissionHolds
    BY <2>1 DEF Types, TypeOK, SubmissionHolds, Next, Handle, StartCampaign, MarkStarted,
      RecordScan, StoreScan, SubmitZone, StoreSubmission, CompleteCampaign, MarkCompleted,
      Reconcile, DeleteItems, InsertItems, PostAdjustment, CreateAdjustment, ApplyToRegister,
      Die, MoveAsset
  <2>3. StartHolds
    <3>1. SUFFICES ASSUME mode = "blind", status # "draft", Explicit # {}
                   PROVE  /\ snapshot' = snapshot
                          /\ status = "completed" => status' = "completed"
      BY DEF StartHolds
    <3>2. status = "completed" => status' = "completed" /\ snapshot' = snapshot
      BY <2>1, <3>1, SettledStays DEF Course, Settled, vars
    <3>3. ASSUME NEW h \in Handlers, MarkStarted(h) PROVE snapshot' = snapshot
      <4>1. ExpectedAssets \cap Snapshotted # {}
        BY <2>1, <3>1 DEF Course, Snapped, ExpectedAssets
      <4>2. QED
        BY <3>1, <3>3, <4>1 DEF MarkStarted
    <3>4. snapshot' = snapshot
      BY <2>1, <3>3, Elsewhere DEF Next, MoveAsset, MarkCompleted
    <3>5. QED
      BY <3>2, <3>4
  <2>4. QED
    BY <2>2, <2>3
<1>2. QED
  BY <1>1, CourseHolds, PTL DEF Spec, SettledStaysSettled

-----------------------------------------------------------------------------
(* A reconciliation that is stored is whole *)

RunOf(h) == {i \in items : i.by = h}

\* What a run of handler h knows of the assets of a snapshot and of the early scans.
Knows(h, run, assets, before) ==
  /\ \A j \in run : j.by = h
  /\ \A a \in assets : \E i \in run : {j \in run : j.of = a} = {i}
  /\ \A s \in before : s.tag \in Unknown => \E j \in run : j.of = s.tag /\ j.found = s.zone
  /\ \A s \in before, j \in run : j.class = "missing" => s.tag # j.of

KnowsAll(h, run) == Knows(h, run, Snapshotted, early)

\* A handler reconciles once: there is nothing of its own among what is stored
\* or about to be deleted before it is through.
Reconciling == {"complete", "reconcile", "delete", "insert"}
Apart ==
  /\ \A i \in items : op[i.by].at \notin Reconciling
  /\ \A h \in Handlers :
       op[h].at = "insert" => \A i \in op[h].old : op[i.by].at \notin Reconciling

\* A run is stored, deleted and replaced as a whole, and knows all it should.
Whole ==
  /\ \A g \in Handlers : RunOf(g) # {} => KnowsAll(g, RunOf(g))
  /\ \A h \in Handlers :
       /\ op[h].at \in {"delete", "insert"} => KnowsAll(h, op[h].new)
       /\ op[h].at = "insert" =>
            \A g \in Handlers : RunOf(g) \subseteq op[h].old \/ RunOf(g) \cap op[h].old = {}

Runs == early \subseteq scans /\ Apart /\ Whole

\* What Reconcile classifies is whole.
LEMMA ReconcileKnows ==
  ASSUME Types, early \subseteq scans, NEW h \in Handlers, NEW f \in Classifications(h)
  PROVE  KnowsAll(h, {f[a] : a \in Snapshotted} \cup SurplusItems(h))
<1> DEFINE run == {f[a] : a \in Snapshotted} \cup SurplusItems(h)
<1>1. /\ \A s \in early : s \in scans
      /\ \A s \in scans : s.tag \in Tags
      /\ Snapshotted \subseteq Assets
  BY DEF Types, TypeOK, Scan, Snapshotted
<1>2. \A a \in Snapshotted : f[a] \in AssetItems(h, a)
  BY DEF Classifications
<1>3. ASSUME NEW a \in Snapshotted
      PROVE  /\ f[a].by = h /\ f[a].of = a
             /\ f[a].class = "missing" => \A s \in early : s.tag # a
  <2>1. CASE ScansOf(a) = {}
    <3>1. f[a] = [by |-> h, of |-> a, class |-> "missing", was |-> snapshot[a], found |-> None]
      BY <1>2, <2>1 DEF AssetItems
    <3>2. QED
      BY <1>1, <2>1, <3>1 DEF ScansOf
  <2>2. CASE ScansOf(a) # {}
    <3>1. PICK s \in ScansOf(a) :
            f[a] = [by |-> h, of |-> a,
                    class |-> IF s.zone # snapshot[a] THEN "misplaced" ELSE "verified",
                    was |-> snapshot[a], found |-> s.zone]
      BY <1>2, <2>2 DEF AssetItems
    <3>2. QED
      BY <3>1
  <2>3. QED
    BY <2>1, <2>2
<1>4. ASSUME NEW j \in SurplusItems(h)
      PROVE  j.by = h /\ j.class = "surplus" /\ j.of \in Unknown
  BY DEF SurplusItems
<1>5. \A j \in run : j.by = h
  BY <1>3, <1>4
<1>6. ASSUME NEW a \in Snapshotted PROVE {j \in run : j.of = a} = {f[a]}
  <2>1. a \notin Unknown
    BY <1>1, UnknownAssumption
  <2>2. QED
    BY <1>3, <1>4, <2>1
<1>7. ASSUME NEW s \in early, s.tag \in Unknown
      PROVE  \E j \in run : j.of = s.tag /\ j.found = s.zone
  <2>1. [by |-> h, of |-> s.tag, class |-> "surplus", was |-> None, found |-> s.zone]
          \in SurplusItems(h)
    BY <1>1, <1>7 DEF SurplusItems
  <2>2. QED
    BY <2>1
<1>8. \A s \in early, j \in run : j.class = "missing" => s.tag # j.of
  BY <1>3, <1>4
<1>9. \A a \in Snapshotted : \E i \in run : {j \in run : j.of = a} = {i}
  BY <1>6
<1>10. QED
  BY <1>5, <1>7, <1>8, <1>9 DEF KnowsAll, Knows

\* Before it is settled there is nothing to delete or insert.
LEMMA Unsettled ==
  ASSUME Types, AfterAll, ~Settled, [Next]_vars
  PROVE  items' = {} /\ \A g \in Handlers : op'[g].at \notin {"delete", "insert"}
<1>1. /\ items = {} /\ TypeOK
      /\ \A g \in Handlers : op[g].at \notin {"reconcile", "delete", "insert", "adjust"}
  BY DEF AfterAll, Types
<1>2. ASSUME NEW h \in Handlers, Handle(h)
      PROVE  items' = {} /\ \A g \in Handlers : op'[g].at \notin {"delete", "insert"}
  <2>1. items' = {}
    BY <1>1, <1>2, AsideSteps DEF Aside, DeleteItems, InsertItems, CreateAdjustment
  <2>2. op'[h].at \notin {"delete", "insert"}
    BY <1>1, <1>2, PhaseSteps
  <2>3. QED
    BY <1>1, <1>2, <2>1, <2>2, OthersGoOn
<1>3. ASSUME NEW a \in Assets, NEW z \in Zones, MoveAsset(a, z)
      PROVE  items' = {} /\ \A g \in Handlers : op'[g].at \notin {"delete", "insert"}
  BY <1>1, <1>3 DEF MoveAsset
<1>4. CASE UNCHANGED vars
  BY <1>1, <1>4 DEF vars
<1>5. QED
  BY <1>2, <1>3, <1>4 DEF Next

\* The handlers that neither reconcile, delete nor insert.
LEMMA NoRun ==
  ASSUME Types, NEW h \in Handlers, Handle(h),
         ~Reconcile(h), ~DeleteItems(h), ~InsertItems(h)
  PROVE  items' = items /\ op'[h].at \notin {"delete", "insert"}
<1>1. items' = items
  BY AsideSteps DEF Aside, CreateAdjustment
<1>2. QED
  BY <1>1, PhaseSteps DEF Types

LEMMA DeletesAndInserts ==
  ASSUME TypeOK, NEW h \in Handlers
  PROVE  /\ DeleteItems(h) =>
              /\ op[h].at = "delete" /\ items' = items
              /\ op'[h].at = "insert" => op'[h].old = items /\ op'[h].new = op[h].new
              /\ op'[h].at \in {"idle", "insert"}
         /\ InsertItems(h) =>
              /\ op[h].at = "insert" /\ items' = (items \ op[h].old) \cup op[h].new
              /\ op'[h].at = "idle"
<1>1. \A next : GoOn(h, next) => op'[h] = next
  BY DEF TypeOK, GoOn
<1>2. Idle.at = "idle" /\ (Done(h) => op'[h].at = "idle")
  BY <1>1, BeginsAndEnds DEF Idle
<1>3. QED
  BY <1>1, <1>2 DEF DeleteItems, InsertItems

LEMMA EarlyStep ==
  ASSUME early \subseteq scans, [Next]_vars
  PROVE  (early \subseteq scans)'
<1>1. scans \subseteq scans' /\ early' \in {early, scans}
  BY DEF Next, Handle, StartCampaign, MarkStarted, RecordScan, StoreScan, SubmitZone,
    StoreSubmission, CompleteCampaign, MarkCompleted, Reconcile, DeleteItems, InsertItems,
    PostAdjustment, CreateAdjustment, ApplyToRegister, Die, MoveAsset, vars
<1>2. QED
  BY <1>1

LEMMA ApartStep ==
  ASSUME Types, Settled, Apart, Whole, NEW h \in Handlers, Handle(h)
  PROVE  Apart'
<1>1. TypeOK /\ \A g \in Handlers \ {h} : op'[g] = op[g]
  BY OthersGoOn DEF Types
<1>2. op'[h].at \in Reconciling => op[h].at \in Reconciling
  BY <1>1, PhaseSteps DEF Settled, Reconciling
<1>3. \A i \in items \cup items' : i.by \in Handlers
  BY TypesStep DEF Types, TypeOK, Item, Next
<1>4. \A g \in Handlers : op'[g].at \in Reconciling => op[g].at \in Reconciling
  BY <1>1, <1>2
<1>5. \A i \in items : op'[i.by].at \notin Reconciling
  BY <1>3, <1>4 DEF Apart
<1>6. ASSUME NEW g \in Handlers, op[g].at = "insert", NEW i \in op[g].old
      PROVE  op'[i.by].at \notin Reconciling
  <2>1. i.by \in Handlers
    BY <1>1, <1>6, Read DEF Item
  <2>2. QED
    BY <1>4, <1>6, <2>1 DEF Apart
<1>7. CASE InsertItems(h)
  <2>1. /\ op[h].at = "insert" /\ op'[h].at = "idle"
        /\ items' = (items \ op[h].old) \cup op[h].new
    BY <1>1, <1>7, DeletesAndInserts
  <2>2. \A i \in op[h].new : i.by = h
    BY <2>1 DEF Whole, KnowsAll, Knows
  <2>3. \A i \in items' : op'[i.by].at \notin Reconciling
    BY <1>5, <2>1, <2>2 DEF Reconciling
  <2>4. QED
    BY <1>1, <1>6, <2>1, <2>3 DEF Apart
<1>8. CASE DeleteItems(h)
  <2>1. /\ items' = items
        /\ op'[h].at = "insert" => op'[h].old = items
    BY <1>1, <1>8, DeletesAndInserts
  <2>2. QED
    BY <1>1, <1>5, <1>6, <2>1 DEF Apart
<1>9. CASE Reconcile(h)
  <2>1. items' = items /\ op'[h].at = "delete"
    BY <1>1, <1>9 DEF Reconcile, GoOn, TypeOK
  <2>2. QED
    BY <1>1, <1>5, <1>6, <2>1 DEF Apart
<1>10. CASE ~Reconcile(h) /\ ~DeleteItems(h) /\ ~InsertItems(h)
  <2>1. items' = items /\ op'[h].at \notin {"delete", "insert"}
    BY <1>10, NoRun
  <2>2. QED
    BY <1>1, <1>5, <1>6, <2>1 DEF Apart
<1>11. QED
  BY <1>7, <1>8, <1>9, <1>10

LEMMA WholeStep ==
  ASSUME Types, early \subseteq scans, Apart, Whole, NEW h \in Handlers, Handle(h),
         snapshot' = snapshot, early' = early
  PROVE  Whole'
<1>1. TypeOK /\ \A g \in Handlers \ {h} : op'[g] = op[g]
  BY OthersGoOn DEF Types
<1>2. Snapshotted' = Snapshotted
  BY DEF Snapshotted
<1>3. CASE InsertItems(h)
  <2>1. /\ op[h].at = "insert" /\ op'[h].at = "idle"
        /\ items' = (items \ op[h].old) \cup op[h].new
    BY <1>1, <1>3, DeletesAndInserts
  <2>2. KnowsAll(h, op[h].new) /\ \A i \in op[h].new : i.by = h
    BY <2>1 DEF Whole, KnowsAll, Knows
  <2>3. RunOf(h) = {}
    BY <2>1 DEF Apart, RunOf, Reconciling
  <2>4. RunOf(h)' = op[h].new
    BY <2>1, <2>2, <2>3 DEF RunOf
  <2>5. \A g \in Handlers \ {h} : RunOf(g)' = RunOf(g) \/ RunOf(g)' = {}
    <3>1. \A g \in Handlers \ {h} : RunOf(g)' = RunOf(g) \ op[h].old
      BY <2>1, <2>2 DEF RunOf
    <3>2. QED
      BY <2>1, <3>1 DEF Whole
  <2>6. ASSUME NEW k \in Handlers, op'[k].at = "insert", NEW g \in Handlers
        PROVE  RunOf(g)' \subseteq op'[k].old \/ RunOf(g)' \cap op'[k].old = {}
    <3>1. k # h /\ op'[k] = op[k]
      BY <1>1, <2>1, <2>6
    <3>2. CASE g # h
      BY <2>5, <2>6, <3>1, <3>2 DEF Whole
    <3>3. CASE g = h
      <4>1. \A i \in op[k].old : i.by # h
        BY <2>1, <2>6, <3>1 DEF Apart, Reconciling
      <4>2. QED
        BY <2>2, <2>4, <3>1, <3>3, <4>1
    <3>4. QED
      BY <3>2, <3>3
  <2>7. ASSUME NEW g \in Handlers, RunOf(g)' # {}
        PROVE  Knows(g, RunOf(g)', Snapshotted', early')
    BY <1>2, <2>2, <2>4, <2>5, <2>7 DEF Whole, KnowsAll
  <2>8. ASSUME NEW g \in Handlers, op'[g].at \in {"delete", "insert"}
        PROVE  Knows(g, op'[g].new, Snapshotted', early')
    BY <1>1, <1>2, <2>1, <2>8 DEF Whole, KnowsAll
  <2>9. QED
    BY <2>6, <2>7, <2>8 DEF Whole, KnowsAll
<1>4. ASSUME items' = items,
             op'[h].at = "insert" => op'[h].old = items,
             op'[h].at \in {"delete", "insert"} => KnowsAll(h, op'[h].new)
      PROVE  Whole'
  <2>1. \A g : RunOf(g)' = RunOf(g) /\ RunOf(g) \subseteq items
    BY <1>4 DEF RunOf
  <2>2. ASSUME NEW g \in Handlers, RunOf(g)' # {}
        PROVE  Knows(g, RunOf(g)', Snapshotted', early')
    BY <1>2, <2>1, <2>2 DEF Whole, KnowsAll
  <2>3. ASSUME NEW g \in Handlers, op'[g].at \in {"delete", "insert"}
        PROVE  Knows(g, op'[g].new, Snapshotted', early')
    BY <1>1, <1>2, <1>4, <2>3 DEF Whole, KnowsAll
  <2>4. ASSUME NEW k \in Handlers, op'[k].at = "insert", NEW g \in Handlers
        PROVE  RunOf(g)' \subseteq op'[k].old \/ RunOf(g)' \cap op'[k].old = {}
    BY <1>1, <1>4, <2>1, <2>4 DEF Whole
  <2>5. QED
    BY <2>2, <2>3, <2>4 DEF Whole, KnowsAll
<1>5. CASE DeleteItems(h)
  <2>1. /\ items' = items /\ op'[h].at # "delete" /\ op[h].at = "delete"
        /\ op'[h].at = "insert" => op'[h].old = items /\ op'[h].new = op[h].new
    BY <1>1, <1>5, DeletesAndInserts
  <2>2. QED
    BY <1>4, <2>1 DEF Whole
<1>6. CASE Reconcile(h)
  <2>1. PICK f \in Classifications(h) :
          GoOn(h, [at |-> "delete", new |-> {f[a] : a \in Snapshotted} \cup SurplusItems(h)])
    BY <1>6 DEF Reconcile
  <2>2. /\ op'[h].at = "delete"
        /\ op'[h].new = {f[a] : a \in Snapshotted} \cup SurplusItems(h)
        /\ items' = items
    BY <1>1, <1>6, <2>1 DEF GoOn, TypeOK, Reconcile
  <2>3. QED
    BY <1>4, <2>1, <2>2, ReconcileKnows
<1>7. CASE ~Reconcile(h) /\ ~DeleteItems(h) /\ ~InsertItems(h)
  BY <1>4, <1>7, NoRun
<1>8. QED
  BY <1>3, <1>5, <1>6, <1>7

LEMMA RunsStep ==
  ASSUME Explicit # {}, Types, Course, Runs, [Next]_vars
  PROVE  Runs'
<1>1. (early \subseteq scans)'
  BY EarlyStep DEF Runs
<1>2. CASE ~Settled
  <2>1. items' = {} /\ \A g \in Handlers : op'[g].at \notin {"delete", "insert"}
    BY <1>2, Unsettled DEF Course
  <2>2. QED
    BY <1>1, <2>1 DEF Runs, Apart, Whole, RunOf
<1>3. CASE Settled
  <2>1. snapshot' = snapshot /\ early' = early
    BY <1>3, SettledStays DEF Course
  <2>2. ASSUME NEW h \in Handlers, Handle(h) PROVE Runs'
    BY <1>1, <1>3, <2>1, <2>2, ApartStep, WholeStep DEF Runs
  <2>3. CASE (\E a \in Assets, z \in Zones : MoveAsset(a, z)) \/ UNCHANGED vars
    <3>1. items' = items /\ op' = op /\ Snapshotted' = Snapshotted
      BY <2>1, <2>3 DEF MoveAsset, vars, Snapshotted
    <3>2. \A g : RunOf(g)' = RunOf(g)
      BY <3>1 DEF RunOf
    <3>3. QED
      BY <1>1, <2>1, <3>1, <3>2 DEF Runs, Apart, Whole, KnowsAll
  <2>4. QED
    BY <2>2, <2>3 DEF Next
<1>4. QED
  BY <1>2, <1>3

\* A stored reconciliation of a blind campaign with a list classifies each
\* asset of the snapshot once, names every unknown tag scanned before the
\* campaign was completed, and reports no asset missing that was scanned by
\* then: completeCampaign writes the status before runReconciliation reads the
\* scans, and a run that deletes another deletes the whole of it.
THEOREM ReconciliationsSound ==
  ASSUME Explicit # {}
  PROVE  Spec => []ReconciliationIsSound
<1>1. Init => Runs
  BY DEF Init, Runs, Apart, Whole, RunOf, Idle
<1>2. Types /\ Course /\ Runs /\ [Next]_vars => Runs'
  BY RunsStep
<1>3. Types /\ Runs => ReconciliationIsSound
  <2>1. SUFFICES ASSUME Types, Runs, NEW i \in items
                 PROVE  LET run == {j \in items : j.by = i.by}
                        IN  /\ \A a \in Snapshotted : Cardinality({j \in run : j.of = a}) = 1
                            /\ \A s \in early :
                                 /\ s.tag \in Unknown =>
                                      \E j \in run : j.of = s.tag /\ j.found = s.zone
                                 /\ i.class = "missing" => s.tag # i.of
    BY DEF ReconciliationIsSound
  <2>2. i.by \in Handlers /\ i \in RunOf(i.by)
    BY <2>1 DEF Types, TypeOK, Item, RunOf
  <2>3. Knows(i.by, RunOf(i.by), Snapshotted, early)
    BY <2>1, <2>2 DEF Runs, Whole, KnowsAll
  <2>4. ASSUME NEW a \in Snapshotted
        PROVE  Cardinality({j \in RunOf(i.by) : j.of = a}) = 1
    BY <2>3, FS_Singleton DEF Knows
  <2>5. QED
    BY <2>2, <2>3, <2>4 DEF Knows, RunOf
<1>4. QED
  BY <1>1, <1>2, <1>3, CourseHolds, PTL DEF Spec
=============================================================================
