------------------------- MODULE IdentifiersProofs -------------------------
(* Theorems about Identifiers: see section 5 of the README. *)
EXTENDS Identifiers, FiniteSetTheorems, TLAPS

-----------------------------------------------------------------------------
(* Types *)

OpType == op \in [Workers -> {Idle} \cup Op]

\* A worker that is at something is not idle.
LEMMA Working ==
  ASSUME OpType, NEW w \in Workers, op[w].at # "idle"
  PROVE  op[w] \in Op
BY DEF OpType, Idle

\* Ending a request keeps the type of op.
LEMMA DoneType ==
  ASSUME OpType, NEW w \in Workers, Done(w)
  PROVE  OpType'
BY DEF OpType, Done

\* So does going on with an entry that is one of Op.
LEMMA WorkType ==
  ASSUME OpType, NEW w \in Workers, NEW at, NEW job, NEW value,
         [at |-> at, job |-> job, value |-> value] \in Op,
         Work(w, at, job, value)
  PROVE  OpType'
BY DEF OpType, Work

\* Where a worker is says what it knows.
LEMMA WhereWhat ==
  ASSUME NEW o \in Op
  PROVE  /\ o.at \in {"cap", "look", "number"} => o.job \in Create({NoAsset})
         /\ o.at \in {"next", "record"} => o.job \in Allocating
         /\ o.at \in {"insert", "answer"} => o.job \in Create(Numbers)
         /\ o.at = "backfill" => o.job \in Backfilling({NoAsset} \cup Numbers)
         /\ o.at = "assign" => o.job \in Assigning
         /\ o.at = "encode" => o.job \in Tagging("commission")
         /\ o.at = "bind" => o.job \in Tagging("verify")
         /\ o.at \in {"draw", "reserve", "store"} => o.job \in Leasing
         /\ o.at \in {"record", "insert", "assign", "encode", "reserve", "store"}
              => o.value \in Values
BY DEF Op

\* Entries a worker may have.
LEMMA Entries ==
  /\ \A job \in Create({NoAsset}), at \in {"cap", "look", "number"} :
       [at |-> at, job |-> job, value |-> NoValue] \in Op
  /\ \A job \in Allocating : [at |-> "next", job |-> job, value |-> NoValue] \in Op
  /\ \A job \in Allocating, v \in Values :
       [at |-> "record", job |-> job, value |-> v] \in Op
  /\ \A job \in Create(Numbers), v \in Values :
       [at |-> "insert", job |-> job, value |-> v] \in Op
  /\ \A job \in Create(Numbers) : [at |-> "answer", job |-> job, value |-> NoValue] \in Op
  /\ \A job \in Backfilling({NoAsset} \cup Numbers) :
       [at |-> "backfill", job |-> job, value |-> NoValue] \in Op
  /\ \A job \in Assigning, v \in Values :
       [at |-> "assign", job |-> job, value |-> v] \in Op
  /\ \A job \in Tagging("commission"), v \in Values :
       [at |-> "encode", job |-> job, value |-> v] \in Op
  /\ \A job \in Tagging("verify") : [at |-> "bind", job |-> job, value |-> NoValue] \in Op
  /\ \A job \in Leasing : [at |-> "draw", job |-> job, value |-> NoValue] \in Op
  /\ \A job \in Leasing, v \in Values, at \in {"reserve", "store"} :
       [at |-> at, job |-> job, value |-> v] \in Op
BY DEF Op

\* Allocating a reference, and creating an asset.
LEMMA AllocateOpType ==
  ASSUME TypeOK, NEW w \in Workers,
         NextValue(w) \/ Record(w) \/ AllocateIdentifier(w)
  PROVE  OpType'
<1> USE DEF OpType
<1>1. CASE NextValue(w)
  <2>1. op[w] \in Op /\ op[w].job \in Allocating
    BY <1>1, Working, WhereWhat DEF TypeOK, NextValue, At
  <2>2. sequence + 1 \in Values
    BY <1>1, CountAssumption DEF TypeOK, NextValue, Values, NoValue
  <2>3. [at |-> "record", job |-> op[w].job, value |-> sequence + 1] \in Op
    BY <2>1, <2>2, Entries
  <2>4. QED
    BY <1>1, <2>3, WorkType DEF TypeOK, NextValue, GoOn
<1>2. CASE Record(w)
  <2>1. op[w] \in Op /\ op[w].job \in Allocating /\ op[w].value \in Values
    BY <1>2, Working, WhereWhat DEF TypeOK, Record, At
  <2>2. CASE Done(w)
    BY <2>2, DoneType DEF TypeOK
  <2>3. CASE ForKind(w, "create") /\ GoOn(w, "insert", op[w].value)
    <3>1. op[w].job \in Create(Numbers)
      BY <2>1, <2>3 DEF ForKind, Allocating, Assigning, Create, Backfilling, Tagging, Issuing
    <3>2. [at |-> "insert", job |-> op[w].job, value |-> op[w].value] \in Op
      BY <2>1, <3>1, Entries
    <3>3. QED
      BY <2>3, <3>2, WorkType DEF TypeOK, GoOn
  <2>4. CASE /\ op[w].job.kind \in {"backfill", "commission"}
             /\ GoOn(w, "assign", op[w].value)
    <3>1. op[w].job \in Assigning
      BY <2>1, <2>4 DEF Allocating, Assigning, Create, Backfilling, Tagging, Issuing
    <3>2. [at |-> "assign", job |-> op[w].job, value |-> op[w].value] \in Op
      BY <2>1, <3>1, Entries
    <3>3. QED
      BY <2>4, <3>2, WorkType DEF TypeOK, GoOn
  <2>5. QED
    BY <1>2, <2>2, <2>3, <2>4 DEF Record, Handed
<1>3. CASE AllocateIdentifier(w)
  <2>1. [kind |-> "issue"] \in Allocating
    BY DEF Allocating, Issuing
  <2>2. [at |-> "next", job |-> [kind |-> "issue"], value |-> NoValue] \in Op
    BY <2>1, Entries
  <2>3. QED
    BY <1>3, <2>2, WorkType DEF TypeOK, AllocateIdentifier, Begin, Take
<1>4. QED
  BY <1>1, <1>2, <1>3

\* The job of a create is one of Create.
LEMMA CreateJobType ==
  ASSUME NEW k \in Keys \cup {None}, NEW tries \in 1 .. Attempts, NEW S, NEW n \in S
  PROVE  CreateJob(k, tries, n) \in Create(S)
BY DEF CreateJob, Create

\* Creating an asset keeps the type of op.
LEMMA CreateOpType ==
  ASSUME TypeOK, NEW w \in Workers,
         \/ \E k \in Keys \cup {None} : CreateAsset(w, k)
         \/ EnforceAssetCap(w) \/ LookAgain(w) \/ NextAssetNumber(w)
         \/ InsertAsset(w) \/ Answer(w)
  PROVE  OpType'
<1> USE DEF OpType
<1>1. CASE \E k \in Keys \cup {None} : CreateAsset(w, k)
  <2>1. PICK k \in Keys \cup {None} : CreateAsset(w, k)
    BY <1>1
  <2>2. CreateJob(k, 1, NoAsset) \in Create({NoAsset})
    BY CreateJobType, CountAssumption
  <2>3. [at |-> "cap", job |-> CreateJob(k, 1, NoAsset), value |-> NoValue] \in Op
    BY <2>2, Entries
  <2>4. QED
    BY <2>1, <2>3, WorkType DEF TypeOK, CreateAsset, Begin, Take
<1>2. CASE EnforceAssetCap(w)
  <2>1. [at |-> "look", job |-> op[w].job, value |-> NoValue] \in Op
    BY <1>2, Working, WhereWhat, Entries DEF TypeOK, EnforceAssetCap, At
  <2>2. QED
    BY <1>2, <2>1, WorkType, DoneType DEF TypeOK, EnforceAssetCap, GoOn
<1>3. CASE LookAgain(w)
  <2>1. [at |-> "number", job |-> op[w].job, value |-> NoValue] \in Op
    BY <1>3, Working, WhereWhat, Entries DEF TypeOK, LookAgain, At
  <2>2. QED
    BY <1>3, <2>1, WorkType, DoneType DEF TypeOK, LookAgain, GoOn
<1>4. CASE NextAssetNumber(w)
  <2>1. op[w].job.key \in Keys \cup {None} /\ op[w].job.tries \in 1 .. Attempts
    BY <1>4, Working, WhereWhat DEF TypeOK, NextAssetNumber, At, Create
  <2>2. PICK n \in Numbers :
          Work(w, "next", CreateJob(op[w].job.key, op[w].job.tries, n), NoValue)
    BY <1>4 DEF NextAssetNumber
  <2>3. CreateJob(op[w].job.key, op[w].job.tries, n) \in Allocating
    BY <2>1, CreateJobType DEF Allocating
  <2>4. [at |-> "next", job |-> CreateJob(op[w].job.key, op[w].job.tries, n),
         value |-> NoValue] \in Op
    BY <2>3, Entries
  <2>5. QED
    BY <2>2, <2>4, WorkType DEF TypeOK
<1>5. CASE InsertAsset(w)
  <2>1. /\ op[w].job \in Create(Numbers)
        /\ op[w].job.key \in Keys \cup {None} /\ op[w].job.tries \in 1 .. Attempts
    BY <1>5, Working, WhereWhat DEF TypeOK, InsertAsset, At, Create
  <2>2. CASE Inserted(w)
    <3>1. [at |-> "answer", job |-> op[w].job, value |-> NoValue] \in Op
      BY <2>1, Entries
    <3>2. QED
      BY <2>2, <3>1, WorkType DEF TypeOK, Inserted, GoOn
  <2>3. CASE Done(w)
    BY <2>3, DoneType DEF TypeOK
  <2>4. CASE op[w].job.tries < Attempts
             /\ Work(w, "number", CreateJob(op[w].job.key, op[w].job.tries + 1, NoAsset),
                     NoValue)
    <3>1. op[w].job.tries + 1 \in 1 .. Attempts
      BY <2>1, <2>4, CountAssumption
    <3>2. CreateJob(op[w].job.key, op[w].job.tries + 1, NoAsset) \in Create({NoAsset})
      BY <2>1, <3>1, CreateJobType
    <3>3. [at |-> "number", value |-> NoValue,
           job |-> CreateJob(op[w].job.key, op[w].job.tries + 1, NoAsset)] \in Op
      BY <3>2, Entries
    <3>4. QED
      BY <2>4, <3>3, WorkType DEF TypeOK
  <2>5. QED
    BY <1>5, <2>2, <2>3, <2>4 DEF InsertAsset, ReplacedByReplay, TriedAgain
<1>6. CASE Answer(w)
  BY <1>6, DoneType DEF TypeOK, Answer
<1>7. QED
  BY <1>1, <1>2, <1>3, <1>4, <1>5, <1>6

\* Giving older assets a reference, tags, leases, and failures.
LEMMA AssignOpType ==
  ASSUME TypeOK, NEW w \in Workers,
         \/ Backfill(w) \/ BackfillNext(w) \/ AssignIar(w)
         \/ \E t \in Tags, n \in Numbers : CommissionTag(w, t, n)
  PROVE  OpType'
<1> USE DEF OpType
<1>1. CASE Backfill(w)
  <2> DEFINE job == [kind |-> "backfill", asset |-> NoAsset,
                     todo |-> {n \in Live : asset[n].iar = NoValue}]
  <2>1. {n \in Live : asset[n].iar = NoValue} \in SUBSET Numbers
    BY DEF Live
  <2>2. job \in Backfilling({NoAsset} \cup Numbers)
    BY <2>1 DEF Backfilling
  <2>3. [at |-> "backfill", job |-> job, value |-> NoValue] \in Op
    BY <2>2, Entries
  <2>4. QED
    BY <1>1, <2>3, WorkType DEF TypeOK, Backfill, Begin, Take
<1>2. CASE BackfillNext(w)
  <2>1. op[w].job.todo \in SUBSET Numbers
    BY <1>2, Working, WhereWhat DEF TypeOK, BackfillNext, At, Backfilling
  <2>2. CASE Done(w)
    BY <2>2, DoneType DEF TypeOK
  <2>3. CASE \E n \in op[w].job.todo :
               Work(w, "next", [kind |-> "backfill", todo |-> op[w].job.todo \ {n},
                                asset |-> n], NoValue)
    <3>1. PICK n \in Numbers :
            Work(w, "next", [kind |-> "backfill", todo |-> op[w].job.todo \ {n},
                             asset |-> n], NoValue)
      BY <2>1, <2>3
    <3>2. [kind |-> "backfill", todo |-> op[w].job.todo \ {n}, asset |-> n] \in Allocating
      BY <2>1 DEF Allocating, Assigning, Backfilling
    <3>3. [at |-> "next", value |-> NoValue,
           job |-> [kind |-> "backfill", todo |-> op[w].job.todo \ {n}, asset |-> n]] \in Op
      BY <3>2, Entries
    <3>4. QED
      BY <3>1, <3>3, WorkType DEF TypeOK
  <2>4. QED
    BY <1>2, <2>2, <2>3 DEF BackfillNext
<1>3. CASE AssignIar(w)
  <2>1. op[w].job \in Assigning /\ op[w].value \in Values
    BY <1>3, Working, WhereWhat DEF TypeOK, AssignIar, At
  <2>2. CASE Done(w)
    BY <2>2, DoneType DEF TypeOK
  <2>3. CASE ForKind(w, "backfill") /\ GoOn(w, "backfill", NoValue)
    <3>1. op[w].job \in Backfilling({NoAsset} \cup Numbers)
      BY <2>1, <2>3 DEF ForKind, Assigning, Backfilling, Tagging
    <3>2. [at |-> "backfill", job |-> op[w].job, value |-> NoValue] \in Op
      BY <3>1, Entries
    <3>3. QED
      BY <2>3, <3>2, WorkType DEF TypeOK, GoOn
  <2>4. CASE ~ ForKind(w, "backfill") /\ GoOn(w, "encode", op[w].value)
    <3>1. op[w].job \in Tagging("commission")
      BY <2>1, <2>4 DEF ForKind, Assigning, Backfilling, Tagging
    <3>2. [at |-> "encode", job |-> op[w].job, value |-> op[w].value] \in Op
      BY <2>1, <3>1, Entries
    <3>3. QED
      BY <2>4, <3>2, WorkType DEF TypeOK, GoOn
  <2>5. QED
    BY <1>3, <2>2, <2>3, <2>4 DEF AssignIar, Assigned
<1>4. CASE \E t \in Tags, n \in Numbers : CommissionTag(w, t, n)
  <2>1. PICK t \in Tags, n \in Numbers : CommissionTag(w, t, n)
    BY <1>4
  <2> DEFINE job == [kind |-> "commission", tag |-> t, asset |-> n]
  <2>2. job \in Tagging("commission") /\ job \in Allocating
    BY DEF Tagging, Allocating, Assigning
  <2>3. asset[n].iar \in {NoValue} \cup Values
    BY DEF TypeOK, Row
  <2>4. CASE asset[n].iar = NoValue
    <3>1. [at |-> "next", job |-> job, value |-> NoValue] \in Op
      BY <2>2, Entries
    <3>2. QED
      BY <2>1, <2>4, <3>1, WorkType DEF TypeOK, CommissionTag, Take
  <2>5. CASE asset[n].iar # NoValue
    <3>1. [at |-> "encode", job |-> job, value |-> asset[n].iar] \in Op
      BY <2>2, <2>3, <2>5, Entries
    <3>2. QED
      BY <2>1, <2>5, <3>1, WorkType DEF TypeOK, CommissionTag, Take
  <2>6. QED
    BY <2>4, <2>5
<1>5. QED
  BY <1>1, <1>2, <1>3, <1>4

\* Tags and failures keep the type of op.
LEMMA TagOpType ==
  ASSUME TypeOK, NEW w \in Workers,
         \/ EncodeTag(w) \/ Bind(w) \/ Fail(w)
         \/ \E t \in Tags, n \in Numbers : VerifyTag(w, t, n)
  PROVE  OpType'
<1> USE DEF OpType
<1>1. CASE EncodeTag(w) \/ Bind(w) \/ Fail(w)
  BY <1>1, DoneType DEF TypeOK, EncodeTag, Bind, Fail
<1>2. CASE \E t \in Tags, n \in Numbers : VerifyTag(w, t, n)
  <2>1. PICK t \in Tags, n \in Numbers : VerifyTag(w, t, n)
    BY <1>2
  <2> DEFINE job == [kind |-> "verify", tag |-> t, asset |-> n]
  <2>2. job \in Tagging("verify")
    BY DEF Tagging
  <2>3. [at |-> "bind", job |-> job, value |-> NoValue] \in Op
    BY <2>2, Entries
  <2>4. QED
    BY <2>1, <2>3, WorkType DEF TypeOK, VerifyTag, Begin, Take
<1>3. QED
  BY <1>1, <1>2

\* Leases keep the type of op.
LEMMA LeaseOpType ==
  ASSUME TypeOK, NEW w \in Workers,
         \/ \E size \in Sizes : LeaseBlock(w, size)
         \/ DrawFirst(w) \/ SetSequence(w) \/ StoreBlock(w)
  PROVE  OpType'
<1> USE DEF OpType
<1>1. CASE \E size \in Sizes : LeaseBlock(w, size)
  <2>1. PICK size \in Sizes : LeaseBlock(w, size)
    BY <1>1
  <2>2. [kind |-> "lease", size |-> size] \in Leasing
    BY DEF Leasing
  <2>3. [at |-> "draw", job |-> [kind |-> "lease", size |-> size], value |-> NoValue] \in Op
    BY <2>2, Entries
  <2>4. QED
    BY <2>1, <2>3, WorkType DEF TypeOK, LeaseBlock, Begin, Take
<1>2. CASE DrawFirst(w)
  <2>1. op[w].job \in Leasing
    BY <1>2, Working, WhereWhat DEF TypeOK, DrawFirst, At
  <2>2. op[w].job.size \in Nat \ {0}
    BY <2>1, SizeAssumption DEF Leasing
  <2>3. sequence + 1 \in Values
    BY <1>2, <2>2, CountAssumption DEF TypeOK, DrawFirst, Values, NoValue
  <2>4. [at |-> "reserve", job |-> op[w].job, value |-> sequence + 1] \in Op
    BY <2>1, <2>3, Entries
  <2>5. QED
    BY <1>2, <2>4, WorkType DEF TypeOK, DrawFirst, GoOn
<1>3. CASE SetSequence(w)
  <2>1. [at |-> "store", job |-> op[w].job, value |-> op[w].value] \in Op
    BY <1>3, Working, WhereWhat, Entries DEF TypeOK, SetSequence, At
  <2>2. QED
    BY <1>3, <2>1, WorkType DEF TypeOK, SetSequence, GoOn
<1>4. CASE StoreBlock(w)
  BY <1>4, DoneType DEF TypeOK, StoreBlock
<1>5. QED
  BY <1>1, <1>2, <1>3, <1>4

-----------------------------------------------------------------------------
(* The lock, the sequence and the blocks *)

Leasers == {w \in Workers : op[w].at \in {"draw", "reserve", "store"}}

\* Only the worker that holds the lock is leasing.  From its draw to its end
\* every block lies before the value it has drawn, and at the end the sequence
\* is not before the block it stores.
LeaseInv ==
  \A w \in Leasers :
    /\ locked = w
    /\ op[w].at # "draw" =>
         LastOf(w) <= MaxValue /\ \A b \in blocks : b.last < op[w].value
    /\ op[w].at = "store" => LastOf(w) <= sequence

TableType ==
  /\ sequence \in {NoValue} \cup Values
  /\ locked \in Workers \cup {None}
  /\ allocation \in [Values -> Allocation]
  /\ blocks \in SUBSET Block
  /\ asset \in [Numbers -> Row]
  /\ tag \in [Tags -> [epc : {NoValue} \cup Values, asset : {NoAsset} \cup Numbers]]
  /\ begun \in 0 .. MaxRequests
  /\ answers \in SUBSET [key : Keys, asset : Numbers]

\* TypeOK is the type of op and the types of the tables.
LEMMA TypeParts == TypeOK <=> OpType /\ TableType
BY DEF TypeOK, OpType, TableType

\* What a leasing worker has in hand.
LEMMA InHand ==
  ASSUME TypeOK, NEW w \in Workers, op[w].at \in {"reserve", "store"}
  PROVE  /\ op[w].value \in Values
         /\ op[w].job.size \in Nat \ {0}
         /\ LastOf(w) \in Nat /\ op[w].value <= LastOf(w)
<1>1. op[w] \in Op
  BY Working, TypeParts
<1>2. op[w].job \in Leasing /\ op[w].value \in Values
  BY <1>1, WhereWhat
<1>3. op[w].job.size \in Nat \ {0}
  BY <1>2, SizeAssumption DEF Leasing
<1>4. QED
  BY <1>2, <1>3, CountAssumption DEF LastOf, Values

\* Allocations keep the types of the tables.
LEMMA AllocateTableType ==
  ASSUME TypeOK, NEW w \in Workers,
         NextValue(w) \/ Record(w) \/ AllocateIdentifier(w)
  PROVE  TableType'
<1> USE CountAssumption DEF TableType, TypeOK
<1>1. CASE NextValue(w)
  BY <1>1 DEF NextValue, Values, NoValue
<1>2. CASE Record(w)
  <2>1. op[w].value \in Values
    BY <1>2, Working, WhereWhat, TypeParts DEF Record, At
  <2>2. [allocation[op[w].value] EXCEPT !.status = "CONSUMED"] \in Allocation
    BY <2>1 DEF Allocation
  <2>3. QED
    BY <1>2, <2>1, <2>2 DEF Record
<1>3. CASE AllocateIdentifier(w)
  BY <1>3 DEF AllocateIdentifier, Begin, Take
<1>4. QED
  BY <1>1, <1>2, <1>3

\* An answer to a replay names a key and an asset.
LEMMA ReplayedType ==
  ASSUME TypeOK, NEW k \in Keys \cup {None}, Replayed(k)
  PROVE  answers' \in SUBSET [key : Keys, asset : Numbers]
BY DEF TypeOK, Replayed, WithKey

\* Creating an asset keeps the types of the tables.
LEMMA CreateTableType ==
  ASSUME TypeOK, NEW w \in Workers,
         \/ \E k \in Keys \cup {None} : CreateAsset(w, k) \/ CreateReplayed(w, k)
         \/ EnforceAssetCap(w) \/ LookAgain(w) \/ NextAssetNumber(w)
         \/ InsertAsset(w) \/ Answer(w)
  PROVE  TableType'
<1> USE CountAssumption DEF TableType, TypeOK
<1>1. CASE \E k \in Keys \cup {None} : CreateAsset(w, k)
  BY <1>1 DEF CreateAsset, Begin, Take
<1>2. CASE \E k \in Keys \cup {None} : CreateReplayed(w, k)
  BY <1>2, ReplayedType DEF CreateReplayed
<1>3. CASE EnforceAssetCap(w) \/ NextAssetNumber(w)
  BY <1>3 DEF EnforceAssetCap, NextAssetNumber
<1>4. CASE LookAgain(w)
  <2>1. op[w].job.key \in Keys \cup {None}
    BY <1>4, Working, WhereWhat, TypeParts DEF LookAgain, At, Create
  <2>2. QED
    BY <1>4, <2>1, ReplayedType DEF LookAgain
<1>5. CASE InsertAsset(w)
  <2>1. /\ op[w].job.key \in Keys \cup {None} /\ op[w].job.asset \in Numbers
        /\ op[w].value \in Values
    BY <1>5, Working, WhereWhat, TypeParts DEF InsertAsset, At, Create
  <2>2. NewRow(w) \in Row
    BY <2>1 DEF NewRow, Row
  <2>3. QED
    BY <1>5, <2>1, <2>2, ReplayedType
       DEF InsertAsset, Inserted, ReplacedByReplay, TriedAgain
<1>6. CASE Answer(w)
  <2>1. op[w].job.key \in Keys \cup {None} /\ op[w].job.asset \in Numbers
    BY <1>6, Working, WhereWhat, TypeParts DEF Answer, At, Create
  <2>2. QED
    BY <1>6, <2>1 DEF Answer
<1>7. QED
  BY <1>1, <1>2, <1>3, <1>4, <1>5, <1>6

\* Giving references to older assets keeps the types of the tables.
LEMMA AssignTableType ==
  ASSUME TypeOK, NEW w \in Workers,
         \/ Backfill(w) \/ BackfillNext(w) \/ AssignIar(w)
         \/ \E t \in Tags, n \in Numbers : CommissionTag(w, t, n)
  PROVE  TableType'
<1> USE CountAssumption DEF TableType, TypeOK
<1>1. CASE Backfill(w) \/ BackfillNext(w)
  BY <1>1 DEF Backfill, BackfillNext, Begin, Take
<1>2. CASE AssignIar(w)
  <2>1. op[w].job \in Assigning /\ op[w].value \in Values
    BY <1>2, Working, WhereWhat, TypeParts DEF AssignIar, At
  <2>2. op[w].job.asset \in Numbers
    BY <2>1 DEF Assigning, Backfilling, Tagging
  <2>3. [asset[op[w].job.asset] EXCEPT !.iar = op[w].value] \in Row
    BY <2>1, <2>2 DEF Row
  <2>4. QED
    BY <1>2, <2>2, <2>3 DEF AssignIar, Assigned
<1>3. CASE \E t \in Tags, n \in Numbers : CommissionTag(w, t, n)
  BY <1>3 DEF CommissionTag, Take
<1>4. QED
  BY <1>1, <1>2, <1>3

\* Tags and failures keep the types of the tables.
LEMMA TagTableType ==
  ASSUME TypeOK, NEW w \in Workers,
         \/ EncodeTag(w) \/ Bind(w) \/ Fail(w)
         \/ \E t \in Tags, n \in Numbers : VerifyTag(w, t, n)
  PROVE  TableType'
<1> USE CountAssumption DEF TableType, TypeOK
<1>1. CASE EncodeTag(w)
  <2>1. op[w].job.tag \in Tags /\ op[w].value \in Values
    BY <1>1, Working, WhereWhat, TypeParts DEF EncodeTag, At, Tagging
  <2>2. [tag[op[w].job.tag] EXCEPT !.epc = op[w].value]
          \in [epc : {NoValue} \cup Values, asset : {NoAsset} \cup Numbers]
    BY <2>1
  <2>3. QED
    BY <1>1, <2>1, <2>2 DEF EncodeTag
<1>2. CASE Bind(w)
  <2>1. op[w].job.tag \in Tags /\ op[w].job.asset \in Numbers
    BY <1>2, Working, WhereWhat, TypeParts DEF Bind, At, Tagging
  <2>2. [tag[op[w].job.tag] EXCEPT !.asset = op[w].job.asset]
          \in [epc : {NoValue} \cup Values, asset : {NoAsset} \cup Numbers]
    BY <2>1
  <2>3. QED
    BY <1>2, <2>1, <2>2 DEF Bind
<1>3. CASE Fail(w)
  BY <1>3 DEF Fail, Unlock
<1>4. CASE \E t \in Tags, n \in Numbers : VerifyTag(w, t, n)
  BY <1>4 DEF VerifyTag, Begin, Take
<1>5. QED
  BY <1>1, <1>2, <1>3, <1>4

\* Leases keep the types of the tables, because LeaseInv bounds the block.
LEMMA LeaseTableType ==
  ASSUME TypeOK, LeaseInv, NEW w \in Workers,
         \/ \E size \in Sizes : LeaseBlock(w, size)
         \/ DrawFirst(w) \/ SetSequence(w) \/ StoreBlock(w)
  PROVE  TableType'
<1> USE CountAssumption DEF TableType, TypeOK
<1>1. CASE \E size \in Sizes : LeaseBlock(w, size)
  BY <1>1 DEF LeaseBlock, Begin, Take
<1>2. CASE DrawFirst(w)
  <2>1. op[w].job.size \in Nat \ {0}
    BY <1>2, Working, WhereWhat, TypeParts, SizeAssumption DEF DrawFirst, At, Leasing
  <2>2. QED
    BY <1>2, <2>1 DEF DrawFirst, Values, NoValue
<1>3. CASE SetSequence(w)
  <2>1. LastOf(w) \in Nat /\ op[w].value <= LastOf(w) /\ op[w].value \in Values
    BY <1>3, InHand DEF SetSequence, At
  <2>2. LastOf(w) <= MaxValue
    BY <1>3 DEF LeaseInv, Leasers, SetSequence, At
  <2>3. QED
    BY <1>3, <2>1, <2>2 DEF SetSequence, Values
<1>4. CASE StoreBlock(w)
  <2>1. LastOf(w) \in Nat /\ op[w].value <= LastOf(w) /\ op[w].value \in Values
    BY <1>4, InHand DEF StoreBlock, At
  <2>2. LastOf(w) <= MaxValue
    BY <1>4 DEF LeaseInv, Leasers, StoreBlock, At
  <2>3. NewBlock(w) \in Block
    BY <2>1, <2>2 DEF NewBlock, Block, Values
  <2>4. Reserved(w) \in [Values -> Allocation]
    BY <2>1 DEF Reserved, Unallocated, Allocation
  <2>5. QED
    BY <1>4, <2>3, <2>4 DEF StoreBlock, Unlock
<1>5. QED
  BY <1>1, <1>2, <1>3, <1>4

\* Deletions and settlements keep the types; they are no worker's.
LEMMA OtherType ==
  ASSUME TypeOK,
         \/ \E n \in Numbers : DeleteAsset(n)
         \/ \E b \in blocks, next \in 1 .. MaxValue + 1 : SettleBlock(b, next)
  PROVE  TypeOK'
<1>1. CASE \E n \in Numbers : DeleteAsset(n)
  <2>1. PICK n \in Numbers : DeleteAsset(n)
    BY <1>1
  <2>2. [asset[n] EXCEPT !.state = "deleted"] \in Row
    BY DEF TypeOK, Row
  <2>3. QED
    BY <2>1, <2>2 DEF TypeOK, DeleteAsset
<1>2. CASE \E b \in blocks, next \in 1 .. MaxValue + 1 : SettleBlock(b, next)
  <2>1. PICK b \in blocks, next \in 1 .. MaxValue + 1 : SettleBlock(b, next)
    BY <1>2
  <2>2. \A v \in Values, st \in {"CONSUMED", "RELEASED"} :
          [allocation[v] EXCEPT !.status = st] \in Allocation
    BY DEF TypeOK, Allocation
  <2>3. allocation' \in [Values -> Allocation]
    BY <2>1, <2>2 DEF TypeOK, SettleBlock
  <2>4. QED
    BY <2>1, <2>3 DEF TypeOK, SettleBlock
<1>3. QED
  BY <1>1, <1>2

\* Every step keeps the types.
LEMMA TypeStep ==
  ASSUME TypeOK, LeaseInv, [Next]_vars
  PROVE  TypeOK'
<1>1. SUFFICES ASSUME Next PROVE TypeOK'
  BY DEF TypeOK, vars
<1>2. SUFFICES ASSUME NEW w \in Workers,
                      \/ NextValue(w) \/ Record(w) \/ AllocateIdentifier(w)
                      \/ \E k \in Keys \cup {None} : CreateAsset(w, k) \/ CreateReplayed(w, k)
                      \/ EnforceAssetCap(w) \/ LookAgain(w) \/ NextAssetNumber(w)
                      \/ InsertAsset(w) \/ Answer(w)
                      \/ Backfill(w) \/ BackfillNext(w) \/ AssignIar(w)
                      \/ \E t \in Tags, n \in Numbers : CommissionTag(w, t, n)
                      \/ EncodeTag(w) \/ Bind(w) \/ Fail(w)
                      \/ \E t \in Tags, n \in Numbers : VerifyTag(w, t, n)
                      \/ \E size \in Sizes : LeaseBlock(w, size)
                      \/ DrawFirst(w) \/ SetSequence(w) \/ StoreBlock(w)
               PROVE  OpType' /\ TableType'
  <2>1. TypeOK' <=> OpType' /\ TableType'
    BY DEF TypeOK, OpType, TableType
  <2>2. QED
    BY <1>1, <2>1, OtherType DEF Next
<1>3. CASE NextValue(w) \/ Record(w) \/ AllocateIdentifier(w)
  BY <1>3, AllocateOpType, AllocateTableType
<1>4. CASE \E k \in Keys \cup {None} : CreateReplayed(w, k)
  BY <1>4, CreateTableType, TypeParts DEF CreateReplayed, OpType
<1>5. CASE \/ \E k \in Keys \cup {None} : CreateAsset(w, k)
           \/ EnforceAssetCap(w) \/ LookAgain(w) \/ NextAssetNumber(w)
           \/ InsertAsset(w) \/ Answer(w)
  BY <1>5, CreateOpType, CreateTableType
<1>6. CASE \/ Backfill(w) \/ BackfillNext(w) \/ AssignIar(w)
           \/ \E t \in Tags, n \in Numbers : CommissionTag(w, t, n)
  BY <1>6, AssignOpType, AssignTableType
<1>7. CASE \/ EncodeTag(w) \/ Bind(w) \/ Fail(w)
           \/ \E t \in Tags, n \in Numbers : VerifyTag(w, t, n)
  BY <1>7, TagOpType, TagTableType
<1>8. CASE \/ \E size \in Sizes : LeaseBlock(w, size)
           \/ DrawFirst(w) \/ SetSequence(w) \/ StoreBlock(w)
  BY <1>8, LeaseOpType, LeaseTableType
<1>9. QED
  BY <1>2, <1>3, <1>4, <1>5, <1>6, <1>7, <1>8

-----------------------------------------------------------------------------
(* Steps of the sequence and the blocks *)

\* One worker's step changes no other worker's entry.
Only(w) == \A x \in Workers : x # w => op'[x] = op[x]

\* What going on changes, and that it changes nothing else of op.
LEMMA WorkOnly ==
  ASSUME OpType, NEW w \in Workers, NEW at, NEW job, NEW value, Work(w, at, job, value)
  PROVE  Only(w) /\ op'[w].at = at /\ op'[w].job = job /\ op'[w].value = value
<1>1. Only(w) /\ op'[w] = [at |-> at, job |-> job, value |-> value]
  BY DEF OpType, Work, Only
<1>2. QED
  BY <1>1

\* What ending a request changes, and that it changes nothing else of op.
LEMMA DoneOnly ==
  ASSUME OpType, NEW w \in Workers, Done(w)
  PROVE  Only(w) /\ op'[w] = Idle
BY DEF OpType, Done, Only

\* A step that leaves no one leasing who was not, and moves the sequence
\* forward if at all.
LEMMA Bystander ==
  ASSUME TypeOK, LeaseInv, NEW w \in Workers, Only(w), w \notin Leasers',
         Unlock(w) \/ UNCHANGED locked, UNCHANGED blocks,
         sequence' \in Nat, sequence <= sequence'
  PROVE  LeaseInv'
<1> SUFFICES ASSUME NEW x \in Leasers'
             PROVE  /\ locked' = x
                    /\ op'[x].at # "draw" =>
                         LastOf(x)' <= MaxValue /\ \A b \in blocks : b.last < op'[x].value
                    /\ op'[x].at = "store" => LastOf(x)' <= sequence'
  BY DEF LeaseInv
<1>1. x \in Workers /\ x # w /\ op'[x] = op[x] /\ x \in Leasers
  BY DEF Leasers, Only
<1>2. LastOf(x)' = LastOf(x)
  BY <1>1 DEF LastOf
<1>3. locked = x /\ locked' = x
  BY <1>1 DEF LeaseInv, Unlock
<1>4. op[x].at = "store" => LastOf(x) \in Nat
  BY <1>1, InHand
<1>5. op[x].at = "store" => LastOf(x) <= sequence'
  BY <1>1, <1>4, CountAssumption DEF LeaseInv, TypeOK, Values, NoValue
<1>6. QED
  BY <1>1, <1>2, <1>3, <1>5 DEF LeaseInv

\* The holder of the lock is the only one leasing, so its step is the only
\* one to look at.
LEMMA Holder ==
  ASSUME TypeOK, LeaseInv, NEW w \in Workers, Only(w),
         w \in Leasers \/ locked = None,
         locked' = w,
         op'[w].at # "draw" =>
           LastOf(w)' <= MaxValue /\ \A b \in blocks' : b.last < op'[w].value,
         op'[w].at = "store" => LastOf(w)' <= sequence'
  PROVE  LeaseInv'
<1>1. \A x \in Leasers' : x = w
  BY NoneAssumption DEF LeaseInv, Leasers, Only
<1>2. QED
  BY <1>1 DEF LeaseInv

\* Where a lease can be seen to run, and where a worker has a reference in hand.
Special == {"insert", "assign", "draw", "reserve", "store"}

\* Only the steps of a lease, and the end of an allocation, lead there.
LEMMA Elsewhere ==
  ASSUME TypeOK, NEW w \in Workers,
         \/ NextValue(w) \/ AllocateIdentifier(w)
         \/ \E k \in Keys \cup {None} : CreateAsset(w, k)
         \/ EnforceAssetCap(w) \/ LookAgain(w) \/ NextAssetNumber(w)
         \/ InsertAsset(w) \/ Answer(w)
         \/ Backfill(w) \/ BackfillNext(w) \/ AssignIar(w)
         \/ \E t \in Tags, n \in Numbers : CommissionTag(w, t, n)
         \/ EncodeTag(w) \/ Bind(w) \/ Fail(w)
         \/ \E t \in Tags, n \in Numbers : VerifyTag(w, t, n)
  PROVE  Only(w) /\ op'[w].at \notin Special
<1> USE DEF Special
<1>0. OpType
  BY DEF TypeOK, OpType
<1>1. CASE Done(w)
  BY <1>0, <1>1, DoneOnly DEF Idle
<1>2. ASSUME NEW at, NEW job, NEW value, Work(w, at, job, value),
             at \notin Special
      PROVE  Only(w) /\ op'[w].at \notin Special
  BY <1>0, <1>2, WorkOnly
<1>3. CASE NextValue(w) \/ AllocateIdentifier(w)
  BY <1>2, <1>3 DEF NextValue, AllocateIdentifier, Begin, Take, GoOn
<1>4. CASE \/ \E k \in Keys \cup {None} : CreateAsset(w, k)
           \/ EnforceAssetCap(w) \/ LookAgain(w) \/ NextAssetNumber(w)
  BY <1>1, <1>2, <1>4
     DEF CreateAsset, EnforceAssetCap, LookAgain, NextAssetNumber, Begin, Take, GoOn
<1>5. CASE InsertAsset(w) \/ Answer(w)
  <2>1. CASE Inserted(w)
    BY <1>2, <2>1 DEF Inserted, GoOn
  <2>2. CASE TriedAgain(w)
    <3> DEFINE again == CreateJob(op[w].job.key, op[w].job.tries + 1, NoAsset)
    <3>1. Done(w) \/ Work(w, "number", again, NoValue)
      BY <2>2 DEF TriedAgain
    <3> HIDE DEF again
    <3>2. QED
      BY <1>0, <1>1, <3>1, WorkOnly
  <2>3. CASE ReplacedByReplay(w) \/ Answer(w)
    BY <1>1, <2>3 DEF ReplacedByReplay, Answer
  <2>4. QED
    BY <1>5, <2>1, <2>2, <2>3 DEF InsertAsset
<1>6. CASE Backfill(w) \/ BackfillNext(w) \/ AssignIar(w)
  <2>1. CASE Backfill(w)
    <3> DEFINE todo == {n \in Live : asset[n].iar = NoValue}
    <3>1. Work(w, "backfill", [kind |-> "backfill", asset |-> NoAsset, todo |-> todo],
               NoValue)
      BY <2>1 DEF Backfill, Begin, Take
    <3> HIDE DEF todo
    <3>2. QED
      BY <1>0, <3>1, WorkOnly
  <2>2. CASE BackfillNext(w)
    <3>1. \/ Done(w)
          \/ \E n \in op[w].job.todo :
               Work(w, "next", [kind |-> "backfill", todo |-> op[w].job.todo \ {n},
                                asset |-> n], NoValue)
      BY <2>2 DEF BackfillNext
    <3>2. ASSUME NEW n \in op[w].job.todo, NEW job, Work(w, "next", job, NoValue)
          PROVE  Only(w) /\ op'[w].at \notin Special
      BY <1>0, <3>2, WorkOnly
    <3>3. QED
      BY <1>1, <3>1, <3>2, Zenon
  <2>3. CASE AssignIar(w)
    BY <1>1, <1>2, <2>3 DEF AssignIar, Assigned, GoOn
  <2>4. QED
    BY <1>6, <2>1, <2>2, <2>3
<1>7. CASE \E t \in Tags, n \in Numbers : CommissionTag(w, t, n)
  <2>1. PICK t \in Tags, n \in Numbers : CommissionTag(w, t, n)
    BY <1>7
  <2>2. CASE asset[n].iar = NoValue
    BY <1>2, <2>1, <2>2 DEF CommissionTag, Take
  <2>3. CASE asset[n].iar # NoValue
    BY <1>2, <2>1, <2>3 DEF CommissionTag, Take
  <2>4. QED
    BY <2>2, <2>3
<1>8. CASE EncodeTag(w) \/ Bind(w) \/ Fail(w)
  BY <1>1, <1>8 DEF EncodeTag, Bind, Fail
<1>9. CASE \E t \in Tags, n \in Numbers : VerifyTag(w, t, n)
  BY <1>2, <1>9 DEF VerifyTag, Begin, Take
<1>10. QED
  BY <1>3, <1>4, <1>5, <1>6, <1>7, <1>8, <1>9

\* A request whose value is recorded or refused ends, or has it in hand.
LEMMA RecordLeadsTo ==
  ASSUME TypeOK, NEW w \in Workers, Record(w)
  PROVE  /\ Only(w)
         /\ \/ op'[w] = Idle
            \/ op'[w].at \in {"insert", "assign"} /\ op'[w].value = op[w].value
<1>1. OpType
  BY DEF TypeOK, OpType
<1>2. CASE Done(w)
  BY <1>1, <1>2, DoneOnly
<1>3. ASSUME NEW at \in {"insert", "assign"}, GoOn(w, at, op[w].value)
      PROVE  Only(w) /\ op'[w].at \in {"insert", "assign"} /\ op'[w].value = op[w].value
  BY <1>1, <1>3, WorkOnly DEF GoOn
<1>4. QED
  BY <1>2, <1>3 DEF Record, Handed

\* The steps outside a lease.
LEMMA OutsideLease ==
  ASSUME TypeOK, LeaseInv, NEW w \in Workers,
         \/ NextValue(w) \/ Record(w) \/ AllocateIdentifier(w)
         \/ \E k \in Keys \cup {None} : CreateAsset(w, k)
         \/ EnforceAssetCap(w) \/ LookAgain(w) \/ NextAssetNumber(w)
         \/ InsertAsset(w) \/ Answer(w)
         \/ Backfill(w) \/ BackfillNext(w) \/ AssignIar(w)
         \/ \E t \in Tags, n \in Numbers : CommissionTag(w, t, n)
         \/ EncodeTag(w) \/ Bind(w) \/ Fail(w)
         \/ \E t \in Tags, n \in Numbers : VerifyTag(w, t, n)
  PROVE  /\ LeaseInv' /\ UNCHANGED blocks
         /\ sequence' \in Nat /\ sequence <= sequence'
<1>1. sequence \in Nat
  BY CountAssumption DEF TypeOK, Values, NoValue
<1>3. Only(w) /\ w \notin Leasers'
  <2>1. CASE Record(w)
    BY <2>1, RecordLeadsTo DEF Leasers, Idle
  <2>2. QED
    BY <2>1, Elsewhere DEF Leasers, Special
<1>4. /\ Unlock(w) \/ UNCHANGED locked
      /\ UNCHANGED blocks
      /\ sequence' = sequence \/ sequence' = sequence + 1
  <2>1. CASE NextValue(w) \/ Record(w) \/ AllocateIdentifier(w)
    BY <2>1 DEF NextValue, Record, AllocateIdentifier
  <2>2. CASE \E k \in Keys \cup {None} : CreateAsset(w, k)
    BY <2>2 DEF CreateAsset
  <2>3. CASE \/ EnforceAssetCap(w) \/ LookAgain(w) \/ NextAssetNumber(w)
             \/ InsertAsset(w) \/ Answer(w)
    BY SMTT(30), <2>3 DEF EnforceAssetCap, LookAgain, NextAssetNumber, InsertAsset, Answer
  <2>4. CASE \/ Backfill(w) \/ BackfillNext(w) \/ AssignIar(w)
             \/ EncodeTag(w) \/ Bind(w) \/ Fail(w)
    BY <2>4 DEF Backfill, BackfillNext, AssignIar, EncodeTag, Bind, Fail
  <2>5. CASE \E t \in Tags, n \in Numbers : CommissionTag(w, t, n) \/ VerifyTag(w, t, n)
    BY <2>5 DEF CommissionTag, VerifyTag
  <2>6. QED
    BY <2>1, <2>2, <2>3, <2>4, <2>5
<1>5. QED
  BY <1>1, <1>3, <1>4, Bystander

\* The steps of a lease.  LastOf is the last value of the block.
LEMMA InsideLease ==
  ASSUME TypeOK, LeaseInv, LeasedIsBehind, NEW w \in Workers,
         \/ \E size \in Sizes : LeaseBlock(w, size)
         \/ DrawFirst(w) \/ SetSequence(w) \/ StoreBlock(w)
  PROVE  LeaseInv' /\ LeasedIsBehind'
<1>1. sequence \in Nat /\ \A b \in blocks : b.last \in Nat
  BY CountAssumption DEF TypeOK, Values, NoValue, Block
<1>2. OpType
  BY DEF TypeOK, OpType
<1>3. CASE \E size \in Sizes : LeaseBlock(w, size)
  <2>1. PICK size \in Sizes : LeaseBlock(w, size)
    BY <1>3
  <2>2. Only(w) /\ op'[w].at = "draw"
    BY <1>2, <2>1, WorkOnly DEF LeaseBlock, Begin, Take
  <2>3. LeaseInv'
    BY <2>1, <2>2, Holder DEF LeaseBlock
  <2>4. QED
    BY <2>1, <2>3 DEF LeasedIsBehind, LeaseBlock
<1>4. CASE DrawFirst(w)
  <2>1. /\ Only(w) /\ op'[w].at = "reserve"
        /\ op'[w].job = op[w].job /\ op'[w].value = sequence + 1
    BY <1>2, <1>4, WorkOnly DEF DrawFirst, GoOn
  <2>2. op[w].job.size \in Nat \ {0}
    BY <1>4, Working, WhereWhat, TypeParts, SizeAssumption DEF DrawFirst, At, Leasing
  <2>3. LastOf(w)' <= MaxValue
    BY <1>1, <1>4, <2>1, <2>2, CountAssumption DEF LastOf, DrawFirst
  <2>4. \A b \in blocks' : b.last < op'[w].value /\ b.last <= sequence'
    BY <1>1, <1>4, <2>1 DEF LeasedIsBehind, DrawFirst
  <2>5. w \in Leasers /\ locked' = w
    BY <1>4 DEF Leasers, DrawFirst, At, LeaseInv
  <2>6. LeaseInv'
    BY <2>1, <2>3, <2>4, <2>5, Holder
  <2>7. QED
    BY <2>4, <2>6 DEF LeasedIsBehind
<1>5. CASE SetSequence(w)
  <2>1. /\ Only(w) /\ op'[w].at = "store"
        /\ op'[w].job = op[w].job /\ op'[w].value = op[w].value
    BY <1>2, <1>5, WorkOnly DEF SetSequence, GoOn
  <2>2. op[w].value \in Nat /\ LastOf(w) \in Nat /\ op[w].value <= LastOf(w)
    BY <1>5, InHand DEF SetSequence, At, Values
  <2>3. LastOf(w)' = LastOf(w) /\ sequence' = LastOf(w)
    BY <1>5, <2>1 DEF LastOf, SetSequence
  <2>4. w \in Leasers /\ locked' = w
    BY <1>5 DEF Leasers, SetSequence, At, LeaseInv
  <2>5. LastOf(w) <= MaxValue /\ \A b \in blocks' : b.last < op[w].value
    BY <1>5, <2>4 DEF LeaseInv, SetSequence, At
  <2>6. LeaseInv'
    BY <2>1, <2>2, <2>3, <2>4, <2>5, Holder
  <2>7. \A b \in blocks' : b.last <= sequence'
    BY <1>1, <1>5, <2>2, <2>3, <2>5 DEF SetSequence
  <2>8. QED
    BY <2>6, <2>7 DEF LeasedIsBehind
<1>6. CASE StoreBlock(w)
  <2>1. Only(w) /\ w \notin Leasers' /\ locked = w /\ locked' = None
    BY <1>2, <1>6, DoneOnly DEF StoreBlock, Leasers, Idle, LeaseInv, At, Unlock
  <2>2. LeaseInv'
    BY <2>1 DEF LeaseInv, Leasers, Only
  <2>3. LastOf(w) <= sequence
    BY <1>6 DEF LeaseInv, Leasers, StoreBlock, At
  <2>4. \A b \in blocks' : b.last <= sequence'
    BY <1>6, <2>3 DEF LeasedIsBehind, StoreBlock, NewBlock
  <2>5. QED
    BY <2>2, <2>4 DEF LeasedIsBehind
<1>7. QED
  BY <1>3, <1>4, <1>5, <1>6

\* Deletions and settlements, which are no worker's, and replays of a create
\* leave the sequence, the lock and the blocks alone.
LEMMA NoLease ==
  ASSUME LeaseInv, LeasedIsBehind,
         \/ \E w \in Workers, k \in Keys \cup {None} : CreateReplayed(w, k)
         \/ \E n \in Numbers : DeleteAsset(n)
         \/ \E b \in blocks, next \in 1 .. MaxValue + 1 : SettleBlock(b, next)
         \/ UNCHANGED vars
  PROVE  LeaseInv' /\ LeasedIsBehind'
<1>1. UNCHANGED <<sequence, locked, blocks, op>>
  BY DEF CreateReplayed, DeleteAsset, SettleBlock, vars
<1>2. QED
  BY <1>1 DEF LeaseInv, LeasedIsBehind, Leasers, LastOf

\* Every step keeps what leases know, and the sequence out of the blocks.
LEMMA LeaseStep ==
  ASSUME TypeOK, LeaseInv, LeasedIsBehind, [Next]_vars
  PROVE  LeaseInv' /\ LeasedIsBehind'
<1>1. sequence \in Nat /\ \A b \in blocks : b.last \in Nat
  BY CountAssumption DEF TypeOK, Values, NoValue, Block
<1>2. CASE UNCHANGED vars
  BY <1>2, NoLease
<1>3. CASE \/ \E n \in Numbers : DeleteAsset(n)
           \/ \E b \in blocks, next \in 1 .. MaxValue + 1 : SettleBlock(b, next)
  BY <1>3, NoLease
<1>4. ASSUME NEW w \in Workers,
             \/ NextValue(w) \/ Record(w) \/ AllocateIdentifier(w)
             \/ \E k \in Keys \cup {None} : CreateAsset(w, k)
             \/ EnforceAssetCap(w) \/ LookAgain(w) \/ NextAssetNumber(w)
             \/ InsertAsset(w) \/ Answer(w)
             \/ Backfill(w) \/ BackfillNext(w) \/ AssignIar(w)
             \/ \E t \in Tags, n \in Numbers : CommissionTag(w, t, n)
             \/ EncodeTag(w) \/ Bind(w) \/ Fail(w)
             \/ \E t \in Tags, n \in Numbers : VerifyTag(w, t, n)
      PROVE  LeaseInv' /\ LeasedIsBehind'
  <2>1. /\ LeaseInv' /\ UNCHANGED blocks
        /\ sequence' \in Nat /\ sequence <= sequence'
    BY <1>4, OutsideLease
  <2>2. QED
    BY <1>1, <2>1 DEF LeasedIsBehind
<1>5. ASSUME NEW w \in Workers,
             \/ \E size \in Sizes : LeaseBlock(w, size)
             \/ DrawFirst(w) \/ SetSequence(w) \/ StoreBlock(w)
      PROVE  LeaseInv' /\ LeasedIsBehind'
  BY <1>5, InsideLease
<1>6. ASSUME NEW w \in Workers, NEW k \in Keys \cup {None}, CreateReplayed(w, k)
      PROVE  LeaseInv' /\ LeasedIsBehind'
  BY <1>6, NoLease
<1>7. QED
  BY <1>2, <1>3, <1>4, <1>5, <1>6 DEF Next

\* Consuming and settling values change their status, never their block.
LEMMA SameBlock ==
  ASSUME TypeOK, BlocksAreWhole, UNCHANGED blocks,
         \A v \in Values : allocation'[v].block = allocation[v].block
  PROVE  BlocksAreWhole'
<1>1. \A b \in blocks : \A v \in b.first .. b.last : v \in Values
  BY CountAssumption DEF TypeOK, Block, Values
<1>2. QED
  BY <1>1 DEF BlocksAreWhole

\* A block that is stored takes values nobody had, behind the other blocks.
LEMMA StoreIsWhole ==
  ASSUME TypeOK, LeaseInv, BlocksAreWhole, NEW w \in Workers, StoreBlock(w)
  PROVE  BlocksAreWhole'
<1>1. /\ op[w].value \in Values /\ LastOf(w) \in Nat /\ LastOf(w) <= MaxValue
      /\ \A b \in blocks : b.last < op[w].value
  BY InHand DEF LeaseInv, Leasers, StoreBlock, At
<1>2. CASE \E v \in op[w].value .. LastOf(w) : Taken(v)
  <2>1. UNCHANGED <<allocation, blocks>>
    BY <1>2 DEF StoreBlock
  <2>2. QED
    BY <2>1 DEF BlocksAreWhole
<1>3. CASE /\ \A v \in op[w].value .. LastOf(w) : ~ Taken(v)
           /\ allocation' = Reserved(w)
           /\ blocks' = blocks \cup {NewBlock(w)}
  <2>1. ASSUME NEW v \in op[w].value .. LastOf(w)
        PROVE  allocation'[v].block = op[w].value
    <3>1. v \in Values
      BY <1>1, <2>1, CountAssumption DEF Values
    <3>2. allocation'[v] = [Unallocated EXCEPT !.status = "RESERVED", !.block = op[w].value]
      BY <1>3, <3>1 DEF Reserved
    <3>3. [Unallocated EXCEPT !.status = "RESERVED", !.block = op[w].value].block
            = op[w].value
      BY DEF Unallocated
    <3>4. QED
      BY <3>2, <3>3
  <2>2. ASSUME NEW b \in blocks, NEW v \in b.first .. b.last
        PROVE  allocation'[v] = allocation[v]
    <3>1. v \in Values /\ v < op[w].value
      BY <1>1, CountAssumption DEF TypeOK, Block, Values
    <3>2. v \notin op[w].value .. LastOf(w)
      BY <1>1, <3>1 DEF Values
    <3>3. QED
      BY <1>3, <3>1, <3>2 DEF Reserved
  <2>3. QED
    BY <1>3, <2>1, <2>2 DEF BlocksAreWhole, NewBlock
<1>4. QED
  BY <1>2, <1>3 DEF StoreBlock

\* The steps that touch allocations or blocks.
LEMMA AllocationSteps ==
  ASSUME [Next]_vars
  PROVE  \/ UNCHANGED <<allocation, blocks>>
         \/ \E w \in Workers : Record(w) \/ StoreBlock(w)
         \/ \E b \in blocks, next \in 1 .. MaxValue + 1 : SettleBlock(b, next)
<1>1. ASSUME NEW w \in Workers,
             \/ NextValue(w) \/ AllocateIdentifier(w)
             \/ \E k \in Keys \cup {None} : CreateAsset(w, k) \/ CreateReplayed(w, k)
             \/ EnforceAssetCap(w) \/ LookAgain(w) \/ NextAssetNumber(w)
             \/ InsertAsset(w) \/ Answer(w)
             \/ Backfill(w) \/ BackfillNext(w) \/ AssignIar(w)
             \/ \E t \in Tags, n \in Numbers : CommissionTag(w, t, n) \/ VerifyTag(w, t, n)
             \/ EncodeTag(w) \/ Bind(w) \/ Fail(w)
             \/ \E size \in Sizes : LeaseBlock(w, size)
             \/ DrawFirst(w) \/ SetSequence(w)
      PROVE  UNCHANGED <<allocation, blocks>>
  BY <1>1 DEF NextValue, AllocateIdentifier, CreateAsset, CreateReplayed, EnforceAssetCap,
     LookAgain, NextAssetNumber, InsertAsset, Answer, Backfill, BackfillNext, AssignIar,
     CommissionTag, VerifyTag, EncodeTag, Bind, Fail, LeaseBlock, DrawFirst, SetSequence
<1>2. ASSUME NEW n \in Numbers, DeleteAsset(n)
      PROVE  UNCHANGED <<allocation, blocks>>
  BY <1>2 DEF DeleteAsset
<1>3. CASE UNCHANGED vars
  BY <1>3 DEF vars
<1>4. QED
  BY SMTT(30), <1>1, <1>2, <1>3 DEF Next

\* Every step keeps the blocks whole.
LEMMA WholeStep ==
  ASSUME TypeOK, LeaseInv, BlocksAreWhole, [Next]_vars
  PROVE  BlocksAreWhole'
<1>1. CASE UNCHANGED <<allocation, blocks>>
  BY <1>1 DEF BlocksAreWhole
<1>2. ASSUME NEW w \in Workers, Record(w)
      PROVE  BlocksAreWhole'
  <2>1. UNCHANGED blocks
    BY <1>2 DEF Record
  <2>2. CASE UNCHANGED allocation
    BY <1>1, <2>1, <2>2
  <2>3. CASE allocation' = [allocation EXCEPT ![op[w].value].status = "CONSUMED"]
    <3>1. \A v \in Values : allocation'[v].block = allocation[v].block
      BY <2>3 DEF TypeOK, Allocation
    <3>2. QED
      BY <2>1, <3>1, SameBlock
  <2>4. QED
    BY <1>2, <2>2, <2>3 DEF Record
<1>3. ASSUME NEW b \in blocks, NEW next \in 1 .. MaxValue + 1, SettleBlock(b, next)
      PROVE  BlocksAreWhole'
  <2>1. UNCHANGED blocks
    BY <1>3 DEF SettleBlock
  <2>2. ASSUME NEW v \in Values
        PROVE  allocation'[v].block = allocation[v].block
    <3>1. \/ allocation'[v] = allocation[v]
          \/ \E st : allocation'[v] = [allocation[v] EXCEPT !.status = st]
      BY <1>3 DEF SettleBlock
    <3>2. allocation[v] \in Allocation
      BY DEF TypeOK
    <3>3. QED
      BY <3>1, <3>2 DEF Allocation
  <2>3. QED
    BY <2>1, <2>2, SameBlock
<1>4. ASSUME NEW w \in Workers, StoreBlock(w)
      PROVE  BlocksAreWhole'
  BY <1>4, StoreIsWhole
<1>5. QED
  BY <1>1, <1>2, <1>3, <1>4, AllocationSteps

-----------------------------------------------------------------------------
(* Consumed values and who holds them *)

\* What is consumed or released is as it is for good.
LEMMA DecidedStays ==
  ASSUME TypeOK, [Next]_vars, NEW v \in Values,
         allocation[v].status \in {"CONSUMED", "RELEASED"}
  PROVE  allocation'[v] = allocation[v]
<1>1. Taken(v)
  BY DEF Taken, None
<1>2. ASSUME NEW w \in Workers, Record(w)
      PROVE  allocation'[v] = allocation[v]
  BY <1>1, <1>2 DEF Record, TypeOK
<1>3. ASSUME NEW w \in Workers, StoreBlock(w)
      PROVE  allocation'[v] = allocation[v]
  BY <1>1, <1>3 DEF StoreBlock, Reserved
<1>4. ASSUME NEW b \in blocks, NEW next \in 1 .. MaxValue + 1, SettleBlock(b, next)
      PROVE  allocation'[v] = allocation[v]
  BY <1>4 DEF SettleBlock, Undecided
<1>5. QED
  BY <1>2, <1>3, <1>4, AllocationSteps

\* The steps that touch assets.
LEMMA AssetSteps ==
  ASSUME [Next]_vars
  PROVE  \/ UNCHANGED asset
         \/ \E w \in Workers : InsertAsset(w) \/ AssignIar(w)
         \/ \E n \in Numbers : DeleteAsset(n)
<1>1. ASSUME NEW w \in Workers,
             \/ NextValue(w) \/ Record(w) \/ AllocateIdentifier(w)
             \/ \E k \in Keys \cup {None} : CreateAsset(w, k) \/ CreateReplayed(w, k)
             \/ EnforceAssetCap(w) \/ LookAgain(w) \/ NextAssetNumber(w) \/ Answer(w)
             \/ Backfill(w) \/ BackfillNext(w)
             \/ \E t \in Tags, n \in Numbers : CommissionTag(w, t, n) \/ VerifyTag(w, t, n)
             \/ EncodeTag(w) \/ Bind(w) \/ Fail(w)
             \/ \E size \in Sizes : LeaseBlock(w, size)
             \/ DrawFirst(w) \/ SetSequence(w) \/ StoreBlock(w)
      PROVE  UNCHANGED asset
  BY <1>1 DEF NextValue, Record, AllocateIdentifier, CreateAsset, CreateReplayed,
     EnforceAssetCap, LookAgain, NextAssetNumber, Answer, Backfill, BackfillNext,
     CommissionTag, VerifyTag, EncodeTag, Bind, Fail, LeaseBlock, DrawFirst, SetSequence,
     StoreBlock
<1>2. ASSUME NEW b \in blocks, NEW next \in 1 .. MaxValue + 1, SettleBlock(b, next)
      PROVE  UNCHANGED asset
  BY <1>2 DEF SettleBlock
<1>3. CASE UNCHANGED vars
  BY <1>3 DEF vars
<1>4. QED
  BY SMTT(30), <1>1, <1>2, <1>3 DEF Next

\* IarHeldOnce without counting.
Alone(v) ==
  /\ \A x, y \in HandsOn(v) : x = y
  /\ \A m, n \in RowsWith(v) : m = n
  /\ HandsOn(v) = {} \/ RowsWith(v) = {}
Spent(v) == allocation[v].status = "CONSUMED" /\ allocation[v].block = NoValue
Free(v)  == HandsOn(v) = {} /\ RowsWith(v) = {}
HeldInv  == \A v \in Values : Alone(v) /\ (Free(v) \/ Spent(v))

\* A value that is consumed outside every block stays so.
LEMMA SpentStays ==
  ASSUME TypeOK, [Next]_vars, NEW v \in Values, Spent(v)
  PROVE  Spent(v)'
BY DecidedStays DEF Spent

\* A step that puts a value in no one's hands and on no row.
LEMMA NoNewHolder ==
  ASSUME TypeOK, HeldInv, [Next]_vars,
         \A v \in Values : HandsOn(v)' \subseteq HandsOn(v),
         \A v \in Values : RowsWith(v)' \subseteq RowsWith(v)
  PROVE  HeldInv'
<1> SUFFICES ASSUME NEW v \in Values
             PROVE  Alone(v)' /\ (Free(v)' \/ Spent(v)')
  BY DEF HeldInv
<1>1. HandsOn(v)' \subseteq HandsOn(v) /\ RowsWith(v)' \subseteq RowsWith(v)
  OBVIOUS
<1>2. Alone(v) /\ (Free(v) \/ Spent(v))
  BY DEF HeldInv
<1>3. Alone(v)'
  BY <1>1, <1>2 DEF Alone
<1>4. Free(v) => Free(v)'
  BY <1>1 DEF Free
<1>5. QED
  BY <1>2, <1>3, <1>4, SpentStays

\* A worker that goes elsewhere has no reference in hand any more.
LEMMA FewerHands ==
  ASSUME NEW w \in Workers, Only(w), op'[w] = Idle \/ op'[w].at \notin {"insert", "assign"}
  PROVE  \A v \in Values : HandsOn(v)' \subseteq HandsOn(v) \ {w}
BY DEF HandsOn, Only

\* The reference passes from the worker's hands to row n.
LEMMA HandToRow ==
  ASSUME TypeOK, HeldInv, [Next]_vars, NEW w \in Workers, NEW n \in Numbers,
         op[w].at \in {"insert", "assign"}, op[w].value \in Values,
         Only(w), op'[w].at \notin {"insert", "assign"},
         \A m \in Numbers : m # n => asset'[m].iar = asset[m].iar,
         asset'[n].iar = op[w].value
  PROVE  HeldInv'
<1> SUFFICES ASSUME NEW v \in Values
             PROVE  Alone(v)' /\ (Free(v)' \/ Spent(v)')
  BY DEF HeldInv
<1>1. Alone(v) /\ (Free(v) \/ Spent(v))
  BY DEF HeldInv
<1>2. HandsOn(v)' \subseteq HandsOn(v) \ {w}
  BY FewerHands
<1>3. CASE v # op[w].value
  <2>1. RowsWith(v)' \subseteq RowsWith(v)
    BY <1>3 DEF RowsWith
  <2>2. Alone(v)'
    BY <1>1, <1>2, <2>1 DEF Alone
  <2>3. Free(v) => Free(v)'
    BY <1>2, <2>1 DEF Free
  <2>4. QED
    BY <1>1, <2>2, <2>3, SpentStays
<1>4. CASE v = op[w].value
  <2>1. w \in HandsOn(v)
    BY <1>4 DEF HandsOn, Idle
  <2>2. HandsOn(v)' = {} /\ RowsWith(v) = {} /\ Spent(v)
    BY <1>1, <1>2, <2>1 DEF Alone, Free
  <2>3. RowsWith(v)' \subseteq {n}
    BY <2>2 DEF RowsWith
  <2>4. Alone(v)'
    BY <2>2, <2>3 DEF Alone
  <2>5. QED
    BY <2>2, <2>4, SpentStays
<1>5. QED
  BY <1>3, <1>4

\* An insert passes the reference on or drops it.
LEMMA InsertHeld ==
  ASSUME TypeOK, HeldInv, [Next]_vars, NEW w \in Workers, InsertAsset(w)
  PROVE  HeldInv'
<1>1. Only(w) /\ op'[w].at \notin {"insert", "assign"}
  BY Elsewhere DEF Special
<1>2. /\ op[w].at = "insert" /\ op[w].value \in Values /\ op[w].job.asset \in Numbers
  BY Working, WhereWhat, TypeParts DEF InsertAsset, At, Create
<1>3. CASE Inserted(w)
  <2>1. asset' = [asset EXCEPT ![op[w].job.asset] = NewRow(w)]
    BY <1>3 DEF Inserted
  <2>2. /\ asset'[op[w].job.asset] = NewRow(w)
        /\ \A m \in Numbers : m # op[w].job.asset => asset'[m] = asset[m]
    BY <1>2, <2>1 DEF TypeOK
  <2>3. NewRow(w).iar = op[w].value
    BY DEF NewRow
  <2>4. QED
    BY <1>1, <1>2, <2>2, <2>3, HandToRow
<1>4. CASE ~ Inserted(w)
  <2>1. UNCHANGED asset
    BY <1>4 DEF InsertAsset, ReplacedByReplay, TriedAgain
  <2>2. \A v \in Values : RowsWith(v)' \subseteq RowsWith(v)
    BY <2>1 DEF RowsWith
  <2>3. \A v \in Values : HandsOn(v)' \subseteq HandsOn(v)
    BY <1>1, FewerHands
  <2>4. QED
    BY <2>2, <2>3, NoNewHolder
<1>5. QED
  BY <1>3, <1>4

\* So does the update of an older asset.
LEMMA AssignHeld ==
  ASSUME TypeOK, HeldInv, [Next]_vars, NEW w \in Workers, AssignIar(w)
  PROVE  HeldInv'
<1>1. Only(w) /\ op'[w].at \notin {"insert", "assign"}
  BY Elsewhere DEF Special
<1>2. /\ op[w].at = "assign" /\ op[w].value \in Values /\ op[w].job.asset \in Numbers
  BY Working, WhereWhat, TypeParts DEF AssignIar, At, Assigning, Backfilling, Tagging
<1>3. CASE UNCHANGED asset
  <2>1. \A v \in Values : RowsWith(v)' \subseteq RowsWith(v)
    BY <1>3 DEF RowsWith
  <2>2. \A v \in Values : HandsOn(v)' \subseteq HandsOn(v)
    BY <1>1, FewerHands
  <2>3. QED
    BY <2>1, <2>2, NoNewHolder
<1>4. CASE asset' = [asset EXCEPT ![op[w].job.asset].iar = op[w].value]
  <2>1. /\ asset'[op[w].job.asset].iar = op[w].value
        /\ \A m \in Numbers : m # op[w].job.asset => asset'[m] = asset[m]
    BY <1>2, <1>4 DEF TypeOK, Row
  <2>2. QED
    BY <1>1, <1>2, <2>1, HandToRow
<1>5. QED
  BY <1>3, <1>4 DEF AssignIar, Assigned

UntakenInv == \A v \in Values : ~ Taken(v) => allocation[v].block = NoValue

\* Every step keeps the values that nobody took out of the blocks.
LEMMA UntakenStep ==
  ASSUME TypeOK, UntakenInv, [Next]_vars
  PROVE  UntakenInv'
<1> SUFFICES ASSUME NEW v \in Values, ~ Taken(v)'
             PROVE  allocation'[v].block = NoValue
  BY DEF UntakenInv
<1>1. allocation'[v].status = None
  BY DEF Taken
<1>2. CASE allocation'[v] = allocation[v]
  BY <1>1, <1>2 DEF UntakenInv, Taken
<1>3. ASSUME NEW w \in Workers, Record(w)
      PROVE  allocation'[v] = allocation[v]
  <2>1. CASE op[w].value = v
    BY <1>1, <1>3, <2>1 DEF Record, TypeOK, Allocation, None
  <2>2. CASE op[w].value # v
    BY <1>3, <2>2 DEF Record, TypeOK
  <2>3. QED
    BY <2>1, <2>2
<1>4. ASSUME NEW w \in Workers, StoreBlock(w)
      PROVE  allocation'[v] = allocation[v]
  BY <1>1, <1>4 DEF StoreBlock, Reserved, Unallocated, None
<1>5. ASSUME NEW b \in blocks, NEW next \in 1 .. MaxValue + 1, SettleBlock(b, next)
      PROVE  allocation'[v] = allocation[v]
  BY <1>1, <1>5 DEF SettleBlock, TypeOK, Allocation, None
<1>6. QED
  BY <1>2, <1>3, <1>4, <1>5, AllocationSteps

\* A value that is recorded was not taken, so nobody had it.
LEMMA RecordHeld ==
  ASSUME TypeOK, HeldInv, UntakenInv, [Next]_vars, NEW w \in Workers, Record(w)
  PROVE  HeldInv'
<1>1. op[w].value \in Values
  BY Working, WhereWhat, TypeParts DEF Record, At
<1>2. \A v \in Values : RowsWith(v)' = RowsWith(v)
  BY DEF Record, RowsWith
<1>3. CASE op'[w] = Idle \/ op'[w].at \notin {"insert", "assign"}
  BY <1>2, <1>3, RecordLeadsTo, FewerHands, NoNewHolder
<1>4. CASE /\ op'[w] # Idle /\ op'[w].at \in {"insert", "assign"}
           /\ op'[w].value = op[w].value
  <2>1. ~ Taken(op[w].value)
        /\ allocation' = [allocation EXCEPT ![op[w].value].status = "CONSUMED"]
    BY <1>4, DoneOnly, TypeParts DEF Record
  <2>2. SUFFICES ASSUME NEW v \in Values
                 PROVE  Alone(v)' /\ (Free(v)' \/ Spent(v)')
    BY DEF HeldInv
  <2>3. Alone(v) /\ (Free(v) \/ Spent(v))
    BY DEF HeldInv
  <2>4. HandsOn(v)' \subseteq HandsOn(v) \cup {w}
    BY RecordLeadsTo DEF HandsOn, Only
  <2>5. CASE v # op[w].value
    <3>1. HandsOn(v)' \subseteq HandsOn(v)
      BY <1>4, <2>4, <2>5 DEF HandsOn
    <3>2. Alone(v)' /\ (Free(v) => Free(v)')
      BY <1>2, <2>3, <3>1 DEF Alone, Free
    <3>3. QED
      BY <2>3, <3>2, SpentStays
  <2>6. CASE v = op[w].value
    <3>1. Free(v)
      BY <2>1, <2>3, <2>6 DEF Taken, Spent, None
    <3>2. Alone(v)'
      BY <1>2, <2>4, <3>1 DEF Alone, Free
    <3>3. allocation'[v].status = "CONSUMED" /\ allocation'[v].block = allocation[v].block
      BY <1>1, <2>1, <2>6 DEF TypeOK, Allocation
    <3>4. allocation[v].block = NoValue
      BY <1>1, <2>1, <2>6 DEF UntakenInv
    <3>5. QED
      BY <3>2, <3>3, <3>4 DEF Spent
  <2>7. QED
    BY <2>5, <2>6
<1>5. QED
  BY <1>3, <1>4, RecordLeadsTo

\* A lease gives no one a reference in hand.
LEMMA LeaseHands ==
  ASSUME TypeOK, NEW w \in Workers,
         \/ \E size \in Sizes : LeaseBlock(w, size)
         \/ DrawFirst(w) \/ SetSequence(w) \/ StoreBlock(w)
  PROVE  Only(w) /\ op'[w].at \notin {"insert", "assign"}
<1>1. OpType
  BY DEF TypeOK, OpType
<1>2. CASE StoreBlock(w)
  BY <1>1, <1>2, DoneOnly DEF StoreBlock, Idle
<1>3. CASE \E size \in Sizes : LeaseBlock(w, size)
  <2>1. PICK size \in Sizes : LeaseBlock(w, size)
    BY <1>3
  <2>2. QED
    BY <1>1, <2>1, WorkOnly DEF LeaseBlock, Begin, Take
<1>4. CASE DrawFirst(w) \/ SetSequence(w)
  BY <1>1, <1>4, WorkOnly DEF DrawFirst, SetSequence, GoOn
<1>5. QED
  BY <1>2, <1>3, <1>4

\* Every step keeps each reference with one holder.
LEMMA HeldStep ==
  ASSUME TypeOK, HeldInv, UntakenInv, [Next]_vars
  PROVE  HeldInv'
<1>1. ASSUME NEW w \in Workers, InsertAsset(w) PROVE HeldInv'
  BY <1>1, InsertHeld
<1>2. ASSUME NEW w \in Workers, AssignIar(w) PROVE HeldInv'
  BY <1>2, AssignHeld
<1>3. ASSUME NEW w \in Workers, Record(w) PROVE HeldInv'
  BY <1>3, RecordHeld
<1>4. CASE UNCHANGED <<op, asset>>
  <2>1. \A v \in Values : HandsOn(v)' = HandsOn(v) /\ RowsWith(v)' = RowsWith(v)
    BY <1>4 DEF HandsOn, RowsWith
  <2>2. QED
    BY <2>1, NoNewHolder
<1>5. ASSUME NEW n \in Numbers, DeleteAsset(n) PROVE HeldInv'
  <2>1. \A m \in Numbers : asset'[m].iar = asset[m].iar
    BY <1>5 DEF DeleteAsset, TypeOK, Row
  <2>2. \A v \in Values : HandsOn(v)' = HandsOn(v) /\ RowsWith(v)' = RowsWith(v)
    BY <1>5, <2>1 DEF HandsOn, RowsWith, DeleteAsset
  <2>3. QED
    BY <2>2, NoNewHolder
<1>6. ASSUME NEW w \in Workers,
             \/ NextValue(w) \/ AllocateIdentifier(w)
             \/ \E k \in Keys \cup {None} : CreateAsset(w, k)
             \/ EnforceAssetCap(w) \/ LookAgain(w) \/ NextAssetNumber(w) \/ Answer(w)
             \/ Backfill(w) \/ BackfillNext(w)
             \/ \E t \in Tags, n \in Numbers : CommissionTag(w, t, n)
             \/ EncodeTag(w) \/ Bind(w) \/ Fail(w)
             \/ \E t \in Tags, n \in Numbers : VerifyTag(w, t, n)
             \/ \E size \in Sizes : LeaseBlock(w, size)
             \/ DrawFirst(w) \/ SetSequence(w) \/ StoreBlock(w),
             UNCHANGED asset
      PROVE  HeldInv'
  <2>1. Only(w) /\ op'[w].at \notin {"insert", "assign"}
    BY <1>6, Elsewhere, LeaseHands DEF Special
  <2>2. \A v \in Values : HandsOn(v)' \subseteq HandsOn(v) /\ RowsWith(v)' = RowsWith(v)
    BY <1>6, <2>1, FewerHands DEF RowsWith
  <2>3. QED
    BY <2>2, NoNewHolder
<1>7. ASSUME NEW w \in Workers, NEW k \in Keys \cup {None}, CreateReplayed(w, k)
      PROVE  UNCHANGED <<op, asset>>
  BY <1>7 DEF CreateReplayed
<1>8. ASSUME NEW b \in blocks, NEW next \in 1 .. MaxValue + 1, SettleBlock(b, next)
      PROVE  UNCHANGED <<op, asset>>
  BY <1>8 DEF SettleBlock
<1>9. CASE UNCHANGED vars
  BY <1>4, <1>9 DEF vars
<1>10. QED
  BY <1>1, <1>2, <1>3, <1>4, <1>5, <1>6, <1>7, <1>8, <1>9, AssetSteps DEF Next

\* Without counting and with it.
LEMMA AloneMeansOnce ==
  ASSUME NEW v \in Values, Alone(v)
  PROVE  Cardinality(HandsOn(v)) + Cardinality(RowsWith(v)) <= 1
<1>1. ASSUME NEW S, \A x, y \in S : x = y
      PROVE  S = {} \/ \E x : S = {x}
  BY <1>1
<1>2. /\ HandsOn(v) = {} \/ \E x : HandsOn(v) = {x}
      /\ RowsWith(v) = {} \/ \E x : RowsWith(v) = {x}
  BY <1>1 DEF Alone
<1>3. /\ Cardinality(HandsOn(v)) \in {0, 1}
      /\ Cardinality(RowsWith(v)) \in {0, 1}
  BY <1>2, FS_EmptySet, FS_Singleton
<1>4. Cardinality(HandsOn(v)) = 0 \/ Cardinality(RowsWith(v)) = 0
  BY FS_EmptySet DEF Alone
<1>5. QED
  BY <1>3, <1>4

-----------------------------------------------------------------------------
(* Rows and the references bound to carriers *)

\* The assets that a request gives references to.
ToNumber(job) ==
  {n \in Numbers : \/ job.kind \in {"backfill", "commission"} /\ n = job.asset
                   \/ job.kind = "backfill" /\ n \in job.todo}

\* They exist, and an asset that does not exist has no reference.
RowInv ==
  /\ \A w \in Workers : op[w] # Idle => ToNumber(op[w].job) \subseteq Existing
  /\ \A n \in Numbers : asset[n].state = None => asset[n].iar = NoValue

\* Rows are never removed.
LEMMA RowsStay ==
  ASSUME TypeOK, RowInv, [Next]_vars
  PROVE  /\ Existing \subseteq Existing'
         /\ \A n \in Numbers : asset'[n].state = None => asset'[n].iar = NoValue
<1>1. CASE UNCHANGED asset
  BY <1>1 DEF Existing, RowInv
<1>2. ASSUME NEW w \in Workers, InsertAsset(w), ~ UNCHANGED asset
      PROVE  \A n \in Numbers : \/ asset'[n] = asset[n]
                                \/ asset'[n].state = "live"
  <2>1. op[w].job.asset \in Numbers
    BY <1>2, Working, WhereWhat, TypeParts DEF InsertAsset, At, Create
  <2>2. asset' = [asset EXCEPT ![op[w].job.asset] = NewRow(w)]
    BY <1>2 DEF InsertAsset, Inserted, ReplacedByReplay, TriedAgain
  <2>3. NewRow(w).state = "live"
    BY DEF NewRow
  <2>4. QED
    BY <2>1, <2>2, <2>3 DEF TypeOK
<1>3. ASSUME NEW w \in Workers, AssignIar(w), ~ UNCHANGED asset
      PROVE  \A n \in Numbers : \/ asset'[n] = asset[n]
                                \/ asset'[n].state = asset[n].state /\ n \in Existing
  <2>1. /\ op[w].job.asset \in Numbers /\ op[w].job.kind \in {"backfill", "commission"}
        /\ op[w] # Idle
    BY <1>3, Working, WhereWhat, TypeParts
       DEF AssignIar, At, Assigning, Backfilling, Tagging, Idle
  <2>2. asset' = [asset EXCEPT ![op[w].job.asset].iar = op[w].value]
    BY <1>3 DEF AssignIar, Assigned
  <2>3. op[w].job.asset \in Existing
    BY <2>1 DEF RowInv, ToNumber
  <2>4. asset'[op[w].job.asset].state = asset[op[w].job.asset].state
    BY <2>1, <2>2 DEF TypeOK, Row
  <2>5. QED
    BY <2>1, <2>2, <2>3, <2>4 DEF TypeOK
<1>4. ASSUME NEW m \in Numbers, DeleteAsset(m)
      PROVE  \A n \in Numbers : \/ asset'[n] = asset[n]
                                \/ asset'[n].state = "deleted"
  BY <1>4 DEF DeleteAsset, TypeOK, Row
<1>5. \A n \in Numbers : \/ asset'[n] = asset[n]
                         \/ asset'[n].state \in {"live", "deleted"}
                         \/ asset'[n].state = asset[n].state /\ n \in Existing
  BY <1>2, <1>3, <1>4, AssetSteps
<1>6. QED
  BY <1>5 DEF Existing, RowInv, None

\* What a worker knows after a step of its own.
Knows(w) == op'[w] # Idle => ToNumber(op'[w].job) \subseteq Existing

\* A request that has ended numbers nothing.
LEMMA KnowsDone ==
  ASSUME TypeOK, NEW w \in Workers, Done(w)
  PROVE  Knows(w)
BY DoneOnly, TypeParts DEF Knows

\* Whoever goes on with a job knows what the job names.
LEMMA KnowsWork ==
  ASSUME TypeOK, NEW w \in Workers, NEW at, NEW job, NEW value, Work(w, at, job, value),
         ToNumber(job) \subseteq Existing
  PROVE  Knows(w)
BY WorkOnly, TypeParts DEF Knows

\* Whoever goes on with the same job knows what it knew.
LEMMA KnowsGoOn ==
  ASSUME TypeOK, RowInv, NEW w \in Workers, NEW at, NEW value, GoOn(w, at, value),
         op[w].at # "idle"
  PROVE  Knows(w)
<1>1. op[w] # Idle
  BY DEF Idle
<1>2. op'[w].job = op[w].job
  BY WorkOnly, TypeParts DEF GoOn
<1>3. QED
  BY <1>1, <1>2 DEF RowInv, Knows

\* Jobs that give no reference to an asset there is.
LEMMA NothingToNumber ==
  /\ \A k, tries, n : ToNumber(CreateJob(k, tries, n)) = {}
  /\ ToNumber([kind |-> "issue"]) = {}
  /\ \A size : ToNumber([kind |-> "lease", size |-> size]) = {}
  /\ \A t, n : ToNumber([kind |-> "verify", tag |-> t, asset |-> n]) = {}
BY DEF ToNumber, CreateJob

\* The steps that go on with the same job or end it.
LEMMA KnowsGoing ==
  ASSUME TypeOK, RowInv, NEW w \in Workers,
         \/ NextValue(w) \/ Record(w) \/ EnforceAssetCap(w) \/ LookAgain(w)
         \/ Answer(w) \/ AssignIar(w) \/ EncodeTag(w) \/ Bind(w) \/ Fail(w)
         \/ DrawFirst(w) \/ SetSequence(w) \/ StoreBlock(w)
  PROVE  Knows(w)
<1>1. CASE \/ NextValue(w) \/ EnforceAssetCap(w) \/ LookAgain(w)
           \/ DrawFirst(w) \/ SetSequence(w)
  BY <1>1, KnowsDone, KnowsGoOn
     DEF NextValue, EnforceAssetCap, LookAgain, DrawFirst, SetSequence, At
<1>2. CASE Record(w) \/ AssignIar(w)
  BY SMTT(30), <1>2, KnowsDone, KnowsGoOn DEF Record, Handed, AssignIar, Assigned, At
<1>3. CASE Answer(w) \/ EncodeTag(w) \/ Bind(w) \/ Fail(w) \/ StoreBlock(w)
  BY <1>3, KnowsDone DEF Answer, EncodeTag, Bind, Fail, StoreBlock
<1>4. QED
  BY <1>1, <1>2, <1>3

\* The steps that begin or change a job: what they name exists.
LEMMA KnowsJob ==
  ASSUME TypeOK, RowInv, NEW w \in Workers,
         \/ AllocateIdentifier(w)
         \/ \E k \in Keys \cup {None} : CreateAsset(w, k)
         \/ NextAssetNumber(w) \/ InsertAsset(w) \/ Backfill(w) \/ BackfillNext(w)
         \/ \E t \in Tags, n \in Numbers : CommissionTag(w, t, n)
         \/ \E t \in Tags, n \in Numbers : VerifyTag(w, t, n)
         \/ \E size \in Sizes : LeaseBlock(w, size)
  PROVE  Knows(w)
<1>1. CASE AllocateIdentifier(w)
  BY <1>1, KnowsWork, NothingToNumber DEF AllocateIdentifier, Begin, Take
<1>2. ASSUME NEW k \in Keys \cup {None}, CreateAsset(w, k)
      PROVE  Knows(w)
  BY <1>2, KnowsWork, NothingToNumber DEF CreateAsset, Begin, Take
<1>3. CASE NextAssetNumber(w)
  BY <1>3, KnowsWork, NothingToNumber DEF NextAssetNumber
<1>4. CASE InsertAsset(w)
  <2>1. CASE TriedAgain(w)
    BY <2>1, KnowsWork, KnowsDone, NothingToNumber DEF TriedAgain
  <2>2. CASE Inserted(w)
    BY <1>4, <2>2, KnowsGoOn DEF InsertAsset, Inserted, At
  <2>3. CASE ReplacedByReplay(w)
    BY <2>3, KnowsDone DEF ReplacedByReplay
  <2>4. QED
    BY <1>4, <2>1, <2>2, <2>3 DEF InsertAsset
<1>5. CASE Backfill(w)
  <2> DEFINE todo == {n \in Live : asset[n].iar = NoValue}
             job  == [kind |-> "backfill", asset |-> NoAsset, todo |-> todo]
  <2>1. Work(w, "backfill", job, NoValue)
    BY <1>5 DEF Backfill, Begin, Take
  <2>2. todo \subseteq Existing
    BY DEF Live, Existing, None
  <2>3. job.kind = "backfill" /\ job.asset = NoAsset /\ job.todo = todo
    OBVIOUS
  <2>4. \A n \in Numbers : n # NoAsset
    BY DEF Numbers, NoAsset
  <2> HIDE DEF job
  <2>5. ToNumber(job) \subseteq Existing
    BY <2>2, <2>3, <2>4 DEF ToNumber
  <2>6. QED
    BY <2>1, <2>5, KnowsWork
<1>6. CASE BackfillNext(w)
  <2>1. CASE Done(w)
    BY <2>1, KnowsDone
  <2>2. CASE \E n \in op[w].job.todo :
               Work(w, "next", [kind |-> "backfill", todo |-> op[w].job.todo \ {n},
                                asset |-> n], NoValue)
    <3>1. op[w].job.todo \subseteq Numbers /\ op[w].job.kind = "backfill" /\ op[w] # Idle
      BY <1>6, Working, WhereWhat, TypeParts DEF BackfillNext, At, Backfilling, Idle
    <3>2. op[w].job.todo \subseteq Existing
      BY <3>1 DEF RowInv, ToNumber
    <3>3. PICK n \in op[w].job.todo :
            Work(w, "next", [kind |-> "backfill", todo |-> op[w].job.todo \ {n},
                             asset |-> n], NoValue)
      BY <2>2
    <3> DEFINE job == [kind |-> "backfill", todo |-> op[w].job.todo \ {n}, asset |-> n]
    <3>4. job.kind = "backfill" /\ job.asset = n /\ job.todo = op[w].job.todo \ {n}
      OBVIOUS
    <3>5. Work(w, "next", job, NoValue)
      BY <3>3
    <3> HIDE DEF job
    <3>6. ToNumber(job) \subseteq Existing
      BY <3>2, <3>4 DEF ToNumber
    <3>7. QED
      BY <3>5, <3>6, KnowsWork
  <2>3. QED
    BY <1>6, <2>1, <2>2 DEF BackfillNext
<1>7. ASSUME NEW t \in Tags, NEW n \in Numbers, CommissionTag(w, t, n)
      PROVE  Knows(w)
  <2> DEFINE job == [kind |-> "commission", tag |-> t, asset |-> n]
  <2>1. Work(w, IF asset[n].iar = NoValue THEN "next" ELSE "encode", job, asset[n].iar)
    BY <1>7 DEF CommissionTag, Take
  <2>2. n \in Existing
    BY <1>7 DEF CommissionTag, Live, Existing, None
  <2>3. ToNumber(job) \subseteq Existing
    BY <2>2 DEF ToNumber
  <2> HIDE DEF job
  <2>4. QED
    BY <2>1, <2>3, KnowsWork
<1>8. ASSUME NEW t \in Tags, NEW n \in Numbers, VerifyTag(w, t, n)
      PROVE  Knows(w)
  BY <1>8, KnowsWork, NothingToNumber DEF VerifyTag, Begin, Take
<1>9. ASSUME NEW size \in Sizes, LeaseBlock(w, size)
      PROVE  Knows(w)
  BY <1>9, KnowsWork, NothingToNumber DEF LeaseBlock, Begin, Take
<1>10. QED
  BY <1>1, <1>2, <1>3, <1>4, <1>5, <1>6, <1>7, <1>8, <1>9

\* Every step keeps RowInv.
LEMMA RowStep ==
  ASSUME TypeOK, RowInv, [Next]_vars
  PROVE  RowInv'
<1>1. /\ Existing \subseteq Existing'
      /\ \A n \in Numbers : asset'[n].state = None => asset'[n].iar = NoValue
  BY RowsStay
<1>2. SUFFICES ASSUME NEW x \in Workers
               PROVE  op'[x] = op[x] \/ Knows(x)
  <2>1. \A x \in Workers : Knows(x)
    BY <1>2 DEF Knows, RowInv
  <2>2. QED
    BY <1>1, <2>1 DEF Knows, RowInv, ToNumber
<1>3. CASE UNCHANGED op
  BY <1>3
<1>4. ASSUME NEW w \in Workers, Only(w), Knows(w)
      PROVE  op'[x] = op[x] \/ Knows(x)
  BY <1>4 DEF Only
<1>5. ASSUME NEW w \in Workers,
             \/ NextValue(w) \/ EnforceAssetCap(w) \/ LookAgain(w)
             \/ Answer(w) \/ AssignIar(w) \/ EncodeTag(w) \/ Bind(w) \/ Fail(w)
      PROVE  Only(w) /\ Knows(w)
  BY <1>5, Elsewhere, KnowsGoing
<1>6. ASSUME NEW w \in Workers, Record(w)
      PROVE  Only(w) /\ Knows(w)
  BY <1>6, RecordLeadsTo, KnowsGoing
<1>7. ASSUME NEW w \in Workers, DrawFirst(w) \/ SetSequence(w) \/ StoreBlock(w)
      PROVE  Only(w) /\ Knows(w)
  BY <1>7, LeaseHands, KnowsGoing
<1>8. ASSUME NEW w \in Workers, \E size \in Sizes : LeaseBlock(w, size)
      PROVE  Only(w) /\ Knows(w)
  BY <1>8, LeaseHands, KnowsJob
<1>9. ASSUME NEW w \in Workers,
             \/ AllocateIdentifier(w)
             \/ \E k \in Keys \cup {None} : CreateAsset(w, k)
             \/ NextAssetNumber(w) \/ InsertAsset(w) \/ Backfill(w) \/ BackfillNext(w)
             \/ \E t \in Tags, n \in Numbers : CommissionTag(w, t, n)
             \/ \E t \in Tags, n \in Numbers : VerifyTag(w, t, n)
      PROVE  Only(w) /\ Knows(w)
  BY <1>9, Elsewhere, KnowsJob
<1>10. ASSUME NEW w \in Workers, NEW k \in Keys \cup {None}, CreateReplayed(w, k)
       PROVE  UNCHANGED op
  BY <1>10 DEF CreateReplayed
<1>11. ASSUME \/ \E n \in Numbers : DeleteAsset(n)
              \/ \E b \in blocks, next \in 1 .. MaxValue + 1 : SettleBlock(b, next)
              \/ UNCHANGED vars
       PROVE  UNCHANGED op
  BY <1>11 DEF DeleteAsset, SettleBlock, vars
<1>12. QED
  BY <1>3, <1>4, <1>5, <1>6, <1>7, <1>8, <1>9, <1>10, <1>11 DEF Next

\* The reference of a row changes only where the trigger allows it.
LEMMA BoundStep ==
  ASSUME TypeOK, RowInv, [Next]_vars, NEW n \in Numbers,
         Bound(n), asset[n].iar # NoValue
  PROVE  asset'[n].iar = asset[n].iar
<1>1. ASSUME NEW w \in Workers, InsertAsset(w)
      PROVE  asset'[n] = asset[n]
  <2>1. CASE UNCHANGED asset
    BY <2>1
  <2>2. CASE Inserted(w)
    <3>1. op[w].job.asset # n
      BY <2>2 DEF Inserted, NumberTaken, Existing, RowInv
    <3>2. asset' = [asset EXCEPT ![op[w].job.asset] = NewRow(w)]
      BY <2>2 DEF Inserted
    <3>3. QED
      BY <3>1, <3>2 DEF TypeOK
  <2>3. QED
    BY <1>1, <2>1, <2>2 DEF InsertAsset, ReplacedByReplay, TriedAgain
<1>2. ASSUME NEW w \in Workers, AssignIar(w)
      PROVE  asset'[n] = asset[n]
  <2>1. CASE UNCHANGED asset
    BY <2>1
  <2>2. CASE /\ ~ (asset[op[w].job.asset].iar # NoValue /\ Bound(op[w].job.asset))
             /\ asset' = [asset EXCEPT ![op[w].job.asset].iar = op[w].value]
    <3>1. op[w].job.asset # n
      BY <2>2
    <3>2. QED
      BY <2>2, <3>1 DEF TypeOK
  <2>3. QED
    BY <1>2, <2>1, <2>2 DEF AssignIar, Assigned
<1>3. ASSUME NEW m \in Numbers, DeleteAsset(m)
      PROVE  asset'[n].iar = asset[n].iar
  BY <1>3 DEF DeleteAsset, TypeOK, Row
<1>4. QED
  BY <1>1, <1>2, <1>3, AssetSteps

-----------------------------------------------------------------------------
(* The answers to the creates with a key *)

\* An answer names the asset that has its key, and at most one has it.
KeyInv ==
  /\ \A x \in answers : asset[x.asset].key = x.key
  /\ \A m, n \in Numbers : asset[m].key = asset[n].key /\ asset[m].key # None => m = n
  /\ \A n \in Numbers : asset[n].state = None => asset[n].key = None
  /\ \A w \in Workers : op[w].at = "answer" =>
       /\ asset[op[w].job.asset].key = op[w].job.key
       /\ asset[op[w].job.asset].state # None

\* A step that changes no key.
LEMMA SameKeys ==
  ASSUME TypeOK, KeyInv,
         \A n \in Numbers : /\ asset'[n].key = asset[n].key
                            /\ asset'[n].state = None => asset[n].state = None,
         \A x \in answers' : x \in answers \/ asset[x.asset].key = x.key,
         answers' \in SUBSET [key : Keys, asset : Numbers],
         \A w \in Workers : op'[w].at = "answer" => op'[w] = op[w]
  PROVE  KeyInv'
<1>1. \A x \in answers' : x.asset \in Numbers /\ asset'[x.asset].key = x.key
  BY DEF KeyInv
<1>2. ASSUME NEW w \in Workers, op'[w].at = "answer"
      PROVE  /\ asset'[op'[w].job.asset].key = op'[w].job.key
             /\ asset'[op'[w].job.asset].state # None
  <2>1. op'[w] = op[w] /\ op[w].at = "answer"
    BY <1>2
  <2>2. op[w].job.asset \in Numbers
    BY <2>1, Working, WhereWhat, TypeParts DEF Create
  <2>3. QED
    BY <2>1, <2>2 DEF KeyInv
<1>3. QED
  BY <1>1, <1>2 DEF KeyInv

\* A replay is answered with the asset that has the key.
LEMMA ReplayedKey ==
  ASSUME NEW k, Replayed(k), NEW x \in answers'
  PROVE  x \in answers \/ asset[x.asset].key = x.key
BY DEF Replayed, WithKey

\* An insert that succeeds brings a key that no row had.
LEMMA InsertedKey ==
  ASSUME TypeOK, KeyInv, NEW w \in Workers, At(w, "insert"), Inserted(w), Only(w),
         op'[w].at = "answer", op'[w].job = op[w].job
  PROVE  KeyInv'
<1>1. op[w].job.asset \in Numbers /\ op[w].job.key \in Keys \cup {None}
  BY Working, WhereWhat, TypeParts DEF At, Create
<1> DEFINE n == op[w].job.asset
<1>2. /\ asset'[n].key = op[w].job.key /\ asset'[n].state = "live"
      /\ \A m \in Numbers : m # n => asset'[m] = asset[m]
  BY <1>1 DEF Inserted, NewRow, TypeOK
<1>3. asset[n].state = None /\ asset[n].key = None
  BY <1>1 DEF Inserted, NumberTaken, Existing, KeyInv
<1>4. op[w].job.key # None => \A m \in Numbers : asset[m].key # op[w].job.key
  BY DEF Inserted, KeyTaken, WithKey
<1>5. answers' = answers /\ \A x \in answers : x.key # None /\ x.asset \in Numbers
  BY NoneAssumption DEF Inserted, TypeOK
<1> HIDE DEF n
<1>6. \A x \in answers' : asset'[x.asset].key = x.key
  BY <1>2, <1>3, <1>5 DEF KeyInv
<1>7. \A m, q \in Numbers : asset'[m].key = asset'[q].key /\ asset'[m].key # None => m = q
  BY <1>2, <1>4 DEF KeyInv
<1>8. \A m \in Numbers : asset'[m].state = None => asset'[m].key = None
  BY <1>2 DEF KeyInv, None
<1>9. ASSUME NEW x \in Workers, op'[x].at = "answer"
      PROVE  /\ asset'[op'[x].job.asset].key = op'[x].job.key
             /\ asset'[op'[x].job.asset].state # None
  <2>1. CASE x = w
    BY <1>2, <2>1 DEF n, None
  <2>2. CASE x # w
    <3>1. op'[x] = op[x] /\ op[x].at = "answer"
      BY <1>9, <2>2 DEF Only
    <3>2. op[x].job \in Create(Numbers)
      BY <3>1, Working, WhereWhat, TypeParts
    <3>3. op[x].job.asset \in Numbers
      BY <3>2 DEF Create
    <3>4. op[x].job.asset # n
      BY <1>3, <3>1 DEF KeyInv
    <3>5. QED
      BY <1>2, <3>1, <3>3, <3>4 DEF KeyInv
  <2>3. QED
    BY <2>1, <2>2
<1>10. QED
  BY <1>6, <1>7, <1>8, <1>9 DEF KeyInv

\* Every insert keeps KeyInv, whichever index objects.
LEMMA InsertKey ==
  ASSUME TypeOK, KeyInv, NEW w \in Workers, InsertAsset(w)
  PROVE  KeyInv'
<1>1. At(w, "insert") /\ Only(w)
  BY Elsewhere DEF InsertAsset
<1>2. CASE Inserted(w)
  <2>1. op'[w].at = "answer" /\ op'[w].job = op[w].job
    BY <1>2, WorkOnly, TypeParts DEF Inserted, GoOn
  <2>2. QED
    BY <1>1, <1>2, <2>1, InsertedKey
<1>3. CASE ReplacedByReplay(w) \/ TriedAgain(w)
  <2>1. op'[w].at # "answer"
    <3>1. CASE Done(w)
      BY <3>1, DoneOnly, TypeParts DEF Idle
    <3>2. CASE TriedAgain(w)
      BY <3>1, <3>2, WorkOnly, TypeParts DEF TriedAgain
    <3>3. QED
      BY <1>3, <3>1, <3>2 DEF ReplacedByReplay
  <2>2. \A x \in Workers : op'[x].at = "answer" => op'[x] = op[x]
    BY <1>1, <2>1 DEF Only
  <2>3. op[w].job.key \in Keys \cup {None}
    BY <1>1, Working, WhereWhat, TypeParts DEF At, Create
  <2>4. /\ UNCHANGED asset
        /\ answers' \in SUBSET [key : Keys, asset : Numbers]
        /\ \A x \in answers' : x \in answers \/ asset[x.asset].key = x.key
    BY <1>3, <2>3, ReplayedType, ReplayedKey DEF ReplacedByReplay, TriedAgain, TypeOK
  <2>5. QED
    BY <2>2, <2>4, SameKeys
<1>4. QED
  BY <1>2, <1>3 DEF InsertAsset

\* No other step leads a worker to its answer.
LEMMA AnswerOnly ==
  ASSUME TypeOK, NEW w \in Workers, Only(w), op'[w].at # "answer"
  PROVE  \A x \in Workers : op'[x].at = "answer" => op'[x] = op[x]
BY DEF Only

\* No step but an insert leads to an answer.
LEMMA NotAnswering ==
  ASSUME TypeOK, NEW w \in Workers,
         \/ NextValue(w) \/ Record(w) \/ AllocateIdentifier(w)
         \/ \E k \in Keys \cup {None} : CreateAsset(w, k)
         \/ EnforceAssetCap(w) \/ LookAgain(w) \/ NextAssetNumber(w) \/ Answer(w)
         \/ Backfill(w) \/ BackfillNext(w) \/ AssignIar(w)
         \/ \E t \in Tags, n \in Numbers : CommissionTag(w, t, n)
         \/ EncodeTag(w) \/ Bind(w) \/ Fail(w)
         \/ \E t \in Tags, n \in Numbers : VerifyTag(w, t, n)
         \/ \E size \in Sizes : LeaseBlock(w, size)
         \/ DrawFirst(w) \/ SetSequence(w) \/ StoreBlock(w)
  PROVE  op'[w].at # "answer"
<1>1. CASE Done(w)
  BY <1>1, DoneOnly, TypeParts DEF Idle
<1>2. ASSUME NEW at, NEW job, NEW value, Work(w, at, job, value), at # "answer"
      PROVE  op'[w].at # "answer"
  BY <1>2, WorkOnly, TypeParts
<1>3. CASE NextValue(w) \/ AllocateIdentifier(w) \/ NextAssetNumber(w)
  BY <1>2, <1>3 DEF NextValue, AllocateIdentifier, NextAssetNumber, Begin, Take, GoOn
<1>4. CASE Record(w)
  BY <1>4, RecordLeadsTo DEF Idle
<1>5. CASE \/ \E k \in Keys \cup {None} : CreateAsset(w, k)
           \/ EnforceAssetCap(w) \/ LookAgain(w)
  BY SMTT(30), <1>1, <1>2, <1>5 DEF CreateAsset, EnforceAssetCap, LookAgain, Begin, Take, GoOn
<1>6. CASE Answer(w) \/ EncodeTag(w) \/ Bind(w) \/ Fail(w) \/ StoreBlock(w)
  BY <1>1, <1>6 DEF Answer, EncodeTag, Bind, Fail, StoreBlock
<1>7. CASE Backfill(w)
  <2> DEFINE job == [kind |-> "backfill", asset |-> NoAsset,
                     todo |-> {n \in Live : asset[n].iar = NoValue}]
  <2>1. Work(w, "backfill", job, NoValue)
    BY <1>7 DEF Backfill, Begin, Take
  <2> HIDE DEF job
  <2>2. QED
    BY <1>2, <2>1
<1>8. CASE BackfillNext(w)
  <2>1. ASSUME NEW n \in op[w].job.todo, NEW job, Work(w, "next", job, NoValue)
        PROVE  op'[w].at # "answer"
    BY <1>2, <2>1
  <2>2. \/ Done(w)
        \/ \E n \in op[w].job.todo :
             Work(w, "next", [kind |-> "backfill", todo |-> op[w].job.todo \ {n},
                              asset |-> n], NoValue)
    BY <1>8 DEF BackfillNext
  <2>3. QED
    BY <1>1, <2>1, <2>2, Zenon
<1>9. CASE AssignIar(w)
  BY <1>1, <1>2, <1>9 DEF AssignIar, Assigned, GoOn
<1>10. ASSUME NEW t \in Tags, NEW n \in Numbers, CommissionTag(w, t, n) \/ VerifyTag(w, t, n)
       PROVE  op'[w].at # "answer"
  <2>1. CASE VerifyTag(w, t, n)
    BY <1>2, <2>1 DEF VerifyTag, Begin, Take
  <2>2. CASE CommissionTag(w, t, n) /\ asset[n].iar = NoValue
    BY <1>2, <2>2 DEF CommissionTag, Take
  <2>3. CASE CommissionTag(w, t, n) /\ asset[n].iar # NoValue
    BY <1>2, <2>3 DEF CommissionTag, Take
  <2>4. QED
    BY <1>10, <2>1, <2>2, <2>3
<1>11. CASE (\E size \in Sizes : LeaseBlock(w, size)) \/ DrawFirst(w) \/ SetSequence(w)
  BY <1>2, <1>11 DEF LeaseBlock, DrawFirst, SetSequence, Begin, Take, GoOn
<1>12. QED
  BY <1>3, <1>4, <1>5, <1>6, <1>7, <1>8, <1>9, <1>10, <1>11

\* What the steps other than an insert do to keys and answers.
LEMMA KeysStay ==
  ASSUME TypeOK, [Next]_vars, ~ \E w \in Workers : InsertAsset(w)
  PROVE  \A n \in Numbers : /\ asset'[n].key = asset[n].key
                            /\ asset'[n].state = None => asset[n].state = None
<1>1. CASE UNCHANGED asset
  BY <1>1
<1>2. ASSUME NEW w \in Workers, AssignIar(w), ~ UNCHANGED asset
      PROVE  \A n \in Numbers : /\ asset'[n].key = asset[n].key
                                /\ asset'[n].state = asset[n].state
  BY <1>2 DEF AssignIar, Assigned, TypeOK, Row
<1>3. ASSUME NEW m \in Numbers, DeleteAsset(m)
      PROVE  \A n \in Numbers : /\ asset'[n].key = asset[n].key
                                /\ asset'[n].state = None => asset[n].state = None
  BY <1>3 DEF DeleteAsset, TypeOK, Row, None
<1>4. QED
  BY <1>1, <1>2, <1>3, AssetSteps

\* The steps that answer name the row that has the key.
LEMMA AnswersRight ==
  ASSUME TypeOK, KeyInv, [Next]_vars, ~ \E w \in Workers : InsertAsset(w),
         NEW x \in answers'
  PROVE  x \in answers \/ asset[x.asset].key = x.key
<1>1. ASSUME NEW w \in Workers, LookAgain(w) \/ \E k \in Keys \cup {None} : CreateReplayed(w, k)
      PROVE  x \in answers \/ asset[x.asset].key = x.key
  BY <1>1, ReplayedKey DEF LookAgain, CreateReplayed
<1>2. ASSUME NEW w \in Workers, Answer(w)
      PROVE  x \in answers \/ asset[x.asset].key = x.key
  BY SMTT(30), <1>2 DEF Answer, At, KeyInv
<1>3. ASSUME NEW w \in Workers,
             \/ NextValue(w) \/ Record(w) \/ AllocateIdentifier(w)
             \/ \E k \in Keys \cup {None} : CreateAsset(w, k)
             \/ EnforceAssetCap(w) \/ NextAssetNumber(w)
             \/ Backfill(w) \/ BackfillNext(w) \/ AssignIar(w)
             \/ \E t \in Tags, n \in Numbers : CommissionTag(w, t, n) \/ VerifyTag(w, t, n)
             \/ EncodeTag(w) \/ Bind(w) \/ Fail(w)
             \/ \E size \in Sizes : LeaseBlock(w, size)
             \/ DrawFirst(w) \/ SetSequence(w) \/ StoreBlock(w)
      PROVE  UNCHANGED answers
  BY <1>3 DEF NextValue, Record, AllocateIdentifier, CreateAsset, EnforceAssetCap,
     NextAssetNumber, Backfill, BackfillNext, AssignIar, CommissionTag, VerifyTag,
     EncodeTag, Bind, Fail, LeaseBlock, DrawFirst, SetSequence, StoreBlock
<1>4. ASSUME \/ \E n \in Numbers : DeleteAsset(n)
             \/ \E b \in blocks, next \in 1 .. MaxValue + 1 : SettleBlock(b, next)
             \/ UNCHANGED vars
      PROVE  UNCHANGED answers
  BY <1>4 DEF DeleteAsset, SettleBlock, vars
<1>5. QED
  BY <1>1, <1>2, <1>3, <1>4 DEF Next

\* Every step keeps KeyInv.
LEMMA KeyStep ==
  ASSUME TypeOK, LeaseInv, KeyInv, [Next]_vars
  PROVE  KeyInv'
<1>1. CASE \E w \in Workers : InsertAsset(w)
  BY <1>1, InsertKey
<1>2. CASE ~ \E w \in Workers : InsertAsset(w)
  <2>1. answers' \in SUBSET [key : Keys, asset : Numbers]
    BY TypeStep DEF TypeOK
  <2>2. ASSUME NEW w \in Workers,
               \/ NextValue(w) \/ AllocateIdentifier(w)
               \/ \E k \in Keys \cup {None} : CreateAsset(w, k)
               \/ EnforceAssetCap(w) \/ LookAgain(w) \/ NextAssetNumber(w) \/ Answer(w)
               \/ Backfill(w) \/ BackfillNext(w) \/ AssignIar(w)
               \/ \E t \in Tags, n \in Numbers : CommissionTag(w, t, n)
               \/ EncodeTag(w) \/ Bind(w) \/ Fail(w)
               \/ \E t \in Tags, n \in Numbers : VerifyTag(w, t, n)
        PROVE  \A x \in Workers : op'[x].at = "answer" => op'[x] = op[x]
    BY <2>2, Elsewhere, NotAnswering, AnswerOnly
  <2>3. ASSUME NEW w \in Workers,
               \/ Record(w)
               \/ \E size \in Sizes : LeaseBlock(w, size)
               \/ DrawFirst(w) \/ SetSequence(w) \/ StoreBlock(w)
        PROVE  \A x \in Workers : op'[x].at = "answer" => op'[x] = op[x]
    BY <2>3, RecordLeadsTo, LeaseHands, NotAnswering, AnswerOnly
  <2>4. ASSUME \/ \E w \in Workers, k \in Keys \cup {None} : CreateReplayed(w, k)
               \/ \E n \in Numbers : DeleteAsset(n)
               \/ \E b \in blocks, next \in 1 .. MaxValue + 1 : SettleBlock(b, next)
               \/ UNCHANGED vars
        PROVE  UNCHANGED op
    BY <2>4 DEF CreateReplayed, DeleteAsset, SettleBlock, vars
  <2>5. \A x \in Workers : op'[x].at = "answer" => op'[x] = op[x]
    BY <1>2, <2>2, <2>3, <2>4 DEF Next
  <2>6. QED
    BY <1>2, <2>1, <2>5, KeysStay, AnswersRight, SameKeys
<1>3. QED
  BY <1>1, <1>2

-----------------------------------------------------------------------------
(* The cap *)

\* There are finitely many live assets and creates past the check.
LEMMA BothFinite == IsFiniteSet(Live) /\ IsFiniteSet(PastCap)
<1>1. IsFiniteSet(Numbers)
  BY FS_Interval, CountAssumption DEF Numbers
<1>2. Live \subseteq Numbers /\ PastCap \subseteq Workers
  BY DEF Live, PastCap
<1>3. QED
  BY <1>1, <1>2, FS_Subset, WorkersAssumption

\* Fewer live assets and fewer creates past the check keep the bound.
LEMMA FewerKeepBound ==
  ASSUME TypeOK, CapOverrunIsBounded, Live' \subseteq Live, PastCap' \subseteq PastCap
  PROVE  CapOverrunIsBounded'
<1>1. IsFiniteSet(Live) /\ IsFiniteSet(PastCap)
  BY BothFinite
<1>2. Cardinality(Live') <= Cardinality(Live) /\ Cardinality(PastCap') <= Cardinality(PastCap)
  BY <1>1, FS_Subset
<1>3. /\ Cardinality(Live) \in Nat /\ Cardinality(PastCap) \in Nat /\ Cardinality(Workers) \in Nat
      /\ Cardinality(Live') \in Nat /\ Cardinality(PastCap') \in Nat
  BY <1>1, FS_Subset, FS_CardinalityType, WorkersAssumption
<1>4. Cardinality(Live)' = Cardinality(Live') /\ Cardinality(PastCap)' = Cardinality(PastCap')
  OBVIOUS
<1>5. QED
  BY <1>2, <1>3, <1>4, CountAssumption DEF CapOverrunIsBounded

\* A create that passes the check found a free place, and only the other
\* requests can be past it already.
LEMMA CheckedKeepsBound ==
  ASSUME CapAllows, UNCHANGED asset
  PROVE  CapOverrunIsBounded'
<1>1. Live' = Live
  BY DEF Live
<1>2. IsFiniteSet(Live)
  BY BothFinite
<1>3. PastCap' \subseteq Workers
  BY DEF PastCap
<1>4. IsFiniteSet(PastCap') /\ Cardinality(PastCap') <= Cardinality(Workers)
  BY <1>3, FS_Subset, WorkersAssumption
<1>5. Cardinality(Live) \in Nat /\ Cardinality(PastCap') \in Nat /\ Cardinality(Workers) \in Nat
  BY <1>2, <1>4, FS_CardinalityType, WorkersAssumption
<1>6. Cardinality(Live)' = Cardinality(Live)
  BY <1>1
<1>7. QED
  BY <1>4, <1>5, <1>6, CountAssumption DEF CapAllows, CapOverrunIsBounded

\* A create that inserts its asset is past the check no more.
LEMMA InsertedKeepsBound ==
  ASSUME TypeOK, CapOverrunIsBounded, NEW w \in Workers, At(w, "insert"),
         Inserted(w), Only(w), op'[w].at = "answer"
  PROVE  CapOverrunIsBounded'
<1> DEFINE n == op[w].job.asset
<1>1. op[w] \in Op /\ op[w].job \in Create(Numbers)
  BY Working, WhereWhat, TypeParts DEF At
<1>2. w \in PastCap
  BY <1>1 DEF PastCap, At, Create, Idle
<1>3. PastCap' \subseteq PastCap \ {w}
  BY DEF PastCap, Only
<1>4. Live' \subseteq Live \cup {n}
  BY <1>1 DEF Live, Inserted, TypeOK, Create
<1>5. IsFiniteSet(Live) /\ IsFiniteSet(PastCap)
  BY BothFinite
<1>6. /\ IsFiniteSet(PastCap \ {w})
      /\ Cardinality(PastCap \ {w}) = Cardinality(PastCap) - 1
  BY <1>2, <1>5, FS_RemoveElement
<1>7. /\ IsFiniteSet(Live \cup {n})
      /\ Cardinality(Live \cup {n}) <= Cardinality(Live) + 1
  <2>1. IsFiniteSet(Live \cup {n})
    BY <1>5, FS_AddElement
  <2>2. \/ Cardinality(Live \cup {n}) = Cardinality(Live)
        \/ Cardinality(Live \cup {n}) = Cardinality(Live) + 1
    BY <1>5, FS_AddElement
  <2>3. Cardinality(Live) \in Nat
    BY <1>5, FS_CardinalityType
  <2> HIDE DEF n
  <2>4. QED
    BY <2>1, <2>2, <2>3
<1> HIDE DEF n
<1>8. /\ IsFiniteSet(Live') /\ Cardinality(Live') <= Cardinality(Live \cup {n})
      /\ IsFiniteSet(PastCap') /\ Cardinality(PastCap') <= Cardinality(PastCap \ {w})
  BY <1>3, <1>4, <1>6, <1>7, FS_Subset
<1>9. /\ Cardinality(Live) \in Nat /\ Cardinality(PastCap) \in Nat /\ Cardinality(Workers) \in Nat
      /\ Cardinality(Live') \in Nat /\ Cardinality(PastCap') \in Nat
      /\ Cardinality(Live \cup {n}) \in Nat
  BY <1>5, <1>7, <1>8, FS_CardinalityType, WorkersAssumption
<1>10. Cardinality(Live)' = Cardinality(Live') /\ Cardinality(PastCap)' = Cardinality(PastCap')
  OBVIOUS
<1>11. QED
  BY <1>6, <1>7, <1>8, <1>9, <1>10, CountAssumption DEF CapOverrunIsBounded

\* Past the check comes only who was past it before.
LEMMA PastOnly ==
  ASSUME NEW w \in Workers, Only(w), w \in PastCap' => w \in PastCap
  PROVE  PastCap' \subseteq PastCap
BY DEF PastCap, Only

\* A request that is done is past nothing; nor is one at another place.
LEMMA DoneNotPast ==
  ASSUME OpType, NEW w \in Workers, Done(w)
  PROVE  w \notin PastCap'
BY DoneOnly DEF PastCap

LEMMA WorkNotPast ==
  ASSUME OpType, NEW w \in Workers, NEW at, NEW job, NEW value, Work(w, at, job, value),
         at \notin {"look", "number", "next", "record", "insert"} \/ job.kind # "create"
  PROVE  w \notin PastCap'
BY WorkOnly DEF PastCap

\* A request that is past the check, by its place and its kind.
LEMMA AtIsPast ==
  ASSUME OpType, NEW w \in Workers,
         op[w].at \in {"look", "number", "next", "record", "insert"},
         op[w].job.kind = "create"
  PROVE  w \in PastCap
BY DEF PastCap, Idle

\* Creates and allocations go on past the check only from past the check.
LEMMA CreatesStayPast ==
  ASSUME TypeOK, NEW w \in Workers,
         \/ NextValue(w) \/ Record(w) \/ LookAgain(w) \/ NextAssetNumber(w)
         \/ InsertAsset(w) \/ (EnforceAssetCap(w) /\ ~ CapAllows)
         \/ \E k \in Keys \cup {None} : CreateAsset(w, k)
  PROVE  w \in PastCap' => w \in PastCap
<1>0. OpType
  BY TypeParts
<1>1. CASE Done(w)
  BY <1>0, <1>1, DoneNotPast
<1>2. ASSUME NEW at, NEW value, GoOn(w, at, value),
             op[w].at \in {"look", "number", "next", "record", "insert"}
      PROVE  w \in PastCap' => w \in PastCap
  <2>1. CASE op[w].job.kind = "create"
    BY <1>0, <1>2, <2>1, AtIsPast
  <2>2. CASE op[w].job.kind # "create"
    BY <1>0, <1>2, <2>2, WorkNotPast DEF GoOn
  <2>3. QED
    BY <2>1, <2>2
<1>3. CASE NextValue(w)
  BY <1>2, <1>3 DEF NextValue, At
<1>4. CASE Record(w)
  BY <1>1, <1>2, <1>4 DEF Record, Handed, At
<1>5. CASE LookAgain(w)
  BY <1>1, <1>2, <1>5 DEF LookAgain, At
<1>6. CASE NextAssetNumber(w) \/ InsertAsset(w)
  <2>1. op[w].at \in {"number", "insert"}
    BY <1>6 DEF NextAssetNumber, InsertAsset, At
  <2>2. op[w].job.kind = "create"
    BY <1>0, <2>1, Working, WhereWhat DEF Create
  <2>3. QED
    BY <1>0, <2>1, <2>2, AtIsPast
<1>7. CASE EnforceAssetCap(w) /\ ~ CapAllows
  BY <1>1, <1>7 DEF EnforceAssetCap
<1>8. ASSUME NEW k \in Keys \cup {None}, CreateAsset(w, k)
      PROVE  w \notin PastCap'
  BY <1>0, <1>8, WorkNotPast DEF CreateAsset, Begin, Take
<1>9. QED
  BY <1>3, <1>4, <1>5, <1>6, <1>7, <1>8

\* No other request gets past the check.
LEMMA OthersNotPast ==
  ASSUME TypeOK, NEW w \in Workers,
         \/ AllocateIdentifier(w) \/ Answer(w) \/ Backfill(w) \/ BackfillNext(w) \/ AssignIar(w)
         \/ \E t \in Tags, n \in Numbers : CommissionTag(w, t, n)
         \/ EncodeTag(w) \/ Bind(w) \/ Fail(w)
         \/ \E t \in Tags, n \in Numbers : VerifyTag(w, t, n)
         \/ \E size \in Sizes : LeaseBlock(w, size)
         \/ DrawFirst(w) \/ SetSequence(w) \/ StoreBlock(w)
  PROVE  w \notin PastCap'
<1>0. OpType
  BY TypeParts
<1>1. CASE Done(w)
  BY <1>0, <1>1, DoneNotPast
<1>2. ASSUME NEW at, NEW job, NEW value, Work(w, at, job, value),
             \/ at \notin {"look", "number", "next", "record", "insert"}
             \/ job.kind # "create"
      PROVE  w \notin PastCap'
  BY SMTT(30), <1>0, <1>2, WorkNotPast
<1>3. CASE Answer(w) \/ EncodeTag(w) \/ Bind(w) \/ Fail(w) \/ StoreBlock(w)
  BY <1>1, <1>3 DEF Answer, EncodeTag, Bind, Fail, StoreBlock
<1>4. CASE AllocateIdentifier(w)
  <2>1. Work(w, "next", [kind |-> "issue"], NoValue)
    BY <1>4 DEF AllocateIdentifier, Begin, Take
  <2>2. QED
    BY <1>2, <2>1
<1>5. CASE Backfill(w)
  <2> DEFINE job == [kind |-> "backfill", asset |-> NoAsset,
                     todo |-> {n \in Live : asset[n].iar = NoValue}]
  <2>1. Work(w, "backfill", job, NoValue)
    BY <1>5 DEF Backfill, Begin, Take
  <2> HIDE DEF job
  <2>2. QED
    BY <1>2, <2>1
<1>6. CASE BackfillNext(w)
  <2>1. ASSUME NEW n \in op[w].job.todo,
               Work(w, "next", [kind |-> "backfill", todo |-> op[w].job.todo \ {n},
                                asset |-> n], NoValue)
        PROVE  w \notin PastCap'
    <3>1. [kind |-> "backfill", todo |-> op[w].job.todo \ {n}, asset |-> n].kind # "create"
      OBVIOUS
    <3>2. QED
      BY <1>2, <2>1, <3>1
  <2>2. \/ Done(w)
        \/ \E n \in op[w].job.todo :
             Work(w, "next", [kind |-> "backfill", todo |-> op[w].job.todo \ {n},
                              asset |-> n], NoValue)
    BY <1>6 DEF BackfillNext
  <2>3. QED
    BY <1>1, <2>1, <2>2, Zenon
<1>7. CASE AssignIar(w)
  BY <1>1, <1>2, <1>7 DEF AssignIar, Assigned, GoOn
<1>8. ASSUME NEW t \in Tags, NEW n \in Numbers, CommissionTag(w, t, n) \/ VerifyTag(w, t, n)
      PROVE  w \notin PastCap'
  <2> DEFINE job(kind) == [kind |-> kind, tag |-> t, asset |-> n]
  <2>1. job("commission").kind # "create"
    OBVIOUS
  <2>2. CASE VerifyTag(w, t, n)
    BY <1>2, <2>2 DEF VerifyTag, Begin, Take
  <2>3. CASE CommissionTag(w, t, n)
    <3>1. \E at, value : Work(w, at, job("commission"), value)
      BY <2>3 DEF CommissionTag, Take
    <3> HIDE DEF job
    <3>2. QED
      BY <1>2, <2>1, <3>1
  <2>4. QED
    BY <1>8, <2>2, <2>3
<1>9. CASE (\E size \in Sizes : LeaseBlock(w, size)) \/ DrawFirst(w) \/ SetSequence(w)
  BY <1>2, <1>9 DEF LeaseBlock, DrawFirst, SetSequence, Begin, Take, GoOn
<1>10. QED
  BY <1>3, <1>4, <1>5, <1>6, <1>7, <1>8, <1>9

\* No step but an insert makes an asset live.
LEMMA LiveStays ==
  ASSUME TypeOK, [Next]_vars, ~ \E w \in Workers : At(w, "insert") /\ Inserted(w)
  PROVE  Live' \subseteq Live
<1>1. CASE UNCHANGED asset
  BY <1>1 DEF Live
<1>2. ASSUME NEW w \in Workers, AssignIar(w), ~ UNCHANGED asset
      PROVE  Live' \subseteq Live
  BY <1>2 DEF AssignIar, Assigned, TypeOK, Row, Live
<1>3. ASSUME NEW n \in Numbers, DeleteAsset(n)
      PROVE  Live' \subseteq Live
  BY <1>3 DEF DeleteAsset, TypeOK, Row, Live
<1>4. ASSUME NEW w \in Workers, InsertAsset(w)
      PROVE  UNCHANGED asset
  BY <1>4 DEF InsertAsset, ReplacedByReplay, TriedAgain
<1>5. QED
  BY <1>1, <1>2, <1>3, <1>4, AssetSteps

\* Every step keeps the bound.
LEMMA CapStep ==
  ASSUME TypeOK, CapOverrunIsBounded, [Next]_vars
  PROVE  CapOverrunIsBounded'
<1>0. OpType
  BY TypeParts
<1>1. ASSUME NEW w \in Workers, At(w, "insert"), Inserted(w)
      PROVE  CapOverrunIsBounded'
  <2>1. op'[w].at = "answer" /\ Only(w)
    BY <1>0, <1>1, WorkOnly DEF Inserted, GoOn
  <2>2. QED
    BY <1>1, <2>1, InsertedKeepsBound
<1>2. ASSUME NEW w \in Workers, EnforceAssetCap(w), CapAllows
      PROVE  CapOverrunIsBounded'
  BY <1>2, CheckedKeepsBound DEF EnforceAssetCap
<1>3. ASSUME ~ \E w \in Workers : At(w, "insert") /\ Inserted(w), PastCap' \subseteq PastCap
      PROVE  CapOverrunIsBounded'
  BY <1>3, LiveStays, FewerKeepBound
<1>4. ASSUME NEW w \in Workers, Only(w), w \in PastCap' => w \in PastCap,
             ~ \E x \in Workers : At(x, "insert") /\ Inserted(x)
      PROVE  CapOverrunIsBounded'
  BY <1>3, <1>4, PastOnly
<1>5. ASSUME NEW w \in Workers,
             \/ NextValue(w) \/ Record(w) \/ LookAgain(w) \/ NextAssetNumber(w)
             \/ InsertAsset(w) \/ (EnforceAssetCap(w) /\ ~ CapAllows)
             \/ \E k \in Keys \cup {None} : CreateAsset(w, k)
      PROVE  Only(w) /\ (w \in PastCap' => w \in PastCap)
  BY <1>5, Elsewhere, RecordLeadsTo, CreatesStayPast
<1>6. ASSUME NEW w \in Workers,
             \/ AllocateIdentifier(w) \/ Answer(w) \/ Backfill(w) \/ BackfillNext(w)
             \/ AssignIar(w)
             \/ \E t \in Tags, n \in Numbers : CommissionTag(w, t, n)
             \/ EncodeTag(w) \/ Bind(w) \/ Fail(w)
             \/ \E t \in Tags, n \in Numbers : VerifyTag(w, t, n)
             \/ \E size \in Sizes : LeaseBlock(w, size)
             \/ DrawFirst(w) \/ SetSequence(w) \/ StoreBlock(w)
      PROVE  Only(w) /\ (w \in PastCap' => w \in PastCap)
  BY <1>6, Elsewhere, LeaseHands, OthersNotPast
<1>7. ASSUME \/ \E w \in Workers, k \in Keys \cup {None} : CreateReplayed(w, k)
             \/ \E n \in Numbers : DeleteAsset(n)
             \/ \E b \in blocks, next \in 1 .. MaxValue + 1 : SettleBlock(b, next)
             \/ UNCHANGED vars
      PROVE  UNCHANGED op
  BY <1>7 DEF CreateReplayed, DeleteAsset, SettleBlock, vars
<1>8. UNCHANGED op => PastCap' \subseteq PastCap
  BY DEF PastCap
<1>9. CASE \E w \in Workers : At(w, "insert") /\ Inserted(w)
  <2>1. PICK w \in Workers : At(w, "insert") /\ Inserted(w)
    BY <1>9
  <2>2. QED
    BY <2>1, <1>1
<1>10. QED
  BY <1>1, <1>2, <1>3, <1>4, <1>5, <1>6, <1>7, <1>8 DEF Next

-----------------------------------------------------------------------------
(* The theorems *)

\* The inductive invariant: types, what a lease knows from its lock, who
\* holds a consumed value, the rows there are, which asset has a key, and the
\* bound of the cap.
IInv == /\ TypeOK
        /\ LeaseInv /\ LeasedIsBehind /\ BlocksAreWhole
        /\ HeldInv /\ UntakenInv /\ RowInv /\ KeyInv
        /\ CapOverrunIsBounded

\* The inductive invariant holds at first.
LEMMA InitIInv == Init => IInv
<1> SUFFICES ASSUME Init PROVE IInv
  OBVIOUS
<1>1. \A n \in Numbers : asset[n] \in Row /\ asset[n].iar = NoValue /\ asset[n].key = None
  BY DEF Init, NoRow, Row
<1>2. asset \in [Numbers -> Row]
  BY <1>1 DEF Init
<1>3. Unallocated \in Allocation
  BY DEF Unallocated, Allocation
<1>4. TypeOK
  BY <1>2, <1>3, CountAssumption DEF Init, TypeOK
<1>5. LeaseInv
  BY DEF Init, LeaseInv, Leasers, Idle
<1>6. LeasedIsBehind /\ BlocksAreWhole
  BY DEF Init, LeasedIsBehind, BlocksAreWhole
<1>7. HeldInv
  <2>1. \A v \in Values : v # NoValue
    BY DEF Values, NoValue
  <2>2. \A v \in Values : RowsWith(v) = {} /\ HandsOn(v) = {}
    BY <1>1, <2>1 DEF Init, RowsWith, HandsOn
  <2>3. QED
    BY <2>2 DEF HeldInv, Alone, Free
<1>8. UntakenInv
  BY DEF Init, UntakenInv, Unallocated
<1>9. RowInv
  BY <1>1 DEF Init, RowInv
<1>10. KeyInv
  BY <1>1 DEF Init, KeyInv, Idle
<1>11. CapOverrunIsBounded
  <2>1. PastCap = {} /\ Live = 1 .. Legacy
    BY CountAssumption, LegacyAssumption DEF Init, PastCap, Live, NoRow, Numbers, None
  <2>2. Cardinality(PastCap) = 0 /\ Cardinality(Live) = Legacy
    BY <2>1, FS_EmptySet, FS_Interval, CountAssumption
  <2>3. Cardinality(Workers) \in Nat \ {0}
    BY WorkersAssumption, FS_CardinalityType, FS_EmptySet
  <2>4. QED
    BY <2>2, <2>3, CountAssumption, LegacyAssumption DEF CapOverrunIsBounded
<1>12. QED
  BY <1>4, <1>5, <1>6, <1>7, <1>8, <1>9, <1>10, <1>11 DEF IInv

\* Every step keeps it.
LEMMA StepIInv == IInv /\ [Next]_vars => IInv'
<1> SUFFICES ASSUME IInv, [Next]_vars PROVE IInv'
  OBVIOUS
<1>1. /\ TypeOK /\ LeaseInv /\ LeasedIsBehind /\ BlocksAreWhole
      /\ HeldInv /\ UntakenInv /\ RowInv /\ KeyInv /\ CapOverrunIsBounded
  BY DEF IInv
<1>2. TypeOK'
  BY <1>1, TypeStep
<1>3. LeaseInv' /\ LeasedIsBehind'
  BY <1>1, LeaseStep
<1>4. BlocksAreWhole'
  BY <1>1, WholeStep
<1>5. HeldInv' /\ UntakenInv'
  BY <1>1, HeldStep, UntakenStep
<1>6. RowInv' /\ KeyInv'
  BY <1>1, RowStep, KeyStep
<1>7. CapOverrunIsBounded'
  BY <1>1, CapStep
<1>8. QED
  BY <1>2, <1>3, <1>4, <1>5, <1>6, <1>7 DEF IInv

\* The inductive invariant holds in every state that can be reached.
THEOREM Invariant == Spec => []IInv
BY InitIInv, StepIInv, PTL DEF Spec

\* Every variable keeps its type, for any number of workers, keys, tags and
\* values: among other things, the sequence set by a lease and the blocks it
\* stores stay within the range.
THEOREM TypeCorrect == Spec => []TypeOK
<1>1. IInv => TypeOK
  BY DEF IInv
<1>2. QED
  BY <1>1, Invariant, PTL

\* The sequence is never taken back into a leased block, although a lease
\* sets it and allocations draw from it at any time.
THEOREM LeasedBehindSequence == Spec => []LeasedIsBehind
<1>1. IInv => LeasedIsBehind
  BY DEF IInv
<1>2. QED
  BY <1>1, Invariant, PTL

\* Every value of a leased block is reserved for that block, however many
\* leases and allocations overlap.
THEOREM LeasedBlocksWhole == Spec => []BlocksAreWhole
<1>1. IInv => BlocksAreWhole
  BY DEF IInv
<1>2. QED
  BY <1>1, Invariant, PTL

\* No reference is on two assets, in two hands, or in a leased block: what
\* the sequence gives twice is refused the second time.
THEOREM IarOnce == Spec => []IarHeldOnce
<1>1. IInv => IarHeldOnce
  BY AloneMeansOnce DEF IInv, HeldInv, Free, Spent, IarHeldOnce
<1>2. QED
  BY <1>1, Invariant, PTL

\* The reference of an asset with a carrier bound to it does not change,
\* whatever the requests in progress read before.
THEOREM BoundStays == Spec => BoundIarStays
<1>1. IInv /\ [Next]_vars =>
        [\A n \in Numbers :
           Bound(n) /\ asset[n].iar # NoValue => asset'[n].iar = asset[n].iar]_vars
  BY BoundStep DEF IInv
<1>2. QED
  BY <1>1, Invariant, PTL DEF Spec, BoundIarStays

\* A value that is consumed or released stays so: no later settlement, lease
\* or allocation changes it.
THEOREM SettledStays == Spec => SettledIsFinal
<1>1. IInv /\ [Next]_vars =>
        [\A v \in Values :
           allocation[v].status \in {"CONSUMED", "RELEASED"} =>
             allocation'[v].status = allocation[v].status]_vars
  BY DecidedStays DEF IInv
<1>2. QED
  BY <1>1, Invariant, PTL DEF Spec, SettledIsFinal

\* A leased block is whole and out of the sequence's way, for ever.
THEOREM LeasesSound == Spec => []LeasesAreSound
<1>1. BlocksAreWhole /\ LeasedIsBehind => LeasesAreSound
  BY DEF LeasesAreSound
<1>2. QED
  BY <1>1, LeasedBlocksWhole, LeasedBehindSequence, PTL

\* Neither the reference of a tagged asset nor the end of a value changes.
THEOREM IssuedIsFinal == Spec => IssuedStays
BY BoundStays, SettledStays DEF IssuedStays

\* However creates, replays and deletions overlap, the live assets and the
\* creates past the check of the cap exceed it by less than one for each
\* request that can be in progress (asset-cap.service.ts).
THEOREM CapBounded == Spec => []CapOverrunIsBounded
<1>1. IInv => CapOverrunIsBounded
  BY DEF IInv
<1>2. QED
  BY <1>1, Invariant, PTL

\* All answers to the creates with one key name the same asset, however the
\* original and its replays overlap.
THEOREM KeyAnswersAgree == Spec => []AnswersAgree
<1>1. ASSUME IInv
      PROVE  AnswersAgree
  <2>1. \A x \in answers : x.key # None /\ x.asset \in Numbers /\ asset[x.asset].key = x.key
    BY <1>1, NoneAssumption DEF IInv, TypeOK, KeyInv
  <2>2. QED
    BY <1>1, <2>1 DEF IInv, KeyInv, AnswersAgree
<1>2. QED
  BY <1>1, Invariant, PTL

=============================================================================
