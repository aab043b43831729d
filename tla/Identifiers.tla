---------------------------- MODULE Identifiers ----------------------------
(***************************************************************************)
(* Asset creation and the Individual Asset References (IAR) of one tenant  *)
(* (asset.service.ts, gs1-identifier.service.ts, gs1-tag.service.ts and    *)
(* the SQL functions of the migration gs1_asset_identification).           *)
(*                                                                         *)
(* References come from a sequence.  A sequence is not transactional: what *)
(* nextval and setval do is seen at once and never undone, while the rows  *)
(* are inserted later and rolled back when a key is taken.  Only a lease   *)
(* takes the tenant's advisory lock; an allocation goes past it.           *)
(*                                                                         *)
(* A handler does one query per step.  A reference is its sequence value:  *)
(* build_iar_server puts a '1' before and a check digit after its ten      *)
(* digits, so different values below 10^10 give different references.  An  *)
(* asset is its number, which is unique for the tenant.                    *)
(***************************************************************************)
EXTENDS Naturals, FiniteSets

CONSTANTS
  Workers,      \* the requests that can be in progress at once
  Keys,         \* clientRequestIds
  Tags,
  Legacy,       \* how many assets are older than the references
  Cap,          \* maxAssets of the tier
  Attempts,     \* how often a create tries to get a number
  Sizes,        \* sizes of leased blocks
  MaxValue,     \* bounds the sequence
  MaxNumber,    \* bounds the assets
  MaxRequests   \* bounds the requests that come in

ASSUME CountAssumption ==
  /\ Legacy \in Nat /\ Cap \in Nat /\ Attempts \in Nat \ {0}
  /\ MaxValue \in Nat /\ MaxNumber \in Nat /\ MaxRequests \in Nat
ASSUME SizeAssumption   == Sizes \subseteq Nat \ {0}
ASSUME LegacyAssumption == Legacy <= MaxNumber /\ Legacy <= Cap
ASSUME WorkersAssumption == IsFiniteSet(Workers) /\ Workers # {}

VARIABLES
  sequence,     \* the value last drawn
  locked,       \* who holds the advisory lock
  allocation,   \* identifier_allocations, by value
  blocks,       \* identifier_blocks
  asset,        \* the asset rows, by number
  tag,          \* the tags: their EPC and what they are bound to
  op,           \* what each worker is doing and what it has read
  begun,        \* how many requests have come in
  answers       \* history: what the creates with a key were answered

vars == <<sequence, locked, allocation, blocks, asset, tag, op, begun, answers>>

None    == "none"
Values  == 1 .. MaxValue
Numbers == 1 .. MaxNumber
NoAsset == 0
NoValue == 0

ASSUME NoneAssumption == None \notin Workers /\ None \notin Keys

\* block: the first value of the block it belongs to.  consumedByAssetId is
\* left out: the code never acts on it.  So is a block's nextUnconsumed.
Allocation == [status : {None, "CONSUMED", "RESERVED", "RELEASED"},
               block : {NoValue} \cup Values]
Block      == [first : Values, last : Values]
Row        == [state : {None, "live", "deleted"}, iar : {NoValue} \cup Values,
               key : Keys \cup {None}]

Unallocated == [status |-> None, block |-> NoValue]
NoRow       == [state |-> None, iar |-> NoValue, key |-> None]

\* What each kind of request knows.  asset: the one it is about to number,
\* gives a reference to, or tags.
Create(as)      == [kind : {"create"}, key : Keys \cup {None}, tries : 1 .. Attempts,
                    asset : as]
Backfilling(as) == [kind : {"backfill"}, todo : SUBSET Numbers, asset : as]
Tagging(kind)   == [kind : {kind}, tag : Tags, asset : Numbers]
Leasing         == [kind : {"lease"}, size : Sizes]
Issuing         == [kind : {"issue"}]
Assigning       == Backfilling(Numbers) \cup Tagging("commission")
Allocating      == Create(Numbers) \cup Assigning \cup Issuing

Idle == [at |-> "idle"]
\* value: the reference in hand, or the first one of the block
Op ==
  [at : {"cap", "look", "number"}, job : Create({NoAsset}), value : {NoValue}]
    \cup [at : {"next"},   job : Allocating, value : {NoValue}]
    \cup [at : {"record"}, job : Allocating, value : Values]
    \cup [at : {"insert"}, job : Create(Numbers), value : Values]
    \cup [at : {"answer"}, job : Create(Numbers), value : {NoValue}]
    \cup [at : {"backfill"}, job : Backfilling({NoAsset} \cup Numbers), value : {NoValue}]
    \cup [at : {"assign"}, job : Assigning, value : Values]
    \cup [at : {"encode"}, job : Tagging("commission"), value : Values]
    \cup [at : {"bind"},   job : Tagging("verify"), value : {NoValue}]
    \cup [at : {"draw"},   job : Leasing, value : {NoValue}]
    \cup [at : {"reserve", "store"}, job : Leasing, value : Values]

TypeOK ==
  /\ sequence \in {NoValue} \cup Values
  /\ locked \in Workers \cup {None}
  /\ allocation \in [Values -> Allocation]
  /\ blocks \in SUBSET Block
  /\ asset \in [Numbers -> Row]
  /\ tag \in [Tags -> [epc : {NoValue} \cup Values, asset : {NoAsset} \cup Numbers]]
  /\ op \in [Workers -> {Idle} \cup Op]
  /\ begun \in 0 .. MaxRequests
  /\ answers \in SUBSET [key : Keys, asset : Numbers]

Init ==
  /\ sequence = NoValue
  /\ locked = None
  /\ allocation = [v \in Values |-> Unallocated]
  /\ blocks = {}
  /\ asset = [n \in Numbers |-> IF n <= Legacy THEN [NoRow EXCEPT !.state = "live"]
                                ELSE NoRow]
  /\ tag = [t \in Tags |-> [epc |-> NoValue, asset |-> NoAsset]]
  /\ op = [w \in Workers |-> Idle]
  /\ begun = 0
  /\ answers = {}

Work(w, at, job, value) ==
  op' = [op EXCEPT ![w] = [at |-> at, job |-> job, value |-> value]]
Take(w, at, job, value) ==
  /\ op[w] = Idle
  /\ begun < MaxRequests
  /\ begun' = begun + 1
  /\ Work(w, at, job, value)
Begin(w, at, job)  == Take(w, at, job, NoValue)
GoOn(w, at, value) == Work(w, at, op[w].job, value)
Done(w)            == op' = [op EXCEPT ![w] = Idle]
At(w, at)          == op[w].at = at
ForKind(w, kind)   == op[w].job.kind = kind

Existing == {n \in Numbers : asset[n].state # None}
Live     == {n \in Numbers : asset[n].state = "live"}
Taken(v) == allocation[v].status # None

-----------------------------------------------------------------------------
(* allocate_iar, for whoever needs a reference *)

NextValue(w) ==
  /\ At(w, "next")
  /\ sequence < MaxValue
  /\ sequence' = sequence + 1
  /\ GoOn(w, "record", sequence + 1)
  /\ UNCHANGED <<locked, allocation, blocks, asset, tag, begun, answers>>

\* What the request goes on with.
Handed(w) ==
  \/ ForKind(w, "issue") /\ Done(w)
  \/ ForKind(w, "create") /\ GoOn(w, "insert", op[w].value)
  \/ op[w].job.kind \in {"backfill", "commission"} /\ GoOn(w, "assign", op[w].value)

\* Mutant of Record: ON CONFLICT DO NOTHING.
RecordAnyway(w) ==
  /\ At(w, "record")
  /\ allocation' = IF Taken(op[w].value) THEN allocation
                   ELSE [allocation EXCEPT ![op[w].value].status = "CONSUMED"]
  /\ Handed(w)
  /\ UNCHANGED <<sequence, locked, blocks, asset, tag, begun, answers>>

\* A value drawn once more after a setval is refused by the primary key: the
\* request fails, and the number is behind the sequence again.
Record(w) ==
  /\ At(w, "record")
  /\ \/ /\ ~ Taken(op[w].value)
        /\ allocation' = [allocation EXCEPT ![op[w].value].status = "CONSUMED"]
        /\ Handed(w)
     \/ /\ Taken(op[w].value)
        /\ Done(w)
        /\ UNCHANGED allocation
  /\ UNCHANGED <<sequence, locked, blocks, asset, tag, begun, answers>>

\* allocateIdentifiers: each of the count is an allocation of its own.
AllocateIdentifier(w) ==
  /\ Begin(w, "next", [kind |-> "issue"])
  /\ UNCHANGED <<sequence, locked, allocation, blocks, asset, tag, answers>>

-----------------------------------------------------------------------------
(* POST /assets and createAssetIdempotent *)

WithKey(k) == {n \in Numbers : asset[n].key = k}

\* The asset an earlier request with this key created is the answer.
Replayed(k) ==
  /\ k # None
  /\ \E n \in WithKey(k) :
       answers' = answers \cup {[key |-> k, asset |-> n]}

CreateReplayed(w, k) ==
  /\ op[w] = Idle
  /\ Replayed(k)
  /\ UNCHANGED <<sequence, locked, allocation, blocks, asset, tag, op, begun>>

CreateJob(k, tries, n) == [kind |-> "create", key |-> k, tries |-> tries, asset |-> n]

CreateAsset(w, k) ==
  /\ k # None => WithKey(k) = {}
  /\ Begin(w, "cap", CreateJob(k, 1, NoAsset))
  /\ UNCHANGED <<sequence, locked, allocation, blocks, asset, tag, answers>>

\* Mutant of CapAllows: count >= maxAssets checked the wrong way round.
CapReached == Cardinality(Live) <= Cap

CapAllows == Cardinality(Live) + 1 <= Cap

EnforceAssetCap(w) ==
  /\ At(w, "cap")
  /\ \/ CapAllows /\ GoOn(w, "look", NoValue)
     \/ ~ CapAllows /\ Done(w)
  /\ UNCHANGED <<sequence, locked, allocation, blocks, asset, tag, begun, answers>>

LookAgain(w) ==
  /\ At(w, "look")
  /\ LET k == op[w].job.key
     IN  \/ Replayed(k) /\ Done(w)
         \/ /\ k # None => WithKey(k) = {}
            /\ GoOn(w, "number", NoValue)
            /\ UNCHANGED answers
  /\ UNCHANGED <<sequence, locked, allocation, blocks, asset, tag, begun>>

\* Deleted assets keep their number.  Numbers are compared as strings, which
\* is their order up to AST-999999.
NextAssetNumber(w) ==
  /\ At(w, "number")
  /\ \E n \in Numbers :
       /\ \A m \in Existing : m < n
       /\ n # 1 => n - 1 \in Existing
       /\ Work(w, "next", CreateJob(op[w].job.key, op[w].job.tries, n), NoValue)
  /\ UNCHANGED <<sequence, locked, allocation, blocks, asset, tag, begun, answers>>

\* The unique indexes of the insert.  The one on the reference never objects:
\* that is IarHeldOnce.
NumberTaken(w) == op[w].job.asset \in Existing
KeyTaken(w)    == op[w].job.key # None /\ WithKey(op[w].job.key) # {}
NewRow(w)      == [state |-> "live", iar |-> op[w].value, key |-> op[w].job.key]

\* Mutant of Inserted: no unique index on the key.
InsertedTwice(w) ==
  /\ ~ NumberTaken(w)
  /\ asset' = [asset EXCEPT ![op[w].job.asset] = NewRow(w)]
  /\ GoOn(w, "answer", NoValue)
  /\ UNCHANGED answers

Inserted(w) ==
  /\ ~ NumberTaken(w) /\ ~ KeyTaken(w)
  /\ asset' = [asset EXCEPT ![op[w].job.asset] = NewRow(w)]
  /\ GoOn(w, "answer", NoValue)
  /\ UNCHANGED answers

\* The replay that raced the original gets the original's asset.
ReplacedByReplay(w) ==
  /\ KeyTaken(w)
  /\ Replayed(op[w].job.key)
  /\ Done(w)
  /\ UNCHANGED asset

\* The reference is burnt: the next attempt allocates another one.
TriedAgain(w) ==
  /\ NumberTaken(w)
  /\ \/ /\ op[w].job.tries < Attempts
        /\ Work(w, "number", CreateJob(op[w].job.key, op[w].job.tries + 1, NoAsset),
                NoValue)
     \/ op[w].job.tries = Attempts /\ Done(w)
  /\ UNCHANGED <<asset, answers>>

\* When both indexes object the database names either.
InsertAsset(w) ==
  /\ At(w, "insert")
  /\ Inserted(w) \/ ReplacedByReplay(w) \/ TriedAgain(w)
  /\ UNCHANGED <<sequence, locked, allocation, blocks, tag, begun>>

\* The rest of createAssetOnce: the allocation learns its asset, the events
\* are recorded.  The asset is there even when one of these fails.
Answer(w) ==
  /\ At(w, "answer")
  /\ LET job == op[w].job
     IN  answers' = IF job.key = None THEN answers
                    ELSE answers \cup {[key |-> job.key, asset |-> job.asset]}
  /\ Done(w)
  /\ UNCHANGED <<sequence, locked, allocation, blocks, asset, tag, begun>>

DeleteAsset(n) ==
  /\ asset[n].state = "live"
  /\ asset' = [asset EXCEPT ![n].state = "deleted"]
  /\ UNCHANGED <<sequence, locked, allocation, blocks, tag, op, begun, answers>>

-----------------------------------------------------------------------------
(* References for assets that have none: backfillMissingIars, commissionTag *)

Backfill(w) ==
  /\ Begin(w, "backfill", [kind |-> "backfill", asset |-> NoAsset,
                           todo |-> {n \in Live : asset[n].iar = NoValue}])
  /\ UNCHANGED <<sequence, locked, allocation, blocks, asset, tag, answers>>

\* The list is not read again: an asset in it may have a reference by now.
BackfillNext(w) ==
  /\ At(w, "backfill")
  /\ LET todo == op[w].job.todo
     IN  \/ \E n \in todo :
              /\ \A m \in todo : n <= m
              /\ Work(w, "next", [kind |-> "backfill", todo |-> todo \ {n}, asset |-> n],
                      NoValue)
         \/ todo = {} /\ Done(w)
  /\ UNCHANGED <<sequence, locked, allocation, blocks, asset, tag, begun, answers>>

\* An asset without a reference is given one on the way.
CommissionTag(w, t, n) ==
  /\ n \in Live
  /\ Take(w, IF asset[n].iar = NoValue THEN "next" ELSE "encode",
          [kind |-> "commission", tag |-> t, asset |-> n], asset[n].iar)
  /\ UNCHANGED <<sequence, locked, allocation, blocks, asset, tag, answers>>

\* A carrier has been bound to the asset; the row of a binding stays.
Bound(n) == \E t \in Tags : tag[t].asset = n

Assigned(w) ==
  /\ asset' = [asset EXCEPT ![op[w].job.asset].iar = op[w].value]
  /\ IF ForKind(w, "backfill") THEN GoOn(w, "backfill", NoValue)
     ELSE GoOn(w, "encode", op[w].value)

\* Mutant of AssignIar: no trigger.
AssignAnyIar(w) ==
  /\ At(w, "assign")
  /\ Assigned(w)
  /\ UNCHANGED <<sequence, locked, allocation, blocks, tag, begun, answers>>

\* The update has no condition on the reference it replaces.  The trigger
\* asset_iar_immutable raises when a carrier has been bound.
AssignIar(w) ==
  /\ At(w, "assign")
  /\ LET n == op[w].job.asset
     IN  \/ asset[n].iar # NoValue /\ Bound(n) /\ Done(w) /\ UNCHANGED asset
         \/ (asset[n].iar = NoValue \/ ~ Bound(n)) /\ Assigned(w)
  /\ UNCHANGED <<sequence, locked, allocation, blocks, tag, begun, answers>>

\* With a company prefix the EPC is made of the reference read or allocated
\* before (without one it is the chip's, and nothing here depends on it).  It
\* is refused for a tag that is bound to another asset and when another tag
\* has it.
EncodeTag(w) ==
  /\ At(w, "encode")
  /\ LET t    == op[w].job.tag
         bad  == \/ tag[t].asset \notin {NoAsset, op[w].job.asset}
                 \/ \E u \in Tags \ {t} : tag[u].epc = op[w].value
     IN  tag' = IF bad THEN tag ELSE [tag EXCEPT ![t].epc = op[w].value]
  /\ Done(w)
  /\ UNCHANGED <<sequence, locked, allocation, blocks, asset, begun, answers>>

\* verifyTag, when the tag reads back as it was to be written; when it does
\* not, nothing is bound.
VerifyTag(w, t, n) ==
  /\ n \in Live
  /\ tag[t].epc # NoValue
  /\ Begin(w, "bind", [kind |-> "verify", tag |-> t, asset |-> n])
  /\ UNCHANGED <<sequence, locked, allocation, blocks, asset, tag, answers>>

\* A tag is bound to one asset at a time (ux_binding_tag_active).
Bind(w) ==
  /\ At(w, "bind")
  /\ LET t == op[w].job.tag
     IN  \/ /\ tag[t].asset = NoAsset
            /\ tag' = [tag EXCEPT ![t].asset = op[w].job.asset]
         \/ tag[t].asset # NoAsset /\ UNCHANGED tag
  /\ Done(w)
  /\ UNCHANGED <<sequence, locked, allocation, blocks, asset, begun, answers>>

-----------------------------------------------------------------------------
(* lease_identifier_block, settleBlock *)

\* A lease waits for the lock before it draws and holds it until its one
\* statement has ended.  That the device exists and is active is looked up
\* before, and nothing here changes it.

\* Mutant of LeaseBlock: no advisory lock.
LeaseUnlocked(w, size) ==
  /\ Begin(w, "draw", [kind |-> "lease", size |-> size])
  /\ UNCHANGED <<sequence, locked, allocation, blocks, asset, tag, answers>>

LeaseBlock(w, size) ==
  /\ locked = None
  /\ Begin(w, "draw", [kind |-> "lease", size |-> size])
  /\ locked' = w
  /\ UNCHANGED <<sequence, allocation, blocks, asset, tag, answers>>

\* Mutant of LastOf: off by one.
LastOfPlusOne(w) == op[w].value + op[w].job.size

LastOf(w) == op[w].value + op[w].job.size - 1

DrawFirst(w) ==
  /\ At(w, "draw")
  /\ sequence + op[w].job.size <= MaxValue
  /\ sequence' = sequence + 1
  /\ GoOn(w, "reserve", sequence + 1)
  /\ UNCHANGED <<locked, allocation, blocks, asset, tag, begun, answers>>

\* Allocations may have drawn in between: this can take the sequence back.
SetSequence(w) ==
  /\ At(w, "reserve")
  /\ sequence' = LastOf(w)
  /\ GoOn(w, "store", op[w].value)
  /\ UNCHANGED <<locked, allocation, blocks, asset, tag, begun, answers>>

Unlock(w) == locked' = IF locked = w THEN None ELSE locked

Reserved(w) ==
  [v \in Values |-> IF v \in op[w].value .. LastOf(w) /\ ~ Taken(v)
                    THEN [Unallocated EXCEPT !.status = "RESERVED", !.block = op[w].value]
                    ELSE allocation[v]]
NewBlock(w) == [first |-> op[w].value, last |-> LastOf(w)]

\* Mutant of StoreBlock: ON CONFLICT DO NOTHING.
StoreBlockAnyway(w) ==
  /\ At(w, "store")
  /\ allocation' = Reserved(w)
  /\ blocks' = blocks \cup {NewBlock(w)}
  /\ Unlock(w)
  /\ Done(w)
  /\ UNCHANGED <<sequence, asset, tag, begun, answers>>

\* One value that is taken rolls the whole lease back, except the sequence.
StoreBlock(w) ==
  /\ At(w, "store")
  /\ \/ /\ \A v \in op[w].value .. LastOf(w) : ~ Taken(v)
        /\ allocation' = Reserved(w)
        /\ blocks' = blocks \cup {NewBlock(w)}
     \/ /\ \E v \in op[w].value .. LastOf(w) : Taken(v)
        /\ UNCHANGED <<allocation, blocks>>
  /\ Unlock(w)
  /\ Done(w)
  /\ UNCHANGED <<sequence, asset, tag, begun, answers>>

Of(b) == {v \in Values : allocation[v].block = b.first}

\* Mutant of Undecided: no condition on the status.
Anything(b) == Of(b)

Undecided(b) == {v \in Of(b) : allocation[v].status = "RESERVED"}

\* One transaction, whose row locks put two settlements of a block in order.
\* A block may be settled again: what is decided stays.  The look-up of
\* conflicts finds none, because the code gives no asset a leased value.
SettleBlock(b, next) ==
  /\ b.first <= next /\ next <= b.last + 1
  /\ allocation' = [v \in Values |->
                      IF v \notin Undecided(b) THEN allocation[v]
                      ELSE [allocation[v] EXCEPT
                              !.status = IF v < next THEN "CONSUMED" ELSE "RELEASED"]]
  /\ UNCHANGED <<sequence, locked, blocks, asset, tag, op, begun, answers>>

-----------------------------------------------------------------------------
\* A query fails or the replica dies: the open transaction is rolled back,
\* what was committed and what the sequence gave stay.
Fail(w) ==
  /\ op[w] # Idle
  /\ Done(w)
  /\ Unlock(w)
  /\ UNCHANGED <<sequence, allocation, blocks, asset, tag, begun, answers>>

Next ==
  \/ \E w \in Workers :
       \/ NextValue(w) \/ Record(w) \/ Answer(w) \/ AllocateIdentifier(w)
       \/ EnforceAssetCap(w) \/ LookAgain(w) \/ NextAssetNumber(w) \/ InsertAsset(w)
       \/ Backfill(w) \/ BackfillNext(w) \/ AssignIar(w) \/ EncodeTag(w) \/ Bind(w)
       \/ DrawFirst(w) \/ SetSequence(w) \/ StoreBlock(w) \/ Fail(w)
       \/ \E k \in Keys \cup {None} : CreateAsset(w, k) \/ CreateReplayed(w, k)
       \/ \E t \in Tags, n \in Numbers : CommissionTag(w, t, n) \/ VerifyTag(w, t, n)
       \/ \E size \in Sizes : LeaseBlock(w, size)
  \/ \E n \in Numbers : DeleteAsset(n)
  \/ \E b \in blocks, next \in 1 .. MaxValue + 1 : SettleBlock(b, next)

Spec == Init /\ [][Next]_vars

-----------------------------------------------------------------------------
(* Properties *)

\* Every value of a leased block is reserved for that block and for nothing
\* else: what a device numbers with offline no one else has.
\* (lease_identifier_block and its rollback against allocations that go past
\* the lock.)
BlocksAreWhole ==
  \A b \in blocks : \A v \in b.first .. b.last : allocation[v].block = b.first

\* The sequence is never taken back into a block: no later draw can meet a
\* leased value.  ("per-tenant advisory lock so blocks can never overlap".)
LeasedIsBehind == \A b \in blocks : b.last <= sequence

\* What a device was leased is its own, now and for every later draw.
LeasesAreSound == BlocksAreWhole /\ LeasedIsBehind

\* Who has reference v in hand or on its row.
HandsOn(v) == {w \in Workers : op[w] # Idle /\ op[w].value = v
                                 /\ op[w].at \in {"insert", "assign"}}
RowsWith(v) == {n \in Numbers : asset[n].iar = v}

\* A reference that has been handed out is on one asset or in the hands of
\* one request, and it is recorded as consumed outside every block: it is
\* never issued again, although the sequence can be taken back.
IarHeldOnce ==
  \A v \in Values :
    /\ Cardinality(HandsOn(v)) + Cardinality(RowsWith(v)) <= 1
    /\ HandsOn(v) # {} \/ RowsWith(v) # {} =>
         allocation[v].status = "CONSUMED" /\ allocation[v].block = NoValue

\* All answers to the creates with one key name the same asset, those of the
\* replays that come later and those of the replays that race the original.
\* (createAssetIdempotent)
AnswersAgree ==
  \A x, y \in answers : x.key = y.key => x.asset = y.asset

\* The creates that are past the check of the cap.
PastCap == {w \in Workers : op[w] # Idle /\ op[w].job.kind = "create"
                              /\ op[w].at \in {"look", "number", "next", "record", "insert"}}

\* The cap is checked before the insert, so creates that overlap exceed it,
\* but never by more than the other requests in progress.
CapOverrunIsBounded ==
  Cardinality(Live) + Cardinality(PastCap) <= Cap + Cardinality(Workers) - 1

\* Once a carrier is bound to an asset that has a reference, the reference
\* stays, whatever a backfill or another commissioning read before.
\* (asset_iar_immutable)
BoundIarStays ==
  [][\A n \in Numbers :
       Bound(n) /\ asset[n].iar # NoValue => asset'[n].iar = asset[n].iar]_vars

\* What a settlement has decided of a value no later settlement changes.
\* (settleBlock: "Late settles are accepted; conflicts are reported, never
\* merged".)
SettledIsFinal ==
  [][\A v \in Values :
       allocation[v].status \in {"CONSUMED", "RELEASED"} =>
         allocation'[v].status = allocation[v].status]_vars

\* What has been issued is not issued differently: neither the reference of a
\* tagged asset nor the end of a value changes any more.
IssuedStays == BoundIarStays /\ SettledIsFinal
=============================================================================
