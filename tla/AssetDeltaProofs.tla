-------------------------- MODULE AssetDeltaProofs --------------------------
(***************************************************************************)
(* What holds of the asset cache for every number of assets, of syncs at   *)
(* once, of assets on a page, and every length of the overlap.             *)
(*                                                                         *)
(* The argument is about time.  A write, a tag lookup and a sync last      *)
(* MaxLag at most, and the overlap is longer than two of them.  So what a  *)
(* sync or a lookup still carries about an asset that has changed since is *)
(* about an asset that the next delta asks for again: what is older than   *)
(* the overlap it can only put right.                                      *)
(***************************************************************************)
EXTENDS AssetDelta, FiniteSetTheorems, TLAPS

Busy(s) == sync[s].at # "idle"

\* A write, a lookup or a sync that began then can still be going on.
InTime(began) == began <= clock /\ clock <= began + MaxLag

Timely ==
  /\ 1 <= clock /\ cursor <= clock
  /\ \A a \in Assets : writing[a] # 0 => InTime(writing[a])
  /\ \A s \in Syncs : Busy(s) => 1 <= sync[s].until /\ InTime(sync[s].until)
  /\ lookup # NoLookup => InTime(lookup.began)

Rows ==
  \A a \in Assets :
    /\ row[a].version # 0 => row[a].updatedAt # 0
    /\ row[a].version = 0 => row[a].deletedAt = 0
    /\ writing[a] # 0 => row[a].version < MaxVersion
    /\ row[a].deletedAt # 0 => row[a].deletedAt = row[a].updatedAt /\ writing[a] = 0

\* What was read of an asset at that time is what it is now, or it has changed
\* since, not long before that time at the earliest.
Fresh(a, version, began) ==
  version = Live(a) \/ began <= row[a].updatedAt + MaxLag

Fetched ==
  \A s \in Syncs : sync[s].at = "paging" =>
    \A a \in Assets : sync[s].got[a] # 0 => Fresh(a, sync[s].got[a], sync[s].until)

LookedUp == lookup # NoLookup => Fresh(lookup.asset, lookup.version, lookup.began)

\* An asset that does not exist yet is nowhere, but in the cache of a device
\* that has never synchronized.
Unborn ==
  \A a \in Assets : row[a].version = 0 =>
    /\ \A s \in Syncs : sync[s].at = "paging" => sync[s].got[a] = 0
    /\ lookup # NoLookup => lookup.asset # a
    /\ cursor # 0 => cache[a] = 0
    /\ \A s \in Syncs : sync[s].at \in {"removing", "saving"} => cache[a] = 0

Kinds ==
  \A s \in Syncs :
    /\ Busy(s) /\ ~sync[s].full => cursor # 0
    /\ sync[s].at = "removing" => ~sync[s].full
    /\ sync[s].at = "paging" /\ sync[s].full => sync[s].since = 0

Right(a) == calm \/ row[a].deletedAt # 0 => cache[a] = Live(a)

Old(a, time) == row[a].version # 0 /\ row[a].updatedAt <= time - Overlap

Window(s, a) == In(row[a].updatedAt, sync[s].since, sync[s].until)

\* The rows of the delta of a sync that come before an asset
Rank(s, a) ==
  Cardinality({b \in Changed(sync[s].since, sync[s].until) : Before(b, a)})

\* Page 1 has the ids of all the deleted assets.
GoneAreDeleted ==
  \A s \in Syncs : Busy(s) => \A a \in sync[s].gone : row[a].deletedAt # 0

Counted ==
  \A s \in Syncs :
    calm /\ Paging(s) =>
      sync[s].pages = TotalPages(Changed(sync[s].since, sync[s].until))

\* An asset whose last change had committed when the sync began is among what
\* it has fetched, once its page has been fetched.
Has(s, a) ==
  (Paging(s) => Rank(s, a) < sync[s].page * PageSize) => sync[s].got[a] = Live(a)

Covered ==
  \A s \in Syncs : sync[s].at = "paging" => \A a \in Assets :
    calm /\ row[a].version # 0 /\ row[a].deletedAt = 0
         /\ row[a].updatedAt + MaxLag < sync[s].until /\ Window(s, a) => Has(s, a)

\* What a sync does not ask for, or has stored, is right in the cache.
Stored ==
  /\ cursor # 0 => \A a \in Assets : Old(a, cursor) => Right(a)
  /\ \A s \in Syncs, a \in Assets : Old(a, sync[s].until) =>
       /\ sync[s].at = "paging" =>
            /\ ~Window(s, a) => Right(a)
            /\ Window(s, a) /\ row[a].deletedAt # 0 => a \in sync[s].gone
       /\ sync[s].at = "removing" => Right(a) \/ a \in sync[s].gone
       /\ sync[s].at = "saving" => Right(a)

DeltaInv ==
  /\ TypeOK /\ Timely /\ Rows /\ Fetched /\ LookedUp
  /\ Unborn /\ Kinds /\ GoneAreDeleted /\ Counted /\ Covered /\ Stored

-----------------------------------------------------------------------------
(* Lemmas about pages.                                                      *)

\* Of the rows of a delta, fewer come before any one of them than there are.
LEMMA FewerBefore ==
  ASSUME TypeOK, NEW S \in SUBSET Assets, NEW a \in S
  PROVE  /\ Cardinality(S) \in Nat
         /\ Cardinality({b \in S : Before(b, a)}) \in Nat
         /\ Cardinality({b \in S : Before(b, a)}) < Cardinality(S)
<1> DEFINE T == {b \in S : Before(b, a)}
<1>1. IsFiniteSet(S) BY FS_Subset, AssetsAssumption
<1>2. ~Before(a, a) BY AssetsAssumption DEF Before, TypeOK, Row, Time
<1>3. T \subseteq S \ {a} BY <1>2
<1>4. IsFiniteSet(S \ {a}) /\ Cardinality(S \ {a}) = Cardinality(S) - 1
  BY <1>1, FS_RemoveElement
<1>5. IsFiniteSet(T) /\ Cardinality(T) <= Cardinality(S \ {a})
  BY <1>3, <1>4, FS_Subset
<1>6. Cardinality(T) \in Nat /\ Cardinality(S) \in Nat
  BY <1>1, <1>5, FS_CardinalityType
<1> QED BY <1>4, <1>5, <1>6

\* The last page reaches the last row.
LEMMA PagesReach ==
  ASSUME NEW n \in Nat, NEW size \in Nat \ {0}, NEW page \in Nat,
         (n + size - 1) \div size <= page
  PROVE  n <= page * size
<1> DEFINE q == (n + size - 1) \div size
<1>1. q \in Nat /\ n + size - 1 < size * (q + 1)
  OBVIOUS
<1>2. n - 1 < size * q
  BY <1>1
<1>3. size * q <= page * size
  BY <1>1
<1> QED BY <1>1, <1>2, <1>3

-----------------------------------------------------------------------------
(* Types.                                                                   *)

\* What a sync that is in progress carries
LEMMA SyncFields ==
  ASSUME TypeOK, NEW s \in Syncs
  PROVE  /\ sync[s] = Idle <=> ~Busy(s)
         /\ Busy(s) => sync[s] \in Progress
         /\ sync[s].at \in {"idle", "paging", "removing", "saving"}
         /\ Busy(s) =>
              /\ sync[s].full \in BOOLEAN
              /\ sync[s].since \in -Overlap .. MaxTime
              /\ sync[s].until \in Time
              /\ sync[s].pages \in Nat
              /\ sync[s].page \in Nat \ {0}
              /\ sync[s].got \in [Assets -> Version]
              /\ sync[s].gone \in SUBSET Assets
BY DEF TypeOK, Busy, Progress, Idle

LEMMA LookupFields ==
  ASSUME TypeOK, lookup # NoLookup
  PROVE  lookup.asset \in Assets /\ lookup.version \in Version /\ lookup.began \in Time
BY DEF TypeOK

LEMMA RowFields ==
  ASSUME TypeOK, NEW a \in Assets
  PROVE  /\ row[a] \in Row
         /\ row[a].version \in Version
         /\ row[a].updatedAt \in Time
         /\ row[a].deletedAt \in Time
         /\ Live(a) \in Version
         /\ Live(a) # 0 => row[a].version = Live(a)
BY TimeAssumption DEF TypeOK, Row, Live, Version

\* The progress of a sync after a step of its own
LEMMA SyncStays ==
  ASSUME TypeOK, NEW s \in Syncs, NEW new \in Progress \cup {Idle},
         sync' = [sync EXCEPT ![s] = new]
  PROVE  /\ sync' \in [Syncs -> Progress \cup {Idle}]
         /\ sync'[s] = new
         /\ \A t \in Syncs : t # s => sync'[t] = sync[t]
BY DEF TypeOK

LEMMA AddType ==
  ASSUME TypeOK, NEW got \in [Assets -> Version], NEW S
  PROVE  Add(got, S) \in [Assets -> Version]
BY RowFields DEF Add

LEMMA TotalType ==
  ASSUME TypeOK, NEW S \in SUBSET Assets
  PROVE  TotalPages(S) \in Nat
<1>1. Cardinality(S) \in Nat
  BY FS_Subset, AssetsAssumption, FS_CardinalityType
<1> QED BY <1>1, PageSizeAssumption DEF TotalPages

LEMMA InitTypes == Init => TypeOK
BY TimeAssumption DEF Init, TypeOK, Row, Time, Version

LEMMA FirstPageNew ==
  ASSUME TypeOK, NEW s \in Syncs, FirstPage(s)
  PROVE  /\ sync[s] = Idle
         /\ UNCHANGED <<clock, row, writing, cache, cursor, lookup, calm>>
         /\ sync' \in [Syncs -> Progress \cup {Idle}]
         /\ sync'[s].at = "paging" /\ sync'[s].until = clock
         /\ cursor = 0 => sync'[s].full
         /\ sync'[s].since = (IF sync'[s].full THEN 0 ELSE cursor - Overlap)
         /\ sync'[s].page = 1
         /\ LET changed == Changed(sync'[s].since, clock)
            IN  /\ sync'[s].pages = TotalPages(changed)
                /\ sync'[s].got = Add([a \in Assets |-> 0], OnPage(changed, 1))
         /\ sync'[s].gone = Deleted(sync'[s].since, clock)
         /\ \A t \in Syncs : t # s => sync'[t] = sync[t]
<1>1. PICK full \in BOOLEAN :
        LET since   == IF full THEN 0 ELSE cursor - Overlap
            changed == Changed(since, clock)
        IN  /\ cursor = 0 => full
            /\ sync' = [sync EXCEPT ![s] =
                 [at |-> "paging", full |-> full, since |-> since, until |-> clock,
                  pages |-> TotalPages(changed), page |-> 1,
                  got |-> Add([a \in Assets |-> 0], OnPage(changed, 1)),
                  gone |-> Deleted(since, clock)]]
  BY DEF FirstPage
<1> DEFINE since   == IF full THEN 0 ELSE cursor - Overlap
           changed == Changed(since, clock)
           got     == Add([a \in Assets |-> 0], OnPage(changed, 1))
           new     == [at |-> "paging", full |-> full, since |-> since, until |-> clock,
                       pages |-> TotalPages(changed), page |-> 1,
                       got |-> got, gone |-> Deleted(since, clock)]
<1>2. since \in -Overlap .. MaxTime
  BY TimeAssumption DEF TypeOK, Time
<1>3. TotalPages(changed) \in Nat
  BY TotalType DEF Changed
<1>4. got \in [Assets -> Version]
  <2>1. [a \in Assets |-> 0] \in [Assets -> Version]
    BY TimeAssumption DEF Version
  <2> QED BY <2>1, AddType
<1>5. Deleted(since, clock) \in SUBSET Assets
  BY DEF Deleted
<1>6. new \in Progress
  <2>1. clock \in Time
    BY DEF TypeOK
  <2> HIDE DEF since, changed, got
  <2> QED BY <1>2, <1>3, <1>4, <1>5, <2>1 DEF Progress
<1>7. /\ sync' \in [Syncs -> Progress \cup {Idle}]
      /\ sync'[s] = new
      /\ \A t \in Syncs : t # s => sync'[t] = sync[t]
  <2>1. sync' = [sync EXCEPT ![s] = new]
    BY <1>1
  <2> HIDE DEF new
  <2> QED BY <1>6, <2>1, SyncStays
<1>8. sync[s] = Idle /\ UNCHANGED <<clock, row, writing, cache, cursor, lookup, calm>>
  BY DEF FirstPage
<1>9. /\ new.at = "paging" /\ new.until = clock /\ new.full = full /\ new.since = since
      /\ new.page = 1 /\ new.pages = TotalPages(changed) /\ new.got = got
      /\ new.gone = Deleted(since, clock)
  <2> HIDE DEF since, changed, got
  <2> QED OBVIOUS
<1> HIDE DEF new
<1> QED BY <1>1, <1>7, <1>8, <1>9

\* Two syncs agree on what they were asked.
SameQuery(p, q) ==
  /\ p.full = q.full /\ p.since = q.since /\ p.until = q.until
  /\ p.pages = q.pages /\ p.gone = q.gone

LEMMA NextPageNew ==
  ASSUME TypeOK, NEW s \in Syncs, NextPage(s)
  PROVE  /\ Paging(s)
         /\ UNCHANGED <<clock, row, writing, cache, cursor, lookup, calm>>
         /\ sync' \in [Syncs -> Progress \cup {Idle}]
         /\ sync'[s].at = "paging" /\ SameQuery(sync'[s], sync[s])
         /\ sync'[s].page = sync[s].page + 1
         /\ sync'[s].got =
              Add(sync[s].got, OnPage(Changed(sync[s].since, sync[s].until), sync[s].page + 1))
         /\ \A t \in Syncs : t # s => sync'[t] = sync[t]
<1> DEFINE p   == sync[s].page + 1
           S   == OnPage(Changed(sync[s].since, sync[s].until), p)
           new == [sync[s] EXCEPT !.page = p, !.got = Add(@, S)]
<1>1. /\ Paging(s)
      /\ UNCHANGED <<clock, row, writing, cache, cursor, lookup, calm>>
      /\ sync' = [sync EXCEPT ![s].page = p, ![s].got = Add(@, S)]
  BY DEF NextPage
<1>2. Busy(s) /\ sync[s] \in Progress /\ sync[s].at = "paging"
  BY <1>1, SyncFields DEF Paging, Busy
<1>3. Add(sync[s].got, S) \in [Assets -> Version]
  BY <1>2, SyncFields, AddType
<1>4. p \in Nat \ {0}
  BY <1>2, SyncFields
<1>5. /\ new \in Progress
      /\ new.at = "paging" /\ SameQuery(new, sync[s])
      /\ new.page = p /\ new.got = Add(sync[s].got, S)
  <2> HIDE DEF p, S
  <2> QED BY <1>2, <1>3, <1>4 DEF Progress, SameQuery
<1>6. sync' = [sync EXCEPT ![s] = new]
  <2> HIDE DEF p, S
  <2> QED BY <1>1 DEF TypeOK
<1>7. /\ sync' \in [Syncs -> Progress \cup {Idle}]
      /\ sync'[s] = new
      /\ \A t \in Syncs : t # s => sync'[t] = sync[t]
  <2> HIDE DEF new
  <2> QED BY <1>5, <1>6, SyncStays
<1> QED BY <1>1, <1>5, <1>7

\* A sync that stores or removes moves on and keeps what it carries.
LEMMA MovesOn ==
  ASSUME TypeOK, NEW s \in Syncs, Busy(s), NEW at \in {"removing", "saving"},
         sync' = [sync EXCEPT ![s].at = at]
  PROVE  /\ sync' \in [Syncs -> Progress \cup {Idle}]
         /\ sync'[s].at = at /\ SameQuery(sync'[s], sync[s])
         /\ \A t \in Syncs : t # s => sync'[t] = sync[t]
<1> DEFINE new == [sync[s] EXCEPT !.at = at]
<1>1. sync[s] \in Progress
  BY SyncFields
<1>2. new \in Progress /\ new.at = at /\ SameQuery(new, sync[s])
  BY <1>1 DEF Progress, SameQuery
<1>3. sync' = [sync EXCEPT ![s] = new]
  BY DEF TypeOK
<1>4. /\ sync' \in [Syncs -> Progress \cup {Idle}]
      /\ sync'[s] = new
      /\ \A t \in Syncs : t # s => sync'[t] = sync[t]
  <2> HIDE DEF new
  <2> QED BY <1>2, <1>3, SyncStays
<1> QED BY <1>2, <1>4

LEMMA StoreNew ==
  ASSUME TypeOK, NEW s \in Syncs, Store(s)
  PROVE  /\ sync[s].at = "paging" /\ ~Paging(s) /\ Busy(s)
         /\ UNCHANGED <<clock, row, writing, cursor, lookup, calm>>
         /\ cache' \in [Assets -> Version]
         /\ \A a \in Assets :
              cache'[a] = IF sync[s].full \/ sync[s].got[a] # 0 THEN sync[s].got[a]
                                                                ELSE cache[a]
         /\ sync' \in [Syncs -> Progress \cup {Idle}]
         /\ sync'[s].at = (IF sync[s].full THEN "saving" ELSE "removing")
         /\ SameQuery(sync'[s], sync[s])
         /\ \A t \in Syncs : t # s => sync'[t] = sync[t]
<1>1. /\ sync[s].at = "paging" /\ ~Paging(s)
      /\ UNCHANGED <<clock, row, writing, cursor, lookup, calm>>
      /\ cache' = IF sync[s].full THEN sync[s].got
                  ELSE [a \in Assets |-> IF sync[s].got[a] # 0 THEN sync[s].got[a] ELSE cache[a]]
      /\ sync' = [sync EXCEPT ![s].at = IF sync[s].full THEN "saving" ELSE "removing"]
  BY DEF Store
<1>2. Busy(s)
  BY <1>1 DEF Busy
<1>3. sync[s].got \in [Assets -> Version] /\ cache \in [Assets -> Version]
  BY <1>2, SyncFields DEF TypeOK
<1>4. cache' \in [Assets -> Version]
  BY <1>1, <1>3
<1>5. \A a \in Assets :
        cache'[a] = IF sync[s].full \/ sync[s].got[a] # 0 THEN sync[s].got[a] ELSE cache[a]
  BY <1>1, <1>3
<1> DEFINE at == IF sync[s].full THEN "saving" ELSE "removing"
<1>6. at \in {"removing", "saving"} /\ sync' = [sync EXCEPT ![s].at = at]
  BY <1>1
<1>7. /\ sync' \in [Syncs -> Progress \cup {Idle}]
      /\ sync'[s].at = at /\ SameQuery(sync'[s], sync[s])
      /\ \A t \in Syncs : t # s => sync'[t] = sync[t]
  <2> HIDE DEF at
  <2> QED BY <1>2, <1>6, MovesOn
<1> QED BY <1>1, <1>2, <1>4, <1>5, <1>7

LEMMA RemoveNew ==
  ASSUME TypeOK, NEW s \in Syncs, Remove(s)
  PROVE  /\ sync[s].at = "removing" /\ Busy(s)
         /\ UNCHANGED <<clock, row, writing, cursor, lookup, calm>>
         /\ cache' \in [Assets -> Version]
         /\ \A a \in Assets : cache'[a] = IF a \in sync[s].gone THEN 0 ELSE cache[a]
         /\ sync' \in [Syncs -> Progress \cup {Idle}]
         /\ sync'[s].at = "saving" /\ SameQuery(sync'[s], sync[s])
         /\ \A t \in Syncs : t # s => sync'[t] = sync[t]
<1>1. /\ sync[s].at = "removing"
      /\ UNCHANGED <<clock, row, writing, cursor, lookup, calm>>
      /\ cache' = [a \in Assets |-> IF a \in sync[s].gone THEN 0 ELSE cache[a]]
      /\ sync' = [sync EXCEPT ![s].at = "saving"]
  BY DEF Remove
<1>2. Busy(s)
  BY <1>1 DEF Busy
<1>3. cache' \in [Assets -> Version]
  BY <1>1, TimeAssumption DEF TypeOK, Version
<1>4. \A a \in Assets : cache'[a] = IF a \in sync[s].gone THEN 0 ELSE cache[a]
  BY <1>1
<1>5. /\ sync' \in [Syncs -> Progress \cup {Idle}]
      /\ sync'[s].at = "saving" /\ SameQuery(sync'[s], sync[s])
      /\ \A t \in Syncs : t # s => sync'[t] = sync[t]
  BY <1>1, <1>2, MovesOn
<1> QED BY <1>1, <1>2, <1>3, <1>4, <1>5

\* Save and Fail
LEMMA Ends ==
  ASSUME TypeOK, NEW s \in Syncs, sync' = [sync EXCEPT ![s] = Idle]
  PROVE  /\ sync' \in [Syncs -> Progress \cup {Idle}]
         /\ sync'[s] = Idle
         /\ \A t \in Syncs : t # s => sync'[t] = sync[t]
BY DEF TypeOK

LEMMA CommitNew ==
  ASSUME TypeOK, Rows, NEW a \in Assets, CommitWrite(a)
  PROVE  /\ writing[a] # 0 /\ writing[a] \in Time
         /\ UNCHANGED <<clock, cache, cursor, sync, lookup>>
         /\ row' \in [Assets -> Row]
         /\ row'[a].version = row[a].version + 1
         /\ row'[a].updatedAt = writing[a]
         /\ row'[a].deletedAt \in {0, writing[a]}
         /\ row[a].deletedAt = 0
         /\ \A b \in Assets : b # a => row'[b] = row[b]
         /\ writing' \in [Assets -> Time] /\ writing'[a] = 0
         /\ \A b \in Assets : b # a => writing'[b] = writing[b]
         /\ calm' = (calm /\ \A s \in Syncs : ~Paging(s))
<1>1. PICK deletedAt \in {0, writing[a]} :
        row' = [row EXCEPT ![a] = [version   |-> row[a].version + 1,
                                   updatedAt |-> writing[a],
                                   deletedAt |-> deletedAt]]
  BY DEF CommitWrite
<1>2. /\ writing[a] # 0
      /\ writing' = [writing EXCEPT ![a] = 0]
      /\ calm' = (calm /\ \A s \in Syncs : ~Paging(s))
      /\ UNCHANGED <<clock, cache, cursor, sync, lookup>>
  BY DEF CommitWrite
<1>3. writing[a] \in Time /\ 0 \in Time
  BY TimeAssumption DEF TypeOK, Time
<1>4. row[a].version + 1 \in Version /\ row[a].deletedAt = 0
  BY <1>2, RowFields, TimeAssumption DEF Rows, Version
<1> DEFINE new == [version   |-> row[a].version + 1, updatedAt |-> writing[a],
                   deletedAt |-> deletedAt]
<1>5. new \in Row
  BY <1>1, <1>3, <1>4 DEF Row
<1>6. /\ row' \in [Assets -> Row] /\ row'[a] = new
      /\ \A b \in Assets : b # a => row'[b] = row[b]
  <2>1. row' = [row EXCEPT ![a] = new]
    BY <1>1
  <2> HIDE DEF new
  <2> QED BY <1>5, <2>1 DEF TypeOK
<1>7. /\ writing' \in [Assets -> Time] /\ writing'[a] = 0
      /\ \A b \in Assets : b # a => writing'[b] = writing[b]
  BY <1>2, <1>3 DEF TypeOK
<1> QED BY <1>1, <1>2, <1>3, <1>4, <1>6, <1>7

\* TypeOK needs Rows: a write that is open has a version left to take.
LEMMA TypesStep ==
  ASSUME TypeOK, Rows, [Next]_vars
  PROVE  TypeOK'
<1>1. CASE Tick
  BY <1>1, TimeAssumption DEF Tick, TypeOK, Time
<1>2. ASSUME NEW a \in Assets, BeginWrite(a) PROVE TypeOK'
  <2>1. writing' \in [Assets -> Time]
    BY <1>2 DEF BeginWrite, TypeOK
  <2> QED BY <1>2, <2>1 DEF BeginWrite, TypeOK
<1>3. ASSUME NEW a \in Assets, CommitWrite(a) PROVE TypeOK'
  <2>1. calm' \in BOOLEAN
    BY <1>3, CommitNew DEF TypeOK
  <2>2. row' \in [Assets -> Row] /\ writing' \in [Assets -> Time]
    BY <1>3, CommitNew
  <2>3. UNCHANGED <<clock, cache, cursor, sync, lookup>>
    BY <1>3, CommitNew
  <2> QED BY <2>1, <2>2, <2>3 DEF TypeOK
<1>4. ASSUME NEW a \in Assets, LookUp(a) PROVE TypeOK'
  <2>1. Live(a) \in Version /\ clock \in Time
    BY RowFields DEF TypeOK
  <2>2. lookup' \in [asset : Assets, version : Version, began : Time]
    BY <1>4, <2>1 DEF LookUp
  <2> QED BY <1>4, <2>2 DEF LookUp, TypeOK
<1>5. ASSUME NEW s \in Syncs, SyncStep(s) PROVE TypeOK'
  <2>1. CASE FirstPage(s)
    <3>1. sync' \in [Syncs -> Progress \cup {Idle}]
      BY <2>1, FirstPageNew
    <3> QED BY <2>1, <3>1 DEF FirstPage, TypeOK
  <2>2. CASE NextPage(s)
    <3>1. sync' \in [Syncs -> Progress \cup {Idle}]
      BY <2>2, NextPageNew
    <3> QED BY <2>2, <3>1 DEF NextPage, TypeOK
  <2>3. CASE Store(s)
    <3>1. sync' \in [Syncs -> Progress \cup {Idle}] /\ cache' \in [Assets -> Version]
      BY <2>3, StoreNew
    <3> QED BY <2>3, <3>1 DEF Store, TypeOK
  <2>4. CASE Remove(s)
    <3>1. sync' \in [Syncs -> Progress \cup {Idle}] /\ cache' \in [Assets -> Version]
      BY <2>4, RemoveNew
    <3> QED BY <2>4, <3>1 DEF Remove, TypeOK
  <2>5. CASE Save(s)
    <3>1. sync' \in [Syncs -> Progress \cup {Idle}]
      BY <2>5, Ends DEF Save
    <3>2. cursor' \in Time
      BY <2>5, SyncFields DEF Save, Busy
    <3> QED BY <2>5, <3>1, <3>2 DEF Save, TypeOK
  <2>6. CASE Fail(s)
    <3>1. sync' \in [Syncs -> Progress \cup {Idle}]
      BY <2>6, Ends DEF Fail
    <3> QED BY <2>6, <3>1 DEF Fail, TypeOK
  <2> QED BY <1>5, <2>1, <2>2, <2>3, <2>4, <2>5, <2>6 DEF SyncStep
<1>6. CASE CacheLookup
  <2>1. lookup.asset \in Assets /\ lookup.version \in Version
    BY <1>6, LookupFields DEF CacheLookup
  <2>2. cache' \in [Assets -> Version]
    BY <1>6, <2>1 DEF CacheLookup, TypeOK
  <2> QED BY <1>6, <2>2 DEF CacheLookup, TypeOK
<1>7. CASE UNCHANGED vars
  BY <1>7 DEF vars, TypeOK
<1> QED BY <1>1, <1>2, <1>3, <1>4, <1>5, <1>6, <1>7 DEF Next

-----------------------------------------------------------------------------
(* Who writes what.                                                         *)

\* What a sync does leaves the register, the clock and the lookup alone.
LEMMA SyncLeaves ==
  ASSUME NEW s \in Syncs, SyncStep(s)
  PROVE  UNCHANGED <<clock, row, writing, lookup, calm>>
BY DEF SyncStep, FirstPage, NextPage, Store, Remove, Save, Fail

\* It leaves the other syncs alone, and its own has begun now, ended, or keeps
\* what it was asked.
LEMMA SyncKeeps ==
  ASSUME TypeOK, NEW s \in Syncs, SyncStep(s)
  PROVE  /\ \A t \in Syncs : t # s => sync'[t] = sync[t]
         /\ \/ sync'[s] = Idle
            \/ sync'[s].at = "paging" /\ sync'[s].until = clock
            \/ Busy(s) /\ SameQuery(sync'[s], sync[s])
<1>1. CASE FirstPage(s)
  <2>1. sync'[s].at = "paging" /\ sync'[s].until = clock
    BY <1>1, FirstPageNew
  <2>2. \A t \in Syncs : t # s => sync'[t] = sync[t]
    BY <1>1, FirstPageNew
  <2> QED BY <2>1, <2>2
<1>2. CASE NextPage(s)
  BY <1>2, NextPageNew DEF Paging, Busy
<1>3. CASE Store(s)
  BY <1>3, StoreNew
<1>4. CASE Remove(s)
  BY <1>4, RemoveNew
<1>5. CASE Save(s)
  BY <1>5, Ends DEF Save
<1>6. CASE Fail(s)
  BY <1>6, Ends DEF Fail
<1> QED BY <1>1, <1>2, <1>3, <1>4, <1>5, <1>6 DEF SyncStep

\* The register, the clock and what it has been asked are the same.
LEMMA SameRows ==
  ASSUME row' = row
  PROVE  /\ \A a : Live(a)' = Live(a)
         /\ \A a, b : Before(a, b)' = Before(a, b)
BY DEF Live, Before

-----------------------------------------------------------------------------
(* One part of the invariant after the other.                               *)

LEMMA TimelyStep ==
  ASSUME TypeOK, Rows, Timely, [Next]_vars
  PROVE  Timely'
<1>0. clock \in Nat /\ MaxLag \in Nat
  BY TimeAssumption DEF TypeOK, Time
<1>1. CASE Tick
  <2>1. /\ \A a \in Assets : writing[a] # 0 => clock < writing[a] + MaxLag
        /\ \A s \in Syncs : Busy(s) => clock < sync[s].until + MaxLag
        /\ lookup # NoLookup => clock < lookup.began + MaxLag
        /\ clock' = clock + 1
        /\ UNCHANGED <<row, writing, cache, cursor, sync, lookup, calm>>
    BY <1>1, SyncFields DEF Tick
  <2>2. \A a \in Assets : writing[a] \in Nat
    BY DEF TypeOK, Time
  <2>3. \A s \in Syncs : Busy(s) => sync[s].until \in Nat
    BY SyncFields DEF Time
  <2>4. lookup # NoLookup => lookup.began \in Nat
    BY LookupFields DEF Time
  <2>5. cursor \in Nat
    BY DEF TypeOK, Time
  <2> QED BY <1>0, <2>1, <2>2, <2>3, <2>4, <2>5 DEF Timely, InTime, Busy
<1>2. ASSUME NEW a \in Assets, BeginWrite(a) PROVE Timely'
  <2>1. \A b \in Assets : writing'[b] = IF b = a THEN clock ELSE writing[b]
    BY <1>2 DEF BeginWrite, TypeOK
  <2>2. UNCHANGED <<clock, row, cache, cursor, sync, lookup, calm>>
    BY <1>2 DEF BeginWrite
  <2> QED BY <1>0, <2>1, <2>2 DEF Timely, InTime, Busy
<1>3. ASSUME NEW a \in Assets, CommitWrite(a) PROVE Timely'
  <2>1. \A b \in Assets : writing'[b] = IF b = a THEN 0 ELSE writing[b]
    BY <1>3, CommitNew
  <2>2. UNCHANGED <<clock, cache, cursor, sync, lookup>>
    BY <1>3, CommitNew
  <2>3. \A b \in Assets : writing'[b] # 0 => InTime(writing'[b])
    BY <2>1 DEF Timely
  <2> QED BY <2>2, <2>3 DEF Timely, InTime, Busy
<1>4. ASSUME NEW a \in Assets, LookUp(a) PROVE Timely'
  <2>1. lookup'.began = clock /\ UNCHANGED <<clock, row, writing, cache, cursor, sync, calm>>
    BY <1>4 DEF LookUp
  <2> QED BY <1>0, <2>1 DEF Timely, InTime, Busy
<1>5. ASSUME NEW s \in Syncs, SyncStep(s) PROVE Timely'
  <2>1. UNCHANGED <<clock, row, writing, lookup, calm>>
    BY <1>5, SyncLeaves
  <2>2. \A t \in Syncs : t # s => sync'[t] = sync[t]
    BY <1>5, SyncKeeps
  <2>4. Busy(s)' => 1 <= sync'[s].until /\ InTime(sync'[s].until)
    BY <1>0, <1>5, SyncKeeps DEF Timely, InTime, Busy, SameQuery, Idle
  <2>5. cursor' \in {cursor} \cup {t \in {sync[s].until} : Busy(s)}
    BY <1>5 DEF SyncStep, FirstPage, NextPage, Store, Remove, Save, Fail, Busy
  <2>6. cursor' <= clock
    BY <2>5 DEF Timely, InTime
  <2>7. \A t \in Syncs : Busy(t)' => 1 <= sync'[t].until /\ InTime(sync'[t].until)
    BY <2>2, <2>4 DEF Timely, Busy
  <2> QED BY <2>1, <2>6, <2>7 DEF Timely, InTime
<1>6. CASE CacheLookup
  BY <1>6 DEF CacheLookup, Timely, InTime, Busy
<1>7. CASE UNCHANGED vars
  BY <1>7 DEF vars, Timely, InTime, Busy
<1> QED BY <1>1, <1>2, <1>3, <1>4, <1>5, <1>6, <1>7 DEF Next

LEMMA RowsStep ==
  ASSUME TypeOK, Rows, Timely, [Next]_vars
  PROVE  Rows'
<1>1. CASE Tick
  BY <1>1 DEF Tick, Rows
<1>2. ASSUME NEW a \in Assets, BeginWrite(a) PROVE Rows'
  <2>1. \A b \in Assets : writing'[b] = IF b = a THEN clock ELSE writing[b]
    BY <1>2 DEF BeginWrite, TypeOK
  <2> QED BY <1>2, <2>1 DEF BeginWrite, Rows
<1>3. ASSUME NEW a \in Assets, CommitWrite(a) PROVE Rows'
  <2>1. /\ writing[a] # 0
        /\ row'[a].version = row[a].version + 1 /\ row'[a].updatedAt = writing[a]
        /\ row'[a].deletedAt \in {0, writing[a]}
        /\ \A b \in Assets : b # a => row'[b] = row[b]
        /\ writing'[a] = 0
        /\ \A b \in Assets : b # a => writing'[b] = writing[b]
    BY <1>3, CommitNew
  <2>2. row[a].version + 1 # 0
    BY RowFields DEF Version
  <2> QED BY <2>1, <2>2 DEF Rows
<1>4. ASSUME NEW a \in Assets, LookUp(a) PROVE Rows'
  BY <1>4 DEF LookUp, Rows
<1>5. ASSUME NEW s \in Syncs, SyncStep(s) PROVE Rows'
  BY <1>5, SyncLeaves DEF Rows
<1>6. CASE CacheLookup
  BY <1>6 DEF CacheLookup, Rows
<1>7. CASE UNCHANGED vars
  BY <1>7 DEF vars, Rows
<1> QED BY <1>1, <1>2, <1>3, <1>4, <1>5, <1>6, <1>7 DEF Next

\* Whatever still carries something else about an asset than its row says began
\* no later than the write that changed the row was open.
LEMMA FetchedStep ==
  ASSUME TypeOK, Rows, Timely, Fetched, [Next]_vars
  PROVE  Fetched'
<1>1. CASE Tick
  BY <1>1 DEF Tick, Fetched, Fresh, Live
<1>2. ASSUME NEW a \in Assets, BeginWrite(a) PROVE Fetched'
  BY <1>2 DEF BeginWrite, Fetched, Fresh, Live
<1>3. ASSUME NEW a \in Assets, CommitWrite(a) PROVE Fetched'
  <2>1. /\ writing[a] # 0 /\ row'[a].updatedAt = writing[a]
        /\ \A b \in Assets : b # a => row'[b] = row[b]
        /\ sync' = sync
    BY <1>3, CommitNew
  <2>2. ASSUME NEW s \in Syncs, sync[s].at = "paging"
        PROVE  sync[s].until <= row'[a].updatedAt + MaxLag
    <3>1. sync[s].until \in Time /\ writing[a] \in Time /\ clock \in Time
      BY <2>2, SyncFields DEF Busy, TypeOK
    <3>2. sync[s].until <= clock /\ clock <= writing[a] + MaxLag
      BY <2>1, <2>2 DEF Timely, InTime, Busy
    <3> QED BY <2>1, <3>1, <3>2, TimeAssumption DEF Time
  <2> QED BY <2>1, <2>2 DEF Fetched, Fresh, Live
<1>4. ASSUME NEW a \in Assets, LookUp(a) PROVE Fetched'
  BY <1>4 DEF LookUp, Fetched, Fresh, Live
<1>5. ASSUME NEW s \in Syncs, SyncStep(s) PROVE Fetched'
  <2>1. row' = row /\ \A t \in Syncs : t # s => sync'[t] = sync[t]
    BY <1>5, SyncLeaves, SyncKeeps
  <2>2. ASSUME sync'[s].at = "paging", NEW a \in Assets, sync'[s].got[a] # 0
        PROVE  Fresh(a, sync'[s].got[a], sync'[s].until)
    <3>1. CASE FirstPage(s)
      <4>1. sync'[s].got =
              Add([b \in Assets |-> 0], OnPage(Changed(sync'[s].since, clock), 1))
        BY <3>1, FirstPageNew
      <4>2. Live(a) # 0 /\ sync'[s].got[a] = row[a].version
        BY <2>2, <4>1 DEF Add, OnPage, Changed
      <4> QED BY <4>2, RowFields DEF Fresh
    <3>2. CASE NextPage(s)
      <4>1. /\ sync'[s].got =
                 Add(sync[s].got, OnPage(Changed(sync[s].since, sync[s].until), sync[s].page + 1))
            /\ sync'[s].until = sync[s].until /\ sync[s].at = "paging"
        BY <3>2, NextPageNew DEF SameQuery, Paging
      <4>2. \/ Live(a) # 0 /\ sync'[s].got[a] = row[a].version
            \/ sync'[s].got[a] = sync[s].got[a]
        BY <4>1 DEF Add, OnPage, Changed
      <4> QED BY <2>2, <4>1, <4>2, RowFields DEF Fresh, Fetched
    <3>3. CASE Store(s)
      BY <2>2, <3>3, StoreNew
    <3>4. CASE Remove(s)
      BY <2>2, <3>4, RemoveNew
    <3>5. CASE Save(s)
      BY <2>2, <3>5, Ends DEF Save, Idle
    <3>6. CASE Fail(s)
      BY <2>2, <3>6, Ends DEF Fail, Idle
    <3> QED BY <1>5, <3>1, <3>2, <3>3, <3>4, <3>5, <3>6 DEF SyncStep
  <2> QED BY <2>1, <2>2 DEF Fetched, Fresh, Live
<1>6. CASE CacheLookup
  BY <1>6 DEF CacheLookup, Fetched, Fresh, Live
<1>7. CASE UNCHANGED vars
  BY <1>7 DEF vars, Fetched, Fresh, Live
<1> QED BY <1>1, <1>2, <1>3, <1>4, <1>5, <1>6, <1>7 DEF Next

LEMMA LookedUpStep ==
  ASSUME TypeOK, Rows, Timely, LookedUp, [Next]_vars
  PROVE  LookedUp'
<1>1. CASE Tick
  BY <1>1 DEF Tick, LookedUp, Fresh, Live
<1>2. ASSUME NEW a \in Assets, BeginWrite(a) PROVE LookedUp'
  BY <1>2 DEF BeginWrite, LookedUp, Fresh, Live
<1>3. ASSUME NEW a \in Assets, CommitWrite(a) PROVE LookedUp'
  <2>1. /\ writing[a] # 0 /\ row'[a].updatedAt = writing[a]
        /\ \A b \in Assets : b # a => row'[b] = row[b]
        /\ lookup' = lookup
    BY <1>3, CommitNew
  <2>2. lookup # NoLookup => lookup.began <= row'[a].updatedAt + MaxLag
    <3>1. HAVE lookup # NoLookup
    <3>2. lookup.began \in Time /\ writing[a] \in Time /\ clock \in Time
      BY <3>1, LookupFields DEF TypeOK
    <3>3. lookup.began <= clock /\ clock <= writing[a] + MaxLag
      BY <2>1, <3>1 DEF Timely, InTime
    <3> QED BY <2>1, <3>2, <3>3, TimeAssumption DEF Time
  <2> QED BY <2>1, <2>2, LookupFields DEF LookedUp, Fresh, Live
<1>4. ASSUME NEW a \in Assets, LookUp(a) PROVE LookedUp'
  BY <1>4 DEF LookUp, LookedUp, Fresh, Live
<1>5. ASSUME NEW s \in Syncs, SyncStep(s) PROVE LookedUp'
  BY <1>5, SyncLeaves DEF LookedUp, Fresh, Live
<1>6. CASE CacheLookup
  BY <1>6 DEF CacheLookup, LookedUp
<1>7. CASE UNCHANGED vars
  BY <1>7 DEF vars, LookedUp, Fresh, Live
<1> QED BY <1>1, <1>2, <1>3, <1>4, <1>5, <1>6, <1>7 DEF Next

LEMMA KindsStep ==
  ASSUME TypeOK, Timely, Kinds, [Next]_vars
  PROVE  Kinds'
<1>1. CASE Tick
  BY <1>1 DEF Tick, Kinds, Busy
<1>2. ASSUME NEW a \in Assets, BeginWrite(a) \/ CommitWrite(a) \/ LookUp(a) PROVE Kinds'
  BY <1>2 DEF BeginWrite, CommitWrite, LookUp, Kinds, Busy
<1>3. ASSUME NEW s \in Syncs, SyncStep(s) PROVE Kinds'
  <2>1. \A t \in Syncs : t # s => sync'[t] = sync[t]
    BY <1>3, SyncKeeps
  <2>2. cursor # 0 => cursor' # 0
    BY <1>3 DEF SyncStep, FirstPage, NextPage, Store, Remove, Save, Fail, Timely, Busy
  <2>3. /\ Busy(s)' /\ ~sync'[s].full => cursor' # 0
        /\ sync'[s].at = "removing" => ~sync'[s].full
        /\ sync'[s].at = "paging" /\ sync'[s].full => sync'[s].since = 0
    <3>1. CASE FirstPage(s)
      BY <2>2, <3>1, FirstPageNew
    <3>2. CASE NextPage(s)
      BY <2>2, <3>2, NextPageNew DEF SameQuery, Paging, Kinds, Busy
    <3>3. CASE Store(s)
      BY <2>2, <3>3, StoreNew DEF SameQuery, Kinds, Busy
    <3>4. CASE Remove(s)
      BY <2>2, <3>4, RemoveNew DEF SameQuery, Kinds, Busy
    <3>5. CASE Save(s)
      BY <3>5, Ends DEF Save, Idle, Busy
    <3>6. CASE Fail(s)
      BY <3>6, Ends DEF Fail, Idle, Busy
    <3> QED BY <1>3, <3>1, <3>2, <3>3, <3>4, <3>5, <3>6 DEF SyncStep
  <2> QED BY <2>1, <2>2, <2>3 DEF Kinds, Busy
<1>4. CASE CacheLookup
  BY <1>4 DEF CacheLookup, Kinds, Busy
<1>5. CASE UNCHANGED vars
  BY <1>5 DEF vars, Kinds, Busy
<1> QED BY <1>1, <1>2, <1>3, <1>4, <1>5 DEF Next

LEMMA UnbornStep ==
  ASSUME TypeOK, Rows, Timely, Unborn, Kinds, [Next]_vars
  PROVE  Unborn'
<1>1. CASE Tick
  BY <1>1 DEF Tick, Unborn
<1>2. ASSUME NEW a \in Assets, BeginWrite(a) PROVE Unborn'
  BY <1>2 DEF BeginWrite, Unborn
<1>3. ASSUME NEW a \in Assets, CommitWrite(a) PROVE Unborn'
  <2>1. /\ row'[a].version = row[a].version + 1
        /\ \A b \in Assets : b # a => row'[b] = row[b]
        /\ UNCHANGED <<cache, cursor, sync, lookup>>
    BY <1>3, CommitNew
  <2>2. row'[a].version # 0
    BY <2>1, RowFields DEF Version
  <2> QED BY <2>1, <2>2 DEF Unborn
<1>4. ASSUME NEW a \in Assets, LookUp(a) PROVE Unborn'
  <2>1. row[a].version # 0 /\ lookup'.asset = a /\ UNCHANGED <<row, cache, cursor, sync>>
    BY <1>4, RowFields DEF LookUp
  <2> QED BY <2>1 DEF Unborn
<1>5. ASSUME NEW s \in Syncs, SyncStep(s) PROVE Unborn'
  <2>1. row' = row /\ lookup' = lookup /\ \A t \in Syncs : t # s => sync'[t] = sync[t]
    BY <1>5, SyncLeaves, SyncKeeps
  <2> SUFFICES ASSUME NEW a \in Assets, row[a].version = 0
               PROVE  /\ sync'[s].at = "paging" => sync'[s].got[a] = 0
                      /\ cache'[a] \in {0, cache[a]}
                      /\ cursor' # 0 => cursor # 0 \/ cache'[a] = 0
                      /\ sync'[s].at \in {"removing", "saving"} => cache'[a] = 0
    BY <2>1 DEF Unborn
  <2>2. Live(a) = 0
    BY RowFields DEF Live, Rows
  <2>3. CASE FirstPage(s)
    <3>1. sync'[s].got =
            Add([b \in Assets |-> 0], OnPage(Changed(sync'[s].since, clock), 1))
      BY <2>3, FirstPageNew
    <3>2. sync'[s].got[a] = 0
      BY <2>2, <3>1 DEF Add, OnPage, Changed
    <3>3. sync'[s].at = "paging" /\ cache' = cache /\ cursor' = cursor
      BY <2>3, FirstPageNew
    <3> QED BY <3>2, <3>3
  <2>4. CASE NextPage(s)
    <3>1. /\ sync'[s].got =
               Add(sync[s].got, OnPage(Changed(sync[s].since, sync[s].until), sync[s].page + 1))
          /\ sync[s].at = "paging"
      BY <2>4, NextPageNew DEF Paging
    <3>2. sync'[s].got[a] = 0
      BY <2>2, <3>1 DEF Add, OnPage, Changed, Unborn
    <3>3. sync'[s].at = "paging" /\ cache' = cache /\ cursor' = cursor
      BY <2>4, NextPageNew
    <3> QED BY <3>2, <3>3
  <2>5. CASE Store(s)
    <3>1. /\ sync[s].at = "paging" /\ cursor' = cursor
          /\ cache'[a] = IF sync[s].full \/ sync[s].got[a] # 0 THEN sync[s].got[a]
                                                               ELSE cache[a]
          /\ sync'[s].at = (IF sync[s].full THEN "saving" ELSE "removing")
      BY <2>5, StoreNew
    <3>2. sync[s].got[a] = 0 /\ (~sync[s].full => cursor # 0)
      BY <3>1 DEF Unborn, Kinds, Busy
    <3>3. cursor # 0 => cache[a] = 0
      BY DEF Unborn
    <3> QED BY <3>1, <3>2, <3>3
  <2>6. CASE Remove(s)
    <3>1. sync[s].at = "removing" /\ cursor' = cursor /\ sync'[s].at = "saving"
      BY <2>6, RemoveNew
    <3>2. cache'[a] = IF a \in sync[s].gone THEN 0 ELSE cache[a]
      BY <2>6, RemoveNew
    <3>3. cache[a] = 0
      BY <3>1 DEF Unborn
    <3> QED BY <3>1, <3>2, <3>3
  <2>7. CASE Save(s)
    <3>1. sync[s].at = "saving" /\ cache' = cache /\ sync'[s] = Idle
      BY <2>7, Ends DEF Save
    <3> QED BY <3>1 DEF Unborn, Idle
  <2>8. CASE Fail(s)
    <3>1. cursor' = cursor /\ cache' = cache /\ sync'[s] = Idle
      BY <2>8, Ends DEF Fail
    <3> QED BY <3>1 DEF Idle
  <2> QED BY <1>5, <2>3, <2>4, <2>5, <2>6, <2>7, <2>8 DEF SyncStep
<1>6. CASE CacheLookup
  <2>1. lookup # NoLookup /\ lookup' = NoLookup /\ UNCHANGED <<row, cursor, sync>>
    BY <1>6 DEF CacheLookup
  <2>2. \A a \in Assets : a # lookup.asset => cache'[a] = cache[a]
    BY <1>6 DEF CacheLookup, TypeOK
  <2> QED BY <2>1, <2>2 DEF Unborn
<1>7. CASE UNCHANGED vars
  BY <1>7 DEF vars, Unborn
<1> QED BY <1>1, <1>2, <1>3, <1>4, <1>5, <1>6, <1>7 DEF Next

LEMMA GoneStep ==
  ASSUME TypeOK, Rows, GoneAreDeleted, [Next]_vars
  PROVE  GoneAreDeleted'
<1>1. CASE Tick
  BY <1>1 DEF Tick, GoneAreDeleted, Busy
<1>2. ASSUME NEW a \in Assets, BeginWrite(a) \/ LookUp(a) PROVE GoneAreDeleted'
  BY <1>2 DEF BeginWrite, LookUp, GoneAreDeleted, Busy
<1>3. ASSUME NEW a \in Assets, CommitWrite(a) PROVE GoneAreDeleted'
  <2>1. row[a].deletedAt = 0 /\ sync' = sync
        /\ \A b \in Assets : b # a => row'[b] = row[b]
    BY <1>3, CommitNew
  <2> QED BY <2>1, SyncFields DEF GoneAreDeleted, Busy
<1>4. ASSUME NEW s \in Syncs, SyncStep(s) PROVE GoneAreDeleted'
  <2>1. row' = row /\ \A t \in Syncs : t # s => sync'[t] = sync[t]
    BY <1>4, SyncLeaves, SyncKeeps
  <2>2. Busy(s)' => \A a \in sync'[s].gone : row[a].deletedAt # 0
    <3>1. CASE FirstPage(s)
      BY <3>1, FirstPageNew DEF Deleted
    <3>2. CASE Idle = sync'[s]
      BY <3>2 DEF Idle, Busy
    <3>3. CASE Busy(s) /\ SameQuery(sync'[s], sync[s])
      BY <3>3 DEF GoneAreDeleted, SameQuery
    <3> QED BY <1>4, <3>1, <3>2, <3>3, NextPageNew, StoreNew, RemoveNew, Ends
            DEF SyncStep, Save, Fail, Paging, Busy
  <2> QED BY <2>1, <2>2 DEF GoneAreDeleted, Busy
<1>5. CASE CacheLookup
  BY <1>5 DEF CacheLookup, GoneAreDeleted, Busy
<1>6. CASE UNCHANGED vars
  BY <1>6 DEF vars, GoneAreDeleted, Busy
<1> QED BY <1>1, <1>2, <1>3, <1>4, <1>5, <1>6 DEF Next

\* No write has committed while this one commits, or the history says so.
LEMMA CommitDisturbs ==
  ASSUME TypeOK, Rows, NEW a \in Assets, CommitWrite(a), calm'
  PROVE  calm /\ \A s \in Syncs : ~Paging(s) /\ ~Paging(s)'
<1>1. sync' = sync /\ calm /\ \A s \in Syncs : ~Paging(s)
  BY CommitNew
<1> QED BY <1>1 DEF Paging

LEMMA CountedStep ==
  ASSUME TypeOK, Rows, Counted, [Next]_vars
  PROVE  Counted'
<1>1. CASE Tick
  BY <1>1 DEF Tick, Counted, Paging, Changed, Live, TotalPages
<1>2. ASSUME NEW a \in Assets, BeginWrite(a) \/ LookUp(a) PROVE Counted'
  BY <1>2 DEF BeginWrite, LookUp, Counted, Paging, Changed, Live, TotalPages
<1>3. ASSUME NEW a \in Assets, CommitWrite(a) PROVE Counted'
  BY <1>3, CommitDisturbs DEF Counted
<1>4. ASSUME NEW s \in Syncs, SyncStep(s) PROVE Counted'
  <2>1. row' = row /\ calm' = calm /\ \A t \in Syncs : t # s => sync'[t] = sync[t]
    BY <1>4, SyncLeaves, SyncKeeps
  <2>2. \A since, until : TotalPages(Changed(since, until))' = TotalPages(Changed(since, until))
    BY <2>1 DEF TotalPages, Changed, Live
  <2>3. calm /\ Paging(s)' =>
          sync'[s].pages = TotalPages(Changed(sync'[s].since, sync'[s].until))
    <3>1. CASE FirstPage(s)
      BY <3>1, FirstPageNew
    <3>2. CASE NextPage(s)
      BY <3>2, NextPageNew DEF Counted, SameQuery
    <3>3. CASE Store(s)
      BY <3>3, StoreNew DEF Paging
    <3>4. CASE Remove(s)
      BY <3>4, RemoveNew DEF Paging
    <3>5. CASE Save(s)
      BY <3>5, Ends DEF Save, Paging, Idle
    <3>6. CASE Fail(s)
      BY <3>6, Ends DEF Fail, Paging, Idle
    <3> QED BY <1>4, <3>1, <3>2, <3>3, <3>4, <3>5, <3>6 DEF SyncStep
  <2>4. \A t \in Syncs : t # s => Paging(t)' = Paging(t)
    BY <2>1 DEF Paging
  <2> QED BY <2>1, <2>2, <2>3, <2>4 DEF Counted
<1>5. CASE CacheLookup
  BY <1>5 DEF CacheLookup, Counted, Paging, Changed, Live, TotalPages
<1>6. CASE UNCHANGED vars
  BY <1>6 DEF vars, Counted, Paging, Changed, Live, TotalPages
<1> QED BY <1>1, <1>2, <1>3, <1>4, <1>5, <1>6 DEF Next

\* The rows that come before an asset are the same while the register is.
LEMMA SameRank ==
  ASSUME row' = row, NEW s \in Syncs, NEW a \in Assets, SameQuery(sync'[s], sync[s])
  PROVE  Rank(s, a)' = Rank(s, a)
BY DEF Rank, Changed, Before, Live, SameQuery

\* A row that is in the delta has been fetched with its page; when there are
\* no more pages, with one of them.
LEMMA HasFetched ==
  ASSUME TypeOK, NEW S \in SUBSET Assets, NEW a \in S, NEW page \in Nat,
         NEW pages \in Nat, pages = TotalPages(S) \/ page < pages,
         page < pages => Cardinality({b \in S : Before(b, a)}) < page * PageSize
  PROVE  Cardinality({b \in S : Before(b, a)}) < page * PageSize
<1> DEFINE rank == Cardinality({b \in S : Before(b, a)})
<1>1. Cardinality(S) \in Nat /\ rank \in Nat /\ rank < Cardinality(S)
  BY FewerBefore
<1>2. ASSUME ~(page < pages) PROVE rank < page * PageSize
  <2>1. TotalPages(S) <= page
    BY <1>2
  <2>2. Cardinality(S) <= page * PageSize
    <3> DEFINE n == Cardinality(S)
    <3>1. (n + PageSize - 1) \div PageSize <= page
      BY <2>1 DEF TotalPages
    <3>2. n \in Nat
      BY <1>1
    <3> HIDE DEF n
    <3>3. n <= page * PageSize
      BY <3>1, <3>2, PagesReach, PageSizeAssumption
    <3> QED BY <3>3 DEF n
  <2>3. page * PageSize \in Nat
    BY PageSizeAssumption
  <2> HIDE DEF rank
  <2> QED BY <1>1, <2>2, <2>3
<1> QED BY <1>2

\* Adding a page leaves what is right, and puts right what is on it.
LEMMA AddRight ==
  ASSUME TypeOK, NEW S \in SUBSET Assets, NEW a \in S, row[a].deletedAt = 0,
         NEW page \in Nat, NEW got \in [Assets -> Version],
         Cardinality({b \in S : Before(b, a)}) < (page + 1) * PageSize,
         Cardinality({b \in S : Before(b, a)}) < page * PageSize => got[a] = Live(a)
  PROVE  Add(got, OnPage(S, page + 1))[a] = Live(a)
<1> DEFINE rank == Cardinality({b \in S : Before(b, a)})
<1>1. rank \in Nat
  BY FewerBefore
<1>2. Live(a) = row[a].version
  BY DEF Live
<1>3. CASE rank < page * PageSize
  BY <1>2, <1>3 DEF Add
<1>4. CASE ~(rank < page * PageSize)
  <2>1. (page + 1) - 1 = page
    OBVIOUS
  <2>2. page * PageSize \in Nat
    BY PageSizeAssumption
  <2>3. page * PageSize <= rank
    <3> HIDE DEF rank
    <3> QED BY <1>1, <1>4, <2>2
  <2>4. a \in OnPage(S, page + 1)
    BY <2>1, <2>3 DEF OnPage
  <2> QED BY <1>2, <2>4 DEF Add
<1> QED BY <1>3, <1>4

LEMMA CoveredStep ==
  ASSUME TypeOK, Rows, Timely, Counted, Covered, [Next]_vars
  PROVE  Covered'
<1>1. ASSUME UNCHANGED <<row, sync, calm>> PROVE Covered'
  <2>1. \A s \in Syncs, a \in Assets : Rank(s, a)' = Rank(s, a)
    BY <1>1, SameRank DEF SameQuery
  <2> QED BY <1>1, <2>1 DEF Covered, Has, Paging, Window, In, Live
<1>2. ASSUME NEW a \in Assets, CommitWrite(a) PROVE Covered'
  <2> SUFFICES ASSUME NEW s \in Syncs, sync'[s].at = "paging", NEW b \in Assets, calm',
                      row'[b].version # 0, row'[b].deletedAt = 0,
                      row'[b].updatedAt + MaxLag < sync'[s].until, Window(s, b)'
               PROVE  Has(s, b)'
    BY DEF Covered
  <2>1. /\ sync' = sync /\ row'[a].updatedAt = writing[a] /\ writing[a] # 0
        /\ \A c \in Assets : c # a => row'[c] = row[c]
    BY <1>2, CommitNew
  <2>2. calm /\ ~Paging(s) /\ ~Paging(s)'
    BY <1>2, CommitDisturbs
  <2>3. b # a
    <3>1. sync[s].until \in Time /\ writing[a] \in Time /\ clock \in Time
      BY <2>1, SyncFields DEF Busy, TypeOK
    <3>2. sync[s].until <= clock /\ clock <= writing[a] + MaxLag
      BY <2>1 DEF Timely, InTime, Busy
    <3> QED BY <2>1, <3>1, <3>2, TimeAssumption DEF Time
  <2>4. sync[s].got[b] = Live(b)
    BY <2>1, <2>2, <2>3 DEF Covered, Has, Window, In
  <2> QED BY <2>1, <2>2, <2>3, <2>4 DEF Has, Live
<1>3. ASSUME NEW s \in Syncs, SyncStep(s) PROVE Covered'
  <2>1. row' = row /\ calm' = calm /\ \A t \in Syncs : t # s => sync'[t] = sync[t]
    BY <1>3, SyncLeaves, SyncKeeps
  <2>2. \A b : Live(b)' = Live(b)
    BY <2>1 DEF Live
  <2>3. ASSUME NEW t \in Syncs, t # s, NEW a \in Assets
        PROVE  Has(t, a)' = Has(t, a)
    <3>1. sync'[t] = sync[t]
      BY <2>1, <2>3
    <3>2. Rank(t, a)' = Rank(t, a)
      BY <2>1, <3>1, SameRank DEF SameQuery
    <3> QED BY <2>2, <3>1, <3>2 DEF Has, Paging
  <2>4. ASSUME sync'[s].at = "paging", NEW a \in Assets, calm,
               row[a].version # 0, row[a].deletedAt = 0,
               row[a].updatedAt + MaxLag < sync'[s].until,
               In(row[a].updatedAt, sync'[s].since, sync'[s].until)
        PROVE  Has(s, a)'
    <3> DEFINE S == Changed(sync'[s].since, sync'[s].until)
    <3>1. S \in SUBSET Assets /\ a \in S
      BY <2>4 DEF Changed, Live
    <3>2. Rank(s, a)' = Cardinality({b \in S : Before(b, a)})
      BY <2>1 DEF Rank, Changed, Before, Live
    <3> SUFFICES ASSUME Paging(s)' => Rank(s, a)' < sync'[s].page * PageSize
                 PROVE  sync'[s].got[a] = Live(a)
      BY <2>2 DEF Has
    <3>3. CASE FirstPage(s)
      <4>1. /\ sync'[s].page = 1 /\ sync'[s].pages = TotalPages(S)
            /\ sync'[s].got = Add([b \in Assets |-> 0], OnPage(S, 1))
        BY <3>3, FirstPageNew
      <4>2. Cardinality({b \in S : Before(b, a)}) < 1 * PageSize
        <5>1. TotalPages(S) \in Nat
          BY <3>1, TotalType
        <5>2. 1 < TotalPages(S) =>
                Cardinality({b \in S : Before(b, a)}) < 1 * PageSize
          BY <2>4, <3>2, <4>1 DEF Paging
        <5> HIDE DEF S
        <5> QED BY <3>1, <5>1, <5>2, HasFetched
      <4>3. [b \in Assets |-> 0] \in [Assets -> Version]
        BY TimeAssumption DEF Version
      <4>4. Add([b \in Assets |-> 0], OnPage(S, 0 + 1))[a] = Live(a)
        <5>1. Cardinality({b \in S : Before(b, a)}) < (0 + 1) * PageSize
          BY <4>2
        <5>2. ~(Cardinality({b \in S : Before(b, a)}) < 0 * PageSize)
          <6>1. Cardinality({b \in S : Before(b, a)}) \in Nat
            BY <3>1, FewerBefore
          <6> QED BY <6>1, PageSizeAssumption
        <5> HIDE DEF S
        <5> QED BY <2>4, <3>1, <4>3, <5>1, <5>2, AddRight
      <4> QED BY <4>1, <4>4
    <3>4. CASE NextPage(s)
      <4>1. /\ sync[s].at = "paging" /\ Paging(s) /\ SameQuery(sync'[s], sync[s])
            /\ sync'[s].page = sync[s].page + 1
            /\ sync'[s].got = Add(sync[s].got, OnPage(S, sync[s].page + 1))
        BY <3>4, NextPageNew DEF Paging, SameQuery
      <4>2. /\ sync[s].page \in Nat /\ sync[s].pages \in Nat
            /\ sync[s].got \in [Assets -> Version]
        BY <4>1, SyncFields DEF Busy
      <4>3. sync[s].pages = TotalPages(S)
        BY <2>4, <4>1 DEF Counted, SameQuery
      <4>4. Cardinality({b \in S : Before(b, a)}) < (sync[s].page + 1) * PageSize
        <5>1. sync[s].page + 1 < sync[s].pages =>
                Cardinality({b \in S : Before(b, a)}) < (sync[s].page + 1) * PageSize
          BY <2>4, <3>2, <4>1 DEF Paging, SameQuery
        <5>2. sync[s].page + 1 \in Nat
          BY <4>2
        <5> HIDE DEF S
        <5> QED BY <3>1, <4>2, <4>3, <5>1, <5>2, HasFetched
      <4>5. Cardinality({b \in S : Before(b, a)}) < sync[s].page * PageSize
              => sync[s].got[a] = Live(a)
        <5>1. Rank(s, a) = Cardinality({b \in S : Before(b, a)})
          BY <4>1 DEF Rank, SameQuery
        <5>2. Has(s, a)
          BY <2>4, <4>1 DEF Covered, Window, SameQuery
        <5> QED BY <4>1, <5>1, <5>2 DEF Has
      <4>6. Add(sync[s].got, OnPage(S, sync[s].page + 1))[a] = Live(a)
        <5> HIDE DEF S
        <5> QED BY <2>4, <3>1, <4>2, <4>4, <4>5, AddRight
      <4> QED BY <4>1, <4>6
    <3>5. CASE Store(s)
      BY <2>4, <3>5, StoreNew
    <3>6. CASE Remove(s)
      BY <2>4, <3>6, RemoveNew
    <3>7. CASE Save(s)
      BY <2>4, <3>7, Ends DEF Save, Idle
    <3>8. CASE Fail(s)
      BY <2>4, <3>8, Ends DEF Fail, Idle
    <3> QED BY <1>3, <3>3, <3>4, <3>5, <3>6, <3>7, <3>8 DEF SyncStep
  <2> SUFFICES ASSUME NEW t \in Syncs, sync'[t].at = "paging", NEW a \in Assets, calm',
                      row'[a].version # 0, row'[a].deletedAt = 0,
                      row'[a].updatedAt + MaxLag < sync'[t].until, Window(t, a)'
               PROVE  Has(t, a)'
    BY DEF Covered
  <2>5. CASE t = s
    BY <2>1, <2>4, <2>5 DEF Window
  <2>6. CASE t # s
    <3>1. sync'[t] = sync[t] /\ Has(t, a)' = Has(t, a)
      BY <2>1, <2>3, <2>6
    <3> QED BY <2>1, <3>1 DEF Covered, Window, In
  <2> QED BY <2>5, <2>6
<1> QED BY <1>1, <1>2, <1>3
        DEF Next, Tick, BeginWrite, LookUp, CacheLookup, vars

\* The argument about time: what is known of an asset that is older than the
\* overlap is what its row says now.
LEMMA OldIsRight ==
  ASSUME TypeOK, NEW a \in Assets, NEW time \in Int, Old(a, time), time <= clock,
         NEW began \in Time, InTime(began), NEW version, Fresh(a, version, began)
  PROVE  version = Live(a)
<1>1. row[a].updatedAt \in Time /\ clock \in Time
  BY RowFields DEF TypeOK
<1>2. ~(began <= row[a].updatedAt + MaxLag)
  BY <1>1, TimeAssumption, LagAssumption DEF Old, InTime, Time
<1> QED BY <1>2 DEF Fresh

\* What is put in the cache of an asset that old leaves it right.
LEMMA StaysRight ==
  ASSUME row' = row, calm' = calm, NEW a \in Assets, Right(a),
         cache'[a] = cache[a] \/ cache'[a] = Live(a)
  PROVE  Right(a)'
BY DEF Right, Live

\* A sync that writes the cache right about all that is old, and carries on with
\* what it was asked, keeps what the others rely on.
LEMMA OthersStored ==
  ASSUME TypeOK, Timely, Stored, NEW s \in Syncs, row' = row, calm' = calm,
         \A t \in Syncs : t # s => sync'[t] = sync[t],
         NEW a \in Assets,
         \A time \in Int : Old(a, time) /\ time <= clock /\ Right(a) => Right(a)',
         NEW t \in Syncs, t # s, Old(a, sync[t].until)
  PROVE  /\ sync[t].at = "paging" =>
              /\ ~Window(t, a) => Right(a)'
              /\ Window(t, a) /\ row[a].deletedAt # 0 => a \in sync[t].gone
         /\ sync[t].at = "removing" => Right(a)' \/ a \in sync[t].gone
         /\ sync[t].at = "saving" => Right(a)'
<1>1. Busy(t) => sync[t].until \in Int /\ sync[t].until <= clock
  BY SyncFields, TimeAssumption DEF Timely, InTime, Time
<1>2. Busy(t) /\ Right(a) => Right(a)'
  BY <1>1
<1>3. sync[t].at \in {"paging", "removing", "saving"} => Busy(t)
  BY DEF Busy
<1> QED BY <1>2, <1>3 DEF Stored

LEMMA StoredSyncStep ==
  ASSUME DeltaInv, NEW s \in Syncs, SyncStep(s)
  PROVE  Stored'
<1> USE DEF DeltaInv
<1>1. row' = row /\ calm' = calm /\ clock' = clock /\ \A t \in Syncs : t # s => sync'[t] = sync[t]
  BY SyncLeaves, SyncKeeps
<1>2. clock \in Nat /\ cursor \in Int /\ cursor <= clock
  BY TimeAssumption DEF TypeOK, Time, Timely
\* Whatever it writes about an asset that old is right.
<1>3. ASSUME NEW a \in Assets, NEW time \in Int, Old(a, time), time <= clock
      PROVE  Right(a) => Right(a)'
  <2>1. CASE Store(s)
    <3>1. /\ sync[s].at = "paging" /\ Busy(s)
          /\ cache'[a] = IF sync[s].full \/ sync[s].got[a] # 0 THEN sync[s].got[a]
                                                               ELSE cache[a]
      BY <2>1, StoreNew
    <3>2. sync[s].until \in Time /\ InTime(sync[s].until)
      BY <3>1, SyncFields DEF Timely
    <3>3. sync[s].got[a] # 0 => sync[s].got[a] = Live(a)
      BY <1>3, <3>1, <3>2, OldIsRight DEF Fetched
    <3>4. CASE sync[s].got[a] # 0
      BY <1>1, <3>1, <3>3, <3>4, StaysRight
    <3>5. CASE sync[s].got[a] = 0 /\ ~sync[s].full
      BY <1>1, <3>1, <3>5, StaysRight
    <3>6. CASE sync[s].got[a] = 0 /\ sync[s].full
      <4>1. CASE row[a].deletedAt # 0
        BY <1>1, <3>1, <3>6, <4>1 DEF Right, Live
      <4>2. CASE row[a].deletedAt = 0 /\ ~calm
        BY <1>1, <4>2 DEF Right
      <4>3. CASE row[a].deletedAt = 0 /\ calm
        <5>1. row[a].updatedAt \in Time /\ row[a].version # 0 /\ row[a].updatedAt # 0
          BY <1>3, RowFields DEF Old, Rows
        <5>2. row[a].updatedAt + MaxLag < sync[s].until
          BY <1>2, <1>3, <3>2, <5>1, TimeAssumption, LagAssumption DEF Old, InTime, Time
        <5>3. sync[s].since = 0
          BY <3>1, <3>6 DEF Kinds
        <5>4. Window(s, a)
          BY <3>2, <5>1, <5>2, <5>3, TimeAssumption DEF Window, In, Time
        <5>5. ~Paging(s)
          BY <2>1, StoreNew
        <5>6. sync[s].got[a] = Live(a)
          BY <3>1, <4>3, <5>1, <5>2, <5>4, <5>5 DEF Covered, Has
        <5> QED BY <1>1, <3>1, <3>6, <5>6, StaysRight
      <4> QED BY <4>1, <4>2, <4>3
    <3> QED BY <3>4, <3>5, <3>6
  <2>2. CASE Remove(s)
    <3>1. /\ Busy(s)
          /\ cache'[a] = IF a \in sync[s].gone THEN 0 ELSE cache[a]
      BY <2>2, RemoveNew
    <3>2. a \in sync[s].gone => Live(a) = 0
      BY <3>1 DEF GoneAreDeleted, Live
    <3> QED BY <1>1, <3>1, <3>2, StaysRight
  <2>3. CASE cache' = cache
    BY <1>1, <2>3, StaysRight
  <2> QED BY <2>1, <2>2, <2>3 DEF SyncStep, FirstPage, NextPage, Save, Fail
\* The sync itself
<1>4. ASSUME NEW a \in Assets, Old(a, sync'[s].until)
      PROVE  /\ sync'[s].at = "paging" =>
                  /\ ~In(row[a].updatedAt, sync'[s].since, sync'[s].until) => Right(a)'
                  /\ In(row[a].updatedAt, sync'[s].since, sync'[s].until)
                       /\ row[a].deletedAt # 0 => a \in sync'[s].gone
             /\ sync'[s].at = "removing" => Right(a)' \/ a \in sync'[s].gone
             /\ sync'[s].at = "saving" => Right(a)'
  <2>0. row[a].updatedAt \in Time /\ row[a].version # 0 /\ row[a].updatedAt # 0
    BY <1>4, RowFields DEF Old, Rows
  <2>1. CASE FirstPage(s)
    <3>1. /\ sync'[s].at = "paging" /\ sync'[s].until = clock
          /\ sync'[s].since = (IF sync'[s].full THEN 0 ELSE cursor - Overlap)
          /\ cursor = 0 => sync'[s].full
          /\ sync'[s].gone = Deleted(sync'[s].since, clock)
          /\ cache' = cache
      BY <2>1, FirstPageNew
    <3>2. Right(a) => Right(a)'
      BY <1>1, <3>1, StaysRight
    <3>3. ~In(row[a].updatedAt, sync'[s].since, clock) => Right(a)
      <4>1. HAVE ~In(row[a].updatedAt, sync'[s].since, clock)
      <4>2. row[a].updatedAt <= clock - Overlap
        BY <1>4, <3>1 DEF Old
      <4>3. row[a].updatedAt <= sync'[s].since
        <5>1. sync'[s].since \in Int
          BY <1>2, <3>1, TimeAssumption
        <5>2. row[a].updatedAt <= clock
          BY <1>2, <2>0, <4>2, TimeAssumption DEF Time
        <5> QED BY <2>0, <4>1, <5>1, <5>2 DEF In, Time
      <4>4. ~sync'[s].full
        BY <2>0, <3>1, <4>3 DEF Time
      <4>5. Old(a, cursor)
        BY <1>4, <3>1, <4>3, <4>4 DEF Old
      <4> QED BY <3>1, <4>4, <4>5 DEF Stored
    <3>4. In(row[a].updatedAt, sync'[s].since, clock) /\ row[a].deletedAt # 0
            => a \in sync'[s].gone
      BY <3>1 DEF Deleted, Rows
    <3> QED BY <3>1, <3>2, <3>3, <3>4
  <2>2. CASE NextPage(s)
    <3>1. /\ Paging(s) /\ SameQuery(sync'[s], sync[s]) /\ sync'[s].at = "paging"
          /\ cache' = cache
      BY <2>2, NextPageNew
    <3>2. Right(a) => Right(a)'
      BY <1>1, <3>1, StaysRight
    <3>3. Old(a, sync[s].until) /\ sync[s].at = "paging"
      BY <1>4, <3>1 DEF SameQuery, Paging
    <3>4. /\ ~Window(s, a) => Right(a)
          /\ Window(s, a) /\ row[a].deletedAt # 0 => a \in sync[s].gone
      BY <3>3 DEF Stored
    <3> QED BY <3>1, <3>2, <3>4 DEF SameQuery, Window
  <2>3. CASE Store(s)
    <3>1. /\ sync[s].at = "paging" /\ Busy(s) /\ ~Paging(s)
          /\ cache'[a] = IF sync[s].full \/ sync[s].got[a] # 0 THEN sync[s].got[a]
                                                               ELSE cache[a]
          /\ sync'[s].at = (IF sync[s].full THEN "saving" ELSE "removing")
          /\ SameQuery(sync'[s], sync[s])
      BY <2>3, StoreNew
    <3>2. Old(a, sync[s].until)
      BY <1>4, <3>1 DEF SameQuery
    <3>3. sync[s].until \in Time /\ InTime(sync[s].until)
      BY <3>1, SyncFields DEF Timely
    <3>4. sync[s].until \in Int /\ sync[s].until <= clock
      BY <3>3, TimeAssumption DEF Time, InTime
    <3>5. Right(a) => Right(a)'
      BY <1>3, <3>2, <3>4
    <3>6. /\ ~Window(s, a) => Right(a)
          /\ Window(s, a) /\ row[a].deletedAt # 0 => a \in sync[s].gone
      BY <3>1, <3>2 DEF Stored
    <3>7. CASE ~Window(s, a)
      BY <3>1, <3>5, <3>6, <3>7
    <3>8. CASE Window(s, a) /\ row[a].deletedAt # 0
      <4>1. a \in sync'[s].gone
        BY <3>1, <3>6, <3>8 DEF SameQuery
      <4>2. sync[s].got[a] # 0 => sync[s].got[a] = Live(a)
        BY <3>1, <3>2, <3>3, <3>4, OldIsRight DEF Fetched
      <4>3. sync[s].full => cache'[a] = 0
        BY <3>1, <3>8, <4>2 DEF Live
      <4>4. sync[s].full => Right(a)'
        BY <1>1, <3>8, <4>3 DEF Right, Live
      <4> QED BY <3>1, <4>1, <4>4
    <3>9. CASE Window(s, a) /\ row[a].deletedAt = 0
      <4>1. Right(a)'
        <5>1. CASE ~calm
          BY <1>1, <3>9, <5>1 DEF Right
        <5>2. CASE calm
          <6>1. row[a].updatedAt + MaxLag < sync[s].until
            BY <2>0, <3>2, <3>3, TimeAssumption, LagAssumption DEF Old, Time
          <6>2. sync[s].got[a] = Live(a)
            BY <2>0, <3>1, <3>9, <5>2, <6>1 DEF Covered, Has
          <6>3. Live(a) # 0
            BY <2>0, <3>9 DEF Live
          <6>4. cache'[a] = Live(a)
            BY <3>1, <6>2, <6>3
          <6> QED BY <1>1, <6>4 DEF Right, Live
        <5> QED BY <5>1, <5>2
      <4> QED BY <3>1, <4>1
    <3> QED BY <3>7, <3>8, <3>9
  <2>4. CASE Remove(s)
    <3>1. /\ sync[s].at = "removing" /\ Busy(s) /\ sync'[s].at = "saving"
          /\ SameQuery(sync'[s], sync[s])
          /\ cache'[a] = IF a \in sync[s].gone THEN 0 ELSE cache[a]
      BY <2>4, RemoveNew
    <3>2. Old(a, sync[s].until)
      BY <1>4, <3>1 DEF SameQuery
    <3>3. Right(a) \/ a \in sync[s].gone
      BY <3>1, <3>2 DEF Stored
    <3>4. CASE a \in sync[s].gone
      <4>1. Live(a) = 0
        BY <3>1, <3>4 DEF GoneAreDeleted, Live
      <4> QED BY <1>1, <3>1, <3>4, <4>1 DEF Right, Live
    <3>5. CASE a \notin sync[s].gone
      BY <1>1, <3>1, <3>3, <3>5, StaysRight
    <3> QED BY <3>1, <3>4, <3>5
  <2>5. CASE Save(s)
    BY <2>5, Ends DEF Save, Idle
  <2>6. CASE Fail(s)
    BY <2>6, Ends DEF Fail, Idle
  <2> QED BY <2>1, <2>2, <2>3, <2>4, <2>5, <2>6 DEF SyncStep
\* The cursor
<1>5. ASSUME cursor' # 0, NEW a \in Assets, Old(a, cursor')
      PROVE  Right(a)'
  <2>1. CASE Save(s)
    <3>1. sync[s].at = "saving" /\ cursor' = sync[s].until /\ cache' = cache
      BY <2>1 DEF Save
    <3>2. Right(a)
      BY <1>5, <3>1 DEF Stored
    <3> QED BY <1>1, <3>1, <3>2, StaysRight
  <2>2. CASE cursor' = cursor
    <3>1. Right(a)
      BY <1>5, <2>2 DEF Stored
    <3> QED BY <1>2, <1>3, <1>5, <2>2, <3>1
  <2> QED BY <2>1, <2>2 DEF SyncStep, FirstPage, NextPage, Store, Remove, Fail
<1>6. ASSUME NEW t \in Syncs, NEW a \in Assets, Old(a, sync'[t].until), t # s
      PROVE  /\ sync'[t].at = "paging" =>
                  /\ ~In(row[a].updatedAt, sync'[t].since, sync'[t].until) => Right(a)'
                  /\ In(row[a].updatedAt, sync'[t].since, sync'[t].until)
                       /\ row[a].deletedAt # 0 => a \in sync'[t].gone
             /\ sync'[t].at = "removing" => Right(a)' \/ a \in sync'[t].gone
             /\ sync'[t].at = "saving" => Right(a)'
  <2>1. sync'[t] = sync[t]
    BY <1>1, <1>6
  <2>2. Old(a, sync[t].until)
    BY <1>6, <2>1
  <2>3. \A time \in Int : Old(a, time) /\ time <= clock /\ Right(a) => Right(a)'
    BY <1>3
  <2> QED BY <1>1, <1>6, <2>1, <2>2, <2>3, OthersStored DEF Window
<1> QED BY <1>1, <1>4, <1>5, <1>6 DEF Stored, Old, Window

LEMMA StoredStep ==
  ASSUME DeltaInv, [Next]_vars
  PROVE  Stored'
<1> USE DEF DeltaInv
<1>1. CASE Tick
  BY <1>1 DEF Tick, Stored, Old, Window, In, Right, Live
<1>2. ASSUME NEW a \in Assets, BeginWrite(a) \/ LookUp(a) PROVE Stored'
  BY <1>2 DEF BeginWrite, LookUp, Stored, Old, Window, In, Right, Live
<1>3. ASSUME NEW a \in Assets, CommitWrite(a) PROVE Stored'
  <2>1. /\ writing[a] # 0 /\ row'[a].updatedAt = writing[a]
        /\ \A b \in Assets : b # a => row'[b] = row[b]
        /\ UNCHANGED <<clock, cache, cursor, sync>>
        /\ calm' => calm
    BY <1>3, CommitNew
  <2>2. writing[a] \in Time /\ clock \in Time /\ cursor \in Time /\ cursor <= clock
    BY DEF TypeOK, Timely
  <2>3. ASSUME NEW time \in Time, time <= clock PROVE ~Old(a, time)'
    <3>1. clock <= writing[a] + MaxLag
      BY <2>1 DEF Timely, InTime
    <3> QED BY <2>1, <2>2, <2>3, <3>1, TimeAssumption, LagAssumption DEF Old, Time
  <2>4. \A b \in Assets : b # a /\ Right(b) => Right(b)'
    BY <2>1 DEF Right, Live
  <2>5. ~Old(a, cursor)'
    <3>1. ~(row'[a].version # 0 /\ row'[a].updatedAt <= cursor - Overlap)
      BY <2>2, <2>3 DEF Old
    <3> QED BY <2>1, <3>1 DEF Old
  <2>6. \A s \in Syncs : Busy(s) => ~Old(a, sync[s].until)'
    <3> SUFFICES ASSUME NEW s \in Syncs, Busy(s)
                 PROVE  ~(row'[a].version # 0 /\ row'[a].updatedAt <= sync[s].until - Overlap)
      BY <2>1 DEF Old
    <3>1. sync[s].until \in Time /\ sync[s].until <= clock
      BY SyncFields DEF Timely, InTime
    <3> QED BY <2>3, <3>1 DEF Old
  <2>7. \A b \in Assets : b # a =>
          /\ Old(b, cursor)' = Old(b, cursor)
          /\ \A s \in Syncs : Old(b, sync[s].until)' = Old(b, sync[s].until)
          /\ \A s \in Syncs : Window(s, b)' = Window(s, b)
    BY <2>1 DEF Old, Window, In
  <2>8. \A s \in Syncs : sync[s].at \in {"paging", "removing", "saving"} => Busy(s)
    BY DEF Busy
  <2> QED BY <2>1, <2>4, <2>5, <2>6, <2>7, <2>8 DEF Stored
<1>4. ASSUME NEW s \in Syncs, SyncStep(s) PROVE Stored'
  BY <1>4, StoredSyncStep
<1>5. CASE CacheLookup
  <2>1. /\ lookup # NoLookup
        /\ UNCHANGED <<clock, row, cursor, sync, calm>>
        /\ lookup.asset \in Assets /\ lookup.began \in Time
        /\ \A a \in Assets :
             cache'[a] = IF a = lookup.asset THEN lookup.version ELSE cache[a]
    BY <1>5, LookupFields DEF CacheLookup, TypeOK
  <2>2. InTime(lookup.began) /\ Fresh(lookup.asset, lookup.version, lookup.began)
    BY <2>1 DEF Timely, LookedUp
  <2>3. ASSUME NEW a \in Assets, NEW time \in Int, Old(a, time), time <= clock, Right(a)
        PROVE  Right(a)'
    <3>1. CASE a = lookup.asset
      <4>1. lookup.version = Live(a)
        BY <2>1, <2>2, <2>3, <3>1, OldIsRight
      <4> QED BY <2>1, <2>3, <3>1, <4>1, StaysRight
    <3>2. CASE a # lookup.asset
      BY <2>1, <2>3, <3>2, StaysRight
    <3> QED BY <3>1, <3>2
  <2>4. cursor \in Int /\ cursor <= clock
    BY TimeAssumption DEF TypeOK, Time, Timely
  <2>5. \A s \in Syncs : Busy(s) => sync[s].until \in Int /\ sync[s].until <= clock
    BY SyncFields, TimeAssumption DEF Timely, InTime, Time
  <2>6. \A s \in Syncs : sync[s].at \in {"paging", "removing", "saving"} => Busy(s)
    BY DEF Busy
  <2>7. \A a \in Assets : cursor # 0 /\ Old(a, cursor) => Right(a)'
    BY <2>3, <2>4 DEF Stored
  <2>8. ASSUME NEW s \in Syncs, NEW a \in Assets, Old(a, sync[s].until)
        PROVE  /\ sync[s].at = "paging" =>
                    /\ ~Window(s, a) => Right(a)'
                    /\ Window(s, a) /\ row[a].deletedAt # 0 => a \in sync[s].gone
               /\ sync[s].at = "removing" => Right(a)' \/ a \in sync[s].gone
               /\ sync[s].at = "saving" => Right(a)'
    <3>1. Busy(s) /\ Right(a) => Right(a)'
      BY <2>3, <2>5, <2>8
    <3> QED BY <2>6, <2>8, <3>1 DEF Stored
  <2> QED BY <2>1, <2>7, <2>8 DEF Stored, Old, Window, In
<1>6. CASE UNCHANGED vars
  BY <1>6 DEF vars, Stored, Old, Window, In, Right, Live
<1> QED BY <1>1, <1>2, <1>3, <1>4, <1>5, <1>6 DEF Next

-----------------------------------------------------------------------------

LEMMA DeltaInit == Init => DeltaInv
<1> SUFFICES ASSUME Init PROVE DeltaInv
  OBVIOUS
<1>1. TypeOK
  BY InitTypes
<1>2. /\ clock = 1 /\ cursor = 0 /\ lookup = NoLookup
      /\ \A s \in Syncs : sync[s].at = "idle"
      /\ \A a \in Assets : writing[a] = 0
      /\ \A a \in Assets : row[a].deletedAt = 0 /\ row[a].updatedAt = row[a].version
  BY DEF Init, Idle
<1>3. Timely /\ Rows /\ Fetched /\ LookedUp /\ Kinds
  BY <1>2 DEF Timely, Rows, Fetched, LookedUp, Kinds, Busy
<1>4. Unborn /\ GoneAreDeleted /\ Counted /\ Covered /\ Stored
  BY <1>2 DEF Unborn, GoneAreDeleted, Counted, Covered, Stored, Busy, Paging
<1> QED BY <1>1, <1>3, <1>4 DEF DeltaInv

LEMMA DeltaStep == DeltaInv /\ [Next]_vars => DeltaInv'
BY TypesStep, TimelyStep, RowsStep, FetchedStep, LookedUpStep, UnbornStep,
   KindsStep, GoneStep, CountedStep, CoveredStep, StoredStep DEF DeltaInv

LEMMA DeltaAlways == Spec => []DeltaInv
BY DeltaInit, DeltaStep, PTL DEF Spec

\* The cache, the cursor and every sync stay within their types, however many
\* assets there are and syncs run at once.
THEOREM TypeCorrect == Spec => []TypeOK
<1>1. DeltaInv => TypeOK
  BY DEF DeltaInv
<1> QED BY <1>1, DeltaAlways, PTL

\* An asset that was deleted before the overlap of the last completed sync is
\* not in the cache of the device, whatever was read of it before and stored
\* after: by another sync, or by the lookup of its tag.
THEOREM DeletedLeave == Spec => []DeletedAssetsLeave
<1>1. ASSUME DeltaInv, NEW a \in Assets, row[a].deletedAt # 0, Settled(row[a].deletedAt)
      PROVE  cache[a] = 0
  <2>1. row[a].deletedAt = row[a].updatedAt /\ row[a].version # 0
    BY <1>1 DEF DeltaInv, Rows
  <2>2. Right(a)
    BY <1>1, <2>1 DEF DeltaInv, Stored, Settled, Old
  <2> QED BY <1>1, <2>2 DEF Right, Live
<1>2. DeltaInv => DeletedAssetsLeave
  BY <1>1 DEF DeletedAssetsLeave
<1> QED BY <1>2, DeltaAlways, PTL

\* As long as no write has committed between two pages of a sync, the cache is
\* right about every asset that has not changed since the overlap of the last
\* completed sync: syncs that cross, lookups and open transactions lose nothing.
THEOREM CalmCurrent == Spec => []CalmCacheIsCurrent
<1>1. ASSUME DeltaInv, calm, NEW a \in Assets, Settled(row[a].updatedAt)
      PROVE  cache[a] = Live(a)
  <2>1. CASE row[a].version = 0
    BY <1>1, <2>1 DEF DeltaInv, Unborn, Rows, Live, Settled
  <2>2. CASE row[a].version # 0
    BY <1>1, <2>2 DEF DeltaInv, Stored, Settled, Old, Right
  <2> QED BY <2>1, <2>2
<1>2. DeltaInv => CalmCacheIsCurrent
  BY <1>1 DEF CalmCacheIsCurrent, CacheIsCurrent
<1> QED BY <1>2, DeltaAlways, PTL
=============================================================================
