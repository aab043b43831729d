----------------------------- MODULE AssetDelta -----------------------------
(***************************************************************************)
(* The asset cache of the Android app and the delta sync that fills it     *)
(* (AssetDeltaSync.kt, listAssetChanges in asset.service.ts).              *)
(*                                                                         *)
(* A sync asks for the assets changed in (since, until], page by page with *)
(* SKIP and TAKE, and every page is a query of its own on the register as  *)
(* it is by then.  Nothing keeps two syncs apart: every change of a search *)
(* or sort field launches one.  Looking up a scanned tag writes to the     *)
(* cache as well.                                                          *)
(*                                                                         *)
(* updatedAt and deletedAt are stamped when a write is issued, and the row *)
(* is seen when it commits, which is later.  Nothing in the code bounds    *)
(* how long a transaction, a lookup or a sync takes: MaxLag does here.     *)
(***************************************************************************)
EXTENDS Integers, FiniteSets

CONSTANTS
  Assets,       \* ids, in their order
  Syncs,        \* the syncs that can be in progress at once
  PageSize,
  Overlap,      \* OVERLAP_MS
  MaxLag,       \* how long a transaction, a lookup or a sync takes at most
  MaxTime,      \* bounds the clock
  MaxVersion    \* bounds the edits of an asset

ASSUME AssetsAssumption == Assets \subseteq Nat /\ IsFiniteSet(Assets)
ASSUME PageSizeAssumption == PageSize \in Nat \ {0}
ASSUME TimeAssumption ==
  Overlap \in Nat /\ MaxLag \in Nat /\ MaxTime \in Nat \ {0} /\ MaxVersion \in Nat \ {0}
\* The overlap is for a transaction that is open while a sync reads and is
\* overtaken by the next one: two minutes are more than both take.
ASSUME LagAssumption == 2 * MaxLag < Overlap

VARIABLES
  clock,        \* the server's time; 0 is before everything
  row,          \* the committed asset rows: version, updatedAt, deletedAt
  writing,      \* the stamp of the open transaction on each row, or 0
  cache,        \* the version of each asset the device has cached, 0 for none
  cursor,       \* serverTime of the last completed sync, or 0
  sync,         \* what each sync is doing and what it has fetched
  lookup,       \* the answer of a tag lookup that is not cached yet
  calm          \* history: no write has committed while a sync was paging

vars == <<clock, row, writing, cache, cursor, sync, lookup, calm>>

Time    == 0 .. MaxTime
Version == 0 .. MaxVersion
Row     == [version : Version, updatedAt : Time, deletedAt : Time]
Idle    == [at |-> "idle"]

\* pages: page 1's totalPages; page: the last one fetched; got: what they held
Progress ==
  [at : {"paging", "removing", "saving"}, full : BOOLEAN, since : -Overlap .. MaxTime,
   until : Time, pages : Nat, page : Nat \ {0}, got : [Assets -> Version],
   gone : SUBSET Assets]
NoLookup == [asset |-> -1, version |-> 0, began |-> 0]

TypeOK ==
  /\ clock \in Time
  /\ row \in [Assets -> Row]
  /\ writing \in [Assets -> Time]
  /\ cache \in [Assets -> Version]
  /\ cursor \in Time
  /\ sync \in [Syncs -> Progress \cup {Idle}]
  /\ lookup \in [asset : Assets, version : Version, began : Time] \cup {NoLookup}
  /\ calm \in BOOLEAN

\* Some assets are registered.  The cache may still hold what was there before
\* there was a cursor for this tenant: another tenant's assets, old versions.
Init ==
  /\ clock = 1
  /\ row \in [Assets -> {[version |-> v, updatedAt |-> v, deletedAt |-> 0] : v \in {0, 1}}]
  /\ writing = [a \in Assets |-> 0]
  /\ cache \in [Assets -> {0, 1}]
  /\ cursor = 0
  /\ sync = [s \in Syncs |-> Idle]
  /\ lookup = NoLookup
  /\ calm = TRUE

-----------------------------------------------------------------------------
(* The register.                                                            *)

\* The version of an asset a reader of the register can see, 0 for none
Live(a) == IF row[a].deletedAt = 0 THEN row[a].version ELSE 0

Paging(s) == sync[s].at = "paging" /\ sync[s].page < sync[s].pages

Tick ==
  /\ clock < MaxTime
  /\ \A a \in Assets : writing[a] # 0 => clock < writing[a] + MaxLag
  /\ \A s \in Syncs : sync[s] # Idle => clock < sync[s].until + MaxLag
  /\ lookup # NoLookup => clock < lookup.began + MaxLag
  /\ clock' = clock + 1
  /\ UNCHANGED <<row, writing, cache, cursor, sync, lookup, calm>>

\* create, update or delete of an asset takes its stamp ...
BeginWrite(a) ==
  /\ writing[a] = 0
  /\ row[a].deletedAt = 0
  /\ row[a].version < MaxVersion
  /\ writing' = [writing EXCEPT ![a] = clock]
  /\ UNCHANGED <<clock, row, cache, cursor, sync, lookup, calm>>

\* ... and commits.
CommitWrite(a) ==
  /\ writing[a] # 0
  /\ \E deletedAt \in IF row[a].version = 0 THEN {0} ELSE {0, writing[a]} :
       row' = [row EXCEPT ![a] = [version   |-> row[a].version + 1,
                                  updatedAt |-> writing[a],
                                  deletedAt |-> deletedAt]]
  /\ writing' = [writing EXCEPT ![a] = 0]
  /\ calm' = (calm /\ \A s \in Syncs : ~Paging(s))
  /\ UNCHANGED <<clock, cache, cursor, sync, lookup>>

-----------------------------------------------------------------------------
(* listAssetChanges                                                         *)

In(time, since, until) == since < time /\ time <= until

\* Mutant of Changed: createdAt, so only an asset's first version counts.
ChangedNew(since, until) ==
  {a \in Assets : Live(a) = 1 /\ In(row[a].updatedAt, since, until)}

Changed(since, until) ==
  {a \in Assets : Live(a) # 0 /\ In(row[a].updatedAt, since, until)}

\* Mutant of Deleted: the ids of assets that still live.
DeletedNone(since, until) ==
  {a \in Assets : row[a].deletedAt # 0 /\ In(row[a].updatedAt, until, until)}

Deleted(since, until) ==
  {a \in Assets : row[a].deletedAt # 0 /\ In(row[a].deletedAt, since, until)}

\* orderBy updatedAt, id
Before(a, b) ==
  \/ row[a].updatedAt < row[b].updatedAt
  \/ row[a].updatedAt = row[b].updatedAt /\ a < b

\* skip (page - 1) * PageSize, take PageSize
OnPage(S, page) ==
  {a \in S : LET skipped == Cardinality({b \in S : Before(b, a)})
             IN  (page - 1) * PageSize <= skipped /\ skipped < page * PageSize}

TotalPages(S) == (Cardinality(S) + PageSize - 1) \div PageSize

Add(got, S) == [a \in Assets |-> IF a \in S THEN row[a].version ELSE got[a]]

-----------------------------------------------------------------------------
(* AssetDeltaSync.sync                                                      *)

\* Mutant of FirstPage: the delta starts where the last sync ended.
FirstPageNoOverlap(s) ==
  /\ sync[s] = Idle
  /\ \E full \in BOOLEAN :
       LET since   == IF full THEN 0 ELSE cursor
           changed == Changed(since, clock)
       IN  /\ cursor = 0 => full
           /\ sync' = [sync EXCEPT ![s] =
                [at |-> "paging", full |-> full, since |-> since, until |-> clock,
                 pages |-> TotalPages(changed), page |-> 1,
                 got |-> Add([a \in Assets |-> 0], OnPage(changed, 1)),
                 gone |-> Deleted(since, clock)]]
  /\ UNCHANGED <<clock, row, writing, cache, cursor, lookup, calm>>

\* A full sync if there is no cursor for the tenant, or the last one was a day
\* ago; otherwise the changes since the cursor, less the overlap.
FirstPage(s) ==
  /\ sync[s] = Idle
  /\ \E full \in BOOLEAN :
       LET since   == IF full THEN 0 ELSE cursor - Overlap
           changed == Changed(since, clock)
       IN  /\ cursor = 0 => full
           /\ sync' = [sync EXCEPT ![s] =
                [at |-> "paging", full |-> full, since |-> since, until |-> clock,
                 pages |-> TotalPages(changed), page |-> 1,
                 got |-> Add([a \in Assets |-> 0], OnPage(changed, 1)),
                 gone |-> Deleted(since, clock)]]
  /\ UNCHANGED <<clock, row, writing, cache, cursor, lookup, calm>>

NextPage(s) ==
  /\ Paging(s)
  /\ LET p == sync[s].page + 1
     IN  sync' = [sync EXCEPT
           ![s].page = p,
           ![s].got  = Add(@, OnPage(Changed(sync[s].since, sync[s].until), p))]
  /\ UNCHANGED <<clock, row, writing, cache, cursor, lookup, calm>>

\* replaceAll, or upsertAll
Store(s) ==
  /\ sync[s].at = "paging" /\ ~Paging(s)
  /\ LET new == sync[s].got
     IN  cache' = IF sync[s].full THEN new
                  ELSE [a \in Assets |-> IF new[a] # 0 THEN new[a] ELSE cache[a]]
  /\ sync' = [sync EXCEPT ![s].at = IF sync[s].full THEN "saving" ELSE "removing"]
  /\ UNCHANGED <<clock, row, writing, cursor, lookup, calm>>

\* deleteByIds
Remove(s) ==
  /\ sync[s].at = "removing"
  /\ cache' = [a \in Assets |-> IF a \in sync[s].gone THEN 0 ELSE cache[a]]
  /\ sync' = [sync EXCEPT ![s].at = "saving"]
  /\ UNCHANGED <<clock, row, writing, cursor, lookup, calm>>

\* Mutant of Save: the time of the device, whose clock is ahead.
SaveDeviceTime(s) ==
  /\ sync[s].at = "saving"
  /\ cursor' = MaxTime + 1
  /\ sync' = [sync EXCEPT ![s] = Idle]
  /\ UNCHANGED <<clock, row, writing, cache, lookup, calm>>

\* The cursor is saved last.
Save(s) ==
  /\ sync[s].at = "saving"
  /\ cursor' = sync[s].until
  /\ sync' = [sync EXCEPT ![s] = Idle]
  /\ UNCHANGED <<clock, row, writing, cache, lookup, calm>>

\* The connection is lost, or the process dies between two writes.
Fail(s) ==
  /\ sync[s] # Idle
  /\ sync' = [sync EXCEPT ![s] = Idle]
  /\ UNCHANGED <<clock, row, writing, cache, cursor, lookup, calm>>

-----------------------------------------------------------------------------
(* lookupByTag, lookupByEpc and a filtered refresh: what the server answered *)
(* is put in the cache.                                                      *)

LookUp(a) ==
  /\ lookup = NoLookup
  /\ Live(a) # 0
  /\ lookup' = [asset |-> a, version |-> Live(a), began |-> clock]
  /\ UNCHANGED <<clock, row, writing, cache, cursor, sync, calm>>

CacheLookup ==
  /\ lookup # NoLookup
  /\ cache' = [cache EXCEPT ![lookup.asset] = lookup.version]
  /\ lookup' = NoLookup
  /\ UNCHANGED <<clock, row, writing, cursor, sync, calm>>

-----------------------------------------------------------------------------

SyncStep(s) ==
  FirstPage(s) \/ NextPage(s) \/ Store(s) \/ Remove(s) \/ Save(s) \/ Fail(s)

Next ==
  \/ Tick
  \/ \E a \in Assets : BeginWrite(a) \/ CommitWrite(a) \/ LookUp(a)
  \/ \E s \in Syncs : SyncStep(s)
  \/ CacheLookup

Spec == Init /\ [][Next]_vars

-----------------------------------------------------------------------------
(* Properties.                                                              *)

\* The next delta asks for what has changed after this.
Settled(time) == cursor # 0 /\ time <= cursor - Overlap

\* What the next delta will not ask for again is right in the cache.
CacheIsCurrent == \A a \in Assets : Settled(row[a].updatedAt) => cache[a] = Live(a)

\* Whatever overlaps, syncs, tag lookups and open transactions, the cache is
\* right about everything older than the cursor less the overlap, as long as
\* the register was left alone while a sync was between two of its pages.
CalmCacheIsCurrent == calm => CacheIsCurrent

\* An asset deleted before then is not in the cache, even if the register
\* changed during the paging: page 1 has all the deleted ids.
DeletedAssetsLeave ==
  \A a \in Assets :
    row[a].deletedAt # 0 /\ Settled(row[a].deletedAt) => cache[a] = 0

\* "an asset edited mid-sync falls outside the window (and arrives in the next
\* delta) instead of pushing another asset off a page boundary"
\* (AssetChangesParams.until): changes during the paging lose nothing.
PagingLosesNothing == CacheIsCurrent
=============================================================================
