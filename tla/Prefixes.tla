------------------------------ MODULE Prefixes ------------------------------
(***************************************************************************)
(* The GS1 company prefixes of a tenant and of another that may claim the  *)
(* same numbers, and the GIAI of one asset of the first: active prefix and *)
(* asset reference, which a trigger of the database writes whenever the    *)
(* asset is written.  A GIAI that was ever on an asset may be on its       *)
(* label, and has to stay recognisable.                                    *)
(***************************************************************************)
EXTENDS Handlers, Sequences

CONSTANTS
  Numbers,     \* company prefixes that GS1 has licensed
  MaxPrefixes  \* bound: rows of tenant_gs1_prefixes

ASSUME PrefixesAssumption == MaxPrefixes \in Nat

VARIABLES
  prefixes,    \* the rows, in order of creation
  marked,      \* the asset, and the row its GIAI is under, 0 for no GIAI
  historic,    \* the numbers of the GIAIs it keeps as secondary identifiers
  preReq,      \* per request: what it has read and will write
  \* history
  shown,       \* the row of every GIAI the asset has had
  late         \* the asset was created over an activation

preVars == <<prefixes, marked, historic, preReq, shown, late>>

-----------------------------------------------------------------------------
Owner      == "a"
Holders    == {Owner, "b"}
PrefixRow  == [holder : Holders, number : Numbers,
               status : {"PENDING", "ACTIVE", "SUPERSEDED", "WITHDRAWN"}]
PrefixIds  == DOMAIN prefixes
PreIdle    == [at |-> "idle"]
PreStates  ==
  {PreIdle} \cup [at : {"activate", "withdraw"}, id : 1..MaxPrefixes]

Absent   == [state |-> "absent", row |-> 0]
Stored(i) == [state |-> "stored", row |-> i]

PreInit ==
  /\ prefixes = <<>>
  /\ marked = Absent
  /\ historic = {} /\ shown = {} /\ late = FALSE
  /\ preReq = [r \in Requests |-> PreIdle]

PreSet(r, state) == preReq' = [preReq EXCEPT ![r] = state]

\* ux_prefix_global: pending and active rows hold their number.
Claimed(n) == \E i \in PrefixIds : prefixes[i].number = n /\ prefixes[i].status \in {"PENDING", "ACTIVE"}

ActiveRows(h) == {i \in PrefixIds : prefixes[i].holder = h /\ prefixes[i].status = "ACTIVE"}

\* asset_sync_giai: the active prefix of the tenant, or none.
SyncRow == IF ActiveRows(Owner) = {} THEN 0 ELSE CHOOSE i \in ActiveRows(Owner) : TRUE

GiaiNow(i) == {i} \ {0}

-----------------------------------------------------------------------------
\* createPrefix looks whether the number is held; the index asks again.
CreatePrefix ==
  \E h \in Holders, n \in Numbers :
    /\ ~Claimed(n) /\ Len(prefixes) < MaxPrefixes
    /\ prefixes' = Append(prefixes, [holder |-> h, number |-> n, status |-> "PENDING"])
    /\ UNCHANGED <<marked, historic, preReq, shown, late>>

\* activatePrefix and withdrawPrefix want a row that is pending.
FindPending(r) ==
  /\ preReq[r] = PreIdle
  /\ \E i \in PrefixIds, at \in {"activate", "withdraw"} :
       prefixes[i].status = "PENDING" /\ PreSet(r, [at |-> at, id |-> i])
  /\ UNCHANGED <<prefixes, marked, historic, shown, late>>

\* Mutant: the assets are recomputed first.
PreservedAfter(i) == {prefixes[i].number}

\* What is preserved when row i is activated: the GIAI before the trigger
\* overwrites it.
Preserved(i) == {prefixes[j].number : j \in GiaiNow(marked.row)}

\* activate_tenant_prefix, one transaction: the GIAIs of the tenant's assets are
\* preserved, the active row is superseded, this one activated if it is still
\* pending (else nothing happens), and every asset that is there recomputed.
ActivatePrefix(r) ==
  LET i == preReq[r].id
      h == prefixes[i].holder
  IN /\ preReq[r].at = "activate"
     /\ IF prefixes[i].status = "PENDING"
        THEN /\ prefixes' = [j \in PrefixIds |->
                  IF j = i THEN [prefixes[j] EXCEPT !.status = "ACTIVE"]
                  ELSE IF j \in ActiveRows(h) THEN [prefixes[j] EXCEPT !.status = "SUPERSEDED"]
                  ELSE prefixes[j]]
             /\ IF h = Owner /\ marked.state = "stored"
                THEN /\ marked' = Stored(i)
                     /\ historic' = historic \cup Preserved(i)
                     /\ shown' = shown \cup {i}
                ELSE UNCHANGED <<marked, historic, shown>>
        ELSE UNCHANGED <<prefixes, marked, historic, shown>>
     /\ PreSet(r, PreIdle)
     /\ UNCHANGED late

\* withdrawPrefix writes by id, whatever the row has become.
WithdrawPrefix(r) ==
  /\ preReq[r].at = "withdraw"
  /\ prefixes' = [prefixes EXCEPT ![preReq[r].id].status = "WITHDRAWN"]
  /\ PreSet(r, PreIdle)
  /\ UNCHANGED <<marked, historic, shown, late>>

-----------------------------------------------------------------------------
\* An asset with a reference is created: the trigger sees the rows that are
\* committed, and an activation does not see the asset until it is ...
InsertAsset ==
  /\ marked = Absent
  /\ marked' = [state |-> "inserting", row |-> SyncRow]
  /\ UNCHANGED <<prefixes, historic, preReq, shown, late>>

\* ... committed.
CommitAsset ==
  /\ marked.state = "inserting"
  /\ marked' = Stored(marked.row)
  /\ shown' = shown \cup GiaiNow(marked.row)
  /\ late' = (marked.row # SyncRow)
  /\ UNCHANGED <<prefixes, historic, preReq>>

\* Any later write of the asset.
TouchAsset ==
  /\ marked.state = "stored"
  /\ marked' = Stored(SyncRow)
  /\ shown' = shown \cup GiaiNow(SyncRow)
  /\ UNCHANGED <<prefixes, historic, preReq, late>>

PreNext ==
  \/ CreatePrefix
  \/ \E r \in Requests : FindPending(r) \/ ActivatePrefix(r) \/ WithdrawPrefix(r)
  \/ InsertAsset \/ CommitAsset \/ TouchAsset

-----------------------------------------------------------------------------
PreTypeOK ==
  /\ prefixes \in Seq(PrefixRow) /\ Len(prefixes) <= MaxPrefixes
  /\ marked \in [state : {"absent", "inserting", "stored"}, row : 0..MaxPrefixes]
  /\ historic \subseteq Numbers
  /\ preReq \in [Requests -> PreStates]
  /\ shown \subseteq PrefixIds
  /\ late \in BOOLEAN

\* Through claims, activations, supersessions and edits in any order: a GIAI the
\* asset has had is the one it has or is kept as a historic one, and the one it
\* has is under the active prefix of its tenant, whose number nobody else holds;
\* unless the prefix was withdrawn by a request that had looked before it was
\* activated, or the asset was created over an activation.
GiaisAreKept ==
  LET withdrawn == {i \in PrefixIds : prefixes[i].status = "WITHDRAWN"} IN
  ~late =>
    /\ \A i \in shown \ withdrawn : i = marked.row \/ prefixes[i].number \in historic
    /\ marked.state = "stored" /\ marked.row \notin withdrawn \cup {0} =>
         /\ ActiveRows(Owner) = {marked.row}
         /\ \A i \in PrefixIds \ {marked.row} :
              prefixes[i].number = prefixes[marked.row].number =>
                prefixes[i].status \in {"SUPERSEDED", "WITHDRAWN"}
=============================================================================
