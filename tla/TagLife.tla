------------------------------ MODULE TagLife ------------------------------
(***************************************************************************)
(* The RFID tags of a tenant: commissioned for an asset, verified by the   *)
(* device that wrote them and thereby bound to it, permalocked, retired.   *)
(* What a handler has done to a bound tag it then tells the asset's log of *)
(* events, a chain each of whose rows names the one before; a row that     *)
(* cannot be written is only logged. The number of an asset and its first  *)
(* reference are in Identifiers, a change of the tenant's prefix in        *)
(* Prefixes; its mode may change here at any time. What the row says of    *)
(* the tag's locks (a device may send what it has read of them), the copy  *)
(* of the EPC in the asset's row, the events other handlers tell and the   *)
(* deletion of assets are left out.                                        *)
(***************************************************************************)
EXTENDS Handlers

CONSTANTS
  Chips,      \* the tags, by the TID their maker gave them
  TagAssets,  \* assets they are put on
  MaxDeeds    \* bound: changes to be told

ASSUME TagLifeAssumption == MaxDeeds \in Nat

VARIABLES
  tagRow,     \* rfid_tags
  binding,    \* the open binding of a tag: none or one
  eventLog,   \* asset_events
  tagReq,     \* per request: what it has read and will write
  \* history
  deeds,      \* changes to be told so far
  missing,    \* those that nothing will tell any more
  raced,      \* tags a request wrote that had changed since it read them
  locks,      \* tags permalockTag has allowed to be locked for good
  remade      \* those of them that were commissioned again

tagVars == <<tagRow, binding, eventLog, tagReq, deeds, missing, raced, locks, remade>>

-----------------------------------------------------------------------------
\* chooseEpc: the GIAI of the asset, or the TID of the tag.
Giai(a) == <<"GIAI96", a>>
Tid(t)  == <<"TID96", t>>
Epcs    == {Giai(a) : a \in TagAssets} \cup {Tid(t) : t \in Chips}

NoTag  == [state |-> "none"]
TagRow == [state : {"COMMISSIONED", "QUARANTINED", "RETIRED"}, epc : Epcs,
           verified : BOOLEAN, retired : BOOLEAN]
NewTag(epc, verified) ==
  [state |-> "COMMISSIONED", epc |-> epc, verified |-> verified, retired |-> FALSE]

Bindings == [asset : TagAssets, deed : 0..MaxDeeds]

TagIdle == [at |-> "idle"]
TagWork ==
  [at : {"binding", "write"}, op : {"commission", "verify", "permalock", "retire"},
   chip : Chips, of : SUBSET TagAssets, row : {NoTag} \cup TagRow, bound : SUBSET Bindings, over : BOOLEAN]
Telling == [at : {"tell"}, asset : TagAssets, deed : 1..MaxDeeds]
Chaining == [at : {"chain"}, asset : TagAssets, deed : 1..MaxDeeds, seq : Nat, prev : 0..MaxDeeds]

\* A tag may have been bound before, and told so.
TagInit ==
  /\ binding \in [Chips -> {{}} \cup {{[asset |-> a, deed |-> 0]} : a \in TagAssets}]
  /\ \E epc \in [Chips -> Epcs] :
       /\ \A t \in Chips : epc[t] = Tid(t) \/ \E b \in binding[t] : epc[t] = Giai(b.asset)
       /\ \A t, u \in Chips : epc[t] = epc[u] => t = u
       /\ tagRow = [t \in Chips |-> IF binding[t] = {} THEN NoTag ELSE NewTag(epc[t], TRUE)]
  /\ eventLog = [a \in TagAssets |-> {}]
  /\ tagReq = [r \in Requests |-> TagIdle]
  /\ deeds = 0 /\ missing = {} /\ raced = {} /\ locks = {} /\ remade = {}

TagGoes(r, c) == tagReq' = [tagReq EXCEPT ![r] = c]

Unwritten == UNCHANGED <<tagRow, binding, eventLog, deeds, missing, raced, locks, remade>>

-----------------------------------------------------------------------------
\* The row of the tag.  A tag nobody knows is not found, except by its first
\* commissioning; a verification does not ask what the tag is bound to.
FindTag(r, op, t, of) ==
  /\ tagReq[r] = TagIdle
  /\ tagRow[t] # NoTag \/ op = "commission"
  /\ TagGoes(r, [at |-> IF tagRow[t] = NoTag \/ op = "verify" THEN "write" ELSE "binding",
                 op |-> op, chip |-> t, of |-> of, row |-> tagRow[t], bound |-> {}, over |-> FALSE])
  /\ Unwritten

\* commissionTag: not a tag of another asset, not a retired one.
Commissionable(c, open) == (\A b \in open : b.asset \in c.of) /\ c.row.state # "RETIRED"

\* permalockAllowed; the mode, the age of the verification and the state of the
\* asset may also stand in the way.
Lockable(c) == c.row.verified

\* The open binding of the tag; permalockTag and retireTag learn the asset from it.
FindBinding(r) ==
  /\ tagReq[r].at = "binding"
  /\ LET c == tagReq[r]
         open == binding[c.chip]
         its == {b.asset : b \in open}
         decided(of, bound) == TagGoes(r, [at |-> "write", op |-> c.op, chip |-> c.chip, of |-> of,
                                           row |-> NoTag, bound |-> bound, over |-> c.over])
     IN \/ c.op = "commission" /\ Commissionable(c, open) /\ decided(c.of, {})
        \/ c.op = "commission" /\ ~Commissionable(c, open) /\ TagGoes(r, TagIdle)
        \/ c.op = "retire" /\ decided(its, open)
        \/ c.op = "permalock" /\ Lockable(c) /\ decided(its, {})
        \/ c.op = "permalock" /\ TagGoes(r, TagIdle)
  /\ Unwritten

-----------------------------------------------------------------------------
\* The write of a request that has read the tag before; what the others have read
\* of it is then old.  Of a tag that has an asset the change is told.
Outdated(c, t) ==
  IF c.at \in {"binding", "write"} /\ c.chip = t THEN [c EXCEPT !.over = TRUE] ELSE c
Wrote(r, next) ==
  LET c == tagReq[r] IN
  /\ raced' = IF c.over THEN raced \cup {c.chip} ELSE raced
  /\ tagReq' = [q \in Requests |-> IF q = r THEN next ELSE Outdated(tagReq[q], c.chip)]
Owes(r) ==
  \/ tagReq[r].of = {} /\ Wrote(r, TagIdle) /\ UNCHANGED deeds
  \/ \E a \in tagReq[r].of :
       /\ deeds < MaxDeeds /\ deeds' = deeds + 1
       /\ Wrote(r, [at |-> "tell", asset |-> a, deed |-> deeds'])

Doing(r, op) == tagReq[r].at = "write" /\ tagReq[r].op = op

\* ux_tag_epc_active: an EPC is on one tag that is not retired.
EpcFree(t, epc) ==
  \/ tagRow[t] # NoTag /\ tagRow[t].retired
  \/ \A u \in Chips \ {t} : tagRow[u] # NoTag => tagRow[u].retired \/ tagRow[u].epc # epc

\* commissionTag: the row is made or made anew.
UpsertTag(r, epc) ==
  LET t == tagReq[r].chip IN
  /\ Doing(r, "commission") /\ EpcFree(t, epc)
  /\ epc = Tid(t) \/ \E a \in tagReq[r].of : epc = Giai(a)
  /\ tagRow' = [tagRow EXCEPT ![t] =
       IF @ = NoTag THEN NewTag(epc, FALSE)
       ELSE [@ EXCEPT !.state = "COMMISSIONED", !.epc = epc, !.verified = FALSE]]
  /\ remade' = IF t \in locks THEN remade \cup {t} ELSE remade
  /\ Owes(r) /\ UNCHANGED <<binding, locks, eventLog, missing>>

\* verifyTag.  The device sends the EPC it was given for the asset.
Matches(c) == c.row.epc = Tid(c.chip) \/ \E a \in c.of : c.row.epc = Giai(a)

\* ux_binding_tag_active: a tag that is bound cannot be bound again.
BindTag(r) ==
  LET c == tagReq[r] IN
  /\ Doing(r, "verify") /\ Matches(c) /\ binding[c.chip] = {}
  /\ tagRow' = [tagRow EXCEPT ![c.chip].state = "COMMISSIONED", ![c.chip].verified = TRUE]
  /\ binding' = [binding EXCEPT ![c.chip] = {[asset |-> a, deed |-> deeds + 1] : a \in c.of}]
  /\ Owes(r) /\ UNCHANGED <<locks, remade, eventLog, missing>>

\* Another EPC or another TID was read: nothing is told.
Quarantine(r) ==
  LET c == tagReq[r] IN
  /\ Doing(r, "verify")
  /\ tagRow' = [tagRow EXCEPT ![c.chip].state = "QUARANTINED"]
  /\ Wrote(r, TagIdle) /\ UNCHANGED <<binding, eventLog, deeds, missing, locks, remade>>

\* The device may lock the tag for good.
Permalock(r) ==
  /\ Doing(r, "permalock")
  /\ locks' = locks \cup {tagReq[r].chip}
  /\ Owes(r) /\ UNCHANGED <<tagRow, binding, remade, eventLog, missing>>

\* retireTag closes the binding it has read, by its id.
Retire(r) ==
  LET c == tagReq[r] IN
  /\ Doing(r, "retire")
  /\ tagRow' = [tagRow EXCEPT ![c.chip].state = "RETIRED", ![c.chip].retired = TRUE]
  /\ binding' = [binding EXCEPT ![c.chip] = @ \ c.bound]
  /\ Owes(r) /\ UNCHANGED <<locks, remade, eventLog, missing>>

-----------------------------------------------------------------------------
\* recordAssetEvent.  The trigger asset_event_chain looks for the last event ...
FindLast(r) ==
  LET c == tagReq[r]
      follow(seq, prev) == TagGoes(r, [at |-> "chain", asset |-> c.asset, deed |-> c.deed,
                                       seq |-> seq, prev |-> prev])
  IN /\ c.at = "tell"
     /\ \/ eventLog[c.asset] = {} /\ follow(1, 0)
        \/ \E e \in eventLog[c.asset] :
             (\A f \in eventLog[c.asset] : f.seq <= e.seq) /\ follow(e.seq + 1, e.deed)
     /\ Unwritten

\* ... and the row is inserted, unless there is one of its number by now.
SeqTaken(c) == \E e \in eventLog[c.asset] : e.seq = c.seq
InsertEvent(r) ==
  LET c == tagReq[r] IN
  /\ c.at = "chain"
  /\ IF SeqTaken(c)
     THEN missing' = missing \cup {c.deed} /\ UNCHANGED eventLog
     ELSE /\ eventLog' = [eventLog EXCEPT ![c.asset] = @ \cup {[seq |-> c.seq, prev |-> c.prev, deed |-> c.deed]}]
          /\ UNCHANGED missing
  /\ TagGoes(r, TagIdle)
  /\ UNCHANGED <<tagRow, binding, deeds, raced, locks, remade>>

\* A replica that stops, a query that fails, an index that refuses a row.
Abandon(r) ==
  /\ tagReq[r] # TagIdle
  /\ missing' = missing \cup (IF tagReq[r].at \in {"tell", "chain"} THEN {tagReq[r].deed} ELSE {})
  /\ TagGoes(r, TagIdle)
  /\ UNCHANGED <<tagRow, binding, eventLog, deeds, raced, locks, remade>>

TagNext ==
  \E r \in Requests :
    \/ \E t \in Chips :
         \/ \E a \in TagAssets : FindTag(r, "commission", t, {a}) \/ FindTag(r, "verify", t, {a})
         \/ FindTag(r, "permalock", t, {}) \/ FindTag(r, "retire", t, {})
    \/ FindBinding(r)
    \/ \E epc \in Epcs : UpsertTag(r, epc)
    \/ BindTag(r) \/ Quarantine(r) \/ Permalock(r) \/ Retire(r)
    \/ FindLast(r) \/ InsertEvent(r) \/ Abandon(r)

-----------------------------------------------------------------------------
TagTypeOK ==
  /\ tagRow \in [Chips -> {NoTag} \cup TagRow]
  /\ binding \in [Chips -> SUBSET Bindings]
  /\ eventLog \in [TagAssets -> SUBSET [seq : Nat, prev : 0..MaxDeeds, deed : 1..MaxDeeds]]
  /\ tagReq \in [Requests -> {TagIdle} \cup TagWork \cup Telling \cup Chaining]
  /\ deeds \in 0..MaxDeeds /\ missing \subseteq 1..MaxDeeds
  /\ raced \subseteq Chips /\ locks \subseteq Chips /\ remade \subseteq Chips

\* A tag that carries the number of an asset is bound to no other, and a retired one
\* to none, unless a request wrote the tag after somebody else had since it looked.
BoundAsEncoded ==
  \A t \in Chips \ raced : \A b \in binding[t] :
    /\ tagRow[t] # NoTag /\ tagRow[t].state # "RETIRED"
    /\ tagRow[t].epc \in {Giai(b.asset), Tid(t)}

\* A tag that may be locked for good was verified with what it carries, unless
\* requests raced or it was commissioned again since.
LocksAreEarned ==
  \A t \in locks \ raced :
    tagRow[t] # NoTag /\ (tagRow[t].verified \/ t \in remade)

\* verifyAssetEventChain has never anything to report: no two events of an asset
\* have one number, and each names the one before it.
ChainIsWhole ==
  \A a \in TagAssets : \A e \in eventLog[a] :
    /\ \A f \in eventLog[a] : f.seq = e.seq => f = e
    /\ (e.seq = 1 /\ e.prev = 0) \/ \E d \in eventLog[a] : d.seq + 1 = e.seq /\ d.deed = e.prev

\* A change is told once, or is being told, or is missing; and the log tells of a
\* binding only to the asset that has it.
Tellers(n) == {r \in Requests : tagReq[r].at \in {"tell", "chain"} /\ tagReq[r].deed = n}
ToldIn(n) == {a \in TagAssets : \E e \in eventLog[a] : e.deed = n}
AddsUp(n) ==
  /\ n <= deeds <=> n \in missing \/ Tellers(n) # {} \/ ToldIn(n) # {}
  /\ n \in missing => Tellers(n) = {} /\ ToldIn(n) = {}
  /\ \A r \in Tellers(n) : Tellers(n) = {r} /\ ToldIn(n) = {}
  /\ \A a \in ToldIn(n) :
       /\ ToldIn(n) = {a} /\ \A e, f \in eventLog[a] : e.deed = n /\ f.deed = n => e = f
       /\ \A t \in Chips : \A b \in binding[t] : b.deed = n => b.asset = a
DeedsAddUp == \A n \in 1..MaxDeeds : AddsUp(n)

TagsAreSound == BoundAsEncoded /\ LocksAreEarned /\ ChainIsWhole /\ DeedsAddUp
=============================================================================
