------------------------------ MODULE Devices -------------------------------
(***************************************************************************)
(* The devices of one tenant: registration and check-in at login,          *)
(* heartbeat, activation, deactivation and deletion, against the slots     *)
(* that the licence grants.  Every handler looks a row up, asks for the    *)
(* allowance when the row is not active, and writes what it decided.       *)
(*                                                                         *)
(* Browsers are told apart by their fingerprint.  The handhelds here are   *)
(* of one model and one user: a new fingerprint is taken for the same      *)
(* device, and its duplicates are deleted.                                 *)
(***************************************************************************)
EXTENDS Handlers

CONSTANTS
  Browsers,      \* fingerprints of browsers
  Handhelds,     \* fingerprints of handhelds
  DevRows,       \* ids the table may use, as numbers
  MaxAllowance   \* bound: baseDevices and the slots ever added

ASSUME DevicesAssumption ==
  DevRows \subseteq Nat /\ IsFiniteSet(DevRows) /\ MaxAllowance \in Nat \ {0}

VARIABLES
  device,    \* the table: per id a row or NoDevice
  slots,     \* tier.baseDevices + deviceSlots.length
  devReq,    \* per request: what it has read and decided
  undone     \* history: per inactive row, requests that read it before it ceased to be active

devVars == <<device, slots, devReq, undone>>

-----------------------------------------------------------------------------
Prints    == Browsers \cup Handhelds
NoDevice  == [print |-> "none"]
Device    == [print : Prints, active : BOOLEAN]
DevIdle   == [at |-> "idle"]
Rows      == {d \in DevRows : device[d] # NoDevice}
Active    == {d \in Rows : device[d].active}
Handheld  == {d \in Rows : device[d].print \in Handhelds}
RowOf(p)  == {d \in Rows : device[d].print = p}
Held(q)   == CASE devReq[q].at \in {"allow", "write", "collapse"} -> {devReq[q].id}
               [] devReq[q].at = "drop" -> devReq[q].drop
               [] OTHER -> {}
\* Ids are never used again; which of the others a new row gets says nothing.
Unused    == (DevRows \ Rows) \ UNION {Held(q) : q \in Requests}
NewId     == {d \in Unused : \A e \in Unused : d <= e}

\* getAllowanceInfo: without a live licence one device is allowed.  Whether
\* there is one is left open here (module Licences).
Allowances == {slots, 1}
FreeSlotOffByOne(allowance) == Cardinality(Active) <= allowance   \* mutant
FreeSlot(allowance) == Cardinality(Active) < allowance

DevSet(q, state) == devReq' = [devReq EXCEPT ![q] = state]
DevAnswer(q) == /\ DevSet(q, DevIdle)
                /\ undone' = [d \in DevRows |-> undone[d] \ {q}]
Store(d, row) == device' = [device EXCEPT ![d] = row]

\* The update of row d by q: an active row that is written as inactive is undone,
\* for all the other requests that have read it.
Readers(d) == {r \in Requests : devReq[r].at \in {"allow", "write"} /\ devReq[r].id = d}
SetActive(q, d, p, on) ==
  /\ Store(d, [print |-> p, active |-> on])
  /\ undone' = [undone EXCEPT ![d] = IF on THEN {}
                                     ELSE (IF d \in Active THEN Readers(d) ELSE @) \ {q}]

\* A handler that will write row d: op says what, print and active with which
\* values; drop is the set of duplicates found with it; claims, whether it was
\* granted a slot.
Decide(q, op, d, p, on, drop) ==
  /\ DevSet(q, [at |-> IF on \/ op = "delete" THEN "write" ELSE "allow",
                op |-> op, id |-> d, print |-> p, active |-> on, claims |-> FALSE, drop |-> drop])
  /\ UNCHANGED <<device, slots, undone>>

-----------------------------------------------------------------------------
DevInit ==
  /\ device = [d \in DevRows |-> NoDevice]
  /\ slots = 1
  /\ devReq = [q \in Requests |-> DevIdle]
  /\ undone = [d \in DevRows |-> {}]

\* registerDevice: the row with this fingerprint is written again as it was
\* read; a handheld without one takes over the survivor of the handheld rows
\* (an active one, if any is); else a row is to be created.
Register(q, p) ==
  /\ devReq[q].at = "idle"
  /\ IF RowOf(p) # {}
     THEN \E d \in RowOf(p) : Decide(q, "reuse", d, p, device[d].active, {})
     ELSE IF p \in Handhelds /\ Handheld # {}
     THEN \E d \in Handheld :
            /\ Handheld \cap Active # {} => d \in Active
            /\ Decide(q, "adopt", d, p, device[d].active, Handheld \ {d})
     ELSE \E d \in NewId : Decide(q, "create", d, p, FALSE, {})

\* heartbeatDevice: a device that is not registered is not registered by it.
Heartbeat(q, p) ==
  /\ devReq[q].at = "idle"
  /\ \E d \in RowOf(p) : Decide(q, "beat", d, p, device[d].active, {})

\* activateDevice and deleteDevice take an inactive row, deactivateDevice an
\* active one.
ActivateDevice(q, d) ==
  /\ devReq[q].at = "idle" /\ d \in Rows \ Active
  /\ Decide(q, "activate", d, device[d].print, FALSE, {})

DeleteDevice(q, d) ==
  /\ devReq[q].at = "idle" /\ d \in Rows \ Active
  /\ Decide(q, "delete", d, device[d].print, FALSE, {})

\* The allowance is asked for only when the row was read as inactive.
AskAllowance(q) ==
  /\ devReq[q].at = "allow"
  /\ \E free \in {FreeSlot(a) : a \in Allowances} :
       IF devReq[q].op = "activate" /\ ~free
       THEN DevAnswer(q)                       \* 409 DEVICE_LIMIT_REACHED
       ELSE /\ DevSet(q, [devReq[q] EXCEPT !.at = "write", !.active = free, !.claims = free])
            /\ UNCHANGED undone
  /\ UNCHANGED <<device, slots>>

\* The write fails when the row is gone, or when another row has taken the
\* fingerprint since.  A handheld is then freed of its duplicates: those that
\* were found with the survivor, or those a second look finds.
Write(q) ==
  LET r == devReq[q]  d == r.id
      failed == \/ r.op # "create" /\ d \notin Rows
                \/ r.op \in {"create", "adopt"} /\ RowOf(r.print) \ {d} # {}
  IN /\ r.at = "write"
     /\ IF failed THEN DevAnswer(q) /\ UNCHANGED device
        ELSE IF r.op = "delete" THEN Store(d, NoDevice) /\ DevAnswer(q)
        ELSE /\ SetActive(q, d, IF r.op \in {"create", "adopt"} THEN r.print ELSE device[d].print,
                          r.active)
             /\ DevSet(q, IF r.drop # {} THEN [at |-> "drop", drop |-> r.drop]
                          ELSE IF r.op = "reuse" /\ r.print \in Handhelds
                          THEN [at |-> "collapse", id |-> d] ELSE DevIdle)
     /\ UNCHANGED slots

\* collapseMobileDuplicates finds the other handheld rows, and deletes them.
Collapse(q) ==
  LET others == Handheld \ {devReq[q].id} IN
  /\ devReq[q].at = "collapse"
  /\ IF others = {} THEN DevAnswer(q)
     ELSE DevSet(q, [at |-> "drop", drop |-> others]) /\ UNCHANGED undone
  /\ UNCHANGED <<device, slots>>

Drop(q) ==
  /\ devReq[q].at = "drop"
  /\ device' = [d \in DevRows |-> IF d \in devReq[q].drop THEN NoDevice ELSE device[d]]
  /\ DevAnswer(q)
  /\ UNCHANGED slots

\* deactivateDevice reads and writes in one go here: what it read is not used.
Deactivate(d) ==
  /\ d \in Active
  /\ Store(d, [device[d] EXCEPT !.active = FALSE])
  /\ undone' = [undone EXCEPT ![d] = Readers(d)]
  /\ UNCHANGED <<slots, devReq>>

\* addDeviceSlot adds one slot.
AddSlot ==
  /\ slots < MaxAllowance /\ slots' = slots + 1
  /\ UNCHANGED <<device, devReq, undone>>

DevNext ==
  \/ \E q \in Requests :
       \/ \E p \in Prints : Register(q, p) \/ Heartbeat(q, p)
       \/ \E d \in DevRows : ActivateDevice(q, d) \/ DeleteDevice(q, d)
       \/ AskAllowance(q) \/ Write(q) \/ Collapse(q) \/ Drop(q)
  \/ \E d \in DevRows : Deactivate(d)
  \/ AddSlot

DevSpec == DevInit /\ [][DevNext]_devVars

-----------------------------------------------------------------------------
DevState ==
  {DevIdle}
  \cup [at : {"allow", "write"}, op : {"reuse", "adopt", "create", "beat", "activate", "delete"},
        id : DevRows, print : Prints, active : BOOLEAN, claims : BOOLEAN, drop : SUBSET DevRows]
  \cup [at : {"collapse"}, id : DevRows] \cup [at : {"drop"}, drop : SUBSET DevRows]

\* Every row, request and history variable has its type.
DevTypeOK ==
  /\ device \in [DevRows -> Device \cup {NoDevice}]
  /\ slots \in 1..MaxAllowance
  /\ devReq \in [Requests -> DevState]
  /\ undone \in [DevRows -> SUBSET Requests]

\* Requests that overlap may each take the last free slot, and one that read a
\* device as active puts back a device that was deactivated meanwhile; but never
\* are more devices active than the slots that were granted plus one for every
\* other request in flight.  Served one at a time, they keep to the allowance.
OverrunIsBounded ==
  Cardinality(Active) <= slots + Cardinality(Requests) - 1

\* A device that was deactivated, or that a request without a slot wrote back as
\* inactive, is active again only through a request that found a free slot for
\* it, or one that was already in flight then and writes back the row it had read.
InactiveHolds ==
  \A d \in Rows \ Active : d \in Active' =>
       \E q \in Requests : /\ devReq[q].at = "write" /\ devReq[q].id = d
                           /\ devReq[q].claims \/ q \in undone[d]
=============================================================================
