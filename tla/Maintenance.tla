---------------------------- MODULE Maintenance ----------------------------
(***************************************************************************)
(* The work orders of a tenant: numbering, edits and deletion.  A          *)
(* generated number is one more than the greatest, as text, of the rows    *)
(* there are.                                                              *)
(***************************************************************************)
EXTENDS Handlers, Sequences

CONSTANTS
  MaxOrders,    \* bound: orders ever created
  MaxNumber,    \* bound: the greatest number generated
  Typed         \* numbers users type themselves, as below

ASSUME OrdersAssumption ==
  MaxOrders \in Nat /\ MaxNumber \in Nat /\ Typed \subseteq 1..MaxNumber + 2

VARIABLES
  orders,    \* the rows, in order of creation
  mntReq,    \* per request: what it has read and will write
  odd        \* history: some order has borne a number typed in another format

mntVars == <<orders, mntReq, odd>>

-----------------------------------------------------------------------------
\* A number is "MAINT-" and eight digits, or Odd: typed by the user with the
\* same prefix and sorting after all of those ("MAINT-5", "MAINT-north"), or
\* Free: typed without the prefix, and never looked at.
Odd  == MaxNumber + 1
Free == MaxNumber + 2

\* looked is history: how many orders there were when the number was read.
Order   == [number : 1..Free, generated : BOOLEAN, looked : 0..MaxOrders, gone : BOOLEAN]
MntIdle == [at |-> "idle"]
MntStates ==
  {MntIdle} \cup [at : {"create"}, row : Order]
  \cup [at : {"edit"}, order : 1..MaxOrders, number : 1..Free]
  \cup [at : {"delete"}, order : 1..MaxOrders]

OrderIds == {o \in DOMAIN orders : ~orders[o].gone}

MntInit ==
  /\ orders = <<>>
  /\ mntReq = [r \in Requests |-> MntIdle]
  /\ odd = FALSE

MntSet(r, state) == mntReq' = [mntReq EXCEPT ![r] = state]
MntRead(r, state) == /\ mntReq[r] = MntIdle
                     /\ MntSet(r, state)
                     /\ UNCHANGED <<orders, odd>>

\* nextWorkOrderNumber.  After an odd number stands what parseInt makes of it,
\* the same for every caller.
Prefixed == {orders[o].number : o \in OrderIds} \ {Free}
NextNumber ==
  IF Odd \in Prefixed THEN 1
  ELSE 1 + CHOOSE n \in Prefixed \cup {0} : \A m \in Prefixed : m <= n

\* createMaintenanceEvent: the asset is there; the number is typed or read.
ReadCreate(r) ==
  /\ Len(orders) < MaxOrders
  /\ \E g \in BOOLEAN :
     \E n \in IF g THEN {NextNumber} \cap 1..MaxNumber ELSE Typed :
       MntRead(r, [at |-> "create", row |-> [number |-> n, generated |-> g,
                                             looked |-> Len(orders), gone |-> FALSE]])

WriteCreate(r) ==
  /\ mntReq[r].at = "create" /\ Len(orders) < MaxOrders
  /\ orders' = Append(orders, mntReq[r].row)
  /\ odd' = (odd \/ mntReq[r].row.number = Odd)
  /\ MntSet(r, MntIdle)

\* updateMaintenanceEvent, as far as it types another number.  The update of
\* a row deleted meanwhile fails.
ReadEdit(r) ==
  \E o \in OrderIds, n \in Typed : MntRead(r, [at |-> "edit", order |-> o, number |-> n])

WriteEdit(r) ==
  LET e == mntReq[r] IN
  /\ e.at = "edit"
  /\ IF orders[e.order].gone
     THEN UNCHANGED <<orders, odd>>
     ELSE /\ orders' = [orders EXCEPT ![e.order] =
                          [@ EXCEPT !.number = e.number, !.generated = FALSE]]
          /\ odd' = (odd \/ e.number = Odd)
  /\ MntSet(r, MntIdle)

\* deleteMaintenanceEvent: a hard delete, that fails the second time.
Gone == [number |-> Free, generated |-> FALSE, looked |-> 0, gone |-> TRUE]
ReadRemove(r) ==
  \E o \in OrderIds : MntRead(r, [at |-> "delete", order |-> o])

WriteRemove(r) ==
  /\ mntReq[r].at = "delete"
  /\ orders' = [orders EXCEPT ![mntReq[r].order] = Gone]
  /\ MntSet(r, MntIdle)
  /\ UNCHANGED odd

MntNext ==
  \E r \in Requests :
    \/ ReadCreate(r) \/ WriteCreate(r)
    \/ ReadEdit(r)   \/ WriteEdit(r)
    \/ ReadRemove(r) \/ WriteRemove(r)

MntSpec == MntInit /\ [][MntNext]_mntVars

-----------------------------------------------------------------------------
MntTypeOK ==
  /\ orders \in Seq(Order) /\ Len(orders) <= MaxOrders
  /\ mntReq \in [Requests -> MntStates]
  /\ odd \in BOOLEAN

\* Until someone types a number in another format, two orders bear the same
\* generated number only if the later one's was read before the earlier one
\* was recorded: deletions give numbers free again and double none.
WorkOrdersDistinct ==
  ~odd => \A i, j \in OrderIds :
            /\ i < j /\ orders[i].generated /\ orders[j].generated
            /\ orders[i].number = orders[j].number
            => i > orders[j].looked
=============================================================================
