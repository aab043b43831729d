--------------------------- MODULE RegisterProofs ---------------------------
(***************************************************************************)
(* Inductive invariants of the components around the asset register, for   *)
(* every value of the constants: the loans of an asset, the numbers of its *)
(* work orders, its GIAI, its photos, the sweep of a room, the events that *)
(* are sent on, the digests, what a page shows, the builds of the apps,    *)
(* the enrolment of phones, the files, and the e-mails.  Of each component *)
(* three facts are proved: the invariant holds at first, every step keeps  *)
(* it, and what the runs check follows.  Module ComponentsProofs concludes.*)
(***************************************************************************)
EXTENDS Custody, Maintenance, Prefixes, PhotoOutbox, Sweep, Webhooks,
        Digests, PageCache, Releases, Files, Mails, FiniteSetTheorems, SequenceTheorems,
        WellFoundedInduction, TLAPS

-----------------------------------------------------------------------------
(* Loans.                                                                   *)

\* No loan that a request saw closed is open.
AllReturned(n) == \A i \in 1..n : i \in LoanIds => ~loans[i].open

\* A request found every loan it looked at returned; so did the request behind
\* every loan there is.
LoansInv ==
  /\ CusTypeOK
  /\ \A r \in Requests : cusReq[r].at = "checkout" =>
       cusReq[r].looked <= Len(loans) /\ AllReturned(cusReq[r].looked)
  /\ \A j \in LoanIds : loans[j].looked < j /\ AllReturned(loans[j].looked)
  /\ \A r \in Requests : cusReq[r].at = "checkin" => cusReq[r].loan \in LoanIds

LEMMA LoansInit == CusInit => LoansInv
BY LoansAssumption DEF CusInit, LoansInv, CusTypeOK, AssetRow, CusStates, CusIdle, LoanIds, Loan

\* What the loans are is a matter of their ids.
LEMMA LoanFields ==
  ASSUME CusTypeOK
  PROVE  /\ LoanIds = 1..Len(loans) /\ Len(loans) \in Nat /\ Len(loans) <= MaxLoans
         /\ \A i \in LoanIds : loans[i] \in Loan /\ loans[i].looked \in 0..MaxLoans
         /\ \A i \in LoanIds : loans[i].open \in BOOLEAN
<1>1. loans \in Seq(Loan) /\ Len(loans) <= MaxLoans
  BY DEF CusTypeOK
<1>2. LoanIds = 1..Len(loans) /\ Len(loans) \in Nat
  BY <1>1 DEF LoanIds
<1>3. \A i \in LoanIds : loans[i] \in Loan
  BY <1>1, <1>2
<1> QED BY <1>1, <1>2, <1>3 DEF Loan

\* A step of a request leaves the others where they are.
LEMMA CusOthers ==
  ASSUME CusTypeOK, NEW r \in Requests, NEW state \in CusStates, CusSet(r, state)
  PROVE  /\ cusReq' \in [Requests -> CusStates]
         /\ cusReq'[r] = state
         /\ \A q \in Requests : q # r => cusReq'[q] = cusReq[q]
BY DEF CusTypeOK, CusSet

\* Steps that leave the loans alone, and look for none.
LEMMA LoansRest ==
  ASSUME LoansInv, NEW r \in Requests, loans' = loans, asset' \in AssetRow, disposal' \in 0..1,
         NEW state \in CusStates, state.at \notin {"checkout", "checkin"}, CusSet(r, state)
  PROVE  LoansInv'
<1>1. /\ cusReq' \in [Requests -> CusStates]
      /\ \A q \in Requests : cusReq'[q].at \in {"checkout", "checkin"} => cusReq'[q] = cusReq[q]
  BY CusOthers DEF LoansInv
<1>2. CusTypeOK'
  BY <1>1 DEF CusTypeOK, LoansInv
<1> QED BY <1>1, <1>2 DEF LoansInv, LoanIds, AllReturned

LEMMA WriteAssetType ==
  ASSUME CusTypeOK, NEW r \in Requests, WriteAsset(r)
  PROVE  asset' \in AssetRow
<1>1. cusReq[r].data \in Edits
  BY DEF WriteAsset, CusTypeOK, CusStates, CusIdle
<1>2. asset \in AssetRow /\ DOMAIN asset = {"status", "deleted", "site"}
  BY DEF CusTypeOK, AssetRow
<1>3. asset' = [f \in DOMAIN asset |->
                  IF f \in DOMAIN cusReq[r].data THEN cusReq[r].data[f] ELSE asset[f]]
  BY DEF WriteAsset
<1>4. CASE cusReq[r].data \in [site : Places]
  BY <1>2, <1>3, <1>4 DEF AssetRow
<1>5. CASE cusReq[r].data \in [status : {"active", "disposed"}]
  BY <1>2, <1>3, <1>5 DEF AssetRow
<1> QED BY <1>1, <1>4, <1>5 DEF Edits

LEMMA LoansStep == LoansInv /\ [CusNext]_cusVars => LoansInv'
<1> SUFFICES ASSUME LoansInv, [CusNext]_cusVars PROVE LoansInv'
  OBVIOUS
<1> USE DEF LoansInv
<1>1. ASSUME NEW r \in Requests, ReadCheckout(r) PROVE LoansInv'
  <2> DEFINE state == [at |-> "checkout", looked |-> Len(loans)]
  <2>1. state \in CusStates /\ CusSet(r, state) /\ Open = {}
        /\ UNCHANGED <<asset, disposal, loans>>
    BY <1>1, LoanFields DEF ReadCheckout, Look, CusStates
  <2>2. /\ cusReq' \in [Requests -> CusStates]
        /\ cusReq'[r] = state
        /\ \A q \in Requests : q # r => cusReq'[q] = cusReq[q]
    <3> HIDE DEF state
    <3> QED BY <2>1, CusOthers
  <2>3. AllReturned(Len(loans))
    BY <2>1, LoanFields DEF Open, AllReturned
  <2>4. CusTypeOK'
    BY <2>1, <2>2 DEF CusTypeOK
  <2> QED BY <2>1, <2>2, <2>3, <2>4, LoanFields DEF LoanIds, AllReturned
<1>2. ASSUME NEW r \in Requests, CreateCheckout(r) PROVE LoansInv'
  <2> DEFINE new == [open |-> TRUE, looked |-> cusReq[r].looked]
  <2>1. /\ cusReq[r].at = "checkout" /\ Len(loans) < MaxLoans
        /\ loans' = Append(loans, new) /\ CusSet(r, CusIdle) /\ UNCHANGED <<asset, disposal>>
    BY <1>2 DEF CreateCheckout
  <2>2. /\ cusReq' \in [Requests -> CusStates]
        /\ cusReq'[r] = CusIdle
        /\ \A q \in Requests : q # r => cusReq'[q] = cusReq[q]
    BY <2>1, CusOthers DEF CusStates
  <2>3. new \in Loan /\ new.looked \in 0..MaxLoans
    BY <2>1 DEF CusTypeOK, CusStates, CusIdle, Loan
  <2>4. /\ Len(loans') = Len(loans) + 1 /\ LoanIds' = LoanIds \cup {Len(loans) + 1}
        /\ \A i \in LoanIds : loans'[i] = loans[i]
        /\ loans'[Len(loans) + 1] = new
        /\ loans' \in Seq(Loan)
    <3>1. loans \in Seq(Loan) /\ LoanIds = 1..Len(loans) /\ Len(loans) \in Nat
      BY LoanFields DEF CusTypeOK
    <3> HIDE DEF new
    <3>2. loans' \in Seq(Loan) /\ Len(loans') = Len(loans) + 1
      BY <2>1, <2>3, <3>1
    <3>3. LoanIds' = 1..(Len(loans) + 1)
      BY <3>2 DEF LoanIds
    <3>4. /\ \A i \in 1..Len(loans) : loans'[i] = loans[i]
          /\ loans'[Len(loans) + 1] = new
      BY <2>1, <3>1
    <3> QED BY <3>1, <3>2, <3>3, <3>4
  <2>5. new.looked <= Len(loans) /\ AllReturned(new.looked)
    BY <2>1
  <2>6. CusTypeOK'
    <3>1. asset \in AssetRow /\ disposal \in 0..1 /\ Len(loans) + 1 <= MaxLoans
      BY <2>1, LoanFields, LoansAssumption DEF CusTypeOK
    <3> HIDE DEF new
    <3> QED BY <2>1, <2>2, <2>4, <3>1 DEF CusTypeOK
  <2>7. \A n \in 0..Len(loans) : AllReturned(n) => \A i \in 1..n : i \in LoanIds' => ~loans'[i].open
    BY <2>4, LoanFields DEF AllReturned
  <2>8. (\A j \in LoanIds : loans[j].looked < j /\ AllReturned(loans[j].looked))'
    <3>1. \A j \in LoanIds : loans[j].looked \in 0..Len(loans) /\ loans[j].looked < j
                             /\ AllReturned(loans[j].looked)
      BY LoanFields
    <3>2. new.looked \in 0..Len(loans)
      BY <2>3, <2>5, LoanFields
    <3>3. AllReturned(new.looked)
      BY <2>5
    <3> HIDE DEF new
    <3>4. ASSUME NEW j \in LoanIds'
          PROVE  loans'[j].looked \in 0..Len(loans) /\ loans'[j].looked < j
                 /\ AllReturned(loans'[j].looked)
      BY <2>4, <3>1, <3>2, <3>3, <3>4, LoanFields
    <3> QED BY <2>7, <3>4 DEF AllReturned
  <2>9. (\A q \in Requests : cusReq[q].at = "checkout" =>
           cusReq[q].looked <= Len(loans) /\ AllReturned(cusReq[q].looked))'
    <3>1. ASSUME NEW q \in Requests, cusReq'[q].at = "checkout"
          PROVE  cusReq'[q].looked \in 0..Len(loans) /\ AllReturned(cusReq'[q].looked)
      <4>1. cusReq'[q] = cusReq[q]
        BY <2>2, <3>1 DEF CusIdle
      <4>2. cusReq[q].looked \in 0..MaxLoans
        BY <3>1, <4>1 DEF CusTypeOK, CusStates, CusIdle
      <4> QED BY <3>1, <4>1, <4>2, LoanFields
    <3>2. Len(loans) \in Nat /\ Len(loans') = Len(loans) + 1
      BY <2>4, LoanFields
    <3> QED BY <2>7, <3>1, <3>2 DEF AllReturned
  <2>10. \A q \in Requests : cusReq'[q].at = "checkin" => cusReq'[q].loan \in LoanIds'
    BY <2>2, <2>4 DEF CusIdle
  <2> QED BY <2>6, <2>8, <2>9, <2>10
<1>3. ASSUME NEW r \in Requests, ReadCheckin(r) PROVE LoansInv'
  <2>1. PICK i \in Open : Look(r, TRUE, [at |-> "checkin", loan |-> i])
    BY <1>3 DEF ReadCheckin
  <2> DEFINE state == [at |-> "checkin", loan |-> i]
  <2>2. state \in CusStates /\ CusSet(r, state) /\ i \in LoanIds
        /\ UNCHANGED <<asset, disposal, loans>>
    <3>1. i \in LoanIds /\ i \in 1..MaxLoans
      BY LoanFields, LoansAssumption DEF Open
    <3>2. state \in CusStates
      BY <3>1 DEF CusStates
    <3> QED BY <2>1, <3>1, <3>2 DEF Look
  <2>3. /\ cusReq' \in [Requests -> CusStates]
        /\ cusReq'[r] = state
        /\ \A q \in Requests : q # r => cusReq'[q] = cusReq[q]
    <3> HIDE DEF state
    <3> QED BY <2>2, CusOthers
  <2>4. CusTypeOK'
    BY <2>2, <2>3 DEF CusTypeOK
  <2> QED BY <2>2, <2>3, <2>4 DEF LoanIds, AllReturned
<1>4. ASSUME NEW r \in Requests, CloseCheckout(r) PROVE LoansInv'
  <2> DEFINE k == cusReq[r].loan
  <2>1. /\ cusReq[r].at = "checkin" /\ k \in LoanIds
        /\ loans' = [loans EXCEPT ![k].open = FALSE]
        /\ CusSet(r, CusIdle) /\ UNCHANGED <<asset, disposal>>
    BY <1>4 DEF CloseCheckout
  <2>2. /\ cusReq' \in [Requests -> CusStates]
        /\ cusReq'[r] = CusIdle
        /\ \A q \in Requests : q # r => cusReq'[q] = cusReq[q]
    BY <2>1, CusOthers DEF CusStates
  <2>3. /\ loans' \in Seq(Loan) /\ Len(loans') = Len(loans) /\ LoanIds' = LoanIds
        /\ \A i \in LoanIds : loans'[i].looked = loans[i].looked
        /\ \A i \in LoanIds : loans'[i].open => loans[i].open
    <3> HIDE DEF k
    <3>1. loans \in Seq(Loan) /\ k \in 1..Len(loans)
      BY <2>1, LoanFields DEF CusTypeOK
    <3>2. loans[k] \in Loan
      BY <2>1, LoanFields
    <3>3. loans' = [loans EXCEPT ![k] = [loans[k] EXCEPT !.open = FALSE]]
      BY <2>1
    <3>4. [loans[k] EXCEPT !.open = FALSE] \in Loan
      BY <3>2 DEF Loan
    <3>5. loans' \in Seq(Loan) /\ Len(loans') = Len(loans)
      BY <3>1, <3>3, <3>4
    <3>6. \A i \in 1..Len(loans) : loans'[i] = IF i = k THEN [loans[k] EXCEPT !.open = FALSE]
                                                     ELSE loans[i]
      BY <3>1, <3>3
    <3>7. LoanIds' = LoanIds
      BY <3>1, <3>5 DEF LoanIds
    <3> QED BY <3>2, <3>5, <3>6, <3>7, LoanFields DEF Loan
  <2>4. CusTypeOK'
    BY <2>1, <2>2, <2>3 DEF CusTypeOK
  <2>5. \A n : AllReturned(n) => AllReturned(n)'
    BY <2>3 DEF AllReturned
  <2> HIDE DEF k
  <2>6. \A q \in Requests : cusReq'[q].at # "idle" => cusReq'[q] = cusReq[q]
    BY <2>2 DEF CusIdle
  <2> QED BY <2>3, <2>4, <2>5, <2>6
<1>5. ASSUME NEW r \in Requests,
             \/ ReadTransfer(r) \/ ReadUpdate(r) \/ WriteAsset(r)
             \/ ReadDelete(r)   \/ WriteDelete(r)
             \/ ReadDispose(r)  \/ WriteDispose(r)
      PROVE  LoansInv'
  <2>1. asset \in AssetRow /\ disposal \in 0..1
    BY DEF CusTypeOK
  <2>2. CASE ReadTransfer(r)
    <3>1. PICK p \in Places : Look(r, Found, [at |-> "transfer", data |-> [site |-> p]])
      BY <2>2 DEF ReadTransfer
    <3>2. [at |-> "transfer", data |-> [site |-> p]] \in CusStates
      BY DEF CusStates, Edits
    <3> QED BY <2>1, <3>1, <3>2, LoansRest DEF Look
  <2>3. CASE ReadUpdate(r)
    <3>1. PICK data \in Edits : Look(r, Found, [at |-> "update", data |-> data])
      BY <2>3 DEF ReadUpdate
    <3>2. [at |-> "update", data |-> data] \in CusStates
      BY DEF CusStates
    <3> QED BY <2>1, <3>1, <3>2, LoansRest DEF Look
  <2>4. CASE WriteAsset(r)
    <3>1. asset' \in AssetRow
      BY <2>4, WriteAssetType
    <3> QED BY <2>1, <2>4, <3>1, LoansRest DEF WriteAsset, CusStates, CusIdle
  <2>5. CASE ReadDelete(r) \/ ReadDispose(r)
    BY <2>1, <2>5, LoansRest DEF ReadDelete, ReadDispose, Look, CusStates
  <2>6. CASE WriteDelete(r)
    BY <2>1, <2>6, LoansRest DEF WriteDelete, CusStates, CusIdle, AssetRow
  <2>7. CASE WriteDispose(r)
    BY <2>1, <2>7, LoansRest DEF WriteDispose, CusStates, CusIdle, AssetRow
  <2> QED BY <1>5, <2>2, <2>3, <2>4, <2>5, <2>6, <2>7
<1>6. CASE UNCHANGED cusVars
  BY <1>6 DEF cusVars, CusTypeOK, LoanIds, AllReturned
<1> QED BY <1>1, <1>2, <1>3, <1>4, <1>5, <1>6 DEF CusNext

LEMMA LoansOverlapOnly == LoansInv => LoansOverlap
BY LoanFields DEF LoansInv, LoansOverlap, Open, AllReturned

-----------------------------------------------------------------------------
(* Work orders.                                                             *)

OrderRows == DOMAIN orders

\* The order bears a number nobody has typed.
Numbered(o) == ~orders[o].gone /\ orders[o].generated

\* The number is past all those that were read before it.
Past(n, looked) == \A i \in OrderRows : i <= looked /\ Numbered(i) => orders[i].number < n

\* A number is generated within its bound, past all that were there; while all
\* numbers have the format, the greatest as text is the greatest.
OrdersInv ==
  /\ MntTypeOK
  /\ \A o \in OrderRows : ~orders[o].gone /\ orders[o].number = Odd => odd
  /\ \A o \in OrderRows : Numbered(o) => /\ orders[o].number <= MaxNumber
                                         /\ orders[o].looked < o
                                         /\ ~odd => Past(orders[o].number, orders[o].looked)
  /\ \A r \in Requests : mntReq[r].at = "create" =>
       /\ ~mntReq[r].row.gone /\ mntReq[r].row.looked <= Len(orders)
       /\ mntReq[r].row.generated =>
            /\ mntReq[r].row.number <= MaxNumber
            /\ ~odd => Past(mntReq[r].row.number, mntReq[r].row.looked)
  /\ \A r \in Requests : mntReq[r].at \in {"edit", "delete"} => mntReq[r].order \in OrderRows

LEMMA OrdersInit == MntInit => OrdersInv
<1> SUFFICES ASSUME MntInit PROVE OrdersInv
  OBVIOUS
<1>1. OrderRows = {} /\ orders \in Seq(Order) /\ Len(orders) = 0 /\ odd = FALSE
  BY DEF MntInit, OrderRows
<1>2. mntReq \in [Requests -> MntStates] /\ \A r \in Requests : mntReq[r].at = "idle"
  BY DEF MntInit, MntStates, MntIdle
<1>3. MntTypeOK
  <2>1. odd \in BOOLEAN
    BY DEF MntInit
  <2>2. Len(orders) <= MaxOrders
    BY <1>1, OrdersAssumption
  <2> QED BY <1>1, <1>2, <2>1, <2>2 DEF MntTypeOK
<1> QED BY <1>1, <1>2, <1>3 DEF OrdersInv

LEMMA OrderFields ==
  ASSUME MntTypeOK
  PROVE  /\ orders \in Seq(Order) /\ OrderRows = 1..Len(orders)
         /\ Len(orders) \in Nat /\ Len(orders) <= MaxOrders
         /\ \A o \in OrderRows : /\ orders[o] \in Order /\ orders[o].number \in 1..Free
                                 /\ orders[o].looked \in 0..MaxOrders
                                 /\ orders[o].gone \in BOOLEAN /\ orders[o].generated \in BOOLEAN
<1>1. orders \in Seq(Order) /\ Len(orders) <= MaxOrders
  BY DEF MntTypeOK
<1>2. OrderRows = 1..Len(orders) /\ Len(orders) \in Nat
  BY <1>1 DEF OrderRows
<1>3. \A o \in OrderRows : orders[o] \in Order
  BY <1>1, <1>2
<1> QED BY <1>1, <1>2, <1>3 DEF Order

LEMMA MntOthers ==
  ASSUME MntTypeOK, NEW r \in Requests, NEW state \in MntStates, MntSet(r, state)
  PROVE  /\ mntReq' \in [Requests -> MntStates]
         /\ mntReq'[r] = state
         /\ \A q \in Requests : q # r => mntReq'[q] = mntReq[q]
BY DEF MntTypeOK, MntSet

LEMMA CreateFields ==
  ASSUME MntTypeOK, NEW r \in Requests, mntReq[r].at = "create"
  PROVE  mntReq[r].row \in Order
BY DEF MntTypeOK, MntStates, MntIdle

\* A set of numbers with a bound has a greatest one.
LEMMA Greatest ==
  ASSUME NEW S \in SUBSET Nat, S # {}, NEW bound \in Nat, \A n \in S : n <= bound
  PROVE  \E n \in S : \A m \in S : m <= n
<1> DEFINE T == {bound - n : n \in S}
           R == OpToRel(<, Nat)
<1>1. IsWellFoundedOn(R, Nat)
  BY NatLessThanWellFounded
<1>2. T \subseteq Nat /\ T # {}
  <2>1. \A n \in S : n \in Nat /\ bound - n \in Nat
    OBVIOUS
  <2> QED BY <2>1
<1>3. PICK t \in T : \A u \in T : <<u, t>> \notin R
  <2> HIDE DEF T, R
  <2> QED BY <1>1, <1>2, WFMin
<1>4. \A u \in T : ~(u < t)
  BY <1>2, <1>3 DEF OpToRel
<1>5. PICK n \in S : t = bound - n
  OBVIOUS
<1>6. \A m \in S : ~(bound - m < bound - n)
  BY <1>4, <1>5
<1> QED BY <1>6

\* nextWorkOrderNumber is past every number that has the format.
LEMMA NextIsPast ==
  ASSUME OrdersInv, ~odd
  PROVE  Past(NextNumber, Len(orders))
<1> DEFINE S == Prefixed \cup {0}
<1>1. S \in SUBSET Nat /\ S # {} /\ MaxNumber + 2 \in Nat /\ \A n \in S : n <= MaxNumber + 2
  BY OrderFields, OrdersAssumption DEF OrdersInv, Prefixed, OrderIds, OrderRows, Free, Odd
<1>2. \E n \in S : \A m \in S : m <= n
  <2> HIDE DEF S
  <2> QED BY <1>1, Greatest
<1>3. Odd \notin Prefixed
  BY DEF OrdersInv, Prefixed, OrderIds, OrderRows
<1> DEFINE top == CHOOSE n \in S : \A m \in Prefixed : m <= n
<1>4. top \in S /\ \A m \in Prefixed : m <= top
  BY <1>2
<1>5. NextNumber = 1 + top
  BY <1>3 DEF NextNumber
<1>6. \A o \in OrderRows : Numbered(o) => orders[o].number \in Prefixed
  BY OrderFields, OrdersAssumption DEF OrdersInv, Prefixed, OrderIds, OrderRows, Numbered, Free
<1>7. top \in Nat /\ \A m \in Prefixed : m \in Nat
  BY <1>1, <1>4
<1>8. ASSUME NEW o \in OrderRows, Numbered(o)
      PROVE  orders[o].number < NextNumber
  <2>1. orders[o].number \in Nat /\ orders[o].number <= top
    BY <1>4, <1>6, <1>7, <1>8
  <2> HIDE DEF top
  <2> QED BY <1>5, <1>7, <2>1
<1> QED BY <1>8 DEF Past

\* Past is kept by whatever leaves or takes away numbers.
LEMMA PastStays ==
  ASSUME NEW looked \in Nat, looked <= Len(orders), NEW n, Past(n, looked), MntTypeOK,
         \A i \in 1..Len(orders) : i \in OrderRows' /\ Numbered(i)'
                                   => Numbered(i) /\ orders'[i].number = orders[i].number,
         \A i \in OrderRows' : i \in Nat /\ i >= 1
  PROVE  Past(n, looked)'
<1> SUFFICES ASSUME NEW i \in OrderRows', i <= looked, Numbered(i)'
             PROVE  orders'[i].number < n
  BY DEF Past
<1>1. i \in 1..Len(orders)
  BY OrderFields
<1> QED BY <1>1, OrderFields DEF Past

\* What a request may hold to write.
Pending(state) ==
  /\ state.at = "create" =>
       /\ ~state.row.gone /\ state.row.looked <= Len(orders)
       /\ state.row.generated =>
            /\ state.row.number <= MaxNumber
            /\ ~odd => Past(state.row.number, state.row.looked)
  /\ state.at \in {"edit", "delete"} => state.order \in OrderRows

\* A look-up leaves the orders as they are.
LEMMA OrdersRead ==
  ASSUME OrdersInv, NEW r \in Requests, NEW state \in MntStates, MntRead(r, state), Pending(state)
  PROVE  OrdersInv'
<1>1. UNCHANGED <<orders, odd>>
  BY DEF MntRead
<1>2. /\ mntReq' \in [Requests -> MntStates]
      /\ mntReq'[r] = state
      /\ \A q \in Requests : q # r => mntReq'[q] = mntReq[q]
  BY MntOthers DEF MntRead, OrdersInv
<1>3. \A q \in Requests : Pending(mntReq[q])
  BY DEF Pending, OrdersInv
<1>4. \A q \in Requests : Pending(mntReq'[q])
  BY <1>2, <1>3
<1>5. (\A q \in Requests : Pending(mntReq[q]))'
  BY <1>1, <1>4 DEF Pending, Past, OrderRows, Numbered
<1>6. MntTypeOK'
  BY <1>1, <1>2 DEF MntTypeOK, OrdersInv
<1>7. \A n, looked : Past(n, looked) <=> Past(n, looked)'
  BY <1>1 DEF Past, OrderRows, Numbered
<1> QED BY <1>1, <1>5, <1>6, <1>7 DEF OrdersInv, Pending, OrderRows, Numbered

\* A write comes from one request, and keeps or takes away what is numbered.
LEMMA OrdersWrite ==
  ASSUME OrdersInv, NEW r \in Requests, MntSet(r, MntIdle), MntTypeOK',
         Len(orders) <= Len(orders'), odd => odd',
         \A i \in 1..Len(orders) : Numbered(i)' => Numbered(i) /\ orders'[i].number = orders[i].number
                                                   /\ orders'[i].looked = orders[i].looked
  PROVE  /\ \A n : \A looked \in 0..Len(orders) : Past(n, looked) => Past(n, looked)'
         /\ (\A q \in Requests : Pending(mntReq[q]))'
         /\ \A o \in 1..Len(orders) : Numbered(o)' =>
              /\ orders'[o].number <= MaxNumber /\ orders'[o].looked < o
              /\ ~odd' => Past(orders[o].number, orders[o].looked)
                          /\ orders'[o].number = orders[o].number
                          /\ orders'[o].looked = orders[o].looked
                          /\ orders[o].looked \in 0..Len(orders)
<1>1. /\ OrderRows = 1..Len(orders) /\ Len(orders) \in Nat
      /\ OrderRows' = 1..Len(orders') /\ Len(orders') \in Nat
  <2>1. MntTypeOK
    BY DEF OrdersInv
  <2>2. OrderRows = 1..Len(orders) /\ Len(orders) \in Nat
    BY <2>1, OrderFields
  <2>3. orders' \in Seq(Order)
    BY DEF MntTypeOK
  <2> QED BY <2>2, <2>3 DEF OrderRows
<1>2. ASSUME NEW n, NEW looked \in 0..Len(orders), Past(n, looked)
      PROVE  Past(n, looked)'
  <2> SUFFICES ASSUME NEW i \in OrderRows', i <= looked, Numbered(i)'
               PROVE  orders'[i].number < n
    BY DEF Past
  <2>1. i \in 1..Len(orders)
    BY <1>1
  <2> QED BY <1>1, <1>2, <2>1 DEF Past
<1>3. /\ mntReq' \in [Requests -> MntStates]
      /\ mntReq'[r] = MntIdle
      /\ \A q \in Requests : q # r => mntReq'[q] = mntReq[q]
  BY MntOthers DEF OrdersInv, MntStates
<1>4. ASSUME NEW q \in Requests, mntReq'[q].at # "idle"
      PROVE  mntReq'[q] = mntReq[q]
  BY <1>3, <1>4 DEF MntIdle
<1>5. (\A q \in Requests : Pending(mntReq[q]))'
  <2> SUFFICES ASSUME NEW q \in Requests PROVE Pending(mntReq[q])'
    OBVIOUS
  <2>1. CASE mntReq'[q].at = "create"
    <3>1. mntReq'[q] = mntReq[q]
      BY <1>4, <2>1
    <3>2. mntReq[q].row \in Order
      BY <2>1, <3>1, CreateFields DEF OrdersInv
    <3>3. mntReq[q].row.looked \in 0..Len(orders)
      BY <1>1, <2>1, <3>1, <3>2 DEF OrdersInv, Order
    <3>4. /\ ~mntReq[q].row.gone
          /\ mntReq[q].row.generated =>
               /\ mntReq[q].row.number <= MaxNumber
               /\ ~odd => Past(mntReq[q].row.number, mntReq[q].row.looked)
      BY <2>1, <3>1 DEF OrdersInv
    <3>5. ~odd' /\ mntReq[q].row.generated => Past(mntReq[q].row.number, mntReq[q].row.looked)'
      <4> DEFINE n == mntReq[q].row.number
                 l == mntReq[q].row.looked
      <4>1. ASSUME ~odd', mntReq[q].row.generated
            PROVE  Past(mntReq'[q].row.number, mntReq'[q].row.looked)
        BY <3>4, <3>1, <4>1
      <4> QED BY <1>2, <3>1, <3>3, <4>1 DEF Past
    <3> QED BY <1>1, <2>1, <3>1, <3>3, <3>4, <3>5 DEF Pending
  <2>2. CASE mntReq'[q].at \in {"edit", "delete"}
    BY <1>1, <1>4, <2>2 DEF OrdersInv, Pending
  <2>3. CASE mntReq'[q].at \notin {"create", "edit", "delete"}
    BY <2>3 DEF Pending
  <2> QED BY <2>1, <2>2, <2>3
<1>6. ASSUME NEW o \in 1..Len(orders), Numbered(o)'
      PROVE  /\ orders'[o].number <= MaxNumber /\ orders'[o].looked < o
             /\ ~odd' => Past(orders[o].number, orders[o].looked)
                         /\ orders'[o].number = orders[o].number
                         /\ orders'[o].looked = orders[o].looked
                         /\ orders[o].looked \in 0..Len(orders)
  <2>1. Numbered(o) /\ orders'[o].number = orders[o].number /\ orders'[o].looked = orders[o].looked
    BY <1>6
  <2>2. orders[o].looked \in 0..MaxOrders
    BY <1>1, OrderFields DEF OrdersInv
  <2> QED BY <1>1, <2>1, <2>2, <1>6 DEF OrdersInv
<1> QED BY <1>2, <1>5, <1>6

LEMMA ReadCreateOrders ==
  ASSUME OrdersInv, NEW r \in Requests, ReadCreate(r)
  PROVE  OrdersInv'
<1>0. PICK g \in BOOLEAN :
        \E n \in IF g THEN {NextNumber} \cap 1..MaxNumber ELSE Typed :
          MntRead(r, [at |-> "create", row |-> [number |-> n, generated |-> g,
                                                looked |-> Len(orders), gone |-> FALSE]])
  BY DEF ReadCreate
<1>1. PICK n \in IF g THEN {NextNumber} \cap 1..MaxNumber ELSE Typed :
        MntRead(r, [at |-> "create", row |-> [number |-> n, generated |-> g,
                                              looked |-> Len(orders), gone |-> FALSE]])
  BY <1>0
<1> DEFINE new == [number |-> n, generated |-> g, looked |-> Len(orders), gone |-> FALSE]
           state == [at |-> "create", row |-> new]
<1>2. Len(orders) \in Nat /\ Len(orders) <= MaxOrders /\ MaxNumber \in Nat
  BY OrderFields, OrdersAssumption DEF OrdersInv
<1>3. n \in 1..Free /\ (g => n <= MaxNumber)
  <2>1. CASE g
    BY <1>1, <1>2, <2>1 DEF Free
  <2>2. CASE ~g
    BY <1>1, <2>2, OrdersAssumption DEF Free
  <2> QED BY <2>1, <2>2
<1>4. g /\ ~odd => Past(n, Len(orders))
  BY <1>1, NextIsPast
<1>5. new \in Order
  BY <1>2, <1>3, OrdersAssumption DEF Order
<1>6. state \in MntStates
  <2> HIDE DEF new
  <2> QED BY <1>5 DEF MntStates
<1>7. Pending(state)
  BY <1>2, <1>3, <1>4 DEF Pending
<1>8. MntRead(r, state)
  BY <1>1
<1> HIDE DEF state
<1> QED BY <1>6, <1>7, <1>8, OrdersRead

LEMMA WriteCreateOrders ==
  ASSUME OrdersInv, NEW r \in Requests, WriteCreate(r)
  PROVE  OrdersInv'
<1> DEFINE new == mntReq[r].row
           k == Len(orders) + 1
<1>1. /\ mntReq[r].at = "create" /\ Len(orders) < MaxOrders
      /\ orders' = Append(orders, new)
      /\ odd' = (odd \/ new.number = Odd)
      /\ MntSet(r, MntIdle)
  BY DEF WriteCreate
<1>2. new \in Order /\ new.looked \in 0..MaxOrders /\ new.number \in 1..Free
  BY <1>1, CreateFields DEF OrdersInv, Order
<1>3. /\ ~new.gone /\ new.looked <= Len(orders)
      /\ new.generated => /\ new.number <= MaxNumber
                          /\ ~odd => Past(new.number, new.looked)
  BY <1>1 DEF OrdersInv
<1>4. /\ orders \in Seq(Order) /\ OrderRows = 1..Len(orders) /\ Len(orders) \in Nat
      /\ MaxOrders \in Nat
  BY OrderFields, OrdersAssumption DEF OrdersInv
<1> HIDE DEF new
<1>5. /\ orders' \in Seq(Order) /\ Len(orders') = k /\ orders'[k] = new
      /\ \A i \in 1..Len(orders) : orders'[i] = orders[i]
  BY <1>1, <1>2, <1>4
<1>6. OrderRows' = 1..k
  BY <1>5 DEF OrderRows
<1>7. MntTypeOK'
  <2>1. mntReq' \in [Requests -> MntStates]
    BY <1>1, MntOthers DEF OrdersInv, MntStates
  <2>2. odd' \in BOOLEAN
    BY <1>1 DEF OrdersInv, MntTypeOK
  <2>3. Len(orders') <= MaxOrders
    BY <1>1, <1>4, <1>5
  <2> QED BY <1>5, <2>1, <2>2, <2>3 DEF MntTypeOK
<1>8. /\ \A n : \A looked \in 0..Len(orders) : Past(n, looked) => Past(n, looked)'
      /\ (\A q \in Requests : Pending(mntReq[q]))'
      /\ \A o \in 1..Len(orders) : Numbered(o)' =>
           /\ orders'[o].number <= MaxNumber /\ orders'[o].looked < o
           /\ ~odd' => Past(orders[o].number, orders[o].looked)
                       /\ orders'[o].number = orders[o].number
                       /\ orders'[o].looked = orders[o].looked
                       /\ orders[o].looked \in 0..Len(orders)
  <2>0. odd => odd'
    BY <1>1
  <2>1. Len(orders) <= Len(orders')
    BY <1>4, <1>5
  <2>2. \A i \in 1..Len(orders) : Numbered(i)' => Numbered(i) /\ orders'[i].number = orders[i].number
                                                  /\ orders'[i].looked = orders[i].looked
    BY <1>5 DEF Numbered
  <2> QED BY <1>1, <1>7, <2>0, <2>1, <2>2, OrdersWrite
<1>9. (\A o \in OrderRows : ~orders[o].gone /\ orders[o].number = Odd => odd)'
  <2>1. ASSUME NEW o \in 1..k, ~orders'[o].gone, orders'[o].number = Odd
        PROVE  odd'
    <3>1. CASE o = k
      BY <1>1, <1>5, <2>1, <3>1
    <3>2. CASE o # k
      <4>1. o \in 1..Len(orders)
        BY <1>4, <3>2
      <4> QED BY <1>1, <1>4, <1>5, <2>1, <4>1 DEF OrdersInv
    <3> QED BY <3>1, <3>2
  <2> QED BY <1>6, <2>1 DEF Odd
<1>10. (\A o \in OrderRows :
           Numbered(o) => /\ orders[o].number <= MaxNumber
                          /\ orders[o].looked < o
                          /\ ~odd => Past(orders[o].number, orders[o].looked))'
  <2> SUFFICES ASSUME NEW o \in 1..k, Numbered(o)'
               PROVE  /\ orders'[o].number <= MaxNumber
                      /\ orders'[o].looked < o
                      /\ ~odd' => Past(orders[o].number, orders[o].looked)'
    BY <1>6
  <2>1. CASE o = k
    <3>1. new.generated
      BY <1>5, <2>1 DEF Numbered
    <3>2. new.looked \in 0..Len(orders)
      BY <1>2, <1>3, <1>4
    <3>3. ~odd' => Past(new.number, new.looked)
      BY <1>1, <1>3, <3>1
    <3>4. ~odd' => Past(orders[o].number, orders[o].looked)'
      BY <1>5, <1>8, <2>1, <3>2, <3>3 DEF Past
    <3> QED BY <1>3, <1>4, <1>5, <2>1, <3>1, <3>2, <3>4
  <2>2. CASE o # k
    <3>1. o \in 1..Len(orders)
      BY <1>4, <2>2
    <3> QED BY <1>8, <3>1 DEF Past
  <2> QED BY <2>1, <2>2
<1>11. (\A q \in Requests : Pending(mntReq[q]))'
  BY <1>8
<1> QED BY <1>7, <1>9, <1>10, <1>11 DEF OrdersInv, Pending

\* An edit takes the number of the order away, and a deletion the order.
LEMMA ChangeOrders ==
  ASSUME OrdersInv, NEW r \in Requests, NEW k \in OrderRows, NEW new \in Order,
         orders' = [orders EXCEPT ![k] = new], MntSet(r, MntIdle), odd' \in BOOLEAN, odd => odd',
         ~new.generated, ~new.gone /\ new.number = Odd => odd'
  PROVE  OrdersInv'
<1>1. /\ orders \in Seq(Order) /\ OrderRows = 1..Len(orders) /\ Len(orders) \in Nat
      /\ Len(orders) <= MaxOrders
  BY OrderFields DEF OrdersInv
<1>2. /\ orders' \in Seq(Order) /\ Len(orders') = Len(orders) /\ orders'[k] = new
      /\ \A i \in 1..Len(orders) : i # k => orders'[i] = orders[i]
  BY <1>1
<1>3. OrderRows' = OrderRows
  BY <1>1, <1>2 DEF OrderRows
<1>4. MntTypeOK'
  <2>1. mntReq' \in [Requests -> MntStates]
    BY MntOthers DEF OrdersInv, MntStates
  <2> QED BY <1>1, <1>2, <2>1 DEF MntTypeOK
<1>5. \A i \in 1..Len(orders) : Numbered(i)' => i # k
  BY <1>2 DEF Numbered
<1>6. /\ \A n : \A looked \in 0..Len(orders) : Past(n, looked) => Past(n, looked)'
      /\ (\A q \in Requests : Pending(mntReq[q]))'
      /\ \A o \in 1..Len(orders) : Numbered(o)' =>
           /\ orders'[o].number <= MaxNumber /\ orders'[o].looked < o
           /\ ~odd' => Past(orders[o].number, orders[o].looked)
                       /\ orders'[o].number = orders[o].number
                       /\ orders'[o].looked = orders[o].looked
                       /\ orders[o].looked \in 0..Len(orders)
  <2>1. \A i \in 1..Len(orders) : Numbered(i)' => Numbered(i) /\ orders'[i].number = orders[i].number
                                                  /\ orders'[i].looked = orders[i].looked
    BY <1>2, <1>5 DEF Numbered
  <2>2. Len(orders) <= Len(orders')
    BY <1>1, <1>2
  <2> QED BY <1>4, <2>1, <2>2, OrdersWrite
<1>7. (\A o \in OrderRows : ~orders[o].gone /\ orders[o].number = Odd => odd)'
  <2> SUFFICES ASSUME NEW o \in 1..Len(orders), ~orders'[o].gone, orders'[o].number = Odd
               PROVE  odd'
    BY <1>1, <1>3 DEF Odd
  <2>1. CASE o = k
    BY <1>2, <2>1
  <2>2. CASE o # k
    BY <1>1, <1>2, <2>2 DEF OrdersInv
  <2> QED BY <2>1, <2>2
<1>8. (\A o \in OrderRows : Numbered(o) => /\ orders[o].number <= MaxNumber
                                           /\ orders[o].looked < o
                                           /\ ~odd => Past(orders[o].number, orders[o].looked))'
  <2> SUFFICES ASSUME NEW o \in 1..Len(orders), Numbered(o)'
               PROVE  /\ orders'[o].number <= MaxNumber
                      /\ orders'[o].looked < o
                      /\ ~odd' => Past(orders[o].number, orders[o].looked)'
    BY <1>1, <1>3
  <2> QED BY <1>6 DEF Past
<1> QED BY <1>4, <1>6, <1>7, <1>8 DEF OrdersInv, Pending

LEMMA OrdersStep == OrdersInv /\ [MntNext]_mntVars => OrdersInv'
<1> SUFFICES ASSUME OrdersInv, [MntNext]_mntVars PROVE OrdersInv'
  OBVIOUS
<1>1. /\ OrderRows = 1..Len(orders) /\ Len(orders) \in Nat /\ Len(orders) <= MaxOrders
      /\ MaxOrders \in Nat /\ MaxNumber \in Nat /\ Typed \subseteq 1..Free
  BY OrderFields, OrdersAssumption DEF OrdersInv, Free
<1>2. ASSUME NEW r \in Requests, ReadEdit(r) PROVE OrdersInv'
  <2>1. PICK o \in OrderIds, n \in Typed : MntRead(r, [at |-> "edit", order |-> o, number |-> n])
    BY <1>2 DEF ReadEdit
  <2>2. o \in OrderRows /\ o \in 1..MaxOrders /\ n \in 1..Free
    BY <1>1, <2>1 DEF OrderIds, OrderRows
  <2> DEFINE state == [at |-> "edit", order |-> o, number |-> n]
  <2>3. state \in MntStates /\ Pending(state)
    BY <2>2 DEF MntStates, Pending
  <2> QED BY <2>1, <2>3, OrdersRead
<1>3. ASSUME NEW r \in Requests, ReadRemove(r) PROVE OrdersInv'
  <2>1. PICK o \in OrderIds : MntRead(r, [at |-> "delete", order |-> o])
    BY <1>3 DEF ReadRemove
  <2>2. o \in OrderRows /\ o \in 1..MaxOrders
    BY <1>1, <2>1 DEF OrderIds, OrderRows
  <2> DEFINE state == [at |-> "delete", order |-> o]
  <2>3. state \in MntStates /\ Pending(state)
    BY <2>2 DEF MntStates, Pending
  <2> QED BY <2>1, <2>3, OrdersRead
<1>4. ASSUME NEW r \in Requests, WriteEdit(r) PROVE OrdersInv'
  <2> DEFINE k == mntReq[r].order
             n == mntReq[r].number
  <2>1. mntReq[r].at = "edit" /\ MntSet(r, MntIdle) /\ k \in OrderRows /\ n \in 1..Free
    BY <1>4 DEF WriteEdit, OrdersInv, MntTypeOK, MntStates, MntIdle
  <2>2. CASE orders[k].gone
    <3>1. orders' = orders /\ odd' = odd
      BY <1>4, <2>2 DEF WriteEdit
    <3>2. MntTypeOK'
      BY <2>1, <3>1, MntOthers DEF OrdersInv, MntTypeOK, MntStates
    <3>3. (\A q \in Requests : Pending(mntReq[q]))'
      <4>1. Len(orders) <= Len(orders')
        BY <1>1, <3>1
      <4> QED BY <2>1, <3>1, <3>2, <4>1, OrdersWrite DEF Numbered
    <3> QED BY <3>1, <3>2, <3>3 DEF OrdersInv, Pending, OrderRows, Numbered, Past
  <2>3. CASE ~orders[k].gone
    <3> DEFINE new == [orders[k] EXCEPT !.number = n, !.generated = FALSE]
    <3>1. orders' = [orders EXCEPT ![k] = new] /\ odd' = (odd \/ n = Odd)
      BY <1>4, <2>3 DEF WriteEdit
    <3>2. orders[k] \in Order
      BY <2>1, OrderFields DEF OrdersInv
    <3>3. new \in Order /\ ~new.generated /\ new.number = n
      BY <2>1, <3>2 DEF Order
    <3>4. odd \in BOOLEAN
      BY DEF OrdersInv, MntTypeOK
    <3> HIDE DEF new, k, n
    <3> QED BY <2>1, <3>1, <3>3, <3>4, ChangeOrders
  <2> QED BY <2>2, <2>3
<1>5. ASSUME NEW r \in Requests, WriteRemove(r) PROVE OrdersInv'
  <2>1. /\ mntReq[r].order \in OrderRows
        /\ orders' = [orders EXCEPT ![mntReq[r].order] = Gone]
        /\ MntSet(r, MntIdle) /\ odd' = odd
    BY <1>5 DEF WriteRemove, OrdersInv
  <2>2. Gone \in Order /\ ~Gone.generated /\ Gone.gone /\ odd \in BOOLEAN
    BY <1>1 DEF Gone, Order, Free, OrdersInv, MntTypeOK
  <2> QED BY <2>1, <2>2, ChangeOrders
<1>6. CASE UNCHANGED mntVars
  BY <1>6 DEF mntVars, OrdersInv, MntTypeOK, OrderRows, Numbered, Past
<1> QED BY <1>2, <1>3, <1>4, <1>5, <1>6, ReadCreateOrders, WriteCreateOrders DEF MntNext

LEMMA OrdersDistinctOnly == OrdersInv => WorkOrdersDistinct
<1> SUFFICES ASSUME OrdersInv, ~odd, NEW i \in OrderIds, NEW j \in OrderIds, i < j,
                    orders[i].generated, orders[j].generated,
                    orders[i].number = orders[j].number, ~(i > orders[j].looked)
             PROVE  FALSE
  BY DEF WorkOrdersDistinct
<1>1. i \in OrderRows /\ j \in OrderRows /\ Numbered(i) /\ Numbered(j)
  BY DEF OrderIds, OrderRows, Numbered
<1>2. i <= orders[j].looked /\ orders[i].number \in 1..Free /\ MaxNumber \in Nat
  BY <1>1, OrderFields, OrdersAssumption DEF OrdersInv
<1>3. orders[i].number < orders[j].number
  BY <1>1, <1>2 DEF OrdersInv, Past
<1> QED BY <1>2, <1>3 DEF Free

-----------------------------------------------------------------------------
(* The GIAI of an asset.                                                    *)

Withdrawn == {i \in PrefixIds : prefixes[i].status = "WITHDRAWN"}

\* A tenant has one active prefix at most, and a number one holder.
OneActive == \A h \in Holders : \A i, j \in ActiveRows(h) : i = j
OneClaim ==
  \A i, j \in PrefixIds :
    /\ prefixes[i].status \in {"PENDING", "ACTIVE"} /\ prefixes[j].status \in {"PENDING", "ACTIVE"}
    /\ prefixes[i].number = prefixes[j].number
    => i = j

\* The asset is under the active prefix, or under one that was withdrawn while
\* it was active, until the asset is written again.
UnderActive ==
  ~late /\ marked.state = "stored" =>
    \/ ActiveRows(Owner) = GiaiNow(marked.row)
    \/ marked.row \in Withdrawn /\ ActiveRows(Owner) = {}

ShownKept ==
  ~late => \A i \in shown \ Withdrawn : i = marked.row \/ prefixes[i].number \in historic

GiaiInv ==
  /\ PreTypeOK
  /\ \A r \in Requests : preReq[r].at # "idle" => preReq[r].id \in PrefixIds
  /\ marked.row \in PrefixIds \cup {0}
  /\ marked.state # "stored" => shown = {}
  /\ OneActive /\ OneClaim /\ UnderActive /\ ShownKept

LEMMA PrefixFields ==
  ASSUME PreTypeOK
  PROVE  /\ prefixes \in Seq(PrefixRow) /\ PrefixIds = 1..Len(prefixes)
         /\ Len(prefixes) \in Nat /\ Len(prefixes) <= MaxPrefixes
         /\ 0 \notin PrefixIds
         /\ \A i \in PrefixIds : prefixes[i] \in PrefixRow
<1>1. prefixes \in Seq(PrefixRow) /\ Len(prefixes) <= MaxPrefixes
  BY DEF PreTypeOK
<1>2. PrefixIds = 1..Len(prefixes) /\ Len(prefixes) \in Nat
  BY <1>1 DEF PrefixIds
<1>3. \A i \in PrefixIds : prefixes[i] \in PrefixRow
  BY <1>1, <1>2
<1> QED BY <1>1, <1>2, <1>3

LEMMA GiaiInit == PreInit => GiaiInv
<1> SUFFICES ASSUME PreInit PROVE GiaiInv
  OBVIOUS
<1>1. /\ prefixes = <<>> /\ marked = Absent /\ historic = {} /\ shown = {}
      /\ preReq = [r \in Requests |-> PreIdle]
  BY DEF PreInit
<1>2. prefixes \in Seq(PrefixRow) /\ Len(prefixes) = 0 /\ PrefixIds = {}
  BY <1>1 DEF PrefixIds
<1>3. late \in BOOLEAN
  BY DEF PreInit
<1>4. /\ marked \in [state : {"absent", "inserting", "stored"}, row : 0..MaxPrefixes]
      /\ marked.state = "absent" /\ marked.row = 0
  BY <1>1, PrefixesAssumption DEF Absent
<1>5. preReq \in [Requests -> PreStates] /\ \A r \in Requests : preReq[r].at = "idle"
  BY <1>1 DEF PreStates, PreIdle
<1>6. PreTypeOK
  BY <1>1, <1>2, <1>3, <1>4, <1>5, PrefixesAssumption DEF PreTypeOK
<1> QED BY <1>1, <1>2, <1>4, <1>5, <1>6
        DEF GiaiInv, OneActive, OneClaim, UnderActive, ShownKept, ActiveRows

LEMMA PreOthers ==
  ASSUME PreTypeOK, NEW r \in Requests, NEW state \in PreStates, PreSet(r, state)
  PROVE  /\ preReq' \in [Requests -> PreStates]
         /\ preReq'[r] = state
         /\ \A q \in Requests : q # r => preReq'[q] = preReq[q]
BY DEF PreTypeOK, PreSet

\* The row that the trigger takes is the active one.
LEMMA SyncRowActive ==
  ASSUME GiaiInv
  PROVE  SyncRow \in PrefixIds \cup {0} /\ ActiveRows(Owner) = GiaiNow(SyncRow)
<1>1. Owner \in Holders /\ ActiveRows(Owner) \subseteq PrefixIds /\ 0 \notin PrefixIds
  BY PrefixFields DEF Holders, ActiveRows, GiaiInv
<1>2. CASE ActiveRows(Owner) = {}
  BY <1>1, <1>2 DEF SyncRow, GiaiNow
<1>3. CASE ActiveRows(Owner) # {}
  <2>1. SyncRow \in ActiveRows(Owner)
    BY <1>3 DEF SyncRow
  <2>2. \A i \in ActiveRows(Owner) : i = SyncRow
    BY <1>1, <2>1 DEF GiaiInv, OneActive
  <2> QED BY <1>1, <2>1, <2>2 DEF GiaiNow
<1> QED BY <1>2, <1>3

LEMMA CreatePrefixGiai ==
  ASSUME GiaiInv, CreatePrefix
  PROVE  GiaiInv'
<1>1. PICK h \in Holders, n \in Numbers :
        /\ ~Claimed(n) /\ Len(prefixes) < MaxPrefixes
        /\ prefixes' = Append(prefixes, [holder |-> h, number |-> n, status |-> "PENDING"])
        /\ UNCHANGED <<marked, historic, preReq, shown, late>>
  BY DEF CreatePrefix
<1> DEFINE new == [holder |-> h, number |-> n, status |-> "PENDING"]
           k == Len(prefixes) + 1
<1>2. /\ prefixes \in Seq(PrefixRow) /\ PrefixIds = 1..Len(prefixes) /\ Len(prefixes) \in Nat
      /\ 0 \notin PrefixIds
  BY PrefixFields DEF GiaiInv
<1>3. /\ new \in PrefixRow /\ new.status = "PENDING" /\ new.number = n
  BY DEF PrefixRow
<1>4. prefixes' = Append(prefixes, new)
  BY <1>1
<1> HIDE DEF new
<1>5. /\ prefixes' \in Seq(PrefixRow) /\ Len(prefixes') = k /\ prefixes'[k] = new
      /\ \A i \in PrefixIds : prefixes'[i] = prefixes[i]
  BY <1>2, <1>3, <1>4
<1>6. PrefixIds' = PrefixIds \cup {k} /\ k \notin PrefixIds /\ k # 0
  <2>1. PrefixIds' = 1..k
    BY <1>5 DEF PrefixIds
  <2> QED BY <1>2, <2>1
<1>7. PreTypeOK'
  <2>1. Len(prefixes') <= MaxPrefixes
    BY <1>1, <1>2, <1>5, PrefixesAssumption
  <2>2. shown' \subseteq PrefixIds'
    BY <1>1, <1>6 DEF GiaiInv, PreTypeOK
  <2> QED BY <1>1, <1>5, <2>1, <2>2 DEF GiaiInv, PreTypeOK
<1>8. Withdrawn' = Withdrawn /\ \A g \in Holders : ActiveRows(g)' = ActiveRows(g)
  BY <1>3, <1>5, <1>6 DEF Withdrawn, ActiveRows
<1>9. OneClaim'
  <2> DEFINE Holds(i) == prefixes'[i].status \in {"PENDING", "ACTIVE"}
  <2> SUFFICES ASSUME NEW i \in PrefixIds', NEW j \in PrefixIds', Holds(i), Holds(j),
                      prefixes'[i].number = prefixes'[j].number
               PROVE  i = j
    BY DEF OneClaim
  <2>1. ASSUME NEW m \in PrefixIds, Holds(m) PROVE prefixes[m].number # n
    BY <1>1, <1>5, <2>1 DEF Claimed
  <2>2. CASE i \in PrefixIds /\ j \in PrefixIds
    BY <1>5, <2>2 DEF GiaiInv, OneClaim
  <2>3. CASE i = k /\ j \in PrefixIds
    BY <1>3, <1>5, <2>1, <2>3
  <2>4. CASE j = k /\ i \in PrefixIds
    BY <1>3, <1>5, <2>1, <2>4
  <2> QED BY <1>6, <2>2, <2>3, <2>4
<1>10. OneActive' /\ UnderActive' /\ ShownKept'
  <2>1. Owner \in Holders /\ shown \subseteq PrefixIds
    BY DEF Holders, GiaiInv, PreTypeOK
  <2>2. OneActive'
    BY <1>8 DEF GiaiInv, OneActive
  <2>3. UnderActive'
    BY <1>1, <1>8, <2>1 DEF GiaiInv, UnderActive, GiaiNow
  <2>4. ShownKept'
    BY <1>1, <1>5, <1>8, <2>1 DEF GiaiInv, ShownKept
  <2> QED BY <2>2, <2>3, <2>4
<1> QED BY <1>1, <1>6, <1>7, <1>9, <1>10 DEF GiaiInv

LEMMA FindPendingGiai ==
  ASSUME GiaiInv, NEW r \in Requests, FindPending(r)
  PROVE  GiaiInv'
<1>1. PICK i \in PrefixIds, at \in {"activate", "withdraw"} :
        prefixes[i].status = "PENDING" /\ PreSet(r, [at |-> at, id |-> i])
  BY DEF FindPending
<1>2. UNCHANGED <<prefixes, marked, historic, shown, late>>
  BY DEF FindPending
<1> DEFINE state == [at |-> at, id |-> i]
<1>3. PrefixIds = 1..Len(prefixes) /\ Len(prefixes) \in Nat /\ Len(prefixes) <= MaxPrefixes
  BY PrefixFields DEF GiaiInv
<1>4. state \in PreStates /\ state.id \in PrefixIds
  BY <1>3, PrefixesAssumption DEF PreStates
<1>5. PreSet(r, state)
  BY <1>1
<1> HIDE DEF state
<1>6. /\ preReq' \in [Requests -> PreStates]
      /\ preReq'[r] = state
      /\ \A q \in Requests : q # r => preReq'[q] = preReq[q]
  BY <1>4, <1>5, PreOthers DEF GiaiInv
<1>7. \A q \in Requests : preReq'[q].at # "idle" => preReq'[q].id \in PrefixIds
  BY <1>4, <1>6 DEF GiaiInv
<1>8. PrefixIds' = PrefixIds
  BY <1>2 DEF PrefixIds
<1>9. PreTypeOK'
  BY <1>2, <1>6, <1>8 DEF GiaiInv, PreTypeOK
<1>10. OneActive' /\ OneClaim' /\ UnderActive' /\ ShownKept'
  BY <1>2, <1>8 DEF GiaiInv, OneActive, OneClaim, UnderActive, ShownKept, ActiveRows, Withdrawn, GiaiNow
<1> QED BY <1>2, <1>7, <1>8, <1>9, <1>10 DEF GiaiInv

\* The request is over; the rows are as many, with their holders and numbers.
LEMMA RowsRewritten ==
  ASSUME GiaiInv, NEW r \in Requests, PreSet(r, PreIdle), prefixes' \in [PrefixIds -> PrefixRow],
         \A i \in PrefixIds : /\ prefixes'[i].holder = prefixes[i].holder
                              /\ prefixes'[i].number = prefixes[i].number
  PROVE  /\ prefixes' \in Seq(PrefixRow) /\ Len(prefixes') = Len(prefixes)
         /\ PrefixIds' = PrefixIds
         /\ preReq' \in [Requests -> PreStates]
         /\ \A q \in Requests : preReq'[q].at # "idle" => preReq'[q].id \in PrefixIds
<1>1. PrefixIds = 1..Len(prefixes) /\ Len(prefixes) \in Nat
  BY PrefixFields DEF GiaiInv
<1>2. prefixes' \in Seq(PrefixRow)
  BY <1>1, SeqDef
<1>3. DOMAIN prefixes' = 1..Len(prefixes)
  BY <1>1
<1>4. DOMAIN prefixes' = 1..Len(prefixes') /\ Len(prefixes') \in Nat
  BY <1>2
<1>5. Len(prefixes') = Len(prefixes)
  BY <1>1, <1>3, <1>4
<1>6. PrefixIds' = PrefixIds
  BY <1>1, <1>3 DEF PrefixIds
<1>7. /\ preReq' \in [Requests -> PreStates]
      /\ preReq'[r] = PreIdle
      /\ \A q \in Requests : q # r => preReq'[q] = preReq[q]
  BY PreOthers DEF GiaiInv, PreStates
<1>8. \A q \in Requests : preReq'[q].at # "idle" => preReq'[q].id \in PrefixIds
  BY <1>7 DEF GiaiInv, PreIdle
<1> QED BY <1>2, <1>5, <1>6, <1>7, <1>8

LEMMA WithdrawGiai ==
  ASSUME GiaiInv, NEW r \in Requests, WithdrawPrefix(r)
  PROVE  GiaiInv'
<1> DEFINE k == preReq[r].id
           new == [prefixes[k] EXCEPT !.status = "WITHDRAWN"]
<1>1. /\ k \in PrefixIds
      /\ prefixes' = [prefixes EXCEPT ![k] = new]
      /\ PreSet(r, PreIdle)
      /\ UNCHANGED <<marked, historic, shown, late>>
  BY DEF WithdrawPrefix, GiaiInv
<1>2. /\ prefixes \in Seq(PrefixRow) /\ PrefixIds = 1..Len(prefixes) /\ Len(prefixes) \in Nat
      /\ 0 \notin PrefixIds /\ prefixes[k] \in PrefixRow
  BY <1>1, PrefixFields DEF GiaiInv
<1>3. /\ new \in PrefixRow /\ new.status = "WITHDRAWN" /\ new.number = prefixes[k].number
      /\ new.holder = prefixes[k].holder
  BY <1>2 DEF PrefixRow
<1> HIDE DEF k, new
<1>4. /\ prefixes' \in [PrefixIds -> PrefixRow] /\ prefixes'[k] = new
      /\ \A i \in PrefixIds : i # k => prefixes'[i] = prefixes[i]
  BY <1>1, <1>2, <1>3
<1>5. \A i \in PrefixIds : /\ prefixes'[i].holder = prefixes[i].holder
                           /\ prefixes'[i].number = prefixes[i].number
  BY <1>3, <1>4
<1>6. /\ prefixes' \in Seq(PrefixRow) /\ Len(prefixes') = Len(prefixes)
      /\ PrefixIds' = PrefixIds
      /\ preReq' \in [Requests -> PreStates]
      /\ \A q \in Requests : preReq'[q].at # "idle" => preReq'[q].id \in PrefixIds
  BY <1>1, <1>4, <1>5, RowsRewritten
<1>7. PreTypeOK'
  BY <1>1, <1>6 DEF GiaiInv, PreTypeOK
<1>8. Withdrawn' = Withdrawn \cup {k} /\ \A h \in Holders : ActiveRows(h)' = ActiveRows(h) \ {k}
  BY <1>1, <1>3, <1>4, <1>6 DEF Withdrawn, ActiveRows
<1>9. Owner \in Holders /\ shown \subseteq PrefixIds
  BY DEF Holders, GiaiInv, PreTypeOK
<1>10. OneActive'
  BY <1>8 DEF GiaiInv, OneActive
<1>11. OneClaim'
  BY <1>3, <1>4, <1>6 DEF GiaiInv, OneClaim
<1>12. UnderActive'
  <2> SUFFICES ASSUME ~late, marked.state = "stored"
               PROVE  \/ ActiveRows(Owner)' = GiaiNow(marked.row)
                      \/ marked.row \in Withdrawn' /\ ActiveRows(Owner)' = {}
    BY <1>1 DEF UnderActive, GiaiNow
  <2>1. \/ ActiveRows(Owner) = GiaiNow(marked.row)
        \/ marked.row \in Withdrawn /\ ActiveRows(Owner) = {}
    BY DEF GiaiInv, UnderActive
  <2>2. CASE marked.row = k
    BY <1>8, <1>9, <2>1, <2>2 DEF GiaiNow
  <2>3. CASE marked.row # k
    BY <1>8, <1>9, <2>1, <2>3 DEF GiaiNow
  <2> QED BY <2>2, <2>3
<1>13. ShownKept'
  BY <1>1, <1>5, <1>8, <1>9 DEF GiaiInv, ShownKept
<1> QED BY <1>1, <1>6, <1>7, <1>10, <1>11, <1>12, <1>13 DEF GiaiInv

LEMMA ActivateGiai ==
  ASSUME GiaiInv, NEW r \in Requests, ActivatePrefix(r)
  PROVE  GiaiInv'
<1>0. PICK k : k = preReq[r].id
  OBVIOUS
<1>h. PICK h : h = prefixes[k].holder
  OBVIOUS
<1>1. k \in PrefixIds /\ PreSet(r, PreIdle) /\ late' = late
  BY <1>0 DEF ActivatePrefix, GiaiInv
<1>2. /\ prefixes \in Seq(PrefixRow) /\ PrefixIds = 1..Len(prefixes) /\ Len(prefixes) \in Nat
      /\ 0 \notin PrefixIds /\ \A i \in PrefixIds : prefixes[i] \in PrefixRow
  BY PrefixFields DEF GiaiInv
<1>3. CASE prefixes[k].status # "PENDING"
  <2>1. UNCHANGED <<prefixes, marked, historic, shown>>
    BY <1>0, <1>3 DEF ActivatePrefix
  <2>2. prefixes' \in [PrefixIds -> PrefixRow]
    BY <1>2, <2>1
  <2>3. /\ prefixes' \in Seq(PrefixRow) /\ Len(prefixes') = Len(prefixes)
        /\ PrefixIds' = PrefixIds
        /\ preReq' \in [Requests -> PreStates]
        /\ \A q \in Requests : preReq'[q].at # "idle" => preReq'[q].id \in PrefixIds
    <3>1. \A i \in PrefixIds : /\ prefixes'[i].holder = prefixes[i].holder
                               /\ prefixes'[i].number = prefixes[i].number
      BY <2>1
    <3> QED BY <1>1, <2>2, <3>1, RowsRewritten
  <2>4. PreTypeOK'
    BY <1>1, <2>1, <2>3 DEF GiaiInv, PreTypeOK
  <2>5. OneActive' /\ OneClaim' /\ UnderActive' /\ ShownKept'
    BY <1>1, <2>1, <2>3 DEF GiaiInv, OneActive, OneClaim, UnderActive, ShownKept, ActiveRows,
                            Withdrawn, GiaiNow
  <2> QED BY <2>1, <2>3, <2>4, <2>5 DEF GiaiInv
<1>4. CASE prefixes[k].status = "PENDING"
  <2>1. prefixes' = [j \in PrefixIds |->
                       IF j = k THEN [prefixes[j] EXCEPT !.status = "ACTIVE"]
                       ELSE IF j \in ActiveRows(h) THEN [prefixes[j] EXCEPT !.status = "SUPERSEDED"]
                       ELSE prefixes[j]]
    BY <1>0, <1>h, <1>4 DEF ActivatePrefix
  <2>2. IF h = Owner /\ marked.state = "stored"
        THEN /\ marked' = Stored(k)
             /\ historic' = historic \cup Preserved(k)
             /\ shown' = shown \cup {k}
        ELSE UNCHANGED <<marked, historic, shown>>
    BY <1>0, <1>h, <1>4 DEF ActivatePrefix
  <2>3. h \in Holders
    BY <1>1, <1>2, <1>h DEF PrefixRow
  <2>4. ASSUME NEW j \in PrefixIds
        PROVE  /\ prefixes'[j] \in PrefixRow
               /\ prefixes'[j].holder = prefixes[j].holder
               /\ prefixes'[j].number = prefixes[j].number
               /\ prefixes'[j].status = IF j = k THEN "ACTIVE"
                                        ELSE IF j \in ActiveRows(h) THEN "SUPERSEDED"
                                        ELSE prefixes[j].status
    <3>1. prefixes[j] \in PrefixRow
      BY <1>2
    <3>2. prefixes'[j] = IF j = k THEN [prefixes[j] EXCEPT !.status = "ACTIVE"]
                         ELSE IF j \in ActiveRows(h) THEN [prefixes[j] EXCEPT !.status = "SUPERSEDED"]
                         ELSE prefixes[j]
      BY <2>1
    <3>3. CASE j = k
      BY <3>1, <3>2, <3>3 DEF PrefixRow
    <3>4. CASE j # k /\ j \in ActiveRows(h)
      BY <3>1, <3>2, <3>4 DEF PrefixRow
    <3>5. CASE j # k /\ j \notin ActiveRows(h)
      BY <3>1, <3>2, <3>5
    <3> QED BY <3>3, <3>4, <3>5
  <2>5. prefixes' \in [PrefixIds -> PrefixRow]
    BY <2>1, <2>4
  <2>6. /\ prefixes' \in Seq(PrefixRow) /\ Len(prefixes') = Len(prefixes)
        /\ PrefixIds' = PrefixIds
        /\ preReq' \in [Requests -> PreStates]
        /\ \A q \in Requests : preReq'[q].at # "idle" => preReq'[q].id \in PrefixIds
    BY <1>1, <2>4, <2>5, RowsRewritten
  <2>7. Owner \in Holders /\ shown \subseteq PrefixIds /\ prefixes[k].status = "PENDING"
        /\ prefixes[k].holder = h
    BY <1>4, <1>h DEF Holders, GiaiInv, PreTypeOK
  <2>8. ActiveRows(h)' = {k}
    BY <1>1, <2>4, <2>6, <2>7 DEF ActiveRows
  <2>9. \A g \in Holders : g # h => ActiveRows(g)' = ActiveRows(g)
    BY <1>1, <2>4, <2>6, <2>7 DEF ActiveRows
  <2>10. Withdrawn' = Withdrawn /\ k \notin Withdrawn
    BY <1>1, <2>4, <2>6, <2>7 DEF Withdrawn, ActiveRows
  <2>11. OneActive'
    BY <2>8, <2>9 DEF GiaiInv, OneActive
  <2>12. OneClaim'
    <3>1. \A j \in PrefixIds : prefixes'[j].status \in {"PENDING", "ACTIVE"}
                               => prefixes[j].status \in {"PENDING", "ACTIVE"}
      BY <2>4, <2>7 DEF ActiveRows
    <3> QED BY <2>4, <2>6, <3>1 DEF GiaiInv, OneClaim
  <2>13. CASE h = Owner /\ marked.state = "stored"
    <3>1. /\ marked' = Stored(k) /\ historic' = historic \cup Preserved(k)
          /\ shown' = shown \cup {k}
      BY <2>2, <2>13
    <3>2. marked'.state = "stored" /\ marked'.row = k
      BY <3>1 DEF Stored
    <3>3. UnderActive'
      BY <1>1, <1>2, <2>8, <2>13, <3>2 DEF UnderActive, GiaiNow
    <3>4. historic' \subseteq Numbers /\ historic \subseteq historic'
          /\ (marked.row # 0 => prefixes[marked.row].number \in historic')
      BY <1>2, <3>1 DEF Preserved, GiaiNow, GiaiInv, PreTypeOK, PrefixRow
    <3>5. ShownKept'
      <4> SUFFICES ASSUME ~late, NEW i \in shown', i \notin Withdrawn
                   PROVE  i = k \/ prefixes[i].number \in historic'
        BY <1>1, <2>4, <2>6, <2>7, <2>10, <3>1, <3>2 DEF ShownKept
      <4>1. CASE i \in shown
        BY <1>2, <2>7, <3>4, <4>1 DEF GiaiInv, ShownKept
      <4> QED BY <3>1, <4>1
    <3>6. PreTypeOK'
      <4>1. marked' \in [state : {"absent", "inserting", "stored"}, row : 0..MaxPrefixes]
        BY <1>1, <1>2, <3>1, PrefixFields, PrefixesAssumption DEF Stored, GiaiInv
      <4> QED BY <1>1, <2>6, <2>7, <3>1, <3>4, <4>1 DEF GiaiInv, PreTypeOK
    <3> QED BY <1>1, <2>6, <2>11, <2>12, <3>2, <3>3, <3>5, <3>6 DEF GiaiInv
  <2>14. CASE ~(h = Owner /\ marked.state = "stored")
    <3>1. UNCHANGED <<marked, historic, shown>>
      BY <2>2, <2>14
    <3>2. UnderActive'
      BY <1>1, <2>7, <2>9, <2>10, <2>14, <3>1 DEF GiaiInv, UnderActive, GiaiNow
    <3>3. ShownKept'
      BY <1>1, <2>4, <2>7, <2>10, <3>1 DEF GiaiInv, ShownKept
    <3>4. PreTypeOK'
      BY <1>1, <2>6, <3>1 DEF GiaiInv, PreTypeOK
    <3> QED BY <2>6, <2>11, <2>12, <3>1, <3>2, <3>3, <3>4 DEF GiaiInv
  <2> QED BY <2>13, <2>14
<1> QED BY <1>3, <1>4

LEMMA AssetGiai ==
  ASSUME GiaiInv, InsertAsset \/ CommitAsset \/ TouchAsset
  PROVE  GiaiInv'
<1>1. /\ SyncRow \in PrefixIds \cup {0} /\ ActiveRows(Owner) = GiaiNow(SyncRow)
      /\ PrefixIds = 1..Len(prefixes) /\ Len(prefixes) \in Nat /\ Len(prefixes) <= MaxPrefixes
      /\ MaxPrefixes \in Nat
  BY SyncRowActive, PrefixFields, PrefixesAssumption DEF GiaiInv
<1>2. /\ prefixes' = prefixes /\ historic' = historic /\ preReq' = preReq
      /\ marked' \in [state : {"absent", "inserting", "stored"}, row : 0..MaxPrefixes]
      /\ late' \in BOOLEAN /\ shown' \subseteq PrefixIds
      /\ marked'.row \in PrefixIds \cup {0}
  <2>1. CASE InsertAsset
    BY <1>1, <2>1 DEF InsertAsset, GiaiInv, PreTypeOK
  <2>2. CASE CommitAsset
    BY <1>1, <2>2 DEF CommitAsset, GiaiInv, PreTypeOK, Stored, GiaiNow
  <2>3. CASE TouchAsset
    BY <1>1, <2>3 DEF TouchAsset, GiaiInv, PreTypeOK, Stored, GiaiNow
  <2> QED BY <2>1, <2>2, <2>3
<1>3. PrefixIds' = PrefixIds /\ Withdrawn' = Withdrawn
      /\ \A h \in Holders : ActiveRows(h)' = ActiveRows(h)
  BY <1>2 DEF PrefixIds, Withdrawn, ActiveRows
<1>4. PreTypeOK' /\ OneActive' /\ OneClaim'
  BY <1>2, <1>3 DEF GiaiInv, PreTypeOK, OneActive, OneClaim
<1>5. marked'.state # "stored" => shown' = {}
  BY DEF InsertAsset, CommitAsset, TouchAsset, Stored, Absent, GiaiInv
<1>6. Owner \in Holders
  BY DEF Holders
<1>7. UnderActive' /\ ShownKept'
  <2>1. CASE InsertAsset
    BY <1>2, <1>3, <2>1 DEF InsertAsset, Absent, GiaiInv, UnderActive, ShownKept
  <2>2. CASE CommitAsset
    <3>1. /\ marked'.state = "stored" /\ marked'.row = marked.row /\ shown = {}
          /\ shown' = shown \cup GiaiNow(marked.row) /\ late' = (marked.row # SyncRow)
      BY <2>2 DEF CommitAsset, Stored, GiaiInv
    <3> QED BY <1>1, <1>2, <1>3, <1>6, <3>1 DEF UnderActive, ShownKept, GiaiNow
  <2>3. CASE TouchAsset
    <3>1. /\ marked.state = "stored" /\ marked'.state = "stored" /\ marked'.row = SyncRow
          /\ shown' = shown \cup GiaiNow(SyncRow) /\ late' = late
      BY <2>3 DEF TouchAsset, Stored
    <3>2. UnderActive'
      BY <1>1, <1>3, <1>6, <3>1 DEF UnderActive, GiaiNow
    <3>3. ShownKept'
      <4> SUFFICES ASSUME ~late, NEW i \in shown, i \notin Withdrawn, i = marked.row
                   PROVE  i = SyncRow
        BY <1>2, <1>3, <3>1 DEF GiaiInv, ShownKept, GiaiNow
      <4>1. ActiveRows(Owner) = GiaiNow(marked.row)
        BY <3>1 DEF GiaiInv, UnderActive
      <4>2. i # 0
        BY <1>1 DEF GiaiInv, PreTypeOK
      <4> QED BY <1>1, <4>1, <4>2 DEF GiaiNow
    <3> QED BY <3>2, <3>3
  <2> QED BY <2>1, <2>2, <2>3
<1> QED BY <1>2, <1>3, <1>4, <1>5, <1>7 DEF GiaiInv

LEMMA GiaiStep == GiaiInv /\ [PreNext]_preVars => GiaiInv'
<1>1. ASSUME GiaiInv, UNCHANGED preVars PROVE GiaiInv'
  BY <1>1 DEF preVars, GiaiInv, PreTypeOK, OneActive, OneClaim, UnderActive, ShownKept,
              ActiveRows, Withdrawn, PrefixIds, GiaiNow
<1> QED BY <1>1, CreatePrefixGiai, FindPendingGiai, ActivateGiai, WithdrawGiai, AssetGiai
        DEF PreNext

LEMMA GiaiKeptOnly == GiaiInv => GiaisAreKept
<1> SUFFICES ASSUME GiaiInv, ~late PROVE
      /\ \A i \in shown \ Withdrawn : i = marked.row \/ prefixes[i].number \in historic
      /\ marked.state = "stored" /\ marked.row \notin Withdrawn \cup {0} =>
           /\ ActiveRows(Owner) = {marked.row}
           /\ \A i \in PrefixIds \ {marked.row} :
                prefixes[i].number = prefixes[marked.row].number =>
                  prefixes[i].status \in {"SUPERSEDED", "WITHDRAWN"}
  BY DEF GiaisAreKept, Withdrawn
<1>1. \A i \in shown \ Withdrawn : i = marked.row \/ prefixes[i].number \in historic
  BY DEF GiaiInv, ShownKept
<1>2. ASSUME marked.state = "stored", marked.row \notin Withdrawn \cup {0}
      PROVE  /\ ActiveRows(Owner) = {marked.row}
             /\ \A i \in PrefixIds \ {marked.row} :
                  prefixes[i].number = prefixes[marked.row].number =>
                    prefixes[i].status \in {"SUPERSEDED", "WITHDRAWN"}
  <2>1. ActiveRows(Owner) = {marked.row}
    BY <1>2 DEF GiaiInv, UnderActive, GiaiNow
  <2>2. marked.row \in PrefixIds /\ prefixes[marked.row].status = "ACTIVE"
    BY <2>1 DEF ActiveRows
  <2>3. \A i \in PrefixIds : prefixes[i].status \in {"PENDING", "ACTIVE", "SUPERSEDED", "WITHDRAWN"}
    BY PrefixFields DEF GiaiInv, PrefixRow
  <2> QED BY <2>1, <2>2, <2>3 DEF GiaiInv, OneClaim
<1> QED BY <1>1, <1>2

-----------------------------------------------------------------------------
(* Webhooks.                                                                *)

\* Where an event is: its job comes after its row, its handler while its job runs.
EventPlace(e) ==
  /\ call[e] \in {"idle", "log"} => row[e] = NoRow
  /\ call[e] \in {"idle", "log", "enqueue"} => job[e] = NoJob
  /\ job[e].at = "none" => job[e] = NoJob /\ row[e].attempts = 0
  /\ handler[e] # "idle" => job[e].at = "running"
  /\ job[e].at \in {"waiting", "running"} => job[e].made < Attempts

\* An attempt that was recorded was begun, and will be counted by the queue.
EventCount(e) ==
  /\ job[e].at = "waiting" \/ (job[e].at = "running" /\ handler[e] \notin {"return", "throw"})
       => row[e].attempts <= job[e].made + job[e].stalls
  /\ handler[e] \in {"return", "throw"} => row[e].attempts <= job[e].made + job[e].stalls + 1

\* What a row says of its event.
EventTold(e) ==
  /\ row[e].status = "pending" =>
       \/ call[e] = "enqueue" \/ job[e].at \in {"waiting", "running"}
       \/ e \in excused
  /\ row[e].status = "delivered" => e \in answered /\ handler[e] \in {"idle", "return"}
  /\ handler[e] = "accepted" => e \in answered
  /\ handler[e] = "return" => row[e].status # "pending"
  /\ handler[e] = "throw" /\ row[e].status = "pending" => e \in excused \/ job[e].made + 1 < Attempts

HookInv ==
  /\ WhkTypeOK
  /\ \A e \in Deliveries : EventPlace(e) /\ EventCount(e) /\ EventTold(e)

LEMMA HookInit == WhkInit => HookInv
<1> SUFFICES ASSUME WhkInit PROVE HookInv
  OBVIOUS
<1>1. WhkTypeOK
  BY AttemptsAssumption DEF WhkInit, WhkTypeOK, NoRow, NoJob, MaxPosts, MaxStalls
<1>2. \A e \in Deliveries : EventPlace(e) /\ EventCount(e) /\ EventTold(e)
  BY AttemptsAssumption DEF WhkInit, EventPlace, EventCount, EventTold, NoRow, NoJob
<1> QED BY <1>1, <1>2 DEF HookInv

LEMMA EventFields ==
  ASSUME WhkTypeOK, NEW e \in Deliveries
  PROVE  /\ call[e] \in {"idle", "log", "enqueue", "direct", "over"}
         /\ row[e] \in [status : {"none", "pending", "delivered", "failed"}, attempts : 0..MaxPosts]
         /\ row[e].status \in {"none", "pending", "delivered", "failed"}
         /\ row[e].attempts \in 0..MaxPosts
         /\ job[e] \in [at : {"none", "waiting", "running", "done", "exhausted"},
                        made : 0..Attempts, stalls : 0..MaxStalls]
         /\ job[e].at \in {"none", "waiting", "running", "done", "exhausted"}
         /\ job[e].made \in 0..Attempts /\ job[e].stalls \in 0..MaxStalls
         /\ handler[e] \in {"idle", "post", "return", "throw"} \cup Recording
BY DEF WhkTypeOK

\* A step of one event leaves the others alone.
LEMMA OneEvent ==
  ASSUME HookInv, NEW e \in Deliveries,
         WhkTypeOK', EventPlace(e)', EventCount(e)', EventTold(e)',
         \A d \in Deliveries : d # e =>
           /\ call'[d] = call[d] /\ row'[d] = row[d] /\ job'[d] = job[d] /\ handler'[d] = handler[d]
           /\ (d \in answered') = (d \in answered) /\ (d \in excused') = (d \in excused)
  PROVE  HookInv'
<1>1. ASSUME NEW d \in Deliveries, d # e
      PROVE  EventPlace(d)' /\ EventCount(d)' /\ EventTold(d)'
  <2>1. EventPlace(d) /\ EventCount(d) /\ EventTold(d)
    BY DEF HookInv
  <2>2. /\ call'[d] = call[d] /\ row'[d] = row[d] /\ job'[d] = job[d] /\ handler'[d] = handler[d]
        /\ (d \in answered') = (d \in answered) /\ (d \in excused') = (d \in excused)
    BY <1>1
  <2> QED BY <2>1, <2>2 DEF EventPlace, EventCount, EventTold
<1> QED BY <1>1 DEF HookInv

LEMMA DispatchSteps ==
  ASSUME HookInv, NEW e \in Deliveries,
         FindHook(e) \/ LogDelivery(e) \/ Enqueue(e) \/ PostDirectly(e) \/ ApiDies(e)
  PROVE  HookInv'
<1> USE AttemptsAssumption
<1>1. WhkTypeOK /\ EventPlace(e) /\ EventCount(e) /\ EventTold(e)
  BY DEF HookInv
<1>2. CASE FindHook(e)
  <2>1. /\ call[e] = "idle" /\ call'[e] \in {"log", "over"}
        /\ \A d \in Deliveries : d # e => call'[d] = call[d]
        /\ call' \in [Deliveries -> {"idle", "log", "enqueue", "direct", "over"}]
        /\ UNCHANGED <<hook, row, job, handler, answered, excused>>
    BY <1>1, <1>2 DEF FindHook, CallSet, WhkTypeOK
  <2>2. WhkTypeOK'
    BY <1>1, <2>1 DEF WhkTypeOK
  <2>3. EventPlace(e)' /\ EventCount(e)' /\ EventTold(e)'
    BY <1>1, <2>1 DEF EventPlace, EventCount, EventTold, NoRow
  <2> QED BY <2>1, <2>2, <2>3, OneEvent
<1>3. CASE LogDelivery(e) /\ hook = "deleted"
  <2>1. /\ call[e] = "log" /\ call'[e] = "direct"
        /\ \A d \in Deliveries : d # e => call'[d] = call[d]
        /\ call' \in [Deliveries -> {"idle", "log", "enqueue", "direct", "over"}]
        /\ UNCHANGED <<hook, row, job, handler, answered, excused>>
    BY <1>1, <1>3 DEF LogDelivery, CallSet, WhkTypeOK
  <2>2. WhkTypeOK'
    BY <1>1, <2>1 DEF WhkTypeOK
  <2>3. EventPlace(e)' /\ EventCount(e)' /\ EventTold(e)'
    BY <1>1, <2>1 DEF EventPlace, EventCount, EventTold, NoRow
  <2> QED BY <2>1, <2>2, <2>3, OneEvent
<1>4. CASE LogDelivery(e) /\ hook # "deleted"
  <2>1. /\ call[e] = "log" /\ call'[e] = "enqueue"
        /\ \A d \in Deliveries : d # e => call'[d] = call[d]
        /\ call' \in [Deliveries -> {"idle", "log", "enqueue", "direct", "over"}]
        /\ UNCHANGED <<hook, job, handler, answered, excused>>
    BY <1>1, <1>4 DEF LogDelivery, CallSet, WhkTypeOK
  <2>2. row' = [row EXCEPT ![e].status = "pending"]
    BY <1>4 DEF LogDelivery
  <2>3. /\ row'[e].status = "pending" /\ row'[e].attempts = row[e].attempts
        /\ \A d \in Deliveries : d # e => row'[d] = row[d]
        /\ row' \in [Deliveries -> [status : {"none", "pending", "delivered", "failed"},
                                    attempts : 0..MaxPosts]]
    BY <1>1, <2>2 DEF WhkTypeOK
  <2>4. WhkTypeOK'
    BY <1>1, <2>1, <2>3 DEF WhkTypeOK
  <2>5. EventPlace(e)' /\ EventCount(e)' /\ EventTold(e)'
    BY <1>1, <2>1, <2>3 DEF EventPlace, EventCount, EventTold, NoJob, NoRow
  <2> QED BY <2>1, <2>3, <2>4, <2>5, OneEvent
<1>5. CASE Enqueue(e) /\ job' = [job EXCEPT ![e].at = "waiting"] /\ CallSet(e, "over")
           /\ UNCHANGED excused
  <2>1. /\ call[e] = "enqueue" /\ call'[e] = "over"
        /\ \A d \in Deliveries : d # e => call'[d] = call[d]
        /\ call' \in [Deliveries -> {"idle", "log", "enqueue", "direct", "over"}]
        /\ UNCHANGED <<hook, row, handler, answered, excused>>
    BY <1>1, <1>5 DEF Enqueue, CallSet, WhkTypeOK
  <2>2. /\ job'[e].at = "waiting" /\ job'[e].made = job[e].made /\ job'[e].stalls = job[e].stalls
        /\ \A d \in Deliveries : d # e => job'[d] = job[d]
        /\ job' \in [Deliveries -> [at : {"none", "waiting", "running", "done", "exhausted"},
                                    made : 0..Attempts, stalls : 0..MaxStalls]]
    BY <1>1, <1>5 DEF WhkTypeOK
  <2>3. WhkTypeOK'
    BY <1>1, <2>1, <2>2 DEF WhkTypeOK
  <2>4. EventPlace(e)' /\ EventCount(e)' /\ EventTold(e)'
    BY <1>1, <2>1, <2>2, EventFields DEF EventPlace, EventCount, EventTold, NoJob, NoRow
  <2> QED BY <2>1, <2>2, <2>3, <2>4, OneEvent
<1>6. CASE Enqueue(e) /\ CallSet(e, "direct") /\ Excuse(e) /\ UNCHANGED job
  <2>1. /\ call[e] = "enqueue" /\ call'[e] = "direct"
        /\ \A d \in Deliveries : d # e => call'[d] = call[d]
        /\ call' \in [Deliveries -> {"idle", "log", "enqueue", "direct", "over"}]
        /\ UNCHANGED <<hook, row, job, handler, answered>> /\ excused' = excused \cup {e}
    BY <1>1, <1>6 DEF Enqueue, CallSet, WhkTypeOK, Excuse
  <2>2. WhkTypeOK'
    BY <1>1, <2>1 DEF WhkTypeOK
  <2>3. EventPlace(e)' /\ EventCount(e)' /\ EventTold(e)'
    BY <1>1, <2>1 DEF EventPlace, EventCount, EventTold, NoJob
  <2> QED BY <2>1, <2>2, <2>3, OneEvent
<1>7. CASE PostDirectly(e)
  <2>1. /\ call[e] = "direct" /\ call'[e] = "over"
        /\ \A d \in Deliveries : d # e => call'[d] = call[d]
        /\ call' \in [Deliveries -> {"idle", "log", "enqueue", "direct", "over"}]
        /\ UNCHANGED <<hook, row, job, handler, excused>>
        /\ answered' \in {answered, answered \cup {e}}
    BY <1>1, <1>7 DEF PostDirectly, CallSet, WhkTypeOK
  <2>2. WhkTypeOK'
    BY <1>1, <2>1 DEF WhkTypeOK
  <2>3. EventPlace(e)' /\ EventCount(e)' /\ EventTold(e)'
    BY <1>1, <2>1 DEF EventPlace, EventCount, EventTold
  <2> QED BY <2>1, <2>2, <2>3, OneEvent
<1>8. CASE ApiDies(e)
  <2>1. /\ call[e] \in {"log", "enqueue", "direct"} /\ call'[e] = "over"
        /\ \A d \in Deliveries : d # e => call'[d] = call[d]
        /\ call' \in [Deliveries -> {"idle", "log", "enqueue", "direct", "over"}]
        /\ UNCHANGED <<hook, row, job, handler, answered>> /\ excused' = excused \cup {e}
    BY <1>1, <1>8 DEF ApiDies, CallSet, WhkTypeOK, Excuse
  <2>2. WhkTypeOK'
    BY <1>1, <2>1 DEF WhkTypeOK
  <2>3. EventPlace(e)' /\ EventCount(e)' /\ EventTold(e)'
    BY <1>1, <2>1 DEF EventPlace, EventCount, EventTold
  <2> QED BY <2>1, <2>2, <2>3, OneEvent
<1> QED BY <1>2, <1>3, <1>4, <1>5, <1>6, <1>7, <1>8 DEF Enqueue

LEMMA HandlerSteps ==
  ASSUME HookInv, NEW e \in Deliveries,
         Take(e) \/ Post(e) \/ RecordOutcome(e) \/ RecordFails(e) \/ Settle(e) \/ WorkerDies(e)
  PROVE  HookInv'
<1> USE AttemptsAssumption
<1> DEFINE JobType == [at : {"none", "waiting", "running", "done", "exhausted"},
                       made : 0..Attempts, stalls : 0..MaxStalls]
           RowType == [status : {"none", "pending", "delivered", "failed"}, attempts : 0..MaxPosts]
           HandlerType == {"idle", "post", "return", "throw"} \cup Recording
<1>1. WhkTypeOK /\ EventPlace(e) /\ EventCount(e) /\ EventTold(e)
  BY DEF HookInv
<1>2. CASE Take(e)
  <2>1. /\ job[e].at = "waiting"
        /\ job'[e].at = "running" /\ job'[e].made = job[e].made /\ job'[e].stalls = job[e].stalls
        /\ \A d \in Deliveries : d # e => job'[d] = job[d]
        /\ job' \in [Deliveries -> JobType]
        /\ UNCHANGED <<hook, call, row, answered, excused>>
    BY <1>1, <1>2 DEF Take, WhkTypeOK
  <2>2. /\ handler'[e] \in {"return", "post", "disable"}
        /\ row[e].status \in {"none", "delivered"} <=> handler'[e] = "return"
        /\ \A d \in Deliveries : d # e => handler'[d] = handler[d]
        /\ handler' \in [Deliveries -> HandlerType]
    <3> DEFINE v == IF row[e].status \in {"none", "delivered"} THEN "return"
                    ELSE IF hook = "active" THEN "post"
                    ELSE "disable"
    <3>1. v \in {"return", "post", "disable"} /\ (v = "return" <=> row[e].status \in {"none", "delivered"})
      OBVIOUS
    <3>2. HandlerSet(e, v)
      BY <1>2 DEF Take
    <3> HIDE DEF v
    <3> QED BY <1>1, <3>1, <3>2 DEF HandlerSet, WhkTypeOK, Recording
  <2>3. WhkTypeOK'
    BY <1>1, <2>1, <2>2 DEF WhkTypeOK
  <2>4. EventPlace(e)' /\ EventCount(e)' /\ EventTold(e)'
    BY <1>1, <2>1, <2>2, EventFields DEF EventPlace, EventCount, EventTold, NoJob
  <2> QED BY <2>1, <2>2, <2>3, <2>4, OneEvent
<1>3. CASE Post(e)
  <2>1. /\ handler[e] = "post" /\ handler'[e] \in {"accepted", "refused", "caught"}
        /\ \A d \in Deliveries : d # e => handler'[d] = handler[d]
        /\ handler' \in [Deliveries -> HandlerType]
        /\ UNCHANGED <<hook, call, row, job, excused>>
        /\ answered' \in {answered, answered \cup {e}}
        /\ handler'[e] = "accepted" => answered' = answered \cup {e}
    BY <1>1, <1>3 DEF Post, HandlerSet, WhkTypeOK, Recording
  <2>2. WhkTypeOK'
    BY <1>1, <2>1 DEF WhkTypeOK
  <2>3. EventPlace(e)' /\ EventCount(e)' /\ EventTold(e)'
    BY <1>1, <2>1 DEF EventPlace, EventCount, EventTold, NoJob
  <2> QED BY <2>1, <2>2, <2>3, OneEvent
<1>4. CASE RecordOutcome(e) /\ row[e].status = "none"
  <2>1. /\ handler[e] \in Recording /\ handler'[e] = "throw"
        /\ \A d \in Deliveries : d # e => handler'[d] = handler[d]
        /\ handler' \in [Deliveries -> HandlerType]
        /\ UNCHANGED <<hook, call, row, job, answered>>
        /\ excused' = excused \ {e}
    BY <1>1, <1>4 DEF RecordOutcome, HandlerSet, WhkTypeOK
  <2>2. WhkTypeOK'
    BY <1>1, <2>1 DEF WhkTypeOK
  <2>3. EventPlace(e)' /\ EventCount(e)' /\ EventTold(e)'
    BY <1>1, <1>4, <2>1, EventFields DEF EventPlace, EventCount, EventTold, NoJob, Recording
  <2> QED BY <2>1, <2>2, <2>3, OneEvent
<1>5. CASE RecordOutcome(e) /\ row[e].status # "none"
  <2>1. /\ handler[e] \in Recording
        /\ handler'[e] = IF handler[e] \in {"refused", "caught"} THEN "throw" ELSE "return"
        /\ \A d \in Deliveries : d # e => handler'[d] = handler[d]
        /\ handler' \in [Deliveries -> HandlerType]
        /\ UNCHANGED <<hook, call, job, answered>>
        /\ excused' = excused \ {e}
    BY <1>1, <1>5 DEF RecordOutcome, HandlerSet, WhkTypeOK
  <2> DEFINE status == CASE handler[e] = "accepted" -> "delivered"
                         [] handler[e] = "disable"  -> "failed"
                         [] OTHER -> IF FinalAttempt(e) THEN "failed" ELSE "pending"
             count == row[e].attempts + (IF handler[e] = "disable" THEN 0 ELSE 1)
  <2>2. row' = [row EXCEPT ![e].status = status,
                           ![e].attempts = @ + IF handler[e] = "disable" THEN 0 ELSE 1]
    BY <1>5 DEF RecordOutcome
  <2>3. /\ status \in {"delivered", "failed", "pending"}
        /\ handler[e] = "accepted" => status = "delivered"
        /\ handler[e] # "accepted" => status # "delivered"
        /\ handler[e] = "disable" => status = "failed"
        /\ handler[e] # "accepted" /\ status = "pending" => job[e].made + 1 < Attempts
    BY <1>1, EventFields DEF FinalAttempt
  <2>4. row[e].attempts <= job[e].made + job[e].stalls /\ job[e].made < Attempts
    BY <1>1, <2>1 DEF EventPlace, EventCount, Recording
  <2>5. /\ row[e].attempts \in 0..MaxPosts /\ job[e].made \in 0..Attempts
        /\ job[e].stalls \in 0..MaxStalls /\ row[e] \in RowType
    BY <1>1, EventFields
  <2>6. count \in 0..MaxPosts /\ count <= job[e].made + job[e].stalls + 1
    BY <2>4, <2>5 DEF MaxPosts, MaxStalls
  <2> HIDE DEF status
  <2>7. row \in [Deliveries -> RowType]
    BY <1>1 DEF WhkTypeOK
  <2>8. /\ row'[e].status = status /\ row'[e].attempts = count
        /\ \A d \in Deliveries : d # e => row'[d] = row[d]
        /\ row' \in [Deliveries -> RowType]
    <3>1. /\ row' \in [Deliveries -> RowType]
          /\ \A d \in Deliveries : d # e => row'[d] = row[d]
          /\ row'[e] = [row[e] EXCEPT !.status = status,
                                     !.attempts = @ + IF handler[e] = "disable" THEN 0 ELSE 1]
      <4>1. row' = [row EXCEPT ![e] = [row[e] EXCEPT !.status = status,
                                  !.attempts = @ + IF handler[e] = "disable" THEN 0 ELSE 1]]
        BY <2>2, <2>7
      <4>2. [row[e] EXCEPT !.status = status,
                           !.attempts = @ + IF handler[e] = "disable" THEN 0 ELSE 1] \in RowType
        BY <2>3, <2>5, <2>6
      <4> QED BY <2>7, <4>1, <4>2
    <3> QED BY <2>5, <3>1
  <2> HIDE DEF count
  <2>9. WhkTypeOK'
    BY <1>1, <2>1, <2>8 DEF WhkTypeOK
  <2>10. EventPlace(e)'
    BY <1>1, <2>1, <2>8 DEF EventPlace, NoJob, Recording
  <2>11. EventCount(e)'
    BY <1>1, <2>1, <2>6, <2>8 DEF EventPlace, EventCount, Recording
  <2>12. EventTold(e)'
    BY <1>1, <2>1, <2>3, <2>8 DEF EventPlace, EventTold, Recording
  <2> QED BY <2>1, <2>8, <2>9, <2>10, <2>11, <2>12, OneEvent
<1>6. CASE RecordFails(e)
  <2>1. /\ handler[e] \in Recording
        /\ handler'[e] \in {"caught", "throw"}
        /\ \A d \in Deliveries : d # e => handler'[d] = handler[d]
        /\ handler' \in [Deliveries -> HandlerType]
        /\ UNCHANGED <<hook, call, row, job, answered>>
        /\ excused' = excused \cup {e}
    BY <1>1, <1>6 DEF RecordFails, HandlerSet, WhkTypeOK, Recording, Excuse
  <2>2. WhkTypeOK'
    BY <1>1, <2>1 DEF WhkTypeOK
  <2>3. EventPlace(e)' /\ EventCount(e)' /\ EventTold(e)'
    BY <1>1, <2>1, EventFields DEF EventPlace, EventCount, EventTold, NoJob, Recording
  <2> QED BY <2>1, <2>2, <2>3, OneEvent
<1>7. CASE Settle(e)
  <2>1. /\ handler[e] \in {"return", "throw"} /\ handler'[e] = "idle"
        /\ \A d \in Deliveries : d # e => handler'[d] = handler[d]
        /\ handler' \in [Deliveries -> HandlerType]
        /\ UNCHANGED <<hook, call, row, answered, excused>>
    BY <1>1, <1>7 DEF Settle, HandlerSet, WhkTypeOK
  <2> DEFINE next == IF handler[e] = "return" THEN "done"
                     ELSE IF job[e].made + 1 >= Attempts THEN "exhausted" ELSE "waiting"
  <2>2. job' = [job EXCEPT ![e].at = next, ![e].made = @ + 1]
    BY <1>7 DEF Settle
  <2>3. /\ next \in {"done", "exhausted", "waiting"}
        /\ next = "done" <=> handler[e] = "return"
        /\ next = "waiting" <=> handler[e] # "return" /\ ~(job[e].made + 1 >= Attempts)
    OBVIOUS
  <2>4. job[e].made < Attempts /\ job[e].made \in 0..Attempts /\ job[e].stalls \in 0..MaxStalls
    BY <1>1, <2>1, EventFields DEF EventPlace
  <2> HIDE DEF next
  <2>5. /\ job'[e].at = next /\ job'[e].made = job[e].made + 1 /\ job'[e].stalls = job[e].stalls
        /\ \A d \in Deliveries : d # e => job'[d] = job[d]
        /\ job' \in [Deliveries -> JobType]
    BY <1>1, <2>2, <2>3, <2>4 DEF WhkTypeOK
  <2>6. WhkTypeOK'
    BY <1>1, <2>1, <2>5 DEF WhkTypeOK
  <2>7. EventPlace(e)'
    BY <1>1, <2>1, <2>3, <2>4, <2>5 DEF EventPlace, NoJob
  <2>8. EventCount(e)'
    BY <1>1, <2>1, <2>3, <2>4, <2>5, EventFields DEF EventCount
  <2>9. EventTold(e)'
    BY <1>1, <2>1, <2>3, <2>4, <2>5 DEF EventTold
  <2> QED BY <2>1, <2>5, <2>6, <2>7, <2>8, <2>9, OneEvent
<1>8. CASE WorkerDies(e)
  <2>1. /\ job[e].at = "running" /\ handler'[e] = "idle"
        /\ \A d \in Deliveries : d # e => handler'[d] = handler[d]
        /\ handler' \in [Deliveries -> HandlerType]
        /\ UNCHANGED <<hook, call, row, answered>>
    BY <1>1, <1>8 DEF WorkerDies, HandlerSet, WhkTypeOK
  <2>2. CASE job[e].stalls < MaxStalls
    <3>1. job' = [job EXCEPT ![e].at = "waiting", ![e].stalls = @ + 1] /\ excused' = excused
      BY <1>8, <2>2 DEF WorkerDies
    <3>2. job[e].stalls \in 0..MaxStalls /\ job[e].made \in 0..Attempts
      BY <1>1, EventFields
    <3>3. /\ job'[e].at = "waiting" /\ job'[e].made = job[e].made
          /\ job'[e].stalls = job[e].stalls + 1
          /\ \A d \in Deliveries : d # e => job'[d] = job[d]
          /\ job' \in [Deliveries -> JobType]
      BY <1>1, <2>2, <3>1, <3>2 DEF WhkTypeOK, MaxStalls
    <3>4. WhkTypeOK'
      BY <1>1, <2>1, <3>1, <3>3 DEF WhkTypeOK
    <3>5. EventPlace(e)' /\ EventTold(e)'
      BY <1>1, <2>1, <3>1, <3>3 DEF EventPlace, EventTold, NoJob
    <3>6. EventCount(e)'
      BY <1>1, <2>1, <3>2, <3>3, EventFields DEF EventCount
    <3> QED BY <2>1, <3>1, <3>3, <3>4, <3>5, <3>6, OneEvent
  <2>3. CASE ~(job[e].stalls < MaxStalls)
    <3>1. job' = [job EXCEPT ![e].at = "exhausted"] /\ excused' = excused \cup {e}
      BY <1>8, <2>3 DEF WorkerDies, Excuse
    <3>2. /\ job'[e].at = "exhausted" /\ job'[e].made = job[e].made
          /\ job'[e].stalls = job[e].stalls
          /\ \A d \in Deliveries : d # e => job'[d] = job[d]
          /\ job' \in [Deliveries -> JobType]
      BY <1>1, <3>1 DEF WhkTypeOK
    <3>3. WhkTypeOK'
      BY <1>1, <2>1, <3>1, <3>2 DEF WhkTypeOK
    <3>4. EventPlace(e)' /\ EventTold(e)' /\ EventCount(e)'
      BY <1>1, <2>1, <3>1, <3>2 DEF EventPlace, EventTold, EventCount, NoJob
    <3> QED BY <2>1, <3>1, <3>2, <3>3, <3>4, OneEvent
  <2> QED BY <2>2, <2>3
<1> QED BY <1>2, <1>3, <1>4, <1>5, <1>6, <1>7, <1>8

LEMMA HookStep == HookInv /\ [WhkNext]_whkVars => HookInv'
<1> SUFFICES ASSUME HookInv, [WhkNext]_whkVars PROVE HookInv'
  OBVIOUS
<1>1. CASE Toggle
  <2>1. hook' \in {"active", "disabled"} /\ UNCHANGED <<call, row, job, handler, answered, excused>>
    BY <1>1 DEF Toggle
  <2> QED BY <2>1 DEF HookInv, WhkTypeOK, EventPlace, EventCount, EventTold
<1>2. CASE DeleteWebhook
  <2>1. hook' = "deleted" /\ UNCHANGED <<call, job, handler, answered, excused>>
    BY <1>2 DEF DeleteWebhook
  <2>2. /\ row' \in [Deliveries -> [status : {"none", "pending", "delivered", "failed"},
                                    attempts : 0..MaxPosts]]
        /\ \A e \in Deliveries : row'[e] = NoRow
    BY <1>2, AttemptsAssumption DEF DeleteWebhook, NoRow, MaxPosts, MaxStalls
  <2>3. NoRow.status = "none" /\ NoRow.attempts = 0
    BY DEF NoRow
  <2>4. WhkTypeOK'
    BY <2>1, <2>2 DEF HookInv, WhkTypeOK
  <2>5. ASSUME NEW e \in Deliveries PROVE EventPlace(e)' /\ EventCount(e)' /\ EventTold(e)'
    <3>1. EventPlace(e) /\ EventCount(e) /\ EventTold(e)
      BY DEF HookInv
    <3>2. job[e].made \in 0..Attempts /\ job[e].stalls \in 0..MaxStalls
      BY EventFields DEF HookInv
    <3> QED BY <2>1, <2>2, <2>3, <3>1, <3>2 DEF EventPlace, EventCount, EventTold, MaxStalls
  <2> QED BY <2>4, <2>5 DEF HookInv
<1>3. CASE UNCHANGED whkVars
  BY <1>3 DEF whkVars, HookInv, WhkTypeOK, EventPlace, EventCount, EventTold
<1> QED BY <1>1, <1>2, <1>3, DispatchSteps, HandlerSteps DEF WhkNext

LEMMA RowsTellOnly == HookInv => RowsTellTheTruth
BY DEF HookInv, EventTold, RowsTellTheTruth

-----------------------------------------------------------------------------
(* Digests.                                                                 *)

\* A digest about s is out, and the tick has yet to record it.
OnItsWay(s) == tick.at = "stamp" /\ s \in SubsOf(tick.user, tick.left) \ tick.gone

\* The tick has s before it.
Ahead(s) ==
  \/ tick.at = "user" /\ s \in tick.left \ tick.gone
  \/ tick.at = "stamp" /\ s \in (tick.left \ SubsOf(tick.user, tick.left)) \ tick.gone

\* What was served is recorded, but for a digest on its way or one that the
\* worker did not live to record; and whom the tick has before it was due.
Recorded(s) == served[s] = Unserved \/ s \in unsaid \/ OnItsWay(s) \/ served[s] <= sub[s].sent
Spaced(s)   == served[s] = Unserved \/ served[s] < hour - Guard \/ s \in unsaid

DigestInv ==
  /\ DigTypeOK
  /\ \A s \in Subs : served[s] <= hour
  /\ \A s \in Subs : Recorded(s)
  /\ \A s \in Subs : Ahead(s) => Spaced(s)

LEMMA DigestStart == DigInit => DigestInv
<1> SUFFICES ASSUME DigInit PROVE DigestInv
  OBVIOUS
<1>1. DigTypeOK
  BY HoursAssumption DEF DigInit, DigTypeOK, NoSub, TickIdle, Unserved
<1>2. \A s \in Subs : served[s] = Unserved
  BY DEF DigInit
<1>3. \A s \in Subs : served[s] <= hour
  BY <1>2 DEF DigInit, Unserved
<1> QED BY <1>1, <1>2, <1>3 DEF DigestInv, Recorded, Spaced

LEMMA DigestFacts ==
  ASSUME DigestInv
  PROVE  /\ hour \in 0..MaxHour /\ hour \in Nat /\ MaxHour \in Nat /\ Guard \in Nat
         /\ sub \in [Subs -> [is : {"none", "active", "paused"}, sent : Unserved..MaxHour]]
         /\ tick \in {TickIdle} \cup [at : {"user"}, left : SUBSET Subs, gone : SUBSET Subs]
              \cup [at : {"stamp"}, left : SUBSET Subs, gone : SUBSET Subs, user : Users]
         /\ served \in [Subs -> Unserved..MaxHour] /\ unsaid \subseteq Subs
         /\ \A s \in Subs : /\ served[s] <= hour /\ Recorded(s) /\ (Ahead(s) => Spaced(s))
                            /\ served[s] \in Int /\ sub[s].sent \in Int
         /\ TickIdle.at = "idle" /\ Unserved = -1
BY HoursAssumption DEF DigestInv, DigTypeOK, TickIdle, Unserved

LEMMA RowsMove ==
  ASSUME DigestInv, NEW s \in Subs, Subscribe(s) \/ Pause(s)
  PROVE  DigestInv'
<1>1. /\ UNCHANGED <<hour, tick, served, unsaid>>
      /\ sub' \in [Subs -> [is : {"none", "active", "paused"}, sent : Unserved..MaxHour]]
      /\ \A r \in Subs : sub'[r].sent = sub[r].sent
  BY DigestFacts DEF Subscribe, Pause
<1>2. DigTypeOK'
  BY <1>1, DigestFacts DEF DigTypeOK
<1>3. \A r \in Subs : served'[r] <= hour'
  BY <1>1, DigestFacts
<1>4. (\A r \in Subs : Recorded(r))'
  BY <1>1, DigestFacts DEF Recorded, OnItsWay
<1>5. (\A r \in Subs : Ahead(r) => Spaced(r))'
  BY <1>1, DigestFacts DEF Ahead, Spaced
<1> QED BY <1>2, <1>3, <1>4, <1>5 DEF DigestInv

LEMMA RowGoes ==
  ASSUME DigestInv, NEW s \in Subs, Unsubscribe(s)
  PROVE  DigestInv'
<1>1. /\ hour' = hour /\ unsaid' = unsaid \ {s}
      /\ sub' = [sub EXCEPT ![s] = NoSub] /\ served' = [served EXCEPT ![s] = Unserved]
      /\ tick' = IF tick = TickIdle THEN tick ELSE [tick EXCEPT !.gone = @ \cup ({s} \cap tick.left)]
  BY DEF Unsubscribe
<1>2. /\ sub' \in [Subs -> [is : {"none", "active", "paused"}, sent : Unserved..MaxHour]]
      /\ \A r \in Subs : r # s => sub'[r] = sub[r]
  BY <1>1, DigestFacts DEF NoSub
<1>3. /\ served' \in [Subs -> Unserved..MaxHour] /\ served'[s] = Unserved
      /\ \A r \in Subs : r # s => served'[r] = served[r]
  BY <1>1, DigestFacts
<1>4. \/ tick = TickIdle /\ tick' = tick
      \/ /\ tick' \in [at : {"user"}, left : SUBSET Subs, gone : SUBSET Subs]
              \cup [at : {"stamp"}, left : SUBSET Subs, gone : SUBSET Subs, user : Users]
         /\ tick'.at = tick.at /\ tick'.left = tick.left
         /\ (tick.at = "stamp" => tick'.user = tick.user)
         /\ tick'.gone \in {tick.gone, tick.gone \cup {s}}
  BY <1>1, DigestFacts
<1>5. DigTypeOK'
  BY <1>1, <1>2, <1>3, <1>4, DigestFacts DEF DigTypeOK
<1>6. \A r \in Subs : served'[r] <= hour'
  BY <1>1, <1>3, DigestFacts
<1>7. \A r \in Subs : r # s => (Ahead(r)' => Ahead(r)) /\ (OnItsWay(r) => OnItsWay(r)')
  BY <1>4, DigestFacts DEF Ahead, OnItsWay
<1>8. (\A r \in Subs : Recorded(r))'
  BY <1>1, <1>2, <1>3, <1>7, DigestFacts DEF Recorded
<1>9. (\A r \in Subs : Ahead(r) => Spaced(r))'
  BY <1>1, <1>3, <1>7, DigestFacts DEF Spaced
<1> QED BY <1>5, <1>6, <1>8, <1>9 DEF DigestInv

LEMMA TickLooks ==
  ASSUME DigestInv, Tick
  PROVE  DigestInv'
<1>1. /\ UNCHANGED <<hour, sub, served, unsaid>> /\ tick = TickIdle
      /\ tick' = [at |-> "user", left |-> Due, gone |-> {}]
  BY DEF Tick
<1>2. Due \subseteq Subs
  BY DEF Due
<1>3. DigTypeOK'
  BY <1>1, <1>2, DigestFacts DEF DigTypeOK
<1>4. \A r \in Subs : served'[r] <= hour'
  BY <1>1, DigestFacts
<1>5. \A r \in Subs : ~OnItsWay(r)
  BY <1>1, DigestFacts DEF OnItsWay
<1>6. (\A r \in Subs : Recorded(r))'
  BY <1>1, <1>5, DigestFacts DEF Recorded
<1>7. \A r \in Due : Spaced(r)
  <2> TAKE r \in Due
  <2>1. sub[r].sent = Unserved \/ sub[r].sent < hour - Guard
    BY DEF Due
  <2>2. r \in Subs /\ Recorded(r) /\ ~OnItsWay(r) /\ served[r] \in Unserved..MaxHour
    BY <1>2, <1>5, DigestFacts
  <2> QED BY <2>1, <2>2, DigestFacts DEF Recorded, Spaced
<1>8. (\A r \in Subs : Ahead(r) => Spaced(r))'
  BY <1>1, <1>7 DEF Ahead, Spaced
<1> QED BY <1>3, <1>4, <1>6, <1>8 DEF DigestInv

LEMMA TickGoesOn ==
  ASSUME DigestInv, NEW u \in Users, NextUser(u)
  PROVE  DigestInv'
<1>1. /\ UNCHANGED <<hour, sub, unsaid>> /\ tick.at = "user"
      /\ tick \in [at : {"user"}, left : SUBSET Subs, gone : SUBSET Subs]
      /\ SubsOf(u, tick.left) \subseteq tick.left
      /\ \A r \in Subs : ~OnItsWay(r)
  BY DigestFacts DEF NextUser, SubsOf, OnItsWay
<1>2. CASE /\ served' = served
           /\ tick' = IF tick.left = SubsOf(u, tick.left) THEN TickIdle
                      ELSE [tick EXCEPT !.left = @ \ SubsOf(u, @)]
  <2>1. \/ tick' = TickIdle
        \/ /\ tick' \in [at : {"user"}, left : SUBSET Subs, gone : SUBSET Subs]
           /\ tick'.left \subseteq tick.left /\ tick'.gone = tick.gone
    BY <1>1, <1>2
  <2>2. DigTypeOK'
    BY <1>1, <1>2, <2>1, DigestFacts DEF DigTypeOK
  <2>3. (\A r \in Subs : Recorded(r))'
    BY <1>1, <1>2, DigestFacts DEF Recorded
  <2>4. \A r \in Subs : Ahead(r)' => Ahead(r)
    BY <1>1, <2>1, DigestFacts DEF Ahead
  <2>5. (\A r \in Subs : Ahead(r) => Spaced(r))'
    BY <1>1, <1>2, <2>4, DigestFacts DEF Spaced
  <2>6. \A r \in Subs : served'[r] <= hour'
    BY <1>1, <1>2, DigestFacts
  <2> QED BY <2>2, <2>3, <2>5, <2>6 DEF DigestInv
<1>3. CASE /\ tick' = [at |-> "stamp", left |-> tick.left, gone |-> tick.gone, user |-> u]
           /\ served' = [s \in Subs |-> IF s \in SubsOf(u, tick.left) \ tick.gone
                                        THEN hour ELSE served[s]]
  <2>1. /\ tick' \in [at : {"stamp"}, left : SUBSET Subs, gone : SUBSET Subs, user : Users]
        /\ tick'.at = "stamp" /\ tick'.left = tick.left /\ tick'.gone = tick.gone /\ tick'.user = u
    BY <1>1, <1>3
  <2>2. served' \in [Subs -> Unserved..MaxHour] /\ \A r \in Subs : served'[r] <= hour'
    BY <1>1, <1>3, DigestFacts
  <2>3. DigTypeOK'
    BY <1>1, <2>1, <2>2, DigestFacts DEF DigTypeOK
  <2>4. ASSUME NEW r \in Subs
        PROVE  /\ r \in SubsOf(u, tick.left) \ tick.gone => OnItsWay(r)'
               /\ r \notin SubsOf(u, tick.left) \ tick.gone => served'[r] = served[r]
               /\ Ahead(r)' => Ahead(r) /\ r \notin SubsOf(u, tick.left) \ tick.gone
    BY <1>1, <1>3, <2>1 DEF OnItsWay, Ahead
  <2>5. (\A r \in Subs : Recorded(r))'
    BY <1>1, <2>4, DigestFacts DEF Recorded
  <2>6. (\A r \in Subs : Ahead(r) => Spaced(r))'
    BY <1>1, <2>4, DigestFacts DEF Spaced
  <2> QED BY <2>2, <2>3, <2>5, <2>6 DEF DigestInv
<1> QED BY <1>2, <1>3 DEF NextUser

LEMMA TickRecords ==
  ASSUME DigestInv, Stamp
  PROVE  DigestInv'
<1> DEFINE told == SubsOf(tick.user, tick.left)
<1>1. /\ UNCHANGED <<hour, served>> /\ tick.at = "stamp" /\ unsaid' = unsaid \ (told \ tick.gone)
      /\ tick \in [at : {"stamp"}, left : SUBSET Subs, gone : SUBSET Subs, user : Users]
      /\ sub' = [s \in Subs |-> IF s \in told \ tick.gone
                                THEN [sub[s] EXCEPT !.sent = hour] ELSE sub[s]]
      /\ tick' = IF tick.left \ told = {} THEN TickIdle
                 ELSE [at |-> "user", left |-> tick.left \ told,
                       gone |-> tick.gone \cap (tick.left \ told)]
  BY DigestFacts DEF Stamp
<1> HIDE DEF told
<1>2. \/ tick' = TickIdle
      \/ /\ tick' \in [at : {"user"}, left : SUBSET Subs, gone : SUBSET Subs]
         /\ tick'.at = "user" /\ tick'.left = tick.left \ told
         /\ tick'.gone = tick.gone \cap (tick.left \ told)
  BY <1>1
<1>3. /\ sub' \in [Subs -> [is : {"none", "active", "paused"}, sent : Unserved..MaxHour]]
      /\ \A r \in Subs : r \in told \ tick.gone => sub'[r].sent = hour
      /\ \A r \in Subs : r \notin told \ tick.gone => sub'[r] = sub[r]
  BY <1>1, DigestFacts
<1>4. DigTypeOK'
  BY <1>1, <1>2, <1>3, DigestFacts DEF DigTypeOK
<1>5. \A r \in Subs : OnItsWay(r) <=> r \in told \ tick.gone
  BY <1>1 DEF OnItsWay, told
<1>6. (\A r \in Subs : Recorded(r))'
  <2> SUFFICES ASSUME NEW r \in Subs PROVE Recorded(r)'
    OBVIOUS
  <2>1. CASE r \in told \ tick.gone
    BY <2>1, <1>1, <1>3, DigestFacts DEF Recorded
  <2>2. CASE r \notin told \ tick.gone
    BY <2>2, <1>1, <1>3, <1>5, DigestFacts DEF Recorded
  <2> QED BY <2>1, <2>2
<1>7. \A r \in Subs : Ahead(r)' => Ahead(r) /\ r \notin told
  BY <1>1, <1>2, DigestFacts DEF Ahead, told
<1>8. (\A r \in Subs : Ahead(r) => Spaced(r))'
  BY <1>1, <1>7, DigestFacts DEF Spaced
<1>9. \A r \in Subs : served'[r] <= hour'
  BY <1>1, DigestFacts
<1> QED BY <1>4, <1>6, <1>8, <1>9 DEF DigestInv

LEMMA TickEnds ==
  ASSUME DigestInv, TickDies
  PROVE  DigestInv'
<1>1. UNCHANGED <<hour, sub, served>> /\ tick' = TickIdle
  BY DEF TickDies
<1>2. unsaid \subseteq unsaid' /\ unsaid' \subseteq Subs
  BY DigestFacts DEF TickDies, SubsOf
<1>3. \A r \in Subs : OnItsWay(r) => r \in unsaid'
  BY DigestFacts DEF TickDies, OnItsWay
<1>4. DigTypeOK'
  BY <1>1, <1>2, DigestFacts DEF DigTypeOK
<1>5. (\A r \in Subs : Recorded(r))'
  BY <1>1, <1>2, <1>3, DigestFacts DEF Recorded
<1>6. \A r \in Subs : ~Ahead(r)'
  BY <1>1, DigestFacts DEF Ahead
<1>7. \A r \in Subs : served'[r] <= hour'
  BY <1>1, DigestFacts
<1> QED BY <1>4, <1>5, <1>6, <1>7 DEF DigestInv

LEMMA HourPasses ==
  ASSUME DigestInv, Hour
  PROVE  DigestInv'
<1>1. UNCHANGED <<sub, tick, served, unsaid>> /\ hour' = hour + 1 /\ hour' \in 0..MaxHour
  BY DigestFacts DEF Hour
<1>2. DigTypeOK'
  BY <1>1, DigestFacts DEF DigTypeOK
<1>3. (\A r \in Subs : Recorded(r))'
  BY <1>1, DigestFacts DEF Recorded, OnItsWay
<1>4. (\A r \in Subs : Ahead(r) => Spaced(r))'
  <2> SUFFICES ASSUME NEW r \in Subs, Ahead(r)' PROVE Spaced(r)'
    OBVIOUS
  <2>1. Spaced(r) /\ served[r] \in Int
    BY <1>1, DigestFacts DEF Ahead
  <2> QED BY <1>1, <2>1, DigestFacts DEF Spaced
<1>5. \A r \in Subs : served'[r] <= hour'
  BY <1>1, DigestFacts
<1> QED BY <1>2, <1>3, <1>4, <1>5 DEF DigestInv

LEMMA DigestStep == DigestInv /\ [DigNext]_digVars => DigestInv'
<1>1. ASSUME DigestInv, UNCHANGED digVars PROVE DigestInv'
  BY <1>1 DEF digVars, DigestInv, DigTypeOK, Recorded, OnItsWay, Ahead, Spaced
<1> QED BY <1>1, RowsMove, RowGoes, TickLooks, TickGoesOn, TickRecords, TickEnds, HourPasses
        DEF DigNext

LEMMA DigestsSpacedOnly == DigestInv => ServesSpaced
<1> SUFFICES ASSUME DigestInv, NEW u \in Users, NEW s \in Subs, tick.at = "user",
                    s \in SubsOf(u, tick.left) \ tick.gone
             PROVE  Spaced(s)
  BY DEF ServesSpaced, Spaced
<1>1. Ahead(s)
  BY DEF Ahead, SubsOf
<1> QED BY <1>1 DEF DigestInv

-----------------------------------------------------------------------------
(* The cache of a page.                                                     *)

\* Nothing is fetched or kept as good that is older than the last change the
\* user was promised, where the change marks the answer.
CacheInv ==
  /\ PagTypeOK
  /\ promised <= server
  /\ sending = "asked" => server < MaxWrites
  /\ watched.told =>
       /\ fetching >= 0 => fetching >= promised
       /\ entry # NoEntry /\ ~entry.invalid => entry.version >= promised

LEMMA CacheStart == PagInit => CacheInv
<1> SUFFICES ASSUME PagInit PROVE CacheInv
  OBVIOUS
<1>1. server = 0 /\ promised = 0 /\ fetching = -2 /\ entry = NoEntry /\ sending = "none"
  BY DEF PagInit, NoFetch
<1>2. server \in 0..MaxWrites /\ promised \in 0..MaxWrites /\ fetching \in NoFetch..MaxWrites
  BY <1>1, PageCacheAssumption DEF NoFetch
<1>3. watched \in Watchable /\ mounted \in BOOLEAN
  BY DEF PagInit
<1>4. PagTypeOK
  BY <1>1, <1>2, <1>3 DEF PagTypeOK
<1> QED BY <1>1, <1>4 DEF CacheInv

LEMMA CacheFacts ==
  ASSUME CacheInv
  PROVE  /\ MaxWrites \in Nat /\ server \in 0..MaxWrites /\ promised \in 0..MaxWrites
         /\ promised <= server /\ fetching \in NoFetch..MaxWrites
         /\ watched \in Watchable
         /\ (sending = "asked" => server < MaxWrites)
         /\ sending \in {"none", "asked", "applied"}
         /\ NoFetch = -2 /\ Asked = -1
BY PageCacheAssumption DEF CacheInv, PagTypeOK, NoFetch, Asked

LEMMA CacheReads ==
  ASSUME CacheInv,
         OpenPage \/ ClosePage \/ Refetch \/ ServerReads \/ FetchFails \/ Collect \/ Send
  PROVE  CacheInv'
<1>1. UNCHANGED <<watched, server, promised>>
  BY DEF OpenPage, ClosePage, Refetch, ServerReads, FetchFails, Collect, Send
<1>2. fetching' \in {fetching, NoFetch, Asked, server}
  BY DEF OpenPage, ClosePage, Refetch, ServerReads, FetchFails, Collect, Send
<1>3. entry' \in {entry, NoEntry}
  BY DEF OpenPage, ClosePage, Refetch, ServerReads, FetchFails, Collect, Send
<1>4. mounted' \in BOOLEAN
  BY DEF CacheInv, PagTypeOK, OpenPage, ClosePage, Refetch, ServerReads, FetchFails, Collect, Send
<1>5. sending' \in {"none", "asked", "applied"}
  BY CacheFacts DEF OpenPage, ClosePage, Refetch, ServerReads, FetchFails, Collect, Send
<1>6. fetching' \in NoFetch..MaxWrites
  BY <1>2, CacheFacts
<1>7. PagTypeOK'
  BY <1>1, <1>3, <1>4, <1>5, <1>6 DEF CacheInv, PagTypeOK
<1>8. (watched.told => (fetching >= 0 => fetching >= promised))'
  BY <1>1, <1>2, CacheFacts DEF CacheInv
<1>9. (watched.told => (entry # NoEntry /\ ~entry.invalid => entry.version >= promised))'
  BY <1>1, <1>3, CacheFacts DEF CacheInv
<1>10. sending' = "asked" => server < MaxWrites
  BY CacheFacts DEF OpenPage, ClosePage, Refetch, ServerReads, FetchFails, Collect, Send
<1> QED BY <1>1, <1>7, <1>8, <1>9, <1>10, CacheFacts DEF CacheInv

LEMMA CacheFills ==
  ASSUME CacheInv, FetchArrives
  PROVE  CacheInv'
<1>1. /\ UNCHANGED <<watched, server, mounted, sending, promised>> /\ fetching \in 0..MaxWrites
      /\ entry' = [version |-> fetching, invalid |-> FALSE] /\ fetching' = NoFetch
  BY CacheFacts DEF FetchArrives
<1>2. entry' \in [version : 0..MaxWrites, invalid : BOOLEAN]
  BY <1>1
<1>3. fetching' \in NoFetch..MaxWrites /\ ~(fetching' >= 0)
  BY <1>1, CacheFacts
<1>4. PagTypeOK'
  BY <1>1, <1>2, <1>3 DEF CacheInv, PagTypeOK
<1>5. (watched.told => (entry # NoEntry /\ ~entry.invalid => entry.version >= promised))'
  BY <1>1, CacheFacts DEF CacheInv
<1> QED BY <1>1, <1>3, <1>4, <1>5, CacheFacts DEF CacheInv

LEMMA CacheChanges ==
  ASSUME CacheInv, ServerWrites \/ SendFails
  PROVE  CacheInv'
<1>1. /\ UNCHANGED <<watched, entry, fetching, mounted, promised>>
      /\ server' \in {server, server + 1} /\ sending' \in {"none", "asked", "applied"}
  BY DEF ServerWrites, SendFails
<1>2. server' \in 0..MaxWrites /\ sending' # "asked"
  BY CacheFacts DEF ServerWrites, SendFails
<1> QED BY <1>1, <1>2, CacheFacts DEF CacheInv, PagTypeOK

LEMMA CacheAnswered ==
  ASSUME CacheInv, AnswerArrives
  PROVE  CacheInv'
<1>1. UNCHANGED <<watched, server, mounted>> /\ sending' = "none"
  BY DEF AnswerArrives
<1>2. /\ LeftRunning => promised' = promised
      /\ ~LeftRunning => promised' = server
  BY DEF AnswerArrives
<1>3. fetching' \in {fetching, Asked} /\ (watched.told /\ mounted /\ ~LeftRunning => fetching' = Asked)
  BY DEF AnswerArrives, MarkAndRefetch
<1>4. \/ entry' = entry
      \/ entry # NoEntry /\ entry' = [entry EXCEPT !.invalid = TRUE]
  BY DEF AnswerArrives, MarkAndRefetch
<1>5. entry' = NoEntry \/ entry' \in [version : 0..MaxWrites, invalid : BOOLEAN]
  BY <1>4 DEF CacheInv, PagTypeOK
<1>6. promised' \in 0..MaxWrites /\ promised' <= server /\ fetching' \in NoFetch..MaxWrites
  BY <1>2, <1>3, CacheFacts
<1>7. PagTypeOK'
  BY <1>1, <1>5, <1>6, CacheFacts DEF CacheInv, PagTypeOK
<1>8. ASSUME watched.told, fetching' >= 0 PROVE fetching' >= promised'
  <2>1. fetching' = fetching /\ fetching >= promised
    BY <1>3, <1>8, CacheFacts DEF CacheInv
  <2>2. LeftRunning
    BY <1>3, <1>8, <2>1, CacheFacts DEF LeftRunning
  <2> QED BY <1>2, <2>1, <2>2
<1>9. ASSUME watched.told, entry' # NoEntry PROVE entry'.invalid
  <2>1. entry # NoEntry /\ entry' = [entry EXCEPT !.invalid = TRUE]
    BY <1>9 DEF AnswerArrives, MarkAndRefetch
  <2>2. entry \in [version : 0..MaxWrites, invalid : BOOLEAN]
    BY <2>1 DEF CacheInv, PagTypeOK
  <2> QED BY <2>1, <2>2
<1>10. (watched.told =>
         /\ fetching >= 0 => fetching >= promised
         /\ entry # NoEntry /\ ~entry.invalid => entry.version >= promised)'
  BY <1>1, <1>8, <1>9
<1> QED BY <1>1, <1>6, <1>7, <1>10 DEF CacheInv

LEMMA CacheStep == CacheInv /\ [PagNext]_pagVars => CacheInv'
<1>1. ASSUME CacheInv, UNCHANGED pagVars PROVE CacheInv'
  BY <1>1 DEF pagVars, CacheInv, PagTypeOK
<1> QED BY <1>1, CacheReads, CacheFills, CacheChanges, CacheAnswered DEF PagNext

\* The hooks mark what their changes change, but for those of Unmarked: a fact
\* about the tables of the pages, which have no parameter.
ChangesAreMarked == \A w \in Watchable : w.told \/ <<w.send, w.get>> \in Unmarked

LEMMA OwnWritesOnly == CacheInv /\ ChangesAreMarked => OwnWritesShow
BY DEF CacheInv, PagTypeOK, ChangesAreMarked, OwnWritesShow

-----------------------------------------------------------------------------
(* A sweep.                                                                 *)

\* The tags a screen has sent are a part of those the device still has, and of
\* two payments one holds the other.
Payload(v) == request[v] # AtRest => request[v].tags \subseteq Listed
Nested(v, w) ==
  request[v] # AtRest /\ request[w] # AtRest =>
    request[v].tags \subseteq request[w].tags \/ request[w].tags \subseteq request[v].tags
SentOnce(v) == completion[v].at # "done" => request[v] = AtRest

\* The report is empty, or that of one screen.
ReportOf(v) ==
  /\ request[v] # AtRest
  /\ \A e \in Tags : report[e] = IF e \in request[v].tags THEN v ELSE NoUpload
ReportEmpty == \A e \in Tags : report[e] = NoUpload

\* What the operator decided is in the row; the known are expected, and a read
\* that would say otherwise was being recorded when he decided.
Decision(e) ==
  e \in decided => rows[e] = "IGNORED" \/ (rows[e] = "KNOWN" /\ e \in expected)
ReadAgrees(v) ==
  reader[v].at = "write" =>
    /\ reader[v].status # "none"
    /\ reader[v].tag \in decided /\ ~reader[v].late => reader[v].status = rows[reader[v].tag]

SweepInv ==
  /\ SwpTypeOK
  /\ opened = {} => decided = {} /\ linking = AtRest
  /\ linking # AtRest => linking.tag \in expected
  /\ \A v \in Screens : Payload(v) /\ SentOnce(v) /\ ReadAgrees(v)
  /\ \A v, w \in Screens : Nested(v, w)
  /\ \A e \in Tags : Decision(e)
  /\ ReportEmpty \/ \E v \in Screens : ReportOf(v)

LEMMA SweepStart == SwpInit => SweepInv
<1> SUFFICES ASSUME SwpInit PROVE SweepInv
  OBVIOUS
<1>1. SwpTypeOK
  BY DEF SwpInit, SwpTypeOK, TagStatus, ReadStates, Completions, UploadStates, AtRest
<1>2. \A v \in Screens : Payload(v) /\ SentOnce(v) /\ ReadAgrees(v)
  BY DEF SwpInit, Payload, SentOnce, ReadAgrees, AtRest
<1>3. \A v, w \in Screens : Nested(v, w)
  BY DEF SwpInit, Nested
<1>4. ReportEmpty
  BY DEF SwpInit, ReportEmpty
<1> QED BY <1>1, <1>2, <1>3, <1>4 DEF SweepInv, SwpInit, Decision

LEMMA SweepFacts ==
  ASSUME SweepInv
  PROVE  /\ rows \in [Tags -> TagStatus] /\ expected \subseteq Tags /\ decided \subseteq Tags
         /\ opened \subseteq Screens
         /\ reader \in [Screens -> ReadStates]
         /\ linking \in {AtRest} \cup [at : {"promote"}, tag : Tags]
         /\ completion \in [Screens -> Completions]
         /\ request \in [Screens -> UploadStates]
         /\ report \in [Tags -> Screens \cup {NoUpload}]
         /\ (opened = {} => decided = {} /\ linking = AtRest)
         /\ (linking # AtRest => linking.tag \in expected)
         /\ \A v \in Screens : Payload(v) /\ SentOnce(v) /\ ReadAgrees(v)
         /\ \A v, w \in Screens : Nested(v, w)
         /\ \A e \in Tags : Decision(e)
         /\ (ReportEmpty \/ \E v \in Screens : ReportOf(v))
         /\ 1 \in Screens /\ 2 \in Screens /\ NoUpload \notin Screens
         /\ AtRest.at = "idle"
BY ScreensAssumption DEF SweepInv, SwpTypeOK, AtRest, NoUpload

\* Where nothing of the uploads moves, what is said of them stays true; rows are
\* never lost.
LEMMA UploadsRest ==
  ASSUME SweepInv, UNCHANGED <<request, report>>, Listed \subseteq Listed',
         \A v \in Screens : completion'[v].at # "done" => completion[v].at # "done"
  PROVE  /\ (\A v \in Screens : Payload(v) /\ SentOnce(v))'
         /\ (\A v, w \in Screens : Nested(v, w))'
         /\ (ReportEmpty \/ \E v \in Screens : ReportOf(v))'
<1>1. (\A v \in Screens : Payload(v) /\ SentOnce(v))'
  BY SweepFacts DEF Payload, SentOnce
<1>2. (\A v, w \in Screens : Nested(v, w))'
  BY SweepFacts DEF Nested
<1>3. (ReportEmpty \/ \E v \in Screens : ReportOf(v))'
  BY SweepFacts DEF ReportEmpty, ReportOf
<1> QED BY <1>1, <1>2, <1>3

\* Where nothing of the decisions moves, what is said of them stays true.
LEMMA DecisionsRest ==
  ASSUME SweepInv, UNCHANGED <<rows, expected, reader, decided>>
  PROVE  (\A v \in Screens : ReadAgrees(v))' /\ (\A e \in Tags : Decision(e))'
BY SweepFacts DEF ReadAgrees, Decision

LEMMA RowsListed ==
  ASSUME SweepInv
  PROVE  /\ UNCHANGED rows => Listed' = Listed
         /\ (\A e \in Tags : rows[e] # "none" => rows'[e] # "none") => Listed \subseteq Listed'
BY DEF Listed

LEMMA SweepOpens ==
  ASSUME SweepInv, StartSession \/ OpenNext
  PROVE  SweepInv'
<1>1. /\ UNCHANGED <<rows, reader, linking, completion, request, report, decided>>
      /\ opened' \subseteq Screens /\ opened' # {} /\ expected' \subseteq Tags
  BY SweepFacts DEF StartSession, OpenNext
<1>2. expected' = expected \/ (decided = {} /\ linking = AtRest)
  BY SweepFacts DEF StartSession, OpenNext
<1>3. SwpTypeOK'
  BY <1>1, SweepFacts DEF SwpTypeOK
<1>4. (\A v \in Screens : ReadAgrees(v))' /\ (\A e \in Tags : Decision(e))'
  BY <1>1, <1>2, SweepFacts DEF ReadAgrees, Decision
<1>5. (linking # AtRest => linking.tag \in expected)'
  BY <1>1, <1>2, SweepFacts
<1>6. (opened = {} => decided = {} /\ linking = AtRest)'
  BY <1>1
<1> QED BY <1>1, <1>3, <1>4, <1>5, <1>6, UploadsRest, RowsListed DEF SweepInv

LEMMA SweepReads ==
  ASSUME SweepInv, NEW v \in Screens, NEW e \in Tags, ReadRow(v, e)
  PROVE  SweepInv'
<1>1. UNCHANGED <<rows, expected, opened, linking, completion, request, report, decided>>
  BY DEF ReadRow
<1>2. PICK s \in Classify(e, rows[e]) :
        reader' = [reader EXCEPT ![v] = [at |-> "write", tag |-> e, status |-> s, late |-> FALSE]]
  BY DEF ReadRow
<1>3. /\ s \in TagStatus /\ s # "none"
      /\ rows[e] = "IGNORED" => s = "IGNORED"
      /\ rows[e] = "KNOWN" /\ e \in expected => s = "KNOWN"
  BY <1>2, SweepFacts DEF Classify, TagStatus
<1>4. reader' \in [Screens -> ReadStates]
  BY <1>2, <1>3, SweepFacts DEF ReadStates
<1>5. SwpTypeOK'
  BY <1>1, <1>4, SweepFacts DEF SwpTypeOK
<1>6. ASSUME NEW w \in Screens PROVE ReadAgrees(w)'
  <2>1. CASE w = v
    BY <1>1, <1>2, <1>3, <2>1, SweepFacts DEF ReadAgrees, Decision
  <2>2. CASE w # v
    BY <1>1, <1>2, <2>2, SweepFacts DEF ReadAgrees
  <2> QED BY <2>1, <2>2
<1>7. (\A d \in Tags : Decision(d))'
  BY <1>1, SweepFacts DEF Decision
<1> QED BY <1>1, <1>5, <1>6, <1>7, SweepFacts, UploadsRest, RowsListed DEF SweepInv

LEMMA SweepRecords ==
  ASSUME SweepInv, NEW v \in Screens, UpsertRow(v)
  PROVE  SweepInv'
<1> DEFINE e == reader[v].tag
<1>1. /\ UNCHANGED <<expected, opened, linking, completion, request, report>>
      /\ rows' = [rows EXCEPT ![e] = reader[v].status]
      /\ decided' = IF rows'[e] = rows[e] THEN decided ELSE decided \ {e}
      /\ reader' = [reader EXCEPT ![v] = AtRest]
      /\ reader[v].at = "write"
  BY DEF UpsertRow
<1>2. e \in Tags /\ reader[v].status \in TagStatus
  BY <1>1, SweepFacts DEF ReadStates
<1> HIDE DEF e
<1>3. /\ rows' \in [Tags -> TagStatus] /\ decided' \subseteq decided
      /\ \A d \in Tags : d \in decided' => rows'[d] = rows[d]
      /\ \A d \in Tags : d # e => rows'[d] = rows[d]
  BY <1>1, <1>2, SweepFacts
<1>4. reader' \in [Screens -> ReadStates] /\ reader'[v] = AtRest
      /\ \A w \in Screens : w # v => reader'[w] = reader[w]
  BY <1>1, SweepFacts DEF ReadStates
<1>5. SwpTypeOK'
  BY <1>1, <1>3, <1>4, SweepFacts DEF SwpTypeOK
<1>6. ASSUME NEW w \in Screens PROVE ReadAgrees(w)'
  <2>1. reader'[w].at = "write" => reader'[w].tag \in Tags
    BY <1>4, SweepFacts DEF ReadStates
  <2> QED BY <1>3, <1>4, <2>1, SweepFacts DEF ReadAgrees
<1>7. (\A d \in Tags : Decision(d))'
  BY <1>1, <1>3, SweepFacts DEF Decision
<1>8. reader[v].status # "none" => Listed \subseteq Listed'
  BY <1>1, <1>2, <1>3, SweepFacts DEF Listed
<1>9. reader[v].status # "none"
  BY <1>1, SweepFacts DEF ReadAgrees
<1>10. (opened = {} => decided = {} /\ linking = AtRest)'
  BY <1>1, <1>3, SweepFacts
<1> QED BY <1>1, <1>5, <1>6, <1>7, <1>8, <1>9, <1>10, SweepFacts, UploadsRest DEF SweepInv

LEMMA SweepDecides ==
  ASSUME SweepInv, NEW e \in Tags, NEW status \in {"IGNORED", "KNOWN"}, SetDecided(e, status),
         expected' = expected, status = "KNOWN" => e \in expected,
         linking' \in {linking, AtRest}, opened # {}
  PROVE  SweepInv'
<1>1. /\ UNCHANGED <<opened, completion, request, report>>
      /\ rows' = [rows EXCEPT ![e] = status] /\ decided' = decided \cup {e}
      /\ reader' = [v \in Screens |->
           IF reader[v] # AtRest /\ reader[v].tag = e THEN [reader[v] EXCEPT !.late = TRUE]
           ELSE reader[v]]
  BY DEF SetDecided
<1>2. /\ rows' \in [Tags -> TagStatus] /\ decided' \subseteq Tags /\ rows'[e] = status
      /\ \A d \in Tags : d # e => rows'[d] = rows[d]
  BY <1>1, SweepFacts DEF TagStatus
<1>3. ASSUME NEW v \in Screens
      PROVE  /\ reader'[v] \in ReadStates
             /\ reader'[v].at = "write" => /\ reader[v].at = "write"
                                           /\ reader'[v].tag = reader[v].tag
                                           /\ reader'[v].status = reader[v].status
                                           /\ reader[v].tag \in Tags
             /\ reader'[v].at = "write" /\ reader[v].tag = e => reader'[v].late = TRUE
             /\ reader'[v].at = "write" /\ reader[v].tag # e => reader'[v] = reader[v]
  <2>1. reader[v] \in ReadStates
    BY SweepFacts
  <2>2. CASE reader[v] = AtRest
    BY <1>1, <2>1, <2>2, SweepFacts
  <2>3. CASE reader[v] # AtRest
    BY <1>1, <2>1, <2>3, SweepFacts DEF ReadStates
  <2> QED BY <2>2, <2>3
<1>4. reader' \in [Screens -> ReadStates]
  BY <1>1, <1>3
<1>5. linking' \in {AtRest} \cup [at : {"promote"}, tag : Tags] /\ (linking' # AtRest => linking' = linking)
  BY SweepFacts
<1>6. SwpTypeOK'
  BY <1>1, <1>2, <1>4, <1>5, SweepFacts DEF SwpTypeOK
<1>7. ASSUME NEW v \in Screens PROVE ReadAgrees(v)'
  BY <1>1, <1>2, <1>3, SweepFacts DEF ReadAgrees
<1>8. (\A d \in Tags : Decision(d))'
  BY <1>1, <1>2, SweepFacts DEF Decision
<1>9. Listed \subseteq Listed'
  BY <1>2 DEF Listed
<1> QED BY <1>1, <1>5, <1>6, <1>7, <1>8, <1>9, SweepFacts, UploadsRest DEF SweepInv

LEMMA SweepLinks ==
  ASSUME SweepInv, NEW e \in Tags, IgnoreTag(e) \/ LinkTag(e) \/ Promote
  PROVE  SweepInv'
<1>1. CASE IgnoreTag(e)
  BY <1>1, SweepDecides DEF IgnoreTag
<1>2. CASE Promote
  <2>1. linking.tag \in Tags /\ linking.tag \in expected /\ linking # AtRest
    BY <1>2, SweepFacts DEF Promote
  <2>2. opened # {} /\ expected' = expected /\ linking' = AtRest /\ SetDecided(linking.tag, "KNOWN")
    BY <1>2, <2>1, SweepFacts DEF Promote
  <2> QED BY <2>1, <2>2, SweepDecides
<1>3. CASE LinkTag(e)
  <2>1. /\ UNCHANGED <<rows, opened, reader, completion, request, report, decided>>
        /\ expected' = expected \cup {e} /\ linking' = [at |-> "promote", tag |-> e] /\ opened # {}
    BY <1>3 DEF LinkTag
  <2>2. SwpTypeOK'
    BY <2>1, SweepFacts DEF SwpTypeOK
  <2>3. (\A v \in Screens : ReadAgrees(v))' /\ (\A d \in Tags : Decision(d))'
    BY <2>1, SweepFacts DEF ReadAgrees, Decision
  <2>4. linking'.tag \in expected'
    BY <2>1
  <2> QED BY <2>1, <2>2, <2>3, <2>4, SweepFacts, UploadsRest, RowsListed DEF SweepInv
<1> QED BY <1>1, <1>2, <1>3

LEMMA SweepCompletes ==
  ASSUME SweepInv, NEW v \in Screens, ListTags(v) \/ MarkMissing(v)
  PROVE  SweepInv'
<1>1. CASE ListTags(v)
  <2>1. /\ UNCHANGED <<rows, expected, opened, reader, linking, request, report, decided>>
        /\ completion' = [completion EXCEPT ![v] = [at |-> "listed", missing |-> expected \ Listed]]
        /\ completion[v] = AtRest
    BY <1>1 DEF ListTags
  <2>2. completion' \in [Screens -> Completions]
    BY <2>1, SweepFacts DEF Completions
  <2>3. \A w \in Screens : completion'[w].at # "done" => completion[w].at # "done"
    BY <2>1, SweepFacts
  <2>4. SwpTypeOK'
    BY <2>1, <2>2, SweepFacts DEF SwpTypeOK
  <2> QED BY <2>1, <2>3, <2>4, SweepFacts, UploadsRest, DecisionsRest, RowsListed DEF SweepInv
<1>2. CASE MarkMissing(v)
  <2> DEFINE gone == completion[v].missing
  <2>1. /\ UNCHANGED <<expected, opened, reader, linking, request, report>>
        /\ rows' = [e \in Tags |-> IF e \in gone THEN "MISSING" ELSE rows[e]]
        /\ decided' = decided \ gone /\ completion[v].at = "listed"
        /\ completion' = [completion EXCEPT ![v] = [at |-> "marked"]]
    BY <1>2 DEF MarkMissing
  <2> HIDE DEF gone
  <2>2. completion' \in [Screens -> Completions]
    BY <2>1, SweepFacts DEF Completions
  <2>3. \A w \in Screens : completion'[w].at # "done" => completion[w].at # "done"
    BY <2>1, SweepFacts
  <2>4. rows' \in [Tags -> TagStatus] /\ decided' \subseteq Tags
    BY <2>1, SweepFacts DEF TagStatus
  <2>5. SwpTypeOK'
    BY <2>1, <2>2, <2>4, SweepFacts DEF SwpTypeOK
  <2>6. \A e \in Tags : e \in decided' => e \in decided /\ rows'[e] = rows[e]
    BY <2>1, SweepFacts
  <2>7. (\A w \in Screens : ReadAgrees(w))' /\ (\A d \in Tags : Decision(d))'
    BY <2>1, <2>4, <2>6, SweepFacts DEF ReadAgrees, Decision
  <2>8. Listed \subseteq Listed'
    BY <2>1 DEF Listed
  <2>9. (opened = {} => decided = {} /\ linking = AtRest)'
    BY <2>1, SweepFacts
  <2> QED BY <2>1, <2>3, <2>5, <2>7, <2>8, <2>9, SweepFacts, UploadsRest DEF SweepInv
<1> QED BY <1>1, <1>2

LEMMA SweepLeaves ==
  ASSUME SweepInv, CloseFirst
  PROVE  SweepInv'
<1>1. /\ UNCHANGED <<rows, expected, request, report, decided>>
      /\ opened' = {2} /\ linking' = AtRest
      /\ reader' = [reader EXCEPT ![1] = AtRest]
      /\ completion' = [completion EXCEPT ![1] = [at |-> "done"]]
  BY DEF CloseFirst
<1>2. reader' \in [Screens -> ReadStates] /\ completion' \in [Screens -> Completions]
  BY <1>1, SweepFacts DEF ReadStates, Completions
<1>3. SwpTypeOK'
  BY <1>1, <1>2, SweepFacts DEF SwpTypeOK
<1>4. \A w \in Screens : completion'[w].at # "done" => completion[w].at # "done"
  BY <1>1, SweepFacts
<1>5. \A w \in Screens : reader'[w].at = "write" => reader'[w] = reader[w]
  BY <1>1, SweepFacts
<1>6. (\A w \in Screens : ReadAgrees(w))' /\ (\A d \in Tags : Decision(d))'
  BY <1>1, <1>5, SweepFacts DEF ReadAgrees, Decision
<1> QED BY <1>1, <1>3, <1>4, <1>6, SweepFacts, UploadsRest, RowsListed DEF SweepInv

LEMMA SweepSends ==
  ASSUME SweepInv, NEW v \in Screens, SendReport(v)
  PROVE  SweepInv'
<1>1. /\ UNCHANGED <<rows, expected, opened, reader, linking, report, decided>>
      /\ completion[v].at = "marked" /\ completion' = [completion EXCEPT ![v] = [at |-> "done"]]
  BY DEF SendReport
<1>2. completion' \in [Screens -> Completions] /\ completion'[v].at = "done"
      /\ \A w \in Screens : w # v => completion'[w] = completion[w]
  BY <1>1, SweepFacts DEF Completions
<1>3. request[v] = AtRest
  BY <1>1, SweepFacts DEF SentOnce
<1>4. Listed \subseteq Tags /\ Listed' = Listed
  BY <1>1 DEF Listed
<1>5. CASE request' = request
  <2>1. SwpTypeOK'
    BY <1>1, <1>2, <1>5, SweepFacts DEF SwpTypeOK
  <2>2. \A w \in Screens : completion'[w].at # "done" => completion[w].at # "done"
    BY <1>2
  <2> QED BY <1>1, <1>4, <1>5, <2>1, <2>2, SweepFacts, UploadsRest, DecisionsRest DEF SweepInv
<1>6. CASE request' = [request EXCEPT ![v] = [at |-> "sent", tags |-> Listed]]
  <2>1. /\ request' \in [Screens -> UploadStates] /\ request'[v].tags = Listed
        /\ \A w \in Screens : w # v => request'[w] = request[w]
    BY <1>4, <1>6, SweepFacts DEF UploadStates
  <2>2. SwpTypeOK'
    BY <1>1, <1>2, <2>1, SweepFacts DEF SwpTypeOK
  <2>3. (\A w \in Screens : Payload(w) /\ SentOnce(w))'
    BY <1>2, <1>4, <2>1, SweepFacts DEF Payload, SentOnce
  <2>4. ASSUME NEW w \in Screens, NEW u \in Screens PROVE Nested(w, u)'
    BY <2>1, SweepFacts DEF Nested, Payload
  <2>5. ASSUME NEW w \in Screens, ReportOf(w) PROVE ReportOf(w)'
    BY <1>1, <1>3, <2>1, <2>5 DEF ReportOf
  <2>6. ReportEmpty => ReportEmpty'
    BY <1>1 DEF ReportEmpty
  <2> QED BY <1>1, <2>2, <2>3, <2>4, <2>5, <2>6, SweepFacts, DecisionsRest DEF SweepInv
<1> QED BY <1>5, <1>6 DEF SendReport

\* A step of an upload at the API.
LEMMA SweepUploads ==
  ASSUME SweepInv, NEW v \in Screens, NEW at \in {"cleared", "ended"},
         request[v].at \in {"sent", "cleared"}, request' = [request EXCEPT ![v].at = at],
         UNCHANGED <<rows, expected, opened, reader, linking, completion, decided>>,
         report' \in [Tags -> Screens \cup {NoUpload}],
         ReportEmpty' \/ \E w \in Screens :
           /\ request[w] # AtRest
           /\ \A e \in Tags : report'[e] = IF e \in request[w].tags THEN w ELSE NoUpload
  PROVE  SweepInv'
<1>1. /\ request' \in [Screens -> UploadStates]
      /\ \A w \in Screens : request'[w] = AtRest <=> request[w] = AtRest
      /\ \A w \in Screens : request[w] # AtRest => request'[w].tags = request[w].tags
  BY SweepFacts DEF UploadStates
<1>2. SwpTypeOK'
  BY <1>1, SweepFacts DEF SwpTypeOK
<1>3. (\A w \in Screens : Payload(w) /\ SentOnce(w))'
  BY <1>1, SweepFacts DEF Payload, SentOnce, Listed
<1>4. (\A w, u \in Screens : Nested(w, u))'
  BY <1>1, SweepFacts DEF Nested
<1>5. (ReportEmpty \/ \E w \in Screens : ReportOf(w))'
  BY <1>1 DEF ReportOf
<1> QED BY <1>2, <1>3, <1>4, <1>5, SweepFacts, DecisionsRest DEF SweepInv

LEMMA SweepReports ==
  ASSUME SweepInv, NEW v \in Screens, ClearTags(v) \/ InsertTags(v) \/ FailReport(v)
  PROVE  SweepInv'
<1>1. CASE ClearTags(v)
  <2>1. ReportEmpty' /\ report' \in [Tags -> Screens \cup {NoUpload}]
    BY <1>1 DEF ClearTags, ReportEmpty
  <2> QED BY <1>1, <2>1, SweepUploads DEF ClearTags
<1>2. CASE FailReport(v)
  <2>1. report' = report
    BY <1>2 DEF FailReport
  <2>2. ReportEmpty' \/ \E w \in Screens :
           /\ request[w] # AtRest
           /\ \A e \in Tags : report'[e] = IF e \in request[w].tags THEN w ELSE NoUpload
    BY <2>1, SweepFacts DEF ReportEmpty, ReportOf
  <2> QED BY <1>2, <2>1, <2>2, SweepFacts, SweepUploads DEF FailReport
<1>3. CASE InsertTags(v)
  <2> DEFINE tags == request[v].tags
  <2>1. /\ request[v].at = "cleared" /\ request' = [request EXCEPT ![v].at = "ended"]
        /\ UNCHANGED <<rows, expected, opened, reader, linking, completion, decided>>
        /\ report' = IF \E e \in tags : report[e] # NoUpload THEN report
                     ELSE [e \in Tags |-> IF e \in tags THEN v ELSE report[e]]
    BY <1>3 DEF InsertTags
  <2>2. request[v] # AtRest /\ tags \subseteq Tags
    BY <2>1, SweepFacts DEF Payload, Listed
  <2>3. report' \in [Tags -> Screens \cup {NoUpload}]
    BY <2>1, SweepFacts
  <2>4. CASE \E e \in tags : report[e] # NoUpload
    <3>1. ReportEmpty' \/ \E w \in Screens :
             /\ request[w] # AtRest
             /\ \A e \in Tags : report'[e] = IF e \in request[w].tags THEN w ELSE NoUpload
      BY <2>1, <2>4, SweepFacts DEF ReportEmpty, ReportOf
    <3> QED BY <2>1, <2>3, <3>1, SweepUploads
  <2>5. CASE ReportEmpty
    <3>1. \A e \in Tags : report'[e] = IF e \in request[v].tags THEN v ELSE NoUpload
      BY <2>1, <2>2, <2>5 DEF ReportEmpty
    <3> QED BY <2>1, <2>2, <2>3, <3>1, SweepUploads
  <2>6. ASSUME NEW w \in Screens, ReportOf(w), \A e \in tags : report[e] = NoUpload
        PROVE  SweepInv'
    \* The tags of the two are nested, so one of them has none.
    <3>1. tags \cap request[w].tags = {}
      BY <2>2, <2>6, SweepFacts DEF ReportOf
    <3>2. tags \subseteq request[w].tags \/ request[w].tags \subseteq tags
      BY <2>2, <2>6, SweepFacts DEF Nested, ReportOf
    <3>3. CASE tags = {}
      <4>1. \A e \in Tags : report'[e] = IF e \in request[w].tags THEN w ELSE NoUpload
        BY <2>1, <2>6, <3>3 DEF ReportOf
      <4> QED BY <2>1, <2>3, <2>6, <4>1, SweepUploads DEF ReportOf
    <3>4. CASE request[w].tags = {}
      <4>1. \A e \in Tags : report'[e] = IF e \in request[v].tags THEN v ELSE NoUpload
        BY <2>1, <2>6, <3>4 DEF ReportOf
      <4> QED BY <2>1, <2>2, <2>3, <4>1, SweepUploads
    <3> QED BY <3>1, <3>2, <3>3, <3>4
  <2> QED BY <2>4, <2>5, <2>6, SweepFacts
<1> QED BY <1>1, <1>2, <1>3

LEMMA SweepStep == SweepInv /\ [SwpNext]_swpVars => SweepInv'
<1> SUFFICES ASSUME SweepInv, [SwpNext]_swpVars PROVE SweepInv'
  OBVIOUS
<1>1. CASE UNCHANGED swpVars
  <2>1. UNCHANGED <<rows, expected, opened, reader, linking, completion, request, report, decided>>
    BY <1>1 DEF swpVars
  <2>2. SwpTypeOK'
    BY <2>1, SweepFacts DEF SwpTypeOK
  <2> QED BY <2>1, <2>2, SweepFacts, UploadsRest, DecisionsRest, RowsListed DEF SweepInv
<1>2. CASE Promote
  <2>1. linking.tag \in Tags
    BY <1>2, SweepFacts DEF Promote
  <2> QED BY <1>2, <2>1, SweepLinks
<1> QED BY <1>1, <1>2, SweepOpens, SweepReads, SweepRecords, SweepLinks, SweepCompletes, SweepLeaves,
           SweepSends, SweepReports DEF SwpNext

LEMMA ReportWholeOnly == SweepInv => ReportIsWhole
<1> SUFFICES ASSUME SweepInv PROVE ReportIsWhole
  OBVIOUS
<1>1. CASE ReportEmpty
  BY <1>1 DEF ReportEmpty, ReportIsWhole
<1>2. ASSUME NEW v \in Screens, ReportOf(v) PROVE ReportIsWhole
  BY <1>2, SweepFacts DEF ReportOf, ReportIsWhole
<1> QED BY <1>1, <1>2, SweepFacts

\* A decision is undone only by who may.
LEMMA DecisionsOnly ==
  ASSUME SweepInv, [SwpNext]_swpVars, NEW e \in Tags
  PROVE  DecisionHolds(e)
<1> SUFFICES ASSUME e \in decided, rows'[e] # rows[e], e \notin decided'
             PROVE  DecisionHolds(e)
  BY DEF DecisionHolds
<1>1. ASSUME NEW v \in Screens, UpsertRow(v) PROVE DecisionHolds(e)
  <2>1. reader[v].at = "write" /\ reader[v].tag = e /\ rows'[e] = reader[v].status
    BY <1>1, SweepFacts DEF UpsertRow, ReadStates
  <2>2. reader[v].late \in BOOLEAN
    BY <2>1, SweepFacts DEF ReadStates
  <2> QED BY <2>1, <2>2, SweepFacts DEF ReadAgrees, DecisionHolds
<1>2. ASSUME NEW v \in Screens, MarkMissing(v) PROVE DecisionHolds(e)
  BY <1>2 DEF MarkMissing, DecisionHolds
<1>3. rows' = rows \/ (\E v \in Screens : UpsertRow(v) \/ MarkMissing(v)) \/ decided \subseteq decided'
  BY DEF SwpNext, swpVars, StartSession, OpenNext, CloseFirst, ReadRow, IgnoreTag, LinkTag, Promote,
         SetDecided, ListTags, SendReport, ClearTags, InsertTags, FailReport
<1> QED BY <1>1, <1>2, <1>3

-----------------------------------------------------------------------------
(* Photos.  A sender is about to remove what the server has; a call    *)
(* that still has a caller answers the one sender that waits for it; and    *)
(* the uploads that have counted the photos leave room for one another.     *)

\* A sender has a photo that was taken, and removes one that the server has.
SenderFits(s) ==
  sender[s] # Quiet =>
    /\ sender[s].photo \in Taken
    /\ sender[s].at \in {"accepted", "cleanup"} => sender[s].photo \in reached

\* The call of request r still has a caller, who is waiting for it.
Calling(r) == phoReq[r] # Quiet /\ phoReq[r].caller # NoCaller

CallFits(r) ==
  Calling(r) =>
    /\ sender[phoReq[r].caller] # Quiet
    /\ sender[phoReq[r].caller].at = "wait"
    /\ sender[phoReq[r].caller].photo = phoReq[r].photo

Calls ==
  /\ \A r \in Requests : CallFits(r)
  /\ \A r1, r2 \in Requests :
       Calling(r1) /\ Calling(r2) /\ phoReq[r1].caller = phoReq[r2].caller => r1 = r2

Sending ==
  /\ \A s \in Senders : SenderFits(s)
  /\ \A s \in Photos \ Taken : sender[s] = Quiet

Batches == \A w \in Workers : drain[w].batch \subseteq Taken

Discarding == discarding # Quiet => discarding.photo \in discarded \cap Taken

Kept == \A p \in Taken : (queue[p].row # "none" /\ queue[p].file) \/ p \in reached \/ p \in discarded

CountedCalls == {r \in Requests : phoReq[r].at = "counted"}
WithinLimit  == stored + Cardinality(CountedCalls) <= PhotoLimit + Cardinality(Requests) - 1

\* The inductive invariant of PhotoOutbox.
PhotoInv ==
  PhoTypeOK /\ Sending /\ Calls /\ Batches /\ Discarding /\ Kept /\ WithinLimit

LEMMA SenderKinds ==
  /\ \A s \in Workers : s \notin Photos
  /\ NoCaller \notin Senders
  /\ \A p \in Photos : p \in Nat /\ p \in Senders
<1>1. \A s \in Workers : s \in Int /\ s < 0
  BY PhotosAssumption DEF Workers
<1>2. \A p \in Photos : p \in Nat /\ p > 0
  BY PhotosAssumption DEF Photos
<1> QED BY <1>1, <1>2 DEF Senders, NoCaller

LEMMA PhotoFacts ==
  ASSUME PhotoInv
  PROVE  /\ queue \in Seq(QueuedPhoto) /\ Len(queue) \in Nat /\ Len(queue) <= MaxPhotos
         /\ Taken = 1..Len(queue) /\ Taken \subseteq Photos
         /\ \A p \in Taken : queue[p] \in QueuedPhoto
         /\ sender \in [Senders -> SenderStates] /\ drain \in [Workers -> Drain]
         /\ discarding \in Discards /\ discarded \subseteq Photos
         /\ stored \in 0..MaxStored /\ reached \subseteq Photos
         /\ phoReq \in [Requests -> PhoStates]
         /\ Sending /\ Calls /\ Batches /\ Discarding /\ Kept /\ WithinLimit
<1>1. queue \in Seq(QueuedPhoto) /\ Len(queue) <= MaxPhotos
  BY DEF PhotoInv, PhoTypeOK
<1>2. Len(queue) \in Nat /\ DOMAIN queue = 1..Len(queue) /\ \A p \in 1..Len(queue) : queue[p] \in QueuedPhoto
  BY <1>1, LenProperties, ElementOfSeq
<1>3. Taken = 1..Len(queue) /\ Taken \subseteq Photos
  BY <1>1, <1>2, PhotosAssumption DEF Taken, Photos
<1> QED BY <1>1, <1>2, <1>3 DEF PhotoInv, PhoTypeOK

LEMMA PhotoTyped ==
  ASSUME queue' \in Seq(QueuedPhoto), Len(queue)' <= MaxPhotos,
         sender' \in [Senders -> SenderStates], drain' \in [Workers -> Drain],
         discarding' \in Discards, discarded' \subseteq Photos, stored' \in 0..MaxStored,
         reached' \subseteq Photos, phoReq' \in [Requests -> PhoStates],
         Sending', Calls', Batches', Discarding', Kept', WithinLimit'
  PROVE  PhotoInv'
BY DEF PhotoInv, PhoTypeOK

LEMMA PhotoStart == PhoInit => PhotoInv
<1> SUFFICES ASSUME PhoInit PROVE PhotoInv
  OBVIOUS
<1>1. /\ queue = <<>> /\ sender = [s \in Senders |-> Quiet] /\ drain = [w \in Workers |-> Resting]
      /\ discarding = Quiet /\ discarded = {} /\ stored = 0 /\ reached = {}
      /\ phoReq = [r \in Requests |-> Quiet]
  BY DEF PhoInit
<1>2. queue \in Seq(QueuedPhoto) /\ Len(queue) = 0 /\ Taken = {}
  BY <1>1 DEF Taken
<1>3. PhoTypeOK
  <2>1. Resting \in Drain
    BY DEF Resting, Drain
  <2>2. 0 \in 0..MaxStored /\ 0 <= MaxPhotos
    BY PhotosAssumption
  <2> QED BY <1>1, <1>2, <2>1, <2>2 DEF PhoTypeOK, SenderStates, Discards, PhoStates
<1>4. Sending /\ Calls /\ Batches /\ Discarding /\ Kept
  <2>1. \A s \in Photos : s \in Senders
    BY DEF Senders
  <2>2. Sending /\ Calls /\ Discarding
    BY <1>1, <1>2, <2>1 DEF Sending, SenderFits, Calls, CallFits, Calling, Discarding
  <2>3. Batches /\ Kept
    BY <1>1, <1>2 DEF Batches, Kept, Resting
  <2> QED BY <2>2, <2>3
<1>5. WithinLimit
  <2>1. CountedCalls = {}
    BY <1>1 DEF CountedCalls, Quiet
  <2>2. Cardinality(Requests) \in Nat /\ Cardinality(Requests) # 0
    BY RequestsAssumption, FS_CardinalityType, FS_EmptySet
  <2> QED BY <1>1, <2>1, <2>2, FS_EmptySet, PhotosAssumption DEF WithinLimit
<1> QED BY <1>3, <1>4, <1>5 DEF PhotoInv

\* A photo's row or file changes.
LEMMA PhotoChanged ==
  ASSUME PhotoInv, NEW p \in Taken, NEW e \in QueuedPhoto, queue' = [queue EXCEPT ![p] = e]
  PROVE  /\ queue' \in Seq(QueuedPhoto) /\ Len(queue') = Len(queue) /\ Taken' = Taken
         /\ queue'[p] = e /\ \A k \in Taken : k # p => queue'[k] = queue[k]
<1>1. queue \in Seq(QueuedPhoto) /\ p \in 1..Len(queue) /\ Taken = 1..Len(queue)
  BY PhotoFacts
<1>2. /\ queue' \in Seq(QueuedPhoto) /\ Len(queue') = Len(queue)
      /\ \A j \in 1..Len(queue) : queue'[j] = IF j = p THEN e ELSE queue[j]
  BY <1>1, ExceptSeq
<1>3. DOMAIN queue' = DOMAIN queue
  OBVIOUS
<1> QED BY <1>1, <1>2, <1>3 DEF Taken

\* What an update of a photo leaves is kept, when the photo may go or does not.
LEMMA PhotoMarked ==
  ASSUME PhotoInv, NEW p \in Taken, NEW state \in LivePhoto \cup {"none", "dead"}, MarkPhoto(p, state),
         reached' = reached, discarded' = discarded,
         state = "none" => p \in reached
  PROVE  queue' \in Seq(QueuedPhoto) /\ Len(queue') = Len(queue) /\ Taken' = Taken /\ Kept'
<1>1. CASE queue[p].row = "none"
  <2>1. queue' = queue
    BY <1>1 DEF MarkPhoto
  <2>2. Taken' = Taken
    BY <2>1 DEF Taken
  <2> QED BY <2>1, <2>2, PhotoFacts DEF Kept
<1>2. CASE queue[p].row # "none"
  <2>1. PICK a : a = queue[p]
    OBVIOUS
  <2>2. PICK e : e = [a EXCEPT !.row = state]
    OBVIOUS
  <2>3. queue' = [queue EXCEPT ![p] = e] /\ a \in QueuedPhoto
    BY <1>2, <2>1, <2>2, PhotoFacts DEF MarkPhoto
  <2>4. e \in QueuedPhoto /\ e.row = state /\ e.file = a.file
    BY <2>2, <2>3 DEF QueuedPhoto
  <2>5. /\ queue' \in Seq(QueuedPhoto) /\ Len(queue') = Len(queue) /\ Taken' = Taken
        /\ queue'[p] = e /\ \A k \in Taken : k # p => queue'[k] = queue[k]
    BY <2>3, <2>4, PhotoChanged
  <2>6. Kept
    BY PhotoFacts
  <2>7. (e.row # "none" /\ e.file) \/ p \in reached \/ p \in discarded
    BY <1>2, <2>1, <2>4, <2>6 DEF Kept
  <2>8. Kept'
    BY <2>5, <2>6, <2>7 DEF Kept
  <2> QED BY <2>5, <2>8
<1> QED BY <1>1, <1>2

LEMMA FilesGo ==
  ASSUME PhotoInv, NEW p \in Taken, queue' = [queue EXCEPT ![p].file = FALSE],
         reached' = reached, discarded' = discarded, p \in reached \cup discarded
  PROVE  queue' \in Seq(QueuedPhoto) /\ Len(queue') = Len(queue) /\ Taken' = Taken /\ Kept'
<1>1. PICK a : a = queue[p]
  OBVIOUS
<1>2. PICK e : e = [a EXCEPT !.file = FALSE]
  OBVIOUS
<1>3. queue' = [queue EXCEPT ![p] = e] /\ a \in QueuedPhoto
  BY <1>1, <1>2, PhotoFacts
<1>4. e \in QueuedPhoto
  BY <1>2, <1>3 DEF QueuedPhoto
<1>5. /\ queue' \in Seq(QueuedPhoto) /\ Len(queue') = Len(queue) /\ Taken' = Taken
      /\ \A k \in Taken : k # p => queue'[k] = queue[k]
  BY <1>3, <1>4, PhotoChanged
<1>6. Kept'
  BY <1>5, PhotoFacts DEF Kept
<1> QED BY <1>5, <1>6

\* The counted requests are no more, nor are the photos at the server.
LEMMA LimitHolds ==
  ASSUME PhotoInv, \A r \in Requests : phoReq'[r].at = "counted" => phoReq[r].at = "counted", stored' = stored
  PROVE  WithinLimit'
<1>1. CountedCalls' \subseteq CountedCalls /\ CountedCalls \subseteq Requests
  BY DEF CountedCalls
<1>2. IsFiniteSet(CountedCalls)
  BY <1>1, RequestsAssumption, FS_Subset
<1>3. /\ Cardinality(CountedCalls') <= Cardinality(CountedCalls) /\ Cardinality(CountedCalls) \in Nat
      /\ Cardinality(CountedCalls') \in Nat /\ Cardinality(Requests) \in Nat
  BY <1>1, <1>2, RequestsAssumption, FS_Subset, FS_CardinalityType
<1>4. WithinLimit /\ stored \in Nat
  BY PhotoFacts, PhotosAssumption
<1>5. stored + Cardinality(CountedCalls') <= PhotoLimit + Cardinality(Requests) - 1
  BY <1>3, <1>4, PhotosAssumption DEF WithinLimit
<1> QED BY <1>5 DEF WithinLimit

\* A sender moves on; the calls of the others stay, and one of its own, if any,
\* is what it waits for.
LEMMA SenderMoves ==
  ASSUME PhotoInv, NEW s \in Senders, NEW b \in SenderStates, sender' = [sender EXCEPT ![s] = b],
         Taken \subseteq Taken', reached \subseteq reached',
         b # Quiet => b.photo \in Taken' /\ (b.at \in {"accepted", "cleanup"} => b.photo \in reached'),
         s \in Photos \ Taken' => b = Quiet,
         phoReq' \in [Requests -> PhoStates],
         \A r \in Requests :
           Calling(r)' => \/ phoReq'[r].caller = s /\ b # Quiet /\ b.at = "wait" /\ b.photo = phoReq'[r].photo
                          \/ /\ phoReq'[r].caller # s /\ Calling(r)
                             /\ phoReq'[r].caller = phoReq[r].caller /\ phoReq'[r].photo = phoReq[r].photo,
         \A r1, r2 \in Requests :
           Calling(r1)' /\ Calling(r2)' /\ phoReq'[r1].caller = s /\ phoReq'[r2].caller = s => r1 = r2
  PROVE  sender' \in [Senders -> SenderStates] /\ Sending' /\ Calls'
<1>1. /\ sender' \in [Senders -> SenderStates] /\ sender'[s] = b
      /\ \A c \in Senders : c # s => sender'[c] = sender[c]
  BY PhotoFacts
<1>2. ASSUME NEW c \in Senders PROVE SenderFits(c)'
  <2>1. CASE c = s
    BY <1>1, <2>1 DEF SenderFits
  <2>2. CASE c # s
    BY <1>1, <2>2, PhotoFacts DEF SenderFits, Sending
  <2> QED BY <2>1, <2>2
<1>3. ASSUME NEW p \in Photos \ Taken' PROVE sender'[p] = Quiet
  BY <1>1, PhotoFacts DEF Sending, Senders
<1>4. Sending'
  BY <1>2, <1>3 DEF Sending
<1>5. ASSUME NEW r \in Requests, Calling(r)' PROVE phoReq'[r].caller \in Senders
  BY <1>5 DEF Calling, PhoStates
<1>6. ASSUME NEW r \in Requests PROVE CallFits(r)'
  <2>1. CASE ~Calling(r)'
    BY <2>1 DEF CallFits
  <2>2. CASE Calling(r)' /\ phoReq'[r].caller = s
    BY <1>1, <2>2 DEF CallFits
  <2>3. CASE Calling(r)' /\ phoReq'[r].caller # s
    <3>1. /\ Calling(r) /\ phoReq'[r].caller = phoReq[r].caller /\ phoReq'[r].photo = phoReq[r].photo
          /\ CallFits(r)
      BY <2>3, PhotoFacts DEF Calls
    <3>2. sender'[phoReq'[r].caller] = sender[phoReq[r].caller]
      BY <1>1, <1>5, <2>3, <3>1
    <3> QED BY <3>1, <3>2 DEF CallFits
  <2> QED BY <2>1, <2>2, <2>3
<1>7. ASSUME NEW r1 \in Requests, NEW r2 \in Requests, Calling(r1)', Calling(r2)',
             phoReq'[r1].caller = phoReq'[r2].caller
      PROVE  r1 = r2
  <2>1. CASE phoReq'[r1].caller = s
    BY <1>7, <2>1
  <2>2. CASE phoReq'[r1].caller # s
    BY <1>7, <2>2, PhotoFacts DEF Calls
  <2> QED BY <2>1, <2>2
<1>8. Calls'
  BY <1>6, <1>7 DEF Calls
<1> QED BY <1>1, <1>4, <1>8

\* A sender moves on that waits for no call.
LEMMA LoneSenderMoves ==
  ASSUME PhotoInv, NEW s \in Senders, sender[s] = Quiet \/ sender[s].at # "wait",
         NEW b \in SenderStates, sender' = [sender EXCEPT ![s] = b], phoReq' = phoReq,
         Taken \subseteq Taken', reached' = reached,
         b # Quiet => b.photo \in Taken' /\ (b.at \in {"accepted", "cleanup"} => b.photo \in reached'),
         s \in Photos \ Taken' => b = Quiet
  PROVE  sender' \in [Senders -> SenderStates] /\ Sending' /\ Calls'
<1>1. ASSUME NEW r \in Requests, Calling(r)'
      PROVE  /\ phoReq'[r].caller # s /\ Calling(r)
             /\ phoReq'[r].caller = phoReq[r].caller /\ phoReq'[r].photo = phoReq[r].photo
  BY <1>1, PhotoFacts DEF Calling, Calls, CallFits
<1>2. \A r1, r2 \in Requests :
        Calling(r1)' /\ Calling(r2)' /\ phoReq'[r1].caller = s /\ phoReq'[r2].caller = s => r1 = r2
  BY <1>1
<1>3. phoReq' \in [Requests -> PhoStates] /\ reached \subseteq reached'
  BY PhotoFacts
<1>4. \A r \in Requests :
        Calling(r)' => \/ phoReq'[r].caller = s /\ b # Quiet /\ b.at = "wait" /\ b.photo = phoReq'[r].photo
                       \/ /\ phoReq'[r].caller # s /\ Calling(r)
                          /\ phoReq'[r].caller = phoReq[r].caller /\ phoReq'[r].photo = phoReq[r].photo
  BY <1>1
<1> QED BY <1>2, <1>3, <1>4, SenderMoves

\* A sender moves on and leaves its calls.
LEMMA LeavingSenderMoves ==
  ASSUME PhotoInv, NEW s \in Senders, LeaveCalls(s),
         NEW b \in SenderStates, sender' = [sender EXCEPT ![s] = b], queue' = queue, reached' = reached,
         b # Quiet => /\ b.photo \in Taken /\ b.at \notin {"accepted", "cleanup"}
                      /\ s \notin Photos \ Taken
  PROVE  /\ sender' \in [Senders -> SenderStates] /\ Sending' /\ Calls' /\ phoReq' \in [Requests -> PhoStates]
         /\ \A r \in Requests : phoReq'[r].at = "counted" => phoReq[r].at = "counted"
<1>1. ASSUME NEW r \in Requests
      PROVE  /\ phoReq'[r] \in PhoStates
             /\ phoReq'[r].at = phoReq[r].at
             /\ Calling(r)' => /\ phoReq'[r].caller # s /\ Calling(r)
                               /\ phoReq'[r].caller = phoReq[r].caller /\ phoReq'[r].photo = phoReq[r].photo
  <2>1. PICK a : a = phoReq[r]
    OBVIOUS
  <2>2. a \in PhoStates
    BY <2>1, PhotoFacts
  <2>3. CASE a # Quiet /\ a.caller = s
    <3>1. PICK b1 : b1 = [a EXCEPT !.caller = NoCaller]
      OBVIOUS
    <3>2. phoReq'[r] = b1
      BY <2>1, <2>3, <3>1 DEF LeaveCalls
    <3>3. b1 \in PhoStates /\ b1.at = a.at /\ b1.caller = NoCaller
      BY <2>2, <2>3, <3>1 DEF PhoStates
    <3> QED BY <2>1, <3>2, <3>3 DEF Calling
  <2>4. CASE ~(a # Quiet /\ a.caller = s)
    <3>1. phoReq'[r] = a
      BY <2>1, <2>4 DEF LeaveCalls
    <3> QED BY <2>1, <2>2, <2>4, <3>1 DEF Calling
  <2> QED BY <2>3, <2>4
<1>2. phoReq' \in [Requests -> PhoStates]
  <2>1. phoReq' = [r \in Requests |-> phoReq'[r]]
    BY DEF LeaveCalls
  <2> QED BY <1>1, <2>1
<1>3. Taken' = Taken
  BY DEF Taken
<1>4. \A r1, r2 \in Requests :
        Calling(r1)' /\ Calling(r2)' /\ phoReq'[r1].caller = s /\ phoReq'[r2].caller = s => r1 = r2
  BY <1>1
<1>5. \A r \in Requests :
        Calling(r)' => \/ phoReq'[r].caller = s /\ b # Quiet /\ b.at = "wait" /\ b.photo = phoReq'[r].photo
                       \/ /\ phoReq'[r].caller # s /\ Calling(r)
                          /\ phoReq'[r].caller = phoReq[r].caller /\ phoReq'[r].photo = phoReq[r].photo
  BY <1>1
<1>6. /\ b # Quiet => b.photo \in Taken' /\ (b.at \in {"accepted", "cleanup"} => b.photo \in reached')
      /\ s \in Photos \ Taken' => b = Quiet
  BY <1>3
<1>7. sender' \in [Senders -> SenderStates] /\ Sending' /\ Calls'
  BY <1>2, <1>3, <1>4, <1>5, <1>6, SenderMoves
<1> QED BY <1>1, <1>2, <1>7

\* Nothing but the calls moves, and none gets a caller.
LEMMA CallsDrop ==
  ASSUME PhotoInv, sender' = sender, queue' = queue, reached \subseteq reached',
         \A r \in Requests :
           Calling(r)' => /\ Calling(r)
                          /\ phoReq'[r].caller = phoReq[r].caller /\ phoReq'[r].photo = phoReq[r].photo
  PROVE  sender' \in [Senders -> SenderStates] /\ Sending' /\ Calls'
<1>1. Taken' = Taken
  BY DEF Taken
<1>2. Sending'
  BY <1>1, PhotoFacts DEF Sending, SenderFits
<1>3. ASSUME NEW r \in Requests PROVE CallFits(r)'
  BY PhotoFacts DEF Calls, CallFits
<1>4. \A r1, r2 \in Requests :
        Calling(r1)' /\ Calling(r2)' /\ phoReq'[r1].caller = phoReq'[r2].caller => r1 = r2
  BY PhotoFacts DEF Calls
<1> QED BY <1>2, <1>3, <1>4, PhotoFacts DEF Calls

LEMMA PhotoTaken ==
  ASSUME PhotoInv, TakePhoto
  PROVE  PhotoInv'
<1>1. PICK p : p = Len(queue) + 1
  OBVIOUS
<1>2. PICK e : e = [row |-> "pending", file |-> TRUE]
  OBVIOUS
<1>3. PICK b : b = [at |-> "send", photo |-> p]
  OBVIOUS
<1>4. /\ p <= MaxPhotos /\ queue' = Append(queue, e) /\ sender' = [sender EXCEPT ![p] = b]
      /\ UNCHANGED <<drain, discarding, discarded, stored, reached, phoReq>>
  BY <1>1, <1>2, <1>3 DEF TakePhoto, SetSender
<1>5. p \in Photos /\ p \notin Taken /\ p \in Senders /\ p \in Nat
  BY <1>1, <1>4, PhotoFacts, PhotosAssumption DEF Photos, Senders
<1>6. e \in QueuedPhoto /\ e.row # "none" /\ e.file
  BY <1>2 DEF QueuedPhoto, LivePhoto
<1>7. /\ queue' \in Seq(QueuedPhoto) /\ Len(queue') = p
      /\ \A i \in 1..Len(queue) : queue'[i] = queue[i]
      /\ queue'[p] = e
  BY <1>1, <1>4, <1>6, PhotoFacts, AppendProperties
<1>8. Taken' = 1..p /\ Taken' = Taken \cup {p}
  <2>1. DOMAIN queue' = 1..p
    BY <1>7, LenProperties
  <2>2. Len(queue) \in Nat /\ Taken = 1..Len(queue)
    BY PhotoFacts
  <2> QED BY <1>1, <2>1, <2>2 DEF Taken
<1>9. b \in SenderStates /\ b.photo = p /\ b.at = "send"
  BY <1>3, <1>5 DEF SenderStates
<1>10. sender[p] = Quiet
  BY <1>5, PhotoFacts DEF Sending
<1>11. sender' \in [Senders -> SenderStates] /\ Sending' /\ Calls'
  <2>1. b # Quiet => b.photo \in Taken' /\ (b.at \in {"accepted", "cleanup"} => b.photo \in reached')
    BY <1>8, <1>9
  <2>2. p \in Photos \ Taken' => b = Quiet
    BY <1>8
  <2>3. Taken \subseteq Taken'
    BY <1>8
  <2> QED BY <1>4, <1>5, <1>9, <1>10, <2>1, <2>2, <2>3, LoneSenderMoves
<1>12. Kept'
  BY <1>4, <1>6, <1>7, <1>8, PhotoFacts DEF Kept
<1>13. Batches' /\ Discarding'
  BY <1>4, <1>8, PhotoFacts DEF Batches, Discarding
<1>14. WithinLimit'
  BY <1>4, LimitHolds
<1>15. Len(queue)' <= MaxPhotos
  BY <1>4, <1>7
<1> QED BY <1>4, <1>7, <1>11, <1>12, <1>13, <1>14, <1>15, PhotoFacts, PhotoTyped

\* What is so when the queue and the server's photos rest.
LEMMA QueueRests ==
  ASSUME PhotoInv, UNCHANGED <<queue, discarding, discarded, stored, reached>>
  PROVE  /\ queue' \in Seq(QueuedPhoto) /\ Len(queue)' <= MaxPhotos /\ Taken' = Taken
         /\ discarding' \in Discards /\ discarded' \subseteq Photos /\ stored' \in 0..MaxStored
         /\ reached' \subseteq Photos /\ Discarding' /\ Kept'
<1>1. Taken' = Taken
  BY DEF Taken
<1> QED BY <1>1, PhotoFacts DEF Discarding, Kept

LEMMA DrainFields ==
  ASSUME PhotoInv, NEW w \in Workers
  PROVE  /\ drain[w] \in Drain /\ drain[w].on \in BOOLEAN
         /\ drain[w].batch \subseteq Photos /\ drain[w].seen \subseteq Photos
         /\ drain[w].batch \subseteq Taken
         /\ w \in Senders /\ w \notin Photos
BY PhotoFacts, SenderKinds DEF Drain, Batches, Senders

LEMMA DrainMoves ==
  ASSUME PhotoInv, NEW w \in Workers, NEW d \in Drain, d.batch \subseteq Taken,
         drain' = [drain EXCEPT ![w] = d], queue' = queue
  PROVE  drain' \in [Workers -> Drain] /\ Batches'
<1>1. Taken' = Taken
  BY DEF Taken
<1> QED BY <1>1, PhotoFacts DEF Batches

LEMMA LeastPhoto ==
  ASSUME NEW S \in SUBSET Nat, S # {}
  PROVE  Min(S) \in S
<1> DEFINE R == OpToRel(<, Nat)
<1>1. IsWellFoundedOn(R, Nat)
  BY NatLessThanWellFounded
<1>2. PICK t \in S : \A u \in S : <<u, t>> \notin R
  <2> HIDE DEF R
  <2> QED BY <1>1, WFMin
<1>3. \A u \in S : ~(u < t)
  BY <1>2 DEF OpToRel
<1>4. \A u \in S : t =< u
  <2> HIDE DEF R
  <2> QED BY <1>3
<1> QED BY <1>2, <1>4 DEF Min

LEMMA DrainSteps ==
  ASSUME PhotoInv, NEW w \in Workers, StartDrain(w) \/ ReadBatch(w)
  PROVE  PhotoInv'
<1>1. UNCHANGED <<queue, sender, discarding, discarded, stored, reached, phoReq>>
  BY DEF StartDrain, ReadBatch
<1>2. drain' \in [Workers -> Drain] /\ Batches'
  <2>1. PICK a : a = drain[w]
    OBVIOUS
  <2>2. a \in Drain /\ a.batch \subseteq Taken /\ Taken \subseteq Photos
    BY <2>1, DrainFields, PhotoFacts
  <2>3. CASE StartDrain(w)
    <3>1. PICK d : d = [a EXCEPT !.on = TRUE]
      OBVIOUS
    <3>2. drain' = [drain EXCEPT ![w] = d]
      BY <2>1, <2>3, <3>1 DEF StartDrain
    <3>3. d \in Drain /\ d.batch \subseteq Taken
      BY <2>2, <3>1 DEF Drain
    <3> QED BY <1>1, <3>2, <3>3, DrainMoves
  <2>4. CASE ReadBatch(w)
    <3>1. PICK found : found = {p \in Taken : queue[p].row \in LivePhoto} \ a.seen
      OBVIOUS
    <3>2. PICK d : d = IF found = {} THEN Resting ELSE [a EXCEPT !.batch = found]
      OBVIOUS
    <3>3. drain' = [drain EXCEPT ![w] = d]
      BY <2>1, <2>4, <3>1, <3>2 DEF ReadBatch
    <3>4. found \subseteq Taken
      BY <3>1
    <3>5. d \in Drain /\ d.batch \subseteq Taken
      <4>1. Resting \in Drain /\ Resting.batch = {}
        BY DEF Resting, Drain
      <4>2. found # {} => d = [a EXCEPT !.batch = found]
        BY <3>2
      <4>3. found # {} => d \in Drain /\ d.batch = found
        BY <2>2, <3>4, <4>2 DEF Drain
      <4> QED BY <3>2, <3>4, <4>1, <4>3
    <3> QED BY <1>1, <3>3, <3>5, DrainMoves
  <2> QED BY <2>3, <2>4
<1>3. sender' \in [Senders -> SenderStates] /\ Sending' /\ Calls'
  BY <1>1, CallsDrop DEF Calling
<1>4. phoReq' \in [Requests -> PhoStates] /\ WithinLimit'
  BY <1>1, PhotoFacts, LimitHolds
<1>5. /\ queue' \in Seq(QueuedPhoto) /\ Len(queue)' <= MaxPhotos
      /\ discarding' \in Discards /\ discarded' \subseteq Photos /\ stored' \in 0..MaxStored
      /\ reached' \subseteq Photos /\ Discarding' /\ Kept'
  BY <1>1, QueueRests
<1> QED BY <1>2, <1>3, <1>4, <1>5, PhotoTyped

LEMMA PhotoNext ==
  ASSUME PhotoInv, NEW w \in Workers, NextPhoto(w)
  PROVE  PhotoInv'
<1>1. PICK a : a = drain[w]
  OBVIOUS
<1>2. a \in Drain /\ a.batch \subseteq Taken /\ Taken \subseteq Photos /\ a.seen \subseteq Photos
  BY <1>1, DrainFields, PhotoFacts
<1>3. PICK p : p = Min(a.batch)
  OBVIOUS
<1>4. PICK b : b = [at |-> "send", photo |-> p]
  OBVIOUS
<1>5. PICK c : c = [a EXCEPT !.batch = a.batch \ {p}]
  OBVIOUS
<1>6. PICK d : d = [c EXCEPT !.seen = c.seen \cup {p}]
  OBVIOUS
<1>7. /\ a.batch # {} /\ sender[w] = Quiet
      /\ sender' = [sender EXCEPT ![w] = b]
      /\ UNCHANGED <<queue, discarding, discarded, stored, reached, phoReq>>
  BY <1>1, <1>3, <1>4 DEF NextPhoto, SetSender
<1>8. p \in a.batch
  <2>1. a.batch \in SUBSET Nat
    BY <1>2, SenderKinds
  <2> QED BY <1>3, <1>7, <2>1, LeastPhoto
<1>9. drain' = [drain EXCEPT ![w] = d]
  <2>1. c \in Drain /\ c.seen = a.seen
    BY <1>2, <1>5 DEF Drain
  <2>2. /\ drain \in [Workers -> Drain]
        /\ drain' = [[drain EXCEPT ![w] = [drain[w] EXCEPT !.batch = a.batch \ {p}]] EXCEPT ![w] =
                     [[drain EXCEPT ![w] = [drain[w] EXCEPT !.batch = a.batch \ {p}]][w] EXCEPT !.seen =
                        [drain EXCEPT ![w] = [drain[w] EXCEPT !.batch = a.batch \ {p}]][w].seen \cup {p}]]
    BY <1>1, <1>3, PhotoFacts DEF NextPhoto
  <2>3. [drain EXCEPT ![w] = [drain[w] EXCEPT !.batch = a.batch \ {p}]] = [drain EXCEPT ![w] = c]
    BY <1>1, <1>5
  <2>4. [drain EXCEPT ![w] = c][w] = c
    BY <2>2
  <2>5. drain' = [[drain EXCEPT ![w] = c] EXCEPT ![w] = [c EXCEPT !.seen = c.seen \cup {p}]]
    BY <2>2, <2>3, <2>4
  <2>6. drain' = [[drain EXCEPT ![w] = c] EXCEPT ![w] = d]
    BY <1>6, <2>5
  <2> QED BY <2>2, <2>6
<1>10. d \in Drain /\ d.batch \subseteq Taken
  <2>1. c \in Drain /\ c.batch \subseteq a.batch
    BY <1>2, <1>5 DEF Drain
  <2> QED BY <1>2, <1>6, <1>8, <2>1 DEF Drain
<1>11. drain' \in [Workers -> Drain] /\ Batches'
  BY <1>7, <1>9, <1>10, DrainMoves
<1>12. b \in SenderStates /\ b.photo = p /\ b.at = "send" /\ p \in Taken
  BY <1>2, <1>4, <1>8 DEF SenderStates
<1>13. /\ queue' \in Seq(QueuedPhoto) /\ Len(queue)' <= MaxPhotos /\ Taken' = Taken
       /\ discarding' \in Discards /\ discarded' \subseteq Photos /\ stored' \in 0..MaxStored
       /\ reached' \subseteq Photos /\ Discarding' /\ Kept'
  BY <1>7, QueueRests
<1>14. sender' \in [Senders -> SenderStates] /\ Sending' /\ Calls'
  <2>1. w \in Senders /\ w \notin Photos
    BY DrainFields
  <2>2. b # Quiet => b.photo \in Taken' /\ (b.at \in {"accepted", "cleanup"} => b.photo \in reached')
    BY <1>12, <1>13
  <2>3. w \in Photos \ Taken' => b = Quiet
    BY <2>1
  <2> QED BY <1>7, <1>12, <1>13, <2>1, <2>2, <2>3, LoneSenderMoves
<1>15. phoReq' \in [Requests -> PhoStates] /\ WithinLimit'
  BY <1>7, PhotoFacts, LimitHolds
<1> QED BY <1>11, <1>13, <1>14, <1>15, PhotoTyped

LEMMA SenderFields ==
  ASSUME PhotoInv, NEW s \in Senders, sender[s] # Quiet
  PROVE  /\ sender[s] \in [at : {"send", "wait", "cleanup"} \cup Outcomes, photo : Photos]
         /\ sender[s].photo \in Taken /\ s \notin Photos \ Taken
         /\ sender[s].at \in {"accepted", "cleanup"} => sender[s].photo \in reached
BY PhotoFacts DEF SenderStates, Sending, SenderFits

LEMMA ProceedDrains ==
  ASSUME PhotoInv, NEW s \in Senders, NEW ends \in BOOLEAN, Proceed(s, ends), Taken' = Taken
  PROVE  drain' \in [Workers -> Drain] /\ Batches' /\ sender' = [sender EXCEPT ![s] = Quiet]
<1>1. Resting \in Drain /\ Resting.batch = {}
  BY DEF Resting, Drain
<1>2. drain' = drain \/ (s \in Workers /\ drain' = [drain EXCEPT ![s] = Resting])
  BY DEF Proceed
<1>3. sender' = [sender EXCEPT ![s] = Quiet]
  BY DEF Proceed, SetSender
<1>4. drain' \in [Workers -> Drain] /\ Batches'
  BY <1>1, <1>2, PhotoFacts DEF Batches
<1> QED BY <1>3, <1>4

LEMMA PhotoSends ==
  ASSUME PhotoInv, NEW s \in Senders, SendPhoto(s)
  PROVE  PhotoInv'
<1>1. PICK p : p = sender[s].photo
  OBVIOUS
<1>2. /\ sender[s].at = "send" /\ sender[s] # Quiet
      /\ UNCHANGED <<queue, drain, discarding, discarded, stored, reached>>
  BY DEF SendPhoto, Quiet
<1>3. p \in Taken /\ p \in Photos /\ s \notin Photos \ Taken
  BY <1>1, <1>2, SenderFields, PhotoFacts
<1>4. /\ queue' \in Seq(QueuedPhoto) /\ Len(queue)' <= MaxPhotos /\ Taken' = Taken
      /\ discarding' \in Discards /\ discarded' \subseteq Photos /\ stored' \in 0..MaxStored
      /\ reached' \subseteq Photos /\ Discarding' /\ Kept'
  BY <1>2, QueueRests
<1>5. drain' \in [Workers -> Drain] /\ Batches'
  BY <1>2, <1>4, PhotoFacts DEF Batches
<1>6. CASE UNCHANGED phoReq /\ \E at \in {"lost", "rejected"} : sender' = [sender EXCEPT ![s] = [at |-> at, photo |-> p]]
  <2>1. PICK at \in {"lost", "rejected"} : sender' = [sender EXCEPT ![s] = [at |-> at, photo |-> p]]
    BY <1>6
  <2>2. PICK b : b = [at |-> at, photo |-> p]
    OBVIOUS
  <2>5. b \in SenderStates /\ b.photo = p /\ b.at \notin {"accepted", "cleanup"}
    BY <1>3, <2>2 DEF SenderStates, Outcomes
  <2>6. sender' = [sender EXCEPT ![s] = b]
    BY <2>1, <2>2
  <2>3. sender' \in [Senders -> SenderStates] /\ Sending' /\ Calls'
    BY <1>2, <1>3, <1>4, <1>6, <2>5, <2>6, LoneSenderMoves
  <2>4. phoReq' \in [Requests -> PhoStates] /\ WithinLimit'
    BY <1>2, <1>6, PhotoFacts, LimitHolds
  <2> QED BY <1>4, <1>5, <2>3, <2>4, PhotoTyped
<1>7. CASE \E r \in Requests :
             /\ phoReq[r] = Quiet
             /\ phoReq' = [phoReq EXCEPT ![r] = [at |-> "asked", photo |-> p, caller |-> s]]
             /\ sender' = [sender EXCEPT ![s] = [at |-> "wait", photo |-> p]]
  <2>1. PICK r \in Requests :
          /\ phoReq[r] = Quiet
          /\ phoReq' = [phoReq EXCEPT ![r] = [at |-> "asked", photo |-> p, caller |-> s]]
          /\ sender' = [sender EXCEPT ![s] = [at |-> "wait", photo |-> p]]
    BY <1>7
  <2>2. PICK a : a = [at |-> "asked", photo |-> p, caller |-> s]
    OBVIOUS
  <2>3. PICK b : b = [at |-> "wait", photo |-> p]
    OBVIOUS
  <2>4. a \in PhoStates /\ a # Quiet /\ a.caller = s /\ a.photo = p /\ a.at = "asked"
    <3>1. a \in [at : {"asked", "counted"}, photo : Photos, caller : Senders \cup {NoCaller}]
      BY <1>3, <2>2
    <3>2. "caller" \in DOMAIN a /\ "caller" \notin DOMAIN Quiet
      BY <2>2 DEF Quiet
    <3> QED BY <2>2, <3>1, <3>2 DEF PhoStates
  <2>5. b \in SenderStates /\ b # Quiet /\ b.photo = p /\ b.at = "wait"
    <3>1. "photo" \in DOMAIN b /\ "photo" \notin DOMAIN Quiet
      BY <2>3 DEF Quiet
    <3> QED BY <1>3, <2>3, <3>1 DEF SenderStates
  <2>6. phoReq' = [phoReq EXCEPT ![r] = a] /\ sender' = [sender EXCEPT ![s] = b]
    BY <2>1, <2>2, <2>3
  <2>7. /\ phoReq' \in [Requests -> PhoStates] /\ phoReq'[r] = a
        /\ \A q \in Requests : q # r => phoReq'[q] = phoReq[q]
    BY <2>4, <2>6, PhotoFacts
  <2>8. ASSUME NEW q \in Requests, q # r, Calling(q)'
        PROVE  /\ phoReq'[q].caller # s /\ Calling(q)
               /\ phoReq'[q].caller = phoReq[q].caller /\ phoReq'[q].photo = phoReq[q].photo
    <3>1. phoReq'[q] = phoReq[q] /\ Calling(q)
      BY <2>7, <2>8 DEF Calling
    <3>2. CallFits(q)
      BY PhotoFacts DEF Calls
    <3> QED BY <1>2, <3>1, <3>2 DEF CallFits
  <2>9. \A q \in Requests :
          Calling(q)' => \/ phoReq'[q].caller = s /\ b # Quiet /\ b.at = "wait" /\ b.photo = phoReq'[q].photo
                         \/ /\ phoReq'[q].caller # s /\ Calling(q)
                            /\ phoReq'[q].caller = phoReq[q].caller /\ phoReq'[q].photo = phoReq[q].photo
    BY <2>4, <2>5, <2>7, <2>8
  <2>10. \A r1, r2 \in Requests :
           Calling(r1)' /\ Calling(r2)' /\ phoReq'[r1].caller = s /\ phoReq'[r2].caller = s => r1 = r2
    BY <2>8
  <2>11. /\ b # Quiet => b.photo \in Taken' /\ (b.at \in {"accepted", "cleanup"} => b.photo \in reached')
         /\ s \in Photos \ Taken' => b = Quiet
         /\ Taken \subseteq Taken' /\ reached \subseteq reached'
    BY <1>2, <1>3, <1>4, <2>5
  <2>12. sender' \in [Senders -> SenderStates] /\ Sending' /\ Calls'
    BY <2>5, <2>6, <2>7, <2>9, <2>10, <2>11, SenderMoves
  <2>13. \A q \in Requests : phoReq'[q].at = "counted" => phoReq[q].at = "counted"
    BY <2>4, <2>7
  <2>14. WithinLimit'
    BY <1>2, <2>13, LimitHolds
  <2> QED BY <1>4, <1>5, <2>7, <2>12, <2>14, PhotoTyped
<1>8. CASE queue[p].file
  <2>1. \/ \E r \in Requests :
             /\ phoReq[r] = Quiet
             /\ phoReq' = [phoReq EXCEPT ![r] = [at |-> "asked", photo |-> p, caller |-> s]]
             /\ sender' = [sender EXCEPT ![s] = [at |-> "wait", photo |-> p]]
        \/ sender' = [sender EXCEPT ![s] = [at |-> "lost", photo |-> p]] /\ UNCHANGED phoReq
    BY <1>1, <1>8 DEF SendPhoto, SetSender, SetPhoReq
  <2> QED BY <1>6, <1>7, <2>1
<1>9. CASE ~queue[p].file
  <2>1. PICK at : at = IF s \in Workers THEN "rejected" ELSE "lost"
    OBVIOUS
  <2>2. sender' = [sender EXCEPT ![s] = [at |-> at, photo |-> p]] /\ UNCHANGED phoReq
    BY <1>1, <1>9, <2>1 DEF SendPhoto, SetSender
  <2>3. at \in {"lost", "rejected"}
    BY <2>1
  <2> QED BY <1>6, <2>2, <2>3
<1> QED BY <1>8, <1>9

LEMMA PhotoLeaves ==
  ASSUME PhotoInv, NEW s \in Senders, GiveUp(s) \/ StopPhoto(s)
  PROVE  PhotoInv'
<1>1. /\ sender[s] # Quiet /\ LeaveCalls(s)
      /\ UNCHANGED <<queue, discarding, discarded, stored, reached>>
  <2>1. /\ sender[s].at = "wait" \/ sender[s] # Quiet
        /\ LeaveCalls(s) /\ UNCHANGED <<queue, discarding, discarded, stored, reached>>
    BY DEF GiveUp, StopPhoto
  <2>2. Quiet.at = "idle"
    BY DEF Quiet
  <2> QED BY <2>1, <2>2
<1>2. /\ queue' \in Seq(QueuedPhoto) /\ Len(queue)' <= MaxPhotos /\ Taken' = Taken
      /\ discarding' \in Discards /\ discarded' \subseteq Photos /\ stored' \in 0..MaxStored
      /\ reached' \subseteq Photos /\ Discarding' /\ Kept'
  BY <1>1, QueueRests
<1>3. drain' \in [Workers -> Drain] /\ Batches'
  <2>1. CASE GiveUp(s)
    BY <1>2, <2>1, PhotoFacts DEF GiveUp, Batches
  <2>2. CASE StopPhoto(s)
    BY <1>2, <2>2, ProceedDrains DEF StopPhoto
  <2> QED BY <2>1, <2>2
<1>4. PICK b \in SenderStates :
        /\ sender' = [sender EXCEPT ![s] = b]
        /\ b # Quiet => /\ b.photo \in Taken /\ b.at \notin {"accepted", "cleanup"}
                        /\ s \notin Photos \ Taken
  <2>1. CASE GiveUp(s)
    <3>1. PICK a : a = sender[s]
      OBVIOUS
    <3>2. PICK outcome \in {"lost", "failed"} : sender' = [sender EXCEPT ![s] = [a EXCEPT !.at = outcome]]
      BY <2>1, <3>1 DEF GiveUp, SetSender
    <3>3. PICK b : b = [a EXCEPT !.at = outcome]
      OBVIOUS
    <3>4. a \in [at : {"send", "wait", "cleanup"} \cup Outcomes, photo : Photos] /\ a.photo \in Taken
          /\ s \notin Photos \ Taken
      BY <1>1, <3>1, SenderFields
    <3>5. b \in SenderStates /\ b.photo = a.photo /\ b.at = outcome
      BY <3>3, <3>4 DEF SenderStates, Outcomes
    <3> QED BY <3>2, <3>3, <3>4, <3>5
  <2>2. CASE StopPhoto(s)
    BY <2>2 DEF StopPhoto, Proceed, SetSender, SenderStates
  <2> QED BY <2>1, <2>2
<1>5. /\ sender' \in [Senders -> SenderStates] /\ Sending' /\ Calls' /\ phoReq' \in [Requests -> PhoStates]
      /\ \A r \in Requests : phoReq'[r].at = "counted" => phoReq[r].at = "counted"
  BY <1>1, <1>4, LeavingSenderMoves
<1>6. WithinLimit'
  BY <1>1, <1>5, LimitHolds
<1> QED BY <1>2, <1>3, <1>5, <1>6, PhotoTyped

LEMMA PhotoSettles ==
  ASSUME PhotoInv, NEW s \in Senders,
         SettlePhoto(s) \/ DeleteFiles(s) \/ Park(s) \/ KeepPhoto(s)
  PROVE  PhotoInv'
<1>1. PICK p : p = sender[s].photo
  OBVIOUS
<1>2. /\ sender[s].at \in {"accepted", "cleanup", "rejected", "failed", "lost", "auth"} /\ sender[s] # Quiet
      /\ UNCHANGED <<discarding, discarded, stored, reached, phoReq>>
  <2>1. /\ sender[s].at \in {"accepted", "cleanup", "rejected", "failed", "lost", "auth"}
        /\ UNCHANGED <<discarding, discarded, stored, reached, phoReq>>
    BY DEF SettlePhoto, DeleteFiles, Park, KeepPhoto
  <2>2. Quiet.at = "idle"
    BY DEF Quiet
  <2> QED BY <2>1, <2>2
<1>3. /\ p \in Taken /\ s \notin Photos \ Taken /\ (sender[s].at \in {"accepted", "cleanup"} => p \in reached)
      /\ sender[s] \in [at : {"send", "wait", "cleanup"} \cup Outcomes, photo : Photos]
  BY <1>1, <1>2, SenderFields
<1>4. queue' \in Seq(QueuedPhoto) /\ Len(queue)' = Len(queue) /\ Taken' = Taken /\ Kept'
  <2>1. CASE SettlePhoto(s)
    <3>1. MarkPhoto(p, "none") /\ p \in reached
      BY <1>1, <1>3, <2>1 DEF SettlePhoto
    <3> QED BY <1>2, <1>3, <3>1, PhotoMarked
  <2>2. CASE DeleteFiles(s)
    <3>1. queue' = [queue EXCEPT ![p].file = FALSE] /\ p \in reached \cup discarded
      BY <1>1, <1>3, <2>2 DEF DeleteFiles
    <3> QED BY <1>2, <1>3, <3>1, FilesGo
  <2>3. CASE Park(s)
    <3>1. MarkPhoto(p, "dead")
      BY <1>1, <2>3 DEF Park
    <3> QED BY <1>2, <1>3, <3>1, PhotoMarked
  <2>4. CASE KeepPhoto(s)
    <3>1. MarkPhoto(p, "failed") \/ queue' = queue
      BY <1>1, <2>4 DEF KeepPhoto
    <3>2. CASE MarkPhoto(p, "failed")
      <4>1. "failed" \in LivePhoto \cup {"none", "dead"}
        BY DEF LivePhoto
      <4> QED BY <1>2, <1>3, <3>2, <4>1, PhotoMarked
    <3>3. CASE queue' = queue
      BY <1>2, <3>3, QueueRests, PhotoFacts
    <3> QED BY <3>1, <3>2, <3>3
  <2> QED BY <2>1, <2>2, <2>3, <2>4
<1>5. drain' \in [Workers -> Drain] /\ Batches'
  <2>1. CASE SettlePhoto(s)
    BY <1>4, <2>1, PhotoFacts DEF SettlePhoto, Batches
  <2>2. CASE DeleteFiles(s) \/ Park(s) \/ KeepPhoto(s)
    <3>1. PICK ends \in BOOLEAN : Proceed(s, ends)
      BY <2>2 DEF DeleteFiles, Park, KeepPhoto
    <3> QED BY <1>4, <3>1, ProceedDrains
  <2> QED BY <2>1, <2>2
<1>6. PICK b \in SenderStates :
        /\ sender' = [sender EXCEPT ![s] = b]
        /\ b # Quiet => b.photo = p /\ sender[s].at \in {"accepted", "cleanup"}
  <2>1. CASE SettlePhoto(s)
    <3>1. PICK a : a = sender[s]
      OBVIOUS
    <3>2. PICK b : b = [a EXCEPT !.at = "cleanup"]
      OBVIOUS
    <3>3. sender' = [sender EXCEPT ![s] = b] /\ a.at = "accepted"
      BY <2>1, <3>1, <3>2 DEF SettlePhoto, SetSender
    <3>4. b \in SenderStates /\ b.photo = p
      BY <1>1, <1>3, <3>1, <3>2 DEF SenderStates
    <3> QED BY <3>1, <3>3, <3>4
  <2>2. CASE DeleteFiles(s) \/ Park(s) \/ KeepPhoto(s)
    BY <2>2 DEF DeleteFiles, Park, KeepPhoto, Proceed, SetSender, SenderStates
  <2> QED BY <2>1, <2>2
<1>7. sender' \in [Senders -> SenderStates] /\ Sending' /\ Calls'
  <2>1. /\ b # Quiet => b.photo \in Taken' /\ (b.at \in {"accepted", "cleanup"} => b.photo \in reached')
        /\ s \in Photos \ Taken' => b = Quiet
    BY <1>2, <1>3, <1>4, <1>6
  <2> QED BY <1>2, <1>4, <1>6, <2>1, LoneSenderMoves
<1>8. Discarding'
  BY <1>2, <1>4, PhotoFacts DEF Discarding
<1>9. phoReq' \in [Requests -> PhoStates] /\ WithinLimit'
  BY <1>2, PhotoFacts, LimitHolds
<1>10. Len(queue)' <= MaxPhotos
  BY <1>4, PhotoFacts
<1> QED BY <1>2, <1>4, <1>5, <1>7, <1>8, <1>9, <1>10, PhotoFacts, PhotoTyped

\* What is so when only the queue and the user's discard move.
LEMMA SendersRest ==
  ASSUME PhotoInv, UNCHANGED <<sender, drain, stored, reached, phoReq>>, Taken' = Taken
  PROVE  /\ sender' \in [Senders -> SenderStates] /\ drain' \in [Workers -> Drain]
         /\ stored' \in 0..MaxStored /\ reached' \subseteq Photos
         /\ phoReq' \in [Requests -> PhoStates] /\ Sending' /\ Calls' /\ Batches' /\ WithinLimit'
<1>1. Sending'
  BY PhotoFacts DEF Sending, SenderFits
<1>2. Calls'
  BY PhotoFacts DEF Calls, CallFits, Calling
<1>3. Batches'
  BY PhotoFacts DEF Batches
<1>4. WithinLimit'
  BY LimitHolds
<1> QED BY <1>1, <1>2, <1>3, <1>4, PhotoFacts

LEMMA PhotoDiscards ==
  ASSUME PhotoInv,
         \/ \E p \in Taken : RetryPhoto(p) \/ DiscardPhoto(p)
         \/ DiscardRow \/ DiscardFiles \/ StopDiscard
  PROVE  PhotoInv'
<1>1. UNCHANGED <<sender, drain, stored, reached, phoReq>>
  BY DEF RetryPhoto, DiscardPhoto, DiscardRow, DiscardFiles, StopDiscard
<1>2. discarding # Quiet =>
        /\ discarding.photo \in discarded \cap Taken
        /\ discarding \in [at : {"row", "files"}, photo : Photos]
  BY PhotoFacts DEF Discarding, Discards
<1>3. Quiet.at = "idle"
  BY DEF Quiet
<1>4. ASSUME queue' \in Seq(QueuedPhoto), Len(queue)' = Len(queue), Taken' = Taken, Kept',
             discarding' \in Discards, discarded' \subseteq Photos, Discarding'
      PROVE  PhotoInv'
  <2>1. /\ sender' \in [Senders -> SenderStates] /\ drain' \in [Workers -> Drain]
        /\ stored' \in 0..MaxStored /\ reached' \subseteq Photos
        /\ phoReq' \in [Requests -> PhoStates] /\ Sending' /\ Calls' /\ Batches' /\ WithinLimit'
    BY <1>1, <1>4, SendersRest
  <2>2. Len(queue)' <= MaxPhotos
    BY <1>4, PhotoFacts
  <2> QED BY <1>4, <2>1, <2>2, PhotoTyped
<1>5. ASSUME NEW p \in Taken, RetryPhoto(p) PROVE PhotoInv'
  <2>1. MarkPhoto(p, "pending") /\ UNCHANGED <<discarding, discarded>>
    BY <1>5 DEF RetryPhoto
  <2>2. "pending" \in LivePhoto \cup {"none", "dead"}
    BY DEF LivePhoto
  <2>3. queue' \in Seq(QueuedPhoto) /\ Len(queue') = Len(queue) /\ Taken' = Taken /\ Kept'
    BY <1>1, <2>1, <2>2, PhotoMarked
  <2>4. Discarding' /\ discarding' \in Discards /\ discarded' \subseteq Photos
    BY <2>1, <2>3, PhotoFacts DEF Discarding
  <2> QED BY <1>4, <2>3, <2>4
<1>6. ASSUME NEW p \in Taken, DiscardPhoto(p) PROVE PhotoInv'
  <2>1. discarding' = [at |-> "row", photo |-> p] /\ discarded' = discarded \cup {p} /\ queue' = queue
    BY <1>6 DEF DiscardPhoto
  <2>2. Taken' = Taken /\ p \in Photos
    BY <2>1, PhotoFacts DEF Taken
  <2>3. discarding' \in Discards /\ discarded' \subseteq Photos
    BY <2>1, <2>2, PhotoFacts DEF Discards
  <2>4. Discarding'
    BY <2>1, <2>2 DEF Discarding
  <2>5. Kept'
    BY <1>1, <2>1, <2>2, PhotoFacts DEF Kept
  <2>6. queue' \in Seq(QueuedPhoto) /\ Len(queue)' = Len(queue)
    BY <2>1, PhotoFacts
  <2> QED BY <1>4, <2>2, <2>3, <2>4, <2>5, <2>6
<1>7. CASE DiscardRow
  <2>1. PICK p : p = discarding.photo
    OBVIOUS
  <2>2. discarding # Quiet /\ p \in discarded \cap Taken /\ discarding \in [at : {"row", "files"}, photo : Photos]
    <3>1. discarding.at = "row"
      BY <1>7 DEF DiscardRow
    <3> QED BY <1>2, <1>3, <2>1, <3>1
  <2>3. PICK a : a = queue[p]
    OBVIOUS
  <2>4. PICK new : new = IF a.row = "dead" THEN "none" ELSE a.row
    OBVIOUS
  <2>5. PICK e : e = [a EXCEPT !.row = new]
    OBVIOUS
  <2>6. queue' = [queue EXCEPT ![p] = e] /\ discarded' = discarded
    BY <1>7, <2>1, <2>3, <2>4, <2>5 DEF DiscardRow
  <2>7. a \in QueuedPhoto
    BY <2>2, <2>3, PhotoFacts
  <2>8. e \in QueuedPhoto
    BY <2>4, <2>5, <2>7 DEF QueuedPhoto
  <2>9. /\ queue' \in Seq(QueuedPhoto) /\ Len(queue') = Len(queue) /\ Taken' = Taken
        /\ queue'[p] = e /\ \A k \in Taken : k # p => queue'[k] = queue[k]
    BY <2>2, <2>6, <2>8, PhotoChanged
  <2>10. Kept'
    BY <1>1, <2>2, <2>6, <2>9, PhotoFacts DEF Kept
  <2>11. PICK d : d = discarding
    OBVIOUS
  <2>12. discarding' = [d EXCEPT !.at = "files"]
    BY <1>7, <2>11 DEF DiscardRow
  <2>13. discarding'.photo = p /\ discarding' \in Discards
    BY <2>1, <2>2, <2>11, <2>12 DEF Discards
  <2>14. Discarding'
    BY <2>2, <2>6, <2>9, <2>13 DEF Discarding
  <2>15. discarded' \subseteq Photos
    BY <2>6, PhotoFacts
  <2> QED BY <1>4, <2>9, <2>10, <2>13, <2>14, <2>15
<1>8. CASE DiscardFiles
  <2>1. PICK p : p = discarding.photo
    OBVIOUS
  <2>2. p \in discarded \cap Taken
    <3>1. discarding.at = "files"
      BY <1>8 DEF DiscardFiles
    <3> QED BY <1>2, <1>3, <2>1, <3>1
  <2>3. queue' = [queue EXCEPT ![p].file = FALSE] /\ discarded' = discarded /\ discarding' = Quiet
    BY <1>8, <2>1 DEF DiscardFiles
  <2>4. queue' \in Seq(QueuedPhoto) /\ Len(queue') = Len(queue) /\ Taken' = Taken /\ Kept'
    BY <1>1, <2>2, <2>3, FilesGo
  <2>5. Discarding' /\ discarding' \in Discards /\ discarded' \subseteq Photos
    BY <2>3, PhotoFacts DEF Discarding, Discards
  <2> QED BY <1>4, <2>4, <2>5
<1>9. CASE StopDiscard
  <2>1. discarding' = Quiet /\ UNCHANGED <<queue, discarded>>
    BY <1>9 DEF StopDiscard
  <2>2. Taken' = Taken
    BY <2>1 DEF Taken
  <2>3. Discarding' /\ discarding' \in Discards /\ discarded' \subseteq Photos
    BY <2>1, PhotoFacts DEF Discarding, Discards
  <2>4. queue' \in Seq(QueuedPhoto) /\ Len(queue)' = Len(queue) /\ Kept'
    BY <1>1, <2>1, <2>2, PhotoFacts DEF Kept
  <2> QED BY <1>4, <2>2, <2>3, <2>4
<1> QED BY <1>5, <1>6, <1>7, <1>8, <1>9

\* The device's own part, when the API moves.
LEMMA DeviceKeeps ==
  ASSUME PhotoInv, DeviceRests, reached \subseteq reached'
  PROVE  /\ queue' \in Seq(QueuedPhoto) /\ Len(queue)' <= MaxPhotos /\ Taken' = Taken
         /\ drain' \in [Workers -> Drain] /\ discarding' \in Discards /\ discarded' \subseteq Photos
         /\ Batches' /\ Discarding' /\ Kept'
<1>1. UNCHANGED <<queue, drain, discarding, discarded>>
  BY DEF DeviceRests
<1>2. Taken' = Taken
  BY <1>1 DEF Taken
<1> QED BY <1>1, <1>2, PhotoFacts DEF Batches, Discarding, Kept

\* A request ends and answers.
LEMMA RequestReplies ==
  ASSUME PhotoInv, NEW r \in Requests, phoReq[r] # Quiet, NEW outcome \in Outcomes, Reply(r, outcome),
         queue' = queue, reached \subseteq reached',
         outcome = "accepted" => phoReq[r].photo \in reached'
  PROVE  /\ sender' \in [Senders -> SenderStates] /\ Sending' /\ Calls' /\ phoReq' \in [Requests -> PhoStates]
         /\ phoReq' = [phoReq EXCEPT ![r] = Quiet]
<1>1. phoReq' = [phoReq EXCEPT ![r] = Quiet]
  BY DEF Reply, SetPhoReq
<1>2. /\ phoReq' \in [Requests -> PhoStates] /\ phoReq'[r] = Quiet
      /\ \A q \in Requests : q # r => phoReq'[q] = phoReq[q]
  BY <1>1, PhotoFacts DEF PhoStates
<1>3. ASSUME NEW q \in Requests, Calling(q)'
      PROVE  /\ q # r /\ Calling(q)
             /\ phoReq'[q].caller = phoReq[q].caller /\ phoReq'[q].photo = phoReq[q].photo
  BY <1>2, <1>3 DEF Calling
<1>4. CASE phoReq[r].caller = NoCaller
  <2>1. sender' = sender
    BY <1>4 DEF Reply
  <2> QED BY <1>1, <1>2, <1>3, <2>1, CallsDrop
<1>5. CASE phoReq[r].caller # NoCaller
  <2>1. PICK c : c = phoReq[r].caller
    OBVIOUS
  <2>2. PICK a : a = sender[c]
    OBVIOUS
  <2>3. PICK b : b = [a EXCEPT !.at = outcome]
    OBVIOUS
  <2>4. Calling(r) /\ CallFits(r)
    BY <1>5, PhotoFacts DEF Calling, Calls
  <2>5. c \in Senders
    BY <1>5, <2>1, PhotoFacts DEF PhoStates
  <2>6. sender[c] # Quiet /\ a.photo = phoReq[r].photo
    BY <2>1, <2>2, <2>4 DEF CallFits
  <2>7. /\ a \in [at : {"send", "wait", "cleanup"} \cup Outcomes, photo : Photos]
        /\ a.photo \in Taken /\ c \notin Photos \ Taken
    BY <2>2, <2>5, <2>6, SenderFields
  <2>8. b \in SenderStates /\ b.photo = a.photo /\ b.at = outcome
    BY <2>3, <2>7 DEF SenderStates
  <2>9. sender' = [sender EXCEPT ![c] = b]
    BY <1>5, <2>1, <2>2, <2>3 DEF Reply
  <2>10. Taken' = Taken
    BY DEF Taken
  <2>11. /\ b # Quiet => b.photo \in Taken' /\ (b.at \in {"accepted", "cleanup"} => b.photo \in reached')
         /\ c \in Photos \ Taken' => b = Quiet
         /\ Taken \subseteq Taken'
    BY <2>6, <2>7, <2>8, <2>10 DEF Outcomes
  <2>12. ASSUME NEW q \in Requests, Calling(q)' PROVE phoReq'[q].caller # c
    BY <1>3, <2>1, <2>4, <2>12, PhotoFacts DEF Calls
  <2>13. \A q \in Requests :
           Calling(q)' => \/ phoReq'[q].caller = c /\ b # Quiet /\ b.at = "wait" /\ b.photo = phoReq'[q].photo
                          \/ /\ phoReq'[q].caller # c /\ Calling(q)
                             /\ phoReq'[q].caller = phoReq[q].caller /\ phoReq'[q].photo = phoReq[q].photo
    BY <1>3, <2>12
  <2>14. \A r1, r2 \in Requests :
           Calling(r1)' /\ Calling(r2)' /\ phoReq'[r1].caller = c /\ phoReq'[r2].caller = c => r1 = r2
    BY <2>12
  <2>15. sender' \in [Senders -> SenderStates] /\ Sending' /\ Calls'
    BY <1>2, <2>5, <2>8, <2>9, <2>11, <2>13, <2>14, SenderMoves
  <2> QED BY <1>1, <1>2, <2>15
<1> QED BY <1>4, <1>5

LEMMA PhotoNumbers ==
  ASSUME PhotoInv
  PROVE  /\ IsFiniteSet(CountedCalls) /\ Cardinality(CountedCalls) \in Nat
         /\ Cardinality(CountedCalls) <= Cardinality(Requests)
         /\ Cardinality(Requests) \in Nat /\ Cardinality(Requests) >= 1
         /\ stored \in Nat /\ stored <= MaxStored
         /\ stored + Cardinality(CountedCalls) <= PhotoLimit + Cardinality(Requests) - 1
<1>1. CountedCalls \in SUBSET Requests
  BY DEF CountedCalls
<1>2. /\ IsFiniteSet(CountedCalls) /\ Cardinality(CountedCalls) \in Nat
      /\ Cardinality(CountedCalls) <= Cardinality(Requests)
  BY <1>1, RequestsAssumption, FS_Subset, FS_CardinalityType
<1>3. Cardinality(Requests) \in Nat /\ Cardinality(Requests) # 0
  BY RequestsAssumption, FS_CardinalityType, FS_EmptySet
<1> QED BY <1>2, <1>3, PhotoFacts, PhotosAssumption DEF WithinLimit

LEMMA PhotoCounted ==
  ASSUME PhotoInv, NEW r \in Requests, CountPhotos(r)
  PROVE  PhotoInv'
<1>1. /\ phoReq[r].at = "asked" /\ phoReq[r] # Quiet
      /\ UNCHANGED <<stored, reached>> /\ DeviceRests
  <2>1. phoReq[r].at = "asked" /\ UNCHANGED <<stored, reached>> /\ DeviceRests
    BY DEF CountPhotos
  <2>2. Quiet.at = "idle"
    BY DEF Quiet
  <2> QED BY <2>1, <2>2
<1>2. /\ queue' \in Seq(QueuedPhoto) /\ Len(queue)' <= MaxPhotos
      /\ drain' \in [Workers -> Drain] /\ discarding' \in Discards /\ discarded' \subseteq Photos
      /\ Batches' /\ Discarding' /\ Kept'
  BY <1>1, DeviceKeeps
<1>3. stored' \in 0..MaxStored /\ reached' \subseteq Photos /\ queue' = queue
  BY <1>1, PhotoFacts DEF DeviceRests
<1>4. CASE stored >= PhotoLimit
  <2>1. Reply(r, "rejected")
    BY <1>4 DEF CountPhotos
  <2>2. "rejected" \in Outcomes
    BY DEF Outcomes
  <2>3. /\ sender' \in [Senders -> SenderStates] /\ Sending' /\ Calls' /\ phoReq' \in [Requests -> PhoStates]
        /\ phoReq' = [phoReq EXCEPT ![r] = Quiet]
    BY <1>1, <1>3, <2>1, <2>2, RequestReplies
  <2>4. \A q \in Requests : phoReq'[q].at = "counted" => phoReq[q].at = "counted"
    <3>1. Quiet.at # "counted"
      BY DEF Quiet
    <3> QED BY <2>3, <3>1, PhotoFacts
  <2>5. WithinLimit'
    BY <1>1, <2>4, LimitHolds
  <2> QED BY <1>2, <1>3, <2>3, <2>5, PhotoTyped
<1>5. CASE ~(stored >= PhotoLimit)
  <2>1. PICK a : a = phoReq[r]
    OBVIOUS
  <2>2. PICK b : b = [a EXCEPT !.at = "counted"]
    OBVIOUS
  <2>3. phoReq' = [phoReq EXCEPT ![r] = b] /\ sender' = sender
    BY <1>5, <2>1, <2>2 DEF CountPhotos, SetPhoReq
  <2>4. a \in [at : {"asked", "counted"}, photo : Photos, caller : Senders \cup {NoCaller}]
    BY <1>1, <2>1, PhotoFacts DEF PhoStates
  <2>5. b \in PhoStates /\ b.photo = a.photo /\ b.caller = a.caller
    BY <2>2, <2>4 DEF PhoStates
  <2>6. phoReq' \in [Requests -> PhoStates] /\ phoReq'[r] = b /\ \A q \in Requests : q # r => phoReq'[q] = phoReq[q]
    BY <2>3, <2>5, PhotoFacts
  <2>7. \A q \in Requests :
          Calling(q)' => /\ Calling(q)
                         /\ phoReq'[q].caller = phoReq[q].caller /\ phoReq'[q].photo = phoReq[q].photo
    BY <1>1, <2>1, <2>5, <2>6 DEF Calling
  <2>8. sender' \in [Senders -> SenderStates] /\ Sending' /\ Calls'
    BY <1>1, <1>3, <2>3, <2>7, CallsDrop
  <2>9. WithinLimit'
    <3>1. CountedCalls' \in SUBSET Requests
      BY DEF CountedCalls
    <3>2. Cardinality(CountedCalls') \in Nat /\ Cardinality(CountedCalls') <= Cardinality(Requests)
      BY <3>1, RequestsAssumption, FS_Subset, FS_CardinalityType
    <3>3. stored' + Cardinality(CountedCalls') <= PhotoLimit + Cardinality(Requests) - 1
      BY <1>1, <1>5, <3>2, PhotoNumbers, PhotosAssumption
    <3> QED BY <3>3 DEF WithinLimit
  <2> QED BY <1>2, <1>3, <2>6, <2>8, <2>9, PhotoTyped
<1> QED BY <1>4, <1>5

LEMMA PhotoInserted ==
  ASSUME PhotoInv, NEW r \in Requests, InsertRow(r)
  PROVE  PhotoInv'
<1>1. /\ phoReq[r].at = "counted" /\ phoReq[r] # Quiet /\ stored < MaxStored
      /\ stored' = stored + 1 /\ reached' = reached \cup {phoReq[r].photo}
      /\ Reply(r, "accepted") /\ DeviceRests
  <2>1. /\ phoReq[r].at = "counted" /\ stored < MaxStored
        /\ stored' = stored + 1 /\ reached' = reached \cup {phoReq[r].photo}
        /\ Reply(r, "accepted") /\ DeviceRests
    BY DEF InsertRow
  <2>2. Quiet.at = "idle"
    BY DEF Quiet
  <2> QED BY <2>1, <2>2
<1>2. phoReq[r].photo \in Photos
  BY <1>1, PhotoFacts DEF PhoStates
<1>3. reached \subseteq reached' /\ phoReq[r].photo \in reached' /\ reached' \subseteq Photos
  BY <1>1, <1>2, PhotoFacts
<1>4. /\ queue' \in Seq(QueuedPhoto) /\ Len(queue)' <= MaxPhotos
      /\ drain' \in [Workers -> Drain] /\ discarding' \in Discards /\ discarded' \subseteq Photos
      /\ Batches' /\ Discarding' /\ Kept'
  BY <1>1, <1>3, DeviceKeeps
<1>5. "accepted" \in Outcomes /\ queue' = queue
  BY <1>1 DEF Outcomes, DeviceRests
<1>6. /\ sender' \in [Senders -> SenderStates] /\ Sending' /\ Calls' /\ phoReq' \in [Requests -> PhoStates]
      /\ phoReq' = [phoReq EXCEPT ![r] = Quiet]
  BY <1>1, <1>3, <1>5, RequestReplies
<1>7. WithinLimit' /\ stored' \in 0..MaxStored
  <2>1. Quiet.at # "counted"
    BY DEF Quiet
  <2>2. r \in CountedCalls /\ CountedCalls' = CountedCalls \ {r}
    BY <1>1, <1>6, <2>1, PhotoFacts DEF CountedCalls
  <2>3. Cardinality(CountedCalls') = Cardinality(CountedCalls) - 1
    BY <2>2, PhotoNumbers, FS_RemoveElement
  <2>4. stored' + Cardinality(CountedCalls') <= PhotoLimit + Cardinality(Requests) - 1
    BY <1>1, <2>3, PhotoNumbers, PhotosAssumption
  <2>5. stored' \in 0..MaxStored
    BY <1>1, PhotoNumbers, PhotosAssumption
  <2> QED BY <2>4, <2>5 DEF WithinLimit
<1> QED BY <1>3, <1>4, <1>6, <1>7, PhotoTyped

LEMMA PhotoFails ==
  ASSUME PhotoInv, NEW r \in Requests, FailUpload(r)
  PROVE  PhotoInv'
<1>1. PICK outcome \in {"failed", "lost", "auth", "rejected"} :
        phoReq[r] # Quiet /\ Reply(r, outcome) /\ UNCHANGED <<stored, reached>> /\ DeviceRests
  BY DEF FailUpload
<1>2. /\ queue' \in Seq(QueuedPhoto) /\ Len(queue)' <= MaxPhotos
      /\ drain' \in [Workers -> Drain] /\ discarding' \in Discards /\ discarded' \subseteq Photos
      /\ Batches' /\ Discarding' /\ Kept'
  BY <1>1, DeviceKeeps
<1>3. /\ stored' \in 0..MaxStored /\ reached' \subseteq Photos /\ queue' = queue
      /\ outcome \in Outcomes /\ outcome # "accepted"
  BY <1>1, PhotoFacts DEF DeviceRests, Outcomes
<1>4. /\ sender' \in [Senders -> SenderStates] /\ Sending' /\ Calls' /\ phoReq' \in [Requests -> PhoStates]
      /\ phoReq' = [phoReq EXCEPT ![r] = Quiet]
  BY <1>1, <1>3, RequestReplies
<1>5. \A q \in Requests : phoReq'[q].at = "counted" => phoReq[q].at = "counted"
  <2>1. Quiet.at # "counted"
    BY DEF Quiet
  <2> QED BY <1>4, <2>1, PhotoFacts
<1>6. WithinLimit'
  BY <1>1, <1>5, LimitHolds
<1> QED BY <1>2, <1>3, <1>4, <1>6, PhotoTyped

LEMMA PhotoDeleted ==
  ASSUME PhotoInv, DeletePhoto
  PROVE  PhotoInv'
<1>1. stored > 0 /\ stored' = stored - 1 /\ UNCHANGED <<sender, phoReq, reached>> /\ DeviceRests
  BY DEF DeletePhoto
<1>2. /\ queue' \in Seq(QueuedPhoto) /\ Len(queue)' <= MaxPhotos
      /\ drain' \in [Workers -> Drain] /\ discarding' \in Discards /\ discarded' \subseteq Photos
      /\ Batches' /\ Discarding' /\ Kept'
  BY <1>1, DeviceKeeps
<1>3. queue' = queue
  BY <1>1 DEF DeviceRests
<1>4. sender' \in [Senders -> SenderStates] /\ Sending' /\ Calls'
  BY <1>1, <1>3, CallsDrop DEF Calling
<1>5. WithinLimit' /\ stored' \in 0..MaxStored
  <2>1. CountedCalls' = CountedCalls
    BY <1>1 DEF CountedCalls
  <2>2. stored' + Cardinality(CountedCalls') <= PhotoLimit + Cardinality(Requests) - 1
    BY <1>1, <2>1, PhotoNumbers, PhotosAssumption
  <2>3. stored' \in 0..MaxStored
    BY <1>1, PhotoNumbers, PhotosAssumption
  <2> QED BY <2>2, <2>3 DEF WithinLimit
<1> QED BY <1>1, <1>2, <1>4, <1>5, PhotoFacts, PhotoTyped

LEMMA PhotoStep == PhotoInv /\ [PhoNext]_phoVars => PhotoInv'
<1> SUFFICES ASSUME PhotoInv, [PhoNext]_phoVars PROVE PhotoInv'
  OBVIOUS
<1>1. CASE UNCHANGED phoVars
  <2>1. UNCHANGED <<queue, sender, drain, discarding, discarded, stored, reached, phoReq>>
    BY <1>1 DEF phoVars
  <2>2. Taken' = Taken
    BY <2>1 DEF Taken
  <2>3. /\ queue' \in Seq(QueuedPhoto) /\ Len(queue)' <= MaxPhotos
        /\ discarding' \in Discards /\ discarded' \subseteq Photos /\ Discarding' /\ Kept'
    BY <2>1, QueueRests
  <2> QED BY <2>1, <2>2, <2>3, SendersRest, PhotoTyped
<1>2. ASSUME NEW w \in Workers, StartDrain(w) \/ ReadBatch(w) \/ NextPhoto(w) PROVE PhotoInv'
  BY <1>2, DrainSteps, PhotoNext
<1>3. ASSUME NEW s \in Senders,
             \/ SendPhoto(s) \/ GiveUp(s) \/ SettlePhoto(s) \/ DeleteFiles(s)
             \/ Park(s) \/ KeepPhoto(s) \/ StopPhoto(s)
      PROVE  PhotoInv'
  BY <1>3, PhotoSends, PhotoLeaves, PhotoSettles
<1>4. ASSUME NEW r \in Requests, CountPhotos(r) \/ InsertRow(r) \/ FailUpload(r) PROVE PhotoInv'
  BY <1>4, PhotoCounted, PhotoInserted, PhotoFails
<1> QED BY <1>1, <1>2, <1>3, <1>4, PhotoTaken, PhotoDiscards, PhotoDeleted DEF PhoNext

LEMMA PhotosKeptOnly == PhotoInv => PhotosAreKept
<1> SUFFICES ASSUME PhotoInv PROVE PhotosAreKept
  OBVIOUS
<1>1. stored <= PhotoLimit + Cardinality(Requests) - 1
  BY PhotoNumbers, PhotosAssumption
<1> QED BY <1>1, PhotoFacts DEF PhotosAreKept, Kept

-----------------------------------------------------------------------------
(* Releases.                                                                *)

\* The releases a request refers to as rows of the table, the one it has put and
\* not yet entered, and those the retention has it remove.
HeldBy(e) ==
  IF e.at = "remove" THEN e.todo
  ELSE IF e.at = "delete" THEN e.todo \cup {e.target}
  ELSE IF e.at = "commit" /\ e.act = "promote" THEN {e.target} ELSE {}

NewBy(e) ==
  IF e.at = "begin" \/ (e.at = "commit" /\ e.act # "promote") THEN {e.target} ELSE {}

PrunedBy(e) ==
  IF e.at = "remove" /\ e.prune THEN e.todo
  ELSE IF e.at = "delete" /\ e.prune THEN e.todo \cup {e.target} ELSE {}

\* A row's id is that of an upload, and no other row's.
RowsNumbered ==
  \A v \in Versions :
    /\ releases[v].id <= puts
    /\ releases[v] # NoRelease => v \in published
    /\ \A w \in Versions : releases[v].id = releases[w].id /\ v # w => releases[v].id = 0

\* What a request refers to is a row of its version, or gone.
HeldNumbered ==
  \A r \in Requests : \A t \in HeldBy(relReq[r]) :
    t.id <= puts /\ \A v \in Versions : releases[v].id = t.id => v = t.version

\* A build that has been put and not entered is in the bucket, and nobody knows it.
NewUnknown ==
  \A r \in Requests : \A t \in NewBy(relReq[r]) :
    /\ t.id <= puts /\ t.id \in bucket
    /\ \A v \in Versions : releases[v].id # t.id
    /\ \A q \in Requests : \A u \in HeldBy(relReq[q]) : u.id # t.id
    /\ \A q \in Requests \ {r} : \A u \in NewBy(relReq[q]) : u.id # t.id

\* A transaction has seen every row that is current, or missed it.
CurrentSeen ==
  \A r \in Requests : relReq[r].at = "commit" =>
    IF relReq[r].act = "store" THEN relReq[r].seen = {}
    ELSE \A v \in Versions : releases[v].current =>
           releases[v].id \in relReq[r].seen \cup missed[r]

ObjectsThere ==
  \A v \in InTable : releases[v].id \notin bucket =>
    \/ releases[v].id \in cut
    \/ \E r \in Requests : relReq[r].at = "delete" /\ relReq[r].target = TargetOf(v)

CurrentApart ==
  \A v, w \in InTable : v # w /\ releases[v].current /\ releases[w].current =>
    {releases[v].id, releases[w].id} \in together

\* The retention takes releases that have newer ones enough ...
NewerEnough ==
  \A r \in Requests : \A t \in PrunedBy(relReq[r]) :
    Cardinality({v \in published : v > t.version}) >= Retention

\* ... and that are not current, but by hand.
PrunedByHand ==
  \A r \in Requests : \A t \in PrunedBy(relReq[r]) :
    IsThere(t) /\ releases[t.version].current => t.id \in promoted

PhoneTold ==
  phone.at = "told" => \E v \in InTable : Offered(v) /\ releases[v].id = phone.named

ReleaseInv ==
  /\ RelTypeOK
  /\ RowsNumbered /\ HeldNumbered /\ NewUnknown /\ CurrentSeen
  /\ ObjectsThere /\ CurrentApart /\ NewerEnough /\ PrunedByHand /\ PhoneTold

LEMMA ReleaseStart == RelInit => ReleaseInv
<1> SUFFICES ASSUME RelInit PROVE ReleaseInv
  OBVIOUS
<1> USE ReleasesAssumption
<1>1. RelTypeOK
  BY DEF RelInit, RelTypeOK, NoRelease, RelStates, RelIdle, Phones, NoInstall
<1>2. \A r \in Requests : HeldBy(relReq[r]) = {} /\ NewBy(relReq[r]) = {} /\ PrunedBy(relReq[r]) = {}
  BY DEF RelInit, RelIdle, HeldBy, NewBy, PrunedBy
<1>3. InTable = {} /\ \A v \in Versions : releases[v].id = 0 /\ ~releases[v].current
  BY DEF RelInit, InTable, NoRelease
<1>4. RowsNumbered /\ HeldNumbered /\ NewUnknown
  BY <1>2, <1>3 DEF RelInit, RowsNumbered, HeldNumbered, NewUnknown, NoRelease
<1>5. CurrentSeen /\ NewerEnough /\ PrunedByHand
  BY <1>2 DEF RelInit, RelIdle, CurrentSeen, NewerEnough, PrunedByHand
<1>6. ObjectsThere /\ CurrentApart /\ PhoneTold
  BY <1>3 DEF RelInit, ObjectsThere, CurrentApart, PhoneTold, NoInstall
<1> QED BY <1>1, <1>4, <1>5, <1>6 DEF ReleaseInv

\* What a request's state is made of.
LEMMA RelFields ==
  ASSUME NEW e \in RelStates
  PROVE  /\ e.at \in {"idle", "put", "begin", "commit", "prune", "remove", "delete"}
         /\ e.at = "idle" => e = RelIdle
         /\ e.at = "put" => e.version \in Versions
         /\ e.at = "begin" => e.act \in {"publish", "store"} /\ e.target \in Target
         /\ e.at = "commit" => e.act \in Acts /\ e.target \in Target /\ e.seen \subseteq Uploads
         /\ e.at \in {"remove", "delete"} => e.prune \in BOOLEAN /\ e.todo \subseteq Target
         /\ e.at = "delete" => e.target \in Target
         /\ HeldBy(e) \subseteq Target /\ NewBy(e) \subseteq Target /\ PrunedBy(e) \subseteq HeldBy(e)
BY DEF RelStates, RelIdle, Acts, HeldBy, NewBy, PrunedBy

\* A step of a request leaves the others where they are.
LEMMA RelOthers ==
  ASSUME RelTypeOK, NEW r \in Requests, NEW state \in RelStates, RelSet(r, state)
  PROVE  /\ relReq' \in [Requests -> RelStates]
         /\ relReq'[r] = state
         /\ \A q \in Requests : q # r => relReq'[q] = relReq[q]
BY DEF RelTypeOK, RelSet

LEMMA ReleaseFields ==
  ASSUME RelTypeOK
  PROVE  /\ puts \in 0..MaxUploads /\ MaxUploads \in Nat
         /\ \A v \in Versions : /\ releases[v] \in {NoRelease} \cup ReleaseRow
                                /\ releases[v].id \in 0..MaxUploads
                                /\ releases[v].current \in BOOLEAN
                                /\ releases[v] = NoRelease <=> releases[v].id = 0
                                /\ releases[v].current => releases[v] # NoRelease
         /\ \A v \in InTable : TargetOf(v) \in Target /\ IsThere(TargetOf(v))
         /\ CurrentIds \subseteq Uploads
         /\ \A r \in Requests : relReq[r] \in RelStates
<1> USE ReleasesAssumption
<1>1. puts \in 0..MaxUploads /\ \A r \in Requests : relReq[r] \in RelStates
  BY DEF RelTypeOK
<1>2. \A v \in Versions : releases[v] \in {NoRelease} \cup ReleaseRow
  BY DEF RelTypeOK
<1>3. ASSUME NEW v \in Versions
      PROVE  /\ releases[v].id \in 0..MaxUploads
             /\ releases[v].current \in BOOLEAN
             /\ releases[v] = NoRelease <=> releases[v].id = 0
             /\ releases[v].current => releases[v] # NoRelease
             /\ releases[v] # NoRelease => releases[v].id \in Uploads
  <2>1. CASE releases[v] = NoRelease
    BY <2>1 DEF NoRelease
  <2>2. CASE releases[v] \in ReleaseRow
    BY <2>2 DEF NoRelease, ReleaseRow, Uploads
  <2> QED BY <1>2, <2>1, <2>2
<1>4. \A v \in InTable : TargetOf(v) \in Target /\ IsThere(TargetOf(v))
  BY <1>3 DEF InTable, TargetOf, Target, IsThere
<1>5. CurrentIds \subseteq Uploads
  BY <1>3 DEF CurrentIds
<1> QED BY <1>1, <1>2, <1>3, <1>4, <1>5

\* A step that leaves the table alone, in which a request comes to refer to rows
\* it has just seen, or to what it referred to before.
LEMMA TableRests ==
  ASSUME ReleaseInv, NEW r \in Requests, NEW state \in RelStates, RelSet(r, state),
         UNCHANGED <<releases, puts, published, promoted, together>>,
         bucket' \subseteq bucket, bucket \subseteq bucket' \cup {t.id : t \in HeldBy(relReq[r])},
         cut \subseteq cut', cut' \subseteq Uploads,
         missed' \in [Requests -> SUBSET Uploads], \A q \in Requests \ {r} : missed'[q] = missed[q],
         phone' = phone,
         HeldBy(state) \subseteq HeldBy(relReq[r]) \cup {TargetOf(v) : v \in InTable},
         NewBy(state) \subseteq NewBy(relReq[r]),
         state.at = "commit" =>
           /\ state.act = "store" => state.seen = {}
           /\ state.act # "store" => CurrentIds \subseteq state.seen,
         \A t \in PrunedBy(state) :
           \/ t \in PrunedBy(relReq[r])
           \/ \E v \in Beyond : t = TargetOf(v),
         \A v \in InTable : 
            /\ releases[v].id \in bucket /\ releases[v].id \notin bucket' =>
                 state.at = "delete" /\ state.target = TargetOf(v)
            /\ relReq[r].at = "delete" /\ relReq[r].target = TargetOf(v) => releases[v].id \in cut'
  PROVE  ReleaseInv'
<1> USE ReleasesAssumption
<1>0. /\ relReq' \in [Requests -> RelStates] /\ relReq'[r] = state
      /\ \A q \in Requests : q # r => relReq'[q] = relReq[q]
  BY RelOthers DEF ReleaseInv
<1>a. InTable' = InTable /\ CurrentIds' = CurrentIds /\ \A t : IsThere(t)' <=> IsThere(t)
  BY DEF InTable, CurrentIds, IsThere
<1>b. \A v : TargetOf(v)' = TargetOf(v) /\ (Offered(v)' <=> Offered(v))
  BY DEF TargetOf, Offered
<1>1. RelTypeOK'
  BY <1>0 DEF ReleaseInv, RelTypeOK
<1>2. RowsNumbered'
  BY DEF ReleaseInv, RowsNumbered
<1>3. HeldNumbered'
  <2> SUFFICES ASSUME NEW q \in Requests, NEW t \in HeldBy(relReq'[q])
               PROVE  t.id <= puts /\ \A v \in Versions : releases[v].id = t.id => v = t.version
    BY DEF HeldNumbered
  <2>1. CASE t \in HeldBy(relReq[q])
    BY <2>1 DEF ReleaseInv, HeldNumbered
  <2>2. CASE \E v \in InTable : t = TargetOf(v)
    <3> PICK v \in InTable : t = TargetOf(v)
      BY <2>2
    <3>1. v \in Versions /\ t.id = releases[v].id /\ releases[v] # NoRelease
      BY DEF TargetOf, InTable
    <3>2. releases[v].id # 0
      BY <3>1, ReleaseFields DEF ReleaseInv
    <3>3. t.id <= puts /\ \A w \in Versions : releases[w].id = t.id => v = w
      BY <3>1, <3>2, ReleaseFields DEF ReleaseInv, RowsNumbered
    <3>4. t.version = v
      BY DEF TargetOf
    <3> QED BY <3>3, <3>4
  <2> QED BY <1>0, <2>1, <2>2
<1>4. NewUnknown'
  <2> SUFFICES ASSUME NEW q \in Requests, NEW t \in NewBy(relReq'[q])
               PROVE  /\ t.id <= puts /\ t.id \in bucket'
                      /\ \A v \in Versions : releases[v].id # t.id
                      /\ \A p \in Requests : \A u \in HeldBy(relReq'[p]) : u.id # t.id
                      /\ \A p \in Requests \ {q} : \A u \in NewBy(relReq'[p]) : u.id # t.id
    BY DEF NewUnknown
  <2>1. t \in NewBy(relReq[q])
    BY <1>0
  <2>2. /\ t.id <= puts /\ t.id \in bucket
        /\ \A v \in Versions : releases[v].id # t.id
        /\ \A p \in Requests : \A u \in HeldBy(relReq[p]) : u.id # t.id
        /\ \A p \in Requests \ {q} : \A u \in NewBy(relReq[p]) : u.id # t.id
    BY <2>1 DEF ReleaseInv, NewUnknown
  <2>3. t.id \in bucket'
    BY <2>2
  <2>4. \A p \in Requests : \A u \in HeldBy(relReq'[p]) : u.id # t.id
    BY <1>0, <2>2 DEF TargetOf, InTable
  <2>5. \A p \in Requests \ {q} : \A u \in NewBy(relReq'[p]) : u.id # t.id
    BY <1>0, <2>2
  <2> QED BY <2>2, <2>3, <2>4, <2>5
<1>5. CurrentSeen'
  <2> SUFFICES ASSUME NEW q \in Requests, relReq'[q].at = "commit"
               PROVE  IF relReq'[q].act = "store" THEN relReq'[q].seen = {}
                      ELSE \A v \in Versions : releases[v].current =>
                             releases[v].id \in relReq'[q].seen \cup missed'[q]
    BY DEF CurrentSeen
  <2>1. CASE q = r
    BY <1>0, <2>1 DEF CurrentIds
  <2>2. CASE q # r
    BY <1>0, <2>2 DEF ReleaseInv, CurrentSeen
  <2> QED BY <2>1, <2>2
<1>6. ObjectsThere'
  <2> SUFFICES ASSUME NEW v \in InTable, releases[v].id \notin bucket'
               PROVE  \/ releases[v].id \in cut'
                      \/ \E q \in Requests : relReq'[q].at = "delete" /\ relReq'[q].target = TargetOf(v)
    BY <1>a, <1>b DEF ObjectsThere
  <2>1. CASE releases[v].id \in bucket
    BY <1>0, <2>1
  <2>2. CASE releases[v].id \notin bucket
    BY <1>0, <2>2 DEF ReleaseInv, ObjectsThere
  <2> QED BY <2>1, <2>2
<1>7. CurrentApart'
  BY <1>a DEF ReleaseInv, CurrentApart
<1>8. NewerEnough' /\ PrunedByHand'
  <2> SUFFICES ASSUME NEW q \in Requests, NEW t \in PrunedBy(relReq'[q])
               PROVE  /\ Cardinality({v \in published : v > t.version}) >= Retention
                      /\ IsThere(t) /\ releases[t.version].current => t.id \in promoted
    BY <1>a DEF NewerEnough, PrunedByHand
  <2>1. CASE t \in PrunedBy(relReq[q])
    BY <2>1 DEF ReleaseInv, NewerEnough, PrunedByHand
  <2>2. CASE \E v \in Beyond : t = TargetOf(v)
    <3> PICK v \in Beyond : t = TargetOf(v)
      BY <2>2
    <3>1. v \in InTable /\ ~releases[v].current /\ t.version = v
      BY DEF Beyond, TargetOf
    <3>2. {w \in InTable : w > v} \subseteq {w \in published : w > v}
      BY DEF ReleaseInv, RowsNumbered, InTable
    <3>3. IsFiniteSet({w \in published : w > v})
      BY FS_Subset DEF ReleaseInv, RelTypeOK
    <3>4. Cardinality({w \in InTable : w > v}) <= Cardinality({w \in published : w > v})
      BY <3>2, <3>3, FS_Subset
    <3>5. Cardinality({w \in InTable : w > v}) >= Retention
      BY DEF Beyond
    <3>6. /\ Cardinality({w \in InTable : w > v}) \in Nat
          /\ Cardinality({w \in published : w > v}) \in Nat
      BY <3>2, <3>3, FS_Subset, FS_CardinalityType
    <3> QED BY <3>1, <3>4, <3>5, <3>6
  <2> QED BY <1>0, <2>1, <2>2
<1>9. PhoneTold'
  BY <1>a, <1>b DEF ReleaseInv, PhoneTold
<1> QED BY <1>1, <1>2, <1>3, <1>4, <1>5, <1>6, <1>7, <1>8, <1>9 DEF ReleaseInv

LEMMA ReleaseReads ==
  ASSUME ReleaseInv, NEW r \in Requests,
         FindVersion(r) \/ PromoteRelease(r) \/ DemoteCurrent(r) \/ FindRelease(r) \/ ReadOld(r)
  PROVE  ReleaseInv'
<1>0. RelTypeOK /\ relReq[r] \in RelStates /\ cut \subseteq Uploads /\ missed \in [Requests -> SUBSET Uploads]
  BY DEF ReleaseInv, RelTypeOK
<1>1. CASE FindVersion(r)
  <2> PICK v \in Versions : RelSet(r, [at |-> "put", version |-> v])
    BY <1>1 DEF FindVersion
  <2> DEFINE state == [at |-> "put", version |-> v]
  <2>1. state \in RelStates /\ HeldBy(state) = {} /\ NewBy(state) = {} /\ PrunedBy(state) = {}
    BY DEF RelStates, HeldBy, NewBy, PrunedBy
  <2>2. relReq[r].at = "idle" /\ UNCHANGED <<releases, bucket, puts, phone, relHistory>>
    BY <1>1 DEF FindVersion, RelIdle
  <2> HIDE DEF state
  <2> QED BY <1>0, <2>1, <2>2, TableRests DEF relHistory, state
<1>2. CASE PromoteRelease(r)
  <2> PICK v \in InTable : BeginRelease(r, "promote", TargetOf(v))
    BY <1>2 DEF PromoteRelease
  <2> DEFINE state == [at |-> "commit", act |-> "promote", target |-> TargetOf(v), seen |-> CurrentIds]
  <2>1. state \in RelStates /\ HeldBy(state) = {TargetOf(v)} /\ NewBy(state) = {} /\ PrunedBy(state) = {}
    BY <1>0, ReleaseFields DEF RelStates, HeldBy, NewBy, PrunedBy, Acts
  <2>2. RelSet(r, state)
    BY DEF BeginRelease
  <2>3. state.at = "commit" /\ state.act = "promote" /\ state.seen = CurrentIds
    OBVIOUS
  <2>4. relReq[r].at = "idle" /\ UNCHANGED <<releases, bucket, puts, phone, relHistory>>
    BY <1>2 DEF PromoteRelease, RelIdle
  <2> HIDE DEF state
  <2> QED BY <1>0, <2>1, <2>2, <2>3, <2>4, TableRests DEF relHistory
<1>3. CASE DemoteCurrent(r)
  <2> DEFINE e == relReq[r]
             state == [at |-> "commit", act |-> e.act, target |-> e.target,
                       seen |-> IF e.act = "store" THEN {} ELSE CurrentIds]
  <2>1. e.at = "begin" /\ e.act \in {"publish", "store"} /\ e.target \in Target
    BY <1>0, <1>3, RelFields DEF DemoteCurrent
  <2>2. state \in RelStates /\ HeldBy(state) = {} /\ NewBy(state) = NewBy(e) /\ PrunedBy(state) = {}
    BY <1>0, <2>1, ReleaseFields DEF RelStates, HeldBy, NewBy, PrunedBy, Acts
  <2>3. RelSet(r, state) /\ UNCHANGED <<releases, bucket, puts, phone, relHistory>>
    BY <1>3 DEF DemoteCurrent, BeginRelease
  <2>4. /\ state.act = "store" => state.seen = {}
        /\ state.act # "store" => CurrentIds \subseteq state.seen
        /\ state.at = "commit"
    OBVIOUS
  <2> HIDE DEF state
  <2> QED BY <1>0, <2>1, <2>2, <2>3, <2>4, TableRests DEF relHistory
<1>4. CASE FindRelease(r)
  <2> PICK v \in InTable : RemoveReleases(r, FALSE, {TargetOf(v)})
    BY <1>4 DEF FindRelease
  <2> DEFINE state == [at |-> "remove", prune |-> FALSE, todo |-> {TargetOf(v)}]
  <2>1. state \in RelStates /\ HeldBy(state) = {TargetOf(v)} /\ NewBy(state) = {} /\ PrunedBy(state) = {}
    BY <1>0, ReleaseFields DEF RelStates, HeldBy, NewBy, PrunedBy
  <2>2. RelSet(r, state) /\ state.at = "remove"
    BY DEF RemoveReleases
  <2>4. relReq[r].at = "idle" /\ UNCHANGED <<releases, bucket, puts, phone, relHistory>>
    BY <1>4 DEF FindRelease, RelIdle
  <2> HIDE DEF state
  <2> QED BY <1>0, <2>1, <2>2, <2>4, TableRests DEF relHistory
<1>5. CASE ReadOld(r)
  <2> DEFINE todo == {TargetOf(v) : v \in Beyond}
             state == IF todo = {} THEN RelIdle ELSE [at |-> "remove", prune |-> TRUE, todo |-> todo]
  <2>1. todo \subseteq {TargetOf(v) : v \in InTable} /\ todo \subseteq Target
    BY <1>0, ReleaseFields DEF Beyond
  <2>2. /\ state \in RelStates /\ HeldBy(state) \subseteq todo /\ NewBy(state) = {}
        /\ PrunedBy(state) \subseteq todo /\ state.at \in {"idle", "remove"}
    <3> HIDE DEF todo
    <3> QED BY <2>1 DEF RelStates, RelIdle, HeldBy, NewBy, PrunedBy
  <2>3. RelSet(r, state)
    BY <1>5 DEF ReadOld, RemoveReleases
  <2>4. relReq[r].at = "prune" /\ UNCHANGED <<releases, bucket, puts, phone, relHistory>>
    BY <1>5 DEF ReadOld
  <2>5. \A t \in PrunedBy(state) : \E v \in Beyond : t = TargetOf(v)
    BY <2>2
  <2> HIDE DEF state, todo
  <2>6. HeldBy(state) \subseteq {TargetOf(v) : v \in InTable}
    BY <2>1, <2>2
  <2> QED BY <1>0, <2>2, <2>3, <2>4, <2>5, <2>6, TableRests DEF relHistory
<1> QED BY <1>1, <1>2, <1>3, <1>4, <1>5

LEMMA ReleaseObjects ==
  ASSUME ReleaseInv, NEW r \in Requests, RemoveObject(r)
  PROVE  ReleaseInv'
<1> DEFINE e == relReq[r]
<1>0. /\ RelTypeOK /\ e \in RelStates /\ e.at = "remove" /\ HeldBy(e) = e.todo
      /\ e.prune \in BOOLEAN /\ e.todo \subseteq Target
      /\ cut \subseteq Uploads /\ missed \in [Requests -> SUBSET Uploads]
  BY RelFields DEF ReleaseInv, RelTypeOK, RemoveObject, HeldBy
<1> PICK t \in e.todo :
      /\ bucket' \in {bucket, bucket \ {t.id}}
      /\ RelSet(r, [at |-> "delete", prune |-> e.prune, target |-> t, todo |-> e.todo \ {t}])
  BY DEF RemoveObject
<1> DEFINE state == [at |-> "delete", prune |-> e.prune, target |-> t, todo |-> e.todo \ {t}]
<1>1. /\ state \in RelStates /\ HeldBy(state) = e.todo /\ NewBy(state) = {}
      /\ PrunedBy(state) = PrunedBy(e) /\ state.at = "delete" /\ state.target = t
  BY <1>0 DEF RelStates, HeldBy, NewBy, PrunedBy
<1>2. RelSet(r, state) /\ UNCHANGED <<releases, puts, phone, relHistory>>
  BY DEF RemoveObject
<1>3. \A v \in InTable : releases[v].id = t.id => t = TargetOf(v)
  BY <1>0 DEF ReleaseInv, HeldNumbered, InTable, TargetOf, Target
<1>4. bucket' \subseteq bucket /\ bucket \subseteq bucket' \cup {u.id : u \in HeldBy(e)}
  BY <1>0
<1>5. \A v \in InTable : releases[v].id \in bucket /\ releases[v].id \notin bucket' =>
        state.target = TargetOf(v)
  BY <1>3
<1> HIDE DEF state
<1> QED BY <1>0, <1>1, <1>2, <1>4, <1>5, TableRests DEF relHistory

\* A request ends and leaves the table as it is.
LEMMA ReleaseEnds ==
  ASSUME ReleaseInv, NEW r \in Requests, RelSet(r, RelIdle),
         UNCHANGED <<releases, bucket, puts, phone, published, promoted, together>>,
         missed' = missed \/ missed' = [missed EXCEPT ![r] = {}],
         cut \subseteq cut', cut' \subseteq Uploads,
         relReq[r].at = "delete" =>
           ~IsThere(relReq[r].target) \/ relReq[r].target.id \in cut'
  PROVE  ReleaseInv'
<1>0. RelTypeOK /\ missed \in [Requests -> SUBSET Uploads]
  BY DEF ReleaseInv, RelTypeOK
<1>1. /\ RelIdle \in RelStates /\ HeldBy(RelIdle) = {} /\ NewBy(RelIdle) = {}
      /\ PrunedBy(RelIdle) = {} /\ RelIdle.at = "idle"
  BY DEF RelStates, RelIdle, HeldBy, NewBy, PrunedBy
<1>2. \A v \in InTable : relReq[r].at = "delete" /\ relReq[r].target = TargetOf(v) =>
        releases[v].id \in cut'
  BY DEF TargetOf, IsThere
<1>3. missed' \in [Requests -> SUBSET Uploads] /\ \A q \in Requests \ {r} : missed'[q] = missed[q]
  BY <1>0
<1> QED BY <1>0, <1>1, <1>2, <1>3, TableRests

LEMMA ReleaseFails ==
  ASSUME ReleaseInv, NEW r \in Requests, FailRelease(r)
  PROVE  ReleaseInv'
<1>1. relReq[r] \in RelStates /\ cut \subseteq Uploads
  BY DEF ReleaseInv, RelTypeOK
<1>2. cut \subseteq cut' /\ cut' \subseteq Uploads
  BY <1>1, RelFields DEF FailRelease, Target
<1>3. relReq[r].at = "delete" => relReq[r].target.id \in cut'
  BY DEF FailRelease
<1> QED BY <1>2, <1>3, ReleaseEnds DEF FailRelease

LEMMA ReleasePuts ==
  ASSUME ReleaseInv, NEW r \in Requests, PutObject(r)
  PROVE  ReleaseInv'
<1> USE ReleasesAssumption
<1> DEFINE e == relReq[r]
           n == puts + 1
<1>0. /\ RelTypeOK /\ e \in RelStates /\ e.at = "put" /\ e.version \in Versions
      /\ puts' = n /\ bucket' = bucket \cup {n} /\ n \in Uploads /\ puts \in Nat /\ puts < n
      /\ UNCHANGED <<releases, phone, relHistory>>
  BY RelFields DEF ReleaseInv, RelTypeOK, PutObject, Uploads
<1> PICK act \in {"publish", "store"} :
      RelSet(r, [at |-> "begin", act |-> act, target |-> [version |-> e.version, id |-> n]])
  BY DEF PutObject
<1> DEFINE t == [version |-> e.version, id |-> n]
           state == [at |-> "begin", act |-> act, target |-> t]
<1>1. /\ state \in RelStates /\ HeldBy(state) = {} /\ NewBy(state) = {t} /\ PrunedBy(state) = {}
      /\ state.at = "begin" /\ t.id = n
  BY <1>0 DEF RelStates, HeldBy, NewBy, PrunedBy, Target
<1>2. /\ relReq' \in [Requests -> RelStates] /\ relReq'[r] = state
      /\ \A q \in Requests : q # r => relReq'[q] = relReq[q]
  BY <1>0, <1>1, RelOthers
<1>3. NewBy(e) = {} /\ HeldBy(e) = {} /\ PrunedBy(e) = {}
  BY <1>0 DEF NewBy, HeldBy, PrunedBy
<1>a. InTable' = InTable /\ \A u : IsThere(u)' <=> IsThere(u)
  BY <1>0 DEF InTable, IsThere
<1>b. \A v : TargetOf(v)' = TargetOf(v) /\ (Offered(v)' <=> Offered(v))
  BY <1>0 DEF TargetOf, Offered
<1>c. \A q \in Requests : \A u \in HeldBy(relReq[q]) \cup NewBy(relReq[q]) : u \in Target /\ u.id <= puts
  BY RelFields DEF ReleaseInv, RelTypeOK, HeldNumbered, NewUnknown
<1>d. \A v \in Versions : releases[v].id <= puts /\ releases[v].id \in Nat
  <2>1. \A v \in Versions : releases[v].id \in 0..MaxUploads
    BY <1>0, ReleaseFields
  <2> QED BY <2>1 DEF ReleaseInv, RowsNumbered
<1>e. \A q \in Requests : \A u \in HeldBy(relReq[q]) \cup NewBy(relReq[q]) : u.id \in Nat
  BY <1>c DEF Target, Uploads
<1> HIDE DEF state, t, n
<1>4. RelTypeOK'
  BY <1>0, <1>2 DEF RelTypeOK, relHistory, Uploads, n
<1>5. RowsNumbered'
  BY <1>0, <1>d DEF ReleaseInv, RowsNumbered, relHistory, n
<1>6. HeldNumbered'
  BY <1>0, <1>1, <1>2, <1>c, <1>e DEF ReleaseInv, HeldNumbered, n
<1>7. NewUnknown'
  <2> SUFFICES ASSUME NEW q \in Requests, NEW u \in NewBy(relReq'[q])
               PROVE  /\ u.id <= puts' /\ u.id \in bucket'
                      /\ \A v \in Versions : releases'[v].id # u.id
                      /\ \A p \in Requests : \A w \in HeldBy(relReq'[p]) : w.id # u.id
                      /\ \A p \in Requests \ {q} : \A w \in NewBy(relReq'[p]) : w.id # u.id
    BY DEF NewUnknown
  <2>1. CASE q = r
    <3>1. u.id = n
      BY <1>1, <1>2, <2>1
    <3>2. \A p \in Requests : \A w \in HeldBy(relReq'[p]) : w.id # n
      BY <1>0, <1>1, <1>2, <1>c, <1>e
    <3>3. \A p \in Requests \ {q} : \A w \in NewBy(relReq'[p]) : w.id # n
      BY <1>0, <1>2, <1>c, <1>e, <2>1
    <3>4. n <= puts' /\ n \in bucket' /\ \A v \in Versions : releases'[v].id # n
      BY <1>0, <1>d DEF n
    <3> QED BY <3>1, <3>2, <3>3, <3>4
  <2>2. CASE q # r
    <3>1. u \in NewBy(relReq[q])
      BY <1>2, <2>2
    <3>2. u.id <= puts /\ u.id \in bucket /\ \A v \in Versions : releases[v].id # u.id
      BY <3>1 DEF ReleaseInv, NewUnknown
    <3>3. \A p \in Requests : \A w \in HeldBy(relReq'[p]) : w.id # u.id
      BY <1>1, <1>2, <3>1 DEF ReleaseInv, NewUnknown
    <3>4. \A p \in Requests \ {q} : \A w \in NewBy(relReq'[p]) : w.id # u.id
      <4> SUFFICES ASSUME NEW p \in Requests \ {q}, NEW w \in NewBy(relReq'[p]) PROVE w.id # u.id
        OBVIOUS
      <4>1. CASE p = r
        BY <1>0, <1>1, <1>2, <1>e, <3>1, <3>2, <4>1
      <4>2. CASE p # r
        BY <1>2, <3>1, <4>2 DEF ReleaseInv, NewUnknown
      <4> QED BY <4>1, <4>2
    <3>5. u.id <= puts'
      BY <1>0, <1>e, <3>1, <3>2 DEF n
    <3> QED BY <1>0, <3>2, <3>3, <3>4, <3>5
  <2> QED BY <2>1, <2>2
<1>8. CurrentSeen'
  BY <1>0, <1>1, <1>2 DEF ReleaseInv, CurrentSeen, relHistory
<1>9. ObjectsThere'
  <2> SUFFICES ASSUME NEW v \in InTable, releases[v].id \notin bucket'
               PROVE  \/ releases[v].id \in cut
                      \/ \E q \in Requests : relReq'[q].at = "delete" /\ relReq'[q].target = TargetOf(v)
    BY <1>0, <1>a, <1>b DEF ObjectsThere, relHistory
  <2>1. releases[v].id \notin bucket
    BY <1>0
  <2> QED BY <1>0, <1>2, <2>1 DEF ReleaseInv, ObjectsThere
<1>10. CurrentApart'
  BY <1>0, <1>a DEF ReleaseInv, CurrentApart, relHistory
<1>11. NewerEnough' /\ PrunedByHand'
  BY <1>0, <1>1, <1>2, <1>a DEF ReleaseInv, NewerEnough, PrunedByHand, relHistory
<1>12. PhoneTold'
  BY <1>0, <1>a, <1>b DEF ReleaseInv, PhoneTold
<1> QED BY <1>4, <1>5, <1>6, <1>7, <1>8, <1>9, <1>10, <1>11, <1>12 DEF ReleaseInv

LEMMA ReleaseTells ==
  ASSUME ReleaseInv, OpenInstallPage \/ ReadManifest \/ GetIpa
  PROVE  ReleaseInv'
<1>1. /\ UNCHANGED <<releases, bucket, puts, relReq, relHistory>>
      /\ phone' = NoInstall \/ \E v \in Versions :
                                 Offered(v) /\ phone' = [at |-> "told", named |-> releases[v].id]
  BY DEF OpenInstallPage, ReadManifest, Tell, GetIpa
<1>2. RelTypeOK
  BY DEF ReleaseInv
<1>3. InTable' = InTable /\ (\A v : Offered(v)' <=> Offered(v)) /\ \A v : TargetOf(v)' = TargetOf(v)
  BY <1>1 DEF InTable, Offered, TargetOf
<1>4. phone' \in Phones /\ PhoneTold'
  <2>1. CASE phone' = NoInstall
    BY <2>1 DEF Phones, NoInstall, PhoneTold
  <2>2. CASE phone' # NoInstall
    <3> PICK v \in Versions : Offered(v) /\ phone' = [at |-> "told", named |-> releases[v].id]
      BY <1>1, <2>2
    <3>1. v \in InTable /\ releases[v].id \in Uploads
      BY <1>2, ReleaseFields DEF Offered, InTable, CurrentIds
    <3> QED BY <1>1, <1>3, <3>1 DEF Phones, PhoneTold
  <2> QED BY <2>1, <2>2
<1>5. RelTypeOK' /\ RowsNumbered' /\ HeldNumbered' /\ NewUnknown' /\ CurrentSeen'
  BY <1>1, <1>4 DEF ReleaseInv, RelTypeOK, RowsNumbered, HeldNumbered, NewUnknown, CurrentSeen, relHistory
<1>6. ObjectsThere' /\ CurrentApart' /\ NewerEnough' /\ PrunedByHand'
  BY <1>1, <1>3 DEF ReleaseInv, ObjectsThere, CurrentApart, NewerEnough, PrunedByHand, relHistory, IsThere
<1> QED BY <1>4, <1>5, <1>6 DEF ReleaseInv

LEMMA ReleaseWithdrawn ==
  ASSUME ReleaseInv, Withdraw
  PROVE  ReleaseInv'
<1> PICK v \in Versions : releases[v].current /\ releases' = [releases EXCEPT ![v].current = FALSE]
  BY DEF Withdraw
<1>1. /\ UNCHANGED <<bucket, puts, relReq, published, promoted, cut, missed, together>>
      /\ phone' = NoInstall
  BY DEF Withdraw, Overtake
<1>2. RelTypeOK
  BY DEF ReleaseInv
<1>3. /\ releases \in [Versions -> {NoRelease} \cup ReleaseRow]
      /\ releases[v] \in ReleaseRow /\ releases[v] # NoRelease
  BY <1>2, ReleaseFields DEF RelTypeOK
<1>4. /\ \A w \in Versions : /\ releases'[w].id = releases[w].id
                             /\ releases'[w].current => releases[w].current
                             /\ (releases'[w] = NoRelease) <=> (releases[w] = NoRelease)
      /\ releases' \in [Versions -> {NoRelease} \cup ReleaseRow]
  <2>1. ASSUME NEW w \in Versions
        PROVE  /\ releases'[w].id = releases[w].id
               /\ releases'[w].current => releases[w].current
               /\ (releases'[w] = NoRelease) <=> (releases[w] = NoRelease)
    <3>1. CASE w = v
      <4>1. releases'[v] = [releases[v] EXCEPT !.current = FALSE] /\ releases[v].id # 0
        BY <1>3 DEF ReleaseRow, Uploads
      <4> QED BY <1>3, <3>1, <4>1 DEF ReleaseRow, NoRelease
    <3>2. CASE w # v
      BY <1>3, <3>2
    <3> QED BY <3>1, <3>2
  <2>2. releases' \in [Versions -> {NoRelease} \cup ReleaseRow]
    BY <1>3 DEF ReleaseRow
  <2> QED BY <2>1, <2>2
<1>5. InTable' = InTable /\ \A w \in Versions : TargetOf(w)' = TargetOf(w)
  BY <1>4 DEF InTable, TargetOf
<1>6. \A r \in Requests : \A t \in PrunedBy(relReq[r]) : t.version \in Versions
  BY <1>2, RelFields, ReleaseFields DEF Target
<1>7. RelTypeOK' /\ PhoneTold'
  BY <1>1, <1>2, <1>4 DEF RelTypeOK, Phones, PhoneTold, NoInstall
<1>8. RowsNumbered' /\ HeldNumbered' /\ NewUnknown' /\ CurrentSeen'
  BY <1>1, <1>4 DEF ReleaseInv, RowsNumbered, HeldNumbered, NewUnknown, CurrentSeen
<1>9. ObjectsThere' /\ CurrentApart' /\ NewerEnough'
  BY <1>1, <1>4, <1>5 DEF ReleaseInv, ObjectsThere, CurrentApart, NewerEnough, InTable
<1>10. PrunedByHand'
  BY <1>1, <1>4, <1>6 DEF ReleaseInv, PrunedByHand, IsThere
<1> QED BY <1>7, <1>8, <1>9, <1>10 DEF ReleaseInv

LEMMA ReleaseDeletes ==
  ASSUME ReleaseInv, NEW r \in Requests, DeleteRow(r)
  PROVE  ReleaseInv'
<1> DEFINE e == relReq[r]
           t == e.target
           state == IF e.todo = {} THEN RelIdle
                    ELSE [at |-> "remove", prune |-> e.prune, todo |-> e.todo]
<1>0. /\ RelTypeOK /\ e \in RelStates /\ e.at = "delete" /\ t \in Target /\ e.todo \subseteq Target
      /\ e.prune \in BOOLEAN /\ HeldBy(e) = e.todo \cup {t} /\ cut \subseteq Uploads
      /\ UNCHANGED <<bucket, puts, published, missed, together>>
  BY RelFields DEF ReleaseInv, RelTypeOK, DeleteRow, HeldBy
<1>1. CASE ~IsThere(t)
  BY <1>0, <1>1, ReleaseEnds DEF DeleteRow
<1>2. CASE IsThere(t)
  <2>1. /\ releases' = [releases EXCEPT ![t.version] = NoRelease]
        /\ IF e.prune /\ t.id \notin promoted THEN phone' = phone ELSE Overtake
        /\ promoted' = promoted \ {t.id} /\ cut' = cut \ {t.id}
        /\ RelSet(r, state)
    BY <1>2 DEF DeleteRow, RemoveReleases
  <2>2. /\ state \in RelStates /\ HeldBy(state) = e.todo /\ NewBy(state) = {}
        /\ PrunedBy(state) \subseteq PrunedBy(e) /\ state.at \in {"idle", "remove"}
    BY <1>0 DEF RelStates, RelIdle, HeldBy, NewBy, PrunedBy
  <2> HIDE DEF state
  <2>3. /\ relReq' \in [Requests -> RelStates] /\ relReq'[r] = state
        /\ \A q \in Requests : q # r => relReq'[q] = relReq[q]
    BY <1>0, <2>1, <2>2, RelOthers
  <2>4. t.version \in Versions /\ t.id \in Uploads /\ releases[t.version].id = t.id
    BY <1>0, <1>2 DEF Target, IsThere
  <2>5. /\ releases \in [Versions -> {NoRelease} \cup ReleaseRow]
        /\ releases' \in [Versions -> {NoRelease} \cup ReleaseRow]
        /\ releases'[t.version] = NoRelease
        /\ \A v \in Versions : v # t.version => releases'[v] = releases[v]
    BY <1>0, <2>1, <2>4 DEF RelTypeOK
  <2>6. \A v \in Versions : v # t.version => releases[v].id # t.id
    BY <1>0 DEF ReleaseInv, HeldNumbered
  <2>7. NoRelease.id = 0 /\ ~NoRelease.current /\ 0 \notin Uploads
    BY DEF NoRelease, Uploads
  <2>8. /\ InTable' = InTable \ {t.version}
        /\ \A v \in InTable' : releases'[v] = releases[v] /\ TargetOf(v)' = TargetOf(v)
    BY <2>4, <2>5 DEF InTable, TargetOf
  <2>9. \A q \in Requests : /\ HeldBy(relReq'[q]) \subseteq HeldBy(relReq[q])
                            /\ NewBy(relReq'[q]) \subseteq NewBy(relReq[q])
                            /\ PrunedBy(relReq'[q]) \subseteq PrunedBy(relReq[q])
                            /\ relReq'[q].at = "commit" => relReq'[q] = relReq[q]
    BY <1>0, <2>2, <2>3
  <2>10. puts \in Nat /\ \A q \in Requests : \A u \in HeldBy(relReq[q]) \cup NewBy(relReq[q]) : u \in Target
    BY <1>0, RelFields DEF RelTypeOK
  <2>11. RelTypeOK'
    BY <1>0, <2>1, <2>3, <2>5 DEF RelTypeOK, Overtake, Phones, NoInstall
  <2>12. RowsNumbered'
    BY <1>0, <2>5, <2>7, <2>10 DEF ReleaseInv, RowsNumbered
  <2>13. HeldNumbered'
    BY <1>0, <2>5, <2>7, <2>9, <2>10 DEF ReleaseInv, HeldNumbered, Target
  <2>14. NewUnknown'
    <3> SUFFICES ASSUME NEW q \in Requests, NEW u \in NewBy(relReq'[q])
                 PROVE  /\ u.id <= puts /\ u.id \in bucket
                        /\ \A v \in Versions : releases'[v].id # u.id
                        /\ \A p \in Requests : \A w \in HeldBy(relReq'[p]) : w.id # u.id
                        /\ \A p \in Requests \ {q} : \A w \in NewBy(relReq'[p]) : w.id # u.id
      BY <1>0 DEF NewUnknown
    <3>1. u \in NewBy(relReq[q]) /\ u.id \in Uploads
      BY <2>9, <2>10 DEF Target
    <3>2. /\ u.id <= puts /\ u.id \in bucket
          /\ \A v \in Versions : releases[v].id # u.id
          /\ \A p \in Requests : \A w \in HeldBy(relReq'[p]) : w.id # u.id
          /\ \A p \in Requests \ {q} : \A w \in NewBy(relReq'[p]) : w.id # u.id
      BY <2>9, <3>1 DEF ReleaseInv, NewUnknown
    <3>3. \A v \in Versions : releases'[v].id # u.id
      BY <2>5, <2>7, <3>1, <3>2
    <3> QED BY <3>2, <3>3
  <2>15. CurrentSeen'
    BY <1>0, <2>5, <2>7, <2>9 DEF ReleaseInv, CurrentSeen
  <2>16. ObjectsThere'
    <3> SUFFICES ASSUME NEW v \in InTable', releases'[v].id \notin bucket
                 PROVE  \/ releases'[v].id \in cut'
                        \/ \E q \in Requests : relReq'[q].at = "delete" /\ relReq'[q].target = TargetOf(v)'
      BY <1>0 DEF ObjectsThere
    <3>1. v \in InTable /\ releases'[v] = releases[v] /\ TargetOf(v)' = TargetOf(v) /\ v # t.version /\ v \in Versions
      BY <2>8 DEF InTable
    <3>2. CASE releases[v].id \in cut
      BY <2>1, <2>6, <3>1, <3>2
    <3>3. CASE \E q \in Requests : relReq[q].at = "delete" /\ relReq[q].target = TargetOf(v)
      <4> PICK q \in Requests : relReq[q].at = "delete" /\ relReq[q].target = TargetOf(v)
        BY <3>3
      <4>1. q # r
        BY <3>1 DEF TargetOf
      <4> QED BY <2>3, <3>1, <4>1
    <3> QED BY <3>1, <3>2, <3>3 DEF ReleaseInv, ObjectsThere
  <2>17. CurrentApart'
    BY <1>0, <2>8 DEF ReleaseInv, CurrentApart
  <2>18. NewerEnough'
    BY <1>0, <2>9 DEF ReleaseInv, NewerEnough
  <2>19. PrunedByHand'
    <3> SUFFICES ASSUME NEW q \in Requests, NEW u \in PrunedBy(relReq[q]), IsThere(u)',
                        releases'[u.version].current
                 PROVE  u.id \in promoted'
      BY <2>9 DEF PrunedByHand
    <3>1. u.version # t.version /\ u \in Target
      BY <1>0, <2>5, <2>7, RelFields, ReleaseFields
    <3>2. IsThere(u) /\ releases[u.version].current
      BY <2>5, <3>1 DEF IsThere, Target
    <3>3. u.id # t.id
      BY <2>6, <3>1, <3>2 DEF IsThere, Target
    <3> QED BY <2>1, <3>2, <3>3 DEF ReleaseInv, PrunedByHand
  <2>20. PhoneTold'
    <3> SUFFICES ASSUME phone'.at = "told"
                 PROVE  \E v \in InTable' : Offered(v)' /\ releases'[v].id = phone'.named
      BY DEF PhoneTold
    <3>1. e.prune /\ t.id \notin promoted /\ phone' = phone
      BY <2>1 DEF Overtake, NoInstall
    <3>2. ~releases[t.version].current
      BY <1>0, <1>2, <3>1 DEF ReleaseInv, PrunedByHand, PrunedBy
    <3> PICK v \in InTable : Offered(v) /\ releases[v].id = phone.named
      BY <3>1 DEF ReleaseInv, PhoneTold
    <3>3. v # t.version /\ v \in InTable' /\ releases'[v] = releases[v]
      BY <2>8, <3>2 DEF Offered
    <3>4. Offered(v)'
      BY <2>5, <2>7, <3>3 DEF Offered
    <3> QED BY <3>1, <3>3, <3>4
  <2> QED BY <2>11, <2>12, <2>13, <2>14, <2>15, <2>16, <2>17, <2>18, <2>19, <2>20 DEF ReleaseInv
<1> QED BY <1>1, <1>2

LEMMA RowFields ==
  ASSUME NEW b \in BOOLEAN, NEW i, NEW newRow, newRow = [id |-> i, current |-> b]
  PROVE  newRow.id = i /\ (newRow.current <=> b)
OBVIOUS

LEMMA ReleaseCommits ==
  ASSUME ReleaseInv, NEW r \in Requests, Commit(r)
  PROVE  ReleaseInv'
<1> DEFINE e == relReq[r]
           t == e.target
           act == e.act
           state == IF act = "promote" THEN RelIdle ELSE [at |-> "prune"]
           written == IF act = "promote" THEN IsThere(t) ELSE releases[t.version] = NoRelease
<1>0. /\ RelTypeOK /\ e \in RelStates /\ e.at = "commit" /\ act \in Acts /\ t \in Target
      /\ e.seen \subseteq Uploads /\ cut \subseteq Uploads /\ UNCHANGED <<bucket, puts, cut>>
  BY RelFields DEF ReleaseInv, RelTypeOK, Commit
<1>1. CASE ~written
  BY <1>0, <1>1, ReleaseEnds DEF Commit
<1>2. CASE written
  <2>1. /\ releases' = Written(act, t, e.seen)
        /\ published' = published \cup {t.version}
        /\ promoted' = promoted \cup (IF act = "promote" THEN {t.id} ELSE {})
        /\ IF act = "store"
           THEN missed' = [missed EXCEPT ![r] = {}] /\ UNCHANGED <<together, phone>>
           ELSE /\ together' = together \cup {{t.id, i} : i \in missed[r]}
                /\ missed' = [q \in Requests |->
                      IF q = r \/ relReq[q].at # "commit" THEN {} ELSE missed[q] \cup {t.id}]
                /\ Overtake
        /\ RelSet(r, state)
    BY <1>2 DEF Commit
  <2>2. state \in RelStates /\ HeldBy(state) = {} /\ NewBy(state) = {} /\ PrunedBy(state) = {}
        /\ state.at \in {"idle", "prune"}
    BY <1>0 DEF RelStates, RelIdle, HeldBy, NewBy, PrunedBy
  <2> HIDE DEF state
  <2>3. /\ relReq' \in [Requests -> RelStates] /\ relReq'[r] = state
        /\ \A q \in Requests : q # r => relReq'[q] = relReq[q]
    BY <1>0, <2>1, <2>2, RelOthers
  <2>4. /\ t.version \in Versions /\ t.id \in Uploads /\ t.id # 0
        /\ releases \in [Versions -> {NoRelease} \cup ReleaseRow]
        /\ NoRelease.id = 0 /\ ~NoRelease.current
        /\ missed \in [Requests -> SUBSET Uploads] /\ missed[r] \subseteq Uploads
    BY <1>0 DEF Target, Uploads, RelTypeOK, NoRelease
  <2>5. /\ releases'[t.version] = [id |-> t.id, current |-> act # "store"]
        /\ \A v \in Versions : v # t.version =>
             releases'[v] = IF releases[v].id \in e.seen THEN [releases[v] EXCEPT !.current = FALSE]
                            ELSE releases[v]
    BY <2>1, <2>4 DEF Written
  <2>6. ASSUME NEW v \in Versions, v # t.version
        PROVE  /\ releases'[v].id = releases[v].id
               /\ releases'[v].current <=> releases[v].current /\ releases[v].id \notin e.seen
               /\ releases'[v] = NoRelease <=> releases[v] = NoRelease
               /\ releases'[v] \in {NoRelease} \cup ReleaseRow
    <3>1. CASE releases[v] = NoRelease
      <4>1. releases[v].id \notin e.seen
        BY <1>0, <2>4, <3>1 DEF Uploads
      <4>2. releases'[v] = releases[v]
        BY <2>5, <2>6, <4>1
      <4> QED BY <2>4, <3>1, <4>1, <4>2
    <3>2. CASE releases[v] \in ReleaseRow /\ releases[v].id \in e.seen
      <4>1. releases'[v] = [releases[v] EXCEPT !.current = FALSE]
        BY <2>5, <2>6, <3>2
      <4>2. releases'[v].id = releases[v].id /\ releases'[v].current = FALSE /\ releases'[v] \in ReleaseRow
        BY <3>2, <4>1 DEF ReleaseRow
      <4>3. \A x \in ReleaseRow : x.id # 0
        BY DEF ReleaseRow, Uploads
      <4> QED BY <2>4, <3>2, <4>2, <4>3
    <3>3. CASE releases[v] \in ReleaseRow /\ releases[v].id \notin e.seen
      <4>1. releases'[v] = releases[v]
        BY <2>5, <2>6, <3>3
      <4> QED BY <3>3, <4>1
    <3> QED BY <2>4, <3>1, <3>2, <3>3
  <2>7. /\ releases'[t.version].id = t.id /\ (releases'[t.version].current <=> act # "store")
        /\ releases'[t.version] # NoRelease /\ releases'[t.version] \in ReleaseRow
    <3>1. releases'[t.version].id = t.id /\ (releases'[t.version].current <=> act # "store")
      <4> DEFINE b == act # "store"
                 newRow == releases'[t.version]
      <4>1. b \in BOOLEAN /\ newRow = [id |-> t.id, current |-> b]
        BY <2>5
      <4>2. act # "store" <=> b
        OBVIOUS
      <4> HIDE DEF b, newRow
      <4>3. newRow.id = t.id /\ (newRow.current <=> b)
        BY <4>1, RowFields
      <4> QED BY <4>2, <4>3 DEF newRow
    <3>2. releases'[t.version] \in ReleaseRow
      BY <2>4, <2>5 DEF ReleaseRow
    <3> QED BY <2>4, <3>1, <3>2
  <2>8. /\ t.id <= puts
        /\ act # "promote" => t \in NewBy(e)
        /\ act = "promote" => t \in HeldBy(e) /\ releases[t.version].id = t.id
    <3>1. CASE act = "promote"
      BY <1>0, <1>2, <3>1 DEF HeldBy, IsThere, ReleaseInv, HeldNumbered
    <3>2. CASE act # "promote"
      BY <1>0, <3>2 DEF NewBy, ReleaseInv, NewUnknown
    <3> QED BY <3>1, <3>2
  <2>9. \A v \in Versions : v # t.version => releases[v].id # t.id
    BY <2>8 DEF ReleaseInv, HeldNumbered, NewUnknown
  <2>10. \A q \in Requests \ {r} : \A u \in NewBy(relReq[q]) : u.id # t.id
    BY <2>8 DEF ReleaseInv, HeldNumbered, NewUnknown
  <2>11. \A q \in Requests \ {r} : \A u \in HeldBy(relReq[q]) : u.id = t.id => u.version = t.version
    <3>1. CASE act = "promote"
      BY <2>4, <2>8, <3>1 DEF ReleaseInv, HeldNumbered
    <3>2. CASE act # "promote"
      BY <2>8, <3>2 DEF ReleaseInv, NewUnknown
    <3> QED BY <3>1, <3>2
  <2>12. \A q \in Requests : /\ HeldBy(relReq'[q]) \subseteq HeldBy(relReq[q])
                             /\ NewBy(relReq'[q]) \subseteq NewBy(relReq[q])
                             /\ PrunedBy(relReq'[q]) \subseteq PrunedBy(relReq[q])
                             /\ relReq'[q].at \in {"commit", "delete"} => relReq'[q] = relReq[q] /\ q # r
                             /\ q = r => HeldBy(relReq'[q]) = {} /\ NewBy(relReq'[q]) = {}
    BY <2>2, <2>3
  <2>13. RelTypeOK'
    <3>1. releases' \in [Versions -> {NoRelease} \cup ReleaseRow]
      BY <2>1, <2>6, <2>7 DEF Written
    <3>2. /\ missed' \in [Requests -> SUBSET Uploads] /\ together' \subseteq SUBSET Uploads
          /\ promoted' \subseteq Uploads /\ phone' \in Phones
      BY <1>0, <2>1, <2>4 DEF RelTypeOK, Overtake, Phones, NoInstall
    <3> QED BY <1>0, <2>1, <2>3, <2>4, <3>1, <3>2 DEF RelTypeOK
  <2>14. RowsNumbered'
    <3> SUFFICES ASSUME NEW v \in Versions
                 PROVE  /\ releases'[v].id <= puts
                        /\ releases'[v] # NoRelease => v \in published'
                        /\ \A w \in Versions : releases'[v].id = releases'[w].id /\ v # w => releases'[v].id = 0
      BY SMTT(30), <1>0 DEF RowsNumbered
    <3>1. CASE v = t.version
      BY SMTT(30), <2>1, <2>6, <2>7, <2>8, <2>9, <3>1
    <3>2. CASE v # t.version
      BY <2>1, <2>6, <2>7, <2>9, <3>2 DEF ReleaseInv, RowsNumbered
    <3> QED BY <3>1, <3>2
  <2>15. HeldNumbered'
    <3> SUFFICES ASSUME NEW q \in Requests, NEW u \in HeldBy(relReq'[q])
                 PROVE  u.id <= puts /\ \A v \in Versions : releases'[v].id = u.id => v = u.version
      BY <1>0 DEF HeldNumbered
    <3>1. u \in HeldBy(relReq[q]) /\ q # r
      BY <2>12
    <3>2. u.id <= puts /\ \A v \in Versions : releases[v].id = u.id => v = u.version
      BY <3>1 DEF ReleaseInv, HeldNumbered
    <3>3. ASSUME NEW v \in Versions, releases'[v].id = u.id PROVE v = u.version
      <4>1. CASE v = t.version
        BY <2>7, <2>11, <3>1, <3>3, <4>1
      <4>2. CASE v # t.version
        BY <2>6, <3>2, <3>3, <4>2
      <4> QED BY <4>1, <4>2
    <3> QED BY <3>2, <3>3
  <2>16. NewUnknown'
    <3> SUFFICES ASSUME NEW q \in Requests, NEW u \in NewBy(relReq'[q])
                 PROVE  /\ u.id <= puts /\ u.id \in bucket
                        /\ \A v \in Versions : releases'[v].id # u.id
                        /\ \A p \in Requests : \A w \in HeldBy(relReq'[p]) : w.id # u.id
                        /\ \A p \in Requests \ {q} : \A w \in NewBy(relReq'[p]) : w.id # u.id
      BY <1>0 DEF NewUnknown
    <3>1. u \in NewBy(relReq[q]) /\ q # r
      BY <2>12
    <3>2. /\ u.id <= puts /\ u.id \in bucket
          /\ \A p \in Requests : \A w \in HeldBy(relReq'[p]) : w.id # u.id
          /\ \A p \in Requests \ {q} : \A w \in NewBy(relReq'[p]) : w.id # u.id
          /\ \A v \in Versions : releases[v].id # u.id
      BY <2>12, <3>1 DEF ReleaseInv, NewUnknown
    <3>3. ASSUME NEW v \in Versions PROVE releases'[v].id # u.id
      <4>1. CASE v = t.version
        BY <2>7, <2>10, <3>1, <4>1
      <4>2. CASE v # t.version
        BY <2>6, <3>2, <4>2
      <4> QED BY <4>1, <4>2
    <3> QED BY <3>2, <3>3
  <2>17. CurrentSeen'
    <3> SUFFICES ASSUME NEW q \in Requests, relReq'[q].at = "commit"
                 PROVE  IF relReq'[q].act = "store" THEN relReq'[q].seen = {}
                        ELSE \A v \in Versions : releases'[v].current =>
                               releases'[v].id \in relReq'[q].seen \cup missed'[q]
      BY DEF CurrentSeen
    <3>1. relReq'[q] = relReq[q] /\ q # r /\ relReq[q].at = "commit"
      BY <2>12
    <3>2. missed[q] \subseteq missed'[q] /\ (act # "store" => t.id \in missed'[q])
      BY <2>1, <2>4, <3>1
    <3>3. CASE relReq[q].act = "store"
      BY <3>1, <3>3 DEF ReleaseInv, CurrentSeen
    <3>4. CASE relReq[q].act # "store"
      <4> SUFFICES ASSUME NEW v \in Versions, releases'[v].current
                   PROVE  releases'[v].id \in relReq[q].seen \cup missed'[q]
        BY <3>1, <3>4
      <4>1. CASE v = t.version
        BY <2>7, <3>2, <4>1
      <4>2. CASE v # t.version
        BY <2>6, <3>1, <3>2, <3>4, <4>2 DEF ReleaseInv, CurrentSeen
      <4> QED BY <4>1, <4>2
    <3> QED BY <3>3, <3>4
  <2>18. ObjectsThere'
    <3> SUFFICES ASSUME NEW v \in Versions, releases'[v] # NoRelease, releases'[v].id \notin bucket
                 PROVE  \/ releases'[v].id \in cut
                        \/ \E q \in Requests : /\ relReq'[q].at = "delete"
                                               /\ relReq'[q].target = [version |-> v, id |-> releases'[v].id]
      BY <1>0 DEF ObjectsThere, TargetOf, InTable
    <3>1. releases[v] # NoRelease /\ releases'[v].id = releases[v].id
      <4>1. CASE v = t.version
        <5>1. act = "promote"
          BY <2>7, <2>8, <4>1 DEF ReleaseInv, NewUnknown
        <5> QED BY <2>4, <2>7, <2>8, <4>1, <5>1
      <4>2. CASE v # t.version
        BY <2>6, <4>2
      <4> QED BY <4>1, <4>2
    <3>2. \/ releases[v].id \in cut
          \/ \E q \in Requests : relReq[q].at = "delete" /\ relReq[q].target = TargetOf(v)
      BY <3>1 DEF ReleaseInv, ObjectsThere, InTable
    <3>3. \A q \in Requests : relReq[q].at = "delete" => relReq'[q] = relReq[q]
      BY <1>0, <2>3
    <3> QED BY <3>1, <3>2, <3>3 DEF TargetOf
  <2>19. CurrentApart'
    <3> SUFFICES ASSUME NEW v \in Versions, NEW w \in Versions, v # w, releases'[v].current,
                        releases'[w].current
                 PROVE  {releases'[v].id, releases'[w].id} \in together'
      BY DEF CurrentApart, InTable
    <3>1. together \subseteq together'
      BY <2>1
    <3>2. ASSUME NEW x \in Versions, x # t.version, releases'[x].current, act # "store"
          PROVE  {t.id, releases'[x].id} \in together'
      <4>1. releases[x].current /\ releases[x].id \notin e.seen /\ releases'[x].id = releases[x].id
        BY <2>6, <3>2
      <4>2. releases[x].id \in missed[r]
        BY <1>0, <3>2, <4>1 DEF ReleaseInv, CurrentSeen
      <4> QED BY <2>1, <3>2, <4>1, <4>2
    <3>3. CASE v = t.version
      BY <2>7, <3>2, <3>3
    <3>4. CASE w = t.version
      <4>1. {t.id, releases'[v].id} \in together'
        BY <2>7, <3>2, <3>4
      <4>2. {t.id, releases'[v].id} = {releases'[v].id, t.id}
        OBVIOUS
      <4> QED BY <2>7, <3>4, <4>1, <4>2
    <3>5. CASE v # t.version /\ w # t.version
      <4>1. releases[v].current /\ releases[w].current /\ v \in InTable /\ w \in InTable
        BY <1>0, <2>6, <3>5, ReleaseFields DEF InTable
      <4> QED BY <2>6, <3>1, <3>5, <4>1 DEF ReleaseInv, CurrentApart
    <3> QED BY <3>3, <3>4, <3>5
  <2>20. NewerEnough'
    <3> SUFFICES ASSUME NEW q \in Requests, NEW u \in PrunedBy(relReq'[q])
                 PROVE  Cardinality({v \in published' : v > u.version}) >= Retention
      BY DEF NewerEnough
    <3>1. Cardinality({v \in published : v > u.version}) >= Retention
      BY <2>12 DEF ReleaseInv, NewerEnough
    <3>2. /\ {v \in published : v > u.version} \subseteq {v \in published' : v > u.version}
          /\ published' \subseteq Versions
      BY <1>0, <2>1, <2>4 DEF RelTypeOK
    <3>3. IsFiniteSet({v \in published' : v > u.version}) /\ Retention \in Nat
      BY <3>2, FS_Subset, ReleasesAssumption
    <3>4. /\ Cardinality({v \in published : v > u.version}) <= Cardinality({v \in published' : v > u.version})
          /\ IsFiniteSet({v \in published : v > u.version})
      BY <3>2, <3>3, FS_Subset
    <3>5. /\ Cardinality({v \in published : v > u.version}) \in Nat
          /\ Cardinality({v \in published' : v > u.version}) \in Nat
      BY <3>3, <3>4, FS_CardinalityType
    <3> QED BY <3>1, <3>3, <3>4, <3>5
  <2>21. PrunedByHand'
    <3> SUFFICES ASSUME NEW q \in Requests, NEW u \in PrunedBy(relReq'[q]),
                        releases'[u.version].id = u.id, releases'[u.version].current
                 PROVE  u.id \in promoted'
      BY DEF PrunedByHand, IsThere
    <3>1. u \in PrunedBy(relReq[q]) /\ u \in HeldBy(relReq[q]) /\ u.version \in Versions
      BY <1>0, <2>12, RelFields, ReleaseFields DEF Target
    <3>2. CASE u.version = t.version
      <4>1. u.id = t.id
        BY <2>7, <3>2
      <4>2. act = "promote"
        BY <2>8, <3>1, <4>1 DEF ReleaseInv, NewUnknown
      <4> QED BY <2>1, <4>1, <4>2
    <3>3. CASE u.version # t.version
      BY <2>1, <2>6, <3>1, <3>3 DEF ReleaseInv, PrunedByHand, IsThere
    <3> QED BY <3>2, <3>3
  <2>22. PhoneTold'
    <3> SUFFICES ASSUME phone'.at = "told"
                 PROVE  \E v \in InTable' : Offered(v)' /\ releases'[v].id = phone'.named
      BY DEF PhoneTold
    <3>1. act = "store" /\ phone' = phone /\ e.seen = {}
      BY <1>0, <2>1 DEF Overtake, NoInstall, ReleaseInv, CurrentSeen
    <3> PICK v \in InTable : Offered(v) /\ releases[v].id = phone.named
      BY <3>1 DEF ReleaseInv, PhoneTold
    <3>2. v \in Versions /\ v # t.version
      BY <1>2, <3>1 DEF InTable
    <3>3. \A w \in Versions : releases'[w].current => w # t.version /\ releases[w].current
      BY <2>6, <2>7, <3>1
    <3>4. v \in InTable' /\ releases'[v].id = releases[v].id /\ releases'[v].current
      BY <2>6, <3>1, <3>2 DEF Offered, InTable
    <3> QED BY <3>1, <3>3, <3>4 DEF Offered
  <2> QED BY <2>13, <2>14, <2>15, <2>16, <2>17, <2>18, <2>19, <2>20, <2>21, <2>22 DEF ReleaseInv
<1> QED BY <1>1, <1>2

LEMMA ReleaseStep == ReleaseInv /\ [RelNext]_relVars => ReleaseInv'
<1>1. ASSUME ReleaseInv, UNCHANGED relVars PROVE ReleaseInv'
  <2>1. \A v : TargetOf(v)' = TargetOf(v) /\ (Offered(v)' <=> Offered(v)) /\ (IsThere(v)' <=> IsThere(v))
    BY <1>1 DEF relVars, TargetOf, Offered, IsThere
  <2> QED BY <1>1, <2>1 DEF relVars, ReleaseInv, RelTypeOK, RowsNumbered, HeldNumbered, NewUnknown,
        CurrentSeen, ObjectsThere, CurrentApart, NewerEnough, PrunedByHand, PhoneTold, InTable
<1> QED BY <1>1, ReleaseReads, ReleaseObjects, ReleaseFails, ReleasePuts, ReleaseTells,
           ReleaseWithdrawn, ReleaseDeletes, ReleaseCommits DEF RelNext

LEMMA ReleasesOnly == ReleaseInv => ReleasesAreSound
<1> SUFFICES ASSUME ReleaseInv PROVE ReleasesAreSound
  OBVIOUS
<1>1. ASSUME NEW r \in Requests, relReq[r].at = "delete", relReq[r].prune
      PROVE  relReq[r].target \in PrunedBy(relReq[r])
  BY <1>1 DEF PrunedBy
<1> QED BY <1>1 DEF ReleaseInv, ReleasesAreSound, ObjectsThere, CurrentApart, NewerEnough,
                    PrunedByHand, PhoneTold

-----------------------------------------------------------------------------
(* The enrolment of an iPhone.                                              *)

\* What is verified came signed.
VerifiedSigned ==
  \A r \in Requests : enrolReq[r].at = "found" /\ enrolReq[r].verified => enrolReq[r].signed

EnrolInv == EnrolTypeOK /\ VerifiedSigned /\ EnrolmentIsSound

LEMMA EnrolStart == EnrolInit => EnrolInv
BY DEF EnrolInit, EnrolInv, EnrolTypeOK, VerifiedSigned, EnrolmentIsSound, EnrolStates, EnrolIdle,
       NoIPhone, Finders

LEMMA EnrolFields ==
  ASSUME NEW e \in EnrolStates, e.at = "found"
  PROVE  e.signed \in BOOLEAN /\ e.verified \in BOOLEAN /\ e.existing \in {NoIPhone} \cup IPhoneRow
BY DEF EnrolStates, EnrolIdle

\* Writing the row, with no request coming to go by it.
LEMMA EnrolWrites ==
  ASSUME EnrolInv, NEW newRow \in {NoIPhone} \cup IPhoneRow,
         newRow # NoIPhone /\ newRow.verified => newRow.signed,
         WriteEnrolled(newRow), enforced' = enforced,
         \/ enrolReq' = enrolReq
         \/ \E r \in Requests : EnrolSet(r, EnrolIdle)
  PROVE  EnrolInv'
<1>1. /\ enrolReq' \in [Requests -> EnrolStates]
      /\ \A q \in Requests : enrolReq'[q].at = "found" => enrolReq'[q] = enrolReq[q]
  BY DEF EnrolInv, EnrolTypeOK, EnrolSet, EnrolStates, EnrolIdle
<1>2. iphone' = newRow /\ crossed \subseteq crossed' /\ crossed' \subseteq Requests
  BY DEF EnrolInv, EnrolTypeOK, WriteEnrolled, Finders
<1>3. EnrolTypeOK' /\ VerifiedSigned'
  BY <1>1, <1>2 DEF EnrolInv, EnrolTypeOK, VerifiedSigned
<1>4. ASSUME NEW q \in Finders' \ crossed', enrolReq'[q].existing # NoIPhone,
             MayStore(enrolReq'[q]), ~enrolReq'[q].verified
      PROVE  ~Trusted(newRow)
  <2>1. q \in Finders \ crossed /\ enrolReq'[q] = enrolReq[q]
    BY <1>1, <1>2 DEF Finders
  <2>2. ~Trusted(iphone)
    BY <1>4, <2>1 DEF EnrolInv, EnrolmentIsSound
  <2> QED BY <1>4, <2>1, <2>2 DEF WriteEnrolled
<1>5. EnrolmentIsSound'
  BY <1>2, <1>4 DEF EnrolmentIsSound, MayStore, Trusted
<1> QED BY <1>3, <1>5 DEF EnrolInv

\* A step that leaves the row alone.
LEMMA EnrolReads ==
  ASSUME EnrolInv, NEW r \in Requests, NEW state \in EnrolStates, EnrolSet(r, state),
         state.at = "found" =>
           /\ state.verified => state.signed
           /\ state.existing # NoIPhone /\ MayStore(state) /\ ~state.verified => ~Trusted(iphone),
         iphone' = iphone, enforced' = enforced,
         crossed' \in {crossed, crossed \ {r}}
  PROVE  EnrolInv'
<1>1. /\ enrolReq' \in [Requests -> EnrolStates] /\ enrolReq'[r] = state
      /\ \A q \in Requests : q # r => enrolReq'[q] = enrolReq[q]
  BY DEF EnrolInv, EnrolTypeOK, EnrolSet
<1>2. EnrolTypeOK' /\ VerifiedSigned'
  BY <1>1 DEF EnrolInv, EnrolTypeOK, VerifiedSigned
<1>3. ASSUME NEW q \in Finders' \ crossed', enrolReq'[q].existing # NoIPhone,
             MayStore(enrolReq'[q]), ~enrolReq'[q].verified
      PROVE  ~Trusted(iphone)
  <2>1. CASE q = r
    BY <1>1, <1>3, <2>1 DEF Finders
  <2>2. CASE q # r
    <3>1. q \in Finders \ crossed /\ enrolReq'[q] = enrolReq[q]
      BY <1>1, <2>2 DEF Finders
    <3> QED BY <1>3, <3>1 DEF EnrolInv, EnrolmentIsSound
  <2> QED BY <2>1, <2>2
<1>4. EnrolmentIsSound'
  BY <1>3 DEF EnrolInv, EnrolmentIsSound, MayStore, Trusted
<1> QED BY <1>2, <1>4 DEF EnrolInv

LEMMA EnrolStores ==
  ASSUME EnrolInv, NEW r \in Requests, StoreIPhone(r)
  PROVE  EnrolInv'
<1> DEFINE e == enrolReq[r]
<1>1. /\ e \in EnrolStates /\ e.at = "found" /\ (e.verified => e.signed) /\ EnrolSet(r, EnrolIdle)
      /\ enforced' = enforced /\ iphone \in {NoIPhone} \cup IPhoneRow
  BY DEF EnrolInv, EnrolTypeOK, VerifiedSigned, StoreIPhone
<1>2. e.signed \in BOOLEAN /\ e.verified \in BOOLEAN /\ e.existing \in {NoIPhone} \cup IPhoneRow
  BY <1>1, EnrolFields
<1>3. CASE UNCHANGED <<iphone, crossed>>
  BY <1>1, <1>3, EnrolReads DEF EnrolStates, EnrolIdle
<1>4. CASE iphone = NoIPhone /\ WriteEnrolled([state |-> "stored", registered |-> FALSE,
                                               verified |-> e.verified, signed |-> e.signed])
  <2> DEFINE newRow == [state |-> "stored", registered |-> FALSE, verified |-> e.verified,
                     signed |-> e.signed]
  <2>1. newRow \in IPhoneRow /\ (newRow.verified => newRow.signed)
    BY <1>1, <1>2 DEF IPhoneRow
  <2> HIDE DEF newRow
  <2> QED BY <1>1, <1>4, <2>1, EnrolWrites DEF newRow
<1>5. CASE /\ MayStore(e) /\ iphone # NoIPhone /\ e.existing # NoIPhone
           /\ WriteEnrolled([state |-> "stored", registered |-> iphone.registered,
                             verified |-> e.verified \/ e.existing.verified, signed |-> e.signed])
  <2> DEFINE newRow == [state |-> "stored", registered |-> iphone.registered,
                     verified |-> e.verified \/ e.existing.verified, signed |-> e.signed]
  <2>1. iphone.registered \in BOOLEAN /\ e.existing.verified \in BOOLEAN
    BY <1>1, <1>2, <1>5 DEF IPhoneRow
  <2>2. newRow \in IPhoneRow
    BY <1>2, <2>1 DEF IPhoneRow
  <2>3. e.existing.verified => e.verified
    BY <1>5 DEF MayStore, Trusted
  <2>4. newRow.verified => newRow.signed
    BY <1>1, <2>3
  <2> HIDE DEF newRow
  <2> QED BY <1>1, <1>5, <2>2, <2>4, EnrolWrites DEF newRow
<1> QED BY <1>1, <1>3, <1>4, <1>5 DEF StoreIPhone

LEMMA EnrolAdmin ==
  ASSUME EnrolInv, RegisterIPhone \/ DeleteIPhone
  PROVE  EnrolInv'
<1>1. iphone \in {NoIPhone} \cup IPhoneRow /\ (iphone # NoIPhone /\ iphone.verified => iphone.signed)
  BY DEF EnrolInv, EnrolTypeOK, EnrolmentIsSound
<1>2. CASE DeleteIPhone
  BY <1>2, EnrolWrites DEF DeleteIPhone
<1>3. CASE RegisterIPhone
  <2> PICK b \in BOOLEAN : WriteEnrolled([iphone EXCEPT !.registered = b])
    BY <1>3 DEF RegisterIPhone
  <2>1. iphone \in IPhoneRow
    BY <1>1, <1>3 DEF RegisterIPhone
  <2>2. /\ [iphone EXCEPT !.registered = b] \in IPhoneRow
        /\ [iphone EXCEPT !.registered = b].verified = iphone.verified
        /\ [iphone EXCEPT !.registered = b].signed = iphone.signed
    BY <2>1 DEF IPhoneRow
  <2> DEFINE newRow == [iphone EXCEPT !.registered = b]
  <2>3. newRow \in IPhoneRow /\ (newRow.verified => newRow.signed) /\ WriteEnrolled(newRow)
    BY <1>1, <1>3, <2>2 DEF RegisterIPhone
  <2> HIDE DEF newRow
  <2> QED BY <1>3, <2>3, EnrolWrites DEF RegisterIPhone
<1> QED BY <1>2, <1>3

LEMMA EnrolPosts ==
  ASSUME EnrolInv, NEW r \in Requests, GetProfile(r) \/ PostAttributes(r)
  PROVE  EnrolInv'
<1>1. CASE GetProfile(r)
  <2> DEFINE state == [at |-> "profile"]
  <2>1. state \in EnrolStates /\ state.at # "found"
    BY DEF EnrolStates
  <2> HIDE DEF state
  <2> QED BY <1>1, <2>1, EnrolReads DEF GetProfile, state
<1>2. CASE PostAttributes(r)
  <2> PICK signed \in BOOLEAN :
        IF enforced /\ ~signed THEN EnrolSet(r, EnrolIdle)
        ELSE EnrolSet(r, [at |-> "found", signed |-> signed, verified |-> Verified(signed),
                          existing |-> iphone])
    BY <1>2 DEF PostAttributes
  <2>1. UNCHANGED <<iphone, enforced>> /\ crossed' = crossed \ {r}
    BY <1>2 DEF PostAttributes
  <2>2. CASE EnrolSet(r, EnrolIdle)
    BY <2>1, <2>2, EnrolReads DEF EnrolStates, EnrolIdle
  <2>3. CASE EnrolSet(r, [at |-> "found", signed |-> signed, verified |-> Verified(signed),
                          existing |-> iphone])
    <3> DEFINE state == [at |-> "found", signed |-> signed, verified |-> Verified(signed),
                         existing |-> iphone]
    <3>1. state \in EnrolStates /\ (state.verified => state.signed)
      BY DEF EnrolStates, EnrolInv, EnrolTypeOK, Verified
    <3>2. state.existing # NoIPhone /\ MayStore(state) /\ ~state.verified => ~Trusted(iphone)
      BY DEF MayStore
    <3> HIDE DEF state
    <3> QED BY <2>1, <2>3, <3>1, <3>2, EnrolReads DEF state
  <2> QED BY <2>2, <2>3
<1> QED BY <1>1, <1>2

LEMMA EnrolStep == EnrolInv /\ [EnrolNext]_enrolVars => EnrolInv'
<1>1. ASSUME EnrolInv, \/ UNCHANGED enrolVars \/ Reconfigure PROVE EnrolInv'
  <2>1. UNCHANGED <<iphone, enrolReq, crossed>> /\ enforced' \in BOOLEAN
    BY <1>1 DEF EnrolInv, EnrolTypeOK, enrolVars, Reconfigure
  <2> QED BY <1>1, <2>1 DEF EnrolInv, EnrolTypeOK, VerifiedSigned, EnrolmentIsSound, Finders,
                            MayStore, Trusted
<1> QED BY <1>1, EnrolPosts, EnrolStores, EnrolAdmin DEF EnrolNext

-----------------------------------------------------------------------------
(* Files.                                                                   *)

\* The keys are drawn one by one: what a row or a request names is its own.
FileGroup ==
  /\ \A f \in FileIds : attached[f] # {} => f <= drawn /\ \A o \in attached[f] : o.of = f
  /\ \A r \in Requests : filReq[r].at \in {"put", "remove"} =>
       /\ filReq[r].file <= drawn
       /\ filReq[r].todo \subseteq filReq[r].names
       /\ \A o \in filReq[r].names : o.of = filReq[r].file
  /\ \A r \in Requests : filReq[r].at = "put" =>
       /\ attached[filReq[r].file] = {}
       /\ owner = "there" => filReq[r].names \subseteq store \cup filReq[r].todo
       /\ \A q \in Requests \ {r} : filReq[q].at \in {"put", "remove"} =>
            filReq[q].file # filReq[r].file

AttachedThere == \A f \in FileIds : \A o \in attached[f] : Accounted(o)

\* Who is alone with the logo finds what he has put.
LogoGroup ==
  /\ \A r \in AtLogo \ met : AtLogo = {r}
  /\ \A r \in AtLogo \ met :
       filReq[r].at = "setLogo" /\ owner = "there" => LogoOf(filReq[r].key) \subseteq store
  /\ logo.key # NoKey /\ logo.alone => Accounted(LogoObject(logo.key))

\* When the rows are gone, what is still to come is known, and of a bucket that
\* is done with nothing else stays.
EndGroup ==
  /\ owner # "there" =>
       /\ \A f \in FileIds : attached[f] = {}
       /\ logo.key = NoKey
       /\ \A r \in Requests : Coming(filReq[r]) \subseteq onWay
  /\ \A r \in Requests : filReq[r].at \in {"list", "purge"} =>
       /\ owner # "there"
       /\ filReq[r].bucket = "documents" => InBucket("photos") \subseteq onWay \cup refused
       /\ filReq[r].at = "purge" =>
            InBucket(filReq[r].bucket) \subseteq filReq[r].keys \cup onWay \cup refused
  /\ owner = "purged" => store \subseteq onWay \cup refused

FilInv == FilTypeOK /\ FileGroup /\ AttachedThere /\ LogoGroup /\ EndGroup

LEMMA FilStart == FilInit => FilInv
<1> SUFFICES ASSUME FilInit PROVE FilInv
  OBVIOUS
<1>1. FilTypeOK
  BY FilesAssumption DEF FilInit, FilTypeOK, FilStates, FilIdle, NoLogo, LogoKeys
<1>2. FileGroup /\ AttachedThere
  BY DEF FilInit, FileGroup, AttachedThere, FilIdle
<1>3. LogoGroup
  BY DEF FilInit, LogoGroup, AtLogo, FilIdle, NoLogo
<1>4. EndGroup
  BY DEF FilInit, EndGroup, FilIdle
<1> QED BY <1>1, <1>2, <1>3, <1>4 DEF FilInv

\* What a request's state is made of.
LEMMA FilFields ==
  ASSUME NEW e \in FilStates
  PROVE  /\ e.at \in {"idle", "put", "remove", "removeLogo", "putLogo", "setLogo", "list", "purge"}
         /\ e.at = "idle" => e = FilIdle
         /\ e.at \in {"put", "remove"} =>
              e.file \in FileIds /\ e.names \subseteq FileObjects /\ e.todo \subseteq FileObjects
         /\ e.at \in {"removeLogo", "putLogo", "setLogo"} => e.key \in LogoKeys /\ e.seen \in LogoKeys
         /\ e.at \in {"list", "purge"} => e.bucket \in Buckets
         /\ e.at = "purge" => e.keys \subseteq Objects
         /\ TakenAway(e) \subseteq Objects /\ Coming(e) \subseteq Objects
BY DEF FilStates, FilIdle, TakenAway, Coming, Objects, LogoObjects, LogoOf, LogoKeys

\* An object is a file's or a logo's.
LEMMA ObjectKinds ==
  /\ \A o \in FileObjects : o.part # "logo" /\ o.of \in FileIds /\ o.bucket \in Buckets
  /\ \A key \in LogoKeys : \A o \in LogoOf(key) : o.part = "logo" /\ o = LogoObject(key)
  /\ \A key \in Extensions : LogoOf(key) = {LogoObject(key)}
  /\ FileObjects \subseteq Objects
  /\ \A key \in LogoKeys : LogoOf(key) \subseteq Objects
BY FilesAssumption DEF FileObjects, LogoOf, LogoObject, LogoKeys, NoKey, Objects, LogoObjects

\* A step of a request leaves the others where they are.
LEMMA FilOthers ==
  ASSUME FilTypeOK, NEW r \in Requests, NEW state \in FilStates, FilSet(r, state)
  PROVE  /\ filReq' \in [Requests -> FilStates]
         /\ filReq'[r] = state
         /\ \A q \in Requests : q # r => filReq'[q] = filReq[q]
BY DEF FilTypeOK, FilSet

LEMMA ObjectsNamed ==
  ASSUME NEW f \in FileIds, NEW b \in Buckets, NEW parts \in SUBSET {"whole", "thumb"}
  PROVE  /\ ObjectsOf(f, b, parts) \subseteq FileObjects
         /\ \A p \in ObjectsOf(f, b, parts) : p.of = f
BY DEF ObjectsOf, FileObjects

LEMMA ObjectBuckets == \A o \in Objects : o.bucket \in Buckets
BY DEF Objects, FileObjects, LogoObjects, LogoObject, Buckets

LEMMA FilTypes ==
  ASSUME FilInv, NEW r \in Requests,
         FindOwner(r) \/ PutPart(r) \/ CreateRow(r) \/ FindFile(r) \/ RemovePart(r) \/
         DeleteFile(r) \/ ReadCompany(r) \/ RemoveOldLogo(r) \/ PutLogo(r) \/ SetLogo(r)
         \/ DeleteRows(r) \/ ListObjects(r) \/ RemoveObjects(r) \/ PurgeFails(r) \/
         FailFile(r)
  PROVE  FilTypeOK'
<1>0. FilInv /\ FilTypeOK
  BY DEF FilInv
<1>1. CASE FindOwner(r)
  <2> DEFINE f == drawn + 1
  <2>1. f \in FileIds /\ drawn' = f /\ UNCHANGED <<owner, attached, logo, store, met, filHistory>>
    BY <1>0, <1>1, FilesAssumption DEF FindOwner, FilTypeOK, FileIds
  <2>2. PICK o \in {ObjectsOf(f, "documents", {"whole"}), ObjectsOf(f, "photos", {"whole"}),
                    ObjectsOf(f, "photos", {"whole", "thumb"})} :
          FilSet(r, [at |-> "put", file |-> f, names |-> o, todo |-> o])
    BY <1>1 DEF FindOwner
  <2> HIDE DEF f
  <2>3. o \subseteq FileObjects
    BY <2>1, <2>2, ObjectsNamed DEF Buckets
  <2>4. [at |-> "put", file |-> f, names |-> o, todo |-> o] \in FilStates
    BY <2>1, <2>3 DEF FilStates
  <2>5. filReq' \in [Requests -> FilStates]
    BY <1>0, <2>2, <2>4, FilOthers
  <2> QED BY <1>0, <2>1, <2>5 DEF FilTypeOK, filHistory, FileIds
<1>2. CASE PutPart(r)
  BY <1>0, <1>2, FilFields, ObjectKinds DEF PutPart, FilTypeOK, FilStates, FilIdle, FilSet,
     filHistory
<1>3. CASE CreateRow(r)
  BY <1>0, <1>3, FilFields, ObjectKinds DEF CreateRow, FilTypeOK, FilStates, FilIdle, FilSet,
     filHistory
<1>4. CASE FindFile(r)
  BY <1>0, <1>4, FilFields, ObjectKinds DEF FindFile, FilTypeOK, FilStates, FilIdle, FilSet,
     filHistory
<1>5. CASE RemovePart(r)
  BY <1>0, <1>5, FilFields, ObjectKinds DEF RemovePart, FilTypeOK, FilStates, FilIdle, FilSet,
     filHistory
<1>6. CASE DeleteFile(r)
  BY <1>0, <1>6, FilFields, ObjectKinds DEF DeleteFile, FilTypeOK, FilStates, FilIdle, FilSet,
     filHistory
<1>7. CASE ReadCompany(r)
  <2>1. PICK key \in LogoKeys :
          FilSet(r, [at |-> IF logo.key = NoKey THEN "putLogo" ELSE "removeLogo",
                     key |-> key, seen |-> logo.key])
    BY <1>7 DEF ReadCompany
  <2>2. logo.key \in LogoKeys
    BY <1>0 DEF FilTypeOK
  <2>3. filReq' \in [Requests -> FilStates]
    BY <1>0, <2>1, <2>2 DEF FilTypeOK, FilStates, FilSet
  <2>4. met' \subseteq Requests /\ UNCHANGED <<owner, attached, logo, store, drawn, filHistory>>
    BY <1>0, <1>7 DEF ReadCompany, FilTypeOK, AtLogo
  <2> QED BY <1>0, <2>3, <2>4 DEF FilTypeOK, filHistory
<1>8. CASE RemoveOldLogo(r)
  BY <1>0, <1>8, FilFields, ObjectKinds DEF RemoveOldLogo, FilTypeOK, FilStates, FilIdle,
     FilSet, filHistory
<1>9. CASE PutLogo(r)
  BY <1>0, <1>9, FilFields, ObjectKinds DEF PutLogo, FilTypeOK, FilStates, FilIdle, FilSet,
     filHistory
<1>10. CASE SetLogo(r)
  BY <1>0, <1>10, FilFields, ObjectKinds DEF SetLogo, FilTypeOK, FilStates, FilIdle, FilSet,
     filHistory
<1>11. CASE DeleteRows(r)
  <2>1. onWay' \subseteq Objects
    BY <1>0, <1>11, FilFields DEF DeleteRows, FilTypeOK
  <2>2. filReq' \in [Requests -> FilStates]
    BY <1>0, <1>11 DEF DeleteRows, FilTypeOK, FilStates, FilSet, Buckets
  <2> QED BY <1>0, <1>11, <2>1, <2>2 DEF DeleteRows, FilTypeOK, NoLogo, LogoKeys
<1>12. CASE ListObjects(r)
  <2>1. InBucket(filReq[r].bucket) \subseteq Objects /\ filReq[r].bucket \in Buckets
    BY <1>0, <1>12, FilFields DEF ListObjects, FilTypeOK, InBucket
  <2>2. filReq' \in [Requests -> FilStates]
    BY <1>0, <1>12, <2>1 DEF ListObjects, FilTypeOK, FilStates, FilSet
  <2> QED BY <1>0, <1>12, <2>2 DEF ListObjects, FilTypeOK, filHistory
<1>13. CASE RemoveObjects(r)
  <2>1. filReq' \in [Requests -> FilStates] /\ owner' \in {"there", "deleted", "purged"}
    BY <1>0, <1>13 DEF RemoveObjects, NextBucket, FilTypeOK, FilStates, FilIdle, FilSet, Buckets
  <2>2. InBucket(filReq[r].bucket) \subseteq Objects
    BY <1>0 DEF FilTypeOK, InBucket
  <2> QED BY <1>0, <1>13, <2>1, <2>2 DEF RemoveObjects, FilTypeOK, filHistory
<1>14. CASE PurgeFails(r)
  <2>1. filReq' \in [Requests -> FilStates] /\ owner' \in {"there", "deleted", "purged"}
    BY <1>0, <1>14 DEF PurgeFails, NextBucket, FilTypeOK, FilStates, FilIdle, FilSet, Buckets
  <2>2. InBucket(filReq[r].bucket) \subseteq Objects
    BY <1>0 DEF FilTypeOK, InBucket
  <2> QED BY <1>0, <1>14, <2>1, <2>2 DEF PurgeFails, FilTypeOK, filHistory
<1>15. CASE FailFile(r)
  BY <1>0, <1>15, FilFields, ObjectKinds DEF FailFile, FilTypeOK, FilStates, FilIdle, FilSet,
     filHistory
<1> QED BY <1>1, <1>2, <1>3, <1>4, <1>5, <1>6, <1>7, <1>8, <1>9, <1>10, <1>11, <1>12, <1>13, <1>14, <1>15

LEMMA FileGroupStep ==
  ASSUME FilInv, NEW r \in Requests,
         FindOwner(r) \/ PutPart(r) \/ CreateRow(r) \/ FindFile(r) \/ RemovePart(r) \/
         DeleteFile(r) \/ ReadCompany(r) \/ RemoveOldLogo(r) \/ PutLogo(r) \/ SetLogo(r)
         \/ DeleteRows(r) \/ ListObjects(r) \/ RemoveObjects(r) \/ PurgeFails(r) \/
         FailFile(r)
  PROVE  FileGroup'
<1>0. FilInv /\ FilTypeOK
  BY DEF FilInv
<1>1. CASE FindOwner(r)
  <2> DEFINE f == drawn + 1
  <2>1. /\ f \in FileIds /\ drawn' = f /\ drawn \in Nat
        /\ UNCHANGED <<owner, attached, logo, store, met, filHistory>>
    BY <1>0, <1>1, FilesAssumption DEF FindOwner, FilTypeOK, FileIds
  <2>2. PICK o \in {ObjectsOf(f, "documents", {"whole"}), ObjectsOf(f, "photos", {"whole"}),
                    ObjectsOf(f, "photos", {"whole", "thumb"})} :
          FilSet(r, [at |-> "put", file |-> f, names |-> o, todo |-> o])
    BY <1>1 DEF FindOwner
  <2>7. \A g \in FileIds : attached[g] # {} => g <= drawn'
    BY <1>0, <2>1 DEF FilInv, FileGroup, FileIds
  <2>6. \A q \in Requests : q # r /\ filReq[q].at \in {"put", "remove"} =>
          filReq[q].file \in Nat /\ filReq[q].file <= drawn /\ filReq[q].file <= f /\ filReq[q].file # f
    BY <1>0, <2>1, FilFields DEF FilInv, FileGroup, FilTypeOK, FileIds
  <2>8. f \in Nat /\ f <= f
    BY <2>1 DEF FileIds
  <2>5. attached[f] = {}
    BY <1>0, <2>1 DEF FilInv, FileGroup
  <2> HIDE DEF f
  <2>3. \A p \in o : p.of = f
    BY <2>1, <2>2, ObjectsNamed DEF Buckets
  <2>4. /\ filReq'[r] = [at |-> "put", file |-> f, names |-> o, todo |-> o]
        /\ \A q \in Requests : q # r => filReq'[q] = filReq[q]
    BY <1>0, <2>2 DEF FilSet, FilTypeOK
  <2>9. \A g \in FileIds : attached[g] # {} => \A p \in attached[g] : p.of = g
    BY <1>0 DEF FilInv, FileGroup
  <2>10. ASSUME NEW q \in Requests, q # r, filReq[q].at \in {"put", "remove"}
         PROVE  /\ filReq[q].todo \subseteq filReq[q].names
                /\ \A p \in filReq[q].names : p.of = filReq[q].file
                /\ filReq[q].at = "put" =>
                     /\ attached[filReq[q].file] = {}
                     /\ owner = "there" => filReq[q].names \subseteq store \cup filReq[q].todo
                     /\ \A p \in Requests \ {q} : filReq[p].at \in {"put", "remove"} =>
                          filReq[p].file # filReq[q].file
    BY <1>0, <2>10 DEF FilInv, FileGroup
  <2> QED BY <2>1, <2>3, <2>4, <2>5, <2>6, <2>7, <2>8, <2>9, <2>10 DEF FileGroup
<1>2. CASE PutPart(r)
  BY <1>0, <1>2, FilFields DEF PutPart, FileGroup, FilTypeOK, FilStates, FilIdle, FilSet,
     filHistory, FilInv, EndGroup, NextBucket, NoLogo
<1>3. CASE CreateRow(r)
  BY <1>0, <1>3, FilFields DEF CreateRow, FileGroup, FilTypeOK, FilStates, FilIdle, FilSet,
     filHistory, FilInv, EndGroup, NextBucket, NoLogo
<1>4. CASE FindFile(r)
  BY <1>0, <1>4, FilFields DEF FindFile, FileGroup, FilTypeOK, FilStates, FilIdle, FilSet,
     filHistory, FilInv, EndGroup, NextBucket, NoLogo
<1>5. CASE RemovePart(r)
  BY <1>0, <1>5, FilFields DEF RemovePart, FileGroup, FilTypeOK, FilStates, FilIdle, FilSet,
     filHistory, FilInv, EndGroup, NextBucket, NoLogo
<1>6. CASE DeleteFile(r)
  BY <1>0, <1>6, FilFields DEF DeleteFile, FileGroup, FilTypeOK, FilStates, FilIdle, FilSet,
     filHistory, FilInv, EndGroup, NextBucket, NoLogo
<1>7. CASE ReadCompany(r)
  BY <1>0, <1>7, FilFields DEF ReadCompany, FileGroup, FilTypeOK, FilStates, FilIdle, FilSet,
     filHistory, FilInv, EndGroup, NextBucket, NoLogo
<1>8. CASE RemoveOldLogo(r)
  <2>1. /\ \A q \in Requests : q # r => filReq'[q] = filReq[q]
        /\ filReq[r].at = "removeLogo" /\ filReq'[r].at \in {"putLogo", "setLogo"}
        /\ UNCHANGED <<owner, attached, drawn>>
    BY <1>0, <1>8, FilFields DEF RemoveOldLogo, FilSet, FilTypeOK, FilStates, FilIdle
  <2>2. \A q \in Requests : filReq[q].at = "put" => filReq[q].names \cap (store \ store') = {}
    BY <1>0, <1>8, FilFields, ObjectKinds DEF RemoveOldLogo, FilTypeOK
  <2> QED BY <1>0, <2>1, <2>2 DEF FilInv, FileGroup
<1>9. CASE PutLogo(r)
  BY <1>0, <1>9, FilFields DEF PutLogo, FileGroup, FilTypeOK, FilStates, FilIdle, FilSet,
     filHistory, FilInv, EndGroup, NextBucket, NoLogo
<1>10. CASE SetLogo(r)
  BY <1>0, <1>10, FilFields DEF SetLogo, FileGroup, FilTypeOK, FilStates, FilIdle, FilSet,
     filHistory, FilInv, EndGroup, NextBucket, NoLogo
<1>11. CASE DeleteRows(r)
  BY <1>0, <1>11, FilFields DEF DeleteRows, FileGroup, FilTypeOK, FilStates, FilIdle, FilSet,
     filHistory, FilInv, EndGroup, NextBucket, NoLogo
<1>12. CASE ListObjects(r)
  BY <1>0, <1>12, FilFields DEF ListObjects, FileGroup, FilTypeOK, FilStates, FilIdle, FilSet,
     filHistory, FilInv, EndGroup, NextBucket, NoLogo
<1>13. CASE RemoveObjects(r) \/ PurgeFails(r)
  <2>1. UNCHANGED <<attached, drawn>> /\ NextBucket(r) /\ filReq[r].at \in {"list", "purge"}
    BY <1>13 DEF RemoveObjects, PurgeFails
  <2>2. owner # "there" /\ owner' # "there"
    BY <1>0, <2>1 DEF FilInv, EndGroup, NextBucket
  <2>3. /\ \A q \in Requests : q # r => filReq'[q] = filReq[q]
        /\ filReq'[r].at \in {"idle", "list"}
    BY <1>0, <2>1 DEF NextBucket, FilSet, FilTypeOK, FilIdle
  <2> QED BY <1>0, <2>1, <2>2, <2>3 DEF FilInv, FileGroup
<1>14. CASE FailFile(r)
  BY <1>0, <1>14, FilFields DEF FailFile, FileGroup, FilTypeOK, FilStates, FilIdle, FilSet,
     filHistory, FilInv, EndGroup, NextBucket, NoLogo
<1> QED BY <1>1, <1>2, <1>3, <1>4, <1>5, <1>6, <1>7, <1>8, <1>9, <1>10, <1>11, <1>12, <1>13, <1>14

LEMMA AttachedStep ==
  ASSUME FilInv, NEW r \in Requests,
         FindOwner(r) \/ PutPart(r) \/ CreateRow(r) \/ FindFile(r) \/ RemovePart(r) \/
         DeleteFile(r) \/ ReadCompany(r) \/ RemoveOldLogo(r) \/ PutLogo(r) \/ SetLogo(r)
         \/ DeleteRows(r) \/ ListObjects(r) \/ RemoveObjects(r) \/ PurgeFails(r) \/
         FailFile(r)
  PROVE  AttachedThere'
<1>0. FilInv /\ FilTypeOK
  BY DEF FilInv
<1>1. CASE FindOwner(r)
  BY <1>0, <1>1, FilFields, ObjectKinds DEF FindOwner, AttachedThere, Accounted, TakenAway,
     FileGroup, FilTypeOK, FilStates, FilIdle, FilSet, filHistory, FilInv, EndGroup, NextBucket,
     NoLogo
<1>2. CASE PutPart(r)
  BY <1>0, <1>2, FilFields, ObjectKinds DEF PutPart, AttachedThere, Accounted, TakenAway, FileGroup,
     FilTypeOK, FilStates, FilIdle, FilSet, filHistory, FilInv, EndGroup, NextBucket, NoLogo
<1>3. CASE CreateRow(r)
  BY <1>0, <1>3, FilFields, ObjectKinds DEF CreateRow, AttachedThere, Accounted, TakenAway,
     FileGroup, FilTypeOK, FilStates, FilIdle, FilSet, filHistory, FilInv, EndGroup, NextBucket,
     NoLogo
<1>4. CASE FindFile(r)
  BY <1>0, <1>4, FilFields, ObjectKinds DEF FindFile, AttachedThere, Accounted, TakenAway,
     FileGroup, FilTypeOK, FilStates, FilIdle, FilSet, filHistory, FilInv, EndGroup, NextBucket,
     NoLogo
<1>5. CASE RemovePart(r)
  BY <1>0, <1>5, FilFields, ObjectKinds DEF RemovePart, AttachedThere, Accounted, TakenAway,
     FileGroup, FilTypeOK, FilStates, FilIdle, FilSet, filHistory, FilInv, EndGroup, NextBucket,
     NoLogo
<1>6. CASE DeleteFile(r)
  BY <1>0, <1>6, FilFields, ObjectKinds DEF DeleteFile, AttachedThere, Accounted, TakenAway,
     FileGroup, FilTypeOK, FilStates, FilIdle, FilSet, filHistory, FilInv, EndGroup, NextBucket,
     NoLogo
<1>7. CASE ReadCompany(r)
  BY <1>0, <1>7, FilFields, ObjectKinds DEF ReadCompany, AttachedThere, Accounted, TakenAway,
     FileGroup, FilTypeOK, FilStates, FilIdle, FilSet, filHistory, FilInv, EndGroup, NextBucket,
     NoLogo
<1>8. CASE RemoveOldLogo(r)
  BY <1>0, <1>8, FilFields, ObjectKinds DEF RemoveOldLogo, AttachedThere, Accounted, TakenAway,
     FileGroup, FilTypeOK, FilStates, FilIdle, FilSet, filHistory, FilInv, EndGroup, NextBucket,
     NoLogo
<1>9. CASE PutLogo(r)
  BY <1>0, <1>9, FilFields, ObjectKinds DEF PutLogo, AttachedThere, Accounted, TakenAway, FileGroup,
     FilTypeOK, FilStates, FilIdle, FilSet, filHistory, FilInv, EndGroup, NextBucket, NoLogo
<1>10. CASE SetLogo(r)
  BY <1>0, <1>10, FilFields, ObjectKinds DEF SetLogo, AttachedThere, Accounted, TakenAway,
     FileGroup, FilTypeOK, FilStates, FilIdle, FilSet, filHistory, FilInv, EndGroup, NextBucket,
     NoLogo
<1>11. CASE DeleteRows(r)
  BY <1>0, <1>11, FilFields, ObjectKinds DEF DeleteRows, AttachedThere, Accounted, TakenAway,
     FileGroup, FilTypeOK, FilStates, FilIdle, FilSet, filHistory, FilInv, EndGroup, NextBucket,
     NoLogo
<1>12. CASE ListObjects(r)
  BY <1>0, <1>12, FilFields, ObjectKinds DEF ListObjects, AttachedThere, Accounted, TakenAway,
     FileGroup, FilTypeOK, FilStates, FilIdle, FilSet, filHistory, FilInv, EndGroup, NextBucket,
     NoLogo
<1>13. CASE RemoveObjects(r)
  BY <1>0, <1>13, FilFields, ObjectKinds DEF RemoveObjects, AttachedThere, Accounted, TakenAway,
     FileGroup, FilTypeOK, FilStates, FilIdle, FilSet, filHistory, FilInv, EndGroup, NextBucket,
     NoLogo
<1>14. CASE PurgeFails(r)
  BY <1>0, <1>14, FilFields, ObjectKinds DEF PurgeFails, AttachedThere, Accounted, TakenAway,
     FileGroup, FilTypeOK, FilStates, FilIdle, FilSet, filHistory, FilInv, EndGroup, NextBucket,
     NoLogo
<1>15. CASE FailFile(r)
  BY <1>0, <1>15, FilFields, ObjectKinds DEF FailFile, AttachedThere, Accounted, TakenAway,
     FileGroup, FilTypeOK, FilStates, FilIdle, FilSet, filHistory, FilInv, EndGroup, NextBucket,
     NoLogo
<1> QED BY <1>1, <1>2, <1>3, <1>4, <1>5, <1>6, <1>7, <1>8, <1>9, <1>10, <1>11, <1>12, <1>13, <1>14, <1>15

LEMMA LogoGroupStep ==
  ASSUME FilInv, NEW r \in Requests,
         FindOwner(r) \/ PutPart(r) \/ CreateRow(r) \/ FindFile(r) \/ RemovePart(r) \/
         DeleteFile(r) \/ ReadCompany(r) \/ RemoveOldLogo(r) \/ PutLogo(r) \/ SetLogo(r)
         \/ DeleteRows(r) \/ ListObjects(r) \/ RemoveObjects(r) \/ PurgeFails(r) \/
         FailFile(r)
  PROVE  LogoGroup'
<1>0. FilInv /\ FilTypeOK
  BY DEF FilInv
<1>1. CASE FindOwner(r)
  BY <1>0, <1>1, FilFields, ObjectKinds DEF FindOwner, LogoGroup, Accounted, TakenAway, AtLogo,
     FilTypeOK, FilStates, FilIdle, FilSet, filHistory, FilInv, EndGroup, NextBucket, NoLogo
<1>2. CASE PutPart(r)
  BY <1>0, <1>2, FilFields, ObjectKinds DEF PutPart, LogoGroup, Accounted, TakenAway, AtLogo,
     FilTypeOK, FilStates, FilIdle, FilSet, filHistory, FilInv, EndGroup, NextBucket, NoLogo
<1>3. CASE CreateRow(r)
  BY <1>0, <1>3, FilFields, ObjectKinds DEF CreateRow, LogoGroup, Accounted, TakenAway, AtLogo,
     FilTypeOK, FilStates, FilIdle, FilSet, filHistory, FilInv, EndGroup, NextBucket, NoLogo
<1>4. CASE FindFile(r)
  BY <1>0, <1>4, FilFields, ObjectKinds DEF FindFile, LogoGroup, Accounted, TakenAway, AtLogo,
     FilTypeOK, FilStates, FilIdle, FilSet, filHistory, FilInv, EndGroup, NextBucket, NoLogo
<1>5. CASE RemovePart(r)
  <2>1. /\ \A q \in Requests : q # r => filReq'[q] = filReq[q]
        /\ filReq[r].at = "remove" /\ filReq'[r].at = "remove"
        /\ UNCHANGED <<owner, logo, met, severed>>
    BY <1>0, <1>5, FilFields DEF RemovePart, FilSet, FilTypeOK, FilStates, FilIdle, filHistory
  <2>2. \A key \in LogoKeys : LogoOf(key) \cap (store \ store') = {}
    BY <1>0, <1>5, FilFields, ObjectKinds DEF RemovePart, FilTypeOK
  <2>3. AtLogo' = AtLogo /\ \A q \in AtLogo : filReq'[q] = filReq[q] /\ filReq[q].key \in LogoKeys
    BY <1>0, <2>1, FilFields DEF AtLogo, FilTypeOK
  <2>4. TakenAway(filReq[r]) \subseteq FileObjects
    BY <1>0, <2>1, FilFields DEF TakenAway, FilTypeOK
  <2>5. logo.key # NoKey => logo.key \in Extensions /\ LogoObject(logo.key) \in LogoOf(logo.key)
          /\ LogoObject(logo.key) \notin FileObjects
    BY <1>0, ObjectKinds DEF FilTypeOK, LogoKeys, LogoOf
  <2>6. logo.key # NoKey /\ Accounted(LogoObject(logo.key)) => Accounted(LogoObject(logo.key))'
    BY <1>0, <2>1, <2>2, <2>4, <2>5 DEF Accounted, LogoObject, FilTypeOK
  <2> QED BY <1>0, <2>1, <2>2, <2>3, <2>6 DEF FilInv, LogoGroup
<1>6. CASE DeleteFile(r)
  <2>1. /\ filReq'[r] = FilIdle /\ \A q \in Requests : q # r => filReq'[q] = filReq[q]
        /\ UNCHANGED <<owner, logo, store, met, severed>>
    BY <1>0, <1>6 DEF DeleteFile, FilSet, FilTypeOK, filHistory
  <2>2. AtLogo' = AtLogo
    BY <1>6, <2>1 DEF DeleteFile, AtLogo, FilIdle
  <2>3. \A q \in AtLogo : filReq'[q] = filReq[q]
    BY <1>6, <2>1 DEF DeleteFile, AtLogo
  <2>4. \A key \in Extensions : LogoObject(key) \notin TakenAway(filReq[r])
    BY <1>0, <1>6, FilFields, ObjectKinds DEF DeleteFile, TakenAway, FilTypeOK, LogoObject
  <2>5. logo.key # NoKey => logo.key \in Extensions
    BY <1>0 DEF FilTypeOK, LogoKeys
  <2>6. logo.key # NoKey /\ logo.alone => Accounted(LogoObject(logo.key))'
    BY <1>0, <2>1, <2>4, <2>5 DEF FilInv, LogoGroup, Accounted
  <2> QED BY <1>0, <2>1, <2>2, <2>3, <2>6 DEF FilInv, LogoGroup
<1>7. CASE ReadCompany(r)
  BY <1>0, <1>7, FilFields, ObjectKinds DEF ReadCompany, LogoGroup, Accounted, TakenAway, AtLogo,
     FilTypeOK, FilStates, FilIdle, FilSet, filHistory, FilInv, EndGroup, NextBucket, NoLogo
<1>8. CASE RemoveOldLogo(r)
  <2> DEFINE state == [filReq[r] EXCEPT !.at = IF filReq[r].key = NoKey THEN "setLogo" ELSE "putLogo"]
  <2>1. /\ filReq[r].at = "removeLogo" /\ filReq[r] \in FilStates
        /\ filReq[r].key \in LogoKeys /\ filReq[r].seen \in LogoKeys
    BY <1>0, <1>8, FilFields DEF RemoveOldLogo, FilTypeOK
  <2>2. /\ state.at \in {"putLogo", "setLogo"} /\ state.key = filReq[r].key
        /\ state.seen = filReq[r].seen /\ (state.at = "setLogo" => state.key = NoKey)
    BY <2>1 DEF FilStates, FilIdle
  <2> HIDE DEF state
  <2>3. /\ filReq'[r] = state /\ \A q \in Requests : q # r => filReq'[q] = filReq[q]
        /\ UNCHANGED <<owner, logo, met, severed>>
        /\ store' \in {store, store \ LogoOf(filReq[r].seen)}
    BY <1>0, <1>8 DEF RemoveOldLogo, FilSet, FilTypeOK, filHistory, state
  <2>4. AtLogo' = AtLogo /\ r \in AtLogo
    BY <2>1, <2>2, <2>3 DEF AtLogo
  <2>5. ASSUME NEW q \in AtLogo \ met, filReq'[q].at = "setLogo", owner = "there"
        PROVE  LogoOf(filReq'[q].key) \subseteq store'
    <3>1. q = r
      BY <1>0, <2>4, <2>5 DEF FilInv, LogoGroup
    <3> QED BY <2>2, <2>3, <2>5, <3>1 DEF LogoOf
  <2>6. TakenAway(filReq'[r]) = LogoOf(filReq[r].seen) /\ TakenAway(filReq[r]) = {}
    BY <2>1, <2>2, <2>3 DEF TakenAway
  <2>7. ASSUME NEW o, Accounted(o) PROVE Accounted(o)'
    BY <2>3, <2>6, <2>7 DEF Accounted
  <2> QED BY <1>0, <2>3, <2>4, <2>5, <2>7 DEF FilInv, LogoGroup
<1>9. CASE PutLogo(r)
  BY <1>0, <1>9, FilFields, ObjectKinds DEF PutLogo, LogoGroup, Accounted, TakenAway, AtLogo,
     FilTypeOK, FilStates, FilIdle, FilSet, filHistory, FilInv, EndGroup, NextBucket, NoLogo
<1>10. CASE SetLogo(r)
  <2>1. /\ filReq[r].at = "setLogo" /\ filReq[r] \in FilStates /\ filReq[r].key \in LogoKeys
        /\ logo.key \in LogoKeys
    BY <1>0, <1>10, FilFields DEF SetLogo, FilTypeOK
  <2>2. /\ filReq'[r] = FilIdle /\ \A q \in Requests : q # r => filReq'[q] = filReq[q]
        /\ UNCHANGED <<owner, store, met, severed>>
        /\ logo' = IF owner = "there" THEN [key |-> filReq[r].key, alone |-> r \notin met] ELSE logo
    BY <1>0, <1>10 DEF SetLogo, FilSet, FilTypeOK, filHistory
  <2>3. AtLogo' = AtLogo \ {r} /\ r \in AtLogo
    BY <2>1, <2>2 DEF AtLogo, FilIdle
  <2>4. ASSUME owner = "there", filReq[r].key # NoKey, r \notin met
        PROVE  LogoObject(filReq[r].key) \in store
    BY <1>0, <2>1, <2>3, <2>4 DEF FilInv, LogoGroup, LogoOf
  <2>5. ASSUME logo'.key # NoKey, logo'.alone PROVE Accounted(LogoObject(logo.key))'
    <3>1. CASE owner = "there"
      <4>1. logo'.key = filReq[r].key
        BY <2>2, <3>1
      <4>2. r \notin met
        <5> DEFINE b == r \notin met
        <5>1. b \in BOOLEAN /\ logo' = [key |-> filReq[r].key, alone |-> b]
          BY <2>2, <3>1
        <5> HIDE DEF b
        <5>2. b
          BY <2>5, <5>1
        <5> QED BY <5>2 DEF b
      <4> QED BY <2>2, <2>4, <2>5, <3>1, <4>1, <4>2 DEF Accounted, LogoObject
    <3>2. CASE owner # "there"
      BY <1>0, <2>2, <2>5, <3>2 DEF FilInv, EndGroup
    <3> QED BY <3>1, <3>2
  <2>6. ASSUME NEW q \in AtLogo' \ met' PROVE AtLogo' = {q} /\ filReq'[q] = filReq[q] /\ q \in AtLogo \ met
    BY <1>0, <2>2, <2>3 DEF FilInv, LogoGroup
  <2> QED BY <1>0, <2>2, <2>5, <2>6 DEF FilInv, LogoGroup
<1>11. CASE DeleteRows(r)
  BY <1>0, <1>11, FilFields, ObjectKinds DEF DeleteRows, LogoGroup, Accounted, TakenAway, AtLogo,
     FilTypeOK, FilStates, FilIdle, FilSet, filHistory, FilInv, EndGroup, NextBucket, NoLogo
<1>12. CASE ListObjects(r)
  BY <1>0, <1>12, FilFields, ObjectKinds DEF ListObjects, LogoGroup, Accounted, TakenAway, AtLogo,
     FilTypeOK, FilStates, FilIdle, FilSet, filHistory, FilInv, EndGroup, NextBucket, NoLogo
<1>13. CASE RemoveObjects(r)
  BY <1>0, <1>13, FilFields, ObjectKinds DEF RemoveObjects, LogoGroup, Accounted, TakenAway, AtLogo,
     FilTypeOK, FilStates, FilIdle, FilSet, filHistory, FilInv, EndGroup, NextBucket, NoLogo
<1>14. CASE PurgeFails(r)
  BY <1>0, <1>14, FilFields, ObjectKinds DEF PurgeFails, LogoGroup, Accounted, TakenAway, AtLogo,
     FilTypeOK, FilStates, FilIdle, FilSet, filHistory, FilInv, EndGroup, NextBucket, NoLogo
<1>15. CASE FailFile(r)
  BY <1>0, <1>15, FilFields, ObjectKinds DEF FailFile, LogoGroup, Accounted, TakenAway, AtLogo,
     FilTypeOK, FilStates, FilIdle, FilSet, filHistory, FilInv, EndGroup, NextBucket, NoLogo
<1> QED BY <1>1, <1>2, <1>3, <1>4, <1>5, <1>6, <1>7, <1>8, <1>9, <1>10, <1>11, <1>12, <1>13, <1>14, <1>15

\* A bucket is done with.
LEMMA BucketMoves ==
  ASSUME FilInv, NEW r \in Requests, filReq[r].at \in {"list", "purge"}, filReq[r].bucket \in Buckets,
         NextBucket(r), UNCHANGED <<attached, logo, onWay>>,
         owner # "there", owner' # "there", refused \subseteq refused', store' \subseteq store,
         NEW b \in Buckets, b = filReq[r].bucket,
         InBucket(b)' \subseteq onWay \cup refused',
         \A c \in Buckets : InBucket(c)' \subseteq InBucket(c),
         filReq[r].bucket = "documents" => InBucket("photos") \subseteq onWay \cup refused
  PROVE  EndGroup'
<1>1. /\ filReq'[r] \in {FilIdle, [at |-> "list", bucket |-> "documents"]}
      /\ filReq[r].bucket = "documents" => filReq'[r] = FilIdle
      /\ filReq[r].bucket = "photos" => owner' = owner
      /\ \A q \in Requests : q # r => filReq'[q] = filReq[q]
  BY DEF NextBucket, FilSet, FilInv, FilTypeOK
<1>2. \A q \in Requests : Coming(filReq'[q]) \subseteq Coming(filReq[q])
  BY <1>1 DEF Coming, FilIdle
<1>3. \A q \in Requests : filReq[q].at \in {"list", "purge"} => filReq[q].bucket \in Buckets
  BY FilFields DEF FilInv, FilTypeOK
<1>4. ASSUME NEW q \in Requests, filReq'[q].at \in {"list", "purge"}
      PROVE  /\ filReq'[q].bucket = "documents" => InBucket("photos")' \subseteq onWay' \cup refused'
             /\ filReq'[q].at = "purge" =>
                  InBucket(filReq[q].bucket)' \subseteq filReq'[q].keys \cup onWay' \cup refused'
  <2>1. CASE q = r
    BY <1>1, <1>4, <2>1 DEF FilIdle, Buckets
  <2>2. CASE q # r
    <3> PICK c \in Buckets : c = filReq[q].bucket
      BY <1>1, <1>3, <1>4, <2>2
    <3>1. /\ c = "documents" => InBucket("photos") \subseteq onWay \cup refused
          /\ filReq[q].at = "purge" => InBucket(c) \subseteq filReq[q].keys \cup onWay \cup refused
      BY <1>1, <1>4, <2>2 DEF FilInv, EndGroup
    <3>2. /\ filReq'[q] = filReq[q] /\ onWay' = onWay /\ InBucket(c)' \subseteq InBucket(c)
          /\ InBucket("photos")' \subseteq InBucket("photos")
      BY <1>1, <2>2 DEF Buckets
    <3>3. filReq'[q].at = "purge" => InBucket(c)' \subseteq filReq'[q].keys \cup onWay' \cup refused'
      BY <3>1, <3>2
    <3>4. c = filReq'[q].bucket
      BY <3>2
    <3>5. InBucket(c)' = InBucket(filReq[q].bucket)'
      BY <3>4 DEF InBucket
    <3> QED BY <3>1, <3>2, <3>3, <3>5
  <2> QED BY <2>1, <2>2
<1>5. store = InBucket("photos") \cup InBucket("documents")
  BY ObjectBuckets DEF FilInv, FilTypeOK, InBucket, Buckets
<1>6. owner' = "purged" => store' \subseteq onWay' \cup refused'
  <2>1. CASE b = "photos"
    BY <1>1, <2>1 DEF FilInv, EndGroup
  <2>2. CASE b = "documents"
    <3>1. store' = InBucket("photos")' \cup InBucket("documents")'
      BY <1>5 DEF InBucket
    <3> QED BY <2>2, <3>1 DEF Buckets
  <2> QED BY <2>1, <2>2 DEF Buckets
<1> QED BY <1>2, <1>4, <1>6 DEF FilInv, EndGroup

LEMMA EndGroupStep ==
  ASSUME FilInv, NEW r \in Requests,
         FindOwner(r) \/ PutPart(r) \/ CreateRow(r) \/ FindFile(r) \/ RemovePart(r) \/
         DeleteFile(r) \/ ReadCompany(r) \/ RemoveOldLogo(r) \/ PutLogo(r) \/ SetLogo(r)
         \/ DeleteRows(r) \/ ListObjects(r) \/ RemoveObjects(r) \/ PurgeFails(r) \/
         FailFile(r)
  PROVE  EndGroup'
<1>0. FilInv /\ FilTypeOK
  BY DEF FilInv
<1>1. CASE FindOwner(r)
  BY <1>0, <1>1, FilFields, ObjectKinds DEF FindOwner, Coming, InBucket, EndGroup, FilTypeOK,
     FilStates, FilIdle, FilSet, filHistory, FilInv, NextBucket, NoLogo
<1>2. CASE PutPart(r)
  BY <1>0, <1>2, FilFields, ObjectKinds DEF PutPart, Coming, InBucket, EndGroup, FilTypeOK,
     FilStates, FilIdle, FilSet, filHistory, FilInv, NextBucket, NoLogo
<1>3. CASE CreateRow(r)
  BY <1>0, <1>3, FilFields, ObjectKinds DEF CreateRow, Coming, InBucket, EndGroup, FilTypeOK,
     FilStates, FilIdle, FilSet, filHistory, FilInv, NextBucket, NoLogo
<1>4. CASE FindFile(r)
  BY <1>0, <1>4, FilFields, ObjectKinds DEF FindFile, Coming, InBucket, EndGroup, FilTypeOK,
     FilStates, FilIdle, FilSet, filHistory, FilInv, NextBucket, NoLogo
<1>5. CASE RemovePart(r)
  BY <1>0, <1>5, FilFields, ObjectKinds DEF RemovePart, Coming, InBucket, EndGroup, FilTypeOK,
     FilStates, FilIdle, FilSet, filHistory, FilInv, NextBucket, NoLogo
<1>6. CASE DeleteFile(r)
  BY <1>0, <1>6, FilFields, ObjectKinds DEF DeleteFile, Coming, InBucket, EndGroup, FilTypeOK,
     FilStates, FilIdle, FilSet, filHistory, FilInv, NextBucket, NoLogo
<1>7. CASE ReadCompany(r)
  BY <1>0, <1>7, FilFields, ObjectKinds DEF ReadCompany, Coming, InBucket, EndGroup, FilTypeOK,
     FilStates, FilIdle, FilSet, filHistory, FilInv, NextBucket, NoLogo
<1>8. CASE RemoveOldLogo(r)
  BY <1>0, <1>8, FilFields, ObjectKinds DEF RemoveOldLogo, Coming, InBucket, EndGroup,
     FilTypeOK, FilStates, FilIdle, FilSet, filHistory, FilInv, NextBucket, NoLogo
<1>9. CASE PutLogo(r)
  BY <1>0, <1>9, FilFields, ObjectKinds DEF PutLogo, Coming, InBucket, EndGroup, FilTypeOK,
     FilStates, FilIdle, FilSet, filHistory, FilInv, NextBucket, NoLogo
<1>10. CASE SetLogo(r)
  BY <1>0, <1>10, FilFields, ObjectKinds DEF SetLogo, Coming, InBucket, EndGroup, FilTypeOK,
     FilStates, FilIdle, FilSet, filHistory, FilInv, NextBucket, NoLogo
<1>11. CASE DeleteRows(r)
  BY <1>0, <1>11, FilFields, ObjectKinds DEF DeleteRows, Coming, InBucket, EndGroup, FilTypeOK,
     FilStates, FilIdle, FilSet, filHistory, FilInv, NextBucket, NoLogo
<1>12. CASE ListObjects(r)
  BY <1>0, <1>12, FilFields, ObjectKinds DEF ListObjects, Coming, InBucket, EndGroup, FilTypeOK,
     FilStates, FilIdle, FilSet, filHistory, FilInv, NextBucket, NoLogo
<1>13. CASE RemoveObjects(r)
  <2>1. /\ filReq[r].at = "purge" /\ filReq[r].bucket \in Buckets /\ NextBucket(r)
        /\ store' = store \ filReq[r].keys
        /\ UNCHANGED <<attached, logo, drawn, met, severed, onWay, refused>>
    BY <1>0, <1>13, FilFields DEF RemoveObjects, FilTypeOK, filHistory
  <2> PICK b \in Buckets : b = filReq[r].bucket
    BY <2>1
  <2>2. /\ owner # "there" /\ owner' # "there"
        /\ InBucket(b)' \subseteq onWay \cup refused'
        /\ \A c \in Buckets : InBucket(c)' \subseteq InBucket(c)
        /\ b = "documents" => InBucket("photos") \subseteq onWay \cup refused
    BY <1>0, <2>1 DEF FilInv, EndGroup, InBucket, NextBucket
  <2> QED BY <1>0, <2>1, <2>2, BucketMoves
<1>14. CASE PurgeFails(r)
  <2>1. /\ filReq[r].at \in {"list", "purge"} /\ filReq[r].bucket \in Buckets /\ NextBucket(r)
        /\ refused' = refused \cup InBucket(filReq[r].bucket)
        /\ UNCHANGED <<attached, logo, store, drawn, met, severed, onWay>>
    BY <1>0, <1>14, FilFields DEF PurgeFails, FilTypeOK
  <2> PICK b \in Buckets : b = filReq[r].bucket
    BY <2>1
  <2>2. /\ owner # "there" /\ owner' # "there"
        /\ InBucket(b)' \subseteq onWay \cup refused'
        /\ \A c \in Buckets : InBucket(c)' \subseteq InBucket(c)
        /\ b = "documents" => InBucket("photos") \subseteq onWay \cup refused
    BY <1>0, <2>1 DEF FilInv, EndGroup, InBucket, NextBucket
  <2> QED BY <1>0, <2>1, <2>2, BucketMoves
<1>15. CASE FailFile(r)
  BY <1>0, <1>15, FilFields, ObjectKinds DEF FailFile, Coming, InBucket, EndGroup, FilTypeOK,
     FilStates, FilIdle, FilSet, filHistory, FilInv, NextBucket, NoLogo
<1> QED BY <1>1, <1>2, <1>3, <1>4, <1>5, <1>6, <1>7, <1>8, <1>9, <1>10, <1>11, <1>12, <1>13, <1>14, <1>15

LEMMA FilStep == FilInv /\ [FilNext]_filVars => FilInv'
<1>1. ASSUME FilInv, UNCHANGED filVars PROVE FilInv'
  BY <1>1 DEF filVars, FilInv, FilTypeOK, FileGroup, AttachedThere, LogoGroup, EndGroup, Accounted,
              AtLogo, InBucket
<1>2. ASSUME FilInv, FilNext PROVE FilInv'
  BY <1>2, FilTypes, FileGroupStep, AttachedStep, LogoGroupStep, EndGroupStep DEF FilNext, FilInv
<1> QED BY <1>1, <1>2

LEMMA FilesOnly == FilInv => FilesAreKept
BY DEF FilInv, AttachedThere, LogoGroup, EndGroup, FilesAreKept

-----------------------------------------------------------------------------
(* E-mails. *)

\* What is in the cache was read when it says or later, and so was what a mail has
\* found.
SpecFits(r) ==
  /\ mailing[r].at = "keep" => mailing[r].readAt >= mailing[r].start
  /\ mailing[r].at = "post" => mailing[r].readAt >= mailing[r].start - CacheTime
SpecsFit ==
  /\ transport # NoSpec => transport.readAt >= transport.at /\ transport.at <= moment
  /\ \A r \in Requests : mailing[r] # MailIdle => mailing[r].start <= moment /\ SpecFits(r)

\* A job that is sent is active, and no other request sends it; a job that is not
\* over has attempts left.
Carries(r, j) == mailing[r] # MailIdle /\ mailing[r].of = j
HandsFit ==
  /\ \A r \in Requests, j \in MailJobs : Carries(r, j) =>
       /\ mailJob[j].state = "active" /\ mailing[r].tells = {}
       /\ \A q \in Requests \ {r} : ~Carries(q, j)
  /\ \A j \in MailJobs : mailJob[j].state = "active" => \E r \in Requests : Carries(r, j)
  /\ \A j \in MailJobs : mailJob[j].state \in {"waiting", "active"} => mailJob[j].made < Tries
  /\ \A j \in MailJobs : mailJob[j].state \in {"over", "failed"} => mailJob[j].made = 0

Tells(r, j) == mailing[r] # MailIdle /\ j \in mailing[r].tells
AlertsFit ==
  \A j \in MailJobs :
    /\ mailJob[j].state = "failed" <=>
         (\E r \in Requests : Tells(r, j)) \/ j \in suppressed \cup announced \cup untold
    /\ \A r \in Requests : Tells(r, j) =>
         j \notin suppressed \cup announced \cup untold /\ \A q \in Requests \ {r} : ~Tells(q, j)
    /\ j \notin suppressed \cap announced /\ j \notin suppressed \cap untold /\ j \notin announced \cap untold

MailInv == MailTypeOK /\ SpecsFit /\ HandsFit /\ AlertsFit

LEMMA MailStart == MailInit => MailInv
<1> SUFFICES ASSUME MailInit PROVE MailInv
  OBVIOUS
<1>1. \A r \in Requests : mailing[r] = MailIdle
  BY DEF MailInit
<1>2. MailTypeOK
  BY MailsAssumption DEF MailInit, MailTypeOK, Moments, Ended
<1>3. SpecsFit /\ HandsFit /\ AlertsFit
  BY <1>1, MailsAssumption DEF MailInit, SpecsFit, HandsFit, AlertsFit, Carries, Tells, Ended
<1> QED BY <1>2, <1>3 DEF MailInv

\* A request moves alone.
LEMMA OneMail ==
  ASSUME MailTypeOK, NEW r \in Requests, NEW c \in MailStates \cup {MailIdle}, MailGoes(r, c)
  PROVE  /\ mailing' \in [Requests -> {MailIdle} \cup MailStates]
         /\ mailing'[r] = c
         /\ \A q \in Requests \ {r} : mailing'[q] = mailing[q]
BY DEF MailTypeOK, MailGoes

\* What a request has in hand while it is busy.
LEMMA MailInHand ==
  ASSUME MailTypeOK, NEW r \in Requests, mailing[r].at \in {"ask", "look", "keep", "post"}
  PROVE  /\ mailing[r] # MailIdle /\ mailing[r] \in MailStates
         /\ mailing[r].of \in MailJobs \cup {Alert} /\ mailing[r].start \in Moments
         /\ mailing[r].readAt \in Moments /\ mailing[r].tells \subseteq MailJobs
BY DEF MailTypeOK, MailIdle, MailStates

\* A question is answered from the cache or becomes a look-up.
LEMMA InquiredIs ==
  ASSUME MailTypeOK, NEW c \in MailStates
  PROVE  /\ Inquired(c) \in MailStates /\ Inquired(c) # MailIdle
         /\ Inquired(c).of = c.of /\ Inquired(c).tells = c.tells
<1>1. moment \in Moments /\ 0 \in Moments
  BY MailsAssumption DEF MailTypeOK, Moments
<1>2. CASE StillYoung
  <2>1. transport.readAt \in Moments /\ Inquired(c) = Resolved(c, transport.readAt, moment)
    BY <1>2 DEF StillYoung, MailTypeOK, Inquired
  <2>2. CASE c.for = "address"
    <3>1. Inquired(c) = [c EXCEPT !.at = "ask", !.for = "mail", !.start = 0, !.readAt = 0]
      BY <2>1, <2>2 DEF Resolved
    <3> QED BY <1>1, <3>1 DEF MailStates, MailIdle
  <2>3. CASE c.for # "address"
    <3>1. Inquired(c) = [c EXCEPT !.at = "post", !.start = moment, !.readAt = transport.readAt]
      BY <2>1, <2>3 DEF Resolved
    <3> QED BY <1>1, <2>1, <3>1 DEF MailStates, MailIdle
  <2> QED BY <2>2, <2>3
<1>3. CASE ~StillYoung
  <2>1. Inquired(c) = [c EXCEPT !.at = "look", !.start = moment]
    BY <1>3 DEF Inquired
  <2> QED BY <1>1, <2>1 DEF MailStates, MailIdle
<1> QED BY <1>2, <1>3

\* A new mail asks.
LEMMA NewMailAsks ==
  ASSUME MailTypeOK, NEW of \in MailJobs \cup {Alert}, NEW for \in {"address", "mail"},
         NEW tells \in SUBSET MailJobs
  PROVE  /\ NewMail(of, for, tells) \in MailStates
         /\ Inquired(NewMail(of, for, tells)) \in MailStates \ {MailIdle}
         /\ Inquired(NewMail(of, for, tells)).of = of
         /\ Inquired(NewMail(of, for, tells)).tells = tells
<1> DEFINE c == NewMail(of, for, tells)
<1>1. c \in MailStates /\ c.of = of /\ c.tells = tells
  BY MailsAssumption DEF NewMail, MailStates, Moments
<1> HIDE DEF c
<1> QED BY <1>1, InquiredIs DEF c

LEMMA AlertAsks ==
  ASSUME MailTypeOK, NEW j \in MailJobs
  PROVE  LET c == NewMail(Alert, "mail", suppressed \cup {j})
         IN /\ c \in MailStates /\ Inquired(c) \in MailStates \ {MailIdle}
            /\ Inquired(c).of = Alert /\ Inquired(c).tells = suppressed \cup {j}
<1> DEFINE tells == suppressed \cup {j}
<1>1. tells \in SUBSET MailJobs
  BY DEF MailTypeOK
<1> HIDE DEF tells
<1>2. /\ NewMail(Alert, "mail", tells) \in MailStates
      /\ Inquired(NewMail(Alert, "mail", tells)) \in MailStates \ {MailIdle}
      /\ Inquired(NewMail(Alert, "mail", tells)).of = Alert
      /\ Inquired(NewMail(Alert, "mail", tells)).tells = tells
  BY <1>1, NewMailAsks
<1> QED BY <1>2 DEF tells

\* What a worker that dies leaves of a job.
LEMMA DeadHands ==
  ASSUME MailTypeOK, MailerDies, NEW k \in MailJobs
  PROVE  \/ mailJob[k].state # "active" /\ mailJob'[k] = mailJob[k]
         \/ /\ mailJob[k].state = "active"
            /\ \/ mailJob'[k].state = "waiting" /\ mailJob'[k].made = mailJob[k].made
               \/ mailJob'[k].state = "over" /\ mailJob'[k].made = 0
<1>1. CASE mailJob[k].state # "active"
  BY <1>1 DEF MailerDies
<1>2. CASE mailJob[k].state = "active" /\ mailJob[k].stalled
  <2>1. mailJob'[k] = Ended("over")
    BY <1>2 DEF MailerDies
  <2> QED BY <1>2, <2>1 DEF Ended
<1>3. CASE mailJob[k].state = "active" /\ ~mailJob[k].stalled
  <2>1. mailJob'[k] = [mailJob[k] EXCEPT !.state = "waiting", !.stalled = TRUE]
    BY <1>3 DEF MailerDies
  <2> QED BY <1>3, <2>1 DEF MailTypeOK
<1> QED BY <1>1, <1>2, <1>3

\* The steps of a mail that has not been posted.
Looks(r) == AskSettings(r) \/ ReadSettings(r) \/ Keep(r)

LEMMA LooksOnward ==
  ASSUME MailTypeOK, NEW r \in Requests, Looks(r)
  PROVE  /\ mailing[r] # MailIdle /\ mailing[r] \in MailStates
         /\ mailing'[r] \in MailStates /\ mailing'[r] # MailIdle
         /\ mailing'[r].of = mailing[r].of /\ mailing'[r].tells = mailing[r].tells
         /\ mailing' \in [Requests -> {MailIdle} \cup MailStates]
         /\ \A q \in Requests \ {r} : mailing'[q] = mailing[q]
<1> DEFINE c == mailing[r]
<1>1. c # MailIdle /\ c \in MailStates
  BY MailInHand DEF Looks, AskSettings, ReadSettings, Keep
<1>2. ASSUME NEW x \in Moments, NEW t \in Moments
      PROVE  /\ Resolved(c, x, t) \in MailStates
             /\ Resolved(c, x, t).of = c.of /\ Resolved(c, x, t).tells = c.tells
  <2>1. 0 \in Moments
    BY MailsAssumption DEF Moments
  <2>2. CASE c.for = "address"
    <3>1. Resolved(c, x, t) = [c EXCEPT !.at = "ask", !.for = "mail", !.start = 0, !.readAt = 0]
      BY <2>2 DEF Resolved
    <3> QED BY <1>1, <2>1, <3>1 DEF MailStates
  <2>3. CASE c.for # "address"
    <3>1. Resolved(c, x, t) = [c EXCEPT !.at = "post", !.start = t, !.readAt = x]
      BY <2>3 DEF Resolved
    <3> QED BY <1>1, <3>1 DEF MailStates
  <2> QED BY <2>2, <2>3
<1>4. ASSUME NEW x \in Moments
      PROVE  /\ [c EXCEPT !.at = "keep", !.readAt = x] \in MailStates
             /\ [c EXCEPT !.at = "keep", !.readAt = x].of = c.of
             /\ [c EXCEPT !.at = "keep", !.readAt = x].tells = c.tells
  BY <1>1 DEF MailStates
<1>5. moment \in Moments /\ c.readAt \in Moments /\ c.start \in Moments
  BY <1>1 DEF MailTypeOK, MailStates
<1>7. PICK d \in MailStates : MailGoes(r, d) /\ d.of = c.of /\ d.tells = c.tells
  <2>1. CASE AskSettings(r)
    BY <1>1, <2>1, InquiredIs DEF AskSettings
  <2>2. CASE ReadSettings(r)
    BY <1>4, <1>5, <2>2 DEF ReadSettings
  <2>3. CASE Keep(r)
    BY <1>2, <1>5, <2>3 DEF Keep
  <2> QED BY <2>1, <2>2, <2>3 DEF Looks
<1>8. \A e \in MailStates : e # MailIdle
  BY DEF MailStates, MailIdle
<1> QED BY <1>1, <1>7, <1>8, OneMail

\* The job a mail is of.
LEMMA JobOf ==
  ASSUME MailTypeOK, NEW r \in Requests, mailing[r].at = "post", mailing[r].of # Alert
  PROVE  /\ mailing[r] # MailIdle /\ mailing[r].of \in MailJobs
         /\ mailJob[mailing[r].of].made \in Nat
BY MailInHand DEF MailTypeOK

LEMMA MailTypes ==
  ASSUME MailInv, [MailNext]_mailVars
  PROVE  MailTypeOK'
<1> USE DEF MailInv
<1>0. moment \in Moments
  BY DEF MailTypeOK
<1>1. CASE UNCHANGED mailVars
  BY <1>1 DEF mailVars, MailTypeOK
<1>3. ASSUME NEW j \in MailJobs, EnqueueMail(j) PROVE MailTypeOK'
  BY <1>3 DEF EnqueueMail, MailTypeOK
<1>4. ASSUME NEW r \in Requests, NEW j \in MailJobs, TakeJob(r, j) PROVE MailTypeOK'
  <2>1. Inquired(NewMail(j, "address", {})) \in MailStates
    BY NewMailAsks
  <2>2. mailing' \in [Requests -> {MailIdle} \cup MailStates]
    BY <1>4, <2>1, OneMail DEF TakeJob
  <2> QED BY <1>4, <2>2 DEF TakeJob, MailTypeOK
<1>5. ASSUME NEW r \in Requests, Looks(r) PROVE MailTypeOK'
  <2>1. mailing' \in [Requests -> {MailIdle} \cup MailStates] /\ mailing[r] \in MailStates
    BY <1>5, LooksOnward
  <2>2. CASE AskSettings(r)
    BY <2>1, <2>2 DEF AskSettings, MailTypeOK
  <2>3. CASE ReadSettings(r)
    BY <2>1, <2>3 DEF ReadSettings, MailTypeOK
  <2>4. CASE Keep(r)
    <3>1. mailing[r].readAt \in Moments /\ mailing[r].start \in Moments
      BY <2>1 DEF MailStates
    <3> QED BY <2>1, <2>4, <3>1 DEF Keep, MailTypeOK
  <2> QED BY <1>5, <2>2, <2>3, <2>4 DEF Looks
<1>6. ASSUME NEW r \in Requests, AcceptMail(r) PROVE MailTypeOK'
  <2>1. mailing' \in [Requests -> {MailIdle} \cup MailStates] /\ mailing[r].tells \subseteq MailJobs
    BY <1>6, OneMail, MailInHand DEF AcceptMail
  <2>2. Ended("over") \in [state : {"waiting", "active", "over", "failed"},
                          made : 0..Tries, stalled : BOOLEAN]
    BY MailsAssumption DEF Ended
  <2> QED BY <1>6, <2>1, <2>2 DEF AcceptMail, MailTypeOK
<1>7. ASSUME NEW r \in Requests, GiveUpAlert(r) PROVE MailTypeOK'
  <2>1. mailing' \in [Requests -> {MailIdle} \cup MailStates] /\ mailing[r].tells \subseteq MailJobs
    BY <1>7, OneMail, MailInHand DEF GiveUpAlert
  <2> QED BY <1>7, <2>1 DEF GiveUpAlert, MailTypeOK
<1>8. ASSUME NEW r \in Requests, TryAgain(r) \/ Report(r) PROVE mailJob' \in
        [MailJobs -> [state : {"waiting", "active", "over", "failed"},
                      made : 0..Tries, stalled : BOOLEAN]]
  <2>1. mailing[r].of \in MailJobs /\ mailing[r] # MailIdle /\ mailJob[mailing[r].of].state = "active"
    BY <1>8, JobOf DEF TryAgain, Report, HandsFit, Carries
  <2>2. mailJob[mailing[r].of].made < Tries /\ mailJob[mailing[r].of].made \in Nat
    BY <2>1 DEF HandsFit, MailTypeOK
  <2>3. mailJob[mailing[r].of].made + 1 \in 0..Tries
    BY <2>2, MailsAssumption
  <2>4. Ended("failed") \in [state : {"waiting", "active", "over", "failed"},
                            made : 0..Tries, stalled : BOOLEAN]
    BY MailsAssumption DEF Ended
  <2> QED BY <1>8, <2>1, <2>3, <2>4 DEF TryAgain, Report, MailTypeOK
<1>9. ASSUME NEW r \in Requests, TryAgain(r) PROVE MailTypeOK'
  <2>1. mailing' \in [Requests -> {MailIdle} \cup MailStates]
    BY <1>9, OneMail DEF TryAgain
  <2> QED BY <1>8, <1>9, <2>1 DEF TryAgain, MailTypeOK
<1>10. ASSUME NEW r \in Requests, Report(r) PROVE MailTypeOK'
  <2>1. mailing[r].of \in MailJobs
    BY <1>10, JobOf DEF Report
  <2>2. Inquired(NewMail(Alert, "mail", suppressed \cup {mailing[r].of})) \in MailStates
    BY <2>1, AlertAsks
  <2>3. mailing' \in [Requests -> {MailIdle} \cup MailStates]
    BY <1>10, <2>2, OneMail DEF Report
  <2>4. lastSent' \in {NotYet} \cup Moments /\ suppressed' \subseteq MailJobs
    BY <1>0, <1>10, <2>1 DEF Report, MailTypeOK
  <2> QED BY <1>8, <1>10, <2>3, <2>4 DEF Report, MailTypeOK
<1>11. ASSUME MailerDies PROVE MailTypeOK'
  <2>1. UNION {mailing[r].tells : r \in {q \in Requests : mailing[q] # MailIdle}} \subseteq MailJobs
    BY DEF MailTypeOK, MailStates
  <2>2. Ended("over") \in [state : {"waiting", "active", "over", "failed"},
                             made : 0..Tries, stalled : BOOLEAN]
    BY MailsAssumption DEF Ended
  <2> QED BY <1>11, <2>1, <2>2 DEF MailerDies, MailTypeOK
<1>12. ASSUME MomentPasses PROVE MailTypeOK'
  BY <1>12, MailsAssumption DEF MomentPasses, MailTypeOK, Moments
<1> QED BY <1>1, <1>3, <1>4, <1>5, <1>6, <1>7, <1>9, <1>10, <1>11, <1>12 DEF MailNext, Looks

\* The settings a mail goes by.
LEMMA SpecsStay ==
  ASSUME MailInv, MailTypeOK', [MailNext]_mailVars
  PROVE  SpecsFit'
<1> USE DEF MailInv
<1>0. moment \in Nat /\ CacheTime \in Nat
  BY MailsAssumption DEF MailTypeOK, Moments
<1>1. \A r \in Requests : mailing[r] # MailIdle => mailing[r].readAt \in Nat /\ mailing[r].start \in Nat
  BY DEF MailTypeOK, MailStates, Moments
<1>2. transport # NoSpec => transport.readAt \in Nat /\ transport.at \in Nat
  BY DEF MailTypeOK, Moments
\* One mail moves, and the cache stays right
<1>3. ASSUME NEW r \in Requests, moment' = moment,
             transport' = transport \/ (transport'.readAt >= transport'.at /\ transport'.at <= moment),
             \A q \in Requests \ {r} : mailing'[q] = mailing[q],
             mailing'[r] # MailIdle => mailing'[r].start <= moment /\ SpecFits(r)'
      PROVE  SpecsFit'
  BY <1>3 DEF SpecsFit, SpecFits
\* A question at this moment
<1>4. ASSUME NEW c \in MailStates, c.at = "ask", c.start <= moment
      PROVE  /\ Inquired(c).start <= moment /\ Inquired(c).at # "keep"
             /\ Inquired(c).at = "post" => Inquired(c).readAt >= Inquired(c).start - CacheTime
  <2>1. CASE StillYoung /\ c.for = "address"
    <3>1. Inquired(c) = [c EXCEPT !.at = "ask", !.for = "mail", !.start = 0, !.readAt = 0]
      BY <2>1 DEF Inquired, Resolved
    <3> QED BY <1>0, <1>4, <3>1 DEF MailStates
  <2>2. CASE StillYoung /\ c.for # "address"
    <3>1. Inquired(c) = [c EXCEPT !.at = "post", !.start = moment, !.readAt = transport.readAt]
      BY <2>2 DEF Inquired, Resolved
    <3>2. transport.readAt >= moment - CacheTime
      BY <1>0, <1>2, <2>2 DEF StillYoung, SpecsFit
    <3> QED BY <1>0, <1>4, <3>1, <3>2 DEF MailStates
  <2>3. CASE ~StillYoung
    <3>1. Inquired(c) = [c EXCEPT !.at = "look", !.start = moment]
      BY <2>3 DEF Inquired
    <3> QED BY <1>0, <1>4, <3>1 DEF MailStates
  <2> QED BY <2>1, <2>2, <2>3
<1>5. ASSUME NEW r \in Requests, NEW c \in MailStates, c.at = "ask", c.start <= moment,
             mailing'[r] = Inquired(c)
      PROVE  mailing'[r].start <= moment /\ SpecFits(r)'
  BY <1>4, <1>5 DEF SpecFits
<1>6. CASE UNCHANGED <<mailing, transport>> /\ moment' \in Nat /\ moment' >= moment
  BY <1>0, <1>1, <1>2, <1>6 DEF SpecsFit, SpecFits
<1>7. ASSUME NEW r \in Requests, NEW j \in MailJobs, TakeJob(r, j) PROVE SpecsFit'
  <2> DEFINE c == NewMail(j, "address", {})
  <2>1. c \in MailStates /\ Inquired(c) \in MailStates
    BY NewMailAsks
  <2>2. c.at = "ask" /\ c.start <= moment
    BY <1>0 DEF NewMail
  <2>3. MailGoes(r, Inquired(c)) /\ UNCHANGED <<moment, transport>>
    BY <1>7 DEF TakeJob
  <2> HIDE DEF c
  <2>4. mailing'[r] = Inquired(c) /\ \A q \in Requests \ {r} : mailing'[q] = mailing[q]
    BY <2>1, <2>3, OneMail
  <2>5. mailing'[r].start <= moment /\ SpecFits(r)'
    BY <1>5, <2>1, <2>2, <2>4
  <2> QED BY <1>3, <2>3, <2>4, <2>5
<1>8. ASSUME NEW r \in Requests, AcceptMail(r) \/ GiveUpAlert(r) \/ TryAgain(r) PROVE SpecsFit'
  BY <1>3, <1>8, OneMail DEF AcceptMail, GiveUpAlert, TryAgain
<1>9. ASSUME NEW r \in Requests, Report(r) PROVE SpecsFit'
  <2> DEFINE c == NewMail(Alert, "mail", suppressed \cup {mailing[r].of})
  <2>1. c \in MailStates /\ Inquired(c) \in MailStates
    BY <1>9, JobOf, AlertAsks DEF Report
  <2>2. c.at = "ask" /\ c.start <= moment
    BY <1>0 DEF NewMail
  <2>3. UNCHANGED <<moment, transport>>
    BY <1>9 DEF Report
  <2>4. MailGoes(r, MailIdle) \/ MailGoes(r, Inquired(c))
    BY <1>9 DEF Report
  <2> HIDE DEF c
  <2>5. /\ \A q \in Requests \ {r} : mailing'[q] = mailing[q]
        /\ mailing'[r] = MailIdle \/ mailing'[r] = Inquired(c)
    BY <2>1, <2>4, OneMail
  <2>6. mailing'[r] # MailIdle => mailing'[r].start <= moment /\ SpecFits(r)'
    BY <1>5, <2>1, <2>2, <2>5
  <2> QED BY <1>3, <2>3, <2>5, <2>6
<1>10. ASSUME MailerDies PROVE SpecsFit'
  BY <1>10 DEF MailerDies, SpecsFit
<1>11. ASSUME NEW r \in Requests, Looks(r)
       PROVE  /\ mailing[r] # MailIdle /\ mailing[r] \in MailStates
              /\ mailing[r].start <= moment /\ SpecFits(r)
              /\ mailing[r].start \in Nat /\ mailing[r].readAt \in Nat
              /\ \A q \in Requests \ {r} : mailing'[q] = mailing[q]
  BY <1>1, <1>11, LooksOnward DEF SpecsFit
<1>12. ASSUME NEW r \in Requests, AskSettings(r) PROVE SpecsFit'
  <2>1. mailing[r] \in MailStates /\ mailing[r].at = "ask" /\ mailing[r].start <= moment
    BY <1>11, <1>12 DEF Looks, AskSettings
  <2>2. mailing'[r] = Inquired(mailing[r]) /\ UNCHANGED <<moment, transport>>
    BY <1>12 DEF AskSettings, MailGoes, MailTypeOK
  <2>3. mailing'[r].start <= moment /\ SpecFits(r)'
    BY <1>5, <2>1, <2>2
  <2> QED BY <1>3, <1>11, <1>12, <2>2, <2>3 DEF Looks
<1>13. ASSUME NEW r \in Requests, ReadSettings(r) PROVE SpecsFit'
  <2>1. mailing'[r] = [mailing[r] EXCEPT !.at = "keep", !.readAt = moment] /\ UNCHANGED <<moment, transport>>
    BY <1>13 DEF ReadSettings, MailGoes, MailTypeOK
  <2>2. mailing'[r].start <= moment /\ SpecFits(r)'
    BY <1>0, <1>11, <1>13, <2>1 DEF Looks, MailStates, SpecFits
  <2> QED BY <1>3, <1>11, <1>13, <2>1, <2>2 DEF Looks
<1>14. ASSUME NEW r \in Requests, Keep(r) PROVE SpecsFit'
  <2>1. mailing[r].readAt >= mailing[r].start
    BY <1>11, <1>14 DEF Looks, Keep, SpecFits
  <2>2. mailing'[r] = Resolved(mailing[r], mailing[r].readAt, mailing[r].start) /\ UNCHANGED moment
    BY <1>14 DEF Keep, MailGoes, MailTypeOK
  <2>3. mailing'[r].start <= moment /\ SpecFits(r)'
    <3>1. CASE mailing[r].for = "address"
      <4>1. mailing'[r] = [mailing[r] EXCEPT !.at = "ask", !.for = "mail", !.start = 0, !.readAt = 0]
        BY <2>2, <3>1 DEF Resolved
      <4> QED BY <1>0, <1>11, <1>14, <4>1 DEF Looks, MailStates, SpecFits
    <3>2. CASE mailing[r].for # "address"
      <4>1. mailing'[r] = [mailing[r] EXCEPT !.at = "post", !.start = mailing[r].start, !.readAt = mailing[r].readAt]
        BY <2>2, <3>2 DEF Resolved
      <4> QED BY <1>0, <1>11, <1>14, <2>1, <4>1 DEF Looks, MailStates, SpecFits
    <3> QED BY <3>1, <3>2
  <2>4. transport'.readAt = mailing[r].readAt /\ transport'.at = mailing[r].start
    BY <1>14 DEF Keep
  <2> QED BY <1>3, <1>11, <1>14, <2>1, <2>2, <2>3, <2>4 DEF Looks
<1>15. CASE UNCHANGED mailVars
  BY <1>0, <1>6, <1>15 DEF mailVars
<1>16. ASSUME NEW j \in MailJobs, EnqueueMail(j) PROVE SpecsFit'
  BY <1>0, <1>6, <1>16 DEF EnqueueMail
<1>17. ASSUME MomentPasses PROVE SpecsFit'
  BY <1>0, <1>6, <1>17 DEF MomentPasses
<1> QED BY <1>7, <1>8, <1>9, <1>10, <1>12, <1>13, <1>14, <1>15, <1>16, <1>17 DEF MailNext

\* Who sends a job.
LEMMA HandsStay ==
  ASSUME MailInv, MailTypeOK', [MailNext]_mailVars
  PROVE  HandsFit'
<1> USE DEF MailInv
<1>0. Tries \in Nat \ {0} /\ Alert \notin MailJobs /\ \A j \in MailJobs : mailJob[j].made \in Nat
  BY MailsAssumption DEF Alert, MailTypeOK
<1>1. ASSUME UNCHANGED mailJob,
             \A q \in Requests : mailing'[q] = mailing[q]
               \/ /\ mailing[q] # MailIdle /\ mailing'[q] # MailIdle
                  /\ mailing'[q].of = mailing[q].of /\ mailing'[q].tells = mailing[q].tells
      PROVE  HandsFit'
  <2>1. \A q \in Requests, j \in MailJobs :
          Carries(q, j)' <=> Carries(q, j)
    BY <1>1 DEF Carries
  <2>2. \A q \in Requests, j \in MailJobs : Carries(q, j)' => mailing'[q].tells = mailing[q].tells
    BY <1>1, <2>1
  <2> QED BY <1>1, <2>1, <2>2 DEF HandsFit
<1>2. CASE UNCHANGED <<mailJob, mailing>>
  BY <1>1, <1>2
<1>3. ASSUME NEW r \in Requests, Looks(r) PROVE HandsFit'
  <2>1. UNCHANGED mailJob
    BY <1>3 DEF Looks, AskSettings, ReadSettings, Keep
  <2> QED BY <1>1, <1>3, <2>1, LooksOnward
<1>4. ASSUME NEW j \in MailJobs, EnqueueMail(j) PROVE HandsFit'
  <2>1. /\ mailJob'[j].state = "waiting" /\ mailJob'[j].made = mailJob[j].made
        /\ \A k \in MailJobs : k # j => mailJob'[k] = mailJob[k]
        /\ UNCHANGED mailing
    BY <1>4 DEF EnqueueMail, MailTypeOK
  <2>2. mailJob[j].state \in {"over", "failed"} /\ mailJob[j].made = 0
    BY <1>4 DEF EnqueueMail, Vacant, AlertsFit, HandsFit
  <2> QED BY <1>0, <2>1, <2>2 DEF HandsFit, Carries
<1>5. ASSUME NEW r \in Requests, NEW j \in MailJobs, TakeJob(r, j) PROVE HandsFit'
  <2> DEFINE c == Inquired(NewMail(j, "address", {}))
  <2>1. c \in MailStates /\ c.of = j /\ c.tells = {} /\ c # MailIdle
    BY NewMailAsks
  <2> HIDE DEF c
  <2>2. mailing'[r] = c /\ \A q \in Requests \ {r} : mailing'[q] = mailing[q]
    BY <1>5, <2>1, OneMail DEF TakeJob, c
  <2>3. /\ mailJob'[j].state = "active" /\ mailJob'[j].made = mailJob[j].made /\ mailJob[j].state = "waiting"
        /\ \A k \in MailJobs : k # j => mailJob'[k] = mailJob[k]
    BY <1>5 DEF TakeJob, MailTypeOK
  <2>4. mailing[r] = MailIdle
    BY <1>5 DEF TakeJob
  <2>5. \A q \in Requests, k \in MailJobs : Carries(q, k)' <=> IF q = r THEN k = j ELSE Carries(q, k)
    BY <2>1, <2>2 DEF Carries
  <2>6. \A q \in Requests : ~Carries(q, j) /\ ~Carries(r, j)
    BY <2>3 DEF HandsFit
  <2> QED BY <2>1, <2>2, <2>3, <2>4, <2>5, <2>6 DEF HandsFit, Carries
<1>6. ASSUME NEW r \in Requests, mailing[r] # MailIdle,
             mailing'[r] = MailIdle \/ mailing'[r].of = Alert,
             \A q \in Requests \ {r} : mailing'[q] = mailing[q],
             \A k \in MailJobs : k # mailing[r].of => mailJob'[k] = mailJob[k],
             mailing[r].of \in MailJobs =>
               /\ mailJob'[mailing[r].of].state # "active"
               /\ mailJob'[mailing[r].of].state = "waiting" => mailJob'[mailing[r].of].made < Tries
               /\ mailJob'[mailing[r].of].state # "waiting" => mailJob'[mailing[r].of].made = 0
      PROVE  HandsFit'
  <2>1. \A q \in Requests, k \in MailJobs : Carries(q, k)' <=> q # r /\ Carries(q, k)
    BY <1>0, <1>6 DEF Carries
  <2>2. \A q \in Requests \ {r}, k \in MailJobs : Carries(q, k) => k # mailing[r].of
    BY <1>6 DEF HandsFit, Carries
  <2>3. ASSUME NEW q \in Requests, NEW k \in MailJobs, Carries(q, k)'
        PROVE  /\ mailJob'[k].state = "active" /\ mailing'[q].tells = {}
               /\ \A p \in Requests \ {q} : ~Carries(p, k)'
    BY <1>6, <2>1, <2>2, <2>3 DEF HandsFit
  <2>4. ASSUME NEW k \in MailJobs, mailJob'[k].state = "active"
        PROVE  \E q \in Requests : Carries(q, k)'
    <3>1. k # mailing[r].of /\ mailJob'[k] = mailJob[k]
      BY <1>6, <2>4
    <3>2. PICK q \in Requests : Carries(q, k)
      BY <2>4, <3>1 DEF HandsFit
    <3> QED BY <2>1, <3>1, <3>2 DEF Carries
  <2>5. ASSUME NEW k \in MailJobs, mailJob'[k].state \in {"waiting", "active"}
        PROVE  mailJob'[k].made < Tries
    BY <1>6, <2>5 DEF HandsFit
  <2>6. ASSUME NEW k \in MailJobs, mailJob'[k].state \in {"over", "failed"}
        PROVE  mailJob'[k].made = 0
    BY <1>6, <2>6 DEF HandsFit
  <2> QED BY <2>3, <2>4, <2>5, <2>6 DEF HandsFit
<1>7. ASSUME NEW r \in Requests, AcceptMail(r) PROVE HandsFit'
  <2>1. mailing[r] # MailIdle /\ mailing[r].of \in MailJobs \cup {Alert}
    BY <1>7, MailInHand DEF AcceptMail
  <2>2. mailing'[r] = MailIdle /\ \A q \in Requests \ {r} : mailing'[q] = mailing[q]
    BY <1>7, OneMail DEF AcceptMail
  <2>3. CASE mailing[r].of = Alert
    BY <1>0, <1>6, <1>7, <2>1, <2>2, <2>3 DEF AcceptMail
  <2>4. CASE mailing[r].of \in MailJobs
    <3>1. mailJob' = [mailJob EXCEPT ![mailing[r].of] = Ended("over")]
      BY <1>0, <1>7, <2>4 DEF AcceptMail
    <3>2. /\ mailJob'[mailing[r].of].state = "over" /\ mailJob'[mailing[r].of].made = 0
          /\ \A k \in MailJobs : k # mailing[r].of => mailJob'[k] = mailJob[k]
      BY <2>4, <3>1 DEF MailTypeOK, Ended
    <3> QED BY <1>6, <2>1, <2>2, <3>2
  <2> QED BY <2>1, <2>3, <2>4
<1>8. ASSUME NEW r \in Requests, GiveUpAlert(r) PROVE HandsFit'
  <2>1. mailing[r] # MailIdle
    BY <1>8, MailInHand DEF GiveUpAlert
  <2> QED BY <1>0, <1>6, <1>8, <2>1, OneMail DEF GiveUpAlert
<1>9. ASSUME NEW r \in Requests, TryAgain(r) \/ Report(r)
      PROVE  /\ mailing[r] # MailIdle /\ mailing[r].of \in MailJobs
             /\ \A k \in MailJobs : k # mailing[r].of => mailJob'[k] = mailJob[k]
             /\ mailJob'[mailing[r].of].state = IF TryAgain(r) THEN "waiting" ELSE "failed"
             /\ mailJob'[mailing[r].of].made = IF TryAgain(r) THEN mailJob[mailing[r].of].made + 1 ELSE 0
  <2>1. mailing[r] # MailIdle /\ mailing[r].of \in MailJobs
    BY <1>9, JobOf DEF TryAgain, Report
  <2>2. mailJob[mailing[r].of].made + 1 < Tries => TryAgain(r)
    BY <1>0, <1>9, <2>1 DEF TryAgain, Report
  <2>3. CASE TryAgain(r)
    BY <2>1, <2>3 DEF TryAgain, MailTypeOK
  <2>4. CASE ~TryAgain(r)
    <3>1. mailJob' = [mailJob EXCEPT ![mailing[r].of] = Ended("failed")]
      BY <1>9, <2>4 DEF Report
    <3> QED BY <2>1, <2>4, <3>1 DEF Ended, MailTypeOK
  <2> QED BY <2>3, <2>4
<1>10. ASSUME NEW r \in Requests, TryAgain(r) PROVE HandsFit'
  <2>1. mailing'[r] = MailIdle /\ \A q \in Requests \ {r} : mailing'[q] = mailing[q]
    BY <1>10, OneMail DEF TryAgain
  <2>2. mailJob[mailing[r].of].made + 1 < Tries
    BY <1>10 DEF TryAgain
  <2> QED BY <1>6, <1>9, <1>10, <2>1, <2>2
<1>11. ASSUME NEW r \in Requests, Report(r) PROVE HandsFit'
  <2> DEFINE c == Inquired(NewMail(Alert, "mail", suppressed \cup {mailing[r].of}))
  <2>1. c \in MailStates /\ c.of = Alert
    BY <1>9, <1>11, AlertAsks
  <2>2. MailGoes(r, MailIdle) \/ MailGoes(r, c)
    BY <1>11 DEF Report
  <2> HIDE DEF c
  <2>3. /\ \A q \in Requests \ {r} : mailing'[q] = mailing[q]
        /\ mailing'[r] = MailIdle \/ mailing'[r] = c
    BY <2>1, <2>2, OneMail
  <2>4. ~TryAgain(r)
    <3>1. mailJob[mailing[r].of].made \in Nat /\ Tries \in Nat
      BY <1>0, <1>9, <1>11
    <3>2. mailJob[mailing[r].of].made + 1 >= Tries
      BY <1>11 DEF Report
    <3> QED BY <3>1, <3>2 DEF TryAgain
  <2> QED BY <1>6, <1>9, <1>11, <2>1, <2>3, <2>4
<1>12. ASSUME MailerDies PROVE HandsFit'
  <2>1. \A q \in Requests : mailing'[q] = MailIdle
    BY <1>12 DEF MailerDies
  <2>2. \A k \in MailJobs :
          \/ mailJob[k].state # "active" /\ mailJob'[k] = mailJob[k]
          \/ /\ mailJob[k].state = "active"
             /\ \/ mailJob'[k].state = "waiting" /\ mailJob'[k].made = mailJob[k].made
                \/ mailJob'[k].state = "over" /\ mailJob'[k].made = 0
    BY <1>12, DeadHands
  <2> QED BY <1>0, <2>1, <2>2 DEF HandsFit, Carries
<1>13. SUFFICES ASSUME MailNext PROVE HandsFit'
  BY <1>2 DEF mailVars
<1>15. ASSUME MomentPasses PROVE UNCHANGED <<mailJob, mailing>>
  BY <1>15 DEF MomentPasses
<1> QED BY <1>2, <1>3, <1>4, <1>5, <1>7, <1>8, <1>10, <1>11, <1>12, <1>13, <1>15 DEF MailNext, Looks

\* What the alerts tell.
LEMMA AlertsStay ==
  ASSUME MailInv, MailTypeOK', [MailNext]_mailVars
  PROVE  AlertsFit'
<1> USE DEF MailInv
<1>0. Alert \notin MailJobs
  BY MailsAssumption DEF Alert
<1>1. ASSUME UNCHANGED <<suppressed, announced, untold>>,
             \A j \in MailJobs : mailJob'[j].state = "failed" <=> mailJob[j].state = "failed",
             \A q \in Requests, j \in MailJobs : Tells(q, j)' <=> Tells(q, j)
      PROVE  AlertsFit'
  BY <1>1 DEF AlertsFit
<1>2. CASE UNCHANGED <<mailJob, mailing, suppressed, announced, untold>>
  BY <1>1, <1>2 DEF Tells
<1>3. ASSUME NEW r \in Requests, Looks(r) PROVE AlertsFit'
  <2>1. UNCHANGED <<mailJob, suppressed, announced, untold>>
    BY <1>3 DEF Looks, AskSettings, ReadSettings, Keep
  <2>2. \A q \in Requests, j \in MailJobs : Tells(q, j)' <=> Tells(q, j)
    BY <1>3, LooksOnward DEF Tells
  <2> QED BY <1>1, <2>1, <2>2
<1>4. ASSUME NEW j \in MailJobs, EnqueueMail(j) PROVE AlertsFit'
  <2>1. /\ mailJob'[j].state = "waiting"
        /\ \A k \in MailJobs : k # j => mailJob'[k] = mailJob[k]
        /\ announced' = announced \ {j} /\ untold' = untold \ {j} /\ UNCHANGED <<mailing, suppressed>>
    BY <1>4 DEF EnqueueMail, MailTypeOK
  <2>2. /\ j \notin suppressed /\ \A q \in Requests : ~Tells(q, j)
    BY <1>4 DEF EnqueueMail, Vacant, AlertsFit
  <2>3. \A q \in Requests, k \in MailJobs : Tells(q, k)' <=> Tells(q, k)
    BY <2>1 DEF Tells
  <2> QED BY <2>1, <2>2, <2>3 DEF AlertsFit
<1>5. ASSUME NEW r \in Requests, UNCHANGED <<suppressed, announced, untold>>,
             \A j \in MailJobs : ~Tells(r, j) /\ ~Tells(r, j)',
             \A q \in Requests \ {r} : mailing'[q] = mailing[q],
             \A j \in MailJobs : mailJob'[j].state = "failed" <=> mailJob[j].state = "failed"
      PROVE  AlertsFit'
  <2>1. \A q \in Requests, j \in MailJobs : Tells(q, j)' <=> Tells(q, j)
    BY <1>5 DEF Tells
  <2> QED BY <1>1, <1>5, <2>1
<1>6. ASSUME NEW r \in Requests, NEW j \in MailJobs, TakeJob(r, j) PROVE AlertsFit'
  <2> DEFINE c == Inquired(NewMail(j, "address", {}))
  <2>1. c \in MailStates /\ c.tells = {}
    BY NewMailAsks
  <2>2. mailing[r] = MailIdle /\ MailGoes(r, c)
    BY <1>6 DEF TakeJob
  <2> HIDE DEF c
  <2>3. mailing'[r] = c /\ \A q \in Requests \ {r} : mailing'[q] = mailing[q]
    BY <2>1, <2>2, OneMail
  <2>4. /\ mailJob'[j].state = "active" /\ mailJob[j].state = "waiting"
        /\ \A k \in MailJobs : k # j => mailJob'[k] = mailJob[k]
    BY <1>6 DEF TakeJob, MailTypeOK
  <2>5. \A k \in MailJobs : ~Tells(r, k) /\ ~Tells(r, k)'
    BY <2>1, <2>2, <2>3 DEF Tells
  <2>6. UNCHANGED <<suppressed, announced, untold>>
    BY <1>6 DEF TakeJob
  <2> QED BY <1>5, <2>3, <2>4, <2>5, <2>6
\* A mail that ends
<1>7. ASSUME NEW r \in Requests, mailing'[r] = MailIdle,
             \A q \in Requests \ {r} : mailing'[q] = mailing[q]
      PROVE  \A q \in Requests, k \in MailJobs : Tells(q, k)' <=> q # r /\ Tells(q, k)
  BY <1>7 DEF Tells
<1>8. ASSUME NEW r \in Requests, mailing[r].at = "post"
      PROVE  /\ mailing[r] # MailIdle /\ mailing[r].of \in MailJobs \cup {Alert}
             /\ mailing[r].tells \subseteq MailJobs
             /\ mailing[r].of \in MailJobs =>
                  mailing[r].tells = {} /\ mailJob[mailing[r].of].state = "active"
  BY <1>8, MailInHand DEF HandsFit, Carries
<1>9. ASSUME NEW r \in Requests, mailing[r].at = "post", mailing'[r] = MailIdle,
             \A q \in Requests \ {r} : mailing'[q] = mailing[q], UNCHANGED <<mailJob, suppressed>>,
             \/ announced' = announced \cup mailing[r].tells /\ untold' = untold
             \/ untold' = untold \cup mailing[r].tells /\ announced' = announced
      PROVE  AlertsFit'
  <2>1. \A k \in MailJobs : k \in mailing[r].tells <=> Tells(r, k)
    BY <1>8, <1>9 DEF Tells
  <2>2. \A q \in Requests, k \in MailJobs : Tells(q, k)' <=> q # r /\ Tells(q, k)
    BY <1>7, <1>9
  <2>3. SUFFICES ASSUME NEW k \in MailJobs
        PROVE  /\ mailJob'[k].state = "failed" <=>
                    (\E q \in Requests : Tells(q, k)') \/ k \in suppressed' \cup announced' \cup untold'
               /\ \A q \in Requests : Tells(q, k)' =>
                    k \notin suppressed' \cup announced' \cup untold' /\ \A p \in Requests \ {q} : ~Tells(p, k)'
               /\ k \notin suppressed' \cap announced' /\ k \notin suppressed' \cap untold' /\ k \notin announced' \cap untold'
    BY DEF AlertsFit
  <2>4. CASE Tells(r, k)
    <3>1. /\ k \notin suppressed \cup announced \cup untold
          /\ \A q \in Requests \ {r} : ~Tells(q, k)
          /\ mailJob[k].state = "failed"
      BY <2>4 DEF AlertsFit
    <3> QED BY <1>9, <2>1, <2>2, <2>4, <3>1
  <2>5. CASE ~Tells(r, k)
    <3>1. /\ k \in suppressed' <=> k \in suppressed
          /\ k \in announced' <=> k \in announced
          /\ k \in untold' <=> k \in untold
      BY <1>9, <2>1, <2>5
    <3>2. \A q \in Requests : Tells(q, k)' <=> Tells(q, k)
      BY <2>2, <2>5
    <3> QED BY <1>9, <3>1, <3>2 DEF AlertsFit
  <2> QED BY <2>4, <2>5
<1>10. ASSUME NEW r \in Requests, AcceptMail(r) PROVE AlertsFit'
  <2>1. mailing[r].at = "post" /\ mailing'[r] = MailIdle
        /\ \A q \in Requests \ {r} : mailing'[q] = mailing[q]
    BY <1>10, OneMail DEF AcceptMail
  <2>2. CASE mailing[r].of = Alert
    BY <1>9, <1>10, <2>1, <2>2 DEF AcceptMail
  <2>3. CASE mailing[r].of \in MailJobs
    <3>1. mailJob' = [mailJob EXCEPT ![mailing[r].of] = Ended("over")]
          /\ UNCHANGED <<suppressed, announced, untold>>
      BY <1>0, <1>10, <2>3 DEF AcceptMail
    <3>2. \A k \in MailJobs : mailJob'[k].state = "failed" <=> mailJob[k].state = "failed"
      BY <1>8, <2>1, <2>3, <3>1 DEF MailTypeOK, Ended
    <3>3. \A k \in MailJobs : ~Tells(r, k) /\ ~Tells(r, k)'
      BY <1>8, <2>1, <2>3 DEF Tells
    <3> QED BY <1>5, <2>1, <3>1, <3>2, <3>3
  <2> QED BY <1>8, <2>1, <2>2, <2>3
<1>11. ASSUME NEW r \in Requests, GiveUpAlert(r) PROVE AlertsFit'
  <2>1. mailing[r].at = "post" /\ mailing'[r] = MailIdle
        /\ \A q \in Requests \ {r} : mailing'[q] = mailing[q]
    BY <1>11, OneMail DEF GiveUpAlert
  <2> QED BY <1>9, <1>11, <2>1 DEF GiveUpAlert
\* A job that fails
<1>12. ASSUME NEW r \in Requests, TryAgain(r) \/ Report(r)
       PROVE  /\ mailing[r] # MailIdle /\ mailing[r].of \in MailJobs /\ mailing[r].tells = {}
              /\ mailJob[mailing[r].of].state = "active"
              /\ \A k \in MailJobs : k # mailing[r].of => mailJob'[k] = mailJob[k]
              /\ mailJob'[mailing[r].of].state = IF TryAgain(r) THEN "waiting" ELSE "failed"
  <2>1. mailing[r] # MailIdle /\ mailing[r].of \in MailJobs
    BY <1>12, JobOf DEF TryAgain, Report
  <2>2. mailing[r].tells = {} /\ mailJob[mailing[r].of].state = "active"
    BY <2>1 DEF HandsFit, Carries
  <2>3. CASE TryAgain(r)
    BY <2>1, <2>2, <2>3 DEF TryAgain, MailTypeOK
  <2>4. CASE ~TryAgain(r)
    <3>1. mailJob' = [mailJob EXCEPT ![mailing[r].of] = Ended("failed")]
      BY <1>12, <2>4 DEF Report
    <3> QED BY <2>1, <2>2, <2>4, <3>1 DEF Ended, MailTypeOK
  <2> QED BY <2>3, <2>4
<1>13. ASSUME NEW r \in Requests, TryAgain(r) PROVE AlertsFit'
  <2>1. mailing'[r] = MailIdle /\ \A q \in Requests \ {r} : mailing'[q] = mailing[q]
    BY <1>13, OneMail DEF TryAgain
  <2>2. mailJob'[mailing[r].of].state = "waiting"
    BY <1>12, <1>13 DEF TryAgain
  <2>3. \A k \in MailJobs : ~Tells(r, k) /\ ~Tells(r, k)'
    BY <1>12, <1>13, <2>1 DEF Tells
  <2>4. UNCHANGED <<suppressed, announced, untold>>
    BY <1>13 DEF TryAgain
  <2> QED BY <1>5, <1>12, <1>13, <2>1, <2>2, <2>3, <2>4
<1>14. ASSUME NEW r \in Requests, Report(r) PROVE AlertsFit'
  <2> DEFINE j == mailing[r].of
             c == Inquired(NewMail(Alert, "mail", suppressed \cup {j}))
  <2>1. /\ j \in MailJobs /\ mailJob[j].state = "active" /\ mailJob'[j].state = "failed"
        /\ \A k \in MailJobs : k # j => mailJob'[k] = mailJob[k]
        /\ \A k \in MailJobs : ~Tells(r, k)
    <3>1. ~TryAgain(r)
      <4>1. mailJob[mailing[r].of].made \in Nat /\ Tries \in Nat
        BY <1>12, <1>14, MailsAssumption DEF MailTypeOK
      <4>2. mailJob[mailing[r].of].made + 1 >= Tries
        BY <1>14 DEF Report
      <4> QED BY <4>1, <4>2 DEF TryAgain
    <3> QED BY <1>12, <1>14, <3>1 DEF Tells
  <2>2. j \notin suppressed \cup announced \cup untold /\ \A q \in Requests : ~Tells(q, j)
    BY <2>1 DEF AlertsFit
  <2>3. UNCHANGED <<announced, untold>>
    BY <1>14 DEF Report
  <2>4. CASE suppressed' = suppressed \cup {j} /\ MailGoes(r, MailIdle)
    <3>1. mailing'[r] = MailIdle /\ \A q \in Requests \ {r} : mailing'[q] = mailing[q]
      BY <2>4, OneMail
    <3>2. \A q \in Requests, k \in MailJobs : Tells(q, k)' <=> Tells(q, k)
      BY <2>1, <3>1 DEF Tells
    <3> HIDE DEF j
    <3> QED BY <2>1, <2>2, <2>3, <2>4, <3>2 DEF AlertsFit
  <2>5. CASE suppressed' = {} /\ MailGoes(r, c)
    <3>1. c \in MailStates /\ c.tells = suppressed \cup {j} /\ c # MailIdle
      BY <2>1, AlertAsks
    <3> HIDE DEF c
    <3>2. mailing'[r] = c /\ \A q \in Requests \ {r} : mailing'[q] = mailing[q]
      BY <2>5, <3>1, OneMail
    <3>3. \A q \in Requests, k \in MailJobs :
            Tells(q, k)' <=> IF q = r THEN k \in suppressed \cup {j} ELSE Tells(q, k)
      BY <3>1, <3>2 DEF Tells
    <3> HIDE DEF j
    <3> QED BY <2>1, <2>2, <2>3, <2>5, <3>3 DEF AlertsFit
  <2> QED BY <1>14, <2>4, <2>5 DEF Report
<1>15. ASSUME MailerDies PROVE AlertsFit'
  <2>1. \A q \in Requests, k \in MailJobs : ~Tells(q, k)'
    BY <1>15 DEF MailerDies, Tells
  <2>2. suppressed' = {} /\ announced' = announced
    BY <1>15 DEF MailerDies
  <2>3. \A k \in MailJobs : mailJob'[k].state = "failed" <=> mailJob[k].state = "failed"
    BY <1>15, DeadHands
  <2>4. \A k \in MailJobs : k \in untold' <=> k \in untold \cup suppressed \/ \E q \in Requests : Tells(q, k)
    BY <1>15 DEF MailerDies, Tells
  <2> QED BY <2>1, <2>2, <2>3, <2>4 DEF AlertsFit
<1>16. SUFFICES ASSUME MailNext PROVE AlertsFit'
  BY <1>2 DEF mailVars
<1>18. ASSUME MomentPasses PROVE UNCHANGED <<mailJob, mailing, suppressed, announced, untold>>
  BY <1>18 DEF MomentPasses
<1> QED BY <1>2, <1>3, <1>4, <1>6, <1>10, <1>11, <1>13, <1>14, <1>15, <1>16, <1>18 DEF MailNext, Looks

LEMMA MailStep == MailInv /\ [MailNext]_mailVars => MailInv'
<1> SUFFICES ASSUME MailInv, [MailNext]_mailVars PROVE MailInv'
  OBVIOUS
<1>1. MailTypeOK'
  BY MailTypes
<1> QED BY <1>1, SpecsStay, HandsStay, AlertsStay DEF MailInv

LEMMA MailsSoundOnly == MailInv => MailsAreSound
<1> SUFFICES ASSUME MailInv PROVE MailsAreSound
  OBVIOUS
<1> USE DEF MailInv, AtWork
<1>1. SettingsAreRecent
  BY DEF SettingsAreRecent, SpecsFit, SpecFits
<1>3. ASSUME NEW j \in MailJobs
      PROVE  LET tellers == {r \in AtWork : j \in mailing[r].tells}
             IN /\ mailJob[j].state = "failed" <=> tellers # {} \/ j \in suppressed \cup announced \cup untold
                /\ tellers # {} => j \notin suppressed \cup announced \cup untold /\ \E r \in tellers : tellers = {r}
                /\ j \notin suppressed \cap announced /\ j \notin suppressed \cap untold /\ j \notin announced \cap untold
  <2> DEFINE tellers == {r \in AtWork : j \in mailing[r].tells}
  <2>1. \A r \in Requests : r \in tellers <=> Tells(r, j)
    BY DEF Tells
  <2>2. ASSUME NEW r \in tellers PROVE j \notin suppressed \cup announced \cup untold /\ tellers = {r}
    BY <2>1, <2>2 DEF AlertsFit
  <2>3. tellers # {} <=> \E r \in Requests : Tells(r, j)
    BY <2>1
  <2>4. mailJob[j].state = "failed" <=> tellers # {} \/ j \in suppressed \cup announced \cup untold
    BY <2>3 DEF AlertsFit
  <2>5. j \notin suppressed \cap announced /\ j \notin suppressed \cap untold /\ j \notin announced \cap untold
    BY DEF AlertsFit
  <2> HIDE DEF tellers
  <2>6. tellers # {} => j \notin suppressed \cup announced \cup untold /\ \E r \in tellers : tellers = {r}
    BY <2>2
  <2> QED BY <2>4, <2>5, <2>6 DEF tellers
<1> QED BY <1>1, <1>3 DEF MailsAreSound, AlertsAddUp

=============================================================================
