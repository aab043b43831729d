------------------------------ MODULE Custody ------------------------------
(***************************************************************************)
(* One asset of the register while it is lent, moved, edited, disposed of  *)
(* and archived.  Every handler looks the asset up, decides, and writes by *)
(* id: nothing is looked at again when it writes.                          *)
(***************************************************************************)
EXTENDS Handlers, Sequences

CONSTANTS
  Places,       \* sites the asset can stand at
  MaxLoans      \* bound: check-outs ever recorded for the asset

ASSUME LoansAssumption == MaxLoans \in Nat

VARIABLES
  asset,     \* the row of the register
  disposal,  \* the disposals recorded for it
  loans,     \* the check-outs, in order of creation
  cusReq     \* per request: what it has read and will write

cusVars == <<asset, disposal, loans, cusReq>>

-----------------------------------------------------------------------------
\* status is free text to the API; only "disposed" is compared with.
NoSite   == "none"
AssetRow == [status : {"active", "disposed"}, deleted : BOOLEAN, site : Places \cup {NoSite}]
LoanIds  == DOMAIN loans

\* looked is history: how many loans there were when the request found none open.
Loan     == [open : BOOLEAN, looked : 0..MaxLoans]
CusIdle  == [at |-> "idle"]

\* The row a request has updated by id: what was deleted stays deleted.
Edits == [site : Places] \cup [status : {"active", "disposed"}]
CusStates ==
  {CusIdle} \cup [at : {"checkout"}, looked : 0..MaxLoans]
  \cup [at : {"checkin"}, loan : 1..MaxLoans]
  \cup [at : {"update", "transfer"}, data : Edits]
  \cup [at : {"delete", "dispose"}]

CusInit ==
  /\ asset = [status |-> "active", deleted |-> FALSE, site |-> NoSite]
  /\ disposal = 0
  /\ loans = <<>>
  /\ cusReq = [r \in Requests |-> CusIdle]

CusSet(r, state) == cusReq' = [cusReq EXCEPT ![r] = state]

\* A handler's look-ups; a 404 or 409 leaves the request idle.
Look(r, found, state) ==
  /\ cusReq[r] = CusIdle /\ found
  /\ CusSet(r, state)
  /\ UNCHANGED <<asset, disposal, loans>>

Found == ~asset.deleted
Open  == {i \in LoanIds : loans[i].open}

-----------------------------------------------------------------------------
\* Mutant: open loans are not looked for.
ReadCheckoutUnchecked(r) ==
  /\ Len(loans) < MaxLoans
  /\ Look(r, TRUE, [at |-> "checkout", looked |-> Len(loans)])

\* checkoutAsset: the asset may be archived, but no loan of it may be open.
ReadCheckout(r) == /\ Len(loans) < MaxLoans
                   /\ Look(r, Open = {}, [at |-> "checkout", looked |-> Len(loans)])
CreateCheckout(r) ==
  /\ cusReq[r].at = "checkout" /\ Len(loans) < MaxLoans
  /\ loans' = Append(loans, [open |-> TRUE, looked |-> cusReq[r].looked])
  /\ CusSet(r, CusIdle)
  /\ UNCHANGED <<asset, disposal>>

\* checkinAsset: one of the open loans is found, and closed by its id even if
\* another check-in has closed it since.
ReadCheckin(r) == \E i \in Open : Look(r, TRUE, [at |-> "checkin", loan |-> i])
CloseCheckout(r) ==
  /\ cusReq[r].at = "checkin"
  /\ loans' = [loans EXCEPT ![cusReq[r].loan].open = FALSE]
  /\ CusSet(r, CusIdle)
  /\ UNCHANGED <<asset, disposal>>

\* createTransfer: the custodian of the transfer is written down, not applied.
ReadTransfer(r) ==
  \E p \in Places : Look(r, Found, [at |-> "transfer", data |-> [site |-> p]])

\* updateAsset: the status may be written back over "disposed".
ReadUpdate(r) ==
  \E data \in Edits : Look(r, Found, [at |-> "update", data |-> data])

\* The fields of the request over the row as it is by then.
WriteAsset(r) ==
  /\ cusReq[r].at \in {"transfer", "update"}
  /\ asset' = [f \in DOMAIN asset |->
                 IF f \in DOMAIN cusReq[r].data THEN cusReq[r].data[f] ELSE asset[f]]
  /\ CusSet(r, CusIdle)
  /\ UNCHANGED <<disposal, loans>>

\* deleteAsset: a soft delete.
ReadDelete(r) == Look(r, Found, [at |-> "delete"])
WriteDelete(r) ==
  /\ cusReq[r].at = "delete"
  /\ asset' = [asset EXCEPT !.deleted = TRUE]
  /\ CusSet(r, CusIdle)
  /\ UNCHANGED <<disposal, loans>>

\* disposeAsset: the disposal and the status in one transaction, which the
\* unique key of disposals.assetId rolls back the second time.
ReadDispose(r) == Look(r, Found /\ asset.status # "disposed", [at |-> "dispose"])
\* Mutant: no unique key.
WriteDisposeAgain(r) ==
  /\ cusReq[r].at = "dispose"
  /\ disposal' = disposal + 1
  /\ asset' = [asset EXCEPT !.status = "disposed"]
  /\ CusSet(r, CusIdle)
  /\ UNCHANGED loans

WriteDispose(r) ==
  /\ cusReq[r].at = "dispose"
  /\ IF disposal = 0
     THEN /\ disposal' = 1
          /\ asset' = [asset EXCEPT !.status = "disposed"]
     ELSE UNCHANGED <<asset, disposal>>
  /\ CusSet(r, CusIdle)
  /\ UNCHANGED loans

CusNext ==
  \E r \in Requests :
    \/ ReadCheckout(r) \/ CreateCheckout(r)
    \/ ReadCheckin(r)  \/ CloseCheckout(r)
    \/ ReadTransfer(r) \/ ReadUpdate(r) \/ WriteAsset(r)
    \/ ReadDelete(r)   \/ WriteDelete(r)
    \/ ReadDispose(r)  \/ WriteDispose(r)

CusSpec == CusInit /\ [][CusNext]_cusVars

-----------------------------------------------------------------------------
CusTypeOK ==
  /\ asset \in AssetRow
  /\ disposal \in 0..1
  /\ loans \in Seq(Loan) /\ Len(loans) <= MaxLoans
  /\ cusReq \in [Requests -> CusStates]

\* An asset is out to two custodians at once only if the later of the two
\* requests looked before the earlier loan was recorded: a loan that was there
\* to be seen is never doubled, and a returned loan never comes back.
LoansOverlap ==
  \A i, j \in Open : i < j => i > loans[j].looked
=============================================================================
