----------------------------- MODULE TwoFactor ------------------------------
(***************************************************************************)
(* The second factor of one user: set-up, verification, validation with    *)
(* the authenticator or a backup code, and disabling.  It is kept in two   *)
(* rows, the record of the secret and the flag of the user, and every      *)
(* handler reads the record, decides, and writes later.                    *)
(***************************************************************************)
EXTENDS Handlers

CONSTANTS
  TfCodes,     \* backup codes of one set-up
  MaxSetups    \* bound: set-ups

ASSUME SetupsAssumption == MaxSetups \in Nat

VARIABLES
  record,   \* UserTwoFactor: which set-up, its codes, and whether it is verified
  enabled,  \* user.twoFactorEnabled
  setups,   \* set-ups so far
  tfReq,    \* per request: what it has read and will write
  \* history
  spent,    \* backup codes that were accepted
  torn      \* some handler wrote on a record that was not the one it had read, or stopped half-way

tfVars == <<record, enabled, setups, tfReq, spent, torn>>

-----------------------------------------------------------------------------
Code     == [setup : 1..MaxSetups, code : TfCodes]
NoRecord == [setup |-> 0, codes |-> {}, verified |-> FALSE]
Record   == [setup : 1..MaxSetups, codes : SUBSET Code, verified : BOOLEAN]
TfIdle   == [at |-> "idle"]

\* A request that has read the record and goes on at another statement.
Read(q, at, code) == tfReq' = [tfReq EXCEPT ![q] = [at |-> at, read |-> record, code |-> code]]
Done(q) == tfReq' = [tfReq EXCEPT ![q] = TfIdle]
At(q, at) == tfReq[q].at = at
NoCode  == [setup |-> 0]
Stale(q) == torn' = (torn \/ record # tfReq[q].read)

TfInit ==
  /\ record = NoRecord /\ enabled = FALSE /\ setups = 0
  /\ tfReq = [q \in Requests |-> TfIdle]
  /\ spent = {} /\ torn = FALSE

\* generateTwoFactorSetup is refused once the record is verified ...
GenerateSetup(q) ==
  /\ At(q, "idle") /\ ~record.verified
  /\ Read(q, "upsert", NoCode)
  /\ UNCHANGED <<record, enabled, setups, spent, torn>>

\* ... else a new secret with new codes replaces what there is.
UpsertRecord(q) ==
  /\ At(q, "upsert") /\ setups < MaxSetups
  /\ setups' = setups + 1
  /\ record' = [setup |-> setups', codes |-> [setup : {setups'}, code : TfCodes], verified |-> FALSE]
  /\ Stale(q) /\ Done(q)
  /\ UNCHANGED <<enabled, spent>>

\* verifyAndEnableTwoFactor: a right code for the record that was read.
VerifyCode(q) ==
  /\ At(q, "idle") /\ record # NoRecord
  /\ Read(q, "verify", NoCode)
  /\ UNCHANGED <<record, enabled, setups, spent, torn>>

MarkVerified(q) ==
  /\ At(q, "verify")
  /\ IF record = NoRecord THEN Done(q) /\ UNCHANGED <<record, torn>>
     ELSE /\ record' = [record EXCEPT !.verified = TRUE]
          /\ Stale(q)
          /\ tfReq' = [tfReq EXCEPT ![q] = [at |-> "enable", read |-> record', code |-> NoCode]]
  /\ UNCHANGED <<enabled, setups, spent>>

EnableFlag(q) ==
  /\ At(q, "enable")
  /\ enabled' = TRUE
  /\ Stale(q) /\ Done(q)
  /\ UNCHANGED <<record, setups, spent>>

\* validateTwoFactorToken at sign-in, or before disabling a verified record: a
\* code of the authenticator changes nothing; a backup code is found in the
\* record that was read ...
Validate(q, c, then) ==
  /\ At(q, "idle") /\ record.verified /\ c \in record.codes
  /\ Read(q, then, c)
  /\ UNCHANGED <<record, enabled, setups, spent, torn>>

\* ... and the codes that remain of those are written back.
ConsumeCode(q) ==
  LET r == tfReq[q] IN
  /\ r.at \in {"consume", "consume and disable"}
  /\ IF record = NoRecord THEN Done(q) /\ UNCHANGED <<record, spent, torn>>
     ELSE /\ record' = [record EXCEPT !.codes = r.read.codes \ {r.code}]
          /\ spent' = spent \cup {r.code}
          /\ Stale(q)
          /\ tfReq' = [tfReq EXCEPT ![q] = IF r.at = "consume" THEN TfIdle
                         ELSE [at |-> "delete", read |-> record', code |-> NoCode]]
  /\ UNCHANGED <<enabled, setups>>

\* disableTwoFactor, by a code of the authenticator or before verification, and
\* disableUserTwoFactor by an administrator: record, then flag.
Disable(q) ==
  /\ At(q, "idle")
  /\ Read(q, "delete", NoCode)
  /\ UNCHANGED <<record, enabled, setups, spent, torn>>

DeleteRecord(q) ==
  /\ At(q, "delete")
  /\ record' = NoRecord
  /\ Stale(q)
  /\ tfReq' = [tfReq EXCEPT ![q] = [at |-> "clear", read |-> NoRecord, code |-> NoCode]]
  /\ UNCHANGED <<enabled, setups, spent>>

\* Mutant: the flag of the user is forgotten.
ClearNothing(q) ==
  /\ At(q, "clear")
  /\ Stale(q) /\ Done(q)
  /\ UNCHANGED <<record, enabled, setups, spent>>

ClearFlag(q) ==
  /\ At(q, "clear")
  /\ enabled' = FALSE
  /\ Stale(q) /\ Done(q)
  /\ UNCHANGED <<record, setups, spent>>

\* A request that stops between its two rows.
StopHalfway(q) ==
  /\ tfReq[q].at \in {"enable", "clear"}
  /\ torn' = TRUE /\ Done(q)
  /\ UNCHANGED <<record, enabled, setups, spent>>

TfNext ==
  \E q \in Requests :
    \/ GenerateSetup(q) \/ UpsertRecord(q) \/ VerifyCode(q) \/ MarkVerified(q) \/ EnableFlag(q)
    \/ \E c \in Code, then \in {"consume", "consume and disable"} : Validate(q, c, then)
    \/ ConsumeCode(q) \/ Disable(q) \/ DeleteRecord(q) \/ ClearFlag(q) \/ StopHalfway(q)

TfSpec == TfInit /\ [][TfNext]_tfVars

-----------------------------------------------------------------------------
\* Both rows, the requests and the history have their types.
TfTypeOK ==
  /\ record \in Record \cup {NoRecord}
  /\ enabled \in BOOLEAN /\ torn \in BOOLEAN
  /\ setups \in 0..MaxSetups
  /\ \A q \in Requests : tfReq[q] = TfIdle \/ tfReq[q].read \in Record \cup {NoRecord}
  /\ spent \subseteq Code

\* Unless a handler wrote over a record that had changed since it read it, or
\* stopped half-way, flag and record agree whenever nothing is in flight (nobody
\* is asked for a factor that cannot be checked), and no accepted backup code is
\* left in the record, through any number of set-ups.
SecondFactorIsWhole ==
  ~torn => /\ record.codes \cap spent = {}
           /\ (\A q \in Requests : tfReq[q] = TfIdle) => (enabled <=> record.verified)
=============================================================================
