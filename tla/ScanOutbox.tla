----------------------------- MODULE ScanOutbox -----------------------------
(***************************************************************************)
(* The offline audit-scan queue of the Android app and the API handler it  *)
(* talks to.                                                               *)
(*                                                                         *)
(* Three kinds of actors send the same rows, with nothing that keeps them  *)
(* apart: AuditScanRecorder.record, one coroutine per captured scan, and   *)
(* two WorkManager jobs (the periodic one and the one-shot one are         *)
(* different unique works), both running drainQueue.  Every attempt        *)
(* carries the row's clientRequestId.  The server runs recordScan in two   *)
(* database steps, the look-ups and the insert, so attempts interleave     *)
(* there too.                                                              *)
(*                                                                         *)
(* An attempt the device has given up on may go on at the server: that is  *)
(* an orphan.  Process death, a cancelled worker and a closed screen all   *)
(* stop an actor between any two of its steps and leave the row as it is.  *)
(***************************************************************************)
EXTENDS Naturals, FiniteSets

CONSTANTS
  MaxScans,     \* how many scans are captured (bounds the model)
  Drains,       \* the workers that run drainQueue
  Recorder,     \* stands for AuditScanRecorder, whatever the scan
  BatchSize,    \* rows read by one takeBatch
  Stuck         \* scans whose request always ends in a timeout

ASSUME MaxScansAssumption  == MaxScans \in Nat
ASSUME RecorderAssumption  == Recorder \notin Drains
ASSUME BatchSizeAssumption == BatchSize \in Nat \ {0}

Scan   == 1 .. MaxScans      \* rows by autogenerated id, oldest first
Caller == Drains \cup {Recorder}

ASSUME StuckAssumption == Stuck \subseteq Scan

VARIABLES
  captured,     \* how many scans have been captured
  row,          \* state of the queued_scans row of each scan
  discarded,    \* history: rows the user has discarded
  call,         \* where the attempt of a caller to send a scan has got to
  running,      \* the workers whose doWork is in drainQueue
  batch,        \* rows a drain holds in memory and has not tried yet
  seen,         \* rows a drain has tried in this run
  orphans,      \* attempts the server runs on without a caller
  events,       \* AuditScanEvent rows the server has for each scan
  open,         \* the campaign is in progress and the scan's zone unlocked
  session       \* what the device's tokens are worth

drainVars  == <<running, batch, seen>>
serverVars == <<orphans, events, open>>
vars == <<captured, row, discarded, call, drainVars, serverVars, session>>

Live     == {"pending", "failed"}          \* takeBatch's WHERE
RowState == Live \cup {"absent", "dead"}
AtServer == {"sent", "checked"}            \* the server has work left to do
Phase    == AtServer \cup {"idle", "ready", "stored", "rejected", "unauthorized"}
Session  == {"live", "expired", "none"}

TypeOK ==
  /\ captured \in 0 .. MaxScans
  /\ row \in [Scan -> RowState]
  /\ discarded \in SUBSET Scan
  /\ call \in [Caller -> [Scan -> Phase]]
  /\ running \in [Drains -> BOOLEAN]
  /\ batch \in [Drains -> SUBSET Scan]
  /\ seen \in [Drains -> SUBSET Scan]
  /\ orphans \in SUBSET (Scan \X AtServer)
  /\ events \in [Scan -> Nat]
  /\ open \in BOOLEAN
  /\ session \in Session

Init ==
  /\ captured = 0
  /\ row = [s \in Scan |-> "absent"]
  /\ discarded = {}
  /\ call = [a \in Caller |-> [s \in Scan |-> "idle"]]
  /\ running = [d \in Drains |-> FALSE]
  /\ batch = [d \in Drains |-> {}]
  /\ seen = [d \in Drains |-> {}]
  /\ orphans = {}
  /\ events = [s \in Scan |-> 0]
  /\ open = TRUE
  /\ session = "live"

-----------------------------------------------------------------------------
(* QueuedScanDao.  The updates are by id only, so they overwrite any state  *)
(* and do nothing to a row that is gone.                                    *)

\* Mutant of Mark: an upsert, which brings a removed row back.
MarkUpserts(s, state) == [row EXCEPT ![s] = state]

\* markFailed, markDead
Mark(s, state) ==
  IF row[s] = "absent" THEN row ELSE [row EXCEPT ![s] = state]

\* deleteById
DeleteById(s) == [row EXCEPT ![s] = "absent"]

\* Mutant of TakeBatch: rows that have failed once are not read again.
TakeBatchPendingOnly == {s \in Scan : row[s] = "pending"}

\* takeBatch: the BatchSize oldest rows that are pending or failed
TakeBatch ==
  LET live == {s \in Scan : row[s] \in Live}
  IN  {s \in live : Cardinality({t \in live : t < s}) < BatchSize}

Dead == {s \in Scan : row[s] = "dead"}

\* Mutant of RetryDead: a state no query knows.
RetryDeadUnknown(S) == [s \in Scan |-> IF s \in S \cap Dead THEN "retry" ELSE row[s]]

\* retryDead, retryAllDead
RetryDead(S) == [s \in Scan |-> IF s \in S \cap Dead THEN "pending" ELSE row[s]]

\* Mutant of DiscardDead: without its WHERE state = 'dead'.
DiscardAny(S) == [s \in Scan |-> IF s \in S THEN "absent" ELSE row[s]]

\* discardDead, discardAllDead
DiscardDead(S) == [s \in Scan |-> IF s \in S \cap Dead THEN "absent" ELSE row[s]]

-----------------------------------------------------------------------------
(* The callers.                                                             *)

MoveTo(a, s, phase) == call' = [call EXCEPT ![a][s] = phase]

\* A drain that returns or is killed loses what it holds in memory.  For the
\* recorder nothing changes.
EndRun(a) ==
  /\ running' = [d \in Drains |-> running[d] /\ d # a]
  /\ batch' = [d \in Drains |-> IF d = a THEN {} ELSE batch[d]]
  /\ seen' = [d \in Drains |-> IF d = a THEN {} ELSE seen[d]]

\* The caller stops waiting.  What the server was doing for it may go on.
Abandon(a, s) ==
  /\ MoveTo(a, s, "idle")
  /\ \/ UNCHANGED orphans
     \/ /\ call[a][s] \in AtServer
        /\ orphans' = orphans \cup {<<s, call[a][s]>>}
  /\ UNCHANGED <<events, open>>

\* record: the row is written before the request goes out
CaptureScan ==
  /\ captured < MaxScans
  /\ captured' = captured + 1
  /\ row' = [row EXCEPT ![captured'] = "pending"]
  /\ MoveTo(Recorder, captured', "ready")
  /\ UNCHANGED <<discarded, drainVars, serverVars, session>>

RecorderSend(s) ==
  /\ call[Recorder][s] = "ready"
  /\ MoveTo(Recorder, s, "sent")
  /\ UNCHANGED <<captured, row, discarded, drainVars, serverVars, session>>

\* doWork: a worker starts unless there is no refresh token on the device
DrainStart(d) ==
  /\ ~running[d]
  /\ session # "none"
  /\ running' = [running EXCEPT ![d] = TRUE]
  /\ UNCHANGED <<captured, row, discarded, call, batch, seen, serverVars, session>>

Waiting(d) == \E s \in Scan : call[d][s] # "idle"

\* Mutant of DrainRead: the rows already tried in this run are not left out.
DrainReadAgain(d) ==
  /\ running[d] /\ batch[d] = {} /\ ~Waiting(d)
  /\ \/ /\ TakeBatch # {}
        /\ batch' = [batch EXCEPT ![d] = TakeBatch]
        /\ UNCHANGED <<running, seen>>
     \/ TakeBatch = {} /\ EndRun(d)
  /\ UNCHANGED <<captured, row, discarded, call, serverVars, session>>

\* The top of drainQueue's loop: read a batch, leave out what was tried, and
\* return when nothing is left.
DrainRead(d) ==
  /\ running[d] /\ batch[d] = {} /\ ~Waiting(d)
  /\ LET unseen == TakeBatch \ seen[d]
     IN  \/ /\ unseen # {}
            /\ batch' = [batch EXCEPT ![d] = unseen]
            /\ UNCHANGED <<running, seen>>
         \/ unseen = {} /\ EndRun(d)
  /\ UNCHANGED <<captured, row, discarded, call, serverVars, session>>

\* The next row of the batch is sent as it was read, whatever has become of
\* it in the table since.
DrainSend(d, s) ==
  /\ ~Waiting(d)
  /\ s \in batch[d] /\ \A t \in batch[d] : s <= t
  /\ batch' = [batch EXCEPT ![d] = @ \ {s}]
  /\ seen' = [seen EXCEPT ![d] = @ \cup {s}]
  /\ MoveTo(d, s, "sent")
  /\ UNCHANGED <<captured, row, discarded, running, serverVars, session>>

\* 201 (or DUPLICATE): the server has the scan, the row goes
Accepted(a, s) ==
  /\ call[a][s] = "stored"
  /\ MoveTo(a, s, "idle")
  /\ row' = DeleteById(s)
  /\ UNCHANGED <<captured, discarded, drainVars, serverVars, session>>

\* Mutant of Rejected: a permanent failure drops the row.
RejectedDrops(a, s) ==
  /\ call[a][s] = "rejected"
  /\ MoveTo(a, s, "idle")
  /\ row' = DeleteById(s)
  /\ UNCHANGED <<captured, discarded, drainVars, serverVars, session>>

\* PERMANENT: parked for the user
Rejected(a, s) ==
  /\ call[a][s] = "rejected"
  /\ MoveTo(a, s, "idle")
  /\ row' = Mark(s, "dead")
  /\ UNCHANGED <<captured, discarded, drainVars, serverVars, session>>

\* TRANSIENT: 5xx, 408, 429 or an unreadable answer, before or after the
\* server has done the work.  The drain goes on with the next row.
Unavailable(a, s) ==
  /\ call[a][s] \in AtServer \cup {"stored", "rejected"}
  /\ Abandon(a, s)
  /\ row' = Mark(s, "failed")
  /\ UNCHANGED <<captured, discarded, drainVars, session>>

\* NETWORK: no connection, or no answer in time.  The drain stops.
TimedOut(a, s) ==
  /\ call[a][s] \in AtServer \cup {"stored", "rejected", "unauthorized"}
  /\ Abandon(a, s)
  /\ row' = Mark(s, "failed")
  /\ EndRun(a)
  /\ UNCHANGED <<captured, discarded, session>>

\* AUTH: the authenticator could not renew the session (it clears the tokens
\* if the refresh was refused).  The row stays as it is, the drain stops.
Unauthorized(a, s) ==
  /\ call[a][s] = "unauthorized"
  /\ MoveTo(a, s, "idle")
  /\ session' \in {session, "none"}
  /\ EndRun(a)
  /\ UNCHANGED <<captured, row, discarded, serverVars>>

\* The process dies, WorkManager replaces the one-shot job, or the screen
\* closes: the actor stops where it is.  (A process that dies is every actor
\* stopping, one after the other.)
StopRecorder(s) ==
  /\ call[Recorder][s] # "idle"
  /\ Abandon(Recorder, s)
  /\ UNCHANGED <<captured, row, discarded, drainVars, session>>

StopDrain(d) ==
  /\ running[d]
  /\ \/ \E s \in Scan : call[d][s] # "idle" /\ Abandon(d, s)
     \/ ~Waiting(d) /\ UNCHANGED <<call, serverVars>>
  /\ EndRun(d)
  /\ UNCHANGED <<captured, row, discarded, session>>

-----------------------------------------------------------------------------
(* The user: the rejected rows in the profile screen, and the session.      *)

UserRetry(S) ==
  /\ row' = RetryDead(S)
  /\ UNCHANGED <<captured, discarded, call, drainVars, serverVars, session>>

UserDiscard(S) ==
  /\ row' = DiscardDead(S)
  /\ discarded' = discarded \cup (S \cap Dead)
  /\ UNCHANGED <<captured, call, drainVars, serverVars, session>>

SignIn ==
  /\ session # "live"
  /\ session' = "live"
  /\ UNCHANGED <<captured, row, discarded, call, drainVars, serverVars>>

\* The refresh token expires or is revoked, or another request's refresh was
\* refused and has cleared the tokens already.
LoseSession ==
  /\ session = "live"
  /\ session' \in {"expired", "none"}
  /\ UNCHANGED <<captured, row, discarded, call, drainVars, serverVars>>

-----------------------------------------------------------------------------
(* The server: authenticate, then recordScan.                               *)

\* recordScan's look-ups: a replay resolves before the status guard.
Verdict(s) ==
  IF events[s] > 0 THEN "stored"
  ELSE IF open THEN "checked" ELSE "rejected"

\* Mutant of Inserted: clientRequestId is not unique.
InsertedAgain(s) == [events EXCEPT ![s] = @ + 1]

\* recordScan's create: clientRequestId is unique, and the P2002 of a second
\* insert resolves to the event that is there.
Inserted(s) ==
  IF events[s] = 0 THEN [events EXCEPT ![s] = @ + 1] ELSE events

Authenticate401(a, s) ==
  /\ call[a][s] = "sent"
  /\ session # "live"
  /\ MoveTo(a, s, "unauthorized")
  /\ UNCHANGED <<captured, row, discarded, drainVars, serverVars, session>>

Check(a, s) ==
  /\ call[a][s] = "sent"
  /\ session = "live"
  /\ s \notin Stuck
  /\ MoveTo(a, s, Verdict(s))
  /\ UNCHANGED <<captured, row, discarded, drainVars, serverVars, session>>

Store(a, s) ==
  /\ call[a][s] = "checked"
  /\ MoveTo(a, s, "stored")
  /\ events' = Inserted(s)
  /\ UNCHANGED <<captured, row, discarded, drainVars, orphans, open, session>>

OrphanCheck(s) ==
  /\ <<s, "sent">> \in orphans
  /\ orphans' = (orphans \ {<<s, "sent">>})
                  \cup (IF Verdict(s) = "checked" THEN {<<s, "checked">>} ELSE {})
  /\ UNCHANGED <<captured, row, discarded, call, drainVars, events, open, session>>

OrphanStore(s) ==
  /\ <<s, "checked">> \in orphans
  /\ orphans' = orphans \ {<<s, "checked">>}
  /\ events' = Inserted(s)
  /\ UNCHANGED <<captured, row, discarded, call, drainVars, open, session>>

OrphanLost(o) ==
  /\ orphans' = orphans \ {o}
  /\ UNCHANGED <<captured, row, discarded, call, drainVars, events, open, session>>

\* completeCampaign, or submitZone for the zone of these scans
CloseCampaign ==
  /\ open
  /\ open' = FALSE
  /\ UNCHANGED <<captured, row, discarded, call, drainVars, orphans, events, session>>

-----------------------------------------------------------------------------

\* What the user can select: one row, or all of them.  The row was rejected
\* when the screen was drawn and may have changed since.
Selections == {{s} : s \in Scan} \cup {Scan}

RecorderStep(s) == RecorderSend(s) \/ StopRecorder(s)

DrainStep(d) ==
  \/ DrainStart(d) \/ DrainRead(d) \/ StopDrain(d)
  \/ \E s \in Scan : DrainSend(d, s)

Settle(a, s) ==
  \/ Accepted(a, s) \/ Rejected(a, s) \/ Unavailable(a, s)
  \/ TimedOut(a, s) \/ Unauthorized(a, s)

ServerStep(a, s) == Authenticate401(a, s) \/ Check(a, s) \/ Store(a, s)

Next ==
  \/ CaptureScan
  \/ \E s \in Scan : RecorderStep(s)
  \/ \E d \in Drains : DrainStep(d)
  \/ \E a \in Caller, s \in Scan : Settle(a, s) \/ ServerStep(a, s)
  \/ \E s \in Scan : OrphanCheck(s) \/ OrphanStore(s)
  \/ \E o \in orphans : OrphanLost(o)
  \/ \E S \in Selections : UserRetry(S) \/ UserDiscard(S)
  \/ SignIn \/ LoseSession \/ CloseCampaign

Spec == Init /\ [][Next]_vars

\* WorkManager keeps starting the periodic worker.  A worker that is started
\* again and again is not killed every time before it gets any further, and a
\* row that is sent again and again is not always met by an outage.  OkHttp's
\* time limits end every call.  Nothing is asked of the user, of the recorder
\* or of the session.
Fairness ==
  \A d \in Drains :
    /\ WF_vars(DrainStart(d))
    /\ SF_vars(DrainRead(d))
    /\ \A s \in Scan :
         /\ SF_vars(DrainSend(d, s))
         /\ SF_vars(Check(d, s))
         /\ SF_vars(Store(d, s))
         /\ SF_vars(Accepted(d, s) \/ Rejected(d, s))
         /\ WF_vars(TimedOut(d, s))
         /\ WF_vars(Unauthorized(d, s))

FairSpec == Spec /\ Fairness

-----------------------------------------------------------------------------
(* Properties.                                                              *)

\* The audit counts a scan once, however many of the recorder, the workers
\* and the requests they gave up on reach recordScan with it.
CountedOnce == \A s \in Scan : events[s] <= 1

\* A captured scan is in the queue, or the server has it, or the user threw
\* it away (QueuedScan.kt: failures never delete).
NoScanLost ==
  \A s \in 1 .. captured : row[s] # "absent" \/ events[s] > 0 \/ s \in discarded

\* A row the workers would still send is never removed unless the server has
\* its scan: discarding "can never remove a live row" (QueuedScanDao.kt), and
\* no failure path deletes.
LiveRowRemovedOnlyWhenCounted ==
  [][\A s \in Scan :
       row[s] \in Live /\ row'[s] = "absent" => events[s] > 0]_vars

\* "Each row is tried at most once per run" (QueueDrainer.kt), although a row
\* that failed is read again with the next batch.
TriedOncePerRun ==
  [][\A d \in Drains, s \in Scan :
       call[d][s] # "sent" /\ call'[d][s] = "sent" => s \notin seen[d]]_vars

\* ScanDelivery, with the queue and its workers hidden.
Delivery == INSTANCE ScanDelivery WITH
  captured <- 1 .. captured,
  held     <- {s \in Scan : row[s] # "absent"},
  counted  <- {s \in Scan : events[s] > 0},
  givenUp  <- discarded

DeliverySpec == Delivery!Spec

\* "dead rows are not retried until the user asks" (QueueDrainerTest.kt): a
\* row the server rejected waits for the user, unless the server has its
\* scan after all.
DeadWaitsForUser ==
  [][\A s \in Scan :
       row[s] = "dead" /\ row'[s] \in Live => \E S \in Selections : UserRetry(S)]_vars

\* A row waiting to be sent is settled (counted and removed, or rejected)
\* unless the session is lost: "each row is tried at most once per run so one
\* bad row can't starve the rest" (QueueDrainer.kt).
HealthyRowsSettle ==
  \A s \in Scan \ Stuck :
    row[s] \in Live ~> (row[s] \notin Live \/ session # "live")
=============================================================================
