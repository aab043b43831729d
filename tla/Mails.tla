------------------------------- MODULE Mails -------------------------------
(***************************************************************************)
(* The worker's e-mails.  A job that sends one asks for the sender's       *)
(* address and then for the transport; each time the settings of the       *)
(* database are looked up, unless they are in a cache that is young        *)
(* enough.  A job that has used all its attempts is reported by an e-mail, *)
(* at most one of them in a window; the others are counted and told with   *)
(* the next.  The jobs are those of one queue.  The worker may die at any  *)
(* moment, and the queue hands the jobs it held out again.  What the       *)
(* settings say is told apart by when they were read: nothing else is      *)
(* asked of them.  A mail that was sent although its job failed, and       *)
(* texts, are left out.                                                    *)
(***************************************************************************)
EXTENDS Handlers

CONSTANTS
  MailJobs,    \* bound: jobs of a queue
  Tries,       \* attempts of a job
  CacheTime,   \* CACHE_MS
  AlertWindow, \* ALERT_WINDOW_MS
  MaxMoment    \* bound: the clock stops here

ASSUME MailsAssumption ==
  /\ Tries \in Nat \ {0} /\ CacheTime \in Nat /\ AlertWindow \in Nat /\ MaxMoment \in Nat
  /\ "alert" \notin MailJobs

VARIABLES
  moment,      \* the clock
  mailJob,     \* the jobs in the queue
  transport,   \* the cache of the worker
  mailing,     \* the e-mails under way
  lastSent,    \* when the alerter last let one through
  suppressed,  \* the jobs it has counted since; it keeps their number
  \* history
  announced, untold  \* jobs an alert that was accepted told of, and those nothing will tell of

mailVars == <<moment, mailJob, transport, mailing, lastSent, suppressed, announced, untold>>

-----------------------------------------------------------------------------
Alert   == "alert"
NotYet  == -1 - CacheTime
NoSpec  == [at |-> NotYet]
Moments == 0..MaxMoment

\* What a job has left in the queue when it is over.
Ended(state) == [state |-> state, made |-> 0, stalled |-> FALSE]

MailIdle == [at |-> "idle"]
MailStates ==
  [at : {"ask", "look", "keep", "post"}, of : MailJobs \cup {Alert}, for : {"address", "mail"},
   start : Moments, readAt : Moments, tells : SUBSET MailJobs]
NewMail(of, for, tells) ==
  [at |-> "ask", of |-> of, for |-> for, start |-> 0, readAt |-> 0, tells |-> tells]
MailGoes(r, c) == mailing' = [mailing EXCEPT ![r] = c]

MailInit ==
  /\ moment = 0
  /\ mailJob = [j \in MailJobs |-> Ended("over")]
  /\ transport = NoSpec
  /\ mailing = [r \in Requests |-> MailIdle]
  /\ lastSent = NotYet /\ suppressed = {}
  /\ announced = {} /\ untold = {}

\* The API queues the job, unless the queue refuses it.  It may take the place of
\* one that is over and that nothing more will be said of.
Vacant(j) == mailJob[j].state = "over" \/ j \in announced \cup untold
EnqueueMail(j) ==
  /\ Vacant(j)
  /\ mailJob' = [mailJob EXCEPT ![j].state = "waiting"]
  /\ announced' = announced \ {j} /\ untold' = untold \ {j}
  /\ UNCHANGED <<moment, transport, mailing, lastSent, suppressed>>

-----------------------------------------------------------------------------
(* resolve: the cache, or the row of the database and then the cache. *)

StillYoung == transport # NoSpec /\ moment - transport.at < CacheTime
Resolved(c, readAt, start) ==
  IF c.for = "address" THEN [c EXCEPT !.at = "ask", !.for = "mail", !.start = 0, !.readAt = 0]
  ELSE [c EXCEPT !.at = "post", !.start = start, !.readAt = readAt]
Inquired(c) ==
  IF StillYoung THEN Resolved(c, transport.readAt, moment)
  ELSE [c EXCEPT !.at = "look", !.start = moment]

\* handleUserInvite, handleAuditComplete, handleAlertDigest: the address first.
TakeJob(r, j) ==
  /\ mailing[r] = MailIdle /\ mailJob[j].state = "waiting"
  /\ mailJob' = [mailJob EXCEPT ![j].state = "active"]
  /\ MailGoes(r, Inquired(NewMail(j, "address", {})))
  /\ UNCHANGED <<moment, transport, lastSent, suppressed, announced, untold>>

\* sendMail, once the address is there.
AskSettings(r) ==
  /\ mailing[r].at = "ask"
  /\ MailGoes(r, Inquired(mailing[r]))
  /\ UNCHANGED <<moment, mailJob, transport, lastSent, suppressed, announced, untold>>

\* buildFromDb.  No row that is active and complete, or a query that fails, is an
\* answer too: the environment decides, or the log gets the mail.
ReadSettings(r) ==
  /\ mailing[r].at = "look"
  /\ MailGoes(r, [mailing[r] EXCEPT !.at = "keep", !.readAt = moment])
  /\ UNCHANGED <<moment, mailJob, transport, lastSent, suppressed, announced, untold>>

\* The age of the cache counts from the question, not the answer.
Keep(r) ==
  /\ mailing[r].at = "keep"
  /\ transport' = [readAt |-> mailing[r].readAt, at |-> mailing[r].start]
  /\ MailGoes(r, Resolved(mailing[r], mailing[r].readAt, mailing[r].start))
  /\ UNCHANGED <<moment, mailJob, lastSent, suppressed, announced, untold>>

-----------------------------------------------------------------------------
\* The server takes the mail, or the log does.
AcceptMail(r) ==
  /\ mailing[r].at = "post"
  /\ MailGoes(r, MailIdle)
  /\ IF mailing[r].of = Alert
     THEN announced' = announced \cup mailing[r].tells /\ UNCHANGED mailJob
     ELSE mailJob' = [mailJob EXCEPT ![mailing[r].of] = Ended("over")] /\ UNCHANGED announced
  /\ UNCHANGED <<moment, transport, lastSent, suppressed, untold>>

\* It does not: an alert is given up, a job is tried again ...
GiveUpAlert(r) ==
  /\ mailing[r].at = "post" /\ mailing[r].of = Alert
  /\ MailGoes(r, MailIdle) /\ untold' = untold \cup mailing[r].tells
  /\ UNCHANGED <<moment, mailJob, transport, lastSent, suppressed, announced>>

TryAgain(r) ==
  /\ mailing[r].at = "post" /\ mailing[r].of # Alert
  /\ mailJob[mailing[r].of].made + 1 < Tries
  /\ mailJob' = [mailJob EXCEPT ![mailing[r].of].made = @ + 1, ![mailing[r].of].state = "waiting"]
  /\ MailGoes(r, MailIdle)
  /\ UNCHANGED <<moment, transport, lastSent, suppressed, announced, untold>>

\* ... or reported (notify): counted, or told at once with what was counted.
Report(r) ==
  /\ mailing[r].at = "post" /\ mailing[r].of # Alert
  /\ mailJob[mailing[r].of].made + 1 >= Tries
  /\ mailJob' = [mailJob EXCEPT ![mailing[r].of] = Ended("failed")]
  /\ IF lastSent # NotYet /\ moment - lastSent < AlertWindow
     THEN /\ suppressed' = suppressed \cup {mailing[r].of}
          /\ MailGoes(r, MailIdle) /\ UNCHANGED lastSent
     ELSE /\ lastSent' = moment /\ suppressed' = {}
          /\ MailGoes(r, Inquired(NewMail(Alert, "mail", suppressed \cup {mailing[r].of})))
  /\ UNCHANGED <<moment, transport, announced, untold>>

\* The worker dies, or is shut down while an alert is on its way.  The queue gives
\* a job it held to the next one, the second time it fails it without a report.
MailerDies ==
  /\ transport # NoSpec \/ suppressed # {} \/ \E r \in Requests : mailing[r] # MailIdle
  /\ mailJob' = [j \in MailJobs |->
       IF mailJob[j].state # "active" THEN mailJob[j]
       ELSE IF mailJob[j].stalled THEN Ended("over")
       ELSE [mailJob[j] EXCEPT !.state = "waiting", !.stalled = TRUE]]
  /\ transport' = NoSpec /\ mailing' = [r \in Requests |-> MailIdle]
  /\ lastSent' = NotYet /\ suppressed' = {}
  /\ untold' = untold \cup suppressed
               \cup UNION {mailing[r].tells : r \in {q \in Requests : mailing[q] # MailIdle}}
  /\ UNCHANGED <<moment, announced>>

MomentPasses ==
  /\ moment < MaxMoment /\ moment' = moment + 1
  /\ UNCHANGED <<mailJob, transport, mailing, lastSent, suppressed, announced, untold>>

MailNext ==
  \/ \E j \in MailJobs : EnqueueMail(j) \/ \E r \in Requests : TakeJob(r, j)
  \/ \E r \in Requests :
       \/ AskSettings(r) \/ ReadSettings(r) \/ Keep(r)
       \/ AcceptMail(r) \/ GiveUpAlert(r) \/ TryAgain(r) \/ Report(r)
  \/ MailerDies \/ MomentPasses

-----------------------------------------------------------------------------
MailTypeOK ==
  /\ moment \in Moments
  /\ mailJob \in [MailJobs -> [state : {"waiting", "active", "over", "failed"},
                               made : 0..Tries, stalled : BOOLEAN]]
  /\ transport \in {NoSpec} \cup [readAt : Moments, at : Moments]
  /\ mailing \in [Requests -> {MailIdle} \cup MailStates]
  /\ lastSent \in {NotYet} \cup Moments
  /\ suppressed \subseteq MailJobs /\ announced \subseteq MailJobs /\ untold \subseteq MailJobs

AtWork == {r \in Requests : mailing[r] # MailIdle}

\* A mail goes out by settings that were read when its transport was asked for or
\* later, or no longer before that than the cache lasts: however slow the look-ups
\* of mails at the same time are.
SettingsAreRecent ==
  \A r \in AtWork : mailing[r].at = "post" => mailing[r].readAt >= mailing[r].start - CacheTime

\* The numbers that the alerts tell add up: a job that has used its attempts is told
\* of once, or is counted, or went with an alert that was given up or a worker that
\* died; and nothing else is.
AlertsAddUp ==
  \A j \in MailJobs :
    LET tellers == {r \in AtWork : j \in mailing[r].tells}
    IN /\ mailJob[j].state = "failed" <=> tellers # {} \/ j \in suppressed \cup announced \cup untold
       /\ tellers # {} => j \notin suppressed \cup announced \cup untold /\ \E r \in tellers : tellers = {r}
       /\ j \notin suppressed \cap announced /\ j \notin suppressed \cap untold /\ j \notin announced \cap untold

MailsAreSound == SettingsAreRecent /\ AlertsAddUp
=============================================================================
