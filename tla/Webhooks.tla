------------------------------ MODULE Webhooks ------------------------------
(***************************************************************************)
(* One webhook, the events dispatched to it by the API, the job queue      *)
(* (BullMQ, external) and the worker that posts them.  Processes die       *)
(* between any two steps, the endpoint and the queue may refuse, the       *)
(* database may fail an update, and users toggle and delete the webhook.   *)
(***************************************************************************)
EXTENDS Naturals

CONSTANTS
  Deliveries,   \* events dispatched, with the delivery row and the job of each
  Attempts      \* JOB_OPTS.attempts

ASSUME AttemptsAssumption == Attempts \in Nat \ {0}

VARIABLES
  hook,      \* the webhook: active, disabled or deleted
  call,      \* per event: where dispatchWebhookEvent is
  row,       \* per event: its row in webhook_deliveries
  job,       \* per event: its job in the queue
  handler,   \* per event: where the worker's handler of the job is
  \* history
  answered,  \* events an endpoint has answered 2xx
  excused    \* events whose last word was lost with a process, queue or update

whkVars == <<hook, call, row, job, handler, answered, excused>>

-----------------------------------------------------------------------------
NoRow   == [status |-> "none", attempts |-> 0]
NoJob   == [at |-> "none", made |-> 0, stalls |-> 0]
MaxStalls == 1           \* BullMQ's maxStalledCount
\* An event can be posted once by every attempt, and by the one a stall repeats.
MaxPosts  == Attempts + MaxStalls

WhkInit ==
  /\ hook = "active"
  /\ call = [e \in Deliveries |-> "idle"]
  /\ row = [e \in Deliveries |-> NoRow]
  /\ job = [e \in Deliveries |-> NoJob]
  /\ handler = [e \in Deliveries |-> "idle"]
  /\ answered = {} /\ excused = {}

CallSet(e, s)    == call' = [call EXCEPT ![e] = s]
HandlerSet(e, s) == handler' = [handler EXCEPT ![e] = s]
Excuse(e)        == excused' = excused \cup {e}

-----------------------------------------------------------------------------
\* dispatchWebhookEvent finds the active webhook, logs the delivery, and hands
\* it to the queue; where that fails it posts the event itself, untracked.
FindHook(e) ==
  /\ call[e] = "idle"
  /\ CallSet(e, IF hook = "active" THEN "log" ELSE "over")
  /\ UNCHANGED <<hook, row, job, handler, answered, excused>>

LogDelivery(e) ==
  /\ call[e] = "log"
  /\ IF hook = "deleted"          \* the foreign key refuses the row
     THEN CallSet(e, "direct") /\ UNCHANGED row
     ELSE /\ row' = [row EXCEPT ![e].status = "pending"]
          /\ CallSet(e, "enqueue")
  /\ UNCHANGED <<hook, job, handler, answered, excused>>

Enqueue(e) ==
  /\ call[e] = "enqueue"
  /\ \/ /\ job' = [job EXCEPT ![e].at = "waiting"]
        /\ CallSet(e, "over")
        /\ UNCHANGED excused
     \/ /\ CallSet(e, "direct")   \* WORKER_DISABLED, or Redis is out of reach
        /\ Excuse(e)
        /\ UNCHANGED job
  /\ UNCHANGED <<hook, row, handler, answered>>

PostDirectly(e) ==
  /\ call[e] = "direct"
  /\ answered' \in {answered, answered \cup {e}}
  /\ CallSet(e, "over")
  /\ UNCHANGED <<hook, row, job, handler, excused>>

\* The API process dies.
ApiDies(e) ==
  /\ call[e] \in {"log", "enqueue", "direct"}
  /\ CallSet(e, "over") /\ Excuse(e)
  /\ UNCHANGED <<hook, row, job, handler, answered>>

-----------------------------------------------------------------------------
\* handleWebhookDeliver reads the row and its webhook.
Take(e) ==
  /\ job[e].at = "waiting"
  /\ job' = [job EXCEPT ![e].at = "running"]
  /\ HandlerSet(e, IF row[e].status \in {"none", "delivered"} THEN "return"
                   ELSE IF hook = "active" THEN "post"
                   ELSE "disable")
  /\ UNCHANGED <<hook, call, row, answered, excused>>

\* The endpoint accepts; or refuses; or the answer is lost, accepted or not.
Post(e) ==
  /\ handler[e] = "post"
  /\ \/ HandlerSet(e, "accepted") /\ answered' = answered \cup {e}
     \/ HandlerSet(e, "refused")  /\ UNCHANGED answered
     \/ HandlerSet(e, "caught")   /\ answered' \in {answered, answered \cup {e}}
  /\ UNCHANGED <<hook, call, row, job, excused>>

Recording == {"accepted", "refused", "caught", "disable"}
FinalAttemptLate(e) == job[e].made >= Attempts   \* mutant: off by one
FinalAttempt(e) == job[e].made + 1 >= Attempts

\* The update by id throws when the row has been deleted.
RecordOutcome(e) ==
  /\ handler[e] \in Recording
  /\ IF row[e].status = "none"
     THEN HandlerSet(e, "throw") /\ UNCHANGED row
     ELSE /\ row' = [row EXCEPT
               ![e].status = CASE handler[e] = "accepted" -> "delivered"
                               [] handler[e] = "disable"  -> "failed"
                               [] OTHER -> IF FinalAttempt(e) THEN "failed" ELSE "pending",
               ![e].attempts = @ + IF handler[e] = "disable" THEN 0 ELSE 1]
          /\ HandlerSet(e, IF handler[e] \in {"refused", "caught"} THEN "throw" ELSE "return")
  /\ excused' = excused \ {e}
  /\ UNCHANGED <<hook, call, job, answered>>

\* The database fails the update: after an answer, whatever it was, the catch
\* block tries again as for a network error; else the handler throws.
RecordFails(e) ==
  /\ handler[e] \in Recording
  /\ HandlerSet(e, IF handler[e] \in {"accepted", "refused"} THEN "caught" ELSE "throw")
  /\ Excuse(e)
  /\ UNCHANGED <<hook, call, row, job, answered>>

\* BullMQ completes a job whose handler returns, and counts an attempt of one
\* whose handler throws: it is tried again, or it has exhausted its attempts.
Settle(e) ==
  /\ handler[e] \in {"return", "throw"}
  /\ job' = [job EXCEPT
       ![e].at = IF handler[e] = "return" THEN "done"
                 ELSE IF job[e].made + 1 >= Attempts THEN "exhausted" ELSE "waiting",
       ![e].made = @ + 1]
  /\ HandlerSet(e, "idle")
  /\ UNCHANGED <<hook, call, row, answered, excused>>

\* The worker that holds the job dies: the stalled job is taken again, but not more often than
\* MaxStalls.
WorkerDies(e) ==
  /\ job[e].at = "running"
  /\ IF job[e].stalls < MaxStalls
     THEN /\ job' = [job EXCEPT ![e].at = "waiting", ![e].stalls = @ + 1]
          /\ UNCHANGED excused
     ELSE /\ job' = [job EXCEPT ![e].at = "exhausted"]
          /\ Excuse(e)
  /\ HandlerSet(e, "idle")
  /\ UNCHANGED <<hook, call, row, answered>>

-----------------------------------------------------------------------------
\* toggleWebhook, and deleteWebhook, which takes the rows with it.
Toggle ==
  /\ hook # "deleted"
  /\ hook' = IF hook = "active" THEN "disabled" ELSE "active"
  /\ UNCHANGED <<call, row, job, handler, answered, excused>>

DeleteWebhook ==
  /\ hook # "deleted"
  /\ hook' = "deleted"
  /\ row' = [e \in Deliveries |-> NoRow]
  /\ UNCHANGED <<call, job, handler, answered, excused>>

WhkNext ==
  \/ \E e \in Deliveries :
       \/ FindHook(e) \/ LogDelivery(e) \/ Enqueue(e) \/ PostDirectly(e) \/ ApiDies(e)
       \/ Take(e) \/ Post(e) \/ RecordOutcome(e) \/ RecordFails(e) \/ Settle(e) \/ WorkerDies(e)
  \/ Toggle \/ DeleteWebhook

WhkSpec == WhkInit /\ [][WhkNext]_whkVars

-----------------------------------------------------------------------------
WhkTypeOK ==
  /\ hook \in {"active", "disabled", "deleted"}
  /\ call \in [Deliveries -> {"idle", "log", "enqueue", "direct", "over"}]
  /\ row \in [Deliveries -> [status : {"none", "pending", "delivered", "failed"},
                             attempts : 0..MaxPosts]]
  /\ job \in [Deliveries -> [at : {"none", "waiting", "running", "done", "exhausted"},
                             made : 0..Attempts, stalls : 0..MaxStalls]]
  /\ handler \in [Deliveries ->
       {"idle", "post", "return", "throw"} \cup Recording]
  /\ answered \subseteq Deliveries /\ excused \subseteq Deliveries

\* A row tells what becomes of its event: while it is pending somebody will
\* still try (unless a process, the queue or an update failed at the wrong
\* moment); when it says delivered, an endpoint has answered and no handler
\* posts it again, even if the job is replayed.
RowsTellTheTruth ==
  \A e \in Deliveries :
    /\ row[e].status = "pending" =>
         \/ call[e] = "enqueue" \/ job[e].at \in {"waiting", "running"}
         \/ e \in excused
    /\ row[e].status = "delivered" => e \in answered /\ handler[e] \in {"idle", "return"}
=============================================================================
