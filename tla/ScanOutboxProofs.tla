------------------------- MODULE ScanOutboxProofs -------------------------
(***************************************************************************)
(* Proofs about ScanOutbox, for any number of scans and of workers.        *)
(***************************************************************************)
EXTENDS ScanOutbox, TLAPS

USE DEF Scan, Caller, Live, RowState, AtServer, Phase, Session

\* The initial state is of the right type.
LEMMA InitTypeOK == Init => TypeOK
  BY MaxScansAssumption DEF Init, TypeOK

\* What markFailed, markDead, deleteById, retryDead and discardDead return is
\* again a table of rows.
LEMMA DaoType ==
  ASSUME row \in [Scan -> RowState], NEW s \in Scan, NEW S
  PROVE  /\ \A state \in RowState : Mark(s, state) \in [Scan -> RowState]
         /\ DeleteById(s) \in [Scan -> RowState]
         /\ RetryDead(S) \in [Scan -> RowState]
         /\ DiscardDead(S) \in [Scan -> RowState]
  BY DEF Mark, DeleteById, RetryDead, DiscardDead

\* Ending the run of a worker keeps the workers' variables in their types.
LEMMA EndRunType ==
  ASSUME TypeOK, NEW a \in Caller, EndRun(a)
  PROVE  /\ running' \in [Drains -> BOOLEAN]
         /\ batch' \in [Drains -> SUBSET Scan]
         /\ seen' \in [Drains -> SUBSET Scan]
  BY DEF TypeOK, EndRun

\* Giving up on an attempt keeps the attempts and the orphans in their types.
LEMMA AbandonType ==
  ASSUME TypeOK, NEW a \in Caller, NEW s \in Scan, Abandon(a, s)
  PROVE  /\ call' \in [Caller -> [Scan -> Phase]]
         /\ orphans' \in SUBSET (Scan \X AtServer)
         /\ events' \in [Scan -> Nat]
         /\ open' \in BOOLEAN
<1>1. call' \in [Caller -> [Scan -> Phase]]
  BY DEF TypeOK, Abandon, MoveTo
<1>2. orphans' \in SUBSET (Scan \X AtServer)
  BY DEF TypeOK, Abandon
<1>3. events' \in [Scan -> Nat] /\ open' \in BOOLEAN
  BY DEF TypeOK, Abandon
<1>4. QED
  BY <1>1, <1>2, <1>3

\* The answer of recordScan's look-ups is one of three phases, and the insert
\* leaves a table of counts.
LEMMA ServerType ==
  ASSUME TypeOK, NEW s \in Scan
  PROVE  /\ Verdict(s) \in {"stored", "checked", "rejected"}
         /\ Inserted(s) \in [Scan -> Nat]
<1>1. events[s] \in Nat /\ open \in BOOLEAN
  BY DEF TypeOK
<1>2. Verdict(s) \in {"stored", "checked", "rejected"}
  BY <1>1 DEF Verdict
<1>3. Inserted(s) \in [Scan -> Nat]
  BY DEF TypeOK, Inserted
<1>4. QED
  BY <1>2, <1>3

\* Every step of a worker's own keeps the types.
LEMMA DrainStepType ==
  ASSUME TypeOK, NEW d \in Drains, DrainStep(d)
  PROVE  TypeOK'
<1>1. d \in Caller
  OBVIOUS
<1>2. CASE DrainStart(d)
  BY <1>2 DEF TypeOK, DrainStart, serverVars
<1>3. CASE DrainRead(d)
  <2>1. TakeBatch \subseteq Scan
    BY DEF TakeBatch
  <2>2. /\ running' \in [Drains -> BOOLEAN]
        /\ batch' \in [Drains -> SUBSET Scan]
        /\ seen' \in [Drains -> SUBSET Scan]
    <3>1. CASE TakeBatch \ seen[d] # {}
      BY <1>3, <2>1, <3>1 DEF TypeOK, DrainRead
    <3>2. CASE EndRun(d)
      BY <1>1, <3>2, EndRunType
    <3>3. QED
      BY <1>3, <3>1, <3>2 DEF DrainRead
  <2>3. QED
    BY <1>3, <2>2 DEF TypeOK, DrainRead, serverVars
<1>4. CASE StopDrain(d)
  <2>1. /\ running' \in [Drains -> BOOLEAN]
        /\ batch' \in [Drains -> SUBSET Scan]
        /\ seen' \in [Drains -> SUBSET Scan]
    BY <1>1, <1>4, EndRunType DEF StopDrain
  <2>2. /\ call' \in [Caller -> [Scan -> Phase]]
        /\ orphans' \in SUBSET (Scan \X AtServer)
        /\ events' \in [Scan -> Nat]
        /\ open' \in BOOLEAN
    <3>1. CASE \E t \in Scan : Abandon(d, t)
      BY <1>1, <3>1, AbandonType
    <3>2. CASE UNCHANGED <<call, serverVars>>
      BY <3>2 DEF TypeOK, serverVars
    <3>3. QED
      BY <1>4, <3>1, <3>2 DEF StopDrain
  <2>3. QED
    BY <1>4, <2>1, <2>2 DEF TypeOK, StopDrain
<1>5. CASE \E t \in Scan : DrainSend(d, t)
  BY <1>1, <1>5 DEF TypeOK, DrainSend, MoveTo, serverVars
<1>6. QED
  BY <1>2, <1>3, <1>4, <1>5 DEF DrainStep

\* What a caller does with an answer, or with having none, keeps the types.
LEMMA SettleType ==
  ASSUME TypeOK, NEW a \in Caller, NEW s \in Scan, Settle(a, s)
  PROVE  TypeOK'
<1>1. /\ Mark(s, "dead") \in [Scan -> RowState]
      /\ Mark(s, "failed") \in [Scan -> RowState]
      /\ DeleteById(s) \in [Scan -> RowState]
  BY DaoType DEF TypeOK
<1>2. CASE Accepted(a, s)
  BY <1>1, <1>2 DEF TypeOK, Accepted, MoveTo, drainVars, serverVars
<1>3. CASE Rejected(a, s)
  BY <1>1, <1>3 DEF TypeOK, Rejected, MoveTo, drainVars, serverVars
<1>4. CASE Unavailable(a, s)
  BY <1>1, <1>4, AbandonType DEF TypeOK, Unavailable, drainVars
<1>5. CASE TimedOut(a, s)
  BY <1>1, <1>5, AbandonType, EndRunType DEF TypeOK, TimedOut
<1>6. CASE Unauthorized(a, s)
  BY <1>6, EndRunType DEF TypeOK, Unauthorized, MoveTo, serverVars
<1>7. QED
  BY <1>2, <1>3, <1>4, <1>5, <1>6 DEF Settle

\* The server's steps keep the types.
LEMMA ServerStepType ==
  ASSUME TypeOK, NEW a \in Caller, NEW s \in Scan,
         ServerStep(a, s) \/ OrphanCheck(s) \/ OrphanStore(s)
  PROVE  TypeOK'
<1>1. /\ Verdict(s) \in Phase
      /\ Inserted(s) \in [Scan -> Nat]
  BY ServerType
<1>2. CASE Authenticate401(a, s)
  BY <1>2 DEF TypeOK, Authenticate401, MoveTo, drainVars, serverVars
<1>3. CASE Check(a, s)
  BY <1>1, <1>3 DEF TypeOK, Check, MoveTo, drainVars, serverVars
<1>4. CASE Store(a, s)
  BY <1>1, <1>4 DEF TypeOK, Store, MoveTo, drainVars
<1>5. CASE OrphanCheck(s)
  BY <1>5 DEF TypeOK, OrphanCheck, drainVars
<1>6. CASE OrphanStore(s)
  BY <1>1, <1>6 DEF TypeOK, OrphanStore, drainVars
<1>7. QED
  BY <1>2, <1>3, <1>4, <1>5, <1>6 DEF ServerStep

\* TypeOK is preserved by every step.
LEMMA NextTypeOK == TypeOK /\ [Next]_vars => TypeOK'
<1> SUFFICES ASSUME TypeOK, [Next]_vars
             PROVE  TypeOK'
  OBVIOUS
<1>1. CASE CaptureScan
  <2>1. captured' \in Scan
    BY <1>1, MaxScansAssumption DEF TypeOK, CaptureScan
  <2>2. QED
    BY <1>1, <2>1, MaxScansAssumption
       DEF TypeOK, CaptureScan, MoveTo, drainVars, serverVars
<1>2. CASE \E s \in Scan : RecorderStep(s)
  <2>1. PICK s \in Scan : RecorderStep(s)
    BY <1>2
  <2>2. CASE RecorderSend(s)
    BY <2>2 DEF TypeOK, RecorderSend, MoveTo, drainVars, serverVars
  <2>3. CASE StopRecorder(s)
    BY <2>3, AbandonType DEF TypeOK, StopRecorder, drainVars
  <2>4. QED
    BY <2>1, <2>2, <2>3 DEF RecorderStep
<1>3. CASE \E d \in Drains : DrainStep(d)
  BY <1>3, DrainStepType
<1>4. CASE \E a \in Caller, s \in Scan : Settle(a, s) \/ ServerStep(a, s)
  BY <1>4, SettleType, ServerStepType
<1>5. CASE \E s \in Scan : OrphanCheck(s) \/ OrphanStore(s)
  BY <1>5, ServerStepType
<1>6. CASE \E o \in orphans : OrphanLost(o)
  BY <1>6 DEF TypeOK, OrphanLost, drainVars
<1>7. CASE \E S \in Selections : UserRetry(S) \/ UserDiscard(S)
  <2>1. PICK S \in Selections : UserRetry(S) \/ UserDiscard(S)
    BY <1>7
  <2>2. /\ RetryDead(S) \in [Scan -> RowState]
        /\ DiscardDead(S) \in [Scan -> RowState]
    BY DEF TypeOK, RetryDead, DiscardDead
  <2>3. CASE UserRetry(S)
    BY <2>2, <2>3 DEF TypeOK, UserRetry, drainVars, serverVars
  <2>4. CASE UserDiscard(S)
    BY <2>2, <2>4 DEF TypeOK, UserDiscard, Dead, drainVars, serverVars
  <2>5. QED
    BY <2>1, <2>3, <2>4
<1>8. CASE SignIn \/ LoseSession \/ CloseCampaign
  BY <1>8 DEF TypeOK, SignIn, LoseSession, CloseCampaign, drainVars, serverVars
<1>9. CASE UNCHANGED vars
  BY <1>9 DEF TypeOK, vars, drainVars, serverVars
<1>10. QED
  BY <1>1, <1>2, <1>3, <1>4, <1>5, <1>6, <1>7, <1>8, <1>9 DEF Next

\* Every reachable state is of the right type.
THEOREM TypeCorrect == Spec => []TypeOK
  BY InitTypeOK, NextTypeOK, PTL DEF Spec

-----------------------------------------------------------------------------
(* The inductive invariant.  NoScanLost is not inductive by itself: deleting
   a row on an answer of success is safe only because that answer is never
   given before the event exists, and an event exists only for a scan that
   has been captured.                                                       *)

\* An answer of success is never given for a scan that is not stored.
AnswerIsTrue ==
  \A a \in Caller, s \in Scan : call[a][s] = "stored" => events[s] > 0

\* Nothing anywhere knows of a scan that has not been captured yet.
Fresh ==
  \A s \in Scan : s > captured =>
    /\ row[s] = "absent"
    /\ events[s] = 0
    /\ s \notin discarded
    /\ \A a \in Caller : call[a][s] = "idle"
    /\ \A d \in Drains : s \notin batch[d]
    /\ \A p \in AtServer : <<s, p>> \notin orphans

IInv == TypeOK /\ CountedOnce /\ AnswerIsTrue /\ Fresh /\ NoScanLost

\* The invariant holds at the start.
LEMMA InitIInv == Init => IInv
<1> SUFFICES ASSUME Init PROVE IInv
  OBVIOUS
<1>1. TypeOK
  BY InitTypeOK
<1>2. CountedOnce /\ AnswerIsTrue /\ Fresh /\ NoScanLost
  BY MaxScansAssumption DEF Init, CountedOnce, AnswerIsTrue, Fresh, NoScanLost
<1>3. QED
  BY <1>1, <1>2 DEF IInv

\* Events only ever appear, one per scan, and only for a scan that some attempt
\* at the server holds; every other step leaves them alone.
LEMMA InsertedOnce ==
  ASSUME TypeOK, CountedOnce, NEW s \in Scan
  PROVE  /\ Inserted(s)[s] = 1
         /\ \A t \in Scan : Inserted(s)[t] <= 1 /\ Inserted(s)[t] >= events[t]
         /\ \A t \in Scan \ {s} : Inserted(s)[t] = events[t]
  BY DEF TypeOK, CountedOnce, Inserted

\* No step takes an event back.
LEMMA EventsGrow ==
  ASSUME IInv, [Next]_vars
  PROVE  /\ \A t \in Scan : events'[t] >= events[t]
         /\ CountedOnce'
<1>1. TypeOK /\ CountedOnce
  BY DEF IInv
<1>2. CASE UNCHANGED events
  BY <1>1, <1>2 DEF TypeOK, CountedOnce
<1>3. CASE \E s \in Scan : events' = Inserted(s)
  BY <1>1, <1>3, InsertedOnce DEF CountedOnce
<1>4. UNCHANGED events \/ \E s \in Scan : events' = Inserted(s)
  <2>1. CASE CaptureScan \/ \E s \in Scan : RecorderStep(s)
    BY <2>1 DEF serverVars, CaptureScan, RecorderStep, RecorderSend, StopRecorder, Abandon
  <2>2. CASE \E d \in Drains : DrainStep(d)
    BY <2>2 DEF serverVars, DrainStep, DrainStart, DrainRead, DrainSend, StopDrain, Abandon
  <2>3. CASE \E a \in Caller, s \in Scan : Settle(a, s)
    BY <2>3 DEF serverVars, Settle, Accepted, Rejected, Unavailable, TimedOut,
       Unauthorized, Abandon
  <2>4. CASE \E a \in Caller, s \in Scan : ServerStep(a, s)
    BY <2>4 DEF serverVars, ServerStep, Authenticate401, Check, Store
  <2>5. CASE \/ \E s \in Scan : OrphanCheck(s) \/ OrphanStore(s)
             \/ \E o \in orphans : OrphanLost(o)
    BY <2>5 DEF OrphanCheck, OrphanStore, OrphanLost
  <2>6. CASE \/ \E S \in Selections : UserRetry(S) \/ UserDiscard(S)
             \/ SignIn \/ LoseSession \/ CloseCampaign
    BY <2>6 DEF serverVars, UserRetry, UserDiscard, SignIn, LoseSession, CloseCampaign
  <2>7. CASE UNCHANGED vars
    BY <2>7 DEF vars, serverVars
  <2>8. QED
    BY <2>1, <2>2, <2>3, <2>4, <2>5, <2>6, <2>7 DEF Next
<1>5. QED
  BY <1>2, <1>3, <1>4

\* A step moves at most one attempt, and only the server's look-ups and its
\* insert move one to an answer of success or rejection.
LEMMA OneAttemptMoves ==
  ASSUME TypeOK, [Next]_vars
  PROVE  \/ UNCHANGED call
         \/ \E a \in Caller, s \in Scan :
              \/ \E p \in {"idle", "ready", "sent", "unauthorized"} : MoveTo(a, s, p)
              \/ Check(a, s)
              \/ Store(a, s)
<1>1. CASE CaptureScan
  <2>1. captured' \in Scan
    BY <1>1, MaxScansAssumption DEF TypeOK, CaptureScan
  <2>2. QED
    BY <1>1, <2>1 DEF CaptureScan
<1>2. CASE \E s \in Scan : RecorderStep(s)
  BY <1>2 DEF RecorderStep, RecorderSend, StopRecorder, Abandon
<1>3. CASE \E d \in Drains : DrainStep(d)
  BY <1>3 DEF DrainStep, DrainStart, DrainRead, DrainSend, StopDrain, Abandon
<1>4. CASE \E a \in Caller, s \in Scan : Settle(a, s) \/ ServerStep(a, s)
  BY <1>4 DEF Settle, Accepted, Rejected, Unavailable, TimedOut, Unauthorized,
     Abandon, ServerStep, Authenticate401
<1>5. CASE UNCHANGED call
  BY <1>5
<1>6. \/ CaptureScan
      \/ \E s \in Scan : RecorderStep(s)
      \/ \E d \in Drains : DrainStep(d)
      \/ \E a \in Caller, s \in Scan : Settle(a, s) \/ ServerStep(a, s)
      \/ UNCHANGED call
  BY DEF Next, vars, OrphanCheck, OrphanStore, OrphanLost, UserRetry,
     UserDiscard, SignIn, LoseSession, CloseCampaign
<1>7. QED
  BY <1>1, <1>2, <1>3, <1>4, <1>5, <1>6

\* No step makes an answer of success untrue, or gives an untrue one.
LEMMA AnswerStaysTrue ==
  ASSUME IInv, [Next]_vars
  PROVE  AnswerIsTrue'
<1> SUFFICES ASSUME NEW a \in Caller, NEW s \in Scan, call'[a][s] = "stored"
             PROVE  events'[s] > 0
  BY DEF AnswerIsTrue
<1>1. TypeOK /\ CountedOnce /\ AnswerIsTrue
  BY DEF IInv
<1>2. TypeOK' /\ events'[s] >= events[s]
  BY <1>1, EventsGrow, NextTypeOK
<1>3. CASE call[a][s] = "stored"
  BY <1>1, <1>2, <1>3 DEF TypeOK, AnswerIsTrue
<1>4. CASE call[a][s] # "stored"
  <2>1. PICK a1 \in Caller, s1 \in Scan :
          \/ \E p \in {"idle", "ready", "sent", "unauthorized"} : MoveTo(a1, s1, p)
          \/ Check(a1, s1)
          \/ Store(a1, s1)
    BY <1>1, <1>4, OneAttemptMoves
  <2>2. \E p : MoveTo(a1, s1, p)
    BY <2>1 DEF Check, Store
  <2>3. a = a1 /\ s = s1
    BY <1>1, <1>4, <2>2 DEF TypeOK, MoveTo
  <2>4. CASE \E p \in {"idle", "ready", "sent", "unauthorized"} : MoveTo(a1, s1, p)
    <3>1. PICK p \in {"idle", "ready", "sent", "unauthorized"} :
            call' = [call EXCEPT ![a][s] = p]
      BY <2>3, <2>4 DEF MoveTo
    <3>2. call'[a][s] = p
      BY <1>1, <3>1 DEF TypeOK
    <3>3. QED
      BY <3>1, <3>2
  <2>5. CASE Check(a1, s1)
    BY <1>1, <1>2, <2>3, <2>5 DEF TypeOK, Check, MoveTo, Verdict
  <2>6. CASE Store(a1, s1)
    BY <1>1, <2>3, <2>6, InsertedOnce DEF Store
  <2>7. QED
    BY <2>1, <2>4, <2>5, <2>6
<1>5. QED
  BY <1>3, <1>4

\* A row disappears only on an answer of success or when the user discards it.
LEMMA RowGoes ==
  ASSUME IInv, [Next]_vars, NEW s \in Scan,
         row[s] # "absent", row'[s] = "absent"
  PROVE  \/ \E a \in Caller : Accepted(a, s)
         \/ row[s] = "dead" /\ s \in discarded'
<1>1. TypeOK
  BY DEF IInv
<1>2. CASE CaptureScan
  BY <1>1, <1>2, MaxScansAssumption DEF TypeOK, CaptureScan
<1>3. CASE \E a \in Caller, t \in Scan : Accepted(a, t)
  BY <1>1, <1>3 DEF TypeOK, Accepted, DeleteById
<1>4. CASE \E t \in Scan, state \in {"dead", "failed"} : row' = Mark(t, state)
  BY <1>1, <1>4 DEF TypeOK, Mark
<1>5. CASE \E S \in Selections : UserRetry(S)
  BY <1>1, <1>5 DEF TypeOK, UserRetry, RetryDead
<1>6. CASE \E S \in Selections : UserDiscard(S)
  <2>1. PICK S \in Selections : UserDiscard(S)
    BY <1>6
  <2>2. s \in S \cap Dead
    BY <1>1, <2>1 DEF TypeOK, UserDiscard, DiscardDead
  <2>3. QED
    BY <2>1, <2>2 DEF UserDiscard, Dead
<1>7. CASE UNCHANGED row
  BY <1>7
<1>8. \/ CaptureScan
      \/ \E a \in Caller, t \in Scan : Accepted(a, t)
      \/ \E t \in Scan, state \in {"dead", "failed"} : row' = Mark(t, state)
      \/ \E S \in Selections : UserRetry(S)
      \/ \E S \in Selections : UserDiscard(S)
      \/ UNCHANGED row
  BY DEF Next, vars, RecorderStep, RecorderSend, StopRecorder, DrainStep,
     DrainStart, DrainRead, DrainSend, StopDrain, Settle, Rejected,
     Unavailable, TimedOut, Unauthorized, ServerStep, Authenticate401, Check,
     Store, OrphanCheck, OrphanStore, OrphanLost, SignIn, LoseSession,
     CloseCampaign
<1>9. QED
  BY <1>2, <1>3, <1>4, <1>5, <1>6, <1>7, <1>8

\* Only CaptureScan changes the number of captured scans.
LEMMA OnlyCaptureCaptures ==
  ASSUME [Next]_vars
  PROVE  captured' = captured \/ CaptureScan
  BY DEF Next, vars, RecorderStep, RecorderSend, StopRecorder, DrainStep,
     DrainStart, DrainRead, DrainSend, StopDrain, Settle, Accepted, Rejected,
     Unavailable, TimedOut, Unauthorized, ServerStep, Authenticate401, Check,
     Store, OrphanCheck, OrphanStore, OrphanLost, UserRetry, UserDiscard,
     SignIn, LoseSession, CloseCampaign

\* No captured scan is lost by a step.
LEMMA NoScanLostStep ==
  ASSUME IInv, [Next]_vars
  PROVE  NoScanLost'
<1> SUFFICES ASSUME NEW s \in 1 .. captured', row'[s] = "absent",
                    s \notin discarded'
             PROVE  events'[s] > 0
  <2>1. TypeOK'
    BY NextTypeOK DEF IInv
  <2>2. QED
    BY <2>1 DEF NoScanLost
<1>1. TypeOK /\ TypeOK' /\ NoScanLost /\ AnswerIsTrue
  BY NextTypeOK DEF IInv
<1>2. s \in Scan /\ events'[s] >= events[s]
  BY <1>1, EventsGrow, MaxScansAssumption DEF TypeOK
<1>3. captured' = captured \/ CaptureScan
  BY OnlyCaptureCaptures
<1>4. s \in 1 .. captured
  BY <1>1, <1>2, <1>3, MaxScansAssumption DEF TypeOK, CaptureScan
<1>5. discarded \subseteq discarded'
  BY DEF Next, vars, CaptureScan, RecorderStep, RecorderSend, StopRecorder,
     DrainStep, DrainStart, DrainRead, DrainSend, StopDrain, Settle, Accepted,
     Rejected, Unavailable, TimedOut, Unauthorized, ServerStep,
     Authenticate401, Check, Store, OrphanCheck, OrphanStore, OrphanLost,
     UserRetry, UserDiscard, SignIn, LoseSession, CloseCampaign
<1>6. CASE row[s] = "absent"
  BY <1>1, <1>2, <1>4, <1>5, <1>6 DEF TypeOK, NoScanLost
<1>7. CASE row[s] # "absent"
  BY SMTT(30), <1>1, <1>2, <1>7, RowGoes DEF TypeOK, AnswerIsTrue, Accepted
<1>8. QED
  BY <1>6, <1>7

\* What it takes for a step to leave one scan alone.
Untouched(s) ==
  /\ row'[s] = row[s]
  /\ events'[s] = events[s]
  /\ s \in discarded' => s \in discarded
  /\ \A a \in Caller : call'[a][s] = call[a][s]
  /\ \A d \in Drains : s \in batch'[d] => s \in batch[d]
  /\ \A p \in AtServer : <<s, p>> \in orphans' => <<s, p>> \in orphans

\* A step of a worker's own leaves alone a scan that is not captured.
LEMMA DrainLeavesFresh ==
  ASSUME IInv, NEW d \in Drains, DrainStep(d), NEW s \in Scan, s > captured
  PROVE  Untouched(s)
<1>1. TypeOK /\ Fresh
  BY DEF IInv
<1>2. /\ row[s] = "absent" /\ \A a \in Caller : call[a][s] = "idle"
      /\ \A e \in Drains : s \notin batch[e]
  BY <1>1 DEF Fresh
<1>3. CASE DrainStart(d)
  BY <1>1, <1>3 DEF TypeOK, DrainStart, Untouched, serverVars
<1>4. CASE DrainRead(d)
  <2>1. s \notin TakeBatch
    BY <1>2 DEF TakeBatch
  <2>2. \A e \in Drains : s \in batch'[e] => s \in batch[e]
    BY <1>1, <1>2, <1>4, <2>1 DEF TypeOK, DrainRead, EndRun
  <2>3. QED
    BY <1>4, <2>2 DEF DrainRead, Untouched, serverVars
<1>5. CASE StopDrain(d)
  <2>1. \A e \in Drains : s \in batch'[e] => s \in batch[e]
    BY <1>1, <1>5 DEF TypeOK, StopDrain, EndRun
  <2>2. CASE ~Waiting(d) /\ UNCHANGED <<call, serverVars>>
    BY <1>5, <2>1, <2>2 DEF StopDrain, Untouched, serverVars
  <2>3. CASE \E t \in Scan : call[d][t] # "idle" /\ Abandon(d, t)
    <3>1. PICK t \in Scan : call[d][t] # "idle" /\ Abandon(d, t)
      BY <2>3
    <3>2. t # s
      BY <1>2, <3>1
    <3>3. QED
      BY <1>1, <1>5, <2>1, <3>1, <3>2
         DEF TypeOK, StopDrain, Abandon, MoveTo, Untouched
  <2>4. QED
    BY <1>5, <2>2, <2>3 DEF StopDrain
<1>6. CASE \E t \in Scan : DrainSend(d, t)
  <2>1. PICK t \in Scan : DrainSend(d, t)
    BY <1>6
  <2>2. t # s
    BY <1>2, <2>1 DEF DrainSend
  <2>3. QED
    BY <1>1, <2>1, <2>2 DEF TypeOK, DrainSend, MoveTo, Untouched, serverVars
<1>7. QED
  BY <1>3, <1>4, <1>5, <1>6 DEF DrainStep

\* An attempt that is answered, or moved by the server, is not one for a scan
\* that is not captured.
LEMMA AttemptLeavesFresh ==
  ASSUME IInv, NEW a \in Caller, NEW t \in Scan,
         Settle(a, t) \/ ServerStep(a, t),
         NEW s \in Scan, s > captured
  PROVE  Untouched(s)
<1>1. TypeOK /\ Fresh
  BY DEF IInv
<1>2. t # s
  BY <1>1 DEF Fresh, Settle, Accepted, Rejected, Unavailable, TimedOut,
     Unauthorized, ServerStep, Authenticate401, Check, Store
<1>3. \A e \in Drains : EndRun(a) => (s \in batch'[e] => s \in batch[e])
  BY <1>1 DEF TypeOK, EndRun
<1>4. \A state : Mark(t, state)[s] = row[s]
  BY <1>1, <1>2 DEF TypeOK, Mark
<1>5. DeleteById(t)[s] = row[s] /\ Inserted(t)[s] = events[s]
  BY <1>1, <1>2 DEF TypeOK, DeleteById, Inserted
<1>6. \A p : MoveTo(a, t, p) => \A b \in Caller : call'[b][s] = call[b][s]
  BY <1>1, <1>2 DEF TypeOK, MoveTo
<1>7. Abandon(a, t) =>
        /\ \A p \in AtServer : <<s, p>> \in orphans' => <<s, p>> \in orphans
        /\ \A b \in Caller : call'[b][s] = call[b][s]
        /\ events' = events
  BY <1>2, <1>6 DEF Abandon
<1>8. CASE Accepted(a, t) \/ Rejected(a, t)
  BY <1>4, <1>5, <1>6, <1>8
     DEF Accepted, Rejected, Untouched, drainVars, serverVars
<1>9. CASE Unavailable(a, t) \/ TimedOut(a, t) \/ Unauthorized(a, t)
  BY <1>3, <1>4, <1>6, <1>7, <1>9
     DEF Unavailable, TimedOut, Unauthorized, Untouched, drainVars, serverVars
<1>10. CASE ServerStep(a, t)
  BY <1>5, <1>6, <1>10 DEF ServerStep, Authenticate401, Check, Store,
     Untouched, drainVars, serverVars
<1>11. QED
  BY <1>8, <1>9, <1>10 DEF Settle

\* A scan that has not been captured stays unknown.
LEMMA FreshStep ==
  ASSUME IInv, [Next]_vars
  PROVE  Fresh'
<1>1. TypeOK /\ TypeOK' /\ Fresh
  BY NextTypeOK DEF IInv
<1> SUFFICES ASSUME NEW s \in Scan, s > captured', s > captured
             PROVE  Untouched(s)
  <2>1. captured' >= captured
    BY <1>1, OnlyCaptureCaptures, MaxScansAssumption DEF TypeOK, CaptureScan
  <2>2. \A s \in Scan : s > captured' => s > captured
    BY <1>1, <2>1, MaxScansAssumption DEF TypeOK
  <2>3. QED
    BY <1>1, <2>2 DEF Fresh, Untouched
<1>2. /\ row[s] = "absent" /\ \A a \in Caller : call[a][s] = "idle"
      /\ \A p \in AtServer : <<s, p>> \notin orphans
  BY <1>1 DEF Fresh
<1>3. CASE CaptureScan
  <2>1. captured' \in Scan /\ captured' # s
    BY <1>1, <1>3, MaxScansAssumption DEF TypeOK, CaptureScan
  <2>2. QED
    BY <1>1, <1>3, <2>1
       DEF TypeOK, CaptureScan, MoveTo, Untouched, drainVars, serverVars
<1>4. CASE \E t \in Scan : RecorderStep(t)
  <2>1. PICK t \in Scan : RecorderStep(t)
    BY <1>4
  <2>2. t # s
    BY <1>2, <2>1 DEF RecorderStep, RecorderSend, StopRecorder
  <2>3. CASE RecorderSend(t)
    BY <1>1, <2>2, <2>3
       DEF TypeOK, RecorderSend, MoveTo, Untouched, drainVars, serverVars
  <2>4. CASE StopRecorder(t)
    BY <1>1, <2>2, <2>4
       DEF TypeOK, StopRecorder, Abandon, MoveTo, Untouched, drainVars
  <2>5. QED
    BY <2>1, <2>3, <2>4 DEF RecorderStep
<1>5. CASE \E d \in Drains : DrainStep(d)
  BY <1>5, DrainLeavesFresh
<1>6. CASE \E a \in Caller, t \in Scan : Settle(a, t) \/ ServerStep(a, t)
  BY <1>6, AttemptLeavesFresh
<1>7. CASE \E t \in Scan : OrphanCheck(t) \/ OrphanStore(t)
  <2>1. PICK t \in Scan : OrphanCheck(t) \/ OrphanStore(t)
    BY <1>7
  <2>2. t # s
    BY <1>2, <2>1 DEF OrphanCheck, OrphanStore
  <2>3. Inserted(t)[s] = events[s]
    BY <1>1, <2>2 DEF TypeOK, Inserted
  <2>4. QED
    BY <2>1, <2>2, <2>3 DEF OrphanCheck, OrphanStore, Untouched, drainVars
<1>8. CASE \E o \in orphans : OrphanLost(o)
  BY <1>8 DEF OrphanLost, Untouched, drainVars
<1>9. CASE \E S \in Selections : UserRetry(S) \/ UserDiscard(S)
  BY <1>2, <1>9 DEF UserRetry, UserDiscard, RetryDead, DiscardDead, Dead,
     Untouched, drainVars, serverVars
<1>10. CASE SignIn \/ LoseSession \/ CloseCampaign \/ UNCHANGED vars
  BY <1>10 DEF SignIn, LoseSession, CloseCampaign, vars, Untouched, drainVars,
     serverVars
<1>11. QED
  BY <1>3, <1>4, <1>5, <1>6, <1>7, <1>8, <1>9, <1>10 DEF Next

-----------------------------------------------------------------------------
\* The invariant is inductive.
LEMMA IInvStep == IInv /\ [Next]_vars => IInv'
<1> SUFFICES ASSUME IInv, [Next]_vars
             PROVE  IInv'
  OBVIOUS
<1>1. TypeOK'
  BY NextTypeOK DEF IInv
<1>2. CountedOnce'
  BY EventsGrow
<1>3. AnswerIsTrue' /\ Fresh' /\ NoScanLost'
  BY AnswerStaysTrue, FreshStep, NoScanLostStep
<1>4. QED
  BY <1>1, <1>2, <1>3 DEF IInv

\* The invariant holds in every reachable state.
THEOREM Invariant == Spec => []IInv
  BY InitIInv, IInvStep, PTL DEF Spec

\* The audit never counts a scan twice, whoever sends it and however often.
THEOREM ScanCountedOnce == Spec => []CountedOnce
<1>1. IInv => CountedOnce
  BY DEF IInv
<1>2. QED
  BY <1>1, Invariant, PTL

\* No captured scan is lost: it is queued, counted or discarded by the user.
THEOREM CapturedScanKept == Spec => []NoScanLost
<1>1. IInv => NoScanLost
  BY DEF IInv
<1>2. QED
  BY <1>1, Invariant, PTL

\* A row that is waiting to be sent is deleted only if the server has the scan.
THEOREM LiveRowKept == Spec => LiveRowRemovedOnlyWhenCounted
<1>1. ASSUME IInv, [Next]_vars, NEW s \in Scan,
             row[s] \in Live, row'[s] = "absent"
      PROVE  events[s] > 0
  <2>1. row[s] # "absent" /\ row[s] # "dead"
    BY <1>1
  <2>2. PICK a \in Caller : Accepted(a, s)
    BY <1>1, <2>1, RowGoes
  <2>3. QED
    BY <1>1, <2>2 DEF IInv, AnswerIsTrue, Accepted
<1>2. IInv /\ [Next]_vars =>
        [\A s \in Scan : row[s] \in Live /\ row'[s] = "absent" => events[s] > 0]_vars
  BY <1>1
<1>3. QED
  BY <1>2, Invariant, PTL DEF Spec, LiveRowRemovedOnlyWhenCounted

-----------------------------------------------------------------------------
(* ScanOutbox implements ScanDelivery.                                      *)

\* The queue starts as the promise does.
LEMMA DeliveryInit == Init => Delivery!Init
  BY MaxScansAssumption DEF Init, Delivery!Init

\* A step of the server's insert is the counting of a scan, or nothing new.
LEMMA DeliveryCount ==
  ASSUME IInv, NEW s \in Scan, s <= captured, events' = Inserted(s),
         UNCHANGED <<captured, row, discarded>>
  PROVE  [Delivery!Next]_Delivery!vars
<1>1. TypeOK /\ CountedOnce
  BY DEF IInv
<1>2. CASE events[s] = 0
  <2>1. {t \in Scan : events'[t] > 0} = {t \in Scan : events[t] > 0} \cup {s}
    BY <1>1, <1>2 DEF TypeOK, Inserted
  <2>2. s \in 1 .. captured /\ s \notin {t \in Scan : events[t] > 0}
    BY <1>1, <1>2, MaxScansAssumption DEF TypeOK
  <2>3. Delivery!Count(s)
    BY <2>1, <2>2 DEF Delivery!Count
  <2>4. QED
    BY <2>3 DEF Delivery!Next
<1>3. CASE events[s] # 0
  <2>1. events' = events
    BY <1>1, <1>3 DEF TypeOK, Inserted
  <2>2. QED
    BY <2>1 DEF Delivery!vars
<1>4. QED
  BY <1>2, <1>3

\* Every step of the queue is a step of the promise, or changes nothing in it.
LEMMA DeliveryStep ==
  ASSUME IInv, [Next]_vars
  PROVE  [Delivery!Next]_Delivery!vars
<1>1. TypeOK /\ Fresh /\ AnswerIsTrue
  BY DEF IInv
<1>2. CASE CaptureScan
  <2>1. PICK c \in Scan : /\ c = captured + 1
                         /\ captured' = c
                         /\ c \notin 1 .. captured
                         /\ 1 .. c = (1 .. captured) \cup {c}
    BY <1>1, <1>2, MaxScansAssumption DEF TypeOK, CaptureScan
  <2>2. {s \in Scan : row'[s] # "absent"} = {s \in Scan : row[s] # "absent"} \cup {c}
    BY <1>1, <1>2, <2>1 DEF TypeOK, CaptureScan
  <2>3. UNCHANGED <<events, discarded>>
    BY <1>2 DEF CaptureScan, serverVars
  <2>4. Delivery!Capture(c)
    BY <2>1, <2>2, <2>3 DEF Delivery!Capture
  <2>5. QED
    BY <2>1, <2>4 DEF Delivery!Next
<1>3. CASE \E a \in Caller, s \in Scan : Accepted(a, s)
  <2>1. PICK a \in Caller, s \in Scan : Accepted(a, s)
    BY <1>3
  <2>2. /\ UNCHANGED <<captured, events, discarded>>
        /\ s \in {t \in Scan : events[t] > 0}
    BY <1>1, <2>1 DEF Accepted, AnswerIsTrue, serverVars
  <2>3. {t \in Scan : row'[t] # "absent"} = {t \in Scan : row[t] # "absent"} \ {s}
    BY <1>1, <2>1 DEF TypeOK, Accepted, DeleteById
  <2>4. CASE row[s] = "absent"
    BY <2>2, <2>3, <2>4 DEF Delivery!vars
  <2>5. CASE row[s] # "absent"
    <3>1. Delivery!Release(s)
      BY <2>2, <2>3, <2>5 DEF Delivery!Release
    <3>2. QED
      BY <3>1 DEF Delivery!Next
  <2>6. QED
    BY <2>4, <2>5
<1>4. CASE \E S \in Selections : UserDiscard(S)
  <2>1. PICK S \in Selections : UserDiscard(S)
    BY <1>4
  <2>2. PICK D \in SUBSET {s \in Scan : row[s] # "absent"} : D = S \cap Dead
    BY DEF Dead
  <2>3. {t \in Scan : row'[t] # "absent"} = {t \in Scan : row[t] # "absent"} \ D
    BY <1>1, <2>1, <2>2 DEF TypeOK, UserDiscard, DiscardDead
  <2>4. Delivery!Discard(D)
    BY <2>1, <2>2, <2>3 DEF Delivery!Discard, UserDiscard, serverVars
  <2>5. QED
    BY <2>2, <2>4 DEF Delivery!Next
<1>5. CASE \E s \in Scan : /\ s <= captured /\ events' = Inserted(s)
                           /\ UNCHANGED <<captured, row, discarded>>
  BY <1>5, DeliveryCount
<1>6. CASE /\ UNCHANGED <<captured, events, discarded>>
           /\ \E t \in Scan, state \in {"dead", "failed"} : row' = Mark(t, state)
  <2>1. {t \in Scan : row'[t] # "absent"} = {t \in Scan : row[t] # "absent"}
    BY <1>1, <1>6 DEF TypeOK, Mark
  <2>2. QED
    BY <1>6, <2>1 DEF Delivery!vars
<1>7. CASE \E S \in Selections : UserRetry(S)
  <2>1. {t \in Scan : row'[t] # "absent"} = {t \in Scan : row[t] # "absent"}
    BY <1>1, <1>7 DEF TypeOK, UserRetry, RetryDead, Dead
  <2>2. QED
    BY <1>7, <2>1 DEF Delivery!vars, UserRetry, serverVars
<1>8. CASE UNCHANGED <<captured, row, events, discarded>>
  BY <1>8 DEF Delivery!vars
<1>9. \A a \in Caller, s \in Scan :
        Store(a, s) \/ OrphanStore(s) => s <= captured
  <2>1. \A a \in Caller, s \in Scan :
          call[a][s] = "checked" \/ <<s, "checked">> \in orphans => ~(s > captured)
    BY <1>1 DEF Fresh
  <2>2. \A s \in Scan : ~(s > captured) => s <= captured
    BY <1>1, MaxScansAssumption DEF TypeOK
  <2>3. QED
    BY <2>1, <2>2 DEF Store, OrphanStore
<1>10. QED
  <2>1. \A a \in Caller, s \in Scan : Settle(a, s) \/ ServerStep(a, s) =>
          \/ Accepted(a, s)
          \/ s <= captured /\ events' = Inserted(s) /\ UNCHANGED <<captured, row, discarded>>
          \/ /\ UNCHANGED <<captured, events, discarded>>
             /\ \E t \in Scan, state \in {"dead", "failed"} : row' = Mark(t, state)
          \/ UNCHANGED <<captured, row, events, discarded>>
    BY <1>9 DEF Settle, ServerStep, Rejected, Unavailable, TimedOut,
       Unauthorized, Abandon, Authenticate401, Check, Store, serverVars
  <2>2. \A s \in Scan : OrphanCheck(s) \/ OrphanStore(s) =>
          \/ s <= captured /\ events' = Inserted(s) /\ UNCHANGED <<captured, row, discarded>>
          \/ UNCHANGED <<captured, row, events, discarded>>
    BY <1>9 DEF OrphanCheck, OrphanStore
  <2>3. (\E s \in Scan : RecorderStep(s)) \/ (\E d \in Drains : DrainStep(d))
          => UNCHANGED <<captured, row, events, discarded>>
    BY DEF RecorderStep, RecorderSend, StopRecorder, DrainStep, DrainStart,
       DrainRead, DrainSend, StopDrain, Abandon, serverVars
  <2>4. (\E o \in orphans : OrphanLost(o)) \/ SignIn \/ LoseSession
          \/ CloseCampaign \/ UNCHANGED vars
          => UNCHANGED <<captured, row, events, discarded>>
    BY DEF OrphanLost, SignIn, LoseSession, CloseCampaign, vars, serverVars
  <2>5. QED
    BY <1>2, <1>3, <1>4, <1>5, <1>6, <1>7, <1>8, <2>1, <2>2, <2>3, <2>4 DEF Next

\* The recorder, the workers and the handler together keep the promise.
THEOREM ImplementsDelivery == Spec => DeliverySpec
<1>1. IInv /\ [Next]_vars => [Delivery!Next]_Delivery!vars
  BY DeliveryStep
<1>2. QED
  BY <1>1, DeliveryInit, Invariant, PTL DEF Spec, DeliverySpec, Delivery!Spec

-----------------------------------------------------------------------------
(* What a worker holds to try is apart from what it has tried.               *)

\* A row in hand has not been tried in this run.
BatchIsUntried == \A d \in Drains : batch[d] \cap seen[d] = {}

\* The steps that change what the workers hold.
LEMMA HoldingSteps ==
  ASSUME [Next]_vars
  PROVE  \/ UNCHANGED <<batch, seen>>
         \/ \E a \in Caller : EndRun(a)
         \/ \E d \in Drains : DrainRead(d) \/ \E s \in Scan : DrainSend(d, s)
<1>1. CASE \E d \in Drains : DrainStep(d)
  BY <1>1 DEF DrainStep, DrainStart, StopDrain
<1>2. CASE \E a \in Caller, s \in Scan : Settle(a, s) \/ ServerStep(a, s)
  BY <1>2 DEF Settle, Accepted, Rejected, Unavailable, TimedOut, Unauthorized, ServerStep,
     Authenticate401, Check, Store, drainVars
<1>3. ASSUME \/ CaptureScan
             \/ \E s \in Scan : RecorderStep(s)
             \/ \E s \in Scan : OrphanCheck(s) \/ OrphanStore(s)
             \/ \E o \in orphans : OrphanLost(o)
             \/ \E S \in Selections : UserRetry(S) \/ UserDiscard(S)
             \/ SignIn \/ LoseSession \/ CloseCampaign \/ UNCHANGED vars
      PROVE  UNCHANGED <<batch, seen>>
  BY <1>3 DEF vars, drainVars, CaptureScan, RecorderStep, RecorderSend, StopRecorder,
     OrphanCheck, OrphanStore, OrphanLost, UserRetry, UserDiscard, SignIn, LoseSession,
     CloseCampaign
<1>4. QED
  BY <1>1, <1>2, <1>3 DEF Next

\* They keep the two apart.
LEMMA UntriedStep ==
  ASSUME TypeOK, BatchIsUntried, [Next]_vars
  PROVE  BatchIsUntried'
<1>1. CASE UNCHANGED <<batch, seen>>
  BY <1>1 DEF BatchIsUntried
<1>2. CASE \E a \in Caller : EndRun(a)
  BY <1>2 DEF BatchIsUntried, EndRun
<1>3. ASSUME NEW d \in Drains, DrainRead(d)
      PROVE  BatchIsUntried'
  <2>1. CASE EndRun(d)
    BY <1>2, <2>1
  <2>2. CASE /\ batch' = [batch EXCEPT ![d] = TakeBatch \ seen[d]]
             /\ UNCHANGED seen
    BY <2>2 DEF TypeOK, BatchIsUntried
  <2>3. QED
    BY <1>3, <2>1, <2>2 DEF DrainRead
<1>4. ASSUME NEW d \in Drains, NEW s \in Scan, DrainSend(d, s)
      PROVE  BatchIsUntried'
  BY <1>4 DEF TypeOK, BatchIsUntried, DrainSend
<1>5. QED
  BY <1>1, <1>2, <1>3, <1>4, HoldingSteps

\* A worker's attempt begins only with a row of its batch.
LEMMA SentFromBatch ==
  ASSUME TypeOK, [Next]_vars, NEW d \in Drains, NEW s \in Scan,
         call[d][s] # "sent", call'[d][s] = "sent"
  PROVE  s \in batch[d]
<1>1. ASSUME NEW a \in Caller, NEW t \in Scan, NEW p, MoveTo(a, t, p)
      PROVE  d = a /\ s = t /\ p = "sent"
  BY <1>1 DEF TypeOK, MoveTo
<1>2. d # Recorder /\ d \in Caller
  BY RecorderAssumption
<1>3. CASE \E e \in Drains : DrainStep(e)
  <2>1. PICK e \in Drains : DrainStep(e)
    BY <1>3
  <2>2. e \in Caller
    OBVIOUS
  <2>3. ASSUME NEW t \in Scan, DrainSend(e, t)
        PROVE  s \in batch[d]
    BY <1>1, <2>2, <2>3 DEF DrainSend
  <2>4. ASSUME NEW t \in Scan, Abandon(e, t)
        PROVE  FALSE
    BY <1>1, <2>2, <2>4 DEF Abandon
  <2>5. CASE UNCHANGED call
    BY <2>5
  <2>6. QED
    BY <2>1, <2>3, <2>4, <2>5 DEF DrainStep, DrainStart, DrainRead, StopDrain
<1>4. CASE \E a \in Caller, t \in Scan : Settle(a, t) \/ ServerStep(a, t)
  <2>1. PICK a \in Caller, t \in Scan : Settle(a, t) \/ ServerStep(a, t)
    BY <1>4
  <2>2. \E p : MoveTo(a, t, p) /\ p # "sent"
    <3>1. Verdict(t) # "sent"
      BY DEF Verdict
    <3>2. QED
      BY <2>1, <3>1 DEF Settle, Accepted, Rejected, Unavailable, TimedOut, Unauthorized,
         Abandon, ServerStep, Authenticate401, Check, Store
  <2>3. QED
    BY <1>1, <2>2
<1>5. CASE \E t \in Scan : RecorderStep(t)
  <2>1. PICK t \in Scan : RecorderStep(t)
    BY <1>5
  <2>2. \E p : MoveTo(Recorder, t, p)
    BY <2>1 DEF RecorderStep, RecorderSend, StopRecorder, Abandon
  <2>3. QED
    BY <1>1, <1>2, <2>2
<1>6. CASE CaptureScan
  <2>1. captured' \in Scan /\ MoveTo(Recorder, captured', "ready")
    BY <1>6, MaxScansAssumption DEF TypeOK, CaptureScan
  <2>2. QED
    BY <1>1, <1>2, <2>1
<1>7. CASE UNCHANGED call
  BY <1>7
<1>8. QED
  BY <1>3, <1>4, <1>5, <1>6, <1>7 DEF Next, vars, OrphanCheck, OrphanStore, OrphanLost,
     UserRetry, UserDiscard, SignIn, LoseSession, CloseCampaign

\* "Each row is tried at most once per run": a worker sends a row only from its
\* batch, whatever it reads again, and whoever else stops, retries or discards.
THEOREM TriedOnce == Spec => TriedOncePerRun
<1>1. Init => BatchIsUntried
  BY DEF Init, BatchIsUntried
<1>2. TypeOK /\ BatchIsUntried /\ [Next]_vars => BatchIsUntried'
  BY UntriedStep
<1>3. TypeOK /\ BatchIsUntried /\ [Next]_vars =>
        [\A d \in Drains, s \in Scan :
           call[d][s] # "sent" /\ call'[d][s] = "sent" => s \notin seen[d]]_vars
  BY SentFromBatch DEF BatchIsUntried
<1>4. QED
  BY <1>1, <1>2, <1>3, TypeCorrect, PTL DEF Spec, TriedOncePerRun

=============================================================================
