---------------------------- MODULE PhotoOutbox ----------------------------
(***************************************************************************)
(* Photos of one asset, from the camera of the Android app to the table of *)
(* the API: the queue, the screen that sends a photo as it is taken, the   *)
(* worker that sends what is left, the user who throws rejected photos     *)
(* away, and uploadPhoto and deletePhoto.  An upload carries no key: a     *)
(* replay is another photo to the server.                                  *)
(***************************************************************************)
EXTENDS Handlers, Sequences, FiniteSetsExt, SequencesExt

CONSTANTS
  PhotoLimit,   \* photos of an asset (2 in the code)
  MaxPhotos,    \* bound: photos taken
  Works,        \* how many workers may run at once (2: two unique works)
  MaxStored     \* bound: photos the server has at one time

ASSUME PhotosAssumption ==
  PhotoLimit \in Nat /\ MaxPhotos \in Nat /\ Works \in Nat /\ MaxStored \in Nat

VARIABLES
  queue,       \* per photo taken: its row in queued_photos and its file
  sender,      \* per photo: the coroutine of the screen; per worker: its call
  drain,       \* per worker: its run
  discarding,  \* the user's discard in progress
  discarded,   \* history: photos the user has told the app to throw away
  stored,      \* how many photos of the asset the server has
  reached,     \* history: photos the server has recorded, once or more
  phoReq       \* per request: where the API is with it

phoVars == <<queue, sender, drain, discarding, discarded, stored, reached, phoReq>>

-----------------------------------------------------------------------------
Photos   == 1..MaxPhotos
Workers  == {-w : w \in 1..Works}
NoCaller == 0
Senders  == Workers \cup Photos
Taken   == DOMAIN queue
LivePhoto    == {"pending", "failed"}

\* What a sender makes of its call, as classifySyncFailure sorts it: "lost" is
\* NETWORK, "failed" TRANSIENT, "rejected" PERMANENT, "auth" AUTH.
Outcomes == {"accepted", "rejected", "failed", "lost", "auth"}

QueuedPhoto == [row : LivePhoto \cup {"none", "dead"}, file : BOOLEAN]
Quiet       == [at |-> "idle"]
SenderStates ==
  {Quiet} \cup [at : {"send", "wait", "cleanup"} \cup Outcomes, photo : Photos]
Resting     == [on |-> FALSE, batch |-> {}, seen |-> {}]
Drain       == [on : BOOLEAN, batch : SUBSET Photos, seen : SUBSET Photos]
Discards    == {Quiet} \cup [at : {"row", "files"}, photo : Photos]

PhoStates   ==
  {Quiet} \cup [at : {"asked", "counted"}, photo : Photos, caller : Senders \cup {NoCaller}]

PhoInit ==
  /\ queue = <<>>
  /\ sender = [s \in Senders |-> Quiet]
  /\ drain = [w \in Workers |-> Resting]
  /\ discarding = Quiet
  /\ discarded = {}
  /\ stored = 0
  /\ reached = {}
  /\ phoReq = [r \in Requests |-> Quiet]

-----------------------------------------------------------------------------
SetSender(s, state) == sender' = [sender EXCEPT ![s] = state]
SetPhoReq(r, state) == phoReq' = [phoReq EXCEPT ![r] = state]

\* An update by id, which finds no row when the row has gone.
MarkPhoto(p, state) ==
  queue' = IF queue[p].row = "none" THEN queue ELSE [queue EXCEPT ![p].row = state]

\* The request ends, and its caller, if it still waits, hears of it.
Reply(r, outcome) ==
  LET c == phoReq[r].caller IN
  /\ SetPhoReq(r, Quiet)
  /\ sender' = IF c = NoCaller THEN sender ELSE [sender EXCEPT ![c].at = outcome]

\* The calls of a sender go on without it.
LeaveCalls(s) ==
  phoReq' = [r \in Requests |->
    IF phoReq[r] # Quiet /\ phoReq[r].caller = s
    THEN [phoReq[r] EXCEPT !.caller = NoCaller] ELSE phoReq[r]]

-----------------------------------------------------------------------------
(* The device *)

\* uploadFromUri: the row is inserted before anything is sent.
TakePhoto ==
  LET p == Len(queue) + 1 IN
  /\ p <= MaxPhotos
  /\ queue' = Append(queue, [row |-> "pending", file |-> TRUE])
  /\ SetSender(p, [at |-> "send", photo |-> p])
  /\ UNCHANGED <<drain, discarding, discarded, stored, reached, phoReq>>

\* doWork, of the periodic work or of the one that is asked for.
StartDrain(w) ==
  /\ ~drain[w].on /\ sender[w] = Quiet
  /\ drain' = [drain EXCEPT ![w].on = TRUE]
  /\ UNCHANGED <<queue, sender, discarding, discarded, stored, reached, phoReq>>

\* nextBatch: live rows that were not tried in this run; with none, it ends.
ReadBatch(w) ==
  /\ drain[w].on /\ sender[w] = Quiet /\ drain[w].batch = {}
  /\ LET rows == {p \in Taken : queue[p].row \in LivePhoto} \ drain[w].seen IN
     drain' = [drain EXCEPT ![w] = IF rows = {} THEN Resting ELSE [@ EXCEPT !.batch = rows]]
  /\ UNCHANGED <<queue, sender, discarding, discarded, stored, reached, phoReq>>

NextPhoto(w) ==
  /\ drain[w].on /\ sender[w] = Quiet /\ drain[w].batch # {}
  /\ LET p == Min(drain[w].batch) IN
     /\ drain' = [drain EXCEPT ![w].batch = @ \ {p}, ![w].seen = @ \cup {p}]
     /\ SetSender(w, [at |-> "send", photo |-> p])
  /\ UNCHANGED <<queue, discarding, discarded, stored, reached, phoReq>>

\* The call is made, or there is no network.  Without the file the worker has
\* an UnsendableException, the screen an IOException.
SendPhoto(s) ==
  /\ sender[s].at = "send"
  /\ LET p == sender[s].photo IN
     IF queue[p].file
     THEN \/ \E r \in Requests :
               /\ phoReq[r] = Quiet
               /\ SetPhoReq(r, [at |-> "asked", photo |-> p, caller |-> s])
               /\ SetSender(s, [at |-> "wait", photo |-> p])
          \/ SetSender(s, [at |-> "lost", photo |-> p]) /\ UNCHANGED phoReq
     ELSE /\ SetSender(s, [at |-> IF s \in Workers THEN "rejected" ELSE "lost", photo |-> p])
          /\ UNCHANGED phoReq
  /\ UNCHANGED <<queue, drain, discarding, discarded, stored, reached>>

\* A time limit, a broken connection or a gateway's answer ends the call at the
\* caller; the server goes on.
GiveUp(s) ==
  /\ sender[s].at = "wait"
  /\ \E outcome \in {"lost", "failed"} : SetSender(s, [sender[s] EXCEPT !.at = outcome])
  /\ LeaveCalls(s)
  /\ UNCHANGED <<queue, drain, discarding, discarded, stored, reached>>

\* What follows a photo: the worker goes on unless the outcome ends its run.
Proceed(s, ends) ==
  /\ SetSender(s, Quiet)
  /\ drain' = IF s \in Workers /\ ends THEN [drain EXCEPT ![s] = Resting] ELSE drain

\* Accepted: the row goes, then the files.
SettlePhoto(s) ==
  /\ sender[s].at = "accepted"
  /\ MarkPhoto(sender[s].photo, "none")
  /\ SetSender(s, [sender[s] EXCEPT !.at = "cleanup"])
  /\ UNCHANGED <<drain, discarding, discarded, stored, reached, phoReq>>

DeleteFiles(s) ==
  /\ sender[s].at = "cleanup"
  /\ queue' = [queue EXCEPT ![sender[s].photo].file = FALSE]
  /\ Proceed(s, FALSE)
  /\ UNCHANGED <<discarding, discarded, stored, reached, phoReq>>

\* Mutant: a rejected photo is removed instead of parked.
ParkNowhere(s) ==
  /\ sender[s].at = "rejected"
  /\ MarkPhoto(sender[s].photo, "none")
  /\ Proceed(s, FALSE)
  /\ UNCHANGED <<discarding, discarded, stored, reached, phoReq>>

\* Rejected: the row is parked for the user.
Park(s) ==
  /\ sender[s].at = "rejected"
  /\ MarkPhoto(sender[s].photo, "dead")
  /\ Proceed(s, FALSE)
  /\ UNCHANGED <<discarding, discarded, stored, reached, phoReq>>

\* Anything else leaves the row for a later run, whatever it has become.
KeepPhoto(s) ==
  /\ sender[s].at \in {"failed", "lost", "auth"}
  /\ IF sender[s].at = "auth" THEN UNCHANGED queue
     ELSE MarkPhoto(sender[s].photo, "failed")
  /\ Proceed(s, sender[s].at # "failed")
  /\ UNCHANGED <<discarding, discarded, stored, reached, phoReq>>

\* The screen is left, the worker stopped, the process killed.
StopPhoto(s) ==
  /\ sender[s] # Quiet
  /\ Proceed(s, TRUE)
  /\ LeaveCalls(s)
  /\ UNCHANGED <<queue, discarding, discarded, stored, reached>>

\* retryDead, of a photo the user saw rejected.
RetryPhoto(p) ==
  /\ queue[p].row = "dead"
  /\ MarkPhoto(p, "pending")
  /\ UNCHANGED <<sender, drain, discarding, discarded, stored, reached, phoReq>>

\* discardPhoto: the row is looked at, deleted if it is still dead, and the
\* files go in any case.
DiscardPhoto(p) ==
  /\ discarding = Quiet /\ queue[p].row = "dead"
  /\ discarding' = [at |-> "row", photo |-> p]
  /\ discarded' = discarded \cup {p}
  /\ UNCHANGED <<queue, sender, drain, stored, reached, phoReq>>
DiscardRow ==
  /\ discarding.at = "row"
  /\ queue' = [queue EXCEPT ![discarding.photo].row = IF @ = "dead" THEN "none" ELSE @]
  /\ discarding' = [discarding EXCEPT !.at = "files"]
  /\ UNCHANGED <<sender, drain, discarded, stored, reached, phoReq>>
DiscardFiles ==
  /\ discarding.at = "files"
  /\ queue' = [queue EXCEPT ![discarding.photo].file = FALSE]
  /\ discarding' = Quiet
  /\ UNCHANGED <<sender, drain, discarded, stored, reached, phoReq>>
StopDiscard ==
  /\ discarding # Quiet
  /\ discarding' = Quiet
  /\ UNCHANGED <<queue, sender, drain, discarded, stored, reached, phoReq>>

-----------------------------------------------------------------------------
(* The API *)

DeviceRests == UNCHANGED <<queue, drain, discarding, discarded>>

\* uploadPhoto: the photos there are decide, long before this one is there.
CountPhotos(r) ==
  /\ phoReq[r].at = "asked"
  /\ IF stored >= PhotoLimit
     THEN Reply(r, "rejected")
     ELSE SetPhoReq(r, [phoReq[r] EXCEPT !.at = "counted"]) /\ UNCHANGED sender
  /\ UNCHANGED <<stored, reached>> /\ DeviceRests

\* The object has been put by then, under a name of its own.
InsertRow(r) ==
  /\ phoReq[r].at = "counted" /\ stored < MaxStored
  /\ stored' = stored + 1
  /\ reached' = reached \cup {phoReq[r].photo}
  /\ Reply(r, "accepted")
  /\ DeviceRests

\* The replica, the database or the object store fails; before the handler the
\* session, a permission or the kind of file is refused.
FailUpload(r) ==
  /\ phoReq[r] # Quiet
  /\ \E outcome \in {"failed", "lost"} \cup (IF phoReq[r].at = "asked" THEN {"auth", "rejected"} ELSE {}) :
       Reply(r, outcome)
  /\ UNCHANGED <<stored, reached>> /\ DeviceRests

\* deletePhoto: of two deletions of one row the second finds none.
DeletePhoto ==
  /\ stored > 0
  /\ stored' = stored - 1
  /\ UNCHANGED <<sender, phoReq, reached>> /\ DeviceRests

PhoNext ==
  \/ TakePhoto
  \/ \E w \in Workers : StartDrain(w) \/ ReadBatch(w) \/ NextPhoto(w)
  \/ \E s \in Senders : \/ SendPhoto(s) \/ GiveUp(s) \/ SettlePhoto(s) \/ DeleteFiles(s)
                        \/ Park(s) \/ KeepPhoto(s) \/ StopPhoto(s)
  \/ \E p \in Taken : RetryPhoto(p) \/ DiscardPhoto(p)
  \/ DiscardRow \/ DiscardFiles \/ StopDiscard
  \/ \E r \in Requests : CountPhotos(r) \/ InsertRow(r) \/ FailUpload(r)
  \/ DeletePhoto

PhoSpec == PhoInit /\ [][PhoNext]_phoVars

-----------------------------------------------------------------------------
PhoTypeOK ==
  /\ queue \in Seq(QueuedPhoto) /\ Len(queue) <= MaxPhotos
  /\ sender \in [Senders -> SenderStates]
  /\ drain \in [Workers -> Drain]
  /\ discarding \in Discards
  /\ discarded \subseteq Photos
  /\ stored \in 0..MaxStored
  /\ reached \subseteq Photos
  /\ phoReq \in [Requests -> PhoStates]

\* A photo taken is on the device, row and file, until the server has recorded
\* it or the user has told the app to throw it away; and the server's photos
\* exceed the limit by no more than the other uploads it was handling.
PhotosAreKept ==
  /\ \A p \in Taken :
       (queue[p].row # "none" /\ queue[p].file) \/ p \in reached \/ p \in discarded
  /\ stored <= PhotoLimit + Cardinality(Requests) - 1
=============================================================================
