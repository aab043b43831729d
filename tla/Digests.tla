------------------------------ MODULE Digests ------------------------------
(***************************************************************************)
(* The e-mail digests of one frequency: users subscribe to types of        *)
(* exception, the scheduler's ticks look for the subscriptions that are    *)
(* due, queue one digest a user, and record when each subscription was     *)
(* last served.  The worker may die between any two steps; its tick is     *)
(* then taken again.                                                       *)
(***************************************************************************)
EXTENDS Integers

CONSTANTS
  Users, Types,  \* who subscribes to what
  Guard,         \* RESEND_GUARD_HOURS
  MaxHour        \* bound: the clock stops here

ASSUME HoursAssumption == Guard \in Nat /\ MaxHour \in Nat

VARIABLES
  hour,    \* the clock
  sub,     \* the rows of alert_subscriptions
  tick,    \* the handler of the tick, one at a time; gone: rows deleted since it looked
  \* history
  served,  \* per subscription: hour of the last digest about it, or Unserved
  unsaid   \* subscriptions whose last digest the worker died before recording

digVars == <<hour, sub, tick, served, unsaid>>

-----------------------------------------------------------------------------
Unserved == -1
Subs     == Users \X Types
NoSub    == [is |-> "none", sent |-> Unserved]
TickIdle == [at |-> "idle"]
SubsOf(u, subs) == {s \in subs : s[1] = u}

DigInit ==
  /\ hour = 0
  /\ sub = [s \in Subs |-> NoSub]
  /\ tick = TickIdle
  /\ served = [s \in Subs |-> Unserved]
  /\ unsaid = {}

\* upsertSubscription creates the row, or makes it active again as it is.
Subscribe(s) ==
  /\ sub[s].is # "active"
  /\ sub' = [sub EXCEPT ![s].is = "active"]
  /\ UNCHANGED <<hour, tick, served, unsaid>>

\* toggleSubscription, to inactive.
Pause(s) ==
  /\ sub[s].is = "active"
  /\ sub' = [sub EXCEPT ![s].is = "paused"]
  /\ UNCHANGED <<hour, tick, served, unsaid>>

\* deleteSubscription: with the row goes what was known of the last digest.
Unsubscribe(s) ==
  /\ sub[s] # NoSub
  /\ sub' = [sub EXCEPT ![s] = NoSub]
  /\ served' = [served EXCEPT ![s] = Unserved]
  /\ unsaid' = unsaid \ {s}
  /\ tick' = IF tick = TickIdle THEN tick ELSE [tick EXCEPT !.gone = @ \cup ({s} \cap tick.left)]
  /\ UNCHANGED hour

-----------------------------------------------------------------------------
\* Mutant: no guard.
DueAlways == {s \in Subs : sub[s].is = "active"}

\* handleSchedulerTick: the subscriptions that are due, by one look at the clock.
Due == {s \in Subs : /\ sub[s].is = "active"
                     /\ sub[s].sent = Unserved \/ sub[s].sent < hour - Guard}

Tick ==
  /\ tick = TickIdle /\ Due # {}
  /\ tick' = [at |-> "user", left |-> Due, gone |-> {}]
  /\ UNCHANGED <<hour, sub, served, unsaid>>

\* The next user: inactive, or with nothing to report, and passed over; or the
\* digest about the user's due subscriptions is queued.
NextUser(u) ==
  /\ tick.at = "user" /\ SubsOf(u, tick.left) # {}
  /\ \/ /\ tick' = IF tick.left = SubsOf(u, tick.left) THEN TickIdle
                   ELSE [tick EXCEPT !.left = @ \ SubsOf(u, @)]
        /\ UNCHANGED served
     \/ /\ tick' = [at |-> "stamp", left |-> tick.left, gone |-> tick.gone, user |-> u]
        /\ served' = [s \in Subs |-> IF s \in SubsOf(u, tick.left) \ tick.gone
                                     THEN hour ELSE served[s]]
  /\ UNCHANGED <<hour, sub, unsaid>>

\* lastSentAt of the rows of theirs that are still there.
Stamp ==
  /\ tick.at = "stamp"
  /\ LET told == SubsOf(tick.user, tick.left)  left == tick.left \ told
     IN /\ sub' = [s \in Subs |-> IF s \in told \ tick.gone
                                  THEN [sub[s] EXCEPT !.sent = hour] ELSE sub[s]]
        /\ unsaid' = unsaid \ (told \ tick.gone)
        /\ tick' = IF left = {} THEN TickIdle
                   ELSE [at |-> "user", left |-> left, gone |-> tick.gone \cap left]
  /\ UNCHANGED <<hour, served>>

\* The worker dies; the tick that is taken again is like any other.
TickDies ==
  /\ tick # TickIdle
  /\ unsaid' = IF tick.at = "stamp"
               THEN unsaid \cup (SubsOf(tick.user, tick.left) \ tick.gone) ELSE unsaid
  /\ tick' = TickIdle
  /\ UNCHANGED <<hour, sub, served>>

Hour ==
  /\ hour < MaxHour /\ hour' = hour + 1
  /\ UNCHANGED <<sub, tick, served, unsaid>>

DigNext ==
  \/ \E s \in Subs : Subscribe(s) \/ Pause(s) \/ Unsubscribe(s)
  \/ Tick \/ (\E u \in Users : NextUser(u)) \/ Stamp \/ TickDies \/ Hour

DigSpec == DigInit /\ [][DigNext]_digVars

-----------------------------------------------------------------------------
DigTypeOK ==
  /\ hour \in 0..MaxHour
  /\ sub \in [Subs -> [is : {"none", "active", "paused"}, sent : Unserved..MaxHour]]
  /\ tick \in {TickIdle} \cup [at : {"user"}, left : SUBSET Subs, gone : SUBSET Subs]
              \cup [at : {"stamp"}, left : SUBSET Subs, gone : SUBSET Subs, user : Users]
  /\ served \in [Subs -> Unserved..MaxHour] /\ unsaid \subseteq Subs

\* A subscription is not served twice within the guard, whatever ticks are
\* fired again, unless the worker died between the digest and the record of it.
ServesSpaced ==
  \A u \in Users, s \in Subs :
       tick.at = "user" /\ tick' = [at |-> "stamp", left |-> tick.left, gone |-> tick.gone, user |-> u]
       /\ s \in SubsOf(u, tick.left) \ tick.gone
       => served[s] = Unserved \/ served[s] < hour - Guard \/ s \in unsaid
=============================================================================
