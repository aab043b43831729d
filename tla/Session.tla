------------------------------ MODULE Session ------------------------------
(***************************************************************************)
(* A signed-in client whose access token has run out, and the rotation of  *)
(* its refresh token (lib/api.ts of the web and admin apps, NetworkModule  *)
(* and TokenStore of the Android app; refreshTokens in auth.service.ts).   *)
(*                                                                         *)
(* Several requests are refused with 401 at about the same time.  Each     *)
(* wants the session refreshed before it is sent once more.  The server    *)
(* looks the refresh token up in the blacklist, blacklists it and issues a *)
(* new pair, in steps of their own.  A web page coalesces the refreshes of *)
(* its requests and gives the session up on any failure; the mobile client *)
(* lets every request refresh for itself and gives up on 401 only.         *)
(*                                                                         *)
(* A token stands for the pair of an access and a refresh token.  When     *)
(* the access token runs out is left open: any request may be refused.     *)
(***************************************************************************)
EXTENDS Naturals, FiniteSets

CONSTANTS
  Callers,    \* the requests a client can have in progress at once
  MaxTokens,  \* bounds the token pairs ever issued
  Client      \* "web" or "mobile"

ASSUME CallersAssumption == IsFiniteSet(Callers)
ASSUME MaxTokensAssumption == MaxTokens \in Nat \ {0}
ASSUME ClientAssumption == Client \in {"web", "mobile"}

VARIABLES
  stored,      \* the pair in localStorage or TokenStore
  issued,      \* how many pairs the server has issued: they are 1 .. issued
  parent,      \* history: the pair each was exchanged for, none for a sign-in
  spent,       \* the refresh tokens in the blacklist
  active,      \* the user's account
  call,        \* what each request is doing
  interrupted  \* history: the client went away while the session was in use

vars == <<stored, issued, parent, spent, active, call, interrupted>>

Token     == 1 .. MaxTokens
NoToken   == 0
MaybeToken == Token \cup {NoToken}
Coalesced == Client = "web"

(***************************************************************************)
(* What a request can be at.                                               *)
(*   idle      not sent, answered or failed                                *)
(*   sent      to the API; retried if it was refreshed for before          *)
(*   left      a logout the server has carried out                         *)
(*   waiting   for the refresh another request asked for                   *)
(*   asking    for a refresh; the server has not looked at it              *)
(*   checked   the server did not find the token in the blacklist          *)
(*   granted   the server has answered with a new pair                     *)
(*   denied    the server has answered 401                                 *)
(* quits: the refresh token a logout handed in; token: the one to rotate;  *)
(* new: the pair granted.                                                  *)
(***************************************************************************)
Call ==
  [at : {"idle", "sent", "left", "waiting", "asking", "checked", "granted", "denied"},
   retried : BOOLEAN, quits : MaybeToken, token : MaybeToken, new : MaybeToken]

Idle == [at |-> "idle", retried |-> FALSE, quits |-> NoToken, token |-> NoToken,
         new |-> NoToken]

TypeOK ==
  /\ stored \in MaybeToken
  /\ issued \in MaybeToken
  /\ parent \in [Token -> MaybeToken]
  /\ spent \subseteq Token
  /\ active \in BOOLEAN
  /\ call \in [Callers -> Call]
  /\ interrupted \in BOOLEAN
  /\ \A c \in Callers :
       call[c].at \in {"asking", "checked", "granted", "denied"} => call[c].token \in Token

\* The user has signed in.
Init ==
  /\ stored = 1
  /\ issued = 1
  /\ parent = [t \in Token |-> NoToken]
  /\ spent = {}
  /\ active = TRUE
  /\ call = [c \in Callers |-> Idle]
  /\ interrupted = FALSE

At(phases)  == {c \in Callers : call[c].at \in phases}
Refreshing  == At({"asking", "checked", "granted", "denied"})

\* There is a pair left for one more sign-in or refresh.
CanIssue == issued + Cardinality(At({"asking", "checked"})) < MaxTokens

(***************************************************************************)
(* Requests.                                                               *)
(***************************************************************************)
Move(c, phase) == call' = [call EXCEPT ![c].at = phase]

\* The requests in cs are over.  A logout forgets the session however it ends.
End(cs) ==
  call' = [c \in Callers |-> IF c \in cs THEN Idle ELSE call[c]]
Kept(cs) ==
  IF \E c \in cs : call[c].quits # NoToken THEN NoToken ELSE stored

\* Those that learn what became of c's refresh.
Concerned(c) == {c} \cup At({"waiting"})

Send(c) ==
  /\ call[c].at = "idle"
  /\ stored # NoToken
  /\ call' = [call EXCEPT ![c] = [Idle EXCEPT !.at = "sent"]]
  /\ UNCHANGED <<stored, issued, parent, spent, active, interrupted>>

LogOut(c) ==
  /\ Client = "web"
  /\ call[c].at = "idle"
  /\ stored # NoToken
  /\ call' = [call EXCEPT ![c] = [Idle EXCEPT !.at = "sent", !.quits = stored]]
  /\ UNCHANGED <<stored, issued, parent, spent, active, interrupted>>

\* An answer other than 401, an error included.
Answer(c) ==
  /\ call[c].at = "sent"
  /\ stored' = Kept({c})
  /\ End({c})
  /\ UNCHANGED <<issued, parent, spent, active, interrupted>>

\* The server carries a logout out; the blacklist may not take the token.
LogOutHandled(c) ==
  /\ call[c].at = "sent" /\ call[c].quits # NoToken
  /\ Move(c, "left")
  /\ spent' \in {spent, spent \cup {call[c].quits}}
  /\ UNCHANGED <<stored, issued, parent, active, interrupted>>

LoggedOut(c) ==
  /\ call[c].at = "left"
  /\ stored' = Kept({c})
  /\ End({c})
  /\ UNCHANGED <<issued, parent, spent, active, interrupted>>

\* 401 for a request that was refreshed for already: the web signs out.
RefusedAgain(c) ==
  /\ call[c].at = "sent" /\ call[c].retried
  /\ stored' = IF Client = "web" THEN NoToken ELSE stored
  /\ End({c})
  /\ UNCHANGED <<issued, parent, spent, active, interrupted>>

\* Mutant: a request without a stored token asks for a refresh all the same.
AskBlindly(c) ==
  IF Coalesced /\ Refreshing # {}
  THEN call' = [call EXCEPT ![c].at = "waiting", ![c].retried = TRUE]
  ELSE /\ CanIssue
       /\ call' = [call EXCEPT ![c].at = "asking", ![c].retried = TRUE, ![c].token = stored]

\* Mutant: every request of the page refreshes for itself.
AskForItself(c) ==
  IF stored = NoToken THEN End({c})
  ELSE /\ CanIssue
       /\ call' = [call EXCEPT ![c].at = "asking", ![c].retried = TRUE, ![c].token = stored]

Ask(c) ==
  IF Coalesced /\ Refreshing # {}
  THEN call' = [call EXCEPT ![c].at = "waiting", ![c].retried = TRUE]
  ELSE IF stored = NoToken THEN End({c})
  ELSE /\ CanIssue
       /\ call' = [call EXCEPT ![c].at = "asking", ![c].retried = TRUE, ![c].token = stored]

\* 401 for the first time: no session, or one to refresh.
Refused(c) ==
  /\ call[c].at = "sent" /\ ~call[c].retried
  /\ Ask(c)
  /\ UNCHANGED <<stored, issued, parent, spent, active, interrupted>>

(***************************************************************************)
(* The refresh endpoint.                                                   *)
(***************************************************************************)

\* isTokenBlacklisted, which answers no when the blacklist is out of reach.
RefreshCheck(c) ==
  /\ call[c].at = "asking"
  /\ \/ Move(c, "checked")
     \/ call[c].token \in spent /\ Move(c, "denied")
  /\ UNCHANGED <<stored, issued, parent, spent, active, interrupted>>

Issue(c) ==
  /\ issued' = issued + 1
  /\ parent' = [parent EXCEPT ![issued + 1] = call[c].token]
  /\ call' = [call EXCEPT ![c].at = "granted", ![c].new = issued + 1]

\* blacklistToken, whose failure is only logged, and the rest of refreshTokens.
RefreshIssue(c) ==
  /\ call[c].at = "checked"
  /\ spent' \in {spent, spent \cup {call[c].token}}
  /\ IF active THEN Issue(c)
     ELSE Move(c, "denied") /\ UNCHANGED <<issued, parent>>
  /\ UNCHANGED <<stored, active, interrupted>>

(***************************************************************************)
(* What the client makes of its answer.                                    *)
(***************************************************************************)

\* Mutant: those that wait for a refresh are not told of it.
AnsweredAlone(c) ==
  [d \in Callers |->
     IF d = c THEN [call[d] EXCEPT !.at = "sent", !.token = NoToken, !.new = NoToken]
     ELSE call[d]]

SentAgain(c) ==
  [d \in Callers |->
     IF d \in Concerned(c)
     THEN [call[d] EXCEPT !.at = "sent", !.token = NoToken, !.new = NoToken]
     ELSE call[d]]

Resume(c) ==
  /\ call[c].at = "granted"
  /\ stored' = call[c].new
  /\ call' = SentAgain(c)
  /\ UNCHANGED <<issued, parent, spent, active, interrupted>>

Rejected(c) ==
  /\ call[c].at = "denied"
  /\ stored' = NoToken
  /\ End(Concerned(c))
  /\ UNCHANGED <<issued, parent, spent, active, interrupted>>

OnFailure(c) == IF Client = "web" THEN NoToken ELSE Kept(Concerned(c))

\* The request or its answer is lost, or the server fails on the way.
NoAnswer(c) ==
  /\ call[c].at \in {"asking", "checked", "granted"}
  /\ spent' \in {spent, IF call[c].at = "checked" THEN spent \cup {call[c].token} ELSE spent}
  /\ stored' = OnFailure(c)
  /\ End(Concerned(c))
  /\ UNCHANGED <<issued, parent, active, interrupted>>

(***************************************************************************)
(* The user, and the client as a whole.                                    *)
(***************************************************************************)
SignIn ==
  /\ stored = NoToken /\ active /\ CanIssue
  /\ issued' = issued + 1
  /\ stored' = issued + 1
  /\ UNCHANGED <<parent, spent, active, call, interrupted>>

Deactivate ==
  /\ active
  /\ active' = FALSE
  /\ UNCHANGED <<stored, issued, parent, spent, call, interrupted>>

\* The page is closed or reloaded, or the app is killed.
Leave ==
  /\ At({"idle"}) # Callers
  /\ End(Callers)
  /\ interrupted' = (interrupted \/ Refreshing \cup At({"left"}) # {})
  /\ \E handled \in SUBSET At({"checked"}) :
       spent' = spent \cup {call[c].token : c \in handled}
  /\ UNCHANGED <<stored, issued, parent, active>>

Answered(c) == Answer(c) \/ LoggedOut(c) \/ RefusedAgain(c)
Refreshed(c) == Resume(c) \/ Rejected(c) \/ NoAnswer(c)

Next ==
  \/ \E c \in Callers :
       \/ Send(c) \/ LogOut(c) \/ LogOutHandled(c) \/ Refused(c)
       \/ RefreshCheck(c) \/ RefreshIssue(c)
       \/ Answered(c) \/ Refreshed(c)
  \/ SignIn \/ Deactivate \/ Leave

\* Every request and every refresh is answered or fails in the end: the clients'
\* timeouts, or a broken connection, see to that.
Fairness ==
  \A c \in Callers :
    /\ WF_vars(Answered(c)) /\ WF_vars(Refreshed(c))
    /\ WF_vars(RefreshCheck(c)) /\ WF_vars(RefreshIssue(c))

Spec     == Init /\ [][Next]_vars
FairSpec == Spec /\ Fairness

(***************************************************************************)
(* Properties.                                                             *)
(***************************************************************************)

\* As long as the client stays, a refresh token buys one pair: the server's
\* look-up and its blacklisting are two steps, and the blacklist may be out of
\* reach, so it is the page that keeps two refreshes from using one token.  And
\* what a page has stored can be refreshed, unless a refresh of it or a logout
\* is on its way to replace it: no order of answers leaves a spent token behind.
TokensAreSound ==
  ~interrupted =>
    /\ \A t, u \in Token : parent[t] = parent[u] /\ parent[t] # NoToken => t = u
    /\ stored \in spent =>
         \E c \in Callers :
           \/ call[c].at \in {"checked", "granted", "denied"} /\ call[c].token = stored
           \/ call[c].quits # NoToken

\* Nothing waits for a refresh that is over: every request comes to an end.
CallsEnd == \A c \in Callers : (call[c].at # "idle") ~> (call[c].at = "idle")

\* Tokens are cleared only when the session is dead: the account is closed, or
\* the refresh token that is thrown away is one the server would reject.
ClearedOnlyWhenDead == [][stored # NoToken /\ stored' = NoToken => ~active \/ stored \in spent]_vars
=============================================================================
