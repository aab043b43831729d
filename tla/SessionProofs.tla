--------------------------- MODULE SessionProofs ---------------------------
(***************************************************************************)
(* Proofs about Session, for any number of requests and of token pairs.    *)
(***************************************************************************)
EXTENDS Session, FiniteSetTheorems, TLAPS

Phases == {"idle", "sent", "left", "waiting", "asking", "checked", "granted", "denied"}

\* A request can be moved from one phase to another, and stays a request.
LEMMA CallType ==
  /\ Idle \in Call
  /\ \A r \in Call, p \in Phases : [r EXCEPT !.at = p] \in Call
  /\ \A r \in Call, p \in Phases, t \in MaybeToken :
       [r EXCEPT !.at = p, !.retried = TRUE, !.token = t] \in Call
  /\ \A r \in Call, p \in Phases :
       [r EXCEPT !.at = p, !.retried = TRUE] \in Call
  /\ \A r \in Call, p \in Phases, t \in MaybeToken :
       /\ [r EXCEPT !.at = p, !.quits = t] \in Call
       /\ [r EXCEPT !.at = p, !.new = t] \in Call
  /\ \A r \in Call, p \in Phases, t, n \in MaybeToken :
       [r EXCEPT !.at = p, !.token = t, !.new = n] \in Call
  BY ZenonT(40) DEF Call, Phases, Idle, MaybeToken

\* The requests that ask for a pair have one left each.
Room == issued + Cardinality(At({"asking", "checked"})) <= MaxTokens

Types == TypeOK /\ Room

LEMMA InitTypes == Init => Types
<1>1. Init => TypeOK
  <2>1. 1 \in Token /\ \A c \in Callers : [d \in Callers |-> Idle][c].at = "idle"
    BY MaxTokensAssumption DEF Token, Idle
  <2>2. [c \in Callers |-> Idle] \in [Callers -> Call]
    BY CallType
  <2>3. QED
    BY <2>1, <2>2 DEF Init, TypeOK, MaybeToken
<1>2. Init => At({"asking", "checked"}) = {}
  BY DEF Init, At, Idle
<1>3. QED
  BY <1>1, <1>2, FS_EmptySet, MaxTokensAssumption DEF Types, Room, Init

\* No request starts to ask: no more pairs are wanted than before.
LEMMA RoomKept ==
  ASSUME Types, issued' = issued, At({"asking", "checked"})' \subseteq At({"asking", "checked"})
  PROVE  Room'
<1> DEFINE A == At({"asking", "checked"})
<1>1. IsFiniteSet(A)
  BY CallersAssumption, FS_Subset DEF At
<1>2. Cardinality(A') <= Cardinality(A) /\ Cardinality(A) \in Nat /\ Cardinality(A') \in Nat
  BY <1>1, FS_Subset, FS_CardinalityType
<1>3. issued \in Nat /\ MaxTokens \in Nat
  BY MaxTokensAssumption DEF Types, TypeOK, MaybeToken, Token, NoToken
<1>4. QED
  BY <1>2, <1>3 DEF Types, Room

-----------------------------------------------------------------------------
(* What becomes of the requests *)

LEMMA MoveCall ==
  ASSUME TypeOK, NEW c \in Callers, NEW p \in Phases, Move(c, p)
  PROVE  /\ call' \in [Callers -> Call]
         /\ call'[c] = [call[c] EXCEPT !.at = p]
         /\ \A d \in Callers \ {c} : call'[d] = call[d]
<1>1. call[c] \in Call
  BY DEF TypeOK
<1>2. [call[c] EXCEPT !.at = p] \in Call
  BY <1>1, CallType
<1>3. call' = [call EXCEPT ![c] = [call[c] EXCEPT !.at = p]]
  BY SMTT(30) DEF TypeOK, Move
<1>4. QED
  BY <1>2, <1>3 DEF TypeOK

LEMMA EndCall ==
  ASSUME TypeOK, NEW cs, End(cs)
  PROVE  /\ call' \in [Callers -> Call]
         /\ \A d \in Callers : call'[d] = IF d \in cs THEN Idle ELSE call[d]
  BY CallType DEF TypeOK, End

LEMMA SendCall ==
  ASSUME TypeOK, NEW c \in Callers, NEW q \in MaybeToken,
         call' = [call EXCEPT ![c] = [Idle EXCEPT !.at = "sent", !.quits = q]]
  PROVE  /\ call' \in [Callers -> Call]
         /\ call'[c].at = "sent" /\ call'[c].quits = q
         /\ call'[c].token = NoToken /\ call'[c].new = NoToken
         /\ \A d \in Callers \ {c} : call'[d] = call[d]
<1> DEFINE sends == [Idle EXCEPT !.at = "sent", !.quits = q]
<1>1. sends \in Call
  BY CallType DEF Phases
<1>2. Idle \in Call /\ Idle.token = NoToken /\ Idle.new = NoToken
  BY CallType DEF Idle
<1>3. sends.at = "sent" /\ sends.quits = q /\ sends.token = NoToken /\ sends.new = NoToken
  BY <1>2 DEF Call
<1>4. QED
  BY SMTT(30), <1>1, <1>3 DEF TypeOK

LEMMA PlainSendCall ==
  ASSUME TypeOK, NEW c \in Callers,
         call' = [call EXCEPT ![c] = [Idle EXCEPT !.at = "sent"]]
  PROVE  /\ call' \in [Callers -> Call]
         /\ call'[c].at = "sent" /\ call'[c].quits = NoToken
         /\ call'[c].token = NoToken /\ call'[c].new = NoToken
         /\ \A d \in Callers \ {c} : call'[d] = call[d]
<1> DEFINE sends == [Idle EXCEPT !.at = "sent"]
<1>1. sends \in Call
  BY CallType DEF Phases
<1>2. Idle \in Call /\ Idle.quits = NoToken /\ Idle.token = NoToken /\ Idle.new = NoToken
  BY CallType DEF Idle
<1>3. /\ sends.at = "sent" /\ sends.quits = NoToken
      /\ sends.token = NoToken /\ sends.new = NoToken
  BY <1>2 DEF Call
<1>4. QED
  BY SMTT(30), <1>1, <1>3 DEF TypeOK

\* A request that asks for a refresh, waits for one, or gives up.
LEMMA AskCall ==
  ASSUME TypeOK, NEW c \in Callers, Ask(c)
  PROVE  /\ call' \in [Callers -> Call]
         /\ \A d \in Callers \ {c} : call'[d] = call[d]
         /\ \/ /\ Coalesced /\ Refreshing # {}
               /\ call'[c].at = "waiting" /\ call'[c].quits = call[c].quits
               /\ call'[c].token = call[c].token /\ call'[c].new = call[c].new
            \/ /\ stored = NoToken
               /\ call'[c] = Idle
            \/ /\ ~(Coalesced /\ Refreshing # {}) /\ stored # NoToken /\ CanIssue
               /\ call'[c].at = "asking" /\ call'[c].quits = call[c].quits
               /\ call'[c].token = stored /\ call'[c].new = call[c].new
<1>1. call[c] \in Call /\ stored \in MaybeToken
  BY SMTT(30) DEF TypeOK
<1> DEFINE waits == [call[c] EXCEPT !.at = "waiting", !.retried = TRUE]
           asks  == [call[c] EXCEPT !.at = "asking", !.retried = TRUE, !.token = stored]
<1>2. waits \in Call /\ asks \in Call
  BY <1>1, CallType DEF Phases
<1>3. /\ waits.at = "waiting" /\ waits.quits = call[c].quits
      /\ waits.token = call[c].token /\ waits.new = call[c].new
      /\ asks.at = "asking" /\ asks.quits = call[c].quits
      /\ asks.token = stored /\ asks.new = call[c].new
  BY <1>1 DEF Call
<1>4. CASE Coalesced /\ Refreshing # {}
  <2>1. call' = [call EXCEPT ![c] = waits]
    BY <1>4 DEF Ask, TypeOK
  <2>2. QED
    BY <1>2, <1>3, <1>4, <2>1 DEF TypeOK
<1>5. CASE ~(Coalesced /\ Refreshing # {}) /\ stored = NoToken
  BY <1>5, EndCall DEF Ask
<1>6. CASE ~(Coalesced /\ Refreshing # {}) /\ stored # NoToken
  <2>1. call' = [call EXCEPT ![c] = asks] /\ CanIssue
    BY <1>6 DEF Ask, TypeOK
  <2>2. QED
    BY <1>2, <1>3, <1>6, <2>1 DEF TypeOK
<1>7. QED
  BY <1>4, <1>5, <1>6

LEMMA IssueCall ==
  ASSUME TypeOK, NEW c \in Callers, Issue(c), issued + 1 \in Token
  PROVE  /\ call' \in [Callers -> Call]
         /\ call'[c].at = "granted" /\ call'[c].quits = call[c].quits
         /\ call'[c].token = call[c].token /\ call'[c].new = issued + 1
         /\ \A d \in Callers \ {c} : call'[d] = call[d]
<1>1. call[c] \in Call
  BY DEF TypeOK
<1> DEFINE gets == [call[c] EXCEPT !.at = "granted", !.new = issued + 1]
<1>2. gets \in Call
  BY <1>1, CallType DEF Phases, MaybeToken
<1>3. /\ gets.at = "granted" /\ gets.quits = call[c].quits
      /\ gets.token = call[c].token /\ gets.new = issued + 1
  BY <1>1 DEF Call
<1>4. call' = [call EXCEPT ![c] = gets]
  BY DEF Issue, TypeOK
<1>5. QED
  BY <1>2, <1>3, <1>4 DEF TypeOK

LEMMA SentAgainCall ==
  ASSUME TypeOK, NEW c \in Callers, call' = SentAgain(c)
  PROVE  /\ call' \in [Callers -> Call]
         /\ \A d \in Concerned(c) :
              /\ call'[d].at = "sent" /\ call'[d].quits = call[d].quits
              /\ call'[d].token = NoToken /\ call'[d].new = NoToken
         /\ \A d \in Callers \ Concerned(c) : call'[d] = call[d]
<1> DEFINE again(d) == [call[d] EXCEPT !.at = "sent", !.token = NoToken, !.new = NoToken]
<1>1. \A d \in Callers : call[d] \in Call
  BY DEF TypeOK
<1>2. \A d \in Callers : again(d) \in Call
  BY <1>1, CallType DEF Phases, MaybeToken
<1>3. \A d \in Callers :
        /\ again(d).at = "sent" /\ again(d).quits = call[d].quits
        /\ again(d).token = NoToken /\ again(d).new = NoToken
  BY <1>1 DEF Call
<1>4. \A d \in Callers : call'[d] = IF d \in Concerned(c) THEN again(d) ELSE call[d]
  BY DEF SentAgain
<1>5. Concerned(c) \subseteq Callers
  BY DEF Concerned, At
<1>6. call' \in [Callers -> Call]
  BY <1>1, <1>2 DEF SentAgain
<1>7. QED
  BY ZenonT(40), <1>3, <1>4, <1>5, <1>6

-----------------------------------------------------------------------------
(* Type correctness *)

Wanted == At({"asking", "checked"})

\* The sizes are numbers.
LEMMA Sizes ==
  ASSUME Types
  PROVE  /\ IsFiniteSet(Wanted) /\ Cardinality(Wanted) \in Nat
         /\ issued \in Nat /\ MaxTokens \in Nat
         /\ issued + Cardinality(Wanted) <= MaxTokens
         /\ \A c \in Wanted : issued + 1 \in Token
         /\ CanIssue => issued + 1 \in Token
<1>1. IsFiniteSet(Wanted) /\ Cardinality(Wanted) \in Nat
  BY CallersAssumption, FS_Subset, FS_CardinalityType DEF Wanted, At
<1>2. issued \in Nat /\ MaxTokens \in Nat
  BY MaxTokensAssumption DEF Types, TypeOK, MaybeToken, Token, NoToken
<1>3. issued + Cardinality(Wanted) <= MaxTokens
  BY DEF Types, Room, Wanted
<1>4. \A c \in Wanted : Cardinality(Wanted) # 0
  BY <1>1, FS_EmptySet
<1>5. \A c \in Wanted : issued + 1 \in Token
  BY <1>1, <1>2, <1>3, <1>4 DEF Token
<1>6. CanIssue => issued + 1 \in Token
  BY <1>1, <1>2 DEF CanIssue, Token, Wanted
<1>7. QED
  BY <1>1, <1>2, <1>3, <1>5, <1>6

\* The requests that end leave the others as they are.
LEMMA EndTypes ==
  ASSUME Types, NEW cs, End(cs), UNCHANGED <<issued, parent, active>>,
         stored' \in MaybeToken, spent' \subseteq Token, interrupted' \in BOOLEAN
  PROVE  Types'
<1>1. /\ call' \in [Callers -> Call]
      /\ \A d \in Callers : call'[d] = IF d \in cs THEN Idle ELSE call[d]
  BY EndCall DEF Types
<1>2. TypeOK'
  BY <1>1 DEF Types, TypeOK, Idle
<1>3. At({"asking", "checked"})' \subseteq At({"asking", "checked"})
  BY <1>1 DEF At, Idle
<1>4. QED
  BY <1>2, <1>3, RoomKept DEF Types

\* A request that is sent, or told something.
LEMMA OneCallTypes ==
  ASSUME Types, NEW c \in Callers, call' \in [Callers -> Call],
         \A d \in Callers \ {c} : call'[d] = call[d],
         call'[c].at \in {"asking", "checked"} => call[c].at \in {"asking", "checked"},
         call'[c].at \in {"asking", "checked", "granted", "denied"} => call'[c].token \in Token,
         stored' = stored, issued' = issued, parent' = parent, active' = active,
         interrupted' = interrupted, spent' \subseteq Token
  PROVE  Types'
<1>1. TypeOK'
  BY DEF Types, TypeOK
<1>2. At({"asking", "checked"})' \subseteq At({"asking", "checked"})
  BY DEF At
<1>3. QED
  BY <1>1, <1>2, RoomKept DEF Types

LEMMA AskTypes ==
  ASSUME Types, NEW c \in Callers, Refused(c)
  PROVE  Types'
<1>1. TypeOK /\ stored \in MaybeToken /\ spent \subseteq Token
  BY DEF Types, TypeOK
<1>2. /\ call' \in [Callers -> Call]
      /\ \A d \in Callers \ {c} : call'[d] = call[d]
      /\ UNCHANGED <<stored, issued, parent, spent, active, interrupted>>
  BY <1>1, AskCall DEF Refused
<1>3. CASE call'[c].at \in {"waiting", "idle"}
  <2>1. /\ call'[c].at \in {"asking", "checked"} => call[c].at \in {"asking", "checked"}
        /\ call'[c].at \in {"asking", "checked", "granted", "denied"} => call'[c].token \in Token
    BY <1>3
  <2>2. /\ stored' = stored /\ issued' = issued /\ parent' = parent /\ active' = active
        /\ interrupted' = interrupted /\ spent' \subseteq Token
    BY <1>1, <1>2
  <2>3. QED
    BY <1>2, <2>1, <2>2, OneCallTypes
<1>4. CASE call'[c].at = "asking" /\ CanIssue /\ call'[c].token = stored /\ stored # NoToken
  <2>1. TypeOK'
    BY <1>2, <1>4 DEF Types, TypeOK, MaybeToken
  <2>2. Wanted' \subseteq Wanted \cup {c}
    BY <1>2 DEF Wanted, At
  <2>3. Cardinality(Wanted') <= Cardinality(Wanted) + 1 /\ Cardinality(Wanted') \in Nat
    <3>1. IsFiniteSet(Wanted) /\ Cardinality(Wanted) \in Nat
      BY Sizes
    <3>2. /\ IsFiniteSet(Wanted \cup {c})
          /\ \/ Cardinality(Wanted \cup {c}) = Cardinality(Wanted)
             \/ Cardinality(Wanted \cup {c}) = Cardinality(Wanted) + 1
      BY <3>1, FS_AddElement
    <3>3. IsFiniteSet(Wanted') /\ Cardinality(Wanted') <= Cardinality(Wanted \cup {c})
      BY <2>2, <3>2, FS_Subset
    <3>4. Cardinality(Wanted') \in Nat
      BY <3>3, FS_CardinalityType
    <3>5. QED
      BY <3>1, <3>2, <3>3, <3>4
  <2>4. Room'
    BY <1>2, <1>4, <2>3, Sizes DEF Room, CanIssue, Wanted
  <2>5. QED
    BY <2>1, <2>4 DEF Types
<1>5. QED
  BY <1>1, <1>3, <1>4, AskCall DEF Refused, Idle

LEMMA IssueTypes ==
  ASSUME Types, NEW c \in Callers, RefreshIssue(c)
  PROVE  Types'
<1>1. /\ TypeOK /\ call[c] \in Call /\ call[c].at = "checked" /\ call[c].token \in Token
      /\ spent \subseteq Token
  BY DEF Types, TypeOK, RefreshIssue
<1>2. c \in Wanted /\ issued + 1 \in Token
  BY <1>1, Sizes DEF Wanted, At
<1>3. spent' \subseteq Token /\ UNCHANGED <<stored, active, interrupted>>
  BY <1>1 DEF RefreshIssue
<1>4. CASE active
  <2>1. Issue(c)
    BY <1>4 DEF RefreshIssue
  <2>2. /\ call' \in [Callers -> Call]
        /\ \A d \in Callers \ {c} : call'[d] = call[d]
        /\ call'[c].at = "granted" /\ call'[c].token = call[c].token
    BY <1>1, <1>2, <2>1, IssueCall
  <2>3. issued' \in MaybeToken /\ parent' \in [Token -> MaybeToken]
    BY <1>1, <1>2, <2>1 DEF Issue, MaybeToken, TypeOK
  <2>4. TypeOK'
    BY <1>1, <1>3, <2>2, <2>3 DEF TypeOK
  <2>5. Wanted' = Wanted \ {c}
    BY <2>2 DEF Wanted, At
  <2>6. Cardinality(Wanted') = Cardinality(Wanted) - 1
    BY <1>2, <2>5, Sizes, FS_RemoveElement
  <2>7. Room'
    BY <2>1, <2>6, Sizes DEF Room, Issue, Wanted
  <2>8. QED
    BY <2>4, <2>7 DEF Types
<1>5. CASE ~active
  <2>1. Move(c, "denied") /\ UNCHANGED <<issued, parent>>
    BY <1>5 DEF RefreshIssue
  <2>2. /\ call' \in [Callers -> Call]
        /\ \A d \in Callers \ {c} : call'[d] = call[d]
        /\ call'[c].at = "denied" /\ call'[c].token = call[c].token
    BY <1>1, <2>1, MoveCall DEF Phases, Call
  <2>3. /\ call'[c].at \in {"asking", "checked"} => call[c].at \in {"asking", "checked"}
        /\ call'[c].at \in {"asking", "checked", "granted", "denied"} => call'[c].token \in Token
    BY <1>1, <2>2
  <2>4. QED
    BY <1>3, <2>1, <2>2, <2>3, OneCallTypes
<1>6. QED
  BY <1>1, <1>4, <1>5 DEF TypeOK

LEMMA TypesStep == Types /\ [Next]_vars => Types'
<1> SUFFICES ASSUME Types, [Next]_vars PROVE Types'
  OBVIOUS
<1>1. /\ TypeOK /\ stored \in MaybeToken /\ spent \subseteq Token /\ issued \in MaybeToken
      /\ interrupted \in BOOLEAN /\ active \in BOOLEAN /\ parent \in [Token -> MaybeToken]
      /\ \A c \in Callers : call[c] \in Call
      /\ \A c \in Callers : call[c].at \in {"asking", "checked", "granted", "denied"} =>
           call[c].token \in Token
  BY DEF Types, TypeOK
<1>2. \A cs : Kept(cs) \in MaybeToken
  BY <1>1 DEF Kept, MaybeToken
<1>3. ASSUME NEW c \in Callers, Send(c) PROVE Types'
  <2>1. /\ call' \in [Callers -> Call] /\ call'[c].at = "sent"
        /\ \A d \in Callers \ {c} : call'[d] = call[d]
    BY <1>1, <1>3, PlainSendCall DEF Send
  <2>2. QED
    BY <1>1, <1>3, <2>1, OneCallTypes DEF Send
<1>4. ASSUME NEW c \in Callers, LogOut(c) PROVE Types'
  <2>1. /\ call' \in [Callers -> Call] /\ call'[c].at = "sent"
        /\ \A d \in Callers \ {c} : call'[d] = call[d]
    BY <1>1, <1>4, SendCall DEF LogOut
  <2>2. QED
    BY <1>1, <1>4, <2>1, OneCallTypes DEF LogOut
<1>5. ASSUME NEW c \in Callers, LogOutHandled(c) PROVE Types'
  <2>1. /\ call' \in [Callers -> Call] /\ call'[c] = [call[c] EXCEPT !.at = "left"]
        /\ \A d \in Callers \ {c} : call'[d] = call[d]
    BY <1>1, <1>5, MoveCall DEF LogOutHandled, Phases
  <2>2. call'[c].at = "left"
    BY <1>1, <2>1 DEF Call
  <2>3. spent' \subseteq Token
    BY <1>1, <1>5 DEF LogOutHandled, Call, MaybeToken
  <2>4. QED
    BY <1>5, <2>1, <2>2, <2>3, OneCallTypes DEF LogOutHandled
<1>6. ASSUME NEW c \in Callers, Answered(c) PROVE Types'
  <2>1. /\ End({c}) /\ UNCHANGED <<issued, parent, active>>
        /\ stored' \in MaybeToken /\ spent' \subseteq Token /\ interrupted' \in BOOLEAN
    BY <1>1, <1>2, <1>6 DEF Answered, Answer, LoggedOut, RefusedAgain, MaybeToken
  <2>2. QED
    BY <2>1, EndTypes
<1>7. ASSUME NEW c \in Callers, RefreshCheck(c) PROVE Types'
  <2>1. PICK p \in {"checked", "denied"} : Move(c, p)
    BY <1>7 DEF RefreshCheck
  <2>2. /\ call' \in [Callers -> Call] /\ call'[c] = [call[c] EXCEPT !.at = p]
        /\ \A d \in Callers \ {c} : call'[d] = call[d]
    BY <1>1, <2>1, MoveCall DEF Phases
  <2>3. /\ call[c].at = "asking" /\ call'[c].token = call[c].token
    BY <1>1, <1>7, <2>2 DEF Call, RefreshCheck
  <2>4. /\ call'[c].at \in {"asking", "checked"} => call[c].at \in {"asking", "checked"}
        /\ call'[c].at \in {"asking", "checked", "granted", "denied"} => call'[c].token \in Token
    BY <1>1, <2>3
  <2>5. QED
    BY <1>1, <1>7, <2>2, <2>4, OneCallTypes DEF RefreshCheck
<1>8. ASSUME NEW c \in Callers, Resume(c) PROVE Types'
  <2>1. /\ call' \in [Callers -> Call]
        /\ \A d \in Concerned(c) : call'[d].at = "sent"
        /\ \A d \in Callers \ Concerned(c) : call'[d] = call[d]
    BY <1>1, <1>8, SentAgainCall DEF Resume
  <2>2. TypeOK'
    BY <1>1, <1>8, <2>1 DEF Resume, TypeOK, Call
  <2>3. At({"asking", "checked"})' \subseteq At({"asking", "checked"})
    BY <2>1 DEF At
  <2>4. QED
    BY <1>8, <2>2, <2>3, RoomKept DEF Types, Resume
<1>9. ASSUME NEW c \in Callers, Rejected(c) \/ NoAnswer(c) PROVE Types'
  <2>1. /\ End(Concerned(c)) /\ UNCHANGED <<issued, parent, active>>
        /\ stored' \in MaybeToken /\ interrupted' \in BOOLEAN
    BY <1>1, <1>2, <1>9 DEF Rejected, NoAnswer, OnFailure, MaybeToken
  <2>2. spent' \subseteq Token
    BY <1>1, <1>9 DEF Rejected, NoAnswer
  <2>3. QED
    BY <2>1, <2>2, EndTypes
<1>10. CASE SignIn
  <2>1. issued + 1 \in Token /\ issued + 1 + Cardinality(Wanted) <= MaxTokens
    BY <1>10, Sizes DEF SignIn, CanIssue, Wanted
  <2>2. TypeOK'
    BY <1>1, <1>10, <2>1 DEF SignIn, TypeOK, MaybeToken
  <2>3. Room'
    BY <1>10, <2>1 DEF SignIn, Room, Wanted, At
  <2>4. QED
    BY <2>2, <2>3 DEF Types
<1>11. CASE Deactivate
  BY <1>1, <1>11 DEF Deactivate, Types, TypeOK, Room, At
<1>12. CASE Leave
  <2>1. /\ End(Callers) /\ UNCHANGED <<issued, parent, active>>
        /\ stored' \in MaybeToken /\ interrupted' \in BOOLEAN
    BY <1>1, <1>12 DEF Leave
  <2>2. spent' \subseteq Token
    BY <1>1, <1>12 DEF Leave, At
  <2>3. QED
    BY <2>1, <2>2, EndTypes
<1>13. CASE UNCHANGED vars
  BY <1>1, <1>13 DEF vars, Types, TypeOK, Room, At
<1>14. QED
  BY <1>3, <1>4, <1>5, <1>6, <1>7, <1>8, <1>9, <1>10, <1>11, <1>12, <1>13,
     AskTypes, IssueTypes DEF Next, Refreshed

\* What a client and the server keep is of its type, and the pairs never run
\* out under a refresh that has been let in: TypeOK holds for any number of
\* requests and of pairs, for a page and for a mobile client.
THEOREM TypeCorrect == Spec => []TypeOK
<1>1. Spec => []Types
  BY InitTypes, TypesStep, PTL DEF Spec
<1>2. Types => TypeOK
  BY DEF Types
<1>3. QED
  BY <1>1, <1>2, PTL

-----------------------------------------------------------------------------
(* A page never uses a token twice *)

Childless(t) == \A u \in Token : parent[u] # t

\* No token is anywhere before it has been issued.
Bounded ==
  /\ stored <= issued
  /\ \A t \in Token : parent[t] <= issued
  /\ \A t \in spent : t <= issued
  /\ \A c \in Callers :
       call[c].token <= issued /\ call[c].quits <= issued /\ call[c].new <= issued

\* One request at a time refreshes; what the server let go was a logout.
Single    == \A c, d \in Refreshing : c = d
LeftQuits == \A c \in At({"left"}) : call[c].quits # NoToken

\* A token being handed in has bought nothing; nor has the stored one, unless
\* what it bought is on its way to replace it; and that has not been seen yet.
OneChild == \A t, u \in Token : parent[t] = parent[u] /\ parent[t] # NoToken => t = u
Unused   == \A c \in At({"asking", "checked"}) : Childless(call[c].token)
Unspent  ==
  stored # NoToken =>
    Childless(stored) \/ \E c \in At({"granted"}) : call[c].token = stored
Fresh ==
  \A c \in At({"granted"}) :
    /\ call[c].new \in Token \ (spent \cup {stored})
    /\ Childless(call[c].new)
    /\ \A d \in Callers : call[d].quits # call[c].new

\* A blacklisted token that is still stored is about to be replaced.
Replaced ==
  stored \in spent =>
    \E c \in Callers :
      \/ call[c].at \in {"granted", "denied"} /\ call[c].token = stored
      \/ call[c].at = "left"

Whole == OneChild /\ Unused /\ Unspent /\ Fresh /\ Replaced

PageInv == Types /\ Bounded /\ Single /\ LeftQuits /\ (~interrupted => Whole)

LEMMA InitPage == Init => PageInv
<1> SUFFICES ASSUME Init PROVE PageInv
  OBVIOUS
<1>1. \A c \in Callers : call[c] = Idle
  BY DEF Init
<1>2. At({"left"}) = {} /\ At({"granted"}) = {} /\ Refreshing = {} /\ At({"asking", "checked"}) = {}
  BY <1>1 DEF At, Refreshing, Idle
<1>3. Bounded
  BY <1>1 DEF Init, Bounded, Idle, NoToken
<1>4. Whole
  BY <1>2 DEF Init, Whole, OneChild, Unused, Unspent, Fresh, Replaced, Childless, NoToken
<1>5. QED
  BY <1>2, <1>3, <1>4, InitTypes DEF PageInv, Single, LeftQuits

\* Nobody starts a refresh, and those that go on are where they were.
Quiet ==
  /\ issued' = issued /\ parent' = parent
  /\ stored' \in {stored, NoToken}
  /\ \A d \in Callers :
       /\ call'[d].at \in {"asking", "checked", "granted", "denied"} => call'[d] = call[d]
       /\ call'[d].at = "left" => call'[d].quits # NoToken
       /\ call'[d].quits \in {call[d].quits, stored, NoToken}
       /\ call'[d].token \in {call[d].token, NoToken}
       /\ call'[d].new \in {call[d].new, NoToken}
  /\ \A t \in spent' : t \in Token /\ t <= issued
  /\ interrupted => interrupted'
  /\ ~interrupted' =>
       /\ \A t \in spent', d \in Callers :
            call'[d].at = "granted" => t \in spent \/ t # call'[d].new
       /\ stored' # NoToken =>
            /\ \A d \in Callers : call[d].at \in {"granted", "denied", "left"} => call'[d] = call[d]
            /\ stored' \in spent' => stored' \in spent \/ \E d \in Callers : call'[d].at = "left"

LEMMA QuietKeeps ==
  ASSUME PageInv, Types', Quiet
  PROVE  PageInv'
<1>1. /\ issued \in Nat /\ stored \in MaybeToken /\ spent \subseteq Token
      /\ \A d \in Callers : call[d] \in Call
      /\ MaxTokens \in Nat
  BY MaxTokensAssumption DEF PageInv, Types, TypeOK, MaybeToken, Token, NoToken
<1>2. Bounded'
  BY <1>1 DEF PageInv, Bounded, Quiet, NoToken
<1>3. Single' /\ LeftQuits'
  BY DEF PageInv, Single, LeftQuits, Quiet, Refreshing, At
<1>4. ASSUME ~interrupted' PROVE Whole'
  <2>1. Whole
    BY <1>4 DEF PageInv, Quiet
  <2>2. OneChild'
    BY <2>1 DEF Whole, OneChild, Quiet
  <2>3. Unused'
    BY <2>1 DEF Whole, Unused, Childless, Quiet, At
  <2>4. Unspent'
    BY <1>4, <2>1 DEF Whole, Unspent, Childless, Quiet, At
  <2>5. Fresh'
    <3>1. SUFFICES ASSUME NEW c \in At({"granted"})'
                   PROVE  /\ call'[c].new \in Token \ (spent' \cup {stored'})
                          /\ \A u \in Token : parent'[u] # call'[c].new
                          /\ \A d \in Callers : call'[d].quits # call'[c].new
      BY DEF Fresh, Childless
    <3>2. c \in At({"granted"}) /\ call'[c] = call[c] /\ c \in Callers /\ call'[c].at = "granted"
      BY DEF At, Quiet
    <3>3. /\ call[c].new \in Token \ (spent \cup {stored}) /\ Childless(call[c].new)
          /\ \A d \in Callers : call[d].quits # call[c].new
      BY <2>1, <3>2 DEF Whole, Fresh
    <3>4. call[c].new # NoToken
      BY <3>3 DEF Token, NoToken
    <3>5. QED
      BY <1>4, <3>2, <3>3, <3>4 DEF Quiet, Childless
  <2>6. Replaced'
    <3>1. stored' \in spent' => stored' # NoToken
      BY DEF Quiet, Token, NoToken
    <3>2. QED
      BY <1>4, <2>1, <3>1 DEF Whole, Replaced, Quiet
  <2>7. QED
    BY <2>2, <2>3, <2>4, <2>5, <2>6 DEF Whole
<1>5. QED
  BY <1>2, <1>3, <1>4 DEF PageInv

\* What the types and the bounds say of each variable.
LEMMA PageTypes ==
  ASSUME PageInv
  PROVE  /\ TypeOK /\ issued \in Nat /\ stored \in MaybeToken /\ spent \subseteq Token
         /\ \A d \in Callers : call[d] \in Call
         /\ \A t \in spent : t \in Token /\ t <= issued
         /\ \A d \in Callers : call[d].at \in {"asking", "checked", "granted", "denied"} =>
              call[d].token \in Token /\ call[d].token <= issued
         /\ NoToken \notin Token
<1>1. TypeOK /\ Bounded
  BY DEF PageInv, Types
<1>2. NoToken \notin Token
  BY DEF NoToken, Token
<1>3. QED
  BY <1>1, <1>2 DEF TypeOK, MaybeToken, Token, NoToken, Bounded

\* All of them are numbers up to the last pair issued.
LEMMA PageNumbers ==
  ASSUME PageInv
  PROVE  /\ issued \in Nat
         /\ stored \in Nat /\ stored <= issued
         /\ \A u \in Token : parent[u] \in Nat /\ parent[u] <= issued
         /\ \A t \in spent : t \in Nat /\ t <= issued
         /\ \A d \in Callers : /\ call[d].quits \in Nat /\ call[d].quits <= issued
                               /\ call[d].token \in Nat /\ call[d].token <= issued
                               /\ call[d].new \in Nat /\ call[d].new <= issued
<1>1. Token \subseteq Nat /\ MaybeToken \subseteq Nat
  BY DEF Token, MaybeToken, NoToken
<1>2. Bounded /\ TypeOK
  BY DEF PageInv, Types
<1>3. issued \in Nat /\ stored \in Nat /\ stored <= issued
  BY <1>1, <1>2 DEF Bounded, TypeOK
<1>4. \A u \in Token : parent[u] \in Nat /\ parent[u] <= issued
  BY <1>1, <1>2 DEF Bounded, TypeOK
<1>5. \A t \in spent : t \in Nat /\ t <= issued
  BY <1>1, <1>2 DEF Bounded, TypeOK
<1>6. \A d \in Callers : call[d] \in Call
  BY <1>2 DEF TypeOK
<1>7. \A d \in Callers :
        call[d].quits \in Nat /\ call[d].token \in Nat /\ call[d].new \in Nat
  BY <1>1, <1>6 DEF Call
<1>8. QED
  BY <1>2, <1>3, <1>4, <1>5, <1>7 DEF Bounded

\* A request is sent.
LEMMA SendPage ==
  ASSUME PageInv, Types', NEW c \in Callers, Send(c) \/ LogOut(c)
  PROVE  PageInv'
<1>1. /\ call[c].at = "idle" /\ stored # NoToken
      /\ UNCHANGED <<stored, issued, parent, spent, active, interrupted>>
  BY DEF Send, LogOut
<1>2. /\ call'[c].at = "sent" /\ call'[c].quits \in {stored, NoToken}
      /\ call'[c].token = NoToken /\ call'[c].new = NoToken
      /\ \A d \in Callers \ {c} : call'[d] = call[d]
  <2>1. CASE Send(c)
    BY <2>1, PageTypes, PlainSendCall DEF Send
  <2>2. CASE LogOut(c)
    BY <2>2, PageTypes, SendCall DEF LogOut
  <2>3. QED
    BY <2>1, <2>2
<1>3. \A d \in Callers : call[d].at = "left" => call[d].quits # NoToken
  BY DEF PageInv, LeftQuits, At
<1>4. Quiet
  BY <1>1, <1>2, <1>3, PageTypes DEF Quiet
<1>5. QED
  BY <1>4, QuietKeeps

\* The server carries a logout out.
LEMMA LogOutPage ==
  ASSUME PageInv, Types', NEW c \in Callers, LogOutHandled(c)
  PROVE  PageInv'
<1>1. /\ call[c].at = "sent" /\ call[c].quits # NoToken
      /\ spent' \in {spent, spent \cup {call[c].quits}}
      /\ UNCHANGED <<stored, issued, parent, active, interrupted>>
  BY DEF LogOutHandled
<1>2. /\ call'[c] = [call[c] EXCEPT !.at = "left"]
      /\ \A d \in Callers \ {c} : call'[d] = call[d]
  BY PageTypes, MoveCall DEF LogOutHandled, Phases
<1>3. /\ call'[c].at = "left" /\ call'[c].quits = call[c].quits
      /\ call'[c].token = call[c].token /\ call'[c].new = call[c].new
  BY <1>2, PageTypes DEF Call
<1>4. call[c].quits \in Token /\ call[c].quits <= issued
  BY <1>1, PageTypes DEF PageInv, Bounded, Call, MaybeToken
<1>5. \A d \in Callers : call[d].at = "left" => call[d].quits # NoToken
  BY DEF PageInv, LeftQuits, At
<1>6. ~interrupted => \A d \in Callers : call[d].at = "granted" => call[c].quits # call[d].new
  BY DEF PageInv, Whole, Fresh, At
<1>7. \A t \in spent' : t \in spent \/ t = call[c].quits
  BY <1>1
<1>8. \A t \in spent' : t \in Token /\ t <= issued
  BY <1>4, <1>7, PageTypes DEF PageInv, Bounded
<1>9. /\ \A d \in Callers \ {c} : call'[d] = call[d]
      /\ stored' = stored /\ issued' = issued /\ parent' = parent /\ interrupted' = interrupted
  BY <1>1, <1>2
<1>10. \A d \in Callers :
         /\ call'[d].at \in {"asking", "checked", "granted", "denied"} => call'[d] = call[d]
         /\ call'[d].at = "left" => call'[d].quits # NoToken
         /\ call'[d].quits = call[d].quits
         /\ call'[d].token = call[d].token /\ call'[d].new = call[d].new
  BY <1>1, <1>3, <1>5, <1>9
<1>11. ~interrupted => \A t \in spent', d \in Callers :
         call'[d].at = "granted" => t \in spent \/ t # call'[d].new
  BY <1>6, <1>7, <1>10
<1>12. \A d \in Callers : call[d].at \in {"granted", "denied", "left"} => call'[d] = call[d]
  BY <1>1, <1>9
<1>13. Quiet
  BY <1>3, <1>8, <1>9, <1>10, <1>11, <1>12 DEF Quiet
<1>14. QED
  BY <1>13, QuietKeeps

\* Requests end: those of a refresh and of a logout only with the session.
LEMMA EndPage ==
  ASSUME PageInv, Types', NEW cs, End(cs), UNCHANGED <<issued, parent>>,
         stored' \in {stored, NoToken},
         \A t \in spent' : t \in Token /\ t <= issued,
         interrupted => interrupted',
         ~interrupted' =>
           /\ spent' = spent \/ \A d \in Callers \ cs : call[d].at # "granted"
           /\ stored' # NoToken =>
                spent' = spent /\ \A d \in cs : call[d].at \notin {"granted", "denied", "left"}
  PROVE  PageInv'
<1>1. \A d \in Callers : call'[d] = IF d \in cs THEN Idle ELSE call[d]
  BY PageTypes, EndCall
<1>2. \A d \in Callers : call[d].at = "left" => call[d].quits # NoToken
  BY DEF PageInv, LeftQuits, At
<1>3. /\ Idle.at = "idle" /\ Idle.quits = NoToken /\ Idle.token = NoToken
      /\ Idle.new = NoToken
  BY DEF Idle
<1>4. ASSUME NEW d \in Callers
      PROVE  /\ call'[d].at \in {"asking", "checked", "granted", "denied"} => call'[d] = call[d]
             /\ call'[d].at = "left" => call'[d].quits # NoToken
             /\ call'[d].quits \in {call[d].quits, stored, NoToken}
             /\ call'[d].token \in {call[d].token, NoToken}
             /\ call'[d].new \in {call[d].new, NoToken}
  BY <1>1, <1>2, <1>3
<1>5. ASSUME ~interrupted'
      PROVE  /\ \A t \in spent', d \in Callers :
                  call'[d].at = "granted" => t \in spent \/ t # call'[d].new
             /\ stored' # NoToken =>
                  /\ \A d \in Callers :
                       call[d].at \in {"granted", "denied", "left"} => call'[d] = call[d]
                  /\ stored' \in spent' => stored' \in spent
  BY <1>1, <1>3, <1>5
<1>6. Quiet
  BY <1>4, <1>5 DEF Quiet
<1>7. QED
  BY <1>6, QuietKeeps

\* A request is answered.
LEMMA AnsweredPage ==
  ASSUME PageInv, Types', NEW c \in Callers, Answered(c), Client = "web"
  PROVE  PageInv'
<1>1. /\ End({c}) /\ UNCHANGED <<issued, parent, spent, active, interrupted>>
      /\ call[c].at \in {"sent", "left"} /\ stored' \in {stored, NoToken}
  BY DEF Answered, Answer, LoggedOut, RefusedAgain, Kept
<1>2. call[c].at = "left" => stored' = NoToken
  BY DEF Answered, Answer, LoggedOut, RefusedAgain, Kept, PageInv, LeftQuits, At
<1>3. /\ \A t \in spent' : t \in Token /\ t <= issued
      /\ interrupted => interrupted'
      /\ ~interrupted' =>
           /\ spent' = spent \/ \A d \in Callers \ {c} : call[d].at # "granted"
           /\ stored' # NoToken =>
                spent' = spent /\ \A d \in {c} : call[d].at \notin {"granted", "denied", "left"}
  BY <1>1, <1>2, PageTypes
<1>4. QED
  BY <1>1, <1>3, EndPage

\* A refresh fails: the page signs out.
LEMMA FailedPage ==
  ASSUME PageInv, Types', NEW c \in Callers, Rejected(c) \/ NoAnswer(c), Client = "web"
  PROVE  PageInv'
<1>1. /\ End(Concerned(c)) /\ UNCHANGED <<issued, parent, active, interrupted>>
      /\ c \in Refreshing /\ stored' = NoToken
      /\ spent' \in {spent, spent \cup {call[c].token}}
  BY DEF Rejected, NoAnswer, OnFailure, Refreshing, At
<1>2. \A d \in Callers \ Concerned(c) : call[d].at # "granted"
  BY <1>1 DEF PageInv, Single, Refreshing, At, Concerned
<1>3. call[c].token \in Token /\ call[c].token <= issued
  BY <1>1, PageTypes DEF Refreshing, At
<1>4. \A t \in spent' : t \in Token /\ t <= issued
  BY <1>1, <1>3, PageTypes
<1>5. QED
  BY <1>1, <1>2, <1>4, EndPage

\* The page is closed.
LEMMA LeavePage ==
  ASSUME PageInv, Types', Leave
  PROVE  PageInv'
<1>1. /\ End(Callers) /\ UNCHANGED <<stored, issued, parent, active>>
      /\ interrupted' = (interrupted \/ Refreshing \cup At({"left"}) # {})
  BY DEF Leave
<1>2. PICK handled \in SUBSET At({"checked"}) :
        spent' = spent \cup {call[c].token : c \in handled}
  BY DEF Leave
<1>3. \A t \in spent' : t \in Token /\ t <= issued
  BY <1>2, PageTypes DEF At
<1>4. ASSUME ~interrupted'
      PROVE  /\ spent' = spent
             /\ \A d \in Callers : call[d].at \notin {"granted", "denied", "left"}
  BY <1>1, <1>2, <1>4 DEF Refreshing, At
<1>5. QED
  BY <1>1, <1>3, <1>4, EndPage DEF PageInv, Types, TypeOK

\* A request is refused: it waits, gives up, or is the one that refreshes.
LEMMA RefusedPage ==
  ASSUME PageInv, Types', NEW c \in Callers, Refused(c), Client = "web"
  PROVE  PageInv'
<1>1. /\ call[c].at = "sent" /\ Ask(c)
      /\ UNCHANGED <<stored, issued, parent, spent, active, interrupted>>
  BY DEF Refused
<1>2. \A d \in Callers \ {c} : call'[d] = call[d]
  BY <1>1, PageTypes, AskCall
<1>3. \A d \in Callers : call[d].at = "left" => call[d].quits # NoToken
  BY DEF PageInv, LeftQuits, At
<1>4. CASE /\ call'[c].at = "waiting" /\ call'[c].quits = call[c].quits
           /\ call'[c].token = call[c].token /\ call'[c].new = call[c].new
  <2>1. Quiet
    BY <1>1, <1>2, <1>3, <1>4, PageTypes DEF Quiet
  <2>2. QED
    BY <2>1, QuietKeeps
<1>5. CASE call'[c] = Idle
  <2>1. Quiet
    BY <1>1, <1>2, <1>3, <1>5, PageTypes DEF Quiet, Idle
  <2>2. QED
    BY <2>1, QuietKeeps
<1>6. CASE /\ Refreshing = {} /\ stored # NoToken
           /\ call'[c].at = "asking" /\ call'[c].quits = call[c].quits
           /\ call'[c].token = stored /\ call'[c].new = call[c].new
  <2>1. \A d \in Callers : call[d].at \notin {"asking", "checked", "granted", "denied"}
    BY <1>6 DEF Refreshing, At
  <2>2. Bounded'
    BY <1>1, <1>2, <1>6 DEF PageInv, Bounded
  <2>3. Single' /\ LeftQuits'
    BY <1>2, <1>3, <1>6, <2>1 DEF Single, LeftQuits, Refreshing, At
  <2>4. ASSUME ~interrupted' PROVE Whole'
    <3>1. Whole
      BY <1>1, <2>4 DEF PageInv
    <3>2. OneChild'
      BY <1>1, <3>1 DEF Whole, OneChild
    <3>3. Childless(stored)
      BY <1>6, <2>1, <3>1 DEF Whole, Unspent, At
    <3>4. Unused' /\ Unspent'
      BY <1>1, <1>2, <1>6, <2>1, <3>3 DEF Unused, Unspent, Childless, At
    <3>5. Fresh'
      BY <1>2, <1>6, <2>1 DEF Fresh, At
    <3>6. Replaced'
      BY <1>1, <1>2, <3>1 DEF Whole, Replaced
    <3>7. QED
      BY <3>2, <3>4, <3>5, <3>6 DEF Whole
  <2>5. QED
    BY <2>2, <2>3, <2>4 DEF PageInv
<1>7. QED
  BY <1>1, <1>4, <1>5, <1>6, PageTypes, AskCall DEF Coalesced

\* The only refresh there is goes on, or is denied.
Onward(c, phase) ==
  /\ call[c].at \in {"asking", "checked"} /\ phase \in {"checked", "denied"}
  /\ Move(c, phase)
  /\ spent' \in {spent, spent \cup {call[c].token}}
  /\ phase = "checked" => spent' = spent
  /\ UNCHANGED <<stored, issued, parent, active, interrupted>>

LEMMA OnwardPage ==
  ASSUME PageInv, Types', NEW c \in Callers, NEW phase, Onward(c, phase)
  PROVE  PageInv'
<1>1. /\ call[c].at \in {"asking", "checked"} /\ phase \in {"checked", "denied"}
      /\ spent' \in {spent, spent \cup {call[c].token}}
      /\ phase = "checked" => spent' = spent
      /\ stored' = stored /\ issued' = issued /\ parent' = parent
      /\ interrupted' = interrupted
  BY DEF Onward
<1>2. /\ call'[c] = [call[c] EXCEPT !.at = phase]
      /\ \A d \in Callers \ {c} : call'[d] = call[d]
  BY PageTypes, MoveCall DEF Onward, Phases
<1>3. /\ call'[c].at = phase /\ call'[c].quits = call[c].quits
      /\ call'[c].token = call[c].token /\ call'[c].new = call[c].new
  BY <1>2, PageTypes DEF Call
<1>4. \A d \in Callers \ {c} :
        call[d].at \notin {"asking", "checked", "granted", "denied"}
  BY <1>1 DEF PageInv, Single, Refreshing, At
<1>5. call[c].token \in Token /\ call[c].token <= issued
  BY <1>1, PageTypes
<1>6. Bounded'
  BY <1>1, <1>2, <1>3, <1>5 DEF PageInv, Bounded
<1>7. Single' /\ LeftQuits'
  <2>1. \A d \in Callers : call[d].at = "left" => call[d].quits # NoToken
    BY DEF PageInv, LeftQuits, At
  <2>2. \A d \in Callers \ {c} :
          call'[d].at \notin {"asking", "checked", "granted", "denied"}
    BY <1>2, <1>4
  <2>3. Single'
    BY <2>2 DEF Single, Refreshing, At
  <2>4. call'[c].at # "left"
    BY <1>1, <1>3
  <2>5. LeftQuits'
    BY <1>2, <2>1, <2>4 DEF LeftQuits, At
  <2>6. QED
    BY <2>3, <2>5
<1>8. ASSUME ~interrupted' PROVE Whole'
  <2>1. Whole /\ Childless(call[c].token)
    BY <1>1, <1>8 DEF PageInv, Whole, Unused, At
  <2>2. OneChild'
    BY <1>1, <2>1 DEF Whole, OneChild
  <2>3. Unused'
    <3>1. \A d \in At({"asking", "checked"})' : d = c
      BY <1>2, <1>4 DEF At
    <3>2. QED
      BY <1>1, <1>3, <2>1, <3>1 DEF Unused, Childless
  <2>4. At({"granted"}) = {} /\ At({"granted"})' = {}
    <3>1. \A d \in Callers : call[d].at # "granted"
      BY <1>1, <1>4
    <3>2. call'[c].at # "granted"
      BY <1>1, <1>3
    <3>3. \A d \in Callers \ {c} : call'[d].at # "granted"
      BY <1>2, <3>1
    <3>4. QED
      BY <3>1, <3>2, <3>3 DEF At
  <2>5. Unspent' /\ Fresh'
    BY <1>1, <2>1, <2>4 DEF Whole, Unspent, Fresh, Childless
  <2>6. Replaced'
    <3>1. \A d \in Callers : call[d].at \in {"granted", "denied", "left"} => call'[d] = call[d]
      BY <1>1, <1>2
    <3>2. CASE stored \in spent
      BY <1>1, <2>1, <3>1, <3>2 DEF Whole, Replaced
    <3>3. CASE stored \notin spent
      BY <1>1, <1>3, <3>3 DEF Replaced
    <3>4. QED
      BY <3>2, <3>3
  <2>7. QED
    BY <2>2, <2>3, <2>5, <2>6 DEF Whole
<1>9. QED
  BY <1>6, <1>7, <1>8 DEF PageInv

\* The server issues a pair.
LEMMA IssuePage ==
  ASSUME PageInv, Types', NEW c \in Callers, RefreshIssue(c), active
  PROVE  PageInv'
<1>1. /\ call[c].at = "checked" /\ Issue(c)
      /\ spent' \in {spent, spent \cup {call[c].token}}
      /\ UNCHANGED <<stored, active, interrupted>>
  BY DEF RefreshIssue
<1>2. issued + 1 \in Token /\ issued' = issued + 1
  <2>1. c \in Wanted
    BY <1>1 DEF Wanted, At
  <2>2. QED
    BY <1>1, <2>1, Sizes DEF PageInv, Issue
<1>3. /\ call'[c].at = "granted" /\ call'[c].quits = call[c].quits
      /\ call'[c].token = call[c].token /\ call'[c].new = issued + 1
      /\ \A d \in Callers \ {c} : call'[d] = call[d]
  BY <1>1, <1>2, PageTypes, IssueCall
<1>4. \A d \in Callers \ {c} :
        call[d].at \notin {"asking", "checked", "granted", "denied"}
  BY <1>1 DEF PageInv, Single, Refreshing, At
<1>5. call[c].token \in Token /\ call[c].token <= issued /\ issued \in Nat
  BY <1>1, PageTypes
<1>6. /\ parent'[issued + 1] = call[c].token
      /\ \A u \in Token \ {issued + 1} : parent'[u] = parent[u]
  BY <1>1, <1>2, PageTypes DEF Issue, TypeOK
<1>7. /\ \A u \in Token : parent[u] \in Nat /\ parent[u] <= issued
      /\ \A d \in Callers : /\ call[d].quits \in Nat /\ call[d].quits <= issued
                            /\ call[d].token \in Nat /\ call[d].token <= issued
                            /\ call[d].new \in Nat /\ call[d].new <= issued
      /\ stored \in Nat /\ stored <= issued
      /\ \A t \in spent' : t \in Nat /\ t <= issued
  BY <1>1, PageNumbers
<1>8. Bounded'
  BY <1>1, <1>2, <1>3, <1>5, <1>6, <1>7 DEF Bounded
<1>9. Single' /\ LeftQuits'
  BY <1>3, <1>4 DEF PageInv, Single, LeftQuits, Refreshing, At
<1>10. ASSUME ~interrupted' PROVE Whole'
  <2>1. Whole /\ Childless(call[c].token)
    BY <1>1, <1>10 DEF PageInv, Whole, Unused, At
  <2>2. OneChild'
    BY <1>6, <2>1 DEF Whole, OneChild, Childless
  <2>3. Unused'
    BY <1>3, <1>4 DEF Unused, At
  <2>4. Unspent'
    <3>1. CASE stored = call[c].token
      BY <1>1, <1>3, <3>1 DEF Unspent, At
    <3>2. CASE stored # call[c].token
      BY <1>1, <1>3, <1>4, <1>6, <2>1, <3>2 DEF Whole, Unspent, Childless, At
    <3>3. QED
      BY <3>1, <3>2
  <2>5. Fresh'
    <3>1. \A d \in At({"granted"})' : d = c
      BY <1>3, <1>4 DEF At
    <3>2. call'[c].new \in Token \ (spent' \cup {stored'})
      BY <1>1, <1>2, <1>3, <1>5, <1>7
    <3>3. \A u \in Token : parent'[u] # issued + 1
      BY <1>5, <1>6, <1>7
    <3>4. \A d \in Callers : call'[d].quits # issued + 1
      BY <1>3, <1>5, <1>7
    <3>5. QED
      BY <1>3, <3>1, <3>2, <3>3, <3>4 DEF Fresh, Childless
  <2>6. Replaced'
    BY <1>1, <1>3, <2>1 DEF Whole, Replaced
  <2>7. QED
    BY <2>2, <2>3, <2>4, <2>5, <2>6 DEF Whole
<1>11. QED
  BY <1>8, <1>9, <1>10 DEF PageInv

\* The page stores its new pair.
LEMMA ResumePage ==
  ASSUME PageInv, Types', NEW c \in Callers, Resume(c)
  PROVE  PageInv'
<1>1. /\ call[c].at = "granted" /\ stored' = call[c].new /\ call' = SentAgain(c)
      /\ UNCHANGED <<issued, parent, spent, active, interrupted>>
  BY DEF Resume
<1>2. /\ \A d \in Concerned(c) :
           /\ call'[d].at = "sent" /\ call'[d].quits = call[d].quits
           /\ call'[d].token = NoToken /\ call'[d].new = NoToken
      /\ \A d \in Callers \ Concerned(c) : call'[d] = call[d]
  BY <1>1, PageTypes, SentAgainCall
<1>3. \A d \in Callers \ Concerned(c) :
        call[d].at \notin {"asking", "checked", "granted", "denied"}
  BY <1>1 DEF PageInv, Single, Refreshing, At, Concerned
<1>4. \A d \in Callers : call'[d].at \notin {"asking", "checked", "granted", "denied"}
  BY <1>2, <1>3
<1>5. Bounded'
  BY <1>1, <1>2, PageTypes DEF PageInv, Bounded, NoToken
<1>6. Single' /\ LeftQuits'
  BY <1>2, <1>4 DEF PageInv, Single, LeftQuits, Refreshing, At
<1>7. ASSUME ~interrupted' PROVE Whole'
  <2>1. /\ Whole /\ Childless(call[c].new) /\ call[c].new \notin spent
    BY <1>1, <1>7 DEF PageInv, Whole, Fresh, At
  <2>2. OneChild'
    BY <1>1, <2>1 DEF Whole, OneChild
  <2>3. Unused' /\ Fresh'
    BY <1>4 DEF Unused, Fresh, At
  <2>4. Unspent' /\ Replaced'
    BY <1>1, <2>1 DEF Unspent, Replaced, Childless
  <2>5. QED
    BY <2>2, <2>3, <2>4 DEF Whole
<1>8. QED
  BY <1>5, <1>6, <1>7 DEF PageInv

\* The user signs in again.
LEMMA SignInPage ==
  ASSUME PageInv, Types', SignIn
  PROVE  PageInv'
<1>1. /\ stored = NoToken /\ issued' = issued + 1 /\ stored' = issued + 1
      /\ UNCHANGED <<parent, spent, active, call, interrupted>>
  BY DEF SignIn
<1>2. /\ issued \in Nat
      /\ \A u \in Token : parent[u] \in Nat /\ parent[u] <= issued
      /\ \A t \in spent : t \in Nat /\ t <= issued
      /\ \A d \in Callers : /\ call[d].quits \in Nat /\ call[d].quits <= issued
                            /\ call[d].token \in Nat /\ call[d].token <= issued
                            /\ call[d].new \in Nat /\ call[d].new <= issued
  BY PageNumbers
<1>3. Bounded'
  BY <1>1, <1>2 DEF Bounded
<1>4. Single' /\ LeftQuits'
  BY <1>1 DEF PageInv, Single, LeftQuits, Refreshing, At
<1>5. ASSUME ~interrupted' PROVE Whole'
  <2>1. Whole
    BY <1>1, <1>5 DEF PageInv
  <2>2. OneChild' /\ Unused'
    BY <1>1, <2>1 DEF Whole, OneChild, Unused, Childless, At
  <2>3. Unspent' /\ Replaced'
    BY <1>1, <1>2 DEF Unspent, Replaced, Childless
  <2>4. Fresh'
    BY <1>1, <1>2, <2>1 DEF Whole, Fresh, Childless, At
  <2>5. QED
    BY <2>2, <2>3, <2>4 DEF Whole
<1>6. QED
  BY <1>3, <1>4, <1>5 DEF PageInv

LEMMA PageStep ==
  ASSUME Client = "web", PageInv, [Next]_vars
  PROVE  PageInv'
<1>1. Types'
  BY TypesStep DEF PageInv
<1>2. ASSUME NEW c \in Callers, RefreshCheck(c) PROVE PageInv'
  <2>1. PICK phase \in {"checked", "denied"} : Onward(c, phase)
    BY <1>2 DEF RefreshCheck, Onward
  <2>2. QED
    BY <1>1, <2>1, OnwardPage
<1>3. ASSUME NEW c \in Callers, RefreshIssue(c) PROVE PageInv'
  <2>1. CASE active
    BY <1>1, <1>3, <2>1, IssuePage
  <2>2. CASE ~active
    <3>1. Onward(c, "denied")
      BY <1>3, <2>2 DEF RefreshIssue, Onward
    <3>2. QED
      BY <1>1, <3>1, OnwardPage
  <2>3. QED
    BY <2>1, <2>2
<1>4. CASE Deactivate \/ UNCHANGED vars
  <2>1. UNCHANGED <<stored, issued, parent, spent, call, interrupted>>
    BY <1>4 DEF Deactivate, vars
  <2>2. QED
    BY <1>1, <2>1 DEF PageInv, Bounded, Single, LeftQuits, Whole, OneChild, Unused, Unspent,
      Fresh, Replaced, Childless, Refreshing, At
<1>5. QED
  BY <1>1, <1>2, <1>3, <1>4, SendPage, LogOutPage, AnsweredPage, FailedPage, LeavePage,
     RefusedPage, ResumePage, SignInPage DEF Next, Refreshed

\* In a page that stays, no refresh token buys two pairs and none that is spent
\* stays behind, with any number of requests refused at once and whatever the
\* order of the answers, of logouts and of what is lost: the single refresh of
\* lib/api.ts keeps it so, not the server, whose look-up and blacklisting in
\* refreshTokens are two steps of which the second may fail.
THEOREM TokensSound ==
  ASSUME Client = "web"
  PROVE  Spec => []TokensAreSound
<1>1. PageInv /\ [Next]_vars => PageInv'
  BY PageStep
<1>2. PageInv => TokensAreSound
  <2>1. SUFFICES ASSUME PageInv, ~interrupted
                 PROVE  OneChild /\ (stored \in spent =>
                          \E c \in Callers :
                            \/ /\ call[c].at \in {"checked", "granted", "denied"}
                               /\ call[c].token = stored
                            \/ call[c].quits # NoToken)
    BY DEF TokensAreSound, OneChild
  <2>2. OneChild /\ Replaced /\ LeftQuits
    BY <2>1 DEF PageInv, Whole
  <2>3. QED
    BY <2>2 DEF Replaced, LeftQuits, At
<1>3. QED
  BY <1>1, <1>2, InitPage, PTL DEF Spec
=============================================================================
