------------------------------- MODULE SignIn -------------------------------
(***************************************************************************)
(* Signing in to one account: the password, the challenges that follow it  *)
(* (a forced change of the password, a second factor, its first set-up),   *)
(* the counter of failures with its lock, and what administrators do to    *)
(* the account meanwhile.  A handler reads the account once and works with *)
(* what it read.  Whether a password or a code is right is open.           *)
(***************************************************************************)
EXTENDS Handlers

CONSTANTS
  MaxFailed   \* MAX_FAILED_ATTEMPTS: failures until the account is locked

ASSUME LoginAssumption == MaxFailed \in Nat

VARIABLES
  account,     \* the row of the user
  challenges,  \* challenge tokens held by the user and not expired
  attempt      \* per request: where it is

loginVars == <<account, challenges, attempt>>

-----------------------------------------------------------------------------
MaxCount   == 2 * MaxFailed   \* bound: failures counted
Account    == [failedLoginCount : 0..MaxCount, locked : BOOLEAN,
               mustChangePassword : BOOLEAN, twoFactorEnabled : BOOLEAN]
Challenges == {"password_change", "2fa_challenge", "2fa_setup"}
LoginIdle  == [at |-> "idle"]
\* coded: a second factor was shown; excused (history): none was asked of the
\* account when the request began, or at some time since.
Attempt    == [at : {"miss", "issue"}, coded : BOOLEAN, excused : BOOLEAN]
              \cup [at : {"count"}, read : 0..MaxCount, excused : BOOLEAN]
              \cup [at : {"change", "own"}, flag : BOOLEAN, excused : BOOLEAN]

LoginInit ==
  /\ account = [failedLoginCount |-> 0, locked |-> FALSE, mustChangePassword |-> FALSE,
                twoFactorEnabled |-> FALSE]
  /\ challenges = {}
  /\ attempt = [q \in Requests |-> LoginIdle]

Goto(q, state) == attempt' = [attempt EXCEPT ![q] = state]
Excused        == ~account.twoFactorEnabled
To(at, coded)  == [at |-> at, coded |-> coded, excused |-> Excused]
Challenge(q, scope) ==
  challenges' = challenges \cup {scope} /\ Goto(q, LoginIdle) /\ UNCHANGED account

-----------------------------------------------------------------------------
\* login: a wrong password counts; a right one leads to the challenge that is
\* due, in this order, and to tokens only when none is.
Login(q, roleRequires2FA) ==
  /\ attempt[q].at = "idle" /\ ~account.locked
  /\ \/ Goto(q, To("miss", FALSE)) /\ UNCHANGED <<account, challenges>>
     \/ IF account.mustChangePassword THEN Challenge(q, "password_change")
        ELSE IF account.twoFactorEnabled THEN Challenge(q, "2fa_challenge")
        ELSE IF roleRequires2FA THEN Challenge(q, "2fa_setup")
        ELSE Goto(q, To("issue", FALSE)) /\ UNCHANGED <<account, challenges>>

\* loginWithTwoFactor: the lock holds for a challenge that is held already.
LoginWithTwoFactor(q) ==
  /\ attempt[q].at = "idle" /\ "2fa_challenge" \in challenges /\ ~account.locked
  /\ \E right \in BOOLEAN : Goto(q, To(IF right THEN "issue" ELSE "miss", right))
  /\ UNCHANGED <<account, challenges>>

\* The first set-up ends with a code of the new authenticator; a wrong one is
\* not counted here.
VerifySetup(q) ==
  /\ attempt[q].at = "idle" /\ "2fa_setup" \in challenges
  /\ Goto(q, To("issue", TRUE))
  /\ account' = [account EXCEPT !.twoFactorEnabled = TRUE]
  /\ UNCHANGED challenges

\* completeForcedPasswordChange: with the temporary password again.
CompleteForcedPasswordChange(q) ==
  /\ attempt[q].at = "idle" /\ "password_change" \in challenges /\ account.mustChangePassword
  /\ \/ Goto(q, To("miss", FALSE))
     \/ Goto(q, [at |-> "change", flag |-> account.twoFactorEnabled, excused |-> Excused])
  /\ UNCHANGED <<account, challenges>>

\* changeOwnPassword, by a user who is signed in.
ChangeOwnPassword(q) ==
  /\ attempt[q].at = "idle"
  /\ Goto(q, [at |-> "own", flag |-> FALSE, excused |-> TRUE])
  /\ UNCHANGED <<account, challenges>>

\* Mutant: a forced change ends with tokens.
StorePasswordAndIssue(q) ==
  /\ attempt[q].at \in {"change", "own"}
  /\ account' = [account EXCEPT !.mustChangePassword = FALSE]
  /\ Goto(q, IF attempt[q].at = "own" THEN LoginIdle
             ELSE [at |-> "issue", coded |-> FALSE, excused |-> attempt[q].excused])
  /\ UNCHANGED challenges

\* The new password is stored; after a forced change the second factor is asked
\* for if it was enabled when the account was read.
StorePassword(q) ==
  /\ attempt[q].at \in {"change", "own"}
  /\ account' = [account EXCEPT !.mustChangePassword = FALSE]
  /\ IF attempt[q].at = "own" THEN Goto(q, LoginIdle) /\ UNCHANGED challenges
     ELSE IF attempt[q].flag THEN challenges' = challenges \cup {"2fa_challenge"} /\ Goto(q, LoginIdle)
     ELSE Goto(q, [at |-> "issue", coded |-> FALSE, excused |-> attempt[q].excused]) /\ UNCHANGED challenges

\* recordLoginAttempt reads the counter after a failure ...
ReadCounter(q) ==
  /\ attempt[q].at = "miss" /\ account.failedLoginCount < MaxCount
  /\ Goto(q, [at |-> "count", read |-> account.failedLoginCount, excused |-> attempt[q].excused])
  /\ UNCHANGED <<account, challenges>>

\* ... and writes it one higher, with the lock from the fifth on.
CountFailure(q) ==
  /\ attempt[q].at = "count"
  /\ LET n == attempt[q].read + 1
     IN  account' = [account EXCEPT !.failedLoginCount = n, !.locked = @ \/ n >= MaxFailed]
  /\ Goto(q, LoginIdle)
  /\ UNCHANGED challenges

\* Tokens are issued: the sign-in is complete, and counter and lock are reset.
IssueTokens(q) ==
  /\ attempt[q].at = "issue"
  /\ account' = [account EXCEPT !.failedLoginCount = 0, !.locked = FALSE]
  /\ Goto(q, LoginIdle)
  /\ UNCHANGED challenges

-----------------------------------------------------------------------------
\* One update by an administrator, or by the second factor (module TwoFactor).
Administer(row) ==
  /\ account' = row
  /\ attempt' = [q \in Requests |->
       IF attempt[q] = LoginIdle \/ row.twoFactorEnabled THEN attempt[q]
       ELSE [attempt[q] EXCEPT !.excused = TRUE]]
  /\ UNCHANGED challenges

AdminResetPassword == Administer([account EXCEPT !.mustChangePassword = TRUE,
                                                 !.failedLoginCount = 0, !.locked = FALSE])
UnlockUser == Administer([account EXCEPT !.failedLoginCount = 0, !.locked = FALSE])
RequirePasswordChange == Administer([account EXCEPT !.mustChangePassword = TRUE])
ClearForcePasswordChange == Administer([account EXCEPT !.mustChangePassword = FALSE])
SwitchTwoFactor == Administer([account EXCEPT !.twoFactorEnabled = ~@])

\* The minutes of a lock, or of a challenge, pass.
TimePasses ==
  /\ \/ account' = [account EXCEPT !.locked = FALSE] /\ UNCHANGED challenges
     \/ \E c \in challenges : challenges' = challenges \ {c} /\ UNCHANGED account
  /\ UNCHANGED attempt

LoginNext ==
  \/ \E q \in Requests :
       \/ \E r \in BOOLEAN : Login(q, r)
       \/ LoginWithTwoFactor(q) \/ VerifySetup(q)
       \/ CompleteForcedPasswordChange(q) \/ ChangeOwnPassword(q) \/ StorePassword(q)
       \/ ReadCounter(q) \/ CountFailure(q) \/ IssueTokens(q)
  \/ AdminResetPassword \/ UnlockUser \/ RequirePasswordChange \/ ClearForcePasswordChange
  \/ SwitchTwoFactor \/ TimePasses

LoginSpec == LoginInit /\ [][LoginNext]_loginVars

-----------------------------------------------------------------------------
\* The account, the challenges and the requests have their types.
LoginTypeOK ==
  /\ account \in Account
  /\ challenges \subseteq Challenges
  /\ attempt \in [Requests -> Attempt \cup {LoginIdle}]

\* Tokens are issued without a second factor only to an account that had none
\* enabled at some moment while the request ran: no order of challenges, forced
\* changes and administration leads around it.
FactorAsked ==
  \A q \in Requests :
       attempt[q].at = "issue" /\ attempt'[q] = LoginIdle =>
         attempt[q].coded \/ attempt[q].excused
=============================================================================
