---------------------------- MODULE TenantProofs ----------------------------
(***************************************************************************)
(* Inductive invariants of the components of a tenant and its accounts,    *)
(* for every value of the constants: sign-in and second factor, the access *)
(* token, invitations and roles, devices, licences, onboarding and         *)
(* deletion, the reports and the tags.  Of each component three facts are  *)
(* proved: the invariant holds at first, every step keeps it, and what the *)
(* runs check follows.  Module ComponentsProofs concludes.                 *)
(***************************************************************************)
EXTENDS SignIn, TwoFactor, Licences, Devices, Tenancy, Accounts, Access,
        Reports, TagLife, FiniteSetTheorems, SequenceTheorems, TLAPS

-----------------------------------------------------------------------------
(* Sign-in.                                                                 *)

\* Tokens are about to be issued only after a factor, or to who was excused.
AttemptFair(a) ==
  /\ a.at = "issue" => a.coded \/ a.excused
  /\ a.at = "change" /\ ~a.flag => a.excused
  /\ a.at = "count" => a.read < MaxCount

LoginInv ==
  /\ LoginTypeOK
  /\ \A q \in Requests : AttemptFair(attempt[q])

LEMMA LoginStart == LoginInit => LoginInv
BY LoginAssumption DEF LoginInit, LoginInv, LoginTypeOK, AttemptFair, LoginIdle, Account, MaxCount,
   Challenges

LEMMA GotoFair ==
  ASSUME LoginInv, NEW q \in Requests, NEW state \in Attempt \cup {LoginIdle}, Goto(q, state),
         AttemptFair(state), account' \in Account, challenges' \subseteq Challenges
  PROVE  LoginInv'
<1>1. /\ attempt' \in [Requests -> Attempt \cup {LoginIdle}]
      /\ attempt'[q] = state
      /\ \A p \in Requests : p # q => attempt'[p] = attempt[p]
  BY DEF Goto, LoginInv, LoginTypeOK
<1>2. LoginTypeOK'
  BY <1>1 DEF LoginTypeOK
<1>3. \A p \in Requests : AttemptFair(attempt'[p])
  BY <1>1 DEF LoginInv
<1>4. (\A p \in Requests : AttemptFair(attempt[p]))'
  BY <1>3 DEF AttemptFair
<1> QED BY <1>2, <1>4 DEF LoginInv

\* An account whose failures are forgotten.
LEMMA AccountReset ==
  ASSUME NEW a \in Account
  PROVE  /\ [a EXCEPT !.failedLoginCount = 0, !.locked = FALSE] \in Account
         /\ [a EXCEPT !.mustChangePassword = TRUE, !.failedLoginCount = 0, !.locked = FALSE] \in Account
<1>1. 0 \in 0..MaxCount
  BY LoginAssumption DEF MaxCount
<1>2. ASSUME NEW b \in Account
      PROVE  [b EXCEPT !.failedLoginCount = 0, !.locked = FALSE] \in Account
  <2>1. [b EXCEPT !.failedLoginCount = 0] \in Account
    BY <1>1 DEF Account
  <2>2. [[b EXCEPT !.failedLoginCount = 0] EXCEPT !.locked = FALSE] \in Account
    BY <2>1 DEF Account
  <2> QED BY <2>2
<1>3. [a EXCEPT !.mustChangePassword = TRUE] \in Account
  BY DEF Account
<1>4. [[a EXCEPT !.mustChangePassword = TRUE] EXCEPT !.failedLoginCount = 0, !.locked = FALSE]
        \in Account
  BY <1>2, <1>3
<1> QED BY <1>2, <1>4

\* What a request may hold.
LEMMA AttemptKinds ==
  /\ \A at \in {"miss", "issue"}, c \in BOOLEAN, e \in BOOLEAN :
       /\ [at |-> at, coded |-> c, excused |-> e] \in Attempt
       /\ (at = "issue" => c \/ e) => AttemptFair([at |-> at, coded |-> c, excused |-> e])
  /\ \A at \in {"change", "own"}, f \in BOOLEAN, e \in BOOLEAN :
       /\ [at |-> at, flag |-> f, excused |-> e] \in Attempt
       /\ (at = "change" => f \/ e) => AttemptFair([at |-> at, flag |-> f, excused |-> e])
  /\ LoginIdle \in Attempt \cup {LoginIdle} /\ AttemptFair(LoginIdle)
BY DEF Attempt, AttemptFair, LoginIdle

LEMMA LoginSteps ==
  ASSUME LoginInv, NEW q \in Requests,
         \/ \E r \in BOOLEAN : Login(q, r)
         \/ LoginWithTwoFactor(q) \/ VerifySetup(q)
         \/ CompleteForcedPasswordChange(q) \/ ChangeOwnPassword(q) \/ StorePassword(q)
         \/ ReadCounter(q) \/ CountFailure(q) \/ IssueTokens(q)
  PROVE  LoginInv'
<1> USE LoginAssumption
<1>1. /\ account \in Account /\ challenges \subseteq Challenges
      /\ account.failedLoginCount \in 0..MaxCount /\ account.locked \in BOOLEAN
      /\ account.mustChangePassword \in BOOLEAN /\ account.twoFactorEnabled \in BOOLEAN
      /\ Excused = ~account.twoFactorEnabled /\ Excused \in BOOLEAN /\ MaxCount \in Nat
      /\ attempt[q] \in Attempt \cup {LoginIdle} /\ AttemptFair(attempt[q])
  BY DEF LoginInv, LoginTypeOK, Account, Excused, MaxCount
<1>2. ASSUME NEW scope \in Challenges, Challenge(q, scope) PROVE LoginInv'
  BY <1>1, <1>2, GotoFair, AttemptKinds DEF Challenge
<1>3. ASSUME NEW r \in BOOLEAN, Login(q, r) PROVE LoginInv'
  <2>1. CASE Goto(q, To("miss", FALSE)) /\ UNCHANGED <<account, challenges>>
    BY <1>1, <2>1, GotoFair, AttemptKinds DEF To
  <2>2. CASE Goto(q, To("issue", FALSE)) /\ UNCHANGED <<account, challenges>>
             /\ ~account.twoFactorEnabled
    BY <1>1, <2>2, GotoFair, AttemptKinds DEF To
  <2>3. {"password_change", "2fa_challenge", "2fa_setup"} = Challenges
    BY DEF Challenges
  <2> QED BY <1>2, <1>3, <2>1, <2>2, <2>3 DEF Login
<1>4. CASE LoginWithTwoFactor(q)
  <2>1. PICK right \in BOOLEAN : Goto(q, To(IF right THEN "issue" ELSE "miss", right))
    BY <1>4 DEF LoginWithTwoFactor
  <2>2. UNCHANGED <<account, challenges>>
    BY <1>4 DEF LoginWithTwoFactor
  <2>3. CASE right
    BY <1>1, <2>1, <2>2, <2>3, GotoFair, AttemptKinds DEF To
  <2>4. CASE ~right
    BY <1>1, <2>1, <2>2, <2>4, GotoFair, AttemptKinds DEF To
  <2> QED BY <2>3, <2>4
<1>5. CASE VerifySetup(q)
  <2>1. account' \in Account
    BY <1>1, <1>5 DEF VerifySetup, Account
  <2> QED BY <1>1, <1>5, <2>1, GotoFair, AttemptKinds DEF VerifySetup, To
<1>6. CASE CompleteForcedPasswordChange(q)
  <2>1. UNCHANGED <<account, challenges>>
    BY <1>6 DEF CompleteForcedPasswordChange
  <2>2. CASE Goto(q, To("miss", FALSE))
    BY <1>1, <2>1, <2>2, GotoFair, AttemptKinds DEF To
  <2>3. CASE Goto(q, [at |-> "change", flag |-> account.twoFactorEnabled, excused |-> Excused])
    BY <1>1, <2>1, <2>3, GotoFair, AttemptKinds
  <2> QED BY <1>6, <2>2, <2>3 DEF CompleteForcedPasswordChange
<1>7. CASE ChangeOwnPassword(q)
  BY <1>1, <1>7, GotoFair, AttemptKinds DEF ChangeOwnPassword
<1>8. CASE StorePassword(q)
  <2>1. account' \in Account /\ attempt[q].at \in {"change", "own"}
    BY <1>1, <1>8 DEF StorePassword, Account
  <2>2. CASE Goto(q, LoginIdle) /\ challenges' \subseteq Challenges
    BY <1>1, <2>1, <2>2, GotoFair, AttemptKinds
  <2>3. CASE ~attempt[q].flag /\ attempt[q].at = "change" /\ UNCHANGED challenges
             /\ Goto(q, [at |-> "issue", coded |-> FALSE, excused |-> attempt[q].excused])
    <3>1. attempt[q].excused = TRUE
      BY <1>1, <2>3 DEF AttemptFair, Attempt, LoginIdle
    <3> QED BY <1>1, <2>1, <2>3, <3>1, GotoFair, AttemptKinds
  <2>4. \/ Goto(q, LoginIdle) /\ challenges' \subseteq Challenges
        \/ /\ ~attempt[q].flag /\ attempt[q].at = "change" /\ UNCHANGED challenges
           /\ Goto(q, [at |-> "issue", coded |-> FALSE, excused |-> attempt[q].excused])
    BY <1>1, <1>8, <2>1 DEF StorePassword, Challenges
  <2> QED BY <2>2, <2>3, <2>4
<1>9. CASE ReadCounter(q)
  <2>1. attempt[q].excused \in BOOLEAN
    BY <1>1, <1>9 DEF ReadCounter, Attempt, LoginIdle
  <2> DEFINE state == [at |-> "count", read |-> account.failedLoginCount,
                       excused |-> attempt[q].excused]
  <2>2. state \in Attempt /\ AttemptFair(state)
    BY <1>1, <1>9, <2>1 DEF ReadCounter, Attempt, AttemptFair
  <2>3. Goto(q, state) /\ UNCHANGED <<account, challenges>>
    BY <1>9 DEF ReadCounter
  <2> HIDE DEF state
  <2> QED BY <1>1, <2>2, <2>3, GotoFair
<1>10. CASE CountFailure(q)
  <2>1. attempt[q].read \in 0..MaxCount /\ attempt[q].read < MaxCount
    BY <1>1, <1>10 DEF CountFailure, Attempt, AttemptFair, LoginIdle
  <2>2. attempt[q].read + 1 \in 0..MaxCount
    BY <1>1, <2>1
  <2>3. account' \in Account
    BY <1>1, <1>10, <2>2 DEF CountFailure, Account
  <2> QED BY <1>1, <1>10, <2>3, GotoFair, AttemptKinds DEF CountFailure
<1>11. CASE IssueTokens(q)
  <2>1. account' \in Account
    BY <1>1, <1>11, AccountReset DEF IssueTokens
  <2> QED BY <1>1, <1>11, <2>1, GotoFair, AttemptKinds DEF IssueTokens
<1> QED BY <1>3, <1>4, <1>5, <1>6, <1>7, <1>8, <1>9, <1>10, <1>11

LEMMA AdministerFair ==
  ASSUME LoginInv, NEW row \in Account, Administer(row)
  PROVE  LoginInv'
<1>1. ASSUME NEW q \in Requests
      PROVE  /\ attempt'[q] \in Attempt \cup {LoginIdle} /\ AttemptFair(attempt'[q])
             /\ attempt' \in [Requests -> Attempt \cup {LoginIdle}]
  <2>1. attempt[q] \in Attempt \cup {LoginIdle} /\ AttemptFair(attempt[q])
    BY DEF LoginInv, LoginTypeOK
  <2>2. \A p \in Requests : attempt[p] \in Attempt => [attempt[p] EXCEPT !.excused = TRUE] \in Attempt
    BY DEF Attempt
  <2>3. attempt' \in [Requests -> Attempt \cup {LoginIdle}]
    BY <2>2 DEF Administer, LoginInv, LoginTypeOK
  <2>4. attempt[q] \in Attempt => AttemptFair([attempt[q] EXCEPT !.excused = TRUE])
    BY <2>1 DEF Attempt, AttemptFair
  <2> QED BY <2>1, <2>2, <2>3, <2>4 DEF Administer
<1>2. attempt' \in [Requests -> Attempt \cup {LoginIdle}]
  BY <1>1, RequestsAssumption
<1>3. (\A q \in Requests : AttemptFair(attempt[q]))'
  BY <1>1 DEF AttemptFair
<1> QED BY <1>2, <1>3 DEF Administer, LoginInv, LoginTypeOK

LEMMA LoginStep == LoginInv /\ [LoginNext]_loginVars => LoginInv'
<1> SUFFICES ASSUME LoginInv, [LoginNext]_loginVars PROVE LoginInv'
  OBVIOUS
<1>1. /\ account \in Account /\ account.failedLoginCount \in 0..MaxCount
      /\ account.locked \in BOOLEAN /\ MaxCount \in Nat
      /\ account.mustChangePassword \in BOOLEAN /\ account.twoFactorEnabled \in BOOLEAN
  BY LoginAssumption DEF LoginInv, LoginTypeOK, Account, MaxCount
<1>2. CASE AdminResetPassword \/ UnlockUser \/ RequirePasswordChange \/ ClearForcePasswordChange
           \/ SwitchTwoFactor
  <2>1. /\ [account EXCEPT !.mustChangePassword = TRUE, !.failedLoginCount = 0, !.locked = FALSE]
             \in Account
        /\ [account EXCEPT !.failedLoginCount = 0, !.locked = FALSE] \in Account
        /\ [account EXCEPT !.mustChangePassword = TRUE] \in Account
        /\ [account EXCEPT !.mustChangePassword = FALSE] \in Account
        /\ [account EXCEPT !.twoFactorEnabled = ~@] \in Account
    <3>1. /\ [account EXCEPT !.mustChangePassword = TRUE] \in Account
          /\ [account EXCEPT !.mustChangePassword = FALSE] \in Account
          /\ [account EXCEPT !.twoFactorEnabled = ~@] \in Account
      BY <1>1 DEF Account
    <3> QED BY <3>1, <1>1, AccountReset
  <2> QED BY SMTT(30), <1>2, <2>1, AdministerFair
          DEF AdminResetPassword, UnlockUser, RequirePasswordChange, ClearForcePasswordChange,
              SwitchTwoFactor
<1>3. CASE TimePasses
  <2>1. account' \in Account /\ challenges' \subseteq Challenges /\ attempt' = attempt
    BY <1>1, <1>3 DEF TimePasses, Account, LoginInv, LoginTypeOK
  <2> QED BY <2>1 DEF LoginInv, LoginTypeOK, AttemptFair
<1>4. CASE UNCHANGED loginVars
  BY <1>4 DEF loginVars, LoginInv, LoginTypeOK, AttemptFair
<1> QED BY <1>2, <1>3, <1>4, LoginSteps DEF LoginNext

LEMMA FactorAskedOnly == LoginInv => FactorAsked
BY DEF LoginInv, AttemptFair, FactorAsked

-----------------------------------------------------------------------------
(* The second factor.                                                       *)

\* Codes of the set-ups so far, and of those up to another.
CodesTo(n) == [setup : 1..n, code : TfCodes]
Rows2FA    == Record \cup {NoRecord}
Waits2FA   == [at : {"upsert", "verify", "enable", "consume", "consume and disable", "delete", "clear"},
               read : Rows2FA, code : Code \cup {NoCode}]

\* What a request remembers was there, and fits the statement it has come to.
RequestFits(a, n) ==
  /\ a \in Waits2FA \cup {TfIdle}
  /\ a # TfIdle => a.read.codes \subseteq CodesTo(n)
  /\ a.at = "upsert" => ~a.read.verified
  /\ a.at = "enable" => a.read.verified
  /\ a.at = "clear" => a.read = NoRecord
  /\ a.at \in {"consume", "consume and disable"} => a.code \in CodesTo(n)

FactorWhole ==
  ~torn => /\ record.codes \cap spent = {}
           /\ (\A q \in Requests : tfReq[q].at \notin {"enable", "clear"})
                => (enabled <=> record.verified)

FactorInv ==
  /\ TfTypeOK
  /\ tfReq \in [Requests -> Waits2FA \cup {TfIdle}]
  /\ record.codes \subseteq CodesTo(setups) /\ spent \subseteq CodesTo(setups)
  /\ \A q \in Requests : RequestFits(tfReq[q], setups)
  /\ FactorWhole

LEMMA FactorStart == TfInit => FactorInv
<1> SUFFICES ASSUME TfInit PROVE FactorInv
  OBVIOUS
<1>1. TfTypeOK
  <2>1. setups \in 0..MaxSetups
    BY SetupsAssumption DEF TfInit
  <2>2. enabled \in BOOLEAN /\ torn \in BOOLEAN
    BY DEF TfInit
  <2> QED BY <2>1, <2>2 DEF TfInit, TfTypeOK
<1>2. tfReq \in [Requests -> Waits2FA \cup {TfIdle}]
  BY DEF TfInit
<1>3. record.codes = {} /\ spent = {}
  BY DEF TfInit, NoRecord
<1>4. \A q \in Requests : RequestFits(tfReq[q], setups)
  BY DEF TfInit, RequestFits, TfIdle
<1>5. FactorWhole
  BY DEF FactorWhole, TfInit, NoRecord
<1> QED BY <1>1, <1>2, <1>3, <1>4, <1>5 DEF FactorInv

\* A step of one request that leaves it where it fits.
LEMMA FactorMove ==
  ASSUME FactorInv, NEW q \in Requests, NEW state, RequestFits(state, setups'),
         tfReq' = [tfReq EXCEPT ![q] = state],
         record' \in Rows2FA, enabled' \in BOOLEAN, torn' \in BOOLEAN,
         setups' \in 0..MaxSetups, setups <= setups', spent' \subseteq CodesTo(setups'),
         record'.codes \subseteq CodesTo(setups'), FactorWhole'
  PROVE  FactorInv'
<1>1. CodesTo(setups) \subseteq CodesTo(setups') /\ CodesTo(setups') \subseteq Code
  BY SetupsAssumption DEF CodesTo, FactorInv, TfTypeOK, Code
<1>2. /\ tfReq' \in [Requests -> Waits2FA \cup {TfIdle}] /\ tfReq'[q] = state
      /\ \A p \in Requests : p # q => tfReq'[p] = tfReq[p]
  BY DEF FactorInv, RequestFits
<1>3. \A p \in Requests : RequestFits(tfReq'[p], setups')
  BY <1>1, <1>2 DEF FactorInv, RequestFits
<1>4. \A p \in Requests : tfReq'[p] = TfIdle \/ tfReq'[p].read \in Record \cup {NoRecord}
  BY <1>2 DEF Waits2FA, Rows2FA
<1> QED BY <1>1, <1>2, <1>3, <1>4 DEF FactorInv, TfTypeOK, RequestFits, Rows2FA

\* What is known of the rows and of a request before a step.
LEMMA FactorRows ==
  ASSUME FactorInv
  PROVE  /\ record \in Rows2FA
         /\ setups \in 0..MaxSetups /\ MaxSetups \in Nat
         /\ spent \subseteq CodesTo(setups) /\ record.codes \subseteq CodesTo(setups)
         /\ tfReq \in [Requests -> Waits2FA \cup {TfIdle}]
         /\ CodesTo(setups) \subseteq Code
         /\ NoRecord \in Rows2FA /\ NoRecord.codes = {} /\ NoRecord.verified = FALSE
         /\ TfIdle.at = "idle"
<1>1. CodesTo(setups) \subseteq Code
  BY SetupsAssumption DEF CodesTo, FactorInv, TfTypeOK, Code
<1>2. NoRecord.codes = {} /\ NoRecord.verified = FALSE /\ NoRecord \in Rows2FA
  BY DEF NoRecord, Rows2FA
<1> QED BY <1>1, <1>2, SetupsAssumption DEF FactorInv, TfTypeOK, Rows2FA, TfIdle

LEMMA FactorFacts ==
  ASSUME FactorInv, NEW q \in Requests
  PROVE  RequestFits(tfReq[q], setups)
BY DEF FactorInv

LEMMA SetupsStay ==
  ASSUME FactorInv, setups' = setups
  PROVE  setups <= setups'
BY FactorRows

LEMMA FactorTyped ==
  ASSUME FactorInv
  PROVE  enabled \in BOOLEAN /\ torn \in BOOLEAN
BY DEF FactorInv, TfTypeOK

\* A request that reads the record and waits.
LEMMA FactorReads ==
  ASSUME FactorInv, NEW q \in Requests, NEW at, NEW code, Read(q, at, code), tfReq[q].at = "idle",
         UNCHANGED <<record, enabled, setups, spent, torn>>,
         \/ at = "upsert" /\ ~record.verified /\ code = NoCode
         \/ at \in {"verify", "delete"} /\ code = NoCode
         \/ at \in {"consume", "consume and disable"} /\ code \in record.codes
  PROVE  FactorInv'
<1> DEFINE state == [at |-> at, read |-> record, code |-> code]
<1>1. RequestFits(state, setups)
  <2>1. state \in Waits2FA
    BY FactorFacts, FactorRows DEF Waits2FA
  <2> QED BY <2>1, FactorFacts, FactorRows DEF RequestFits
<1>2. FactorWhole'
  <2>1. tfReq'[q].at = at /\ \A p \in Requests : p # q => tfReq'[p] = tfReq[p]
    BY FactorFacts, FactorRows DEF Read
  <2>2. (\A p \in Requests : tfReq'[p].at \notin {"enable", "clear"})
          => \A p \in Requests : tfReq[p].at \notin {"enable", "clear"}
    BY <2>1
  <2> QED BY <2>2 DEF FactorWhole, FactorInv
<1>3. tfReq' = [tfReq EXCEPT ![q] = state] /\ RequestFits(state, setups')
  BY <1>1 DEF Read
<1> HIDE DEF state
<1>4. /\ record' \in Rows2FA
      /\ setups' \in 0..MaxSetups /\ setups <= setups' /\ spent' \subseteq CodesTo(setups')
      /\ record'.codes \subseteq CodesTo(setups')
  <2>1. record' \in Rows2FA
    BY FactorFacts, FactorRows
  <2>2. setups' \in 0..MaxSetups
    BY FactorFacts, FactorRows
  <2>3. setups <= setups'
    <3>1. setups' = setups
      OBVIOUS
    <3> QED BY <3>1, SetupsStay, Zenon
  <2>4. spent' \subseteq CodesTo(setups')
    BY FactorFacts, FactorRows
  <2>5. record'.codes \subseteq CodesTo(setups')
    BY FactorFacts, FactorRows
  <2> QED BY <2>1, <2>2, <2>3, <2>4, <2>5
<1>40. enabled' \in BOOLEAN /\ torn' \in BOOLEAN
  BY FactorTyped
<1> QED BY <1>2, <1>3, <1>4, <1>40, FactorMove

\* A write on the record that was read, or a torn one.
LEMMA FactorStale ==
  ASSUME FactorInv, NEW q \in Requests, Stale(q)
  PROVE  torn' \in BOOLEAN /\ (~torn' => ~torn /\ record = tfReq[q].read)
BY FactorFacts, FactorRows DEF Stale

LEMMA FactorUpserts ==
  ASSUME FactorInv, NEW q \in Requests, UpsertRecord(q)
  PROVE  FactorInv'
<1> DEFINE n == setups + 1
           new == [setup |-> n, codes |-> [setup : {n}, code : TfCodes], verified |-> FALSE]
<1>1. /\ setups' = n /\ record' = new /\ UNCHANGED <<enabled, spent>>
      /\ tfReq' = [tfReq EXCEPT ![q] = TfIdle]
  BY DEF UpsertRecord, Done
<1>10. n \in 1..MaxSetups /\ setups <= n
  BY FactorFacts, FactorRows DEF UpsertRecord
<1>2. new.codes \subseteq CodesTo(n) /\ new.codes \subseteq Code /\ new \in Rows2FA
  BY <1>10 DEF CodesTo, Code, Rows2FA, Record
<1>3. spent \subseteq CodesTo(n) /\ new.codes \cap spent = {}
  BY <1>10, FactorFacts, FactorRows DEF CodesTo
<1>4. RequestFits(TfIdle, setups')
  BY DEF RequestFits, TfIdle
<1>5. torn' \in BOOLEAN /\ (~torn' => ~torn /\ ~record.verified)
  BY FactorStale, FactorFacts, FactorRows DEF UpsertRecord, RequestFits, At
<1>6. FactorWhole'
  <2>1. \A p \in Requests : p # q => tfReq'[p] = tfReq[p]
    BY <1>1, FactorFacts, FactorRows
  <2>2. (\A p \in Requests : tfReq'[p].at \notin {"enable", "clear"})
          => \A p \in Requests : tfReq[p].at \notin {"enable", "clear"}
    BY <2>1 DEF UpsertRecord, At
  <2>3. record'.verified = FALSE
    BY <1>1
  <2> QED BY <1>1, <1>3, <1>5, <2>2, <2>3, FactorFacts, FactorRows DEF FactorWhole, FactorInv
<1> HIDE DEF new
<1>7. /\ record' \in Rows2FA
      /\ setups' \in 0..MaxSetups /\ setups <= setups' /\ spent' \subseteq CodesTo(setups')
      /\ record'.codes \subseteq CodesTo(setups')
  <2>1. record' \in Rows2FA
    BY <1>1, <1>2, <1>3, FactorFacts, FactorRows
  <2>2. setups' \in 0..MaxSetups
    <3>1. setups' = n
      BY <1>1
    <3> HIDE DEF n
    <3> QED BY <3>1, <1>10, FactorRows
  <2>3. setups <= setups'
    BY <1>1, <1>2, <1>3, FactorFacts, FactorRows
  <2>4. spent' \subseteq CodesTo(setups')
    BY <1>1, <1>2, <1>3, FactorFacts, FactorRows
  <2>5. record'.codes \subseteq CodesTo(setups')
    BY <1>1, <1>2, <1>3, FactorFacts, FactorRows
  <2> QED BY <2>1, <2>2, <2>3, <2>4, <2>5
<1>70. enabled' \in BOOLEAN
  BY <1>1, <1>2, <1>3, FactorTyped
<1> QED BY <1>1, <1>4, <1>5, <1>6, <1>7, <1>70, FactorMove

LEMMA FactorMarks ==
  ASSUME FactorInv, NEW q \in Requests, MarkVerified(q)
  PROVE  FactorInv'
<1>1. tfReq[q].at = "verify" /\ UNCHANGED <<enabled, setups, spent>>
  BY DEF MarkVerified, At
<1>2. CASE record = NoRecord
  <2>1. tfReq' = [tfReq EXCEPT ![q] = TfIdle] /\ UNCHANGED <<record, torn>>
    BY <1>2 DEF MarkVerified, Done
  <2>2. RequestFits(TfIdle, setups')
    BY DEF RequestFits, TfIdle
  <2>3. FactorWhole'
    <3>1. \A p \in Requests : p # q => tfReq'[p] = tfReq[p]
      BY <2>1, FactorFacts, FactorRows
    <3>2. (\A p \in Requests : tfReq'[p].at \notin {"enable", "clear"})
            => \A p \in Requests : tfReq[p].at \notin {"enable", "clear"}
      BY <3>1, <1>1
    <3> QED BY <1>1, <2>1, <3>2 DEF FactorWhole, FactorInv
  <2>4. /\ record' \in Rows2FA
        /\ setups' \in 0..MaxSetups /\ setups <= setups' /\ spent' \subseteq CodesTo(setups')
        /\ record'.codes \subseteq CodesTo(setups')
    <3>1. record' \in Rows2FA
      BY <1>1, <2>1, FactorFacts, FactorRows
    <3>2. setups' \in 0..MaxSetups
      BY <1>1, <2>1, FactorFacts, FactorRows
    <3>3. setups <= setups'
      BY <1>1, <2>1, FactorFacts, FactorRows
    <3>4. spent' \subseteq CodesTo(setups')
      BY <1>1, <2>1, FactorFacts, FactorRows
    <3>5. record'.codes \subseteq CodesTo(setups')
      BY <1>1, <2>1, FactorFacts, FactorRows
    <3> QED BY <3>1, <3>2, <3>3, <3>4, <3>5
  <2>40. enabled' \in BOOLEAN /\ torn' \in BOOLEAN
    BY <1>1, <2>1, FactorTyped
  <2> QED BY <2>1, <2>2, <2>3, <2>4, <2>40, FactorMove
<1>3. CASE record # NoRecord
  <2> DEFINE new == [record EXCEPT !.verified = TRUE]
             state == [at |-> "enable", read |-> new, code |-> NoCode]
  <2>1. record' = new /\ tfReq' = [tfReq EXCEPT ![q] = state] /\ Stale(q)
    BY <1>3 DEF MarkVerified
  <2>2. new \in Rows2FA /\ new.codes = record.codes /\ new.verified = TRUE
    BY <1>3, FactorFacts, FactorRows DEF Rows2FA, Record
  <2>3. RequestFits(state, setups')
    <3>1. state \in Waits2FA
      BY <2>2 DEF Waits2FA
    <3> QED BY <3>1, <2>2, <1>1, FactorFacts, FactorRows DEF RequestFits
  <2>4. torn' \in BOOLEAN /\ (~torn' => ~torn)
    BY <2>1, FactorStale
  <2>5. tfReq'[q].at = "enable"
    BY <2>1, FactorFacts, FactorRows
  <2> HIDE DEF new, state
  <2>6. FactorWhole'
    BY <1>1, <2>1, <2>2, <2>4, <2>5 DEF FactorWhole, FactorInv
  <2>7. /\ record' \in Rows2FA
        /\ setups' \in 0..MaxSetups /\ setups <= setups' /\ spent' \subseteq CodesTo(setups')
        /\ record'.codes \subseteq CodesTo(setups')
    <3>1. record' \in Rows2FA
      BY <1>1, <2>1, <2>2, FactorFacts, FactorRows
    <3>2. setups' \in 0..MaxSetups
      BY <1>1, <2>1, <2>2, FactorFacts, FactorRows
    <3>3. setups <= setups'
      BY <1>1, <2>1, <2>2, FactorFacts, FactorRows
    <3>4. spent' \subseteq CodesTo(setups')
      BY <1>1, <2>1, <2>2, FactorFacts, FactorRows
    <3>5. record'.codes \subseteq CodesTo(setups')
      BY <1>1, <2>1, <2>2, FactorFacts, FactorRows
    <3> QED BY <3>1, <3>2, <3>3, <3>4, <3>5
  <2>70. enabled' \in BOOLEAN
    BY <1>1, <2>1, <2>2, FactorTyped
  <2> QED BY <2>1, <2>3, <2>4, <2>6, <2>7, <2>70, FactorMove
<1> QED BY <1>2, <1>3

LEMMA FactorFlags ==
  ASSUME FactorInv, NEW q \in Requests, EnableFlag(q) \/ ClearFlag(q)
  PROVE  FactorInv'
<1>1. /\ UNCHANGED <<record, setups, spent>> /\ Stale(q)
      /\ tfReq' = [tfReq EXCEPT ![q] = TfIdle] /\ enabled' \in BOOLEAN
  BY DEF EnableFlag, ClearFlag, Done
<1>2. RequestFits(TfIdle, setups')
  BY DEF RequestFits, TfIdle
<1>3. torn' \in BOOLEAN /\ (~torn' => ~torn /\ (enabled' <=> record.verified))
  BY FactorStale, FactorFacts, FactorRows DEF EnableFlag, ClearFlag, At, RequestFits
<1>4. FactorWhole'
  BY <1>1, <1>3 DEF FactorWhole, FactorInv
<1>5. /\ record' \in Rows2FA
      /\ setups' \in 0..MaxSetups /\ setups <= setups' /\ spent' \subseteq CodesTo(setups')
      /\ record'.codes \subseteq CodesTo(setups')
  <2>1. record' \in Rows2FA
    BY <1>1, FactorFacts, FactorRows
  <2>2. setups' \in 0..MaxSetups
    BY <1>1, FactorFacts, FactorRows
  <2>3. setups <= setups'
    BY <1>1, FactorFacts, FactorRows
  <2>4. spent' \subseteq CodesTo(setups')
    BY <1>1, FactorFacts, FactorRows
  <2>5. record'.codes \subseteq CodesTo(setups')
    BY <1>1, FactorFacts, FactorRows
  <2> QED BY <2>1, <2>2, <2>3, <2>4, <2>5
<1> QED BY <1>1, <1>2, <1>3, <1>4, <1>5, FactorMove

LEMMA FactorStops ==
  ASSUME FactorInv, NEW q \in Requests, StopHalfway(q)
  PROVE  FactorInv'
<1>1. /\ UNCHANGED <<record, enabled, setups, spent>> /\ torn' = TRUE
      /\ tfReq' = [tfReq EXCEPT ![q] = TfIdle]
  BY DEF StopHalfway, Done
<1>2. RequestFits(TfIdle, setups')
  BY DEF RequestFits, TfIdle
<1>3. FactorWhole'
  BY <1>1 DEF FactorWhole
<1>4. /\ record' \in Rows2FA
      /\ setups' \in 0..MaxSetups /\ setups <= setups' /\ spent' \subseteq CodesTo(setups')
      /\ record'.codes \subseteq CodesTo(setups')
  <2>1. record' \in Rows2FA
    BY <1>1, FactorFacts, FactorRows
  <2>2. setups' \in 0..MaxSetups
    BY <1>1, FactorFacts, FactorRows
  <2>3. setups <= setups'
    BY <1>1, FactorFacts, FactorRows
  <2>4. spent' \subseteq CodesTo(setups')
    BY <1>1, FactorFacts, FactorRows
  <2>5. record'.codes \subseteq CodesTo(setups')
    BY <1>1, FactorFacts, FactorRows
  <2> QED BY <2>1, <2>2, <2>3, <2>4, <2>5
<1>40. enabled' \in BOOLEAN
  BY <1>1, FactorTyped
<1> QED BY <1>1, <1>2, <1>3, <1>4, <1>40, FactorMove

LEMMA FactorDeletes ==
  ASSUME FactorInv, NEW q \in Requests, DeleteRecord(q)
  PROVE  FactorInv'
<1> DEFINE state == [at |-> "clear", read |-> NoRecord, code |-> NoCode]
<1>1. /\ UNCHANGED <<enabled, setups, spent>> /\ record' = NoRecord /\ Stale(q)
      /\ tfReq' = [tfReq EXCEPT ![q] = state]
  BY DEF DeleteRecord
<1>2. RequestFits(state, setups')
  <2>1. state \in Waits2FA
    BY FactorFacts, FactorRows DEF Waits2FA
  <2> QED BY <2>1, FactorFacts, FactorRows DEF RequestFits
<1>3. torn' \in BOOLEAN /\ (~torn' => ~torn)
  BY <1>1, FactorStale
<1>4. tfReq'[q].at = "clear"
  BY <1>1, FactorFacts, FactorRows
<1> HIDE DEF state
<1>5. FactorWhole'
  BY <1>1, <1>3, <1>4, FactorFacts, FactorRows DEF FactorWhole
<1>6. /\ record' \in Rows2FA
      /\ setups' \in 0..MaxSetups /\ setups <= setups' /\ spent' \subseteq CodesTo(setups')
      /\ record'.codes \subseteq CodesTo(setups')
  <2>1. record' \in Rows2FA
    BY <1>1, FactorFacts, FactorRows
  <2>2. setups' \in 0..MaxSetups
    BY <1>1, FactorFacts, FactorRows
  <2>3. setups <= setups'
    BY <1>1, FactorFacts, FactorRows
  <2>4. spent' \subseteq CodesTo(setups')
    BY <1>1, FactorFacts, FactorRows
  <2>5. record'.codes \subseteq CodesTo(setups')
    BY <1>1, FactorFacts, FactorRows
  <2> QED BY <2>1, <2>2, <2>3, <2>4, <2>5
<1>60. enabled' \in BOOLEAN
  BY <1>1, FactorTyped
<1> QED BY <1>1, <1>2, <1>3, <1>5, <1>6, <1>60, FactorMove

LEMMA FactorConsumes ==
  ASSUME FactorInv, NEW q \in Requests, ConsumeCode(q)
  PROVE  FactorInv'
<1>1. tfReq[q].at \in {"consume", "consume and disable"} /\ UNCHANGED <<enabled, setups>>
  BY DEF ConsumeCode
<1>2. CASE record = NoRecord
  <2>1. tfReq' = [tfReq EXCEPT ![q] = TfIdle] /\ UNCHANGED <<record, spent, torn>>
    BY <1>2 DEF ConsumeCode, Done
  <2>2. RequestFits(TfIdle, setups')
    BY DEF RequestFits, TfIdle
  <2>3. FactorWhole'
    <3>1. \A p \in Requests : p # q => tfReq'[p] = tfReq[p]
      BY <2>1, FactorFacts, FactorRows
    <3>2. (\A p \in Requests : tfReq'[p].at \notin {"enable", "clear"})
            => \A p \in Requests : tfReq[p].at \notin {"enable", "clear"}
      BY <3>1, <1>1
    <3> QED BY <1>1, <2>1, <3>2 DEF FactorWhole, FactorInv
  <2>4. /\ record' \in Rows2FA
        /\ setups' \in 0..MaxSetups /\ setups <= setups' /\ spent' \subseteq CodesTo(setups')
        /\ record'.codes \subseteq CodesTo(setups')
    <3>1. record' \in Rows2FA
      BY <1>1, <2>1, FactorFacts, FactorRows
    <3>2. setups' \in 0..MaxSetups
      BY <1>1, <2>1, FactorFacts, FactorRows
    <3>3. setups <= setups'
      <4>1. setups' = setups
        BY <1>1, <2>1
      <4>2. setups \in Nat
        BY FactorRows
      <4> QED BY <4>1, <4>2
    <3>4. spent' \subseteq CodesTo(setups')
      BY <1>1, <2>1, FactorFacts, FactorRows
    <3>5. record'.codes \subseteq CodesTo(setups')
      BY <1>1, <2>1, FactorFacts, FactorRows
    <3> QED BY <3>1, <3>2, <3>3, <3>4, <3>5
  <2>40. enabled' \in BOOLEAN /\ torn' \in BOOLEAN
    BY <1>1, <2>1, FactorTyped
  <2> QED BY <2>1, <2>2, <2>3, <2>4, <2>40, FactorMove
<1>3. CASE record # NoRecord
  <2> DEFINE left == tfReq[q].read.codes \ {tfReq[q].code}
             new == [record EXCEPT !.codes = left]
             state == IF tfReq[q].at = "consume" THEN TfIdle
                      ELSE [at |-> "delete", read |-> new, code |-> NoCode]
  <2>1. /\ record' = new /\ tfReq' = [tfReq EXCEPT ![q] = state] /\ Stale(q)
        /\ spent' = spent \cup {tfReq[q].code}
    BY <1>3 DEF ConsumeCode
  <2>2. left \subseteq CodesTo(setups) /\ tfReq[q].code \in CodesTo(setups)
    BY <1>1, FactorFacts, FactorRows DEF RequestFits, TfIdle
  <2>3. new \in Rows2FA /\ new.codes = left /\ new.verified = record.verified
    BY <1>3, <2>2, FactorFacts, FactorRows DEF Rows2FA, Record
  <2>4. RequestFits(state, setups')
    <3>1. CASE state = TfIdle
      BY <3>1 DEF RequestFits, TfIdle
    <3>2. CASE state = [at |-> "delete", read |-> new, code |-> NoCode]
      <4>1. [at |-> "delete", read |-> new, code |-> NoCode] \in Waits2FA
        BY <2>3 DEF Waits2FA
      <4> QED BY <3>2, <4>1, <2>2, <2>3, <1>1, FactorFacts, FactorRows DEF RequestFits
    <3> QED BY <3>1, <3>2
  <2>5. torn' \in BOOLEAN /\ (~torn' => ~torn /\ record = tfReq[q].read)
    BY <2>1, FactorStale
  <2>6. state.at \notin {"enable", "clear"}
    BY FactorFacts, FactorRows
  <2> HIDE DEF new, state
  <2>7. FactorWhole'
    <3>1. tfReq'[q] = state /\ \A p \in Requests : p # q => tfReq'[p] = tfReq[p]
      BY <2>1, FactorFacts, FactorRows
    <3>2. (\A p \in Requests : tfReq'[p].at \notin {"enable", "clear"})
            => \A p \in Requests : tfReq[p].at \notin {"enable", "clear"}
      BY <3>1, <1>1
    <3>3. ~torn' => record'.codes \cap spent' = {}
      BY <2>1, <2>3, <2>5 DEF FactorInv, FactorWhole
    <3> QED BY <1>1, <2>1, <2>3, <2>5, <3>2, <3>3 DEF FactorWhole, FactorInv
  <2>8. /\ record' \in Rows2FA
        /\ setups' \in 0..MaxSetups /\ setups <= setups' /\ spent' \subseteq CodesTo(setups')
        /\ record'.codes \subseteq CodesTo(setups')
    <3>1. record' \in Rows2FA
      BY <1>1, <2>1, <2>2, <2>3, FactorFacts, FactorRows
    <3>2. setups' \in 0..MaxSetups
      BY <1>1, <2>1, <2>2, <2>3, FactorFacts, FactorRows
    <3>3. setups <= setups'
      <4>1. setups' = setups
        BY <1>1, <2>1, <2>2, <2>3
      <4>2. setups \in Nat
        BY FactorRows
      <4> QED BY <4>1, <4>2
    <3>4. spent' \subseteq CodesTo(setups')
      BY <1>1, <2>1, <2>2, <2>3, FactorFacts, FactorRows
    <3>5. record'.codes \subseteq CodesTo(setups')
      BY <1>1, <2>1, <2>2, <2>3, FactorFacts, FactorRows
    <3> QED BY <3>1, <3>2, <3>3, <3>4, <3>5
  <2>80. enabled' \in BOOLEAN
    BY <1>1, <2>1, <2>2, <2>3, FactorTyped
  <2> QED BY <2>1, <2>4, <2>5, <2>7, <2>8, <2>80, FactorMove
<1> QED BY <1>2, <1>3

LEMMA FactorStep == FactorInv /\ [TfNext]_tfVars => FactorInv'
<1> SUFFICES ASSUME FactorInv, [TfNext]_tfVars PROVE FactorInv'
  OBVIOUS
<1>1. ASSUME NEW q \in Requests,
             \/ GenerateSetup(q) \/ VerifyCode(q) \/ Disable(q)
             \/ \E c \in Code, then \in {"consume", "consume and disable"} : Validate(q, c, then)
      PROVE  FactorInv'
  <2>1. CASE GenerateSetup(q)
    BY <2>1, FactorReads DEF GenerateSetup, At
  <2>2. CASE VerifyCode(q)
    BY <2>2, FactorReads DEF VerifyCode, At
  <2>3. CASE Disable(q)
    BY <2>3, FactorReads DEF Disable, At
  <2>4. ASSUME NEW c \in Code, NEW then \in {"consume", "consume and disable"},
               Validate(q, c, then)
        PROVE  FactorInv'
    BY <2>4, FactorReads DEF Validate, At
  <2> QED BY <1>1, <2>1, <2>2, <2>3, <2>4
<1>2. CASE UNCHANGED tfVars
  BY <1>2 DEF tfVars, FactorInv, TfTypeOK, RequestFits, FactorWhole
<1> QED BY <1>1, <1>2, FactorUpserts, FactorMarks, FactorFlags, FactorStops, FactorDeletes,
           FactorConsumes DEF TfNext

LEMMA FactorWholeOnly == FactorInv => SecondFactorIsWhole
BY DEF FactorInv, FactorWhole, SecondFactorIsWhole, TfIdle

-----------------------------------------------------------------------------
(* The access token.                                                        *)

Overrides == [permission : Extras, granted : BOOLEAN]
Tokens ==
  [tenant : ContextTenants, roles : SUBSET RoleNames, permissions : SUBSET ALL_PERMISSIONS,
   originalTenantId : {"none", Parent}, switched : BOOLEAN, live : BOOLEAN]

\* The token knows the way home, and carries nothing its user has not had.
TokenKnows ==
  /\ token.tenant # home => home = Parent /\ token.originalTenantId = Parent
  /\ token.tenant = home => token.originalTenantId = "none"
  /\ page # NoPage
  /\ page.tenant # token.tenant => token.tenant = home /\ ~token.switched
TokenWithinHeld == token.roles \subseteq held /\ token.permissions \subseteq held

GateInv ==
  /\ GateTypeOK
  /\ grants \in [roles : SUBSET RoleNames, overrides : SUBSET Overrides]
  /\ token # NoToken => token \in Tokens /\ TokenKnows /\ TokenWithinHeld

\* What is granted is known to the matrix, by a role or by hand.
LEMMA AuthorityKnown ==
  ASSUME NEW g \in [roles : SUBSET RoleNames, overrides : SUBSET Overrides]
  PROVE  /\ effectivePermissions(g) \subseteq ALL_PERMISSIONS
         /\ Authority(g) \subseteq RoleNames \cup ALL_PERMISSIONS
<1>1. GrantedBy(g.roles) \subseteq ALL_PERMISSIONS
  BY MatrixAssumption DEF GrantedBy
<1>2. {o.permission : o \in {x \in g.overrides : x.granted}} \subseteq ALL_PERMISSIONS
  BY AccessAssumption DEF Overrides
<1>3. effectivePermissions(g) \subseteq ALL_PERMISSIONS
  BY <1>1, <1>2 DEF effectivePermissions, applyOverrides
<1> QED BY <1>3 DEF Authority

LEMMA GateStart == GateInit => GateInv
<1> SUFFICES ASSUME GateInit PROVE GateInv
  OBVIOUS
<1>1. /\ home \in ContextTenants /\ changes = {} /\ token = NoToken /\ page = NoPage
      /\ grants \in [roles : SUBSET RoleNames, overrides : SUBSET Overrides]
      /\ held = Authority(grants)
  BY DEF GateInit, ContextTenants
<1>2. held \subseteq RoleNames \cup ALL_PERMISSIONS
  BY <1>1, AuthorityKnown
<1> QED BY <1>1, <1>2 DEF GateInv, GateTypeOK, Overrides

LEMMA GateFacts ==
  ASSUME GateInv
  PROVE  /\ home \in ContextTenants /\ changes \subseteq Posts
         /\ held \subseteq RoleNames \cup ALL_PERMISSIONS
         /\ grants \in [roles : SUBSET RoleNames, overrides : SUBSET Overrides]
         /\ token = NoToken \/ (token \in Tokens /\ TokenKnows /\ TokenWithinHeld)
         /\ page = NoPage \/ page.tenant \in ContextTenants
         /\ NoToken.live = FALSE
BY DEF GateInv, GateTypeOK, NoToken

\* What is to be shown of a step.
LEMMA GateTyped ==
  ASSUME home' \in ContextTenants, changes' \subseteq Posts,
         held' \subseteq RoleNames \cup ALL_PERMISSIONS,
         grants' \in [roles : SUBSET RoleNames, overrides : SUBSET Overrides],
         token' = NoToken \/ (token' \in Tokens /\ TokenKnows' /\ TokenWithinHeld'),
         page' = NoPage \/ page'.tenant \in ContextTenants
  PROVE  GateInv'
<1>1. token' = NoToken
        \/ (token'.tenant \in ContextTenants /\ token'.permissions \subseteq ALL_PERMISSIONS)
  BY DEF Tokens
<1>2. grants'.roles \subseteq RoleNames /\ grants'.overrides \subseteq [permission : Extras, granted : BOOLEAN]
  BY DEF Overrides
<1>3. GateTypeOK'
  BY <1>1, <1>2 DEF GateTypeOK
<1> QED BY <1>3 DEF GateInv

LEMMA GateGrants ==
  ASSUME GateInv, RemoveRoles \/ AssignRole \/ setUserPermissionOverrides
  PROVE  GateInv'
<1>1. /\ UNCHANGED <<home, token, page>>
      /\ grants' \in [roles : SUBSET RoleNames, overrides : SUBSET Overrides]
      /\ changes' \subseteq Posts
  <2>1. CASE RemoveRoles
    BY <2>1, GateFacts DEF RemoveRoles
  <2>2. CASE AssignRole
    BY <2>2, GateFacts, AccessAssumption DEF AssignRole
  <2>3. CASE setUserPermissionOverrides
    BY <2>3, GateFacts DEF setUserPermissionOverrides, Overrides
  <2> QED BY <2>1, <2>2, <2>3
<1>2. held' = held \/ held' = held \cup Authority(grants')
  BY DEF RemoveRoles, AssignRole, setUserPermissionOverrides
<1>3. held \subseteq held' /\ held' \subseteq RoleNames \cup ALL_PERMISSIONS
  BY <1>1, <1>2, GateFacts, AuthorityKnown
<1>4. token' = NoToken \/ (token' \in Tokens /\ TokenKnows' /\ TokenWithinHeld')
  BY <1>1, <1>3, GateFacts DEF TokenKnows, TokenWithinHeld
<1> QED BY <1>1, <1>3, <1>4, GateFacts, GateTyped

\* A token minted from what the database holds.
LEMMA GateMints ==
  ASSUME GateInv, token' = MintHome, held' = Authority(grants), UNCHANGED <<home, grants, changes>>,
         page' # NoPage, page'.tenant \in ContextTenants
  PROVE  GateInv'
<1>1. /\ effectivePermissions(grants) \subseteq ALL_PERMISSIONS
      /\ Authority(grants) \subseteq RoleNames \cup ALL_PERMISSIONS
  BY GateFacts, AuthorityKnown
<1>2. token' = [tenant |-> home, roles |-> grants.roles, permissions |-> effectivePermissions(grants),
                originalTenantId |-> "none", switched |-> FALSE, live |-> TRUE]
  BY DEF MintHome, Mint
<1>3. token' \in Tokens
  BY <1>1, <1>2, GateFacts DEF Tokens
<1>4. TokenKnows'
  BY <1>2 DEF TokenKnows
<1>5. TokenWithinHeld'
  BY <1>2 DEF TokenWithinHeld, Authority
<1> QED BY <1>1, <1>3, <1>4, <1>5, GateFacts, GateTyped

LEMMA GateEnters ==
  ASSUME GateInv, login \/ refreshTokens
  PROVE  GateInv'
<1>1. CASE login
  <2>1. page' = [tenant |-> home, roles |-> token'.roles, permissions |-> token'.permissions]
    BY <1>1 DEF login, Profile, MintHome, Mint
  <2>2. page'.tenant \in ContextTenants /\ page' # NoPage
    <3>1. page'.roles = token'.roles /\ "roles" \in DOMAIN page' /\ "roles" \notin DOMAIN NoPage
      BY <2>1 DEF NoPage
    <3> QED BY <2>1, <3>1, GateFacts
  <2> QED BY <1>1, <2>2, GateMints DEF login
<1>2. CASE refreshTokens
  BY <1>2, GateFacts, GateMints DEF refreshTokens
<1> QED BY <1>1, <1>2

LEMMA GateSwitches ==
  ASSUME GateInv, switchContext
  PROVE  GateInv'
<1> DEFINE homeId == IF token.originalTenantId = "none" THEN token.tenant ELSE token.originalTenantId
<1>1. /\ UNCHANGED <<home, grants, changes, held>> /\ page' = Profile(token') /\ homeId = Parent
      /\ token.live
  BY DEF switchContext, Accepted, authenticated
<1>2. PICK target \in ContextTenants :
        token' = Mint(target, token.roles, token.permissions, WayHome(homeId, target), TRUE)
  BY DEF switchContext
<1>3. token \in Tokens /\ TokenKnows /\ TokenWithinHeld
  BY <1>1, GateFacts
<1>4. home = Parent /\ Parent # "none"
  BY <1>1, <1>3 DEF TokenKnows, Parent
<1>5. token' = [tenant |-> target, roles |-> token.roles, permissions |-> token.permissions,
                originalTenantId |-> IF target = Parent THEN "none" ELSE Parent,
                switched |-> TRUE, live |-> TRUE]
  BY <1>1, <1>2 DEF Mint, WayHome
<1>6. token' \in Tokens
  BY <1>3, <1>5 DEF Tokens
<1>7. page' = [tenant |-> target, roles |-> token.roles, permissions |-> token.permissions]
  BY <1>1, <1>5 DEF Profile
<1>8. page'.tenant = target /\ page' # NoPage
  <2>1. "roles" \in DOMAIN page' /\ "roles" \notin DOMAIN NoPage
    BY <1>7 DEF NoPage
  <2> QED BY <1>7, <2>1
<1>9. TokenKnows'
  BY <1>1, <1>4, <1>5, <1>8 DEF TokenKnows
<1>10. TokenWithinHeld'
  BY <1>1, <1>3, <1>5 DEF TokenWithinHeld
<1> QED BY <1>1, <1>6, <1>8, <1>9, <1>10, GateFacts, GateTyped

LEMMA GateLeaves ==
  ASSUME GateInv, hydrate \/ logout \/ TokenExpires
  PROVE  GateInv'
<1>1. CASE hydrate
  <2>1. /\ UNCHANGED <<home, grants, changes, held, token>>
        /\ page' = [tenant |-> token.tenant, roles |-> token.roles, permissions |-> token.permissions]
        /\ token.live
    BY <1>1 DEF hydrate, Profile, authenticated
  <2>2. token \in Tokens /\ TokenKnows /\ TokenWithinHeld
    BY <2>1, GateFacts
  <2>3. page'.tenant = token.tenant /\ page' # NoPage /\ token.tenant \in ContextTenants
    <3>1. "roles" \in DOMAIN page' /\ "roles" \notin DOMAIN NoPage
      BY <2>1 DEF NoPage
    <3> QED BY <2>1, <2>2, <3>1 DEF Tokens
  <2>4. TokenKnows' /\ TokenWithinHeld'
    BY <2>1, <2>2, <2>3 DEF TokenKnows, TokenWithinHeld
  <2> QED BY <2>1, <2>2, <2>3, <2>4, GateFacts, GateTyped
<1>2. CASE logout
  <2>1. UNCHANGED <<home, grants, changes, held>> /\ token' = NoToken /\ page' = NoPage
    BY <1>2 DEF logout
  <2> QED BY <2>1, GateFacts, GateTyped
<1>3. CASE TokenExpires
  <2>1. /\ UNCHANGED <<home, grants, changes, held, page>>
        /\ token' = [token EXCEPT !.live = FALSE] /\ token.live
    BY <1>3 DEF TokenExpires
  <2>2. token \in Tokens /\ TokenKnows /\ TokenWithinHeld
    BY <2>1, GateFacts
  <2>3. /\ token' \in Tokens /\ token'.tenant = token.tenant /\ token'.roles = token.roles
        /\ token'.permissions = token.permissions
        /\ token'.originalTenantId = token.originalTenantId /\ token'.switched = token.switched
    BY <2>1, <2>2 DEF Tokens
  <2>4. TokenKnows' /\ TokenWithinHeld'
    BY <2>1, <2>2, <2>3 DEF TokenKnows, TokenWithinHeld
  <2> QED BY <2>1, <2>3, <2>4, GateFacts, GateTyped
<1> QED BY <1>1, <1>2, <1>3

LEMMA GateStep == GateInv /\ [GateNext]_gateVars => GateInv'
<1>1. ASSUME GateInv, UNCHANGED gateVars PROVE GateInv'
  <2>1. UNCHANGED <<home, grants, changes, held, token, page>>
    BY <1>1 DEF gateVars
  <2> QED BY <1>1, <2>1, GateTyped, GateFacts DEF TokenKnows, TokenWithinHeld
<1> QED BY <1>1, GateGrants, GateEnters, GateSwitches, GateLeaves DEF GateNext

LEMMA ContextKnownOnly == GateInv => ContextIsKnown
BY DEF GateInv, ContextIsKnown, TokenKnows

\* Who passes the gates of an offer passes the guard of the route behind it.
LEMMA OffersHonouredOnly == GateInv => OffersAreHonoured
<1> SUFFICES ASSUME GateInv, authenticated, page # NoPage, page = Profile(token), ~clientOnly(token),
                    NEW p \in Promises \ Overpromised, SeenBy(p, page),
                    p \in AskedOtherwise => page.permissions = GrantedBy(page.roles)
             PROVE  p.send \in {r.handler : r \in Accepted}
  BY DEF OffersAreHonoured
<1>1. page.roles = token.roles /\ page.permissions = token.permissions /\ token.roles \subseteq RoleNames
  BY GateFacts DEF authenticated, Profile, Tokens
<1>2. PICK r \in AllRoutes :
        /\ r.handler = p.send
        /\ HasAsked(p.gates, r.guard) \/ (p \in AskedOtherwise /\ HasByRole(p.gates, r.guard))
  BY OffersAssumption
<1>3. \A g \in p.gates : Admitted(g, token)
  BY <1>1 DEF SeenBy, Admitted
<1>4. Admitted(r.guard, token)
  <2>1. CASE HasAsked(p.gates, r.guard)
    BY <1>3, <2>1 DEF HasAsked, Admitted
  <2>2. CASE p \in AskedOtherwise /\ HasByRole(p.gates, r.guard)
    <3>1. PICK g \in p.gates :
            /\ (g.roles = {}) # (g.anyOf = {})
            /\ \A name \in RoleNames :
                 (g.roles # {} => name \in g.roles)
                 /\ (g.anyOf # {} => getPermissionsForRole(name) \cap g.anyOf # {})
                 => /\ r.guard.roles = {} \/ name \in r.guard.roles
                    /\ r.guard.anyOf = {} \/ getPermissionsForRole(name) \cap r.guard.anyOf # {}
      BY <2>2 DEF HasByRole
    <3>2. token.permissions = GrantedBy(token.roles)
      BY <1>1, <2>2
    <3>3. PICK name \in token.roles :
            (g.roles # {} => name \in g.roles)
            /\ (g.anyOf # {} => getPermissionsForRole(name) \cap g.anyOf # {})
      BY <1>3, <3>1, <3>2 DEF Admitted, GrantedBy
    <3>4. /\ r.guard.roles = {} \/ name \in r.guard.roles
          /\ r.guard.anyOf = {} \/ getPermissionsForRole(name) \cap r.guard.anyOf # {}
      BY <1>1, <3>1, <3>3
    <3>5. getPermissionsForRole(name) \subseteq token.permissions
      BY <3>2 DEF GrantedBy
    <3> QED BY <3>4, <3>5 DEF Admitted
  <2> QED BY <1>2, <2>1, <2>2
<1>5. r \in Accepted
  BY <1>2, <1>4 DEF Accepted
<1> QED BY <1>2, <1>5

\* A permission in S comes from a role in S, or by hand.
Explained(S) ==
  \A p \in S \cap ALL_PERMISSIONS :
    p \in Extras \/ \E r \in S \cap RoleNames : p \in getPermissionsForRole(r)

\* So it does in what the database holds for a user ...
LEMMA AuthorityExplained ==
  ASSUME NEW g \in [roles : SUBSET RoleNames, overrides : SUBSET Overrides]
  PROVE  Explained(Authority(g))
<1> SUFFICES ASSUME NEW p \in Authority(g), p \in ALL_PERMISSIONS
             PROVE  \/ p \in Extras
                    \/ \E r \in Authority(g) \cap RoleNames : p \in getPermissionsForRole(r)
  BY DEF Explained
<1>1. p \in effectivePermissions(g)
  BY MatrixAssumption DEF Authority
<1>2. p \in GrantedBy(g.roles) \/ p \in {o.permission : o \in {x \in g.overrides : x.granted}}
  BY <1>1 DEF effectivePermissions, applyOverrides
<1>3. CASE p \in GrantedBy(g.roles)
  BY <1>3 DEF GrantedBy, Authority
<1>4. CASE p \in {o.permission : o \in {x \in g.overrides : x.granted}}
  BY <1>4 DEF Overrides
<1> QED BY <1>2, <1>3, <1>4

\* ... and in two sets together if in each.
LEMMA ExplainedTogether ==
  ASSUME NEW S, NEW T, Explained(S), Explained(T)
  PROVE  Explained(S \cup T)
BY DEF Explained

LEMMA ExplainedStart == GateInit => Explained(held)
<1> SUFFICES ASSUME GateInit PROVE Explained(held)
  OBVIOUS
<1>1. grants \in [roles : SUBSET RoleNames, overrides : SUBSET Overrides] /\ held = Authority(grants)
  BY DEF GateInit
<1> QED BY <1>1, AuthorityExplained

LEMMA ExplainedStep ==
  ASSUME GateInv, GateInv', Explained(held), [GateNext]_gateVars
  PROVE  Explained(held')
<1>1. \/ held' = held \/ held' = held \cup Authority(grants')
      \/ held' = Authority(grants) /\ UNCHANGED grants
  BY DEF GateNext, gateVars, RemoveRoles, AssignRole, setUserPermissionOverrides, login,
         refreshTokens, switchContext, hydrate, logout, TokenExpires
<1>2. Explained(Authority(grants')) /\ Explained(Authority(grants))
  <2>1. grants' \in [roles : SUBSET RoleNames, overrides : SUBSET Overrides]
    BY DEF GateInv
  <2>2. grants \in [roles : SUBSET RoleNames, overrides : SUBSET Overrides]
    BY DEF GateInv
  <2>3. ASSUME NEW g \in [roles : SUBSET RoleNames, overrides : SUBSET Overrides]
        PROVE  Explained(Authority(g))
    BY AuthorityExplained
  <2> QED BY <2>1, <2>2, <2>3
<1> QED BY <1>1, <1>2, ExplainedTogether

\* Who passes the guard has one of the roles it is for, or a permission by hand.
LEMMA PassedByRight ==
  ASSUME GateInv, Explained(held), authenticated, NEW guard, Admitted(guard, token),
         NEW names, GuardedFor(guard, names)
  PROVE  held \cap names # {} \/ held \cap guard.anyOf \cap Extras # {}
<1>1. token \in Tokens /\ TokenWithinHeld
  BY GateFacts DEF authenticated
<1>2. CASE guard.roles # {} /\ guard.roles \subseteq names
  BY <1>1, <1>2 DEF Admitted, TokenWithinHeld
<1>3. CASE /\ guard.anyOf # {}
           /\ \A r \in RoleNames : getPermissionsForRole(r) \cap guard.anyOf # {} => r \in names
  <2>1. PICK p \in guard.anyOf : p \in token.permissions
    BY <1>3 DEF Admitted
  <2>2. p \in held /\ p \in ALL_PERMISSIONS
    BY <1>1, <2>1 DEF TokenWithinHeld, Tokens
  <2>3. p \in Extras \/ \E r \in held \cap RoleNames : p \in getPermissionsForRole(r)
    BY <2>2 DEF Explained
  <2> QED BY <1>3, <2>1, <2>2, <2>3
<1> QED BY <1>2, <1>3 DEF GuardedFor

LEMMA ReachGrantedOnly == GateInv /\ Explained(held) => ReachIsGranted
<1> SUFFICES ASSUME GateInv, Explained(held), authenticated,
                    NEW r \in AllRoutes, ~r.read, Admitted(r.guard, token)
             PROVE  /\ Admitted(r.guard, [roles |-> held, permissions |-> held])
                    /\ \/ r.changes \cap RegisterTables = {}
                       \/ held \cap (RoleNames \ RegisterReaders) # {}
                       \/ held \cap r.guard.anyOf \cap Extras # {}
                    /\ \/ r.changes \cap (Organisation \cup PlatformTables) = {}
                       \/ held \cap Administrators # {}
                       \/ held \cap r.guard.anyOf \cap Extras # {}
                    /\ (r.changes \cap PlatformTables # {} /\ r \notin OnboardingRoutes) =>
                         held \cap PLATFORM_ROLES # {}
  BY DEF ReachIsGranted, Accepted
<1>1. token.roles \subseteq held /\ token.permissions \subseteq held
  BY GateFacts DEF authenticated, TokenWithinHeld
<1>2. Admitted(r.guard, [roles |-> held, permissions |-> held])
  BY <1>1 DEF Admitted
<1>3. /\ r.changes \cap RegisterTables # {} => GuardedFor(r.guard, RoleNames \ RegisterReaders)
      /\ r.changes \cap (Organisation \cup PlatformTables) # {} =>
           GuardedFor(r.guard, Administrators)
      /\ (r.changes \cap PlatformTables # {} /\ r \notin OnboardingRoutes) =>
           (r.guard.roles # {} /\ r.guard.roles \subseteq PLATFORM_ROLES)
  BY GuardsAssumption
<1>4. \/ r.changes \cap RegisterTables = {}
      \/ held \cap (RoleNames \ RegisterReaders) # {}
      \/ held \cap r.guard.anyOf \cap Extras # {}
  BY <1>3, PassedByRight
<1>5. \/ r.changes \cap (Organisation \cup PlatformTables) = {}
      \/ held \cap Administrators # {}
      \/ held \cap r.guard.anyOf \cap Extras # {}
  BY <1>3, PassedByRight
<1>6. (r.changes \cap PlatformTables # {} /\ r \notin OnboardingRoutes) =>
        held \cap PLATFORM_ROLES # {}
  BY <1>1, <1>3 DEF Admitted
<1> QED BY <1>2, <1>4, <1>5, <1>6

-----------------------------------------------------------------------------
(* Accounts.  A request that looked the account up brings at most one       *)
(* invitation, one role or one use: each of the three bounds counts what is *)
(* there together with the requests that are about to add to it.            *)

Inviting     == {r \in Requests : accReq[r].at \in {"create", "invite"}}
Granting     == {r \in Requests : accReq[r].at \in {"invite", "grant"}}
Accepting(i) == {r \in Requests : accReq[r].at = "accept" /\ accReq[r].invite = i}

\* The inductive invariant of Accounts: before there is an account, nothing of
\* it is there and nobody works on it.
AccountInv ==
  /\ AccTypeOK
  /\ IsFiniteSet(roles)
  /\ ~Exists => invites = <<>> /\ roles = {}
  /\ \A r \in Requests : accReq[r].at \notin {"idle", "invited"} => Exists
  /\ Cardinality(OpenInvites) + Cardinality(Inviting) <= Cardinality(Requests)
  /\ Cardinality(roles) + Cardinality(Granting) <= Cardinality(Requests)
  /\ \A i \in DOMAIN invites :
       invites[i].used + Cardinality(Accepting(i)) <= Cardinality(Requests)

\* What the invariant gives, with its sets finite.
LEMMA AccountFacts ==
  ASSUME AccountInv
  PROVE  /\ userRow \in UserRow
         /\ invites \in Seq(Invite) /\ Len(invites) <= MaxInvites
         /\ accReq \in [Requests -> AccStates]
         /\ roles \subseteq Roles /\ IsFiniteSet(roles)
         /\ ~Exists => invites = <<>> /\ roles = {}
         /\ \A r \in Requests : accReq[r].at \notin {"idle", "invited"} => Exists
         /\ Cardinality(OpenInvites) + Cardinality(Inviting) <= Cardinality(Requests)
         /\ Cardinality(roles) + Cardinality(Granting) <= Cardinality(Requests)
         /\ \A i \in DOMAIN invites :
              invites[i].used + Cardinality(Accepting(i)) <= Cardinality(Requests)
BY DEF AccountInv, AccTypeOK

\* The part of a finite set has no more elements than the set.
LEMMA PartOf ==
  ASSUME NEW S, IsFiniteSet(S), NEW T, T \subseteq S
  PROVE  IsFiniteSet(T) /\ Cardinality(T) \in Nat /\ Cardinality(T) <= Cardinality(S)
BY FS_Subset, FS_CardinalityType

\* One element less.
LEMMA OneLess ==
  ASSUME NEW S, IsFiniteSet(S), NEW x, x \in S
  PROVE  /\ IsFiniteSet(S \ {x}) /\ Cardinality(S \ {x}) + 1 = Cardinality(S)
         /\ Cardinality(S \ {x}) \in Nat /\ Cardinality(S) \in Nat
<1>1. IsFiniteSet(S \ {x}) /\ Cardinality(S \ {x}) = Cardinality(S) - 1
  BY FS_RemoveElement
<1>2. Cardinality(S) \in Nat /\ Cardinality(S \ {x}) \in Nat
  BY <1>1, FS_CardinalityType
<1>3. QED
  BY <1>1, <1>2

LEMMA OpenAreFinite ==
  ASSUME invites \in Seq(Invite)
  PROVE  IsFiniteSet(OpenInvites) /\ Cardinality(OpenInvites) \in Nat
<1>1. OpenInvites \subseteq 1..Len(invites) /\ Len(invites) \in Nat
  BY DEF OpenInvites
<1>2. IsFiniteSet(1..Len(invites))
  BY <1>1, FS_Interval
<1> QED BY <1>1, <1>2, FS_Subset, FS_CardinalityType

LEMMA AccountStart == AccInit => AccountInv
<1> SUFFICES ASSUME AccInit PROVE AccountInv
  OBVIOUS
<1>1. /\ userRow = [row |-> "none", active |-> FALSE, password |-> FALSE] /\ roles = {}
      /\ invites = <<>> /\ accReq = [r \in Requests |-> AccIdle]
  BY DEF AccInit
<1>2. AccTypeOK
  BY <1>1, InvitesAssumption DEF AccTypeOK, UserRow, AccStates
<1>3. OpenInvites = {} /\ Inviting = {} /\ Granting = {}
  BY <1>1 DEF OpenInvites, Inviting, Granting, AccIdle
<1>4. Cardinality({}) = 0 /\ IsFiniteSet({}) /\ Cardinality(Requests) \in Nat
  BY FS_EmptySet, RequestsAssumption, FS_CardinalityType
<1>5. \A r \in Requests : accReq[r].at = "idle"
  BY <1>1 DEF AccIdle
<1>6. DOMAIN invites = {}
  BY <1>1
<1> QED BY <1>1, <1>2, <1>3, <1>4, <1>5, <1>6 DEF AccountInv

\* The next state has its types, and its sets of requests are these.
LEMMA AccountTyped ==
  ASSUME userRow' \in UserRow, invites' \in Seq(Invite), Len(invites') <= MaxInvites,
         accReq' \in [Requests -> AccStates], roles' \subseteq Roles, IsFiniteSet(roles'),
         (~Exists => invites = <<>> /\ roles = {})',
         (\A r \in Requests : accReq[r].at \notin {"idle", "invited"} => Exists)',
         (Cardinality(OpenInvites) + Cardinality(Inviting) <= Cardinality(Requests))',
         (Cardinality(roles) + Cardinality(Granting) <= Cardinality(Requests))',
         (\A i \in DOMAIN invites :
            invites[i].used + Cardinality(Accepting(i)) <= Cardinality(Requests))'
  PROVE  AccountInv'
BY DEF AccountInv, AccTypeOK

LEMMA RequestCounts ==
  ASSUME NEW T, T \subseteq Requests
  PROVE  /\ IsFiniteSet(T) /\ Cardinality(T) \in Nat /\ Cardinality(T) <= Cardinality(Requests)
         /\ Cardinality(Requests) \in Nat
BY PartOf, RequestsAssumption, FS_CardinalityType

\* A request looks up, stops, or writes the account; it is about to bring nothing
\* it did not bring before, except a role when all the roles have gone.
LEMMA AccountMoves ==
  ASSUME AccountInv, NEW r \in Requests, NEW b \in AccStates,
         accReq' = [accReq EXCEPT ![r] = b], invites' = invites,
         userRow' \in UserRow, Exists' = Exists,
         roles' = roles \/ roles' = {},
         b.at \notin {"create", "invite", "accept"},
         b.at = "grant" => accReq[r].at = "invite" \/ roles' = {},
         b.at \notin {"idle", "invited"} => Exists
  PROVE  AccountInv'
<1>1. accReq' \in [Requests -> AccStates] /\ accReq'[r] = b
      /\ \A q \in Requests : q # r => accReq'[q] = accReq[q]
  BY AccountFacts
<1>2. roles' \subseteq Roles /\ IsFiniteSet(roles')
  BY AccountFacts, FS_EmptySet
<1>3. Inviting' \subseteq Inviting /\ OpenInvites' = OpenInvites
  BY <1>1 DEF Inviting, OpenInvites
<1>4. (Cardinality(OpenInvites) + Cardinality(Inviting) <= Cardinality(Requests))'
  <2>1. Inviting \subseteq Requests
    BY DEF Inviting
  <2>2. IsFiniteSet(Inviting) /\ Cardinality(Inviting) \in Nat
    BY <2>1, RequestCounts
  <2>3. Cardinality(Inviting') \in Nat /\ Cardinality(Inviting') <= Cardinality(Inviting)
    BY <2>2, <1>3, PartOf
  <2>4. Cardinality(OpenInvites') = Cardinality(OpenInvites)
    BY <1>3
  <2> QED BY <2>2, <2>3, <2>4, AccountFacts, OpenAreFinite, RequestCounts
<1>5. (Cardinality(roles) + Cardinality(Granting) <= Cardinality(Requests))'
  <2>1. Granting' \subseteq Requests /\ Granting \subseteq Requests
    BY DEF Granting
  <2>2. CASE roles' = {}
    <3>1. Cardinality(roles') = 0
      BY <2>2, FS_EmptySet
    <3> QED BY <2>1, <3>1, RequestCounts
  <2>3. CASE roles' = roles /\ roles' # {}
    <3>1. Granting' \subseteq Granting
      BY <1>1, <2>3 DEF Granting
    <3>2. Cardinality(Granting') <= Cardinality(Granting) /\ Cardinality(Granting') \in Nat
          /\ Cardinality(Granting) \in Nat
      BY <2>1, <3>1, RequestCounts, PartOf
    <3>3. Cardinality(roles') = Cardinality(roles) /\ Cardinality(roles) \in Nat
      BY <2>3, AccountFacts, FS_CardinalityType
    <3> QED BY <3>2, <3>3, AccountFacts, RequestCounts
  <2> QED BY <2>2, <2>3
<1>6. ASSUME NEW i \in DOMAIN invites
      PROVE  (invites[i].used)' + Cardinality(Accepting(i)') <= Cardinality(Requests)
  <2>1. Accepting(i)' \subseteq Accepting(i) /\ Accepting(i) \subseteq Requests
    BY <1>1 DEF Accepting
  <2>2. Cardinality(Accepting(i)') <= Cardinality(Accepting(i)) /\ Cardinality(Accepting(i)') \in Nat
        /\ Cardinality(Accepting(i)) \in Nat
    BY <2>1, RequestCounts, PartOf
  <2>3. invites[i].used + Cardinality(Accepting(i)) <= Cardinality(Requests)
    BY AccountFacts
  <2>4. invites[i] \in Invite
    BY AccountFacts
  <2>5. invites[i].used \in Nat
    BY <2>4 DEF Invite
  <2> QED BY <2>2, <2>3, <2>5, RequestCounts
<1>7. (\A i \in DOMAIN invites :
          invites[i].used + Cardinality(Accepting(i)) <= Cardinality(Requests))'
  BY <1>6
<1>8. (~Exists => invites = <<>> /\ roles = {})'
  BY AccountFacts
<1>9. (\A q \in Requests : accReq[q].at \notin {"idle", "invited"} => Exists)'
  BY <1>1, AccountFacts
<1> QED BY <1>1, <1>2, <1>4, <1>5, <1>7, <1>8, <1>9, AccountTyped, AccountFacts

\* The requests that only look up, stop, or write the account.
LEMMA AccountRests ==
  ASSUME AccountInv, NEW r \in Requests,
         \/ ReadEmail(r) \/ ReadResend(r) \/ ReadActive(r) \/ WriteActive(r)
         \/ ReadRole(r) \/ ClearRoles(r) \/ ReadDeletion(r) \/ DeleteUser(r) \/ AccFail(r)
  PROVE  AccountInv'
<1>1. accReq[r] \in AccStates /\ userRow \in UserRow
  BY AccountFacts
<1>2. AccIdle \in AccStates /\ AccIdle.at = "idle"
  BY DEF AccStates, AccIdle
<1>3. CASE ReadEmail(r)
  <2>1. PICK role \in Roles \cup {"none"} : LookFor(r, ~Exists, [at |-> "invited", role |-> role])
    BY <1>3 DEF ReadEmail
  <2>2. [at |-> "invited", role |-> role] \in AccStates
    BY DEF AccStates
  <2> QED BY <2>1, <2>2, <1>1, AccountMoves DEF LookFor, AccSet, Exists
<1>4. CASE ReadResend(r)
  <2>1. [at |-> "expire"] \in AccStates
    BY DEF AccStates
  <2> QED BY <1>4, <2>1, <1>1, AccountMoves DEF ReadResend, LookFor, AccSet, Exists
<1>5. CASE ReadActive(r)
  <2>1. PICK active \in BOOLEAN : LookFor(r, Exists, [at |-> "activate", active |-> active])
    BY <1>5 DEF ReadActive
  <2>2. [at |-> "activate", active |-> active] \in AccStates
    BY DEF AccStates
  <2> QED BY <2>1, <2>2, <1>1, AccountMoves DEF LookFor, AccSet, Exists
<1>6. CASE WriteActive(r)
  <2>1. accReq[r].at = "activate" /\ userRow' = [userRow EXCEPT !.active = accReq[r].active]
        /\ accReq' = [accReq EXCEPT ![r] = AccIdle] /\ UNCHANGED <<roles, invites>>
    BY <1>6 DEF WriteActive, AccSet
  <2>2. accReq[r].active \in BOOLEAN
    BY <1>1, <2>1 DEF AccStates, AccIdle
  <2>3. userRow' \in UserRow /\ userRow'.row = userRow.row
    BY <1>1, <2>1, <2>2 DEF UserRow
  <2> QED BY <2>1, <2>3, <1>2, AccountMoves DEF Exists
<1>7. CASE ReadRole(r)
  <2>1. PICK role \in Roles : LookFor(r, Exists, [at |-> "clear", role |-> role])
    BY <1>7 DEF ReadRole
  <2>2. [at |-> "clear", role |-> role] \in AccStates
    BY DEF AccStates
  <2> QED BY <2>1, <2>2, <1>1, AccountMoves DEF LookFor, AccSet, Exists
<1>8. CASE ClearRoles(r)
  <2>1. accReq[r].at = "clear" /\ roles' = {} /\ UNCHANGED <<userRow, invites>>
        /\ accReq' = [accReq EXCEPT ![r] = [accReq[r] EXCEPT !.at = "grant"]]
    BY <1>8 DEF ClearRoles, AccSet
  <2>2. [accReq[r] EXCEPT !.at = "grant"] \in AccStates /\ [accReq[r] EXCEPT !.at = "grant"].at = "grant"
    BY <1>1, <2>1 DEF AccStates, AccIdle
  <2>3. Exists' = Exists /\ Exists
    BY <2>1, AccountFacts DEF Exists
  <2> QED BY <2>1, <2>2, <2>3, <1>1, AccountMoves
<1>9. CASE ReadDeletion(r)
  <2>1. [at |-> "delete"] \in AccStates
    BY DEF AccStates
  <2> QED BY <1>9, <2>1, <1>1, AccountMoves DEF ReadDeletion, LookFor, AccSet, Exists
<1>10. CASE DeleteUser(r)
  <2>1. accReq[r].at = "delete" /\ roles' = {} /\ UNCHANGED invites
        /\ accReq' = [accReq EXCEPT ![r] = AccIdle]
        /\ userRow' = [[userRow EXCEPT !.row = "deleted"] EXCEPT !.active = FALSE]
    BY <1>10 DEF DeleteUser, AccSet
  <2>2. userRow' \in UserRow /\ userRow'.row = "deleted"
    BY <1>1, <2>1 DEF UserRow
  <2>3. Exists' = Exists /\ Exists
    BY <2>1, <2>2, AccountFacts DEF Exists
  <2> QED BY <2>1, <2>2, <2>3, <1>2, AccountMoves
<1>11. CASE AccFail(r)
  BY <1>11, <1>1, <1>2, AccountMoves DEF AccFail, AccSet, Exists
<1> QED BY <1>3, <1>4, <1>5, <1>6, <1>7, <1>8, <1>9, <1>10, <1>11

\* inviteUser finds no account: nothing of it is there, so one invitation and
\* one role are within the bounds.
LEMMA AccountCreated ==
  ASSUME AccountInv, NEW r \in Requests, CreateUser(r)
  PROVE  AccountInv'
<1>1. accReq[r].at = "invited" /\ accReq[r] \in AccStates /\ UNCHANGED <<roles, invites>>
      /\ userRow \in UserRow
  BY AccountFacts DEF CreateUser
<1>2. CASE Exists
  <2>1. AccIdle \in AccStates /\ AccIdle.at = "idle"
    BY DEF AccStates, AccIdle
  <2> QED BY <1>1, <1>2, <2>1, AccountMoves DEF CreateUser, AccSet, Exists
<1>3. CASE ~Exists
  <2> DEFINE b == [accReq[r] EXCEPT !.at = "invite"]
  <2>1. userRow' = [userRow EXCEPT !.row = "here"] /\ accReq' = [accReq EXCEPT ![r] = b]
    BY <1>3 DEF CreateUser, AccSet
  <2>2. b \in AccStates /\ b.at = "invite"
    BY <1>1 DEF AccStates, AccIdle
  <2>3. userRow' \in UserRow /\ Exists'
    BY <1>1, <2>1 DEF UserRow, Exists
  <2>4. invites = <<>> /\ roles = {} /\ Cardinality({}) = 0 /\ IsFiniteSet({})
    BY <1>3, AccountFacts, FS_EmptySet
  <2>5. OpenInvites' = {} /\ DOMAIN invites' = {}
    BY <1>1, <2>4 DEF OpenInvites
  <2>6. Inviting' \subseteq Requests /\ Granting' \subseteq Requests
    BY DEF Inviting, Granting
  <2>7. /\ Cardinality(Inviting') <= Cardinality(Requests)
        /\ Cardinality(Inviting') \in Nat
        /\ Cardinality(Granting') <= Cardinality(Requests)
        /\ Cardinality(Granting') \in Nat
    BY <2>6, RequestCounts
  <2>8. /\ (Cardinality(OpenInvites) + Cardinality(Inviting) <= Cardinality(Requests))'
        /\ (Cardinality(roles) + Cardinality(Granting) <= Cardinality(Requests))'
    BY <1>1, <2>4, <2>5, <2>7
  <2>9. accReq' \in [Requests -> AccStates]
    BY <2>1, <2>2, AccountFacts
  <2> HIDE DEF b
  <2>10. (\A i \in DOMAIN invites :
            invites[i].used + Cardinality(Accepting(i)) <= Cardinality(Requests))'
    BY <2>5
  <2>11. (~Exists => invites = <<>> /\ roles = {})'
         /\ (\A q \in Requests : accReq[q].at \notin {"idle", "invited"} => Exists)'
    BY <2>3
  <2> QED BY <1>1, <2>3, <2>8, <2>9, <2>10, <2>11, AccountTyped, AccountFacts
<1> QED BY <1>2, <1>3

\* The bound on the invitations after one request stopped being about to invite.
LEMMA OneInviteLess ==
  ASSUME AccountInv, NEW r \in Inviting, Inviting' = Inviting \ {r}
  PROVE  /\ Cardinality(Inviting') + 1 = Cardinality(Inviting)
         /\ Cardinality(Inviting') \in Nat /\ Cardinality(OpenInvites) \in Nat
         /\ Cardinality(OpenInvites) + Cardinality(Inviting') + 1 <= Cardinality(Requests)
<1>1. Inviting \subseteq Requests
  BY DEF Inviting
<1>2. IsFiniteSet(Inviting)
  BY <1>1, RequestCounts
<1> QED BY <1>1, <1>2, OneLess, OpenAreFinite, AccountFacts, RequestCounts

LEMMA AccountInvites ==
  ASSUME AccountInv, NEW r \in Requests, CreateInvite(r)
  PROVE  AccountInv'
<1> DEFINE new == [used |-> 0, expired |-> FALSE]
           b == IF accReq[r].at = "invite" /\ accReq[r].role # "none"
                THEN [at |-> "grant", role |-> accReq[r].role] ELSE AccIdle
           n == Len(invites)
<1>1. /\ accReq[r].at \in {"invite", "create"} /\ n < MaxInvites
      /\ invites' = Append(invites, new) /\ UNCHANGED <<userRow, roles>>
      /\ accReq' = [accReq EXCEPT ![r] = b]
  BY DEF CreateInvite, AccSet
<1>2. b \in AccStates /\ b.at \in {"grant", "idle"} /\ (b.at = "grant" => accReq[r].at = "invite")
  <2>1. accReq[r] \in AccStates
    BY AccountFacts
  <2>2. CASE accReq[r].at = "invite" /\ accReq[r].role # "none"
    <3>1. accReq[r].role \in Roles
      BY <2>1, <2>2 DEF AccStates, AccIdle
    <3> QED BY <2>2, <3>1 DEF AccStates
  <2>3. CASE ~(accReq[r].at = "invite" /\ accReq[r].role # "none")
    BY <2>3 DEF AccStates, AccIdle
  <2> QED BY <2>2, <2>3
<1> HIDE DEF b
<1>3. accReq' \in [Requests -> AccStates] /\ accReq'[r] = b
      /\ \A q \in Requests : q # r => accReq'[q] = accReq[q]
  BY <1>1, <1>2, AccountFacts
<1>4. Exists /\ Exists'
  BY <1>1, AccountFacts DEF Exists
<1>5. /\ n \in Nat /\ invites' \in Seq(Invite) /\ Len(invites') = n + 1
      /\ invites'[n + 1] = new /\ DOMAIN invites' = 1..(n + 1) /\ DOMAIN invites = 1..n
      /\ \A i \in 1..n : invites'[i] = invites[i]
  BY <1>1, AccountFacts, AppendProperties, LenProperties DEF Invite
<1>6. Inviting' = Inviting \ {r} /\ r \in Inviting
  BY <1>1, <1>2, <1>3 DEF Inviting
<1>7. OpenInvites' = OpenInvites \cup {n + 1} /\ n + 1 \notin OpenInvites
  BY <1>5 DEF OpenInvites
<1>8. (Cardinality(OpenInvites) + Cardinality(Inviting) <= Cardinality(Requests))'
  <2>1. IsFiniteSet(OpenInvites)
    BY AccountFacts, OpenAreFinite
  <2>2. Cardinality(OpenInvites') = Cardinality(OpenInvites) + 1
    BY <1>7, <2>1, FS_AddElement
  <2> QED BY <1>6, <2>2, OneInviteLess, RequestCounts
<1>9. (Cardinality(roles) + Cardinality(Granting) <= Cardinality(Requests))'
  <2>1. Granting' \subseteq Granting /\ Granting \subseteq Requests
    BY <1>1, <1>2, <1>3 DEF Granting
  <2>2. Cardinality(Granting') <= Cardinality(Granting) /\ Cardinality(Granting') \in Nat
        /\ Cardinality(Granting) \in Nat
    BY <2>1, RequestCounts, PartOf
  <2>3. Cardinality(roles') = Cardinality(roles) /\ Cardinality(roles) \in Nat
    BY <1>1, AccountFacts, FS_CardinalityType
  <2> QED BY <2>2, <2>3, AccountFacts, RequestCounts
<1>10. ASSUME NEW i \in DOMAIN invites'
       PROVE  (invites[i].used)' + Cardinality(Accepting(i)') <= Cardinality(Requests)
  <2>1. Accepting(i)' \subseteq Accepting(i) /\ Accepting(i) \subseteq Requests
    BY <1>2, <1>3 DEF Accepting
  <2>2. Cardinality(Accepting(i)') <= Cardinality(Accepting(i)) /\ Cardinality(Accepting(i)') \in Nat
        /\ Cardinality(Accepting(i)) \in Nat
        /\ Cardinality(Accepting(i)) <= Cardinality(Requests) /\ Cardinality(Requests) \in Nat
    BY <2>1, RequestCounts, PartOf
  <2>3. CASE i = n + 1
    BY <1>5, <2>2, <2>3
  <2>4. CASE i # n + 1
    <3>1. i \in DOMAIN invites /\ invites'[i] = invites[i]
      BY <1>5, <2>4
    <3>2. invites[i] \in Invite
      BY <3>1, AccountFacts
    <3>3. invites[i].used \in Nat
      BY <3>2 DEF Invite
    <3>4. invites[i].used + Cardinality(Accepting(i)) <= Cardinality(Requests)
      BY <3>1, AccountFacts
    <3> QED BY <2>2, <3>1, <3>3, <3>4
  <2> QED BY <2>3, <2>4
<1>11. (\A i \in DOMAIN invites :
          invites[i].used + Cardinality(Accepting(i)) <= Cardinality(Requests))'
  BY <1>10
<1>12. Len(invites') <= MaxInvites
  BY <1>1, <1>5, InvitesAssumption
<1>13. (~Exists => invites = <<>> /\ roles = {})'
       /\ (\A q \in Requests : accReq[q].at \notin {"idle", "invited"} => Exists)'
  BY <1>4
<1> QED BY <1>1, <1>3, <1>5, <1>8, <1>9, <1>11, <1>12, <1>13, AccountTyped, AccountFacts

\* What only the invitations change leaves the bound on the roles as it is.
LEMMA RolesStay ==
  ASSUME AccountInv, roles' = roles, Granting' \subseteq Granting
  PROVE  (Cardinality(roles) + Cardinality(Granting) <= Cardinality(Requests))'
<1>1. Granting \subseteq Requests
  BY DEF Granting
<1>2. Cardinality(Granting') <= Cardinality(Granting) /\ Cardinality(Granting') \in Nat
      /\ Cardinality(Granting) \in Nat
  BY <1>1, RequestCounts, PartOf
<1>3. Cardinality(roles') = Cardinality(roles) /\ Cardinality(roles) \in Nat
  BY AccountFacts, FS_CardinalityType
<1> QED BY <1>2, <1>3, AccountFacts, RequestCounts

LEMMA AccountExpires ==
  ASSUME AccountInv, NEW r \in Requests, ExpireOthers(r)
  PROVE  AccountInv'
<1> DEFINE b == [at |-> "create"]
<1>1. /\ accReq[r].at = "expire" /\ UNCHANGED <<userRow, roles>>
      /\ accReq' = [accReq EXCEPT ![r] = b]
      /\ invites' = [i \in DOMAIN invites |->
           IF invites[i].used = 0 THEN [invites[i] EXCEPT !.expired = TRUE] ELSE invites[i]]
  BY DEF ExpireOthers, AccSet
<1>2. b \in AccStates /\ b.at = "create"
  BY DEF AccStates
<1> HIDE DEF b
<1>3. accReq' \in [Requests -> AccStates] /\ accReq'[r] = b
      /\ \A q \in Requests : q # r => accReq'[q] = accReq[q]
  BY <1>1, <1>2, AccountFacts
<1>4. Exists /\ Exists'
  BY <1>1, AccountFacts DEF Exists
<1>5. DOMAIN invites = 1..Len(invites) /\ Len(invites) \in Nat
  BY AccountFacts, LenProperties
<1>6. \A i \in DOMAIN invites : /\ invites[i] \in Invite /\ invites'[i] \in Invite
                                /\ invites'[i].used = invites[i].used
                                /\ (invites'[i].used = 0 => invites'[i].expired)
  <2> SUFFICES ASSUME NEW i \in DOMAIN invites
               PROVE  /\ invites[i] \in Invite /\ invites'[i] \in Invite
                      /\ invites'[i].used = invites[i].used
                      /\ (invites'[i].used = 0 => invites'[i].expired)
    OBVIOUS
  <2>1. invites[i] \in Invite
    BY AccountFacts
  <2>2. CASE invites[i].used = 0
    <3>1. invites'[i] = [invites[i] EXCEPT !.expired = TRUE]
      BY <1>1, <2>2
    <3>2. [invites[i] EXCEPT !.expired = TRUE].expired
      BY <2>1 DEF Invite
    <3> QED BY <2>1, <3>1, <3>2 DEF Invite
  <2>3. CASE invites[i].used # 0
    <3>1. invites'[i] = invites[i]
      BY <1>1, <2>3
    <3> QED BY <2>1, <2>3, <3>1
  <2> QED BY <2>2, <2>3
<1>7. invites' \in Seq(Invite) /\ Len(invites') = Len(invites) /\ DOMAIN invites' = DOMAIN invites
  <2>1. invites' \in [1..Len(invites) -> Invite]
    BY <1>1, <1>5, <1>6
  <2>2. invites' \in Seq(Invite)
    BY <2>1, <1>5, SeqDef
  <2> QED BY <2>1, <2>2, <1>5, LenProperties
<1>8. OpenInvites' = {}
  BY <1>6, <1>7 DEF OpenInvites
<1>9. (Cardinality(OpenInvites) + Cardinality(Inviting) <= Cardinality(Requests))'
  <2>1. Inviting' \subseteq Requests
    BY DEF Inviting
  <2>2. Cardinality(Inviting') <= Cardinality(Requests) /\ Cardinality(Inviting') \in Nat
    BY <2>1, RequestCounts
  <2>3. Cardinality(OpenInvites') = 0
    BY <1>8, FS_EmptySet
  <2> QED BY <2>2, <2>3
<1>10. (Cardinality(roles) + Cardinality(Granting) <= Cardinality(Requests))'
  <2>1. Granting' \subseteq Granting
    BY <1>2, <1>3 DEF Granting
  <2> QED BY <1>1, <2>1, RolesStay
<1>11. ASSUME NEW i \in DOMAIN invites'
       PROVE  (invites[i].used)' + Cardinality(Accepting(i)') <= Cardinality(Requests)
  <2>1. Accepting(i)' \subseteq Accepting(i) /\ Accepting(i) \subseteq Requests
    BY <1>2, <1>3 DEF Accepting
  <2>2. Cardinality(Accepting(i)') <= Cardinality(Accepting(i)) /\ Cardinality(Accepting(i)') \in Nat
        /\ Cardinality(Accepting(i)) \in Nat /\ Cardinality(Requests) \in Nat
    BY <2>1, RequestCounts, PartOf
  <2>3. invites'[i].used = invites[i].used /\ invites[i].used \in Nat
    BY <1>6, <1>7 DEF Invite
  <2>4. invites[i].used + Cardinality(Accepting(i)) <= Cardinality(Requests)
    BY <1>7, AccountFacts
  <2> QED BY <2>2, <2>3, <2>4
<1>12. (\A i \in DOMAIN invites :
          invites[i].used + Cardinality(Accepting(i)) <= Cardinality(Requests))'
  BY <1>11
<1>13. (~Exists => invites = <<>> /\ roles = {})'
       /\ (\A q \in Requests : accReq[q].at \notin {"idle", "invited"} => Exists)'
  BY <1>4
<1>14. Len(invites') <= MaxInvites
  BY <1>7, AccountFacts
<1> QED BY <1>1, <1>3, <1>7, <1>9, <1>10, <1>12, <1>13, <1>14, AccountTyped, AccountFacts

LEMMA AccountLooksUp ==
  ASSUME AccountInv, NEW r \in Requests, ReadInvite(r)
  PROVE  AccountInv'
<1>1. PICK i \in OpenInvites : LookFor(r, TRUE, [at |-> "accept", invite |-> i])
  BY DEF ReadInvite
<1> DEFINE b == [at |-> "accept", invite |-> i]
<1>2. /\ accReq[r] = AccIdle /\ accReq' = [accReq EXCEPT ![r] = b]
      /\ UNCHANGED <<userRow, roles, invites>>
  BY <1>1 DEF LookFor, AccSet
<1>3. i \in DOMAIN invites /\ invites[i].used = 0 /\ i \in 1..MaxInvites
  BY AccountFacts, LenProperties, InvitesAssumption DEF OpenInvites
<1>4. b \in AccStates /\ b.at = "accept" /\ b.invite = i /\ accReq[r].at = "idle"
  BY <1>2, <1>3 DEF AccStates, AccIdle
<1> HIDE DEF b
<1>5. accReq' \in [Requests -> AccStates] /\ accReq'[r] = b
      /\ \A q \in Requests : q # r => accReq'[q] = accReq[q]
  BY <1>2, <1>4, AccountFacts
<1>6. Exists /\ Exists'
  <2>1. invites # <<>>
    BY <1>3
  <2> QED BY <1>2, <2>1, AccountFacts DEF Exists
<1>7. Inviting' = Inviting /\ Granting' = Granting /\ OpenInvites' = OpenInvites
  BY <1>2, <1>4, <1>5 DEF Inviting, Granting, OpenInvites
<1>8. /\ (Cardinality(OpenInvites) + Cardinality(Inviting) <= Cardinality(Requests))'
      /\ (Cardinality(roles) + Cardinality(Granting) <= Cardinality(Requests))'
  BY <1>2, <1>7, AccountFacts
<1>9. ASSUME NEW j \in DOMAIN invites'
       PROVE  (invites[j].used)' + Cardinality(Accepting(j)') <= Cardinality(Requests)
  <2>1. CASE j = i
    <3>1. Accepting(j)' \subseteq Requests
      BY DEF Accepting
    <3>2. Cardinality(Accepting(j)') <= Cardinality(Requests) /\ Cardinality(Accepting(j)') \in Nat
      BY <3>1, RequestCounts
    <3> QED BY <1>2, <1>3, <2>1, <3>2
  <2>2. CASE j # i
    <3>1. Accepting(j)' = Accepting(j)
      BY <1>4, <1>5, <2>2 DEF Accepting
    <3> QED BY <1>2, <3>1, AccountFacts
  <2> QED BY <2>1, <2>2
<1>10. (\A j \in DOMAIN invites :
          invites[j].used + Cardinality(Accepting(j)) <= Cardinality(Requests))'
  BY <1>9
<1>11. (~Exists => invites = <<>> /\ roles = {})'
       /\ (\A q \in Requests : accReq[q].at \notin {"idle", "invited"} => Exists)'
  BY <1>6
<1> QED BY <1>2, <1>5, <1>8, <1>10, <1>11, AccountTyped, AccountFacts

LEMMA AccountAccepts ==
  ASSUME AccountInv, NEW r \in Requests, Accept(r)
  PROVE  AccountInv'
<1>1. PICK i : i = accReq[r].invite
  OBVIOUS
<1>2. /\ accReq[r].at = "accept" /\ accReq[r] \in AccStates /\ roles' = roles
      /\ userRow' = [[userRow EXCEPT !.active = TRUE] EXCEPT !.password = TRUE]
      /\ invites' = [invites EXCEPT ![i].used = @ + 1]
      /\ accReq' = [accReq EXCEPT ![r] = AccIdle]
  BY <1>1, AccountFacts DEF Accept, AccSet
<1>3. i \in 1..MaxInvites /\ AccIdle \in AccStates /\ AccIdle.at = "idle"
  BY <1>1, <1>2 DEF AccStates, AccIdle
<1>4. accReq' \in [Requests -> AccStates] /\ accReq'[r] = AccIdle
      /\ \A q \in Requests : q # r => accReq'[q] = accReq[q]
  BY <1>2, <1>3, AccountFacts
<1>5. Exists /\ Exists' /\ userRow' \in UserRow
  BY <1>2, AccountFacts DEF Exists, UserRow
<1>6. \A j \in DOMAIN invites : invites[j] \in Invite
  BY AccountFacts
<1>7. /\ invites' \in Seq(Invite) /\ Len(invites') = Len(invites) /\ DOMAIN invites' = DOMAIN invites
      /\ \A j \in DOMAIN invites :
           /\ j # i => invites'[j] = invites[j]
           /\ j = i => invites'[j].used = invites[j].used + 1
  <2>1. CASE i \in DOMAIN invites
    <3>1. invites' = [invites EXCEPT ![i] = [invites[i] EXCEPT !.used = @ + 1]]
      BY <1>2
    <3>2. [invites[i] EXCEPT !.used = @ + 1] \in Invite
          /\ [invites[i] EXCEPT !.used = @ + 1].used = invites[i].used + 1
      BY <1>6, <2>1 DEF Invite
    <3>3. i \in 1..Len(invites)
      BY <2>1, AccountFacts, LenProperties
    <3>4. invites' \in Seq(Invite) /\ Len(invites') = Len(invites)
      BY <3>1, <3>2, <3>3, AccountFacts, ExceptSeq
    <3> QED BY <3>1, <3>2, <3>4, <2>1
  <2>2. CASE i \notin DOMAIN invites
    <3>1. invites' = invites
      BY <1>2, <2>2, AccountFacts
    <3> QED BY <3>1, <2>2, AccountFacts
  <2> QED BY <2>1, <2>2
<1>8. OpenInvites' \subseteq OpenInvites
  BY <1>6, <1>7 DEF OpenInvites, Invite
<1>9. (Cardinality(OpenInvites) + Cardinality(Inviting) <= Cardinality(Requests))'
  <2>1. Inviting' = Inviting /\ Inviting \subseteq Requests
    BY <1>2, <1>3, <1>4 DEF Inviting
  <2>2. IsFiniteSet(OpenInvites) /\ Cardinality(OpenInvites) \in Nat
    BY AccountFacts, OpenAreFinite
  <2>3. Cardinality(OpenInvites') <= Cardinality(OpenInvites) /\ Cardinality(OpenInvites') \in Nat
    BY <1>8, <2>2, PartOf
  <2>4. Cardinality(Inviting) \in Nat /\ Cardinality(Requests) \in Nat
    BY <2>1, RequestCounts
  <2> QED BY <2>1, <2>2, <2>3, <2>4, AccountFacts
<1>10. (Cardinality(roles) + Cardinality(Granting) <= Cardinality(Requests))'
  <2>1. Granting' \subseteq Granting
    BY <1>3, <1>4 DEF Granting
  <2> QED BY <1>2, <2>1, RolesStay
<1>11. ASSUME NEW j \in DOMAIN invites'
       PROVE  (invites[j].used)' + Cardinality(Accepting(j)') <= Cardinality(Requests)
  <2>1. Accepting(j) \subseteq Requests
    BY DEF Accepting
  <2>2. IsFiniteSet(Accepting(j)) /\ Cardinality(Accepting(j)) \in Nat
    BY <2>1, RequestCounts
  <2>3. invites[j].used + Cardinality(Accepting(j)) <= Cardinality(Requests) /\ invites[j].used \in Nat
    BY <1>6, <1>7, AccountFacts DEF Invite
  <2>4. CASE j = i
    <3>1. Accepting(j)' = Accepting(j) \ {r} /\ r \in Accepting(j)
      BY <1>1, <1>2, <1>3, <1>4, <2>4 DEF Accepting
    <3>2. Cardinality(Accepting(j)') + 1 = Cardinality(Accepting(j)) /\ Cardinality(Accepting(j)') \in Nat
      BY <2>2, <3>1, OneLess
    <3>3. invites'[j].used = invites[j].used + 1
      BY <1>7, <2>4
    <3> QED BY <2>2, <2>3, <3>2, <3>3
  <2>5. CASE j # i
    <3>1. Accepting(j)' = Accepting(j)
      BY <1>1, <1>2, <1>3, <1>4, <2>5 DEF Accepting
    <3>2. invites'[j] = invites[j]
      BY <1>7, <2>5
    <3> QED BY <2>3, <3>1, <3>2
  <2> QED BY <2>4, <2>5
<1>12. (\A j \in DOMAIN invites :
          invites[j].used + Cardinality(Accepting(j)) <= Cardinality(Requests))'
  BY <1>11
<1>13. (~Exists => invites = <<>> /\ roles = {})'
       /\ (\A q \in Requests : accReq[q].at \notin {"idle", "invited"} => Exists)'
  BY <1>5
<1>14. Len(invites') <= MaxInvites /\ roles' \subseteq Roles /\ IsFiniteSet(roles')
  BY <1>2, <1>7, AccountFacts
<1> QED BY <1>4, <1>5, <1>7, <1>9, <1>10, <1>12, <1>13, <1>14, AccountTyped

LEMMA AccountGranted ==
  ASSUME AccountInv, NEW r \in Requests, GrantRole(r)
  PROVE  AccountInv'
<1>1. /\ accReq[r].at = "grant" /\ accReq[r] \in AccStates /\ UNCHANGED <<userRow, invites>>
      /\ roles' = roles \cup {accReq[r].role} /\ accReq' = [accReq EXCEPT ![r] = AccIdle]
  BY AccountFacts DEF GrantRole, AccSet
<1>2. accReq[r].role \in Roles /\ AccIdle \in AccStates /\ AccIdle.at = "idle"
  BY <1>1 DEF AccStates, AccIdle
<1>3. accReq' \in [Requests -> AccStates] /\ accReq'[r] = AccIdle
      /\ \A q \in Requests : q # r => accReq'[q] = accReq[q]
  BY <1>1, <1>2, AccountFacts
<1>4. Exists /\ Exists'
  BY <1>1, AccountFacts DEF Exists
<1>5. Inviting' = Inviting /\ OpenInvites' = OpenInvites
  BY <1>1, <1>2, <1>3 DEF Inviting, OpenInvites
<1>6. Granting' = Granting \ {r} /\ r \in Granting /\ Granting \subseteq Requests
  BY <1>1, <1>2, <1>3 DEF Granting
<1>7. (Cardinality(roles) + Cardinality(Granting) <= Cardinality(Requests))' /\ IsFiniteSet(roles')
  <2>1. IsFiniteSet(Granting)
    BY <1>6, RequestCounts
  <2>2. Cardinality(Granting') + 1 = Cardinality(Granting) /\ Cardinality(Granting') \in Nat
    BY <1>6, <2>1, OneLess
  <2>3. /\ IsFiniteSet(roles') /\ Cardinality(roles) \in Nat /\ Cardinality(roles') \in Nat
        /\ Cardinality(roles') <= Cardinality(roles) + 1
    <3>1. IsFiniteSet(roles) /\ Cardinality(roles) \in Nat
      BY AccountFacts, FS_CardinalityType
    <3>2. IsFiniteSet(roles \cup {accReq[r].role})
          /\ Cardinality(roles \cup {accReq[r].role})
               = IF accReq[r].role \in roles THEN Cardinality(roles) ELSE Cardinality(roles) + 1
      BY <3>1, FS_AddElement
    <3> QED BY <1>1, <3>1, <3>2
  <2> QED BY <2>2, <2>3, AccountFacts, RequestCounts
<1>8. (Cardinality(OpenInvites) + Cardinality(Inviting) <= Cardinality(Requests))'
  BY <1>5, AccountFacts
<1>9. ASSUME NEW j \in DOMAIN invites'
      PROVE  (invites[j].used)' + Cardinality(Accepting(j)') <= Cardinality(Requests)
  <2>1. Accepting(j)' = Accepting(j)
    BY <1>1, <1>2, <1>3 DEF Accepting
  <2> QED BY <1>1, <2>1, AccountFacts
<1>10. (\A j \in DOMAIN invites :
          invites[j].used + Cardinality(Accepting(j)) <= Cardinality(Requests))'
  BY <1>9
<1>11. (~Exists => invites = <<>> /\ roles = {})'
       /\ (\A q \in Requests : accReq[q].at \notin {"idle", "invited"} => Exists)'
  BY <1>4
<1>12. roles' \subseteq Roles
  BY <1>1, <1>2, AccountFacts
<1> QED BY <1>1, <1>3, <1>7, <1>8, <1>10, <1>11, <1>12, AccountTyped, AccountFacts

LEMMA AccountTimesOut ==
  ASSUME AccountInv, NEW i \in OpenInvites, Expire(i)
  PROVE  AccountInv'
<1>1. invites' = [invites EXCEPT ![i] = [invites[i] EXCEPT !.expired = TRUE]]
      /\ UNCHANGED <<userRow, roles, accReq>>
  BY DEF Expire
<1>2. i \in DOMAIN invites /\ i \in 1..Len(invites)
  BY AccountFacts, LenProperties DEF OpenInvites
<1>3. [invites[i] EXCEPT !.expired = TRUE] \in Invite
      /\ [invites[i] EXCEPT !.expired = TRUE].used = invites[i].used
      /\ [invites[i] EXCEPT !.expired = TRUE].expired
  <2>1. invites[i] \in Invite
    BY <1>2, AccountFacts
  <2> QED BY <2>1 DEF Invite
<1>4. /\ invites' \in Seq(Invite) /\ Len(invites') = Len(invites) /\ DOMAIN invites' = DOMAIN invites
      /\ \A j \in DOMAIN invites : invites'[j].used = invites[j].used /\ (j # i => invites'[j] = invites[j])
      /\ invites'[i].expired
  <2>1. invites' \in Seq(Invite) /\ Len(invites') = Len(invites)
    BY <1>1, <1>2, <1>3, AccountFacts, ExceptSeq
  <2>2. /\ DOMAIN invites' = DOMAIN invites
        /\ \A j \in DOMAIN invites : (j # i => invites'[j] = invites[j])
        /\ invites'[i] = [invites[i] EXCEPT !.expired = TRUE]
    BY <1>1, <1>2, AccountFacts
  <2>3. \A j \in DOMAIN invites : invites'[j].used = invites[j].used
    BY <1>3, <2>2
  <2>4. invites'[i].expired
    BY <1>3, <2>2, Zenon
  <2> QED BY <2>1, <2>2, <2>3, <2>4, Zenon
<1>5. OpenInvites' \subseteq OpenInvites
  BY <1>4 DEF OpenInvites
<1>6. Inviting' = Inviting /\ Granting' = Granting /\ Inviting \subseteq Requests
  BY <1>1 DEF Inviting, Granting
<1>7. (Cardinality(OpenInvites) + Cardinality(Inviting) <= Cardinality(Requests))'
  <2>1. IsFiniteSet(OpenInvites) /\ Cardinality(OpenInvites) \in Nat
    BY AccountFacts, OpenAreFinite
  <2>2. Cardinality(OpenInvites') <= Cardinality(OpenInvites) /\ Cardinality(OpenInvites') \in Nat
    BY <1>5, <2>1, PartOf
  <2>3. Cardinality(Inviting) \in Nat /\ Cardinality(Requests) \in Nat
    BY <1>6, RequestCounts
  <2> QED BY <1>6, <2>1, <2>2, <2>3, AccountFacts
<1>8. ASSUME NEW j \in DOMAIN invites'
      PROVE  (invites[j].used)' + Cardinality(Accepting(j)') <= Cardinality(Requests)
  <2>1. Accepting(j)' = Accepting(j)
    BY <1>1 DEF Accepting
  <2> QED BY <1>4, <2>1, AccountFacts
<1>9. (\A j \in DOMAIN invites :
          invites[j].used + Cardinality(Accepting(j)) <= Cardinality(Requests))'
  BY <1>8
<1>10. (~Exists => invites = <<>> /\ roles = {})'
       /\ (\A q \in Requests : accReq[q].at \notin {"idle", "invited"} => Exists)'
  <2>1. invites # <<>> /\ Exists' = Exists
    BY <1>1, <1>2 DEF Exists
  <2> QED BY <1>1, <2>1, AccountFacts
<1>11. (Cardinality(roles) + Cardinality(Granting) <= Cardinality(Requests))'
  BY <1>1, <1>6, AccountFacts
<1> QED BY <1>1, <1>4, <1>7, <1>9, <1>10, <1>11, AccountTyped, AccountFacts

LEMMA AccountStep == AccountInv /\ [AccNext]_accVars => AccountInv'
<1>1. ASSUME AccountInv, UNCHANGED accVars PROVE AccountInv'
  <2>1. UNCHANGED <<userRow, roles, invites, accReq>>
    BY <1>1 DEF accVars
  <2> QED BY <1>1, <2>1 DEF AccountInv, AccTypeOK, Exists, OpenInvites, Inviting, Granting, Accepting
<1> QED BY <1>1, AccountRests, AccountCreated, AccountInvites, AccountExpires, AccountLooksUp,
           AccountAccepts, AccountGranted, AccountTimesOut DEF AccNext

LEMMA AccessBoundedOnly == AccountInv => AccessIsBounded
<1> SUFFICES ASSUME AccountInv PROVE AccessIsBounded
  OBVIOUS
<1>1. Inviting \subseteq Requests /\ Granting \subseteq Requests
  BY DEF Inviting, Granting
<1>2. Cardinality(Inviting) \in Nat /\ Cardinality(Granting) \in Nat /\ Cardinality(Requests) \in Nat
  BY <1>1, RequestCounts
<1>3. Cardinality(OpenInvites) \in Nat /\ Cardinality(roles) \in Nat
  BY AccountFacts, OpenAreFinite, FS_CardinalityType
<1>4. ASSUME NEW i \in DOMAIN invites PROVE invites[i].used <= Cardinality(Requests)
  <2>1. Accepting(i) \subseteq Requests
    BY DEF Accepting
  <2>2. Cardinality(Accepting(i)) \in Nat
    BY <2>1, RequestCounts
  <2>3. invites[i] \in Invite
    BY AccountFacts
  <2>4. invites[i].used \in Nat
    BY <2>3 DEF Invite
  <2> QED BY <1>2, <2>2, <2>4, AccountFacts
<1> QED BY <1>2, <1>3, <1>4, AccountFacts DEF AccessIsBounded

-----------------------------------------------------------------------------
(* Devices.  A request that is about to write a row as active has counted   *)
(* the active rows, or has read the row as active: together with the rows   *)
(* that are active there are never more of them than slots and requests.    *)

Planning(q) == devReq[q].at \in {"allow", "write"}
Saving     == {q \in Requests : devReq[q].at = "write" /\ devReq[q].active}
SavingIds  == {devReq[q].id : q \in Saving}

\* What a request has decided fits the table: the row it will create is nobody
\* else's, and a row it read as active is active still, gone, or undone.
PlanFits(q) ==
  Planning(q) =>
    /\ devReq[q].op = "create" =>
         /\ devReq[q].id \notin Rows
         /\ \A r \in Requests \ {q} : Planning(r) => devReq[r].id # devReq[q].id
    /\ devReq[q].op = "delete" => devReq[q].at = "write" /\ ~devReq[q].active
    /\ devReq[q].at = "allow" => ~devReq[q].active
    /\ devReq[q].active /\ ~devReq[q].claims =>
         /\ devReq[q].op # "create"
         /\ devReq[q].id \in Rows => devReq[q].id \in Active \/ q \in undone[devReq[q].id]

\* The inductive invariant of Devices.
DevInv ==
  /\ DevTypeOK
  /\ \A q \in Requests : PlanFits(q)
  /\ Cardinality(Active \cup SavingIds) <= slots + Cardinality(Requests) - 1

LEMMA DeviceFacts ==
  ASSUME DevInv
  PROVE  /\ device \in [DevRows -> Device \cup {NoDevice}]
         /\ slots \in 1..MaxAllowance /\ slots \in Nat
         /\ devReq \in [Requests -> DevState]
         /\ undone \in [DevRows -> SUBSET Requests]
         /\ \A q \in Requests : PlanFits(q)
         /\ Cardinality(Active \cup SavingIds) <= slots + Cardinality(Requests) - 1
         /\ Active \subseteq Rows /\ Rows \subseteq DevRows
         /\ Cardinality(Requests) \in Nat
BY FS_CardinalityType, RequestsAssumption, DevicesAssumption DEF DevInv, DevTypeOK, Active, Rows

\* A request that has decided has these fields.
LEMMA PlanFields ==
  ASSUME DevInv, NEW q \in Requests, Planning(q)
  PROVE  /\ devReq[q] \in [at : {"allow", "write"},
                           op : {"reuse", "adopt", "create", "beat", "activate", "delete"},
                           id : DevRows, print : Prints, active : BOOLEAN, claims : BOOLEAN,
                           drop : SUBSET DevRows]
         /\ devReq[q].id \in DevRows /\ devReq[q].active \in BOOLEAN
         /\ devReq[q].claims \in BOOLEAN /\ devReq[q].print \in Prints
         /\ devReq[q].drop \subseteq DevRows
<1>1. devReq[q] \in DevState /\ devReq[q].at \in {"allow", "write"}
  BY DeviceFacts DEF Planning
<1>2. devReq[q] \in [at : {"allow", "write"},
                     op : {"reuse", "adopt", "create", "beat", "activate", "delete"},
                     id : DevRows, print : Prints, active : BOOLEAN, claims : BOOLEAN,
                     drop : SUBSET DevRows]
  BY <1>1 DEF DevState, DevIdle
<1> QED BY <1>2

LEMMA RowKinds ==
  ASSUME DevInv, NEW d \in DevRows
  PROVE  /\ d \in Rows => device[d] \in Device /\ device[d].active \in BOOLEAN /\ device[d].print \in Prints
         /\ d \in Active <=> d \in Rows /\ device[d].active
BY DeviceFacts DEF Rows, Active, Device

LEMMA DeviceStart == DevInit => DevInv
<1> SUFFICES ASSUME DevInit PROVE DevInv
  OBVIOUS
<1>1. /\ device = [d \in DevRows |-> NoDevice] /\ slots = 1
      /\ devReq = [q \in Requests |-> DevIdle] /\ undone = [d \in DevRows |-> {}]
  BY DEF DevInit
<1>2. DevTypeOK
  BY <1>1, DevicesAssumption DEF DevTypeOK, DevState
<1>3. \A q \in Requests : ~Planning(q)
  BY <1>1 DEF Planning, DevIdle
<1>4. Active \cup SavingIds = {}
  <2>1. Rows = {} /\ Saving = {}
    BY <1>1 DEF Rows, Saving, DevIdle
  <2> QED BY <2>1 DEF Active, SavingIds
<1>5. Cardinality(Active \cup SavingIds) = 0
  BY <1>4, FS_EmptySet
<1>6. Cardinality(Requests) \in Nat /\ Cardinality(Requests) >= 1
  BY RequestsAssumption, FS_EmptySet, FS_CardinalityType
<1> QED BY <1>1, <1>2, <1>3, <1>5, <1>6 DEF DevInv, PlanFits

\* Fewer rows are, or are about to be, active: the bound stays.
LEMMA FewerActive ==
  ASSUME DevInv, (Active \cup SavingIds)' \subseteq Active \cup SavingIds,
         slots' \in Nat, slots' >= slots
  PROVE  (Cardinality(Active \cup SavingIds) <= slots + Cardinality(Requests) - 1)'
<1>1. Active \cup SavingIds \subseteq DevRows
  <2>1. \A q \in Saving : devReq[q].id \in DevRows
    BY PlanFields DEF Saving, Planning
  <2> QED BY <2>1, DeviceFacts DEF SavingIds
<1>2. IsFiniteSet(Active \cup SavingIds)
  BY <1>1, DevicesAssumption, FS_Subset
<1>3. /\ Cardinality((Active \cup SavingIds)') <= Cardinality(Active \cup SavingIds)
      /\ Cardinality((Active \cup SavingIds)') \in Nat
      /\ Cardinality(Active \cup SavingIds) \in Nat
  BY <1>2, FS_Subset, FS_CardinalityType
<1> QED BY <1>3, DeviceFacts

\* A request frees the rows it holds: it has stopped planning, or plans on.
LEMMA DeviceTyped ==
  ASSUME device' \in [DevRows -> Device \cup {NoDevice}], slots' \in 1..MaxAllowance,
         devReq' \in [Requests -> DevState], undone' \in [DevRows -> SUBSET Requests],
         (\A q \in Requests : PlanFits(q))',
         (Cardinality(Active \cup SavingIds) <= slots + Cardinality(Requests) - 1)'
  PROVE  DevInv'
BY DEF DevInv, DevTypeOK

\* The request of q ends or moves to where nothing is planned; the table and the
\* history of the other requests stay.
LEMMA DeviceAnswers ==
  ASSUME DevInv, NEW q \in Requests, NEW b \in DevState, b.at \notin {"allow", "write"},
         devReq' = [devReq EXCEPT ![q] = b], UNCHANGED <<device, slots>>,
         \/ undone' = undone
         \/ undone' = [d \in DevRows |-> undone[d] \ {q}]
  PROVE  DevInv'
<1>1. devReq' \in [Requests -> DevState] /\ devReq'[q] = b
      /\ \A r \in Requests : r # q => devReq'[r] = devReq[r]
  BY DeviceFacts
<1>2. Rows' = Rows /\ Active' = Active
  BY DEF Rows, Active
<1>3. undone' \in [DevRows -> SUBSET Requests]
      /\ \A d \in DevRows, r \in Requests : r # q => (r \in undone'[d] <=> r \in undone[d])
  BY DeviceFacts
<1>4. ASSUME NEW r \in Requests PROVE PlanFits(r)'
  <2>1. CASE r = q
    BY <1>1, <2>1 DEF PlanFits, Planning
  <2>2. CASE r # q
    <3>1. PlanFits(r) /\ devReq'[r] = devReq[r]
      BY <1>1, <2>2, DeviceFacts
    <3>2. Planning(r) => devReq[r].id \in DevRows
      BY PlanFields
    <3>3. \A p \in Requests : Planning(p)' => p # q /\ Planning(p) /\ devReq'[p] = devReq[p]
      BY <1>1 DEF Planning
    <3>4. CASE Planning(r)
      <4>1. r \in undone'[devReq[r].id] <=> r \in undone[devReq[r].id]
        BY <1>3, <2>2, <3>2, <3>4
      <4> QED BY <1>2, <3>1, <3>3, <3>4, <4>1 DEF PlanFits
    <3>5. CASE ~Planning(r)
      BY <3>1, <3>5 DEF PlanFits, Planning
    <3> QED BY <3>4, <3>5
  <2> QED BY <2>1, <2>2
<1>5. (Active \cup SavingIds)' \subseteq Active \cup SavingIds
  <2>1. Saving' \subseteq Saving /\ \A r \in Saving' : devReq'[r] = devReq[r]
    BY <1>1 DEF Saving
  <2> QED BY <1>2, <2>1 DEF SavingIds
<1>6. (Cardinality(Active \cup SavingIds) <= slots + Cardinality(Requests) - 1)'
  BY <1>5, DeviceFacts, FewerActive
<1> QED BY <1>1, <1>3, <1>4, <1>6, DeviceFacts, DeviceTyped

\* A request decides.
LEMMA DeviceDecides ==
  ASSUME DevInv, NEW q \in Requests, ~Planning(q),
         NEW op \in {"reuse", "adopt", "create", "beat", "activate", "delete"},
         NEW d \in DevRows, NEW p \in Prints, NEW on \in BOOLEAN, NEW drop \in SUBSET DevRows,
         on => d \in Active /\ op \notin {"create", "delete"},
         IF op = "create" THEN d \in Unused ELSE d \in Rows,
         Decide(q, op, d, p, on, drop)
  PROVE  DevInv'
<1> DEFINE b == [at |-> IF on \/ op = "delete" THEN "write" ELSE "allow", op |-> op, id |-> d,
                 print |-> p, active |-> on, claims |-> FALSE, drop |-> drop]
<1>1. devReq' = [devReq EXCEPT ![q] = b] /\ UNCHANGED <<device, slots, undone>>
  BY DEF Decide, DevSet
<1>2. /\ b \in DevState /\ b.op = op /\ b.id = d /\ (b.active <=> on) /\ ~b.claims
      /\ b.at \in {"allow", "write"} /\ (b.at = "allow" => ~on)
  BY DEF DevState
<1> HIDE DEF b
<1>3. devReq' \in [Requests -> DevState] /\ devReq'[q] = b
      /\ \A r \in Requests : r # q => devReq'[r] = devReq[r]
  BY <1>1, <1>2, DeviceFacts
<1>4. Rows' = Rows /\ Active' = Active /\ undone' = undone
  BY <1>1 DEF Rows, Active
<1>5. \A r \in Requests : /\ r # q => Planning(r)' = Planning(r)
                          /\ (op = "create" /\ Planning(r) => devReq[r].id # d)
  <2>1. ASSUME NEW r \in Requests, op = "create", Planning(r) PROVE devReq[r].id # d
    <3>1. devReq[r].id \in Held(r)
      BY <2>1 DEF Planning, Held
    <3> QED BY <2>1, <3>1 DEF Unused
  <2> QED BY <1>3, <2>1 DEF Planning
<1>6. ASSUME NEW r \in Requests PROVE PlanFits(r)'
  <2>1. CASE r = q
    <3>1. op = "create" => d \notin Rows
      BY DEF Unused
    <3>2. op = "create" => \A s \in Requests \ {q} : Planning(s)' => devReq'[s].id # d
      BY <1>3, <1>5
    <3>3. devReq'[r].active => on
      BY <1>2, <1>3, <2>1
    <3>4. devReq'[r].op = "create" => /\ devReq'[r].id \notin Rows'
               /\ \A s \in Requests \ {r} : Planning(s)' => devReq'[s].id # devReq'[r].id
      BY <1>2, <1>3, <1>4, <2>1, <3>1, <3>2
    <3>5. /\ devReq'[r].op = "delete" => devReq'[r].at = "write" /\ ~on
          /\ devReq'[r].at = "allow" => ~on
      <4>1. op = "delete" => b.at = "write"
        BY DEF b
      <4> QED BY <1>2, <1>3, <2>1, <4>1
    <3>6. devReq'[r].active => /\ devReq'[r].op # "create" /\ devReq'[r].id \in Active'
      BY <1>2, <1>3, <1>4, <2>1, <3>3
    <3> QED BY <3>3, <3>4, <3>5, <3>6 DEF PlanFits
  <2>2. CASE r # q
    <3>1. PlanFits(r) /\ devReq'[r] = devReq[r] /\ Planning(r)' = Planning(r)
      BY <1>3, <1>5, <2>2, DeviceFacts
    <3>2. CASE Planning(r)
      <4>1. devReq[r].op = "create" => d # devReq[r].id
        <5>1. CASE op = "create"
          BY <1>5, <3>2, <5>1
        <5>2. CASE op # "create"
          BY <3>1, <3>2, <5>2 DEF PlanFits
        <5> QED BY <5>1, <5>2
      <4>2. devReq[r].op = "create" =>
              \A s \in Requests \ {r} : Planning(s)' => devReq'[s].id # devReq'[r].id
        BY <1>2, <1>3, <1>5, <3>1, <3>2, <4>1 DEF PlanFits
      <4> QED BY <1>4, <3>1, <3>2, <4>2 DEF PlanFits
    <3>3. CASE ~Planning(r)
      BY <3>1, <3>3 DEF PlanFits
    <3> QED BY <3>2, <3>3
  <2> QED BY <2>1, <2>2
<1>7. (Active \cup SavingIds)' \subseteq Active \cup SavingIds
  <2>1. ASSUME NEW r \in Saving' PROVE devReq'[r].id \in Active \cup SavingIds
    <3>1. CASE r = q
      <4>1. on
        BY <1>2, <1>3, <2>1, <3>1 DEF Saving
      <4> QED BY <1>2, <1>3, <3>1, <4>1
    <3>2. CASE r # q
      <4>1. r \in Saving /\ devReq'[r] = devReq[r]
        BY <1>3, <2>1, <3>2 DEF Saving
      <4> QED BY <4>1 DEF SavingIds
    <3> QED BY <3>1, <3>2
  <2> QED BY <1>4, <2>1 DEF SavingIds
<1>8. (Cardinality(Active \cup SavingIds) <= slots + Cardinality(Requests) - 1)'
  BY <1>1, <1>7, DeviceFacts, FewerActive
<1> QED BY <1>1, <1>3, <1>6, <1>8, DeviceFacts, DeviceTyped

\* registerDevice, heartbeatDevice, activateDevice and deleteDevice look a row up.
LEMMA DeviceLooks ==
  ASSUME DevInv, NEW q \in Requests,
         \/ \E p \in Prints : Register(q, p) \/ Heartbeat(q, p)
         \/ \E d \in DevRows : ActivateDevice(q, d) \/ DeleteDevice(q, d)
  PROVE  DevInv'
<1>1. devReq[q].at = "idle" /\ ~Planning(q)
  BY DEF Register, Heartbeat, ActivateDevice, DeleteDevice, Planning
<1>2. Rows \subseteq DevRows /\ {} \in SUBSET DevRows
  BY DeviceFacts
<1>3. ASSUME NEW p \in Prints, Register(q, p) PROVE DevInv'
  <2>1. CASE RowOf(p) # {}
    <3>1. PICK d \in RowOf(p) : Decide(q, "reuse", d, p, device[d].active, {})
      BY <1>3, <2>1 DEF Register
    <3>2. d \in Rows /\ d \in DevRows
      BY <1>2 DEF RowOf
    <3>3. device[d].active \in BOOLEAN /\ (device[d].active => d \in Active)
      BY <3>2, RowKinds
    <3> QED BY <1>1, <1>2, <3>1, <3>2, <3>3, DeviceDecides
  <2>2. CASE RowOf(p) = {} /\ p \in Handhelds /\ Handheld # {}
    <3>1. PICK d \in Handheld : Decide(q, "adopt", d, p, device[d].active, Handheld \ {d})
      BY <1>3, <2>2 DEF Register
    <3>2. d \in Rows /\ d \in DevRows /\ Handheld \ {d} \subseteq DevRows
      BY <1>2 DEF Handheld
    <3>3. device[d].active \in BOOLEAN /\ (device[d].active => d \in Active)
      BY <3>2, RowKinds
    <3> QED BY <1>1, <3>1, <3>2, <3>3, DeviceDecides
  <2>3. CASE RowOf(p) = {} /\ ~(p \in Handhelds /\ Handheld # {})
    <3>1. PICK d \in NewId : Decide(q, "create", d, p, FALSE, {})
      BY <1>3, <2>3 DEF Register
    <3>2. d \in Unused /\ d \in DevRows
      BY DEF NewId, Unused
    <3> QED BY <1>1, <1>2, <3>1, <3>2, DeviceDecides
  <2> QED BY <2>1, <2>2, <2>3
<1>4. ASSUME NEW p \in Prints, Heartbeat(q, p) PROVE DevInv'
  <2>1. PICK d \in RowOf(p) : Decide(q, "beat", d, p, device[d].active, {})
    BY <1>4 DEF Heartbeat
  <2>2. d \in Rows /\ d \in DevRows
    BY <1>2 DEF RowOf
  <2>3. device[d].active \in BOOLEAN /\ (device[d].active => d \in Active)
    BY <2>2, RowKinds
  <2> QED BY <1>1, <1>2, <2>1, <2>2, <2>3, DeviceDecides
<1>5. ASSUME NEW d \in DevRows, ActivateDevice(q, d) \/ DeleteDevice(q, d) PROVE DevInv'
  <2>1. d \in Rows /\ device[d].print \in Prints
    BY <1>5, RowKinds DEF ActivateDevice, DeleteDevice
  <2> QED BY <1>1, <1>2, <1>5, <2>1, DeviceDecides DEF ActivateDevice, DeleteDevice
<1> QED BY <1>3, <1>4, <1>5

\* As many requests as there are may be about to activate a row.
LEMMA SavingCount ==
  /\ IsFiniteSet(SavingIds) /\ Cardinality(SavingIds) <= Cardinality(Requests)
  /\ Cardinality(SavingIds) \in Nat
<1> DEFINE f == [q \in Saving |-> devReq[q].id]
<1>1. Saving \subseteq Requests
  BY DEF Saving
<1>2. /\ IsFiniteSet(Saving) /\ Cardinality(Saving) <= Cardinality(Requests)
      /\ Cardinality(Saving) \in Nat /\ Cardinality(Requests) \in Nat
  BY <1>1, RequestsAssumption, FS_Subset, FS_CardinalityType
<1>3. f \in Surjection(Saving, SavingIds)
  BY DEF Surjection, SavingIds
<1>4. IsFiniteSet(SavingIds) /\ Cardinality(SavingIds) <= Cardinality(Saving)
  BY <1>2, <1>3, FS_Surjection
<1> QED BY <1>2, <1>4, FS_CardinalityType

LEMMA SavingCountNext ==
  (/\ IsFiniteSet(SavingIds) /\ Cardinality(SavingIds) <= Cardinality(Requests)
   /\ Cardinality(SavingIds) \in Nat)'
BY SavingCount, PTL

LEMMA UnionCount ==
  ASSUME NEW S, IsFiniteSet(S), NEW T, IsFiniteSet(T)
  PROVE  /\ Cardinality(S \cup T) <= Cardinality(S) + Cardinality(T)
         /\ Cardinality(S \cup T) \in Nat /\ Cardinality(S) \in Nat /\ Cardinality(T) \in Nat
<1>1. /\ Cardinality(S \cup T) = Cardinality(S) + Cardinality(T) - Cardinality(S \cap T)
      /\ IsFiniteSet(S \cup T)
  BY FS_Union
<1>2. IsFiniteSet(S \cap T)
  BY FS_Subset
<1> QED BY <1>1, <1>2, FS_CardinalityType

\* The allowance is asked for: with a free slot one row more will be active.
LEMMA DeviceAsks ==
  ASSUME DevInv, NEW q \in Requests, AskAllowance(q)
  PROVE  DevInv'
<1>1. devReq[q].at = "allow" /\ UNCHANGED <<device, slots>> /\ Planning(q)
  BY DEF AskAllowance, Planning
<1>2. PICK free \in {FreeSlot(a) : a \in Allowances} :
        IF devReq[q].op = "activate" /\ ~free
        THEN DevAnswer(q)
        ELSE /\ DevSet(q, [devReq[q] EXCEPT !.at = "write", !.active = free, !.claims = free])
             /\ UNCHANGED undone
  BY DEF AskAllowance
<1>3. CASE devReq[q].op = "activate" /\ ~free
  <2>1. DevIdle \in DevState /\ DevIdle.at = "idle"
    BY DEF DevState, DevIdle
  <2> QED BY <1>1, <1>2, <1>3, <2>1, DeviceAnswers DEF DevAnswer, DevSet
<1>4. CASE ~(devReq[q].op = "activate" /\ ~free)
  <2> DEFINE b == [[[devReq[q] EXCEPT !.at = "write"] EXCEPT !.active = free] EXCEPT !.claims = free]
  <2>1. devReq' = [devReq EXCEPT ![q] = b] /\ undone' = undone
    BY <1>2, <1>4 DEF DevSet
  <2>0. IsFiniteSet(Active) /\ Cardinality(Active) \in Nat
    BY DeviceFacts, DevicesAssumption, FS_Subset, FS_CardinalityType
  <2>2. free \in BOOLEAN /\ (free => Cardinality(Active) < slots)
    <3>1. PICK a \in Allowances : free = FreeSlot(a)
      BY <1>2
    <3>2. a \in Nat /\ a <= slots
      BY <3>1, DeviceFacts DEF Allowances
    <3>3. free = (Cardinality(Active) < a)
      BY <3>1 DEF FreeSlot
    <3>4. free \in BOOLEAN
      BY <2>0, <3>2, <3>3, SMT
    <3>5. free => Cardinality(Active) < a
      BY <3>3, Zenon
    <3>6. Cardinality(Active) < a => Cardinality(Active) < slots
      BY <2>0, <3>2, DeviceFacts
    <3> QED BY <3>4, <3>5, <3>6, Zenon
  <2>3. /\ b \in DevState /\ b.at = "write" /\ b.id = devReq[q].id /\ b.op = devReq[q].op
        /\ b.active = free /\ b.claims = free
    <3>1. devReq[q] \in [at : {"allow", "write"},
                     op : {"reuse", "adopt", "create", "beat", "activate", "delete"},
                     id : DevRows, print : Prints, active : BOOLEAN, claims : BOOLEAN,
                     drop : SUBSET DevRows]
      BY <1>1, PlanFields
    <3>2. b \in [at : {"allow", "write"},
                     op : {"reuse", "adopt", "create", "beat", "activate", "delete"},
                     id : DevRows, print : Prints, active : BOOLEAN, claims : BOOLEAN,
                     drop : SUBSET DevRows]
      BY <2>2, <3>1
    <3>3. b.at = "write" /\ b.id = devReq[q].id /\ b.op = devReq[q].op
      BY <3>1
    <3>4. b.active = free /\ b.claims = free
      BY <3>1
    <3> QED BY <3>2, <3>3, <3>4 DEF DevState
  <2> HIDE DEF b
  <2>4. devReq' \in [Requests -> DevState] /\ devReq'[q] = b
        /\ \A r \in Requests : r # q => devReq'[r] = devReq[r]
    BY <2>1, <2>3, DeviceFacts
  <2>5. Rows' = Rows /\ Active' = Active
    BY <1>1 DEF Rows, Active
  <2>6. \A r \in Requests : /\ Planning(r)' = Planning(r) /\ devReq'[r].op = devReq[r].op
                            /\ (Planning(r) => devReq'[r].id = devReq[r].id)
    BY <1>1, <2>3, <2>4 DEF Planning
  <2>7. devReq[q].op # "delete"
    BY <1>1, DeviceFacts DEF PlanFits
  <2>8. ASSUME NEW r \in Requests PROVE PlanFits(r)'
    <3>1. PlanFits(r)
      BY DeviceFacts
    <3>2. CASE r = q
      <4>1. devReq'[r].active /\ ~devReq'[r].claims => FALSE
        BY <2>3, <2>4, <3>2
      <4>2. /\ devReq'[r].at # "allow" /\ devReq'[r].op # "delete"
            /\ devReq'[r].op = devReq[r].op /\ devReq'[r].id = devReq[r].id
        BY <2>3, <2>4, <2>7, <3>2
      <4> QED BY <1>1, <2>5, <2>6, <3>1, <3>2, <4>1, <4>2 DEF PlanFits
    <3>3. CASE r # q
      BY <2>1, <2>4, <2>5, <2>6, <3>1, <3>3 DEF PlanFits
    <3> QED BY <3>2, <3>3
  <2>9. (Cardinality(Active \cup SavingIds) <= slots + Cardinality(Requests) - 1)'
    <3>1. CASE ~free
      <4>1. Saving' \subseteq Saving /\ \A r \in Saving' : devReq'[r].id = devReq[r].id
        BY <1>1, <2>3, <2>4, <3>1 DEF Saving
      <4>2. (Active \cup SavingIds)' \subseteq Active \cup SavingIds
        BY <2>5, <4>1 DEF SavingIds
      <4> QED BY <1>1, <4>2, DeviceFacts, FewerActive
    <3>2. CASE free
      <4>1. PICK n \in Nat : n = Cardinality(SavingIds') /\ n <= Cardinality(Requests)
        BY SavingCountNext
      <4>2. Cardinality(Active \cup SavingIds') <= Cardinality(Active) + n
            /\ Cardinality(Active \cup SavingIds') \in Nat
        BY <2>0, <4>1, SavingCountNext, UnionCount
      <4> QED BY <1>1, <2>0, <2>2, <2>5, <3>2, <4>1, <4>2, DeviceFacts
    <3> QED BY <2>2, <3>1, <3>2
  <2> QED BY <1>1, <2>1, <2>4, <2>8, <2>9, DeviceFacts, DeviceTyped
<1> QED BY <1>3, <1>4

\* The row d is written, activated, deactivated or deleted by q, which plans no
\* more, or by a handler that does not plan.
LEMMA DeviceChanges ==
  ASSUME DevInv, NEW d \in DevRows, NEW row \in Device \cup {NoDevice},
         device' = [device EXCEPT ![d] = row], slots' = slots,
         devReq' \in [Requests -> DevState], undone' \in [DevRows -> SUBSET Requests],
         \A r \in Requests : Planning(r)' => devReq'[r] = devReq[r] /\ Planning(r),
         \* d was there, or the request that creates it has ended
         \/ d \in Rows
         \/ row = NoDevice
         \/ \A r \in Requests : Planning(r)' => devReq[r].id # d,
         \* the others hear of it
         \A r \in Requests : Planning(r)' =>
           /\ \A e \in DevRows \ {d} : r \in undone[e] => r \in undone'[e]
           /\ row # NoDevice /\ ~row.active /\ devReq[r].id = d /\ (d \in Active \/ r \in undone[d])
                => r \in undone'[d],
         row = NoDevice \/ ~row.active \/ d \in Active \cup SavingIds
  PROVE  DevInv'
<1>1. device' \in [DevRows -> Device \cup {NoDevice}] /\ device'[d] = row
      /\ \A e \in DevRows : e # d => device'[e] = device[e]
  BY DeviceFacts
<1>2. \A e \in DevRows : e # d => (e \in Rows' <=> e \in Rows) /\ (e \in Active' <=> e \in Active)
  BY <1>1 DEF Rows, Active
<1>3. (d \in Rows' <=> row # NoDevice) /\ (d \in Active' <=> row # NoDevice /\ row.active)
  BY <1>1 DEF Rows, Active
<1>4. ASSUME NEW r \in Requests PROVE PlanFits(r)'
  <2>1. CASE ~Planning(r)'
    BY <2>1 DEF PlanFits
  <2>2. CASE Planning(r)'
    <3>1. devReq'[r] = devReq[r] /\ Planning(r) /\ PlanFits(r) /\ devReq[r].id \in DevRows
      BY <2>2, DeviceFacts, PlanFields
    <3>2. devReq'[r].op = "create" =>
            /\ devReq'[r].id \notin Rows'
            /\ \A s \in Requests \ {r} : Planning(s)' => devReq'[s].id # devReq'[r].id
      <4>1. devReq[r].op = "create" =>
              /\ devReq[r].id \notin Rows
              /\ \A s \in Requests \ {r} : Planning(s) => devReq[s].id # devReq[r].id
        BY <3>1 DEF PlanFits
      <4>2. devReq[r].op = "create" => devReq[r].id \notin Rows'
        BY <1>2, <1>3, <2>2, <3>1, <4>1
      <4> QED BY <3>1, <4>1, <4>2
    <3>3. devReq[r].active /\ ~devReq[r].claims /\ devReq[r].id \in Rows' =>
            devReq[r].id \in Active' \/ r \in undone'[devReq[r].id]
      <4>1. devReq[r].active /\ ~devReq[r].claims =>
               (devReq[r].id \in Rows => devReq[r].id \in Active \/ r \in undone[devReq[r].id])
        BY <3>1 DEF PlanFits
      <4>2. CASE devReq[r].id = d
        BY <1>2, <1>3, <2>2, <3>1, <4>1, <4>2
      <4>3. CASE devReq[r].id # d
        BY <1>2, <1>3, <2>2, <3>1, <4>1, <4>3
      <4> QED BY <4>2, <4>3
    <3> QED BY <3>1, <3>2, <3>3 DEF PlanFits
  <2> QED BY <2>1, <2>2
<1>5. (Active \cup SavingIds)' \subseteq Active \cup SavingIds
  <2>1. \A r \in Saving' : r \in Saving /\ devReq'[r].id = devReq[r].id
    BY DEF Saving, Planning
  <2>2. SavingIds' \subseteq SavingIds
    BY <2>1 DEF SavingIds
  <2>3. Active' \subseteq Active \cup SavingIds
    <3>1. Active' \subseteq DevRows
      BY DEF Active, Rows
    <3> QED BY <1>2, <1>3, <3>1
  <2> QED BY <2>2, <2>3
<1>6. (Cardinality(Active \cup SavingIds) <= slots + Cardinality(Requests) - 1)'
  BY <1>5, DeviceFacts, FewerActive
<1> QED BY <1>1, <1>4, <1>6, DeviceFacts, DeviceTyped

\* The write of a request: it fails, deletes, or stores the row.
LEMMA DeviceWrites ==
  ASSUME DevInv, NEW q \in Requests, Write(q)
  PROVE  DevInv'
<1>1. PICK r : r = devReq[q]
  OBVIOUS
<1>2. PICK d : d = r.id
  OBVIOUS
<1>3. r.at = "write" /\ Planning(q) /\ slots' = slots
  BY <1>1 DEF Write, Planning
<1>4. /\ d \in DevRows /\ r.active \in BOOLEAN /\ r.print \in Prints /\ r.drop \subseteq DevRows
      /\ r.op \in {"reuse", "adopt", "create", "beat", "activate", "delete"}
  BY <1>1, <1>2, <1>3, PlanFields
<1>5. DevIdle \in DevState /\ DevIdle.at = "idle"
  BY DEF DevState, DevIdle
<1> DEFINE failed == \/ r.op # "create" /\ d \notin Rows
                     \/ r.op \in {"create", "adopt"} /\ RowOf(r.print) \ {d} # {}
           kept == IF r.op \in {"create", "adopt"} THEN r.print ELSE device[d].print
           b == IF r.drop # {} THEN [at |-> "drop", drop |-> r.drop]
                ELSE IF r.op = "reuse" /\ r.print \in Handhelds
                THEN [at |-> "collapse", id |-> d] ELSE DevIdle
<1>6. IF failed THEN DevAnswer(q) /\ UNCHANGED device
      ELSE IF r.op = "delete" THEN Store(d, NoDevice) /\ DevAnswer(q)
      ELSE SetActive(q, d, kept, r.active) /\ DevSet(q, b)
  BY <1>1, <1>2 DEF Write
<1>7. CASE failed
  BY <1>3, <1>5, <1>6, <1>7, DeviceAnswers DEF DevAnswer, DevSet
<1>8. CASE ~failed /\ r.op = "delete"
  <2>1. /\ device' = [device EXCEPT ![d] = NoDevice] /\ devReq' = [devReq EXCEPT ![q] = DevIdle]
        /\ undone' = [e \in DevRows |-> undone[e] \ {q}]
    BY <1>6, <1>8 DEF DevAnswer, DevSet, Store
  <2>2. devReq' \in [Requests -> DevState] /\ undone' \in [DevRows -> SUBSET Requests]
    BY <1>5, <2>1, DeviceFacts
  <2>3. \A s \in Requests : Planning(s)' => s # q /\ devReq'[s] = devReq[s] /\ Planning(s)
    BY <1>5, <2>1, DeviceFacts DEF Planning
  <2>4. \A s \in Requests : Planning(s)' =>
          \A e \in DevRows \ {d} : s \in undone[e] => s \in undone'[e]
    BY <2>1, <2>3
  <2> QED BY <1>3, <1>4, <2>1, <2>2, <2>3, <2>4, DeviceChanges
<1>9. CASE ~failed /\ r.op # "delete"
  <2> DEFINE row == [print |-> kept, active |-> r.active]
  <2>1. /\ device' = [device EXCEPT ![d] = row] /\ devReq' = [devReq EXCEPT ![q] = b]
        /\ undone' = [undone EXCEPT ![d] = IF r.active THEN {}
                        ELSE (IF d \in Active THEN Readers(d) ELSE undone[d]) \ {q}]
    BY <1>6, <1>9 DEF SetActive, Store, DevSet
  <2>2. row \in Device /\ row # NoDevice /\ (row.active = r.active)
    <3>1. kept \in Prints
      BY <1>4, <1>9, RowKinds
    <3>2. "active" \in DOMAIN row /\ "active" \notin DOMAIN NoDevice
      BY DEF NoDevice
    <3> QED BY <1>4, <3>1, <3>2 DEF Device
  <2> HIDE DEF row
  <2>3. b \in DevState /\ b.at \notin {"allow", "write"}
    BY <1>4, <1>5 DEF DevState
  <2> HIDE DEF b, kept
  <2>4. devReq' \in [Requests -> DevState]
        /\ \A s \in Requests : Planning(s)' => s # q /\ devReq'[s] = devReq[s] /\ Planning(s)
    BY <2>1, <2>3, DeviceFacts DEF Planning
  <2>5. undone' \in [DevRows -> SUBSET Requests]
    <3>1. Readers(d) \subseteq Requests
      BY DEF Readers
    <3> QED BY <1>4, <2>1, <3>1, DeviceFacts
  <2>6. d \in Rows \/ \A s \in Requests : Planning(s)' => devReq[s].id # d
    <3>1. CASE d \notin Rows
      <4>1. r.op = "create"
        BY <1>9, <3>1
      <4> QED BY <1>1, <1>2, <1>3, <2>4, <4>1, DeviceFacts DEF PlanFits
    <3> QED BY <3>1
  <2>7. ASSUME NEW s \in Requests, Planning(s)'
        PROVE  /\ \A e \in DevRows \ {d} : s \in undone[e] => s \in undone'[e]
               /\ row # NoDevice /\ ~row.active /\ devReq[s].id = d /\ (d \in Active \/ s \in undone[d])
                    => s \in undone'[d]
    <3>1. \A e \in DevRows \ {d} : undone'[e] = undone[e]
      BY <2>1, DeviceFacts
    <3>2. CASE ~r.active
      <4>1. undone'[d] = (IF d \in Active THEN Readers(d) ELSE undone[d]) \ {q}
        BY <1>4, <2>1, <3>2, DeviceFacts
      <4>2. devReq[s].id = d => s \in Readers(d)
        BY <2>4, <2>7 DEF Readers, Planning
      <4>3. s # q
        BY <2>4, <2>7
      <4> QED BY <3>1, <4>1, <4>2, <4>3
    <3>3. CASE r.active
      <4>1. row.active
        BY <2>2, <3>3, Zenon
      <4> QED BY <3>1, <4>1
    <3> QED BY <1>4, <3>2, <3>3
  <2>8. ~row.active \/ d \in Active \cup SavingIds
    <3>1. CASE r.active
      BY <1>1, <1>2, <1>3, <3>1 DEF SavingIds, Saving
    <3>2. CASE ~r.active
      BY <2>2, <3>2, Zenon
    <3> QED BY <3>1, <3>2
  <2>9. row \in Device \cup {NoDevice} /\ \A s \in Requests : Planning(s)' =>
           /\ devReq'[s] = devReq[s] /\ Planning(s)
    BY <2>2, <2>4
  <2>10. device' = [device EXCEPT ![d] = row]
    BY <2>1
  <2>11. devReq' \in [Requests -> DevState]
    BY <2>4
  <2>12. \A s \in Requests : Planning(s)' =>
           /\ \A e \in DevRows \ {d} : s \in undone[e] => s \in undone'[e]
           /\ row # NoDevice /\ ~row.active /\ devReq[s].id = d /\ (d \in Active \/ s \in undone[d])
                => s \in undone'[d]
    BY <2>7
  <2>13. d \in DevRows /\ slots' = slots /\ undone' \in [DevRows -> SUBSET Requests]
    BY <1>3, <1>4, <2>5
  <2> HIDE DEF failed
  <2>14. /\ d \in Rows \/ row = NoDevice \/ \A s \in Requests : Planning(s)' => devReq[s].id # d
         /\ row = NoDevice \/ ~row.active \/ d \in Active \cup SavingIds
    BY <2>6, <2>8, Zenon
  <2> QED BY <2>9, <2>10, <2>11, <2>12, <2>13, <2>14, DeviceChanges
<1> QED BY <1>7, <1>8, <1>9

\* Duplicates are found, and deleted.
LEMMA DeviceDrops ==
  ASSUME DevInv, NEW q \in Requests, Collapse(q) \/ Drop(q)
  PROVE  DevInv'
<1>1. DevIdle \in DevState /\ DevIdle.at = "idle"
  BY DEF DevState, DevIdle
<1>2. CASE Collapse(q)
  <2> DEFINE others == Handheld \ {devReq[q].id}
  <2>1. [at |-> "drop", drop |-> others] \in DevState
    BY DeviceFacts DEF DevState, Handheld
  <2> QED BY <1>1, <1>2, <2>1, DeviceAnswers DEF Collapse, DevAnswer, DevSet
<1>3. CASE Drop(q)
  <2>1. /\ devReq' = [devReq EXCEPT ![q] = DevIdle] /\ slots' = slots /\ devReq[q].at = "drop"
        /\ undone' = [e \in DevRows |-> undone[e] \ {q}]
        /\ device' = [d \in DevRows |-> IF d \in devReq[q].drop THEN NoDevice ELSE device[d]]
    BY <1>3 DEF Drop, DevAnswer, DevSet
  <2>2. /\ devReq' \in [Requests -> DevState] /\ undone' \in [DevRows -> SUBSET Requests]
        /\ device' \in [DevRows -> Device \cup {NoDevice}]
    BY <1>1, <2>1, DeviceFacts
  <2>3. \A s \in Requests : Planning(s)' => s # q /\ devReq'[s] = devReq[s] /\ Planning(s)
    BY <1>1, <2>1, DeviceFacts DEF Planning
  <2>4. \A d \in DevRows : /\ d \in Rows' => d \in Rows /\ device'[d] = device[d]
                           /\ d \in Rows' => (d \in Active <=> d \in Active')
                           /\ d \in Active' => d \in Active
    BY <2>1 DEF Rows, Active
  <2>5. \A s \in Requests, e \in DevRows : s # q /\ s \in undone[e] => s \in undone'[e]
    BY <2>1
  <2>6. ASSUME NEW s \in Requests PROVE PlanFits(s)'
    <3>1. CASE ~Planning(s)'
      BY <3>1 DEF PlanFits
    <3>2. CASE Planning(s)'
      <4>1. s # q /\ devReq'[s] = devReq[s] /\ Planning(s) /\ PlanFits(s) /\ devReq[s].id \in DevRows
        BY <2>3, <3>2, DeviceFacts, PlanFields
      <4>2. devReq'[s].op = "create" => devReq'[s].id \notin Rows'
        BY <2>4, <4>1 DEF PlanFits
      <4>3. devReq'[s].op = "create" =>
              \A p \in Requests \ {s} : Planning(p)' => devReq'[p].id # devReq'[s].id
        BY <2>3, <4>1 DEF PlanFits
      <4>4. devReq[s].active /\ ~devReq[s].claims /\ devReq[s].id \in Rows' =>
              devReq[s].id \in Active' \/ s \in undone'[devReq[s].id]
        BY <2>4, <2>5, <4>1 DEF PlanFits
      <4> QED BY <4>1, <4>2, <4>3, <4>4 DEF PlanFits
    <3> QED BY <3>1, <3>2
  <2>7. (Active \cup SavingIds)' \subseteq Active \cup SavingIds
    <3>1. Active' \subseteq Active
      BY <2>4 DEF Active, Rows
    <3>2. \A s \in Saving' : s \in Saving /\ devReq'[s].id = devReq[s].id
      BY <2>3 DEF Saving, Planning
    <3> QED BY <3>1, <3>2 DEF SavingIds
  <2>8. (Cardinality(Active \cup SavingIds) <= slots + Cardinality(Requests) - 1)'
    BY <2>1, <2>7, DeviceFacts, FewerActive
  <2> QED BY <2>1, <2>2, <2>6, <2>8, DeviceFacts, DeviceTyped
<1> QED BY <1>2, <1>3

LEMMA DeviceDeactivates ==
  ASSUME DevInv, NEW d \in DevRows, Deactivate(d)
  PROVE  DevInv'
<1> DEFINE row == [device[d] EXCEPT !.active = FALSE]
<1>1. /\ d \in Active /\ d \in Rows /\ device' = [device EXCEPT ![d] = row]
      /\ undone' = [undone EXCEPT ![d] = Readers(d)] /\ UNCHANGED <<slots, devReq>>
  BY DEF Deactivate, Store, Active
<1>2. row \in Device /\ ~row.active
  <2>1. device[d] \in Device
    BY <1>1, RowKinds
  <2> QED BY <2>1 DEF Device
<1> HIDE DEF row
<1>3. Readers(d) \subseteq Requests
  BY DEF Readers
<1>4. devReq' \in [Requests -> DevState] /\ undone' \in [DevRows -> SUBSET Requests]
  BY <1>1, <1>3, DeviceFacts
<1>5. \A r \in Requests : Planning(r)' => devReq'[r] = devReq[r] /\ Planning(r)
  BY <1>1 DEF Planning
<1>6. ASSUME NEW r \in Requests, Planning(r)'
      PROVE  /\ \A e \in DevRows \ {d} : r \in undone[e] => r \in undone'[e]
             /\ devReq[r].id = d => r \in undone'[d]
  <2>1. devReq[r].id = d => r \in Readers(d)
    BY <1>5, <1>6 DEF Readers, Planning
  <2> QED BY <1>1, <2>1, DeviceFacts
<1>7. slots' = slots /\ row \in Device \cup {NoDevice}
  BY <1>1, <1>2
<1>8. \A r \in Requests : Planning(r)' =>
        /\ \A e \in DevRows \ {d} : r \in undone[e] => r \in undone'[e]
        /\ row # NoDevice /\ ~row.active /\ devReq[r].id = d /\ (d \in Active \/ r \in undone[d])
             => r \in undone'[d]
  BY <1>6
<1>9. d \in Rows /\ device' = [device EXCEPT ![d] = row]
  BY <1>1
<1>10. row = NoDevice \/ ~row.active \/ d \in Active \cup SavingIds
  BY <1>1
<1> QED BY <1>4, <1>5, <1>7, <1>8, <1>9, <1>10, DeviceChanges

LEMMA DeviceStep == DevInv /\ [DevNext]_devVars => DevInv'
<1>1. ASSUME DevInv, UNCHANGED <<device, devReq, undone>>, slots' \in 1..MaxAllowance, slots' >= slots
      PROVE  DevInv'
  <2>1. (\A q \in Requests : PlanFits(q))'
    BY <1>1, DeviceFacts DEF PlanFits, Planning, Rows, Active
  <2>2. (Active \cup SavingIds)' \subseteq Active \cup SavingIds /\ slots' \in Nat
    BY <1>1, DevicesAssumption DEF Active, SavingIds, Saving, Rows
  <2>3. (Cardinality(Active \cup SavingIds) <= slots + Cardinality(Requests) - 1)'
    BY <1>1, <2>2, FewerActive
  <2> QED BY <1>1, <2>1, <2>3, DeviceFacts, DeviceTyped
<1>2. ASSUME DevInv, UNCHANGED devVars PROVE DevInv'
  <2>1. UNCHANGED <<device, slots, devReq, undone>>
    BY <1>2 DEF devVars
  <2> QED BY <1>1, <1>2, <2>1, DeviceFacts
<1>3. ASSUME DevInv, AddSlot PROVE DevInv'
  <2>1. slots' = slots + 1 /\ slots < MaxAllowance /\ UNCHANGED <<device, devReq, undone>>
    BY <1>3 DEF AddSlot
  <2> QED BY <1>1, <1>3, <2>1, DeviceFacts, DevicesAssumption
<1> QED BY <1>2, <1>3, DeviceLooks, DeviceAsks, DeviceWrites, DeviceDrops, DeviceDeactivates DEF DevNext

LEMMA OverrunBoundedOnly == DevInv => OverrunIsBounded
<1> SUFFICES ASSUME DevInv PROVE OverrunIsBounded
  OBVIOUS
<1>1. IsFiniteSet(Active)
  BY DeviceFacts, DevicesAssumption, FS_Subset
<1>2. IsFiniteSet(Active \cup SavingIds)
  BY <1>1, SavingCount, FS_Union
<1>3. Cardinality(Active) <= Cardinality(Active \cup SavingIds) /\ Cardinality(Active) \in Nat
      /\ Cardinality(Active \cup SavingIds) \in Nat
  BY <1>1, <1>2, FS_Subset, FS_CardinalityType
<1> QED BY <1>3, DeviceFacts DEF OverrunIsBounded

\* An inactive row comes back by the write of a request that claims a slot or
\* had read it before it ceased to be active.
LEMMA InactiveOnly == DevInv /\ [DevNext]_devVars => InactiveHolds
<1> SUFFICES ASSUME DevInv, [DevNext]_devVars, NEW d \in Rows \ Active, d \in Active'
             PROVE  \E q \in Requests : /\ devReq[q].at = "write" /\ devReq[q].id = d
                                        /\ devReq[q].claims \/ q \in undone[d]
  BY DEF InactiveHolds
<1>1. d \in DevRows /\ d \in Rows' /\ device'[d].active /\ ~device[d].active
  BY DEF Rows, Active
<1>2. device' # device
  BY <1>1
<1>3. ~\E q \in Requests : Drop(q)
  <2>1. ASSUME NEW q \in Requests, Drop(q) PROVE FALSE
    <3>1. device'[d] = NoDevice \/ device'[d] = device[d]
      BY <1>1, <2>1 DEF Drop
    <3> QED BY <1>1, <3>1 DEF Rows
  <2> QED BY <2>1
<1>4. ~\E e \in DevRows : Deactivate(e)
  <2>1. ASSUME NEW e \in DevRows, Deactivate(e) PROVE FALSE
    <3>1. device' = [device EXCEPT ![e] = [device[e] EXCEPT !.active = FALSE]] /\ e \in Rows
      BY <2>1 DEF Deactivate, Store, Active
    <3>2. device[e] \in Device
      BY <3>1, RowKinds
    <3>3. ~[device[e] EXCEPT !.active = FALSE].active
      BY <3>2 DEF Device
    <3>4. CASE e = d
      <4>1. device'[d] = [device[e] EXCEPT !.active = FALSE]
        BY <1>1, <3>1, <3>4, DeviceFacts
      <4> QED BY <1>1, <3>3, <4>1, Zenon
    <3>5. CASE e # d
      <4>1. device'[d] = device[d]
        BY <1>1, <3>1, <3>5, DeviceFacts
      <4> QED BY <1>1, <4>1, Zenon
    <3> QED BY <3>4, <3>5
  <2> QED BY <2>1
<1>5. PICK q \in Requests : Write(q)
  BY <1>2, <1>3, <1>4 DEF DevNext, devVars, Register, Heartbeat, ActivateDevice, DeleteDevice,
     AskAllowance, Collapse, AddSlot, Decide
<1>6. devReq[q].at = "write" /\ Planning(q)
  BY <1>5 DEF Write, Planning
<1>7. devReq[q].id \in DevRows /\ devReq[q].active \in BOOLEAN
  BY <1>6, PlanFields
<1>8. device' = [device EXCEPT ![devReq[q].id] = NoDevice]
      \/ \E p : device' = [device EXCEPT ![devReq[q].id] = [print |-> p, active |-> devReq[q].active]]
  BY <1>2, <1>5 DEF Write, SetActive, Store
<1>9. devReq[q].id = d /\ devReq[q].active
  <2>1. CASE device' = [device EXCEPT ![devReq[q].id] = NoDevice]
    BY <1>1, <2>1, DeviceFacts DEF Rows
  <2>2. ASSUME NEW p, device' = [device EXCEPT ![devReq[q].id] = [print |-> p, active |-> devReq[q].active]]
        PROVE  devReq[q].id = d /\ devReq[q].active
    <3>1. devReq[q].id = d
      BY <1>1, <2>2, DeviceFacts
    <3>2. device'[d] = [print |-> p, active |-> devReq[q].active]
      BY <1>1, <2>2, <3>1, DeviceFacts
    <3> QED BY <1>1, <3>1, <3>2
  <2> QED BY <1>8, <2>1, <2>2
<1>10. devReq[q].claims \/ q \in undone[d]
  BY <1>6, <1>9, DeviceFacts DEF PlanFits
<1> QED BY <1>6, <1>9, <1>10

-----------------------------------------------------------------------------
(* Licences.  A status that is about to be stored is either of a licence    *)
(* that is not barred, or was in flight when it was barred; and a date that *)
(* is about to be written is what is owed, unless another date is as well.  *)

Dates(r) == licReq[r].at = "write" /\ Dated(licReq[r].data)

\* The day from which the write of r counts what was paid, as Update does.
PaidFrom(r) ==
  LET i == licReq[r].id  paid == licReq[r].paid
  IN  IF "status" \in DOMAIN licReq[r].data /\ owed[i] > paid[1] THEN owed[i] ELSE paid[1]

\* A request that writes a date, alone, writes the day that is owed then.
DateFits(r) ==
  Dates(r) /\ owed[licReq[r].id] # Contested =>
    /\ licReq[r].data.expires = PaidFrom(r) + licReq[r].paid[2]
    /\ \A q \in Requests \ {r} : Dates(q) => licReq[q].id # licReq[r].id

StatusFits(r) ==
  licReq[r].at = "store" /\ lic[licReq[r].id].status \in Barred => r \in overlap[licReq[r].id]

\* The inductive invariant of Licences.
LicInv ==
  /\ LicTypeOK
  /\ \A i \in LicIds : owed[i] # Contested => lic[i].expires = owed[i]
  /\ \A r \in Requests : /\ licReq[r].at \in {"write", "store"} => licReq[r].id \in LicIds
                         /\ StatusFits(r) /\ DateFits(r)

LEMMA LicenceFacts ==
  ASSUME LicInv
  PROVE  /\ today \in 0..MaxDay /\ today \in Nat
         /\ lic \in Seq(LicRow) /\ Len(lic) \in Nat /\ Len(lic) <= MaxLicences
         /\ LicIds = 1..Len(lic) /\ LicIds \subseteq 1..MaxLicences
         /\ licReq \in [Requests -> LicState]
         /\ overlap \in Seq(SUBSET Requests) /\ Len(overlap) = Len(lic) /\ DOMAIN overlap = LicIds
         /\ owed \in Seq((0..Never) \cup {Contested}) /\ Len(owed) = Len(lic) /\ DOMAIN owed = LicIds
         /\ \A i \in LicIds : /\ lic[i] \in LicRow /\ overlap[i] \subseteq Requests
                              /\ owed[i] \in (0..Never) \cup {Contested}
                              /\ owed[i] # Contested => lic[i].expires = owed[i]
         /\ \A r \in Requests : /\ licReq[r].at \in {"write", "store"} => licReq[r].id \in LicIds
                                /\ StatusFits(r) /\ DateFits(r)
<1>1. /\ today \in 0..MaxDay /\ lic \in Seq(LicRow) /\ Len(lic) <= MaxLicences
      /\ licReq \in [Requests -> LicState] /\ overlap \in Seq(SUBSET Requests) /\ Len(overlap) = Len(lic)
      /\ owed \in Seq((0..Never) \cup {Contested}) /\ Len(owed) = Len(lic)
  BY DEF LicInv, LicTypeOK
<1>2. /\ DOMAIN lic = 1..Len(lic) /\ DOMAIN overlap = 1..Len(lic) /\ DOMAIN owed = 1..Len(lic)
      /\ Len(lic) \in Nat
  BY <1>1, LenProperties
<1>3. LicIds = 1..Len(lic) /\ LicIds \subseteq 1..MaxLicences
  BY <1>1, <1>2, LicencesAssumption DEF LicIds
<1>4. \A i \in LicIds : /\ lic[i] \in LicRow /\ overlap[i] \subseteq Requests
                        /\ owed[i] \in (0..Never) \cup {Contested}
  BY <1>1, <1>2, <1>3, ElementOfSeq
<1>5. today \in Nat
  BY <1>1, LicencesAssumption
<1> QED BY <1>1, <1>2, <1>3, <1>4, <1>5 DEF LicInv

LEMMA LicenceTyped ==
  ASSUME today' \in 0..MaxDay, lic' \in Seq(LicRow), Len(lic') <= MaxLicences,
         licReq' \in [Requests -> LicState],
         overlap' \in Seq(SUBSET Requests), Len(overlap') = Len(lic'),
         owed' \in Seq((0..Never) \cup {Contested}), Len(owed') = Len(lic'),
         (\A i \in LicIds : owed[i] # Contested => lic[i].expires = owed[i])',
         (\A r \in Requests : /\ licReq[r].at \in {"write", "store"} => licReq[r].id \in LicIds
                              /\ StatusFits(r) /\ DateFits(r))'
  PROVE  LicInv'
BY DEF LicInv, LicTypeOK

LEMMA LicenceStart == LicInit => LicInv
<1> SUFFICES ASSUME LicInit PROVE LicInv
  OBVIOUS
<1>1. /\ today = 0 /\ lic = <<>> /\ licReq = [r \in Requests |-> LicIdle]
      /\ overlap = <<>> /\ owed = <<>>
  BY DEF LicInit
<1>2. LicTypeOK
  BY <1>1, LicencesAssumption DEF LicTypeOK, LicState
<1>3. \A r \in Requests : licReq[r].at = "idle"
  BY <1>1 DEF LicIdle
<1>4. LicIds = {}
  BY <1>1 DEF LicIds
<1> QED BY <1>2, <1>3, <1>4 DEF LicInv, StatusFits, DateFits, Dates

\* The fields of what a request will write or store.
LEMMA LicenceFields ==
  ASSUME LicInv, NEW r \in Requests
  PROVE  /\ licReq[r].at = "write" => licReq[r].data \in LicData
         /\ licReq[r].at = "store" => licReq[r].status \in Status \ Barred
         /\ licReq[r].at \in {"write", "store"} => licReq[r].id \in LicIds
<1>1. licReq[r] \in LicState
  BY LicenceFacts
<1>2. licReq[r].at = "write" => licReq[r].data \in LicData
  BY <1>1 DEF LicState, LicIdle
<1>3. licReq[r].at = "store" => licReq[r].status \in Status \ Barred
  BY <1>1 DEF LicState, LicIdle
<1> QED BY <1>2, <1>3, LicenceFacts

\* An answer takes the request out of the overlap.
LEMMA OverlapWithout ==
  ASSUME LicInv, NEW r \in Requests, overlap' = [i \in LicIds |-> overlap[i] \ {r}]
  PROVE  /\ overlap' \in Seq(SUBSET Requests) /\ Len(overlap') = Len(lic)
         /\ \A i \in LicIds, q \in Requests : q # r /\ q \in overlap[i] => q \in overlap'[i]
<1>1. overlap' \in [1..Len(lic) -> SUBSET Requests] /\ Len(lic) \in Nat
  BY LicenceFacts
<1>2. overlap' \in Seq(SUBSET Requests)
  BY <1>1, SeqDef
<1> QED BY <1>1, <1>2, LenProperties, LicenceFacts

\* A request ends or goes on to the status; nothing is planned.
LEMMA LicenceMoves ==
  ASSUME LicInv, NEW r \in Requests, NEW b \in LicState, b.at \notin {"write", "store"},
         licReq' = [licReq EXCEPT ![r] = b], UNCHANGED <<today, lic, owed>>,
         overlap' = overlap \/ overlap' = [i \in LicIds |-> overlap[i] \ {r}]
  PROVE  LicInv'
<1>1. licReq' \in [Requests -> LicState] /\ licReq'[r] = b
      /\ \A q \in Requests : q # r => licReq'[q] = licReq[q]
  BY LicenceFacts
<1>2. /\ overlap' \in Seq(SUBSET Requests) /\ Len(overlap') = Len(lic)
      /\ \A i \in LicIds, q \in Requests : q # r /\ q \in overlap[i] => q \in overlap'[i]
  BY OverlapWithout, LicenceFacts
<1>3. LicIds' = LicIds
  BY DEF LicIds
<1>4. ASSUME NEW q \in Requests
      PROVE  (/\ licReq[q].at \in {"write", "store"} => licReq[q].id \in LicIds
              /\ StatusFits(q) /\ DateFits(q))'
  <2>1. CASE q = r
    BY <1>1, <2>1 DEF StatusFits, DateFits, Dates
  <2>2. CASE q # r
    <3>1. licReq'[q] = licReq[q] /\ StatusFits(q) /\ DateFits(q)
          /\ (licReq[q].at \in {"write", "store"} => licReq[q].id \in LicIds)
      BY <1>1, <2>2, LicenceFacts
    <3>2. StatusFits(q)'
      BY <1>2, <2>2, <3>1 DEF StatusFits
    <3>3. \A p \in Requests : Dates(p)' => p # r /\ Dates(p) /\ licReq'[p] = licReq[p]
      BY <1>1 DEF Dates
    <3>4. DateFits(q)'
      BY <3>1, <3>3 DEF DateFits, PaidFrom
    <3> QED BY <1>3, <3>1, <3>2, <3>4
  <2> QED BY <2>1, <2>2
<1>5. (\A i \in LicIds : owed[i] # Contested => lic[i].expires = owed[i])'
  BY <1>3, LicenceFacts
<1> QED BY <1>1, <1>2, <1>4, <1>5, LicenceFacts, LicenceTyped

\* A new licence: nobody has read it yet.
LEMMA LicenceCreated ==
  ASSUME LicInv, NEW r \in Requests, Create(r)
  PROVE  LicInv'
<1> DEFINE b == [at |-> "status"]  n == Len(lic)
<1>1. PICK e \in {Never} \cup ({today + MaxTerm} \cap (0..MaxDate)) :
        /\ lic' = Append(lic, [status |-> "active", activated |-> today, expires |-> e])
        /\ owed' = Append(owed, e)
  BY DEF Create
<1>2. /\ n < MaxLicences /\ overlap' = Append(overlap, {}) /\ today' = today
      /\ licReq' = [licReq EXCEPT ![r] = b]
  BY DEF Create, LicSet
<1>3. b \in LicState /\ b.at = "status"
  BY DEF LicState
<1> HIDE DEF b
<1>4. licReq' \in [Requests -> LicState] /\ licReq'[r] = b
      /\ \A q \in Requests : q # r => licReq'[q] = licReq[q]
  BY <1>2, <1>3, LicenceFacts
<1>5. e \in 0..Never /\ [status |-> "active", activated |-> today, expires |-> e] \in LicRow
  <2>1. MaxDate \in Nat /\ MaxTerm \in Nat
    BY LicencesAssumption
  <2>2. e \in 0..Never
    BY <1>1, <2>1 DEF Never
  <2> QED BY <2>2, LicenceFacts DEF LicRow, Status, Live
<1>6. /\ lic' \in Seq(LicRow) /\ Len(lic') = n + 1
      /\ lic'[n + 1] = [status |-> "active", activated |-> today, expires |-> e]
      /\ \A i \in 1..n : lic'[i] = lic[i]
  BY <1>1, <1>5, LicenceFacts, AppendProperties
<1>7. /\ owed' \in Seq((0..Never) \cup {Contested}) /\ Len(owed') = n + 1
      /\ owed'[n + 1] = e /\ \A i \in 1..n : owed'[i] = owed[i]
  BY <1>1, <1>5, LicenceFacts, AppendProperties
<1>8. /\ overlap' \in Seq(SUBSET Requests) /\ Len(overlap') = n + 1
      /\ \A i \in 1..n : overlap'[i] = overlap[i]
  BY <1>2, LicenceFacts, AppendProperties
<1>9. LicIds' = 1..(n + 1) /\ LicIds = 1..n /\ n \in Nat
  BY <1>6, LicenceFacts, LenProperties DEF LicIds
<1>10. ASSUME NEW i \in LicIds', owed'[i] # Contested PROVE lic'[i].expires = owed'[i]
  <2>1. CASE i = n + 1
    BY <1>6, <1>7, <2>1
  <2>2. CASE i # n + 1
    <3>1. i \in LicIds
      BY <1>9, <2>2
    <3> QED BY <1>6, <1>7, <1>9, <1>10, <3>1, LicenceFacts
  <2> QED BY <2>1, <2>2
<1>11. ASSUME NEW q \in Requests
       PROVE  (/\ licReq[q].at \in {"write", "store"} => licReq[q].id \in LicIds
               /\ StatusFits(q) /\ DateFits(q))'
  <2>1. CASE q = r
    BY <1>3, <1>4, <2>1 DEF StatusFits, DateFits, Dates
  <2>2. CASE q # r
    <3>1. licReq'[q] = licReq[q] /\ StatusFits(q) /\ DateFits(q)
          /\ (licReq[q].at \in {"write", "store"} => licReq[q].id \in LicIds)
      BY <1>4, <2>2, LicenceFacts
    <3>2. StatusFits(q)'
      BY <1>6, <1>8, <1>9, <3>1 DEF StatusFits
    <3>3. \A p \in Requests : Dates(p)' => p # r /\ Dates(p) /\ licReq'[p] = licReq[p]
      BY <1>3, <1>4 DEF Dates
    <3>4. Dates(q) => owed'[licReq[q].id] = owed[licReq[q].id]
      BY <1>7, <1>9, <3>1 DEF Dates
    <3>5. DateFits(q)'
      BY <3>1, <3>3, <3>4 DEF DateFits, PaidFrom
    <3> QED BY <1>9, <3>1, <3>2, <3>5
  <2> QED BY <2>1, <2>2
<1>12. (\A i \in LicIds : owed[i] # Contested => lic[i].expires = owed[i])'
  BY <1>10
<1>13. Len(lic') <= MaxLicences /\ Len(overlap') = Len(lic') /\ Len(owed') = Len(lic')
       /\ today' \in 0..MaxDay
  BY <1>2, <1>6, <1>7, <1>8, <1>9, LicenceFacts, LicencesAssumption
<1>14. (\A q \in Requests : /\ licReq[q].at \in {"write", "store"} => licReq[q].id \in LicIds
                            /\ StatusFits(q) /\ DateFits(q))'
  BY <1>11
<1>15. /\ lic' \in Seq(LicRow) /\ licReq' \in [Requests -> LicState]
       /\ overlap' \in Seq(SUBSET Requests) /\ owed' \in Seq((0..Never) \cup {Contested})
  BY <1>4, <1>6, <1>7, <1>8
<1> QED BY <1>12, <1>13, <1>14, <1>15, LicenceTyped

\* A renewal, a change of duration or a reactivation has read its row.
LEMMA LicencePlans ==
  ASSUME LicInv, NEW r \in Requests, NEW i \in LicIds, NEW b \in LicState,
         licReq[r].at = "idle", b.at = "write", b.id = i,
         licReq' = [licReq EXCEPT ![r] = b], UNCHANGED <<today, lic, overlap>>,
         owed' = IF Dated(b.data) /\ (\E q \in Requests : Writing(i, q) /\ Dated(licReq[q].data))
                 THEN [owed EXCEPT ![i] = Contested] ELSE owed,
         Dated(b.data) =>
           b.data.expires = (IF "status" \in DOMAIN b.data /\ lic[i].expires > b.paid[1]
                             THEN lic[i].expires ELSE b.paid[1]) + b.paid[2]
  PROVE  LicInv'
<1>1. licReq' \in [Requests -> LicState] /\ licReq'[r] = b
      /\ \A q \in Requests : q # r => licReq'[q] = licReq[q]
  BY LicenceFacts
<1>2. LicIds' = LicIds
  BY SMTT(30) DEF LicIds
<1>3. owed' \in Seq((0..Never) \cup {Contested}) /\ Len(owed') = Len(lic)
      /\ \A j \in LicIds : owed'[j] = owed[j] \/ owed'[j] = Contested
  <2>1. Contested \in (0..Never) \cup {Contested} /\ i \in 1..Len(owed)
    BY LicenceFacts
  <2>2. [owed EXCEPT ![i] = Contested] \in Seq((0..Never) \cup {Contested})
        /\ Len([owed EXCEPT ![i] = Contested]) = Len(owed)
    BY <2>1, LicenceFacts, ExceptSeq
  <2> QED BY <2>2, LicenceFacts
<1>4. \A q \in Requests : Dates(q) <=> licReq[q].at = "write" /\ Dated(licReq[q].data)
  BY DEF Dates
<1>5. ASSUME NEW q \in Requests
      PROVE  (/\ licReq[q].at \in {"write", "store"} => licReq[q].id \in LicIds
              /\ StatusFits(q) /\ DateFits(q))'
  <2>1. CASE q = r
    <3>1. StatusFits(q)'
      BY <1>1, <2>1 DEF StatusFits
    <3>2. ASSUME Dates(q)', owed'[i] # Contested
          PROVE  /\ b.data.expires = PaidFrom(q)' + b.paid[2]
                 /\ \A p \in Requests \ {q} : Dates(p)' => licReq'[p].id # i
      <4>1. Dated(b.data) /\ \A p \in Requests : Dates(p) => licReq[p].id # i
        <5>1. Dated(b.data)
          BY <1>1, <2>1, <3>2 DEF Dates
        <5>2. ASSUME NEW p \in Requests, Dates(p), licReq[p].id = i PROVE FALSE
          <6>1. Writing(i, p) /\ Dated(licReq[p].data)
            BY <5>2 DEF Dates, Writing
          <6>2. owed' = [owed EXCEPT ![i] = Contested]
            BY <5>1, <6>1
          <6> QED BY <3>2, <6>2, LicenceFacts
        <5> QED BY <5>1, <5>2
      <4>2. owed' = owed /\ lic[i].expires = owed[i]
        <5>1. ~\E p \in Requests : Writing(i, p) /\ Dated(licReq[p].data)
          BY <4>1 DEF Dates, Writing
        <5>2. owed' = owed
          BY <5>1
        <5> QED BY <3>2, <5>2, LicenceFacts
      <4>3. PaidFrom(q)' = IF "status" \in DOMAIN b.data /\ lic[i].expires > b.paid[1]
                           THEN lic[i].expires ELSE b.paid[1]
        BY <1>1, <2>1, <4>2 DEF PaidFrom
      <4>4. \A p \in Requests \ {q} : Dates(p)' => Dates(p) /\ licReq'[p] = licReq[p]
        BY <1>1, <2>1 DEF Dates
      <4> QED BY <4>1, <4>3, <4>4
    <3>3. DateFits(q)'
      BY <1>1, <2>1, <3>2 DEF DateFits
    <3> QED BY <1>1, <1>2, <2>1, <3>1, <3>3
  <2>2. CASE q # r
    <3>1. licReq'[q] = licReq[q] /\ StatusFits(q) /\ DateFits(q)
          /\ (licReq[q].at \in {"write", "store"} => licReq[q].id \in LicIds)
      BY <1>1, <2>2, LicenceFacts
    <3>2. StatusFits(q)'
      BY <3>1 DEF StatusFits
    <3>3. ASSUME Dates(q), owed'[licReq[q].id] # Contested
          PROVE  /\ owed[licReq[q].id] # Contested /\ owed'[licReq[q].id] = owed[licReq[q].id]
                 /\ Dated(b.data) => licReq[q].id # i
      <4>1. licReq[q].id \in LicIds
        BY <3>1, <3>3 DEF Dates
      <4>2. ASSUME Dated(b.data), licReq[q].id = i PROVE FALSE
        <5>1. Writing(i, q) /\ Dated(licReq[q].data)
          BY <3>3, <4>2 DEF Dates, Writing
        <5>2. owed' = [owed EXCEPT ![i] = Contested]
          BY <4>2, <5>1
        <5> QED BY <3>3, <4>2, <5>2, LicenceFacts
      <4> QED BY <1>3, <3>3, <4>1, <4>2
    <3>4. \A p \in Requests \ {r} : Dates(p)' <=> Dates(p) /\ licReq'[p] = licReq[p]
      BY <1>1 DEF Dates
    <3>5. Dates(r)' => Dated(b.data) /\ licReq'[r].id = i
      BY <1>1 DEF Dates
    <3>6. ASSUME Dates(q)', owed'[licReq'[q].id] # Contested
          PROVE  /\ licReq'[q].data.expires = PaidFrom(q)' + licReq'[q].paid[2]
                 /\ \A p \in Requests \ {q} : Dates(p)' => licReq'[p].id # licReq'[q].id
      <4>1. Dates(q) /\ owed'[licReq[q].id] # Contested
        BY <2>2, <3>1, <3>4, <3>6
      <4>2. PaidFrom(q)' = PaidFrom(q)
        BY <3>1, <3>3, <4>1 DEF PaidFrom
      <4>3. /\ licReq[q].data.expires = PaidFrom(q) + licReq[q].paid[2]
            /\ \A p \in Requests \ {q} : Dates(p) => licReq[p].id # licReq[q].id
        BY <3>1, <3>3, <4>1 DEF DateFits
      <4> QED BY <3>1, <3>3, <3>4, <3>5, <4>1, <4>2, <4>3
    <3>7. DateFits(q)'
      BY <3>6 DEF DateFits
    <3> QED BY <1>2, <3>1, <3>2, <3>7
  <2> QED BY <2>1, <2>2
<1>6. (\A j \in LicIds : owed[j] # Contested => lic[j].expires = owed[j])'
  BY <1>2, <1>3, LicenceFacts
<1> QED BY <1>1, <1>3, <1>5, <1>6, LicenceFacts, LicenceTyped

\* The four handlers that look a licence up, or find none.
LEMMA LicenceReads ==
  ASSUME LicInv, NEW r \in Requests,
         \/ StartActivate(r)
         \/ \E i \in LicIds :
              \/ ReadReactivate(r, i)
              \/ \E term \in 1..MaxTerm : ReadRenew(r, i, term) \/ ReadDuration(r, i, term)
  PROVE  LicInv'
<1>1. MaxTerm \in Nat /\ MaxDate \in Nat /\ MaxDay \in Nat
  BY LicencesAssumption
<1>2. CASE StartActivate(r)
  <2>1. [at |-> "create"] \in LicState
    BY DEF LicState
  <2> QED BY <1>2, <2>1, LicenceMoves DEF StartActivate, LicSet
<1>3. ASSUME NEW i \in LicIds, ReadReactivate(r, i) PROVE LicInv'
  <2> DEFINE b == [at |-> "write", id |-> i, paid |-> <<>>, data |-> [status |-> "active"]]
  <2>1. b \in LicState /\ b.at = "write" /\ b.id = i /\ b.data = [status |-> "active"]
    BY LicenceFacts DEF LicState, LicData
  <2>2. ~Dated(b.data)
    BY <2>1 DEF Dated
  <2>3. licReq[r].at = "idle" /\ licReq' = [licReq EXCEPT ![r] = b]
        /\ UNCHANGED <<today, lic, overlap, owed>>
    BY <1>3 DEF ReadReactivate, LicSet
  <2> HIDE DEF b
  <2> QED BY <2>1, <2>2, <2>3, LicencePlans
<1>4. ASSUME NEW i \in LicIds, NEW term \in 1..MaxTerm, ReadRenew(r, i, term) PROVE LicInv'
  <2>1. PICK base : base = IF lic[i].expires > today THEN lic[i].expires ELSE today
    OBVIOUS
  <2>2. PICK data : data = [status |-> "active", expires |-> base + term]
    OBVIOUS
  <2> DEFINE b == [at |-> "write", id |-> i, paid |-> <<today, term>>, data |-> data]
  <2>3. /\ licReq[r].at = "idle" /\ lic[i].expires # Never /\ base + term <= MaxDate
        /\ licReq' = [licReq EXCEPT ![r] = b] /\ Contest(i) /\ UNCHANGED <<today, lic, overlap>>
    BY <1>4, <2>1, <2>2 DEF ReadRenew, LicSet
  <2>4. base + term \in 0..MaxDate
    <3>1. lic[i].expires \in 0..Never
      BY LicenceFacts DEF LicRow
    <3>2. base \in Nat /\ term \in Nat
      BY <1>1, <2>1, <3>1, LicenceFacts DEF Never
    <3> QED BY <1>1, <2>3, <3>2
  <2>5. data \in LicData /\ Dated(data) /\ "status" \in DOMAIN data /\ data.expires = base + term
    BY <2>2, <2>4 DEF LicData, Dated
  <2>6. <<today, term>> \in Seq(0..MaxDay + MaxTerm)
    <3>1. today \in 0..MaxDay + MaxTerm /\ term \in 0..MaxDay + MaxTerm
      BY <1>1, LicenceFacts
    <3> QED BY <3>1
  <2>7. /\ b \in LicState /\ b.at = "write" /\ b.id = i /\ b.data = data
        /\ b.paid[1] = today /\ b.paid[2] = term
    BY <2>5, <2>6, LicenceFacts DEF LicState
  <2> HIDE DEF b
  <2>8. b.data.expires = (IF "status" \in DOMAIN b.data /\ lic[i].expires > b.paid[1]
                          THEN lic[i].expires ELSE b.paid[1]) + b.paid[2]
    BY <2>1, <2>5, <2>7
  <2>9. owed' = IF Dated(b.data) /\ (\E q \in Requests : Writing(i, q) /\ Dated(licReq[q].data))
                THEN [owed EXCEPT ![i] = Contested] ELSE owed
    BY <2>3, <2>5, <2>7 DEF Contest
  <2> QED BY <2>3, <2>7, <2>8, <2>9, LicencePlans
<1>5. ASSUME NEW i \in LicIds, NEW term \in 1..MaxTerm, ReadDuration(r, i, term) PROVE LicInv'
  <2>1. PICK from : from = lic[i].activated
    OBVIOUS
  <2>2. PICK data : data = [expires |-> from + term]
    OBVIOUS
  <2> DEFINE b == [at |-> "write", id |-> i, paid |-> <<from, term>>, data |-> data]
  <2>3. /\ licReq[r].at = "idle" /\ lic[i].expires # Never /\ from + term <= MaxDate
        /\ licReq' = [licReq EXCEPT ![r] = b] /\ Contest(i) /\ UNCHANGED <<today, lic, overlap>>
    BY <1>5, <2>1, <2>2 DEF ReadDuration, LicSet
  <2>4. from \in 0..MaxDay /\ from + term \in 0..MaxDate
    <3>1. from \in 0..MaxDay
      BY <2>1, LicenceFacts DEF LicRow
    <3> QED BY <1>1, <2>3, <3>1
  <2>5. data \in LicData /\ Dated(data) /\ "status" \notin DOMAIN data /\ data.expires = from + term
    BY <2>2, <2>4 DEF LicData, Dated
  <2>6. <<from, term>> \in Seq(0..MaxDay + MaxTerm)
    <3>1. from \in 0..MaxDay + MaxTerm /\ term \in 0..MaxDay + MaxTerm
      BY <1>1, <2>4
    <3> QED BY <3>1
  <2>7. /\ b \in LicState /\ b.at = "write" /\ b.id = i /\ b.data = data
        /\ b.paid[1] = from /\ b.paid[2] = term
    BY <2>5, <2>6, LicenceFacts DEF LicState
  <2> HIDE DEF b
  <2>8. b.data.expires = (IF "status" \in DOMAIN b.data /\ lic[i].expires > b.paid[1]
                          THEN lic[i].expires ELSE b.paid[1]) + b.paid[2]
    BY <2>5, <2>7
  <2>9. owed' = IF Dated(b.data) /\ (\E q \in Requests : Writing(i, q) /\ Dated(licReq[q].data))
                THEN [owed EXCEPT ![i] = Contested] ELSE owed
    BY <2>3, <2>5, <2>7 DEF Contest
  <2> QED BY <2>3, <2>7, <2>8, <2>9, LicencePlans
<1> QED BY <1>2, <1>3, <1>4, <1>5

\* The update of a row by its data keeps the other fields.
LEMMA RowUpdated ==
  ASSUME NEW old \in LicRow, NEW data \in LicData, NEW new,
         new = [f \in DOMAIN old |-> IF f \in DOMAIN data THEN data[f] ELSE old[f]]
  PROVE  /\ new \in LicRow
         /\ new.expires = IF Dated(data) THEN data.expires ELSE old.expires
         /\ new.status = IF "status" \in DOMAIN data THEN "active" ELSE old.status
<1>2. DOMAIN old = {"status", "activated", "expires"} /\ DOMAIN data \subseteq {"status", "expires"}
  BY DEF LicRow, LicData
<1>3. /\ new.status = IF "status" \in DOMAIN data THEN data.status ELSE old.status
      /\ new.activated = old.activated
      /\ new.expires = IF "expires" \in DOMAIN data THEN data.expires ELSE old.expires
      /\ DOMAIN new = {"status", "activated", "expires"}
  BY <1>2
<1>4. /\ "status" \in DOMAIN data => data.status = "active"
      /\ "expires" \in DOMAIN data => data.expires \in 0..MaxDate
  BY DEF LicData
<1>5. 0..MaxDate \subseteq 0..Never
  BY LicencesAssumption DEF Never
<1>6. new.status \in Status /\ new.activated \in 0..MaxDay /\ new.expires \in 0..Never
  BY <1>3, <1>4, <1>5 DEF LicRow, Status, Live
<1>7. new = [status |-> new.status, activated |-> new.activated, expires |-> new.expires]
  BY <1>2, <1>3
<1>8. new \in LicRow
  BY <1>6, <1>7 DEF LicRow
<1> QED BY <1>3, <1>4, <1>8 DEF Dated

\* Rows change, and no request plans anything new: what is to be seen is that
\* stored statuses are announced and that dates agree with what is owed.
LEMMA LicenceRows ==
  ASSUME LicInv, NEW i \in LicIds, NEW new \in LicRow, lic' = [lic EXCEPT ![i] = new], today' = today,
         licReq' \in [Requests -> LicState],
         \A q \in Requests : licReq'[q] = licReq[q] \/ licReq'[q].at \notin {"write", "store"},
         overlap' \in Seq(SUBSET Requests), Len(overlap') = Len(lic),
         owed' \in Seq((0..Never) \cup {Contested}), Len(owed') = Len(lic),
         \A j \in LicIds : j # i => owed'[j] = owed[j],
         owed'[i] # Contested => new.expires = owed'[i],
         \A q \in Requests : licReq'[q].at = "write" /\ licReq[q].id = i /\ Dated(licReq[q].data) =>
           owed'[i] = owed[i] \/ owed'[i] = Contested,
         \A q \in Requests : licReq'[q].at = "store" =>
           /\ \A j \in LicIds \ {i} : q \in overlap[j] => q \in overlap'[j]
           /\ licReq[q].id = i /\ new.status \in Barred =>
                q \in overlap'[i] \/ (lic[i].status \in Barred /\ overlap'[i] = overlap[i])
  PROVE  LicInv'
<1>1. lic' \in Seq(LicRow) /\ Len(lic') = Len(lic) /\ lic'[i] = new
      /\ \A j \in LicIds : j # i => lic'[j] = lic[j]
  BY LicenceFacts, ExceptSeq
<1>2. LicIds' = LicIds
  BY <1>1, LicenceFacts, LenProperties DEF LicIds
<1>3. (\A j \in LicIds : owed[j] # Contested => lic[j].expires = owed[j])'
  BY <1>1, <1>2, LicenceFacts
<1>4. ASSUME NEW q \in Requests
      PROVE  (/\ licReq[q].at \in {"write", "store"} => licReq[q].id \in LicIds
              /\ StatusFits(q) /\ DateFits(q))'
  <2>1. CASE licReq'[q].at \notin {"write", "store"}
    BY <2>1 DEF StatusFits, DateFits, Dates
  <2>2. CASE licReq'[q].at \in {"write", "store"}
    <3>1. licReq'[q] = licReq[q] /\ licReq[q].id \in LicIds /\ StatusFits(q) /\ DateFits(q)
      BY <2>2, LicenceFacts
    <3>2. StatusFits(q)'
      <4>1. CASE licReq[q].id = i
        BY <1>1, <3>1, <4>1 DEF StatusFits
      <4>2. CASE licReq[q].id # i
        BY <1>1, <3>1, <4>2 DEF StatusFits
      <4> QED BY <4>1, <4>2
    <3>3. Dates(q)' => Dates(q) /\ licReq'[q].at = "write" /\ Dated(licReq[q].data)
      BY <3>1 DEF Dates
    <3>4. Dates(q)' /\ owed'[licReq[q].id] # Contested => owed'[licReq[q].id] = owed[licReq[q].id]
      BY <3>1, <3>3
    <3>5. \A p \in Requests : Dates(p)' => Dates(p) /\ licReq'[p] = licReq[p]
      BY DEF Dates
    <3>6. ASSUME Dates(q)', owed'[licReq'[q].id] # Contested
          PROVE  /\ licReq'[q].data.expires = PaidFrom(q)' + licReq'[q].paid[2]
                 /\ \A p \in Requests \ {q} : Dates(p)' => licReq'[p].id # licReq'[q].id
      <4>1. owed'[licReq[q].id] = owed[licReq[q].id] /\ owed[licReq[q].id] # Contested /\ Dates(q)
        BY <3>1, <3>3, <3>4, <3>6
      <4>2. PaidFrom(q)' = PaidFrom(q)
        BY <3>1, <4>1 DEF PaidFrom
      <4> QED BY <3>1, <3>5, <4>1, <4>2 DEF DateFits
    <3>7. DateFits(q)'
      BY <3>6 DEF DateFits
    <3> QED BY <1>2, <3>1, <3>2, <3>7
  <2> QED BY <2>1, <2>2
<1> QED BY <1>1, <1>3, <1>4, LicenceFacts, LicenceTyped

LEMMA LicenceUpdates ==
  ASSUME LicInv, NEW r \in Requests, Update(r)
  PROVE  LicInv'
<1>1. PICK i, data, paid, from :
        /\ i = licReq[r].id /\ data = licReq[r].data /\ paid = licReq[r].paid
        /\ from = IF "status" \in DOMAIN data /\ owed[i] > paid[1] THEN owed[i] ELSE paid[1]
  OBVIOUS
<1> DEFINE b == [at |-> "status"]
<1>2. PICK new : new = [f \in DOMAIN lic[i] |-> IF f \in DOMAIN data THEN data[f] ELSE lic[i][f]]
  OBVIOUS
<1>3. /\ licReq[r].at = "write" /\ today' = today /\ licReq' = [licReq EXCEPT ![r] = b]
      /\ owed' = IF ~Dated(data) \/ owed[i] = Contested THEN owed
                 ELSE [owed EXCEPT ![i] = from + paid[2]]
      /\ overlap' = IF "status" \in DOMAIN data THEN [overlap EXCEPT ![i] = {}] ELSE overlap
  BY <1>1 DEF Update, LicSet
<1>4. i \in LicIds /\ data \in LicData /\ lic[i] \in LicRow
  BY <1>1, <1>3, LicenceFacts, LicenceFields
<1>5. lic' = [lic EXCEPT ![i] = new]
  BY <1>1, <1>2 DEF Update
<1>6. /\ new \in LicRow
      /\ new.expires = IF Dated(data) THEN data.expires ELSE lic[i].expires
      /\ new.status = IF "status" \in DOMAIN data THEN "active" ELSE lic[i].status
  BY <1>2, <1>4, RowUpdated
<1>7. b \in LicState /\ b.at = "status"
  BY DEF LicState
<1> HIDE DEF b
<1>8. licReq' \in [Requests -> LicState] /\ licReq'[r] = b
      /\ \A q \in Requests : q # r => licReq'[q] = licReq[q]
  BY <1>3, <1>7, LicenceFacts
<1>9. Dated(data) /\ owed[i] # Contested =>
        /\ data.expires = from + paid[2]
        /\ \A q \in Requests \ {r} : Dates(q) => licReq[q].id # i
  BY <1>1, <1>3, LicenceFacts DEF DateFits, Dates, PaidFrom
<1>10. Dated(data) => data.expires \in 0..Never /\ data.expires # Contested
  <2>1. Dated(data) => data.expires \in 0..MaxDate
    BY <1>4 DEF LicData, Dated
  <2> QED BY <2>1, LicencesAssumption DEF Never, Contested
<1>11. /\ owed' \in Seq((0..Never) \cup {Contested}) /\ Len(owed') = Len(lic)
       /\ \A j \in LicIds : j # i => owed'[j] = owed[j]
       /\ owed'[i] = IF ~Dated(data) \/ owed[i] = Contested THEN owed[i] ELSE data.expires
  <2>1. CASE ~Dated(data) \/ owed[i] = Contested
    BY <1>3, <2>1, LicenceFacts
  <2>2. CASE Dated(data) /\ owed[i] # Contested
    <3>1. owed' = [owed EXCEPT ![i] = data.expires]
      BY <1>3, <1>9, <2>2
    <3>2. i \in 1..Len(owed)
      BY <1>4, LicenceFacts
    <3> QED BY <1>4, <1>10, <2>2, <3>1, <3>2, LicenceFacts, ExceptSeq
  <2> QED BY <2>1, <2>2
<1>12. /\ overlap' \in Seq(SUBSET Requests) /\ Len(overlap') = Len(lic)
       /\ \A j \in LicIds : j # i => overlap'[j] = overlap[j]
       /\ "status" \notin DOMAIN data => overlap' = overlap
  <2>1. i \in 1..Len(overlap) /\ {} \in SUBSET Requests
    BY <1>4, LicenceFacts
  <2>2. [overlap EXCEPT ![i] = {}] \in Seq(SUBSET Requests) /\ Len([overlap EXCEPT ![i] = {}]) = Len(overlap)
    BY <2>1, LicenceFacts, ExceptSeq
  <2> QED BY <1>3, <2>2, LicenceFacts
<1>13. owed'[i] # Contested => new.expires = owed'[i]
  BY <1>4, <1>6, <1>11, LicenceFacts
<1>14. \A q \in Requests : licReq'[q].at = "write" /\ licReq[q].id = i /\ Dated(licReq[q].data) =>
           owed'[i] = owed[i] \/ owed'[i] = Contested
  <2>1. ASSUME NEW q \in Requests, licReq'[q].at = "write", licReq[q].id = i, Dated(licReq[q].data)
        PROVE  owed'[i] = owed[i]
    <3>1. q # r /\ Dates(q)
      BY <1>7, <1>8, <2>1 DEF Dates
    <3> QED BY <1>9, <1>11, <2>1, <3>1
  <2> QED BY <2>1
<1>15. \A q \in Requests : licReq'[q].at = "store" =>
           /\ \A j \in LicIds \ {i} : q \in overlap[j] => q \in overlap'[j]
           /\ licReq[q].id = i /\ new.status \in Barred =>
                q \in overlap'[i] \/ (lic[i].status \in Barred /\ overlap'[i] = overlap[i])
  BY <1>6, <1>12 DEF Barred
<1>16. \A q \in Requests : licReq'[q] = licReq[q] \/ licReq'[q].at \notin {"write", "store"}
  BY <1>7, <1>8
<1>17. today' = today /\ licReq' \in [Requests -> LicState]
  BY <1>3, <1>8
<1> QED BY <1>4, <1>5, <1>6, <1>11, <1>12, <1>13, <1>14, <1>15, <1>16, <1>17, LicenceRows

LEMMA LicenceBars ==
  ASSUME LicInv, NEW i \in LicIds, NEW s \in Barred, Bar(i, s)
  PROVE  LicInv'
<1>0. PICK new : new = [lic[i] EXCEPT !.status = s]
  OBVIOUS
<1> DEFINE storing == {r \in Requests : licReq[r].at = "store" /\ licReq[r].id = i}
<1>1. /\ lic' = [lic EXCEPT ![i] = new] /\ overlap' = [overlap EXCEPT ![i] = storing]
      /\ UNCHANGED <<today, licReq, owed>>
  BY <1>0 DEF Bar
<1>2. new \in LicRow /\ new.expires = lic[i].expires /\ new.status = s
  BY <1>0, LicenceFacts DEF LicRow, Status
<1>3. /\ overlap' \in Seq(SUBSET Requests) /\ Len(overlap') = Len(lic)
      /\ \A j \in LicIds : j # i => overlap'[j] = overlap[j]
      /\ overlap'[i] = storing
  <2>1. i \in 1..Len(overlap) /\ storing \in SUBSET Requests
    BY LicenceFacts
  <2> QED BY <1>1, <2>1, LicenceFacts, ExceptSeq
<1>4. \A q \in Requests : licReq'[q].at = "store" =>
           /\ \A j \in LicIds \ {i} : q \in overlap[j] => q \in overlap'[j]
           /\ licReq[q].id = i /\ new.status \in Barred =>
                q \in overlap'[i] \/ (lic[i].status \in Barred /\ overlap'[i] = overlap[i])
  BY <1>1, <1>3
<1>5. /\ licReq' \in [Requests -> LicState] /\ today' = today
      /\ \A q \in Requests : licReq'[q] = licReq[q] \/ licReq'[q].at \notin {"write", "store"}
      /\ owed' \in Seq((0..Never) \cup {Contested}) /\ Len(owed') = Len(lic)
      /\ \A j \in LicIds : owed'[j] = owed[j]
  BY <1>1, LicenceFacts
<1>6. owed'[i] # Contested => new.expires = owed'[i]
  BY <1>2, <1>5, LicenceFacts
<1>7. lic' = [lic EXCEPT ![i] = new]
  BY <1>1
<1>8. \A q \in Requests : licReq'[q].at = "write" /\ licReq[q].id = i /\ Dated(licReq[q].data) =>
           owed'[i] = owed[i] \/ owed'[i] = Contested
  BY <1>5
<1>9. \A j \in LicIds : j # i => owed'[j] = owed[j]
  BY <1>5
<1>10. new \in LicRow /\ lic' = [lic EXCEPT ![i] = new] /\ today' = today
  BY <1>2, <1>5, <1>7
<1>11. licReq' \in [Requests -> LicState]
  BY <1>5
<1>12. \A q \in Requests : licReq'[q] = licReq[q] \/ licReq'[q].at \notin {"write", "store"}
  BY <1>5
<1>13. overlap' \in Seq(SUBSET Requests) /\ Len(overlap') = Len(lic)
  BY <1>3
<1>14. owed' \in Seq((0..Never) \cup {Contested}) /\ Len(owed') = Len(lic)
  BY <1>5
<1> QED BY <1>4, <1>6, <1>8, <1>9, <1>10, <1>11, <1>12, <1>13, <1>14, LicenceRows

\* A status is computed: of a licence that is not barred, if it is to be stored.
LEMMA StatusComputed ==
  ASSUME LicInv, NEW row \in LicRow
  PROVE  /\ ComputeStatus(row) \in Status
         /\ ComputeStatus(row) # row.status => row.status \notin Barred /\ ComputeStatus(row) \notin Barred
<1>1. row.status \in Status
  BY DEF LicRow
<1> QED BY <1>1 DEF ComputeStatus, Status, Barred, Live

LEMMA LicenceAnswers ==
  ASSUME LicInv, NEW r \in Requests, ReadStatus(r)
  PROVE  LicInv'
<1>1. UNCHANGED <<today, lic, owed>> /\ licReq[r].at \in {"idle", "status"}
  BY DEF ReadStatus
<1>2. LicIdle \in LicState /\ LicIdle.at = "idle"
  BY DEF LicState, LicIdle
<1>3. CASE Answer(r)
  BY <1>1, <1>2, <1>3, LicenceMoves DEF Answer, LicSet
<1>4. ASSUME NEW i \in Latest, ComputeStatus(lic[i]) # lic[i].status,
             LicSet(r, [at |-> "store", id |-> i, status |-> ComputeStatus(lic[i])]), overlap' = overlap
      PROVE  LicInv'
  <2>1. i \in LicIds /\ lic[i] \in LicRow
    BY <1>4, LicenceFacts DEF Latest
  <2>2. PICK s : s = ComputeStatus(lic[i])
    OBVIOUS
  <2>3. s \in Status \ Barred /\ lic[i].status \notin Barred
    BY <1>4, <2>1, <2>2, StatusComputed
  <2> DEFINE b == [at |-> "store", id |-> i, status |-> s]
  <2>4. b \in LicState /\ b.at = "store" /\ b.id = i
    BY <2>1, <2>3, LicenceFacts DEF LicState
  <2>5. licReq' = [licReq EXCEPT ![r] = b]
    BY <1>4, <2>2 DEF LicSet
  <2> HIDE DEF b
  <2>6. licReq' \in [Requests -> LicState] /\ licReq'[r] = b
        /\ \A q \in Requests : q # r => licReq'[q] = licReq[q]
    BY <2>4, <2>5, LicenceFacts
  <2>7. LicIds' = LicIds
    BY <1>1 DEF LicIds
  <2>8. ASSUME NEW q \in Requests
        PROVE  (/\ licReq[q].at \in {"write", "store"} => licReq[q].id \in LicIds
                /\ StatusFits(q) /\ DateFits(q))'
    <3>1. CASE q = r
      BY <1>1, <2>1, <2>3, <2>4, <2>6, <2>7, <3>1 DEF StatusFits, DateFits, Dates
    <3>2. CASE q # r
      <4>1. licReq'[q] = licReq[q] /\ StatusFits(q) /\ DateFits(q)
            /\ (licReq[q].at \in {"write", "store"} => licReq[q].id \in LicIds)
        BY <2>6, <3>2, LicenceFacts
      <4>2. \A p \in Requests : Dates(p)' => p # r /\ Dates(p) /\ licReq'[p] = licReq[p]
        BY <2>4, <2>6 DEF Dates
      <4>3. DateFits(q)'
        BY <1>1, <4>1, <4>2 DEF DateFits, PaidFrom
      <4> QED BY <1>1, <1>4, <2>7, <4>1, <4>3 DEF StatusFits
    <3> QED BY <3>1, <3>2
  <2>9. (\A j \in LicIds : owed[j] # Contested => lic[j].expires = owed[j])'
    BY <1>1, <2>7, LicenceFacts
  <2> QED BY <1>1, <1>4, <2>6, <2>8, <2>9, LicenceFacts, LicenceTyped
<1> QED BY <1>3, <1>4 DEF ReadStatus

LEMMA LicenceStores ==
  ASSUME LicInv, NEW r \in Requests, StoreStatus(r)
  PROVE  LicInv'
<1>1. PICK i, s : i = licReq[r].id /\ s = licReq[r].status
  OBVIOUS
<1>0. PICK new : new = [lic[i] EXCEPT !.status = s]
  OBVIOUS
<1>2. /\ licReq[r].at = "store" /\ lic' = [lic EXCEPT ![i] = new] /\ UNCHANGED <<today, owed>>
      /\ licReq' = [licReq EXCEPT ![r] = LicIdle]
      /\ overlap' = [j \in LicIds |-> overlap[j] \ {r}]
  BY <1>0, <1>1 DEF StoreStatus, Answer, LicSet
<1>3. i \in LicIds /\ s \in Status \ Barred
  BY <1>1, <1>2, LicenceFields
<1>4. new \in LicRow /\ new.expires = lic[i].expires /\ new.status = s
  BY <1>0, <1>3, LicenceFacts DEF LicRow
<1>5. LicIdle \in LicState /\ LicIdle.at = "idle"
  BY DEF LicState, LicIdle
<1>6. /\ overlap' \in Seq(SUBSET Requests) /\ Len(overlap') = Len(lic)
      /\ \A j \in LicIds, q \in Requests : q # r /\ q \in overlap[j] => q \in overlap'[j]
  BY <1>2, OverlapWithout
<1>7. /\ licReq' \in [Requests -> LicState] /\ licReq'[r].at = "idle"
      /\ \A q \in Requests : q # r => licReq'[q] = licReq[q]
  BY <1>2, <1>5, LicenceFacts
<1>8. \A q \in Requests : licReq'[q].at = "store" =>
           /\ \A j \in LicIds \ {i} : q \in overlap[j] => q \in overlap'[j]
           /\ licReq[q].id = i /\ new.status \in Barred =>
                q \in overlap'[i] \/ (lic[i].status \in Barred /\ overlap'[i] = overlap[i])
  BY <1>3, <1>4, <1>6, <1>7
<1>9. \A q \in Requests : licReq'[q] = licReq[q] \/ licReq'[q].at \notin {"write", "store"}
  BY <1>7
<1>10. /\ owed' \in Seq((0..Never) \cup {Contested}) /\ Len(owed') = Len(lic) /\ today' = today
       /\ \A j \in LicIds : owed'[j] = owed[j]
       /\ owed'[i] # Contested => new.expires = owed'[i]
  BY <1>2, <1>3, <1>4, LicenceFacts
<1>11. lic' = [lic EXCEPT ![i] = new]
  BY <1>2
<1>12. \A q \in Requests : licReq'[q].at = "write" /\ licReq[q].id = i /\ Dated(licReq[q].data) =>
           owed'[i] = owed[i] \/ owed'[i] = Contested
  BY <1>3, <1>10
<1>13. \A j \in LicIds : j # i => owed'[j] = owed[j]
  BY <1>10
<1>14. i \in LicIds /\ new \in LicRow /\ today' = today /\ licReq' \in [Requests -> LicState]
  BY <1>3, <1>4, <1>7, <1>10
<1>15. overlap' \in Seq(SUBSET Requests) /\ Len(overlap') = Len(lic)
  BY <1>6
<1>16. owed' \in Seq((0..Never) \cup {Contested}) /\ Len(owed') = Len(lic)
  BY <1>10
<1>17. owed'[i] # Contested => new.expires = owed'[i]
  BY <1>10
<1> QED BY <1>8, <1>9, <1>11, <1>12, <1>13, <1>14, <1>15, <1>16, <1>17, LicenceRows

LEMMA LicenceStep == LicInv /\ [LicNext]_licVars => LicInv'
<1>1. ASSUME LicInv, UNCHANGED <<lic, licReq, overlap, owed>>, today' \in 0..MaxDay PROVE LicInv'
  <2>1. LicIds' = LicIds
    BY <1>1 DEF LicIds
  <2>2. ASSUME NEW q \in Requests
        PROVE  (/\ licReq[q].at \in {"write", "store"} => licReq[q].id \in LicIds
                /\ StatusFits(q) /\ DateFits(q))'
    <3>1. StatusFits(q) /\ DateFits(q) /\ (licReq[q].at \in {"write", "store"} => licReq[q].id \in LicIds)
      BY <1>1, LicenceFacts
    <3> QED BY <1>1, <2>1, <3>1 DEF StatusFits, DateFits, PaidFrom, Dates
  <2>3. (\A j \in LicIds : owed[j] # Contested => lic[j].expires = owed[j])'
    BY <1>1, <2>1, LicenceFacts
  <2> QED BY <1>1, <2>2, <2>3, LicenceFacts, LicenceTyped
<1>2. ASSUME LicInv, UNCHANGED licVars PROVE LicInv'
  <2>1. UNCHANGED <<today, lic, licReq, overlap, owed>>
    BY <1>2 DEF licVars
  <2> QED BY <1>1, <1>2, <2>1, LicenceFacts
<1>3. ASSUME LicInv, Tomorrow PROVE LicInv'
  <2>1. today' \in 0..MaxDay
    BY <1>3, LicenceFacts, LicencesAssumption DEF Tomorrow
  <2> QED BY <1>1, <1>3, <2>1 DEF Tomorrow
<1> QED BY <1>2, <1>3, LicenceReads, LicenceCreated, LicenceUpdates, LicenceBars, LicenceAnswers,
           LicenceStores DEF LicNext

LEMMA PaidMayWriteOnly == LicInv => PaidTenantMayWrite
<1> SUFFICES ASSUME LicInv, NEW i \in Latest, lic[i].status # "suspended", owed[i] # Contested,
                    owed[i] = Never \/ today <= owed[i] + Grace
             PROVE  MayWrite
  BY DEF PaidTenantMayWrite
<1>1. lic[i].expires = owed[i]
  BY LicenceFacts DEF Latest
<1> QED BY <1>1 DEF MayWrite

\* A barred licence becomes usable by a renewal or a reactivation, or by a status
\* that was in flight when it was barred.
LEMMA BarHoldsOnly == LicInv /\ [LicNext]_licVars => BarHolds
<1> SUFFICES ASSUME LicInv, [LicNext]_licVars, NEW i \in LicIds,
                    lic[i].status \in Barred, lic'[i].status \notin Barred
             PROVE  \E r \in Requests :
                      \/ licReq[r].at = "write" /\ "status" \in DOMAIN licReq[r].data
                      \/ licReq[r].at = "store" /\ r \in overlap[i]
  BY DEF BarHolds
<1>1. lic'[i] # lic[i] /\ lic' # lic
  OBVIOUS
<1>2. ASSUME NEW r \in Requests, Create(r) PROVE FALSE
  <2>1. PICK row : lic' = Append(lic, row)
    BY <1>2 DEF Create
  <2>2. lic'[i] = lic[i]
    BY <2>1, LicenceFacts
  <2> QED BY <1>1, <2>2
<1>3. ASSUME NEW j \in LicIds, NEW s \in Barred, Bar(j, s) PROVE FALSE
  <2>1. lic' = [lic EXCEPT ![j] = [lic[j] EXCEPT !.status = s]]
    BY <1>3 DEF Bar
  <2>2. [lic[j] EXCEPT !.status = s].status = s
    BY LicenceFacts DEF LicRow
  <2> QED BY <1>1, <2>1, <2>2, LicenceFacts
<1>4. CASE \E r \in Requests : Update(r)
  <2>1. PICK r \in Requests : Update(r)
    BY <1>4
  <2>2. PICK j, data : j = licReq[r].id /\ data = licReq[r].data
    OBVIOUS
  <2>3. licReq[r].at = "write" /\ j \in LicIds /\ data \in LicData
    BY <2>1, <2>2, LicenceFields DEF Update
  <2>4. PICK new : new = [f \in DOMAIN lic[j] |-> IF f \in DOMAIN data THEN data[f] ELSE lic[j][f]]
    OBVIOUS
  <2>5. lic' = [lic EXCEPT ![j] = new]
    BY <2>1, <2>2, <2>4 DEF Update
  <2>6. i = j /\ lic'[i] = new
    BY <1>1, <2>3, <2>5, LicenceFacts
  <2>7. lic[j] \in LicRow
    BY <2>3, LicenceFacts
  <2>8. new.status = IF "status" \in DOMAIN data THEN "active" ELSE lic[j].status
    BY <2>3, <2>4, <2>7, RowUpdated
  <2> QED BY <2>2, <2>3, <2>6, <2>8
<1>5. CASE \E r \in Requests : StoreStatus(r)
  <2>1. PICK r \in Requests : StoreStatus(r)
    BY <1>5
  <2>2. licReq[r].at = "store"
        /\ lic' = [lic EXCEPT ![licReq[r].id] = [lic[licReq[r].id] EXCEPT !.status = licReq[r].status]]
    BY <2>1 DEF StoreStatus
  <2>3. licReq[r].id = i
    BY <1>1, <2>2, LicenceFields, LicenceFacts
  <2> QED BY <2>2, <2>3, LicenceFacts DEF StatusFits
<1> QED BY <1>1, <1>2, <1>3, <1>4, <1>5 DEF LicNext, licVars, StartActivate, ReadStatus, ReadReactivate,
     ReadRenew, ReadDuration, Tomorrow

-----------------------------------------------------------------------------
(* Tenants.  A request that is about to end an onboarding has read all the  *)
(* steps of its tenant, or the tenant was created again since; and one that *)
(* is about to purge a family knows of the licences granted since it looked.*)

Statements == Required \cup {"tenant", "sub-tenant", "find", "grant", "progress", "finalise", "purge"}

\* What a list of statements looks like: a deletion is one statement, and the
\* end of an onboarding is the last one, after the steps were read.
Shaped(todo) ==
  /\ Len(todo) >= 1
  /\ \A k \in 1..Len(todo) :
       /\ todo[k] = "purge" => Len(todo) = 1
       /\ todo[k] = "finalise" => k = Len(todo)
       /\ k > 1 /\ todo[k] = "finalise" => todo[k - 1] = "progress"

StatementFits(q) ==
  tenReq[q] # TenIdle =>
    /\ Shaped(tenReq[q].todo)
    /\ Now(q) = "finalise" /\ Of(q) \in Tenants => Required \subseteq steps[Of(q)] \/ tenReq[q].reborn
    /\ Now(q) = "purge" => \A f \in tenReq[q].family : grant[f] = "none" \/ f \in tenReq[q].fresh

\* The inductive invariant of Tenancy.
TenInv ==
  /\ TenTypeOK
  /\ tenReq \in [Requests -> Request \cup {TenIdle}]
  /\ \A q \in Requests : StatementFits(q)

LEMMA TenantFacts ==
  ASSUME TenInv
  PROVE  /\ tenant \in [Ids -> Tenant \cup {NoTenant}]
         /\ steps \in [Ids -> SUBSET Required]
         /\ grant \in [Ids -> Grants]
         /\ former \subseteq CuidIds
         /\ tenReq \in [Requests -> Request \cup {TenIdle}]
         /\ \A q \in Requests : StatementFits(q)
         /\ Tenants \subseteq Ids
BY DEF TenInv, TenTypeOK, Tenants

LEMMA TenantTyped ==
  ASSUME tenant' \in [Ids -> Tenant \cup {NoTenant}], steps' \in [Ids -> SUBSET Required],
         grant' \in [Ids -> Grants], former' \subseteq CuidIds,
         tenReq' \in [Requests -> Request \cup {TenIdle}],
         (\A q \in Requests : StatementFits(q))'
  PROVE  TenInv'
BY DEF TenInv, TenTypeOK

LEMMA TenantStart == TenInit => TenInv
<1> SUFFICES ASSUME TenInit PROVE TenInv
  OBVIOUS
<1>1. /\ tenant = [t \in Ids |-> NoTenant] /\ steps = [t \in Ids |-> {}]
      /\ grant = [t \in Ids |-> "none"] /\ tenReq = [q \in Requests |-> TenIdle] /\ former = {}
  BY DEF TenInit
<1> QED BY <1>1 DEF TenInv, TenTypeOK, StatementFits, Grants

\* A request in flight has these fields, and is not idle.
LEMMA RequestFields ==
  ASSUME TenInv, NEW q \in Requests, tenReq[q] # TenIdle
  PROVE  /\ tenReq[q] \in Request /\ tenReq[q].t \in Ids /\ tenReq[q].family \subseteq Ids
         /\ tenReq[q].reborn \in BOOLEAN /\ tenReq[q].fresh \subseteq Ids
         /\ tenReq[q].todo \in Seq(Statements) /\ Shaped(tenReq[q].todo)
BY TenantFacts DEF Request, StatementFits, Statements

\* The rest of a list is of the same shape.
LEMMA TailShaped ==
  ASSUME NEW todo \in Seq(Statements), Shaped(todo), Len(todo) # 1
  PROVE  /\ Tail(todo) \in Seq(Statements) /\ Shaped(Tail(todo))
         /\ Head(Tail(todo)) # "purge"
         /\ Head(Tail(todo)) = "finalise" => Head(todo) = "progress"
<1>1. Len(todo) \in Nat /\ Len(todo) >= 2 /\ todo # <<>>
  <2>1. Len(todo) >= 1
    BY DEF Shaped
  <2>2. Len(todo) \in Nat /\ (todo = <<>> => Len(todo) = 0)
    BY LenProperties
  <2>3. \A n \in Nat : n >= 1 /\ n # 1 => n >= 2 /\ n # 0
    OBVIOUS
  <2>4. Len(todo) >= 2 /\ Len(todo) # 0
    BY <2>1, <2>2, <2>3, Zenon
  <2> QED BY <2>2, <2>4
<1>2. /\ Tail(todo) \in Seq(Statements) /\ Len(Tail(todo)) = Len(todo) - 1
      /\ \A k \in 1..(Len(todo) - 1) : Tail(todo)[k] = todo[k + 1]
  BY <1>1, HeadTailProperties
<1>3. Head(Tail(todo)) = todo[2] /\ Head(todo) = todo[1]
  BY <1>1, <1>2
<1>4. todo[2] # "purge" /\ (todo[2] = "finalise" => todo[1] = "progress")
  BY <1>1 DEF Shaped
<1>5. ASSUME NEW k \in 1..Len(Tail(todo))
      PROVE  /\ Tail(todo)[k] # "purge"
             /\ Tail(todo)[k] = "finalise" => k = Len(Tail(todo))
             /\ k > 1 /\ Tail(todo)[k] = "finalise" => Tail(todo)[k - 1] = "progress"
  <2>1. k + 1 \in 1..Len(todo) /\ Tail(todo)[k] = todo[k + 1] /\ k \in Nat
    BY <1>1, <1>2
  <2>2. k > 1 => Tail(todo)[k - 1] = todo[k]
    BY <1>1, <1>2, <2>1
  <2>3. todo[k + 1] # "purge" /\ (todo[k + 1] = "finalise" => k + 1 = Len(todo))
    BY <1>1, <2>1 DEF Shaped
  <2>4. todo[k + 1] = "finalise" => todo[k] = "progress"
    BY <1>1, <2>1 DEF Shaped
  <2>5. k + 1 = Len(todo) => k = Len(Tail(todo))
    <3>1. Len(Tail(todo)) = Len(todo) - 1
      BY <1>2
    <3>2. Len(todo) \in Nat /\ k \in Nat
      BY <1>1, <2>1
    <3> QED BY <3>1, <3>2
  <2> QED BY <2>1, <2>2, <2>3, <2>4, <2>5
<1>6. Shaped(Tail(todo))
  <2>1. Len(Tail(todo)) >= 1
    BY <1>1, <1>2
  <2> QED BY <1>5, <2>1 DEF Shaped
<1> QED BY <1>2, <1>3, <1>4, <1>6

\* The last statement is the whole list.
LEMMA LastStatement ==
  ASSUME NEW todo \in Seq(Statements), Shaped(todo), Head(todo) \in {"finalise", "purge"}
  PROVE  todo = <<Head(todo)>> /\ Len(todo) = 1
<1>1. Len(todo) \in Nat /\ Len(todo) >= 1 /\ Head(todo) = todo[1] /\ 1 \in 1..Len(todo)
  BY LenProperties DEF Shaped
<1>2. Len(todo) = 1
  BY <1>1 DEF Shaped
<1>3. <<Head(todo)>> \in Seq(Statements) /\ Len(<<Head(todo)>>) = 1 /\ <<Head(todo)>>[1] = todo[1]
  BY <1>1 DEF Statements
<1> QED BY <1>1, <1>2, <1>3, SeqEqual

\* A request ends, or runs on with the rest of its list; the table, the steps and
\* the licences keep what the others rely on.
LEMMA TenantMoves ==
  ASSUME TenInv, NEW q \in Requests, NEW b \in Request \cup {TenIdle},
         tenReq' = [tenReq EXCEPT ![q] = b],
         UNCHANGED grant, tenant' \in [Ids -> Tenant \cup {NoTenant}], Tenants' \subseteq Tenants,
         steps' \in [Ids -> SUBSET Required], former' = former,
         \A t \in Ids : steps[t] \subseteq steps'[t],
         b # TenIdle => /\ Shaped(b.todo)
                        /\ Head(b.todo) = "finalise" => Required \subseteq steps'[b.t]
                        /\ Head(b.todo) = "purge" => \A f \in b.family : grant[f] = "none"
  PROVE  TenInv'
<1>1. tenReq' \in [Requests -> Request \cup {TenIdle}] /\ tenReq'[q] = b
      /\ \A r \in Requests : r # q => tenReq'[r] = tenReq[r]
  BY TenantFacts
<1>2. ASSUME NEW r \in Requests PROVE StatementFits(r)'
  <2>1. CASE r = q
    BY <1>1, <2>1 DEF StatementFits, Now, Of
  <2>2. CASE r # q
    <3>1. tenReq'[r] = tenReq[r] /\ StatementFits(r)
      BY <1>1, <2>2, TenantFacts
    <3>2. CASE tenReq[r] = TenIdle
      BY <3>1, <3>2 DEF StatementFits
    <3>3. CASE tenReq[r] # TenIdle
      <4>1. steps[Of(r)] \subseteq steps'[Of(r)]
        BY <3>3, RequestFields DEF Of
      <4>2. Now(r)' = Now(r) /\ Of(r)' = Of(r)
        BY <3>1 DEF Now, Of
      <4>3. /\ Shaped(tenReq'[r].todo)
            /\ Now(r)' = "finalise" /\ Of(r)' \in Tenants' => Required \subseteq steps'[Of(r)'] \/ tenReq'[r].reborn
            /\ Now(r)' = "purge" => \A f \in tenReq'[r].family : grant'[f] = "none" \/ f \in tenReq'[r].fresh
        BY <3>1, <3>3, <4>1, <4>2 DEF StatementFits
      <4> QED BY <4>3 DEF StatementFits
    <3> QED BY <3>2, <3>3
  <2> QED BY <2>1, <2>2
<1> QED BY <1>1, <1>2, TenantFacts, TenantTyped

LEMMA TenantIdles ==
  ASSUME TenInv, NEW q \in Requests, Fail(q)
  PROVE  TenInv'
<1>1. tenReq' = [tenReq EXCEPT ![q] = TenIdle] /\ UNCHANGED <<tenant, steps, grant, former>>
  BY DEF Fail, tenData
<1>2. Tenants' = Tenants
  BY <1>1 DEF Tenants
<1> QED BY <1>1, <1>2, TenantFacts, TenantMoves

\* What a request leaves to be run.
LEMMA RestFits ==
  ASSUME TenInv, NEW q \in Requests, tenReq[q] # TenIdle
  PROVE  /\ Rest(q) \in Request \cup {TenIdle}
         /\ Rest(q) # TenIdle =>
              /\ Shaped(Rest(q).todo) /\ Rest(q).t = Of(q) /\ Rest(q).family = tenReq[q].family
              /\ Head(Rest(q).todo) # "purge"
              /\ Head(Rest(q).todo) = "finalise" => Now(q) = "progress"
<1>1. PICK a : a = tenReq[q]
  OBVIOUS
<1>2. a \in Request /\ a.todo \in Seq(Statements) /\ Shaped(a.todo)
  BY <1>1, RequestFields
<1>3. CASE Len(a.todo) = 1
  BY <1>1, <1>3 DEF Rest
<1>4. CASE Len(a.todo) # 1
  <2>1. Rest(q) = [a EXCEPT !.todo = Tail(a.todo)]
    BY <1>1, <1>4 DEF Rest
  <2>2. /\ Tail(a.todo) \in Seq(Statements) /\ Shaped(Tail(a.todo))
        /\ Head(Tail(a.todo)) # "purge"
        /\ Head(Tail(a.todo)) = "finalise" => Head(a.todo) = "progress"
    BY <1>2, <1>4, TailShaped
  <2>3. /\ Rest(q) \in Request /\ Rest(q).todo = Tail(a.todo) /\ Rest(q).t = a.t
        /\ Rest(q).family = a.family
    BY <1>2, <2>1, <2>2 DEF Request, Statements
  <2> QED BY <1>1, <2>2, <2>3 DEF Now, Of
<1> QED BY <1>3, <1>4

\* A request arrives: none of its lists starts with what ends an onboarding, and
\* a deletion has seen that no licence is held.
LEMMA TenantBegins ==
  ASSUME TenInv, NEW q \in Requests, NEW t \in Ids, NEW family \in SUBSET Ids,
         NEW todo \in Seq(Statements), Shaped(todo), Head(todo) # "finalise",
         Head(todo) = "purge" => \A f \in family : grant[f] = "none",
         Begin(q, t, family, todo)
  PROVE  TenInv'
<1> DEFINE b == [t |-> t, family |-> family, reborn |-> FALSE, fresh |-> {}, todo |-> todo]
<1>1. tenReq' = [tenReq EXCEPT ![q] = b] /\ UNCHANGED <<tenant, steps, grant, former>>
  BY DEF Begin, tenData
<1>2. b \in Request /\ b.todo = todo /\ b.family = family
  BY DEF Request, Statements
<1> HIDE DEF b
<1>3. Tenants' = Tenants
  BY <1>1 DEF Tenants
<1> QED BY <1>1, <1>2, <1>3, TenantFacts, TenantMoves

\* A request that another one runs beside still fits, when what it relies on is
\* kept, or noted.
LEMMA StillFits ==
  ASSUME TenInv, NEW r \in Requests, tenReq[r] # TenIdle,
         tenReq'[r].t = tenReq[r].t, tenReq'[r].family = tenReq[r].family,
         tenReq'[r].todo = tenReq[r].todo,
         tenReq[r].reborn => tenReq'[r].reborn, tenReq[r].fresh \subseteq tenReq'[r].fresh,
         tenReq[r].todo = <<"finalise">> /\ Of(r) \in Tenants' =>
           Of(r) \in Tenants \/ tenReq'[r].reborn,
         Of(r) \in Tenants /\ Of(r) \in Tenants' => steps[Of(r)] \subseteq steps'[Of(r)],
         tenReq[r].todo = <<"purge">> =>
           \A f \in tenReq[r].family : grant[f] = "none" => grant'[f] = "none" \/ f \in tenReq'[r].fresh
  PROVE  StatementFits(r)'
<1>1. /\ tenReq[r].todo \in Seq(Statements) /\ Shaped(tenReq[r].todo) /\ StatementFits(r)
      /\ Now(r) = Head(tenReq[r].todo) /\ Now(r)' = Now(r) /\ Of(r)' = Of(r)
  BY RequestFields, TenantFacts DEF Now, Of
<1>2. Now(r) \in {"finalise", "purge"} => tenReq[r].todo = <<Now(r)>>
  BY <1>1, LastStatement
<1>3. ASSUME Now(r) = "finalise", Of(r) \in Tenants'
      PROVE  Required \subseteq steps'[Of(r)] \/ tenReq'[r].reborn
  <2>1. tenReq[r].todo = <<"finalise">>
    BY <1>2, <1>3
  <2>2. CASE Of(r) \in Tenants
    BY <1>1, <1>3, <2>2 DEF StatementFits
  <2>3. CASE Of(r) \notin Tenants
    BY <1>3, <2>1, <2>3
  <2> QED BY <2>2, <2>3
<1>4. ASSUME Now(r) = "purge", NEW f \in tenReq[r].family
      PROVE  grant'[f] = "none" \/ f \in tenReq'[r].fresh
  <2>1. tenReq[r].todo = <<"purge">>
    BY <1>2, <1>4
  <2>2. grant[f] = "none" \/ f \in tenReq[r].fresh
    BY <1>1, <1>4 DEF StatementFits
  <2> QED BY <2>1, <2>2
<1>5. /\ Shaped(tenReq'[r].todo)
      /\ Now(r)' = "finalise" /\ Of(r)' \in Tenants' => Required \subseteq steps'[Of(r)'] \/ tenReq'[r].reborn
      /\ Now(r)' = "purge" => \A f \in tenReq'[r].family : grant'[f] = "none" \/ f \in tenReq'[r].fresh
  BY <1>1, <1>3, <1>4
<1> QED BY <1>5 DEF StatementFits

\* What the others note of a new row.
LEMMA RebornNotes ==
  ASSUME TenInv, NEW q \in Requests, NEW t \in Ids, NEW r \in Requests, r # q
  PROVE  /\ Reborn(q, t)[r] \in Request \cup {TenIdle}
         /\ tenReq[r] = TenIdle => Reborn(q, t)[r] = TenIdle
         /\ tenReq[r] # TenIdle =>
              /\ Reborn(q, t)[r].t = tenReq[r].t /\ Reborn(q, t)[r].family = tenReq[r].family
              /\ Reborn(q, t)[r].todo = tenReq[r].todo /\ Reborn(q, t)[r].fresh = tenReq[r].fresh
              /\ tenReq[r].reborn => Reborn(q, t)[r].reborn
              /\ tenReq[r].todo = <<"finalise">> /\ tenReq[r].t = t => Reborn(q, t)[r].reborn
<1>1. PICK a : a = tenReq[r]
  OBVIOUS
<1>2. a \in Request \cup {TenIdle}
  BY <1>1, TenantFacts
<1>3. CASE a = TenIdle
  BY <1>1, <1>3 DEF Reborn, Others
<1>4. CASE a # TenIdle
  <2>1. a \in Request
    BY <1>2, <1>4
  <2>2. Reborn(q, t)[r] = IF a.todo = <<"finalise">> THEN [a EXCEPT !.reborn = a.reborn \/ a.t = t] ELSE a
    BY <1>1, <1>4 DEF Reborn, Others
  <2>3. CASE a.todo = <<"finalise">>
    <3>1. Reborn(q, t)[r] = [a EXCEPT !.reborn = a.reborn \/ a.t = t]
      BY <2>2, <2>3
    <3>2. (a.reborn \/ a.t = t) \in BOOLEAN
      OBVIOUS
    <3> QED BY <1>1, <1>4, <2>1, <3>1, <3>2 DEF Request
  <2>4. CASE a.todo # <<"finalise">>
    BY <1>1, <1>4, <2>1, <2>2, <2>4
  <2> QED BY <2>3, <2>4
<1> QED BY <1>3, <1>4

\* What the others note of a new licence.
LEMMA FreshNotes ==
  ASSUME TenInv, NEW q, NEW t \in Ids, NEW r \in Requests, r # q
  PROVE  /\ Fresh(q, t)[r] \in Request \cup {TenIdle}
         /\ tenReq[r] = TenIdle => Fresh(q, t)[r] = TenIdle
         /\ tenReq[r] # TenIdle =>
              /\ Fresh(q, t)[r].t = tenReq[r].t /\ Fresh(q, t)[r].family = tenReq[r].family
              /\ Fresh(q, t)[r].todo = tenReq[r].todo /\ Fresh(q, t)[r].reborn = tenReq[r].reborn
              /\ tenReq[r].fresh \subseteq Fresh(q, t)[r].fresh
              /\ tenReq[r].todo = <<"purge">> /\ t \in tenReq[r].family => t \in Fresh(q, t)[r].fresh
<1>1. PICK a : a = tenReq[r]
  OBVIOUS
<1>2. a \in Request \cup {TenIdle}
  BY <1>1, TenantFacts
<1>3. CASE a = TenIdle
  BY <1>1, <1>3 DEF Fresh, Others
<1>4. CASE a # TenIdle
  <2>1. a \in Request /\ a.fresh \subseteq Ids
    BY <1>2, <1>4 DEF Request
  <2>2. Fresh(q, t)[r] = IF a.todo = <<"purge">> THEN [a EXCEPT !.fresh = a.fresh \cup ({t} \cap a.family)] ELSE a
    BY <1>1, <1>4 DEF Fresh, Others
  <2>3. CASE a.todo = <<"purge">>
    <3>1. Fresh(q, t)[r] = [a EXCEPT !.fresh = a.fresh \cup ({t} \cap a.family)]
      BY <2>2, <2>3
    <3>2. a.fresh \cup ({t} \cap a.family) \in SUBSET Ids
      BY <2>1
    <3> QED BY <1>1, <1>4, <2>1, <3>1, <3>2 DEF Request
  <2>4. CASE a.todo # <<"purge">>
    BY <1>1, <1>4, <2>1, <2>2, <2>4
  <2> QED BY <2>3, <2>4
<1> QED BY <1>3, <1>4

LEMMA TenantInserts ==
  ASSUME TenInv, NEW q \in Requests, tenReq[q] # TenIdle, InsertTenant(q)
  PROVE  TenInv'
<1>1. PICK parent \in Ids \cup {None} : Insert(q, parent) /\ Now(q) \in {"tenant", "sub-tenant"}
  BY RequestFields DEF InsertTenant
<1>2. CASE Fail(q)
  BY <1>2, TenantIdles
<1>3. CASE ~Fail(q)
  <2> DEFINE t == Of(q)
  <2>1. /\ t \notin Tenants /\ parent \in Tenants \cup {None} /\ t \in Ids
        /\ tenant' = [tenant EXCEPT ![t] = [parent |-> parent, complete |-> parent # None]]
        /\ UNCHANGED <<steps, grant, former>>
    BY <1>1, <1>3, RequestFields DEF Insert, Of
  <2>2. PICK own : own = IF parent = None THEN t ELSE parent
    OBVIOUS
  <2>3. PICK b : /\ b = IF Rest(q) = TenIdle THEN TenIdle ELSE [[Rest(q) EXCEPT !.family = {}] EXCEPT !.t = own]
                 /\ tenReq' = [Reborn(q, t) EXCEPT ![q] = b]
    BY <1>1, <1>3, <2>2 DEF Insert
  <2>4. b = TenIdle \/ (b \in Request /\ Shaped(b.todo) /\ Head(b.todo) \notin {"finalise", "purge"})
    <3>1. CASE Rest(q) = TenIdle
      BY <2>3, <3>1
    <3>2. CASE Rest(q) # TenIdle
      <4>1. PICK a : a = Rest(q)
        OBVIOUS
      <4>2. a \in Request /\ Shaped(a.todo) /\ Head(a.todo) \notin {"finalise", "purge"}
        BY <1>1, <3>2, <4>1, RestFits
      <4>3. PICK d : d = [a EXCEPT !.family = {}]
        OBVIOUS
      <4>4. d \in Request /\ d.todo = a.todo
        BY <4>2, <4>3 DEF Request
      <4>5. b = [d EXCEPT !.t = own] /\ own \in Ids
        BY <1>1, <2>1, <2>2, <2>3, <3>2, <4>1, <4>3
      <4>6. b \in Request /\ b.todo = a.todo
        BY <4>4, <4>5 DEF Request
      <4> QED BY <4>2, <4>6
    <3> QED BY <3>1, <3>2
  <2>5. /\ tenReq'[q] = b
        /\ \A r \in Requests : r # q => tenReq'[r] = Reborn(q, t)[r]
        /\ DOMAIN tenReq' = Requests /\ tenReq' = [r \in Requests |-> tenReq'[r]]
    BY <2>3 DEF Reborn, Others
  <2>6. ASSUME NEW r \in Requests PROVE tenReq'[r] \in Request \cup {TenIdle}
    <3>1. CASE r = q
      BY <2>4, <2>5, <3>1
    <3>2. CASE r # q
      BY <2>1, <2>5, <3>2, RebornNotes
    <3> QED BY <3>1, <3>2
  <2>7. tenReq' \in [Requests -> Request \cup {TenIdle}]
    BY <2>5, <2>6
  <2>8. tenant' \in [Ids -> Tenant \cup {NoTenant}] /\ Tenants' \subseteq Tenants \cup {t}
    <3>1. [parent |-> parent, complete |-> parent # None] \in Tenant
      BY <1>1 DEF Tenant
    <3> QED BY <2>1, <3>1, TenantFacts DEF Tenants
  <2>9. ASSUME NEW r \in Requests PROVE StatementFits(r)'
    <3>1. CASE r = q
      BY <2>4, <2>5, <3>1 DEF StatementFits, Now
    <3>2. CASE r # q
      <4> DEFINE n == Reborn(q, t)[r]
      <4>1. tenReq'[r] = n
        BY <2>5, <3>2
      <4>2. CASE tenReq[r] = TenIdle
        BY <2>1, <3>2, <4>1, <4>2, RebornNotes DEF StatementFits
      <4>3. CASE tenReq[r] # TenIdle
        <5>1. /\ n.t = tenReq[r].t /\ n.family = tenReq[r].family
              /\ n.todo = tenReq[r].todo /\ n.fresh = tenReq[r].fresh
              /\ tenReq[r].reborn => n.reborn
              /\ tenReq[r].todo = <<"finalise">> /\ tenReq[r].t = t => n.reborn
          BY <2>1, <3>2, <4>3, RebornNotes
        <5>2. Of(r) = tenReq[r].t
          BY DEF Of
        <5>3. tenReq[r].todo = <<"finalise">> /\ Of(r) \in Tenants' => Of(r) \in Tenants \/ tenReq'[r].reborn
          BY <2>8, <4>1, <5>1, <5>2
        <5>4. steps' = steps /\ grant' = grant
          BY <2>1
        <5> HIDE DEF n
        <5> QED BY <4>1, <4>3, <5>1, <5>3, <5>4, StillFits
      <4> QED BY <4>2, <4>3
    <3> QED BY <3>1, <3>2
  <2>10. steps' \in [Ids -> SUBSET Required] /\ grant' \in [Ids -> Grants] /\ former' \subseteq CuidIds
    BY <2>1, TenantFacts
  <2> QED BY <2>7, <2>8, <2>9, <2>10, TenantTyped
<1> QED BY <1>2, <1>3

\* A licence is granted, by the request q or by nobody of these (None).
LEMMA TenantGranted ==
  ASSUME TenInv, NEW q \in Requests \cup {None}, NEW t \in Ids, NEW b \in Request \cup {TenIdle},
         b # TenIdle => Shaped(b.todo) /\ Head(b.todo) \notin {"finalise", "purge"},
         tenReq' = [Fresh(q, t) EXCEPT ![q] = b],
         grant' = [grant EXCEPT ![t] = "held"], UNCHANGED <<tenant, steps, former>>
  PROVE  TenInv'
<1>1. /\ q \in Requests => tenReq'[q] = b
      /\ \A r \in Requests : r # q => tenReq'[r] = Fresh(q, t)[r]
      /\ DOMAIN tenReq' = Requests /\ tenReq' = [r \in Requests |-> tenReq'[r]]
  BY DEF Fresh, Others
<1>2. ASSUME NEW r \in Requests PROVE tenReq'[r] \in Request \cup {TenIdle}
  <2>1. CASE r = q
    BY <1>1, <2>1
  <2>2. CASE r # q
    BY <1>1, <2>2, FreshNotes
  <2> QED BY <2>1, <2>2
<1>3. tenReq' \in [Requests -> Request \cup {TenIdle}]
  BY <1>1, <1>2
<1>4. ASSUME NEW r \in Requests PROVE StatementFits(r)'
  <2>1. CASE r = q
    BY <1>1, <2>1 DEF StatementFits, Now
  <2>2. CASE r # q
    <3> DEFINE n == Fresh(q, t)[r]
    <3>1. tenReq'[r] = n
      BY <1>1, <2>2
    <3>2. CASE tenReq[r] = TenIdle
      BY <2>2, <3>1, <3>2, FreshNotes DEF StatementFits
    <3>3. CASE tenReq[r] # TenIdle
      <4>1. /\ n.t = tenReq[r].t /\ n.family = tenReq[r].family
            /\ n.todo = tenReq[r].todo /\ n.reborn = tenReq[r].reborn
            /\ tenReq[r].fresh \subseteq n.fresh
            /\ tenReq[r].todo = <<"purge">> /\ t \in tenReq[r].family => t \in n.fresh
        BY <2>2, <3>3, FreshNotes
      <4>2. Tenants' = Tenants /\ steps' = steps
        BY DEF Tenants
      <4>3. \A f \in Ids : grant[f] = "none" => grant'[f] = "none" \/ f = t
        BY TenantFacts
      <4>4. tenReq[r].family \subseteq Ids
        BY <3>3, RequestFields
      <4> HIDE DEF n
      <4>5. tenReq[r].todo = <<"purge">> =>
              \A f \in tenReq[r].family : grant[f] = "none" => grant'[f] = "none" \/ f \in tenReq'[r].fresh
        BY <3>1, <4>1, <4>3, <4>4
      <4> QED BY <3>1, <3>3, <4>1, <4>2, <4>5, StillFits
    <3> QED BY <3>2, <3>3
  <2> QED BY <2>1, <2>2
<1>5. /\ tenant' \in [Ids -> Tenant \cup {NoTenant}] /\ steps' \in [Ids -> SUBSET Required]
      /\ former' \subseteq CuidIds
  BY TenantFacts
<1>6. grant' \in [Ids -> Grants]
  BY TenantFacts DEF Grants
<1> QED BY <1>3, <1>4, <1>5, <1>6, TenantTyped

LEMMA TenantGrants ==
  ASSUME TenInv, NEW q \in Requests, tenReq[q] # TenIdle, GrantLicence(q)
  PROVE  TenInv'
<1>1. CASE Of(q) \notin Tenants
  BY <1>1, TenantIdles DEF GrantLicence
<1>2. CASE Of(q) \in Tenants
  <2>1. PICK b : b = Rest(q)
    OBVIOUS
  <2>2. PICK t : t = Of(q)
    OBVIOUS
  <2>3. /\ grant' = [grant EXCEPT ![t] = "held"] /\ tenReq' = [Fresh(q, t) EXCEPT ![q] = b]
        /\ UNCHANGED <<tenant, steps, former>> /\ Now(q) = "grant"
    BY <1>2, <2>1, <2>2 DEF GrantLicence
  <2>4. b \in Request \cup {TenIdle}
    BY <2>1, RestFits
  <2>5. b # TenIdle => Shaped(b.todo) /\ Head(b.todo) \notin {"finalise", "purge"}
    BY <2>1, <2>3, RestFits
  <2>6. t \in Ids
    BY <2>2, RequestFields DEF Of
  <2> QED BY <2>3, <2>4, <2>5, <2>6, TenantGranted
<1> QED BY <1>1, <1>2

LEMMA LicenceShifts ==
  ASSUME TenInv, NEW t \in Ids, LicenceChanges(t)
  PROVE  TenInv'
<1>1. UNCHANGED <<tenant, steps, former>>
  BY DEF LicenceChanges
<1>2. CASE grant' = [grant EXCEPT ![t] = "held"] /\ tenReq' = Fresh(None, t)
  <2>1. tenReq' = [Fresh(None, t) EXCEPT ![None] = TenIdle]
    BY <1>2, NoneAssumption DEF Fresh, Others
  <2>2. TenIdle \in Request \cup {TenIdle} /\ None \in Requests \cup {None}
    OBVIOUS
  <2>3. TenIdle # TenIdle => Shaped(TenIdle.todo) /\ Head(TenIdle.todo) \notin {"finalise", "purge"}
    OBVIOUS
  <2> QED BY <1>1, <1>2, <2>1, <2>2, <2>3, TenantGranted
<1>3. CASE grant' = [grant EXCEPT ![t] = "none"] /\ UNCHANGED tenReq
  <2>1. grant' \in [Ids -> Grants] /\ \A f \in Ids : grant[f] = "none" => grant'[f] = "none"
    BY <1>3, TenantFacts DEF Grants
  <2>2. Tenants' = Tenants
    BY <1>1 DEF Tenants
  <2>3. ASSUME NEW r \in Requests PROVE StatementFits(r)'
    <3>1. CASE tenReq[r] = TenIdle
      BY <1>3, <3>1 DEF StatementFits
    <3>2. CASE tenReq[r] # TenIdle
      <4>1. tenReq[r].family \subseteq Ids
        BY <3>2, RequestFields
      <4> QED BY <1>1, <1>3, <2>1, <2>2, <3>2, <4>1, StillFits
    <3> QED BY <3>1, <3>2
  <2>4. /\ tenant' \in [Ids -> Tenant \cup {NoTenant}] /\ steps' \in [Ids -> SUBSET Required]
        /\ former' \subseteq CuidIds /\ tenReq' \in [Requests -> Request \cup {TenIdle}]
    BY <1>1, <1>3, TenantFacts
  <2> QED BY <2>1, <2>3, <2>4, TenantTyped
<1> QED BY <1>2, <1>3 DEF LicenceChanges

LEMMA TenantRuns ==
  ASSUME TenInv, NEW q \in Requests, tenReq[q] # TenIdle,
         FindLicence(q) \/ UpsertStep(q) \/ ReadProgress(q) \/ Finalise(q)
  PROVE  TenInv'
<1>1. CASE Fail(q)
  BY <1>1, TenantIdles
<1>2. CASE ~Fail(q)
  <2>1. PICK b : b = Rest(q)
    OBVIOUS
  <2>2. PICK t : t = Of(q)
    OBVIOUS
  <2>3. tenReq' = [tenReq EXCEPT ![q] = b] /\ UNCHANGED grant /\ former' = former /\ t \in Ids
    BY <1>2, <2>1, <2>2, RequestFields DEF FindLicence, UpsertStep, ReadProgress, Finalise, tenData, Of
  <2>4. /\ b \in Request \cup {TenIdle}
        /\ b # TenIdle => /\ Shaped(b.todo) /\ b.t = t /\ Head(b.todo) # "purge"
                          /\ Head(b.todo) = "finalise" => Now(q) = "progress"
    BY <2>1, <2>2, RestFits
  <2>5. /\ tenant' \in [Ids -> Tenant \cup {NoTenant}] /\ Tenants' \subseteq Tenants
        /\ steps' \in [Ids -> SUBSET Required] /\ \A i \in Ids : steps[i] \subseteq steps'[i]
        /\ Now(q) = "progress" => Required \subseteq steps'[t]
    <3>1. CASE UNCHANGED <<tenant, steps>> /\ (FindLicence(q) \/ ReadProgress(q))
      <4>1. Now(q) = "progress" => Required \subseteq steps[t]
        BY <1>2, <2>2, <3>1 DEF FindLicence, ReadProgress
      <4>2. Tenants' = Tenants
        BY <3>1 DEF Tenants
      <4> QED BY <3>1, <4>1, <4>2, TenantFacts
    <3>2. CASE UpsertStep(q)
      <4>1. steps' = [steps EXCEPT ![t] = steps[t] \cup {Now(q)}] /\ tenant' = tenant /\ Now(q) \in Required
        BY <1>2, <2>2, <3>2 DEF UpsertStep
      <4>2. Tenants' = Tenants
        BY <4>1 DEF Tenants
      <4>3. steps' \in [Ids -> SUBSET Required] /\ \A i \in Ids : steps[i] \subseteq steps'[i]
        BY <2>3, <4>1, TenantFacts
      <4>4. Now(q) # "progress"
        BY <4>1 DEF Required
      <4> QED BY <4>1, <4>2, <4>3, <4>4, TenantFacts
    <3>3. CASE Finalise(q)
      <4>1. /\ t \in Tenants /\ tenant' = [tenant EXCEPT ![t] = [tenant[t] EXCEPT !.complete = TRUE]]
            /\ steps' = steps /\ Now(q) = "finalise"
        BY <1>2, <2>2, <3>3 DEF Finalise
      <4>2. PICK a : a = tenant[t]
        OBVIOUS
      <4>3. PICK e : e = [a EXCEPT !.complete = TRUE]
        OBVIOUS
      <4>4. a \in Tenant
        BY <4>1, <4>2, TenantFacts DEF Tenants
      <4>5. e \in Tenant
        BY <4>3, <4>4 DEF Tenant
      <4>6. tenant' = [tenant EXCEPT ![t] = e]
        BY <4>1, <4>2, <4>3
      <4>7. tenant' \in [Ids -> Tenant \cup {NoTenant}] /\ Tenants' \subseteq Tenants
        BY <4>1, <4>5, <4>6, TenantFacts DEF Tenants
      <4> QED BY <4>1, <4>7, TenantFacts
    <3>4. FindLicence(q) \/ ReadProgress(q) => UNCHANGED <<tenant, steps>>
      BY DEF FindLicence, ReadProgress, Fail, tenData
    <3> QED BY <3>1, <3>2, <3>3, <3>4
  <2>6. b # TenIdle => /\ Shaped(b.todo)
                       /\ Head(b.todo) = "finalise" => Required \subseteq steps'[b.t]
                       /\ Head(b.todo) = "purge" => \A f \in b.family : grant[f] = "none"
    BY <2>4, <2>5
  <2>7. b \in Request \cup {TenIdle}
    BY <2>4
  <2> QED BY <2>3, <2>5, <2>6, <2>7, TenantMoves
<1> QED BY <1>1, <1>2

LEMMA TenantPurges ==
  ASSUME TenInv, NEW q \in Requests, tenReq[q] # TenIdle, PurgeTenantData(q)
  PROVE  TenInv'
<1>1. CASE Fail(q)
  BY <1>1, TenantIdles
<1>2. CASE ~Fail(q)
  <2>1. PICK family : family = tenReq[q].family
    OBVIOUS
  <2>2. /\ tenant' = [f \in Ids |-> IF f \in family THEN NoTenant ELSE tenant[f]]
        /\ steps' = [f \in Ids |-> IF f \in family THEN {} ELSE steps[f]]
        /\ grant' = [f \in Ids |-> IF f \in family THEN "none" ELSE grant[f]]
        /\ former' = former \cup (family \cap CuidIds)
        /\ tenReq' = [tenReq EXCEPT ![q] = TenIdle]
    BY <1>2, <2>1 DEF PurgeTenantData
  <2>3. /\ tenant' \in [Ids -> Tenant \cup {NoTenant}] /\ steps' \in [Ids -> SUBSET Required]
        /\ grant' \in [Ids -> Grants] /\ former' \subseteq CuidIds
        /\ tenReq' \in [Requests -> Request \cup {TenIdle}]
    BY <2>2, TenantFacts DEF Grants
  <2>4. Tenants' = Tenants \ family
    BY <2>2 DEF Tenants
  <2>5. ASSUME NEW r \in Requests PROVE StatementFits(r)'
    <3>1. CASE tenReq'[r] = TenIdle
      BY <3>1 DEF StatementFits
    <3>2. CASE tenReq'[r] # TenIdle
      <4>1. tenReq'[r] = tenReq[r] /\ tenReq[r] # TenIdle
        BY <2>2, <3>2, TenantFacts
      <4>2. Of(r) \in Tenants' => Of(r) \in Tenants /\ steps'[Of(r)] = steps[Of(r)]
        BY <2>2, <2>4, TenantFacts
      <4>3. \A f \in Ids : grant[f] = "none" => grant'[f] = "none"
        BY <2>2
      <4>4. tenReq[r].family \subseteq Ids
        BY <4>1, RequestFields
      <4>5. tenReq[r].todo = <<"purge">> =>
              \A f \in tenReq[r].family : grant[f] = "none" => grant'[f] = "none" \/ f \in tenReq'[r].fresh
        BY <4>3, <4>4
      <4>6. tenReq[r].todo = <<"finalise">> /\ Of(r) \in Tenants' => Of(r) \in Tenants \/ tenReq'[r].reborn
        BY <4>2
      <4>7. Of(r) \in Tenants /\ Of(r) \in Tenants' => steps[Of(r)] \subseteq steps'[Of(r)]
        BY <4>2
      <4> QED BY <4>1, <4>5, <4>6, <4>7, StillFits
    <3> QED BY <3>1, <3>2
  <2> QED BY <2>3, <2>5, TenantTyped
<1> QED BY <1>1, <1>2

\* The lists that requests start with.
LEMMA ListShaped ==
  ASSUME NEW todo \in {<<"tenant", "find", "grant", "licence_activation">>,
                       <<"tenant", "find", "grant", "licence_activation", "user_registration">>,
                       <<"sub-tenant">>, <<"sub-tenant", "progress", "finalise">>,
                       <<"user_registration", "progress", "finalise">>,
                       <<"company_registration", "progress", "finalise">>,
                       <<"progress", "finalise">>,
                       <<"find", "grant", "licence_activation", "progress", "finalise">>,
                       <<"purge">>}
  PROVE  todo \in Seq(Statements) /\ Shaped(todo) /\ Head(todo) # "finalise"
         /\ (Head(todo) = "purge" => todo = <<"purge">>)
<1>1. CASE todo = <<"tenant", "find", "grant", "licence_activation">>
  <2>1. todo \in Seq(Statements) /\ Len(todo) = 4 /\ Head(todo) = todo[1]
    BY <1>1 DEF Statements, Required
  <2>2. 1..4 = {1, 2, 3, 4}
    OBVIOUS
  <2> QED BY <1>1, <2>1, <2>2 DEF Shaped
<1>2. CASE todo = <<"tenant", "find", "grant", "licence_activation", "user_registration">>
  <2>1. todo \in Seq(Statements) /\ Len(todo) = 5 /\ Head(todo) = todo[1]
    BY <1>2 DEF Statements, Required
  <2>2. 1..5 = {1, 2, 3, 4, 5}
    OBVIOUS
  <2> QED BY <1>2, <2>1, <2>2 DEF Shaped
<1>3. CASE todo = <<"sub-tenant">>
  <2>1. todo \in Seq(Statements) /\ Len(todo) = 1 /\ Head(todo) = todo[1]
    BY <1>3 DEF Statements, Required
  <2>2. 1..1 = {1}
    OBVIOUS
  <2> QED BY <1>3, <2>1, <2>2 DEF Shaped
<1>4. CASE todo = <<"sub-tenant", "progress", "finalise">>
  <2>1. todo \in Seq(Statements) /\ Len(todo) = 3 /\ Head(todo) = todo[1]
    BY <1>4 DEF Statements, Required
  <2>2. 1..3 = {1, 2, 3}
    OBVIOUS
  <2> QED BY <1>4, <2>1, <2>2 DEF Shaped
<1>5. CASE todo = <<"user_registration", "progress", "finalise">>
  <2>1. todo \in Seq(Statements) /\ Len(todo) = 3 /\ Head(todo) = todo[1]
    BY <1>5 DEF Statements, Required
  <2>2. 1..3 = {1, 2, 3}
    OBVIOUS
  <2> QED BY <1>5, <2>1, <2>2 DEF Shaped
<1>6. CASE todo = <<"company_registration", "progress", "finalise">>
  <2>1. todo \in Seq(Statements) /\ Len(todo) = 3 /\ Head(todo) = todo[1]
    BY <1>6 DEF Statements, Required
  <2>2. 1..3 = {1, 2, 3}
    OBVIOUS
  <2> QED BY <1>6, <2>1, <2>2 DEF Shaped
<1>7. CASE todo = <<"progress", "finalise">>
  <2>1. todo \in Seq(Statements) /\ Len(todo) = 2 /\ Head(todo) = todo[1]
    BY <1>7 DEF Statements, Required
  <2>2. 1..2 = {1, 2}
    OBVIOUS
  <2> QED BY <1>7, <2>1, <2>2 DEF Shaped
<1>8. CASE todo = <<"find", "grant", "licence_activation", "progress", "finalise">>
  <2>1. todo \in Seq(Statements) /\ Len(todo) = 5 /\ Head(todo) = todo[1]
    BY <1>8 DEF Statements, Required
  <2>2. 1..5 = {1, 2, 3, 4, 5}
    OBVIOUS
  <2> QED BY <1>8, <2>1, <2>2 DEF Shaped
<1>9. CASE todo = <<"purge">>
  <2>1. todo \in Seq(Statements) /\ Len(todo) = 1 /\ Head(todo) = todo[1]
    BY <1>9 DEF Statements, Required
  <2>2. 1..1 = {1}
    OBVIOUS
  <2> QED BY <1>9, <2>1, <2>2 DEF Shaped
<1> QED BY <1>1, <1>2, <1>3, <1>4, <1>5, <1>6, <1>7, <1>8, <1>9

LEMMA TenantArrives ==
  ASSUME TenInv, NEW q \in Requests, Arrive(q)
  PROVE  TenInv'
<1>1. PICK t \in Ids :
        \/ RegisterNewTenant(q, t) \/ AdminCreateTenant(q, t)
        \/ \E p \in Ids : CreateSubTenant(q, t, p) \/ AdminCreateSubTenant(q, t, p)
        \/ CompleteUserRegistration(q, t) \/ RegisterCompany(q, t) \/ RegisterClient(q, t)
        \/ ActivateOnboardingLicence(q, t) \/ GetOnboardingProgress(q, t) \/ CompleteOnboarding(q, t)
        \/ DeleteTenant(q, t)
  BY DEF Arrive
<1>2. ASSUME NEW family \in SUBSET Ids, NEW todo, Begin(q, t, family, todo),
             todo \in {<<"tenant", "find", "grant", "licence_activation">>,
                       <<"tenant", "find", "grant", "licence_activation", "user_registration">>,
                       <<"sub-tenant">>, <<"sub-tenant", "progress", "finalise">>,
                       <<"user_registration", "progress", "finalise">>,
                       <<"company_registration", "progress", "finalise">>,
                       <<"progress", "finalise">>,
                       <<"find", "grant", "licence_activation", "progress", "finalise">>,
                       <<"purge">>},
             Head(todo) = "purge" => \A f \in family : grant[f] = "none"
      PROVE  TenInv'
  <2>1. todo \in Seq(Statements) /\ Shaped(todo) /\ Head(todo) # "finalise"
    BY <1>2, ListShaped
  <2> QED BY <1>2, <2>1, TenantBegins
<1>3. {} \in SUBSET Ids
  OBVIOUS
<1>4. CASE RegisterNewTenant(q, t) \/ AdminCreateTenant(q, t)
  <2>1. PICK todo \in {<<"tenant", "find", "grant", "licence_activation">>,
                       <<"tenant", "find", "grant", "licence_activation", "user_registration">>} :
          Begin(q, t, {}, todo)
    BY <1>4 DEF RegisterNewTenant, AdminCreateTenant
  <2> QED BY <1>2, <1>3, <2>1
<1>5. ASSUME NEW p \in Ids, CreateSubTenant(q, t, p) \/ AdminCreateSubTenant(q, t, p)
      PROVE  TenInv'
  <2>1. PICK todo \in {<<"sub-tenant">>, <<"sub-tenant", "progress", "finalise">>} : Begin(q, t, {p}, todo)
    BY <1>5 DEF CreateSubTenant, AdminCreateSubTenant
  <2>2. Head(todo) # "purge" /\ {p} \in SUBSET Ids
    BY <2>1
  <2> QED BY <1>2, <2>1, <2>2
<1>6. CASE \/ CompleteUserRegistration(q, t) \/ RegisterCompany(q, t) \/ RegisterClient(q, t)
           \/ ActivateOnboardingLicence(q, t) \/ GetOnboardingProgress(q, t) \/ CompleteOnboarding(q, t)
  <2>1. PICK todo \in {<<"user_registration", "progress", "finalise">>,
                       <<"company_registration", "progress", "finalise">>,
                       <<"progress", "finalise">>,
                       <<"find", "grant", "licence_activation", "progress", "finalise">>} :
          Begin(q, t, {}, todo)
    BY <1>6 DEF CompleteUserRegistration, RegisterCompany, RegisterClient,
                ActivateOnboardingLicence, GetOnboardingProgress, CompleteOnboarding
  <2> QED BY <1>2, <1>3, <2>1
<1>7. CASE DeleteTenant(q, t)
  <2>1. PICK family : family = {t} \cup Children(t)
    OBVIOUS
  <2>2. Begin(q, t, family, <<"purge">>) /\ \A f \in family : grant[f] = "none"
    BY <1>7, <2>1 DEF DeleteTenant
  <2>3. family \in SUBSET Ids
    BY <2>1 DEF Children, Tenants
  <2> QED BY <1>2, <2>2, <2>3
<1> QED BY <1>1, <1>4, <1>5, <1>6, <1>7

LEMMA TenantStep == TenInv /\ [TenNext]_tenVars => TenInv'
<1> SUFFICES ASSUME TenInv, [TenNext]_tenVars PROVE TenInv'
  OBVIOUS
<1>1. CASE UNCHANGED tenVars
  <2>1. UNCHANGED <<tenant, steps, grant, tenReq, former>>
    BY <1>1 DEF tenVars
  <2>2. Tenants' = Tenants
    BY <2>1 DEF Tenants
  <2>3. ASSUME NEW r \in Requests PROVE StatementFits(r)'
    <3>1. Now(r)' = Now(r) /\ Of(r)' = Of(r) /\ StatementFits(r)
      BY <2>1, TenantFacts DEF Now, Of
    <3> QED BY <2>1, <2>2, <3>1 DEF StatementFits
  <2> QED BY <2>1, <2>3, TenantFacts, TenantTyped
<1>2. ASSUME NEW q \in Requests, RunStatement(q) PROVE TenInv'
  BY <1>2, TenantIdles, TenantInserts, TenantGrants, TenantRuns, TenantPurges DEF RunStatement
<1> QED BY <1>1, <1>2, TenantArrives, LicenceShifts DEF TenNext

\* A step that completes a tenant is the end of an onboarding.
LEMMA CompletesWholeOnly == TenInv /\ [TenNext]_tenVars => CompletesWhole
<1> SUFFICES ASSUME TenInv, [TenNext]_tenVars, NEW t \in Tenants, tenant'[t] # NoTenant,
                    tenant'[t].complete, ~tenant[t].complete
             PROVE  \/ Required \subseteq steps[t]
                    \/ \E q \in Requests : tenReq[q] # tenReq'[q] /\ Of(q) = t /\ tenReq[q].reborn
  BY DEF CompletesWhole
<1>1. t \in Ids /\ tenant'[t] # tenant[t]
  BY DEF Tenants
<1>2. PICK q \in Requests : RunStatement(q)
  <2>1. ASSUME NEW q \in Requests, Arrive(q) PROVE tenant' = tenant
    BY <2>1 DEF Arrive, RegisterNewTenant, AdminCreateTenant, CreateSubTenant, AdminCreateSubTenant,
                CompleteUserRegistration, RegisterCompany, RegisterClient, ActivateOnboardingLicence,
                GetOnboardingProgress, CompleteOnboarding, DeleteTenant, Begin, tenData
  <2>2. ASSUME NEW i \in Ids, LicenceChanges(i) PROVE tenant' = tenant
    BY <2>2 DEF LicenceChanges
  <2>3. UNCHANGED tenVars => tenant' = tenant
    BY DEF tenVars
  <2> QED BY <1>1, <2>1, <2>2, <2>3 DEF TenNext
<1>3. tenReq[q] # TenIdle /\ ~Fail(q) /\ ~FindLicence(q) /\ ~GrantLicence(q) /\ ~UpsertStep(q) /\ ~ReadProgress(q)
  BY <1>1, <1>2 DEF RunStatement, Fail, FindLicence, GrantLicence, UpsertStep, ReadProgress, tenData
<1>4. CASE InsertTenant(q)
  <2>1. PICK parent : Insert(q, parent)
    BY <1>4 DEF InsertTenant
  <2>2. Of(q) \notin Tenants /\ tenant' = [tenant EXCEPT ![Of(q)] = [parent |-> parent, complete |-> parent # None]]
    BY <1>3, <2>1 DEF Insert
  <2> QED BY <1>1, <2>2, TenantFacts
<1>5. CASE Finalise(q)
  <2>1. /\ tenant' = [tenant EXCEPT ![Of(q)] = [tenant[Of(q)] EXCEPT !.complete = TRUE]]
        /\ tenReq' = [tenReq EXCEPT ![q] = Rest(q)] /\ Now(q) = "finalise" /\ Of(q) \in Tenants
    BY <1>3, <1>5 DEF Finalise
  <2>2. Of(q) = t
    BY <1>1, <2>1, TenantFacts
  <2>3. Len(tenReq[q].todo) = 1
    BY <1>3, <2>1, RequestFields, LastStatement DEF Now
  <2>4. tenReq'[q] = TenIdle
    BY <2>1, <2>3, TenantFacts DEF Rest
  <2>5. Required \subseteq steps[t] \/ tenReq[q].reborn
    BY <1>3, <2>1, <2>2, TenantFacts DEF StatementFits
  <2> QED BY <1>3, <2>2, <2>4, <2>5
<1>6. CASE PurgeTenantData(q)
  <2>1. tenant' = [f \in Ids |-> IF f \in tenReq[q].family THEN NoTenant ELSE tenant[f]]
    BY <1>3, <1>6 DEF PurgeTenantData
  <2> QED BY <1>1, <2>1
<1> QED BY <1>2, <1>3, <1>4, <1>5, <1>6 DEF RunStatement

\* A step that takes a tenant away is the purge of a family.
LEMMA PurgesRevokedOnly == TenInv /\ [TenNext]_tenVars => PurgesRevoked
<1> SUFFICES ASSUME TenInv, [TenNext]_tenVars, NEW t \in Tenants, tenant'[t] = NoTenant, grant[t] # "none"
             PROVE  \E q \in Requests : tenReq[q] # tenReq'[q] /\ t \in tenReq[q].fresh
  BY DEF PurgesRevoked
<1>1. t \in Ids /\ tenant'[t] # tenant[t] /\ tenant[t] \in Tenant
  BY TenantFacts DEF Tenants
<1>2. PICK q \in Requests : RunStatement(q)
  <2>1. ASSUME NEW q \in Requests, Arrive(q) PROVE tenant' = tenant
    BY <2>1 DEF Arrive, RegisterNewTenant, AdminCreateTenant, CreateSubTenant, AdminCreateSubTenant,
                CompleteUserRegistration, RegisterCompany, RegisterClient, ActivateOnboardingLicence,
                GetOnboardingProgress, CompleteOnboarding, DeleteTenant, Begin, tenData
  <2>2. ASSUME NEW i \in Ids, LicenceChanges(i) PROVE tenant' = tenant
    BY <2>2 DEF LicenceChanges
  <2>3. UNCHANGED tenVars => tenant' = tenant
    BY DEF tenVars
  <2> QED BY <1>1, <2>1, <2>2, <2>3 DEF TenNext
<1>3. tenReq[q] # TenIdle /\ ~Fail(q) /\ ~FindLicence(q) /\ ~GrantLicence(q) /\ ~UpsertStep(q) /\ ~ReadProgress(q)
  BY <1>1, <1>2 DEF RunStatement, Fail, FindLicence, GrantLicence, UpsertStep, ReadProgress, tenData
<1>4. CASE InsertTenant(q)
  <2>1. PICK parent : Insert(q, parent)
    BY <1>4 DEF InsertTenant
  <2>2. Of(q) \notin Tenants /\ tenant' = [tenant EXCEPT ![Of(q)] = [parent |-> parent, complete |-> parent # None]]
    BY <1>3, <2>1 DEF Insert
  <2> QED BY <1>1, <2>2, TenantFacts
<1>5. CASE Finalise(q)
  <2>1. PICK a : a = tenant[Of(q)]
    OBVIOUS
  <2>2. tenant' = [tenant EXCEPT ![Of(q)] = [a EXCEPT !.complete = TRUE]] /\ Of(q) \in Tenants
    BY <1>3, <1>5, <2>1 DEF Finalise
  <2>3. a \in Tenant
    BY <2>1, <2>2, TenantFacts DEF Tenants
  <2>4. [a EXCEPT !.complete = TRUE] # NoTenant
    BY <2>3 DEF Tenant, NoTenant
  <2> QED BY <1>1, <2>2, <2>4, TenantFacts
<1>6. CASE PurgeTenantData(q)
  <2>1. /\ tenant' = [f \in Ids |-> IF f \in tenReq[q].family THEN NoTenant ELSE tenant[f]]
        /\ tenReq' = [tenReq EXCEPT ![q] = TenIdle] /\ Now(q) = "purge"
    BY <1>3, <1>6 DEF PurgeTenantData
  <2>2. t \in tenReq[q].family
    BY <1>1, <2>1
  <2>3. tenReq'[q] = TenIdle
    BY <2>1, TenantFacts
  <2>4. t \in tenReq[q].fresh
    BY <1>3, <2>1, <2>2, TenantFacts DEF StatementFits
  <2> QED BY <1>3, <2>3, <2>4
<1> QED BY <1>2, <1>3, <1>4, <1>5, <1>6 DEF RunStatement

-----------------------------------------------------------------------------
(* The figures of the reports.                                              *)

\* What a figure of a report means: the rows it should count.
Means(name, row) ==
  \/ name \in Conditions \cup {"other"} /\ row \in In(name)
  \/ name \in {"disposals", "transfers", "events", "clients"} /\ row \in PlainRow
  \/ name = "assets" /\ row \in LiveAssets
  \/ name = "depreciating" /\ row \in With("depreciation")
  \/ name = "dated" /\ row \in With("purchase")
  \/ name = "tagged" /\ row \in With("barcode")
  \/ name = "categorised" /\ row \in With("category")
  \/ name = "located" /\ row \in With("site")
  \/ name = "warranties" /\ row \in {a \in LiveAssets : a.warranty # "none"}
  \/ name = "warrantyEnding" /\ row \in {a \in LiveAssets : a.warranty = "soon"}
  \/ name = "outOfWarranty" /\ row \in OutOfWarranty
  \/ name = "worn" /\ row \in {a \in LiveAssets : a.condition \in {"poor", "damaged"}}
  \/ name = "undocumented" /\ row \in InUse \ With("documents")
  \/ name = "unlocated" /\ row \in InUse \ With("site")
  \/ name = "checkouts" /\ row \in CheckoutRow
  \/ name = "open" /\ row \in OpenLoans
  \/ name = "returned" /\ row \in CheckoutRow \ OpenLoans
  \/ name = "overdueLoans" /\ row \in OverdueLoans
  \/ name = "out" /\ row \in OpenLoans \ OverdueLoans
  \/ name = "maintenance" /\ row \in MaintenanceRow
  \/ name = "costs" /\ row \in MaintenanceRow
  \/ name = "planned" /\ row \in PlannedWork
  \/ name = "overdueWork" /\ row \in OverdueWork
  \/ name = "upcoming" /\ row \in {m \in PlannedWork : m.due \in {"today", "soon", "later"}}
  \/ name = "items" /\ row \in ItemRow
  \/ name = "scans" /\ row \in ScanRow
  \/ name = "missing" /\ row \in Classed("missing")
  \/ name = "unknown" /\ row \in Scanned("unknown")
  \/ name = "campaigns" /\ row \in CampaignRow
  \/ name = "completedCampaigns" /\ row \in {c \in CampaignRow : c.status = "completed"}
  \/ name = "licences" /\ row \in LicenceRow
  \/ name = "activeLicences" /\ row \in LicencesIn({"active"})
  \/ name = "expiredLicences" /\ row \in LicencesIn({"expired"})
  \/ name = "expiringLicences" /\ row \in {l \in LicencesIn({"active", "expiring",
       "expired"}) : l.due \in {"today", "soon"}}
  \/ name = "endingLicences" /\ row \in LicencesIn({"expiring", "expired"})
  \/ name = "devices" /\ row \in DeviceRow
  \/ name = "devicesUsed" /\ row \in ActiveDevices
  \/ name = "users" /\ row \in UsersRow
  \/ name = "activeUsers" /\ row \in ActiveUsers
  \/ name = "overridden" /\ row \in {u \in UsersRow : u.overridden}
  \/ name = "subscriptions" /\ row \in DeviceRow
  \/ name = "activeSubscriptions" /\ row \in ActiveDevices
FiguresRight(queries) ==
  \A q \in queries : \A f \in q.figures : \A row : row \notin Differing(f.name) =>
    (row \in f.counted <=> Means(f.name, row))

LEMMA RightExportFixedAssetRegister == FiguresRight(exportFixedAssetRegister)
BY DEF FiguresRight, exportFixedAssetRegister, Figure, Counts, Breakdown, Means, Conditions,
     Differing

LEMMA RightExportDepreciationSchedule == FiguresRight(exportDepreciationSchedule)
BY DEF FiguresRight, exportDepreciationSchedule, Figure, Counts, Breakdown, Means, Conditions,
     Differing

LEMMA RightExportAssetAging == FiguresRight(exportAssetAging)
BY DEF FiguresRight, exportAssetAging, Figure, Counts, Breakdown, Means, Conditions, Differing

LEMMA RightExportAssetValuationSummary == FiguresRight(exportAssetValuationSummary)
BY DEF FiguresRight, exportAssetValuationSummary, Figure, Counts, Breakdown, Means, Conditions,
     Differing

LEMMA RightExportAssetMovementHistory == FiguresRight(exportAssetMovementHistory)
BY DEF FiguresRight, exportAssetMovementHistory, Figure, Counts, Breakdown, Means, Conditions,
     Differing

LEMMA RightExportAssetCondition == FiguresRight(exportAssetCondition)
BY DEF FiguresRight, exportAssetCondition, Figure, Counts, Breakdown, Means, Conditions, Differing

LEMMA RightExportCustomFields == FiguresRight(exportCustomFields)
BY DEF FiguresRight, exportCustomFields, Figure, Counts, Breakdown, Means, Conditions, Differing

LEMMA RightExportDisposalRegister == FiguresRight(exportDisposalRegister)
BY DEF FiguresRight, exportDisposalRegister, Figure, Counts, Breakdown, Means, Conditions, Differing

LEMMA RightExportDisposalGainLoss == FiguresRight(exportDisposalGainLoss)
BY DEF FiguresRight, exportDisposalGainLoss, Figure, Counts, Breakdown, Means, Conditions, Differing

LEMMA RightExportDisposalByMethod == FiguresRight(exportDisposalByMethod)
BY DEF FiguresRight, exportDisposalByMethod, Figure, Counts, Breakdown, Means, Conditions, Differing

LEMMA RightExportAuditCampaignSummary == FiguresRight(exportAuditCampaignSummary)
BY DEF FiguresRight, exportAuditCampaignSummary, Figure, Counts, Breakdown, Means, Conditions,
     Differing, Classed, ItemRow, Classifications

LEMMA RightExportAuditReconciliation == FiguresRight(exportAuditReconciliation)
<1> SUFFICES ASSUME NEW q \in exportAuditReconciliation, NEW f \in q.figures, NEW row
             PROVE  row \in f.counted <=> Means(f.name, row)
  BY DEF FiguresRight
<1>1. \/ f = Figure("items", ItemRow)
      \/ \E c \in {"matched", "missing", "moved", "unexpected"} : f = Figure(c, Classed(c))
  BY DEF exportAuditReconciliation, Breakdown
<1>2. Classed("matched") = {} /\ Classed("moved") = {} /\ Classed("unexpected") = {}
  BY DEF Classed, ItemRow, Classifications
<1> QED BY <1>1, <1>2 DEF Figure, Means, Conditions

LEMMA RightExportAuditScanLog == FiguresRight(exportAuditScanLog)
<1> SUFFICES ASSUME NEW q \in exportAuditScanLog, NEW f \in q.figures, NEW row
             PROVE  row \in f.counted <=> Means(f.name, row)
  BY DEF FiguresRight
<1>1. \/ f = Figure("scans", ScanRow)
      \/ \E c \in {"matched", "unknown"} : f = Figure(c, Scanned(c))
  BY DEF exportAuditScanLog, Breakdown
<1>2. Scanned("matched") = {}
  BY DEF Scanned, ScanRow
<1> QED BY <1>1, <1>2 DEF Figure, Means, Conditions

LEMMA RightExportMaintenanceLog == FiguresRight(exportMaintenanceLog)
BY DEF FiguresRight, exportMaintenanceLog, Figure, Counts, Breakdown, Means, Conditions, Differing

LEMMA RightExportMaintenanceCostSummary == FiguresRight(exportMaintenanceCostSummary)
BY DEF FiguresRight, exportMaintenanceCostSummary, Figure, Counts, Breakdown, Means, Conditions,
     Differing

LEMMA RightExportMaintenanceSchedule == FiguresRight(exportMaintenanceSchedule)
BY DEF FiguresRight, exportMaintenanceSchedule, Figure, Counts, Breakdown, Means, Conditions,
     Differing, OverdueWork, PlannedWork, Over

LEMMA RightExportCheckoutLog == FiguresRight(exportCheckoutLog)
BY DEF FiguresRight, exportCheckoutLog, Figure, Counts, Breakdown, Means, Conditions, Differing

LEMMA RightExportCurrentCheckouts == FiguresRight(exportCurrentCheckouts)
BY DEF FiguresRight, exportCurrentCheckouts, Figure, Counts, Breakdown, Means, Conditions, Differing

LEMMA RightExportCheckoutHistoryByAsset == FiguresRight(exportCheckoutHistoryByAsset)
BY DEF FiguresRight, exportCheckoutHistoryByAsset, Figure, Counts, Breakdown, Means, Conditions,
     Differing

LEMMA RightExportLicenceRegister == FiguresRight(exportLicenceRegister)
BY DEF FiguresRight, exportLicenceRegister, Figure, Counts, Breakdown, Means, Conditions,
     Differing, ActiveDevices

LEMMA RightExportLicenceExpiry == FiguresRight(exportLicenceExpiry)
BY DEF FiguresRight, exportLicenceExpiry, Figure, Counts, Breakdown, Means, Conditions,
     Differing, LicencesIn, Computed, computeStatus, LicenceRow, Over, Nearness

LEMMA RightExportDeviceAllocation == FiguresRight(exportDeviceAllocation)
BY DEF FiguresRight, exportDeviceAllocation, Figure, Counts, Breakdown, Means, Conditions, Differing

LEMMA RightExportTenantRegister == FiguresRight(exportTenantRegister)
BY DEF FiguresRight, exportTenantRegister, Figure, Counts, Breakdown, Means, Conditions,
     Differing, LiveAssets

LEMMA RightExportTenantActivity == FiguresRight(exportTenantActivity)
BY DEF FiguresRight, exportTenantActivity, Figure, Counts, Breakdown, Means, Conditions,
     Differing, LiveAssets

LEMMA RightExportUserRegister == FiguresRight(exportUserRegister)
BY DEF FiguresRight, exportUserRegister, Figure, Counts, Breakdown, Means, Conditions, Differing

LEMMA RightExportUserAccessReport == FiguresRight(exportUserAccessReport)
BY DEF FiguresRight, exportUserAccessReport, Figure, Counts, Breakdown, Means, Conditions, Differing

LEMMA RightExportUserActivityLog == FiguresRight(exportUserActivityLog)
BY DEF FiguresRight, exportUserActivityLog, Figure, Counts, Breakdown, Means, Conditions, Differing

LEMMA RightExportExceptionSummary == FiguresRight(exportExceptionSummary)
BY DEF FiguresRight, exportExceptionSummary, Figure, Counts, Breakdown, Means, Conditions, Differing

LEMMA RightExportAlertSubscriptions == FiguresRight(exportAlertSubscriptions)
BY DEF FiguresRight, exportAlertSubscriptions, Figure, Counts, Breakdown, Means, Conditions,
     Differing

LEMMA RightExportCompanyProfile == FiguresRight(exportCompanyProfile)
BY DEF FiguresRight, exportCompanyProfile, Figure, Counts, Breakdown, Means, Conditions, Differing

LEMMA RightExportComplianceOverview == FiguresRight(exportComplianceOverview)
BY DEF FiguresRight, exportComplianceOverview, Figure, Counts, Breakdown, Means, Conditions,
     Differing

LEMMA RightCountedExceptions == ASSUME NEW name PROVE FiguresRight(CountedExceptions(name))
BY DEF FiguresRight, CountedExceptions, Figure, Counts, Breakdown, Means, Conditions, Differing,
     InUse, OutOfWarranty, LiveAssets

LEMMA RightMaintenanceCostReport == FiguresRight(maintenanceCostReport)
BY DEF FiguresRight, maintenanceCostReport, Figure, Counts, Breakdown, Means, Conditions, Differing

LEMMA RightDisposalReport == FiguresRight(disposalReport)
BY DEF FiguresRight, disposalReport, Figure, Counts, Breakdown, Means, Conditions, Differing

LEMMA RightGetAssetStats == FiguresRight(getAssetStats)
BY DEF FiguresRight, getAssetStats, Figure, Counts, Breakdown, Means, Conditions, Differing

LEMMA RightListActiveCheckouts == FiguresRight(listActiveCheckouts)
BY DEF FiguresRight, listActiveCheckouts, Figure, Counts, Breakdown, Means, Conditions, Differing

LEMMA RightGetOverdueCheckouts == FiguresRight(getOverdueCheckouts)
BY DEF FiguresRight, getOverdueCheckouts, Figure, Counts, Breakdown, Means, Conditions, Differing

LEMMA RightGetLicenceStatus == FiguresRight(getLicenceStatus)
BY DEF FiguresRight, getLicenceStatus, Figure, Counts, Breakdown, Means, Conditions, Differing

LEMMA RightStorageMetering == FiguresRight(storageMetering)
BY DEF FiguresRight, storageMetering, Figure, Counts, Breakdown, Means, Conditions, Differing

\* Every figure of every report counts what its name means.
LEMMA AllFiguresRight == FiguresRight(Queries)
<1> QED
  BY RightExportFixedAssetRegister, RightExportDepreciationSchedule, RightExportAssetAging,
       RightExportAssetValuationSummary, RightExportAssetMovementHistory,
       RightExportAssetCondition, RightExportCustomFields, RightExportDisposalRegister,
       RightExportDisposalGainLoss, RightExportDisposalByMethod, RightExportAuditCampaignSummary,
       RightExportAuditReconciliation, RightExportAuditScanLog, RightExportMaintenanceLog,
       RightExportMaintenanceCostSummary, RightExportMaintenanceSchedule, RightExportCheckoutLog,
       RightExportCurrentCheckouts, RightExportCheckoutHistoryByAsset,
       RightExportLicenceRegister, RightExportLicenceExpiry, RightExportDeviceAllocation,
       RightExportTenantRegister, RightExportTenantActivity, RightExportUserRegister,
       RightExportUserAccessReport, RightExportUserActivityLog, RightExportExceptionSummary,
       RightExportAlertSubscriptions, RightExportCompanyProfile, RightExportComplianceOverview,
       RightCountedExceptions, RightMaintenanceCostReport, RightDisposalReport,
       RightGetAssetStats, RightListActiveCheckouts, RightGetOverdueCheckouts,
       RightGetLicenceStatus, RightStorageMetering
  DEF FiguresRight, Queries, EXPORTERS, exceptionsRouter, countExceptions

LEMMA FiguresDoAgree == FiguresAgree
BY AllFiguresRight DEF FiguresAgree, FiguresRight

\* Every row of a total that is not left out is in one class of it alone.
Adds(queries) ==
  \A q \in queries : \A row \in q.total \ Unclassed(q.of) :
    \E c \in q.classes :
                      row \in c.counted /\ \A d \in q.classes : row \in d.counted => d = c

LEMMA BreakdownFields ==
  ASSUME NEW name, NEW t, NEW total, NEW figures, NEW classes, NEW q \in {Breakdown(name, t,
       total, figures, classes)}
  PROVE  q.of = name /\ q.total = total.counted /\ q.classes = classes
BY DEF Breakdown

LEMMA FigureFields == ASSUME NEW name, NEW counted
                      PROVE  Figure(name, counted).name = name /\ Figure(name,
                           counted).counted = counted
BY DEF Figure

LEMMA CountsAdd ==
  ASSUME NEW queries, \A q \in queries : q.total = {}
  PROVE  Adds(queries)
BY DEF Adds

LEMMA AddsExportAssetCondition == Adds(exportAssetCondition)
<1> SUFFICES ASSUME NEW q \in exportAssetCondition, NEW row \in q.total \ Unclassed(q.of)
             PROVE  \E c \in q.classes :
                      row \in c.counted /\ \A d \in q.classes : row \in d.counted => d = c
  BY DEF Adds
<1>1. q.of = "asset-condition" /\ q.total = LiveAssets
      /\ q.classes = {Figure(c, In(c)) : c \in Conditions}
  BY BreakdownFields, FigureFields DEF exportAssetCondition
<1>2. row \in LiveAssets /\ row \notin In("other")
  BY <1>1 DEF Unclassed
<1>3. row.condition \in Conditions /\ row \in In(row.condition)
  BY <1>2 DEF In, LiveAssets, AssetsRow
<1>4. \A c : row \in In(c) => c = row.condition
  BY DEF In
<1>5. Figure(row.condition, In(row.condition)) \in q.classes
  BY <1>1, <1>3
<1>6. ASSUME NEW d \in q.classes, row \in d.counted PROVE d = Figure(row.condition,
     In(row.condition))
  <2> PICK c : d = Figure(c, In(c))
    BY <1>1
  <2> QED BY <1>4, <1>6, FigureFields
<1> QED BY <1>3, <1>5, <1>6, FigureFields

LEMMA AddsGetAssetStats == Adds(getAssetStats)
<1> SUFFICES ASSUME NEW q \in getAssetStats, NEW row \in q.total \ Unclassed(q.of)
             PROVE  \E c \in q.classes :
                      row \in c.counted /\ \A d \in q.classes : row \in d.counted => d = c
  BY DEF Adds
<1>1. q.of = "stats" /\ q.total = LiveAssets
      /\ q.classes = {Figure(c, In(c)) : c \in Conditions \cup {"other"}}
  BY BreakdownFields, FigureFields DEF getAssetStats
<1>2. row \in LiveAssets /\ row \notin {}
  BY <1>1 DEF Unclassed
<1>3. row.condition \in Conditions \cup {"other"} /\ row \in In(row.condition)
  BY <1>2 DEF In, LiveAssets, AssetsRow
<1>4. \A c : row \in In(c) => c = row.condition
  BY DEF In
<1>5. Figure(row.condition, In(row.condition)) \in q.classes
  BY <1>1, <1>3
<1>6. ASSUME NEW d \in q.classes, row \in d.counted PROVE d = Figure(row.condition,
     In(row.condition))
  <2> PICK c : d = Figure(c, In(c))
    BY <1>1
  <2> QED BY <1>4, <1>6, FigureFields
<1> QED BY <1>3, <1>5, <1>6, FigureFields

LEMMA AddsExportAuditReconciliation == Adds(exportAuditReconciliation)
<1> SUFFICES ASSUME NEW q \in exportAuditReconciliation, NEW row \in q.total \ Unclassed(q.of)
             PROVE  \E c \in q.classes :
                      row \in c.counted /\ \A d \in q.classes : row \in d.counted => d = c
  BY DEF Adds
<1>1. q.of = "audit-reconciliation" /\ q.total = ItemRow
      /\ q.classes = {Figure(c, Classed(c)) : c \in {"matched", "missing", "moved", "unexpected"}}
  BY BreakdownFields, FigureFields DEF exportAuditReconciliation
<1>2. row \in ItemRow /\ row \notin ItemRow \ Classed("missing")
  BY <1>1 DEF Unclassed
<1>3. row \in Classed("missing") /\ \A c : row \in Classed(c) => c = "missing"
  BY <1>2 DEF Classed
<1>5. Figure("missing", Classed("missing")) \in q.classes
  BY <1>1
<1>6. ASSUME NEW d \in q.classes, row \in d.counted PROVE d = Figure("missing", Classed("missing"))
  <2> PICK c : d = Figure(c, Classed(c))
    BY <1>1
  <2> QED BY <1>3, <1>6, FigureFields
<1> QED BY <1>3, <1>5, <1>6, FigureFields

LEMMA AddsExportAuditScanLog == Adds(exportAuditScanLog)
<1> SUFFICES ASSUME NEW q \in exportAuditScanLog, NEW row \in q.total \ Unclassed(q.of)
             PROVE  \E c \in q.classes :
                      row \in c.counted /\ \A d \in q.classes : row \in d.counted => d = c
  BY DEF Adds
<1>1. q.of = "audit-scan-log" /\ q.total = ScanRow
      /\ q.classes = {Figure(c, Scanned(c)) : c \in {"matched", "unknown"}}
  BY BreakdownFields, FigureFields DEF exportAuditScanLog
<1>2. row \in ScanRow /\ row \notin Scanned("found")
  BY <1>1 DEF Unclassed
<1>3. row \in Scanned("unknown") /\ \A c : row \in Scanned(c) => c = "unknown"
  BY <1>2 DEF Scanned, ScanRow
<1>5. Figure("unknown", Scanned("unknown")) \in q.classes
  BY <1>1
<1>6. ASSUME NEW d \in q.classes, row \in d.counted PROVE d = Figure("unknown", Scanned("unknown"))
  <2> PICK c : d = Figure(c, Scanned(c))
    BY <1>1
  <2> QED BY <1>3, <1>6, FigureFields
<1> QED BY <1>3, <1>5, <1>6, FigureFields

LEMMA AddsExportMaintenanceSchedule == Adds(exportMaintenanceSchedule)
<1> SUFFICES ASSUME NEW q \in exportMaintenanceSchedule, NEW row \in q.total \ Unclassed(q.of)
             PROVE  \E c \in q.classes :
                      row \in c.counted /\ \A d \in q.classes : row \in d.counted => d = c
  BY DEF Adds
<1>1. q.of = "maintenance-schedule" /\ q.total = PlannedWork
      /\ q.classes = {Figure("overdueWork", {m \in PlannedWork : m.due = "past"}),
                      Figure("upcoming", {m \in PlannedWork : m.due \in {"today", "soon",
                           "later"}})}
  BY BreakdownFields, FigureFields DEF exportMaintenanceSchedule
<1>2. row \in PlannedWork /\ row \notin {m \in PlannedWork : m.due = "none"}
  BY <1>1 DEF Unclassed
<1>3. row.due \in {"past", "today", "soon", "later"}
  BY <1>2 DEF PlannedWork, MaintenanceRow, Nearness
<1>4. CASE row.due = "past"
  BY <1>1, <1>2, <1>4 DEF Figure
<1>5. CASE row.due \in {"today", "soon", "later"}
  BY <1>1, <1>2, <1>5 DEF Figure
<1> QED BY <1>3, <1>4, <1>5

LEMMA AddsExportCheckoutLog == Adds(exportCheckoutLog)
<1> SUFFICES ASSUME NEW q \in exportCheckoutLog, NEW row \in q.total \ Unclassed(q.of)
             PROVE  \E c \in q.classes :
                      row \in c.counted /\ \A d \in q.classes : row \in d.counted => d = c
  BY DEF Adds
<1> DEFINE classes == {Figure("returned", CheckoutRow \ OpenLoans), Figure("overdueLoans",
     OverdueLoans),
                       Figure("out", OpenLoans \ OverdueLoans)}
<1>1. q.of = "checkout-log" /\ q.total = CheckoutRow /\ q.classes = classes
  <2>1. q \in {Breakdown("checkout-log", "checkouts", Figure("checkouts", CheckoutRow),
                        {Figure("open", OpenLoans)}, classes)}
    BY DEF exportCheckoutLog
  <2> HIDE DEF classes
  <2> QED BY <2>1, BreakdownFields, FigureFields
<1>2. row \in CheckoutRow /\ row \notin {}
  BY <1>1 DEF Unclassed
<1>3. OverdueLoans \subseteq OpenLoans /\ OpenLoans \subseteq CheckoutRow
  BY DEF OverdueLoans, OpenLoans
<1> QED BY <1>1, <1>2, <1>3 DEF Figure

LEMMA AllAdd == Adds(Queries)
<1>1. Adds(exportFixedAssetRegister \cup exportDepreciationSchedule \cup exportAssetAging \cup
     exportAssetValuationSummary \cup exportAssetMovementHistory \cup exportCustomFields \cup
     exportDisposalRegister \cup exportDisposalGainLoss)
  BY CountsAdd DEF Counts, exportFixedAssetRegister, exportDepreciationSchedule,
       exportAssetAging, exportAssetValuationSummary, exportAssetMovementHistory,
       exportCustomFields, exportDisposalRegister, exportDisposalGainLoss
<1>2. Adds(exportDisposalByMethod \cup exportAuditCampaignSummary \cup exportMaintenanceLog \cup
     exportMaintenanceCostSummary \cup exportCurrentCheckouts \cup exportCheckoutHistoryByAsset \cup
     exportLicenceRegister \cup exportLicenceExpiry)
  BY CountsAdd DEF Counts, exportDisposalByMethod, exportAuditCampaignSummary,
       exportMaintenanceLog, exportMaintenanceCostSummary, exportCurrentCheckouts,
       exportCheckoutHistoryByAsset, exportLicenceRegister, exportLicenceExpiry
<1>3. Adds(exportDeviceAllocation \cup exportTenantRegister \cup exportTenantActivity \cup
     exportUserRegister \cup exportUserAccessReport \cup exportUserActivityLog \cup
     exportExceptionSummary \cup exportAlertSubscriptions)
  BY CountsAdd DEF Counts, exportDeviceAllocation, exportTenantRegister, exportTenantActivity,
       exportUserRegister, exportUserAccessReport, exportUserActivityLog, exportExceptionSummary,
       exportAlertSubscriptions
<1>4. Adds(exportCompanyProfile \cup exportComplianceOverview \cup maintenanceCostReport \cup
     disposalReport \cup listActiveCheckouts \cup getOverdueCheckouts \cup getLicenceStatus \cup
     storageMetering)
  BY CountsAdd DEF Counts, exportCompanyProfile, exportComplianceOverview, maintenanceCostReport,
       disposalReport, listActiveCheckouts, getOverdueCheckouts, getLicenceStatus,
       storageMetering
<1>5. \A name : Adds(CountedExceptions(name))
  BY CountsAdd DEF Counts, CountedExceptions
<1> QED
  BY <1>1, <1>2, <1>3, <1>4, <1>5, AddsExportAssetCondition, AddsGetAssetStats,
       AddsExportAuditReconciliation, AddsExportAuditScanLog, AddsExportMaintenanceSchedule,
       AddsExportCheckoutLog
  DEF Adds, Queries, EXPORTERS, exceptionsRouter, countExceptions

LEMMA SharesDoFit == SharesFit
<1> SUFFICES ASSUME NEW p \in exportComplianceOverview, NEW q \in exportComplianceOverview,
     NEW f \in p.figures, NEW g \in q.figures,
                    <<f.name, g.name>> \in Shares, NEW row, row \in f.counted
             PROVE  row \in g.counted
  BY DEF SharesFit
<1> QED BY DEF Shares, exportComplianceOverview, Counts, Figure, With, OutOfWarranty, LiveAssets,
     Over, OverdueLoans, OverdueWork, OpenLoans

LEMMA FiguresAlwaysHold == FiguresHold
BY FiguresDoAgree, SharesDoFit, AllAdd DEF FiguresHold, TotalsAddUp, Adds

LEMMA RepStart == ASSUME RepInit PROVE RepTypeOK
BY DEF RepInit, RepTypeOK

LEMMA RowsStay ==
  ASSUME RepTypeOK, NEW i \in RowIds, NEW row \in {EmptyRow} \cup RowsOf[table], PutRow(i, row)
  PROVE  RepTypeOK'
BY DEF RepTypeOK, PutRow

LEMMA AddStays ==
  ASSUME RepTypeOK, NEW i \in RowIds, NEW t \in Tables, NEW new \in SUBSET RowsOf[t], AddRow(t,
       i, new)
  PROVE  RepTypeOK'
BY RowsStay DEF AddRow

LEMMA EditStays ==
  ASSUME RepTypeOK, NEW i \in RowIds, NEW t \in Tables, NEW from, NEW to \in SUBSET ({EmptyRow} \cup
       RowsOf[t]),
         EditRow(t, i, from, to)
  PROVE  RepTypeOK'
BY RowsStay DEF EditRow

LEMMA RowsOfTables ==
  /\ Tables = {"assets", "checkouts", "maintenance", "items", "scans", "campaigns", "licences",
               "devices", "users", "subscriptions", "disposals", "transfers", "events", "clients"}
  /\ RowsOf["assets"] = AssetsRow /\ RowsOf["checkouts"] = CheckoutRow

       /\ RowsOf["maintenance"] = MaintenanceRow /\ RowsOf["items"] = ItemRow /\ RowsOf["scans"] = ScanRow
  /\ RowsOf["campaigns"] = CampaignRow /\ RowsOf["licences"] = LicenceRow

       /\ RowsOf["devices"] = DeviceRow /\ RowsOf["users"] = UsersRow /\ RowsOf["subscriptions"] = DeviceRow
  /\ \A t \in {"disposals", "transfers", "events", "clients"} : RowsOf[t] = PlainRow
BY DEF Tables, RowsOf

LEMMA LicencesStay ==
  ASSUME NEW l \in LicenceRow
  PROVE  Handled(l) \subseteq LicenceRow /\ \A k \in LicenceRow : Computed(k) \in LicenceRow
<1>1. \A k \in LicenceRow : Computed(k) \in LicenceRow
  BY DEF LicenceRow, Computed, computeStatus
<1>2. Handled(l) \subseteq LicenceRow
  BY DEF LicenceRow, Handled, Nearness
<1> QED BY <1>1, <1>2

LEMMA RepStep ==
  ASSUME RepTypeOK, [RepNext]_repVars
  PROVE  RepTypeOK'
<1>1. CASE UNCHANGED repVars
  BY <1>1 DEF repVars, RepTypeOK
<1>2. CASE RepNext
  <2> PICK i \in RowIds :
        \/ WriteAssetRow(i) \/ WriteCheckout(i) \/ WriteMaintenance(i) \/ WriteAudit(i)
        \/ WriteLicence(i) \/ WriteDevice(i) \/ WriteUser(i) \/ WriteOther(i) \/ PassDate(i)
    BY <1>2 DEF RepNext
  <2>1. CASE WriteAssetRow(i)
    <3>1. CASE AddRow("assets", i, InUse)
      BY <3>1, RowsOfTables, AddStays DEF InUse, LiveAssets
    <3>2. CASE EditRow("assets", i, LiveAssets, LiveAssets)
      BY <3>2, RowsOfTables, EditStays DEF LiveAssets
    <3>3. CASE EditRow("assets", i, LiveAssets, {[tab[i] EXCEPT !.deleted = TRUE]})
      <4>1. [tab[i] EXCEPT !.deleted = TRUE] \in AssetsRow
        BY <3>3 DEF EditRow, LiveAssets, AssetsRow
      <4> QED BY <3>3, <4>1, RowsOfTables, EditStays
    <3> QED BY <2>1, <3>1, <3>2, <3>3 DEF WriteAssetRow
  <2>2. CASE WriteCheckout(i)
    <3>1. CASE AddRow("checkouts", i, OpenLoans)
      BY <3>1, RowsOfTables, AddStays DEF OpenLoans
    <3>2. CASE EditRow("checkouts", i, OpenLoans, {[tab[i] EXCEPT !.returned = TRUE]})
      <4>1. [tab[i] EXCEPT !.returned = TRUE] \in CheckoutRow
        BY <3>2 DEF EditRow, OpenLoans, CheckoutRow
      <4> QED BY <3>2, <4>1, RowsOfTables, EditStays
    <3> QED BY <2>2, <3>1, <3>2 DEF WriteCheckout
  <2>3. CASE WriteMaintenance(i)
    <3>1. "maintenance" \in Tables /\ RowsOf["maintenance"] = MaintenanceRow
      BY RowsOfTables
    <3> QED BY <2>3, <3>1, AddStays, EditStays DEF WriteMaintenance
  <2>4. CASE WriteAudit(i)
    <3>1. {"items", "scans", "campaigns"} \subseteq Tables /\ RowsOf["items"] = ItemRow
          /\ RowsOf["scans"] = ScanRow /\ RowsOf["campaigns"] = CampaignRow
      BY RowsOfTables
    <3>2. {[status |-> "draft"], [status |-> "in_progress"],
         [status |-> "completed"]} \subseteq CampaignRow
      BY DEF CampaignRow
    <3>3. CASE AddRow("items", i, ItemRow) \/ AddRow("scans", i, ScanRow)
      <4>1. ASSUME AddRow("items", i, ItemRow) PROVE RepTypeOK'
        BY <3>1, <4>1, AddStays
      <4>2. ASSUME AddRow("scans", i, ScanRow) PROVE RepTypeOK'
        BY <3>1, <4>2, AddStays
      <4> QED BY <3>3, <4>1, <4>2
    <3>4. CASE AddRow("campaigns", i, {[status |-> "draft"]})
      BY <3>1, <3>2, <3>4, AddStays
    <3>5. CASE EditRow("campaigns", i, {[status |-> "draft"]}, {[status |-> "in_progress"]})
      BY <3>1, <3>2, <3>5, EditStays
    <3>6. CASE EditRow("campaigns", i, {[status |-> "in_progress"]}, {[status |-> "completed"]})
      BY <3>1, <3>2, <3>6, EditStays
    <3> QED BY <2>4, <3>3, <3>4, <3>5, <3>6 DEF WriteAudit
  <2>5. CASE WriteLicence(i)
    <3>1. CASE AddRow("licences", i, {[status |-> "active", due |-> d] : d \in {"none", "later"}})
      <4>1. {[status |-> "active", due |-> d] : d \in {"none", "later"}} \subseteq LicenceRow
        BY DEF LicenceRow, Nearness
      <4>2. "licences" \in Tables /\ RowsOf["licences"] = LicenceRow
        BY RowsOfTables
      <4> QED BY <3>1, <4>1, <4>2, AddStays
    <3>2. ASSUME NEW l \in LicenceRow,
                 EditRow("licences", i, {l}, Handled(l) \cup {Computed(k) : k \in Handled(l) \cup
                      {l}})
          PROVE  RepTypeOK'
      <4>1. Handled(l) \cup {Computed(k) : k \in Handled(l) \cup {l}} \subseteq LicenceRow
        BY LicencesStay
      <4> QED BY <3>2, <4>1, RowsOfTables, EditStays
    <3> QED BY <2>5, <3>1, <3>2 DEF WriteLicence
  <2>6. CASE WriteDevice(i)
    <3> PICK t \in {"devices", "subscriptions"} :
               AddRow(t, i, DeviceRow) \/ EditRow(t, i, DeviceRow, DeviceRow \cup {EmptyRow})
      BY <2>6 DEF WriteDevice
    <3>1. t \in Tables /\ RowsOf[t] = DeviceRow
      BY RowsOfTables
    <3> QED BY <3>1, AddStays, EditStays
  <2>7. CASE WriteUser(i)
    <3>1. "users" \in Tables /\ RowsOf["users"] = UsersRow
      BY RowsOfTables
    <3> QED BY <2>7, <3>1, AddStays, EditStays DEF WriteUser
  <2>8. CASE WriteOther(i)
    <3> PICK t \in {"disposals", "transfers", "events", "clients"} : AddRow(t, i, PlainRow)
      BY <2>8 DEF WriteOther
    <3>1. t \in Tables /\ RowsOf[t] = PlainRow
      BY RowsOfTables
    <3> QED BY <3>1, AddStays
  <2>9. CASE PassDate(i)
    <3>1. CASE EditRow("assets", i, AssetsRow, {[tab[i] EXCEPT !.warranty = Closer(@)]})
      <4>1. [tab[i] EXCEPT !.warranty = Closer(@)] \in AssetsRow
        BY <3>1 DEF EditRow, AssetsRow, Closer, Nearness
      <4> QED BY <3>1, <4>1, RowsOfTables, EditStays
    <3>2. ASSUME NEW t \in {"checkouts", "maintenance", "licences"},
                 EditRow(t, i, RowsOf[t], {[tab[i] EXCEPT !.due = Closer(@)]})
          PROVE  RepTypeOK'
      <4>1. [tab[i] EXCEPT !.due = Closer(@)] \in RowsOf[t]
        <5>1. /\ t = "checkouts" => RowsOf[t] = CheckoutRow
              /\ t = "maintenance" => RowsOf[t] = MaintenanceRow
              /\ t = "licences" => RowsOf[t] = LicenceRow
          BY RowsOfTables
        <5>2. CASE t = "checkouts"
          <6>1. tab[i] \in CheckoutRow
            BY <3>2, <5>1, <5>2 DEF EditRow
          <6>2. [tab[i] EXCEPT !.due = Closer(tab[i].due)] \in CheckoutRow
            BY <6>1 DEF CheckoutRow, Closer, Nearness
          <6> QED BY <5>1, <5>2, <6>2
        <5>3. CASE t = "maintenance"
          <6>1. tab[i] \in MaintenanceRow
            BY <3>2, <5>1, <5>3 DEF EditRow
          <6>2. [tab[i] EXCEPT !.due = Closer(tab[i].due)] \in MaintenanceRow
            BY <6>1 DEF MaintenanceRow, Closer, Nearness
          <6> QED BY <5>1, <5>3, <6>2
        <5>4. CASE t = "licences"
          <6>1. tab[i] \in LicenceRow
            BY <3>2, <5>1, <5>4 DEF EditRow
          <6>2. [tab[i] EXCEPT !.due = Closer(tab[i].due)] \in LicenceRow
            BY <6>1 DEF LicenceRow, Closer, Nearness
          <6> QED BY <5>1, <5>4, <6>2
        <5> QED BY <5>2, <5>3, <5>4
      <4> QED BY <3>2, <4>1, RowsOfTables, EditStays
    <3> QED BY <2>9, <3>1, <3>2 DEF PassDate
  <2> QED BY <2>1, <2>2, <2>3, <2>4, <2>5, <2>6, <2>7, <2>8, <2>9
<1> QED BY <1>1, <1>2

-----------------------------------------------------------------------------
(* Tags.                                                                    *)

\* What a request knows of its tag, unless it was written since.
KnowsTag(c) ==
  /\ c.op \in {"commission", "verify"} => \E a \in TagAssets : c.of = {a}
  /\ c.op # "commission" => tagRow[c.chip] # NoTag
  /\ c.op = "verify" => c.at = "write" /\ c.row # NoTag
  /\ ~c.over /\ (c.at = "binding" \/ c.op = "verify") => c.row = tagRow[c.chip]
  /\ ~c.over /\ c.at = "write" =>
       /\ c.op = "commission" => \A b \in binding[c.chip] : b.asset \in c.of
       /\ c.op = "retire" => c.bound = binding[c.chip]
       /\ c.op = "permalock" => tagRow[c.chip].verified

\* An event about to be inserted follows one that is there.
FollowsOn(c) ==
  (c.seq = 1 /\ c.prev = 0) \/ \E d \in eventLog[c.asset] : d.seq + 1 = c.seq /\ d.deed = c.prev

TagHandsFit ==
  \A r \in Requests :
    /\ tagReq[r] \in TagWork => KnowsTag(tagReq[r])
    /\ tagReq[r] \in Telling \cup Chaining =>
         \A t \in Chips : \A b \in binding[t] : b.deed = tagReq[r].deed => b.asset = tagReq[r].asset
    /\ tagReq[r] \in Chaining => FollowsOn(tagReq[r])

\* A binding is of a tag that has a row, and was owed no later than now.
BindingsFit ==
  \A t \in Chips : \A b \in binding[t] : tagRow[t] # NoTag /\ b.deed <= deeds

TagInv == TagTypeOK /\ TagHandsFit /\ BindingsFit /\ TagsAreSound

LEMMA TagStart == TagInit => TagInv
<1> SUFFICES ASSUME TagInit PROVE TagInv
  OBVIOUS
<1>1. PICK epc \in [Chips -> Epcs] :
        /\ \A t \in Chips : epc[t] = Tid(t) \/ \E b \in binding[t] : epc[t] = Giai(b.asset)
        /\ tagRow = [t \in Chips |-> IF binding[t] = {} THEN NoTag ELSE NewTag(epc[t], TRUE)]
  BY DEF TagInit
<1>2. /\ binding \in [Chips -> {{}} \cup {{[asset |-> a, deed |-> 0]} : a \in TagAssets}]
      /\ eventLog = [a \in TagAssets |-> {}] /\ tagReq = [r \in Requests |-> TagIdle]
      /\ deeds = 0 /\ missing = {} /\ raced = {} /\ locks = {} /\ remade = {}
  BY DEF TagInit
<1>3. \A t \in Chips : epc[t] \in Epcs
  BY <1>1
<1>4. \A t \in Chips : NewTag(epc[t], TRUE) \in TagRow /\ NewTag(epc[t], TRUE) # NoTag
  BY <1>3 DEF NewTag, TagRow, NoTag
<1>5. \A t \in Chips : \A b \in binding[t] :
        /\ binding[t] = {b} /\ b \in Bindings /\ b.deed = 0 /\ b.asset \in TagAssets
        /\ tagRow[t] = NewTag(epc[t], TRUE)
  <2> SUFFICES ASSUME NEW t \in Chips, NEW b \in binding[t]
               PROVE  /\ binding[t] = {b} /\ b \in Bindings /\ b.deed = 0 /\ b.asset \in TagAssets
                      /\ tagRow[t] = NewTag(epc[t], TRUE)
    OBVIOUS
  <2>1. PICK a \in TagAssets : binding[t] = {[asset |-> a, deed |-> 0]}
    BY <1>2
  <2>2. b = [asset |-> a, deed |-> 0] /\ 0 \in 0..MaxDeeds
    BY <2>1, TagLifeAssumption
  <2>3. b \in Bindings /\ b.deed = 0 /\ b.asset \in TagAssets
    BY <2>2 DEF Bindings
  <2> QED BY <1>1, <2>1, <2>2, <2>3
<1>6. TagTypeOK
  <2>1. tagRow \in [Chips -> {NoTag} \cup TagRow]
    BY <1>1, <1>4
  <2>2. binding \in [Chips -> SUBSET Bindings]
    BY <1>2, <1>5
  <2> QED BY <1>2, <2>1, <2>2, TagLifeAssumption DEF TagTypeOK
<1>7. TagHandsFit
  BY <1>2 DEF TagHandsFit, TagIdle, TagWork, Telling, Chaining
<1>8. BindingsFit
  <2> SUFFICES ASSUME NEW t \in Chips, NEW b \in binding[t]
               PROVE  tagRow[t] # NoTag /\ b.deed <= deeds
    BY DEF BindingsFit
  <2>1. tagRow[t] # NoTag
    BY <1>4, <1>5
  <2>2. b.deed = 0 /\ deeds = 0
    BY <1>2, <1>5
  <2> QED BY <2>1, <2>2
<1>9. BoundAsEncoded
  BY <1>1, <1>4, <1>5 DEF BoundAsEncoded, NewTag
<1>10. LocksAreEarned /\ ChainIsWhole
  BY <1>2 DEF LocksAreEarned, ChainIsWhole
<1>11. DeedsAddUp
  <2>1. \A n \in 1..MaxDeeds : Tellers(n) = {} /\ ToldIn(n) = {} /\ ~(n <= deeds)
    BY <1>2, TagLifeAssumption DEF Tellers, ToldIn, TagIdle
  <2> QED BY <1>2, <2>1 DEF DeedsAddUp, AddsUp
<1> QED BY <1>6, <1>7, <1>8, <1>9, <1>10, <1>11 DEF TagInv, TagsAreSound

-----------------------------------------------------------------------------
\* What a request is doing tells what it holds.
LEMMA TagHands ==
  ASSUME NEW c \in {TagIdle} \cup TagWork \cup Telling \cup Chaining
  PROVE  /\ c.at \in {"binding", "write"} <=> c \in TagWork
         /\ c.at = "tell" <=> c \in Telling
         /\ c.at = "chain" <=> c \in Chaining
         /\ c = TagIdle <=> c.at = "idle"
  BY DEF TagIdle, TagWork, Telling, Chaining

\* Only the work on the tag that was written becomes old, and only that.
LEMMA OldWork ==
  ASSUME NEW c \in {TagIdle} \cup TagWork \cup Telling \cup Chaining, NEW t \in Chips
  PROVE  /\ Outdated(c, t) \in {TagIdle} \cup TagWork \cup Telling \cup Chaining
         /\ ~(c \in TagWork /\ c.chip = t) => Outdated(c, t) = c
         /\ c \in TagWork /\ c.chip = t =>
              /\ Outdated(c, t) \in TagWork /\ Outdated(c, t).over
              /\ \A f \in {"at", "op", "chip", "of", "row", "bound"} : Outdated(c, t)[f] = c[f]
<1>1. c \in TagWork => c.at \in {"binding", "write"}
  BY DEF TagWork
<1>2. CASE c \in TagWork /\ c.chip = t
  <2>1. Outdated(c, t) = [c EXCEPT !.over = TRUE]
    BY <1>1, <1>2 DEF Outdated
  <2> QED BY <1>2, <2>1 DEF TagWork
<1>3. CASE ~(c \in TagWork /\ c.chip = t)
  <2>1. Outdated(c, t) = c
    BY <1>3, TagHands DEF Outdated
  <2> QED BY <1>3, <2>1
<1> QED BY <1>2, <1>3

\* A write leaves the others what they know, of the tag written nothing.
LEMMA OthersKnow ==
  ASSUME TagTypeOK, TagHandsFit, NEW r \in Requests, NEW next, Wrote(r, next),
         tagReq[r] \in TagWork, tagRow'[tagReq[r].chip] # NoTag,
         \A u \in Chips \ {tagReq[r].chip} : tagRow'[u] = tagRow[u] /\ binding'[u] = binding[u],
         NEW q \in Requests \ {r}
  PROVE  /\ tagReq'[q] \in {TagIdle} \cup TagWork \cup Telling \cup Chaining
         /\ tagReq'[q].at = tagReq[q].at
         /\ tagReq'[q] \notin TagWork => tagReq'[q] = tagReq[q]
         /\ tagReq'[q] \in TagWork => KnowsTag(tagReq[q])'
<1> DEFINE c == tagReq[q]
           t == tagReq[r].chip
<1>1. c \in {TagIdle} \cup TagWork \cup Telling \cup Chaining /\ t \in Chips
  BY DEF TagTypeOK, TagWork
<1>2. tagReq'[q] = Outdated(c, t)
  BY DEF Wrote
<1>3. CASE c \in TagWork /\ c.chip = t
  <2>1. KnowsTag(c)
    BY <1>3 DEF TagHandsFit
  <2>2. /\ tagReq'[q] \in TagWork /\ tagReq'[q].over /\ tagReq'[q].at = c.at
        /\ tagReq'[q].op = c.op /\ tagReq'[q].of = c.of /\ tagReq'[q].row = c.row /\ tagReq'[q].chip = t
    BY <1>1, <1>2, <1>3, OldWork
  <2> QED BY <1>3, <2>1, <2>2 DEF KnowsTag
<1>4. CASE ~(c \in TagWork /\ c.chip = t)
  <2>1. tagReq'[q] = c
    BY <1>1, <1>2, <1>4, OldWork
  <2>2. ASSUME c \in TagWork PROVE KnowsTag(tagReq[q])'
    <3>1. c.chip \in Chips \ {t}
      BY <1>4, <2>2 DEF TagWork
    <3>2. tagRow'[c.chip] = tagRow[c.chip] /\ binding'[c.chip] = binding[c.chip]
      BY <3>1
    <3> QED BY <2>1, <2>2, <3>2 DEF TagHandsFit, KnowsTag
  <2> QED BY <1>1, <2>1, <2>2
<1> QED BY <1>3, <1>4

\* A write that owes nothing, and one that owes an asset the next change.
WroteFor(r, next) ==
  /\ Wrote(r, next)
  /\ \/ next = TagIdle /\ deeds' = deeds
     \/ \E a \in tagReq[r].of : /\ next = [at |-> "tell", asset |-> a, deed |-> deeds + 1]
                                /\ deeds' = deeds + 1 /\ deeds < MaxDeeds

LEMMA OwesWrites == \A r : Owes(r) => \E next : WroteFor(r, next)
  BY DEF Owes, WroteFor

\* The bindings it may leave: some of those there were, and one of what it owes.
BindsOnly(r) ==
  /\ \A u \in Chips \ {tagReq[r].chip} : binding'[u] = binding[u]
  /\ \A b \in binding'[tagReq[r].chip] :
       \/ b \in binding[tagReq[r].chip]
       \/ deeds' = deeds + 1 /\ b.deed = deeds + 1 /\ tagReq[r].of = {b.asset}

\* Such a write keeps the account of the changes.
LEMMA WritesAddUp ==
  ASSUME TagTypeOK, DeedsAddUp, NEW r \in Requests, NEW next, WroteFor(r, next), tagReq[r] \in TagWork,
         UNCHANGED <<eventLog, missing>>, BindsOnly(r),
         \A q \in Requests \ {r} :
           /\ tagReq'[q].at = tagReq[q].at
           /\ tagReq'[q] \notin TagWork => tagReq'[q] = tagReq[q]
  PROVE  DeedsAddUp'
<1> SUFFICES ASSUME NEW n \in 1..MaxDeeds PROVE AddsUp(n)'
  BY DEF DeedsAddUp
<1>1. deeds \in Nat /\ n \in Nat /\ tagReq[r].at \in {"binding", "write"} /\ tagReq'[r] = next
  BY TagLifeAssumption DEF TagTypeOK, TagWork, WroteFor, Wrote
<1>2. AddsUp(n) /\ ToldIn(n)' = ToldIn(n) /\ (n \in missing)' = (n \in missing)
  BY DEF DeedsAddUp, ToldIn
<1>3. \A q \in Requests \ {r} : q \in Tellers(n)' <=> q \in Tellers(n)
  BY DEF Tellers, TagWork
<1>4. r \notin Tellers(n)
  BY <1>1 DEF Tellers
<1>5. CASE next = TagIdle /\ deeds' = deeds
  <2>1. Tellers(n)' = Tellers(n)
    BY <1>1, <1>3, <1>4, <1>5 DEF Tellers, TagIdle
  <2>2. \A t \in Chips : binding'[t] \subseteq binding[t]
    BY <1>1, <1>5 DEF BindsOnly
  <2> QED BY <1>2, <1>5, <2>1, <2>2 DEF AddsUp
<1>6. CASE \E a \in tagReq[r].of : /\ next = [at |-> "tell", asset |-> a, deed |-> deeds + 1]
                                   /\ deeds' = deeds + 1 /\ deeds < MaxDeeds
  <2>1. next.at = "tell" /\ next.deed = deeds + 1
    BY <1>6
  <2>2. CASE n = deeds + 1
    <3>1. n \notin missing /\ Tellers(n) = {} /\ ToldIn(n) = {}
      BY <1>1, <1>2, <2>2 DEF AddsUp
    <3>2. Tellers(n)' = {r}
      BY <1>1, <1>3, <2>1, <2>2, <3>1 DEF Tellers
    <3> QED BY <1>1, <1>2, <1>6, <2>2, <3>1, <3>2 DEF AddsUp
  <2>3. CASE n # deeds + 1
    <3>1. Tellers(n)' = Tellers(n)
      BY <1>1, <1>3, <1>4, <2>1, <2>3 DEF Tellers
    <3>2. (n <= deeds)' <=> n <= deeds
      BY <1>1, <1>6, <2>3
    <3>3. \A t \in Chips : \A b \in binding'[t] : b.deed = n => b \in binding[t]
      BY <1>1, <2>3 DEF BindsOnly
    <3> QED BY <1>2, <3>1, <3>2, <3>3 DEF AddsUp
  <2> QED BY <2>2, <2>3
<1> QED BY <1>5, <1>6 DEF WroteFor

\* And everything else that does not depend on what was written of the tag.
LEMMA WritesFit ==
  ASSUME TagInv, NEW r \in Requests, NEW next, WroteFor(r, next), tagReq[r] \in TagWork,
         UNCHANGED <<eventLog, missing>>, BindsOnly(r),
         tagRow' \in [Chips -> {NoTag} \cup TagRow], binding' \in [Chips -> SUBSET Bindings],
         tagRow'[tagReq[r].chip] # NoTag,
         \A u \in Chips \ {tagReq[r].chip} : tagRow'[u] = tagRow[u],
         locks' \subseteq Chips, remade' \subseteq Chips
  PROVE  TagTypeOK' /\ TagHandsFit' /\ BindingsFit' /\ ChainIsWhole' /\ DeedsAddUp'
<1> DEFINE t == tagReq[r].chip
<1>1. /\ TagTypeOK /\ TagHandsFit /\ BindingsFit /\ DeedsAddUp /\ ChainIsWhole
      /\ Wrote(r, next) /\ t \in Chips /\ deeds \in 0..MaxDeeds /\ MaxDeeds \in Nat
      /\ tagReq[r].of \subseteq TagAssets /\ tagReq'[r] = next
  BY TagLifeAssumption DEF TagInv, TagsAreSound, WroteFor, Wrote, TagTypeOK, TagWork
<1>2. \A q \in Requests \ {r} :
        /\ tagReq'[q] \in {TagIdle} \cup TagWork \cup Telling \cup Chaining
        /\ tagReq'[q].at = tagReq[q].at
        /\ tagReq'[q] \notin TagWork => tagReq'[q] = tagReq[q]
        /\ tagReq'[q] \in TagWork => KnowsTag(tagReq[q])'
  BY <1>1, OthersKnow DEF BindsOnly
<1>3. DeedsAddUp'
  BY <1>1, <1>2, WritesAddUp
<1>4. next = TagIdle \/ (next \in Telling /\ next.deed = deeds + 1)
  BY <1>1 DEF WroteFor, Telling
<1>5. deeds' \in 0..MaxDeeds /\ deeds <= deeds'
  BY <1>1 DEF WroteFor
<1>6. TagTypeOK'
  <2>1. tagReq' \in [Requests -> {TagIdle} \cup TagWork \cup Telling \cup Chaining]
    <3>1. \A q \in Requests : tagReq'[q] \in {TagIdle} \cup TagWork \cup Telling \cup Chaining
      BY <1>1, <1>2, <1>4
    <3> QED BY <1>1, <3>1 DEF Wrote
  <2>2. raced' \subseteq Chips
    BY <1>1 DEF Wrote, TagTypeOK
  <2> QED BY <1>1, <1>5, <2>1, <2>2 DEF TagTypeOK
<1>7. \A u \in Chips : \A b \in binding'[u] :
        \/ b \in binding[u] /\ b.deed <= deeds /\ tagRow[u] # NoTag
        \/ u = t /\ deeds' = deeds + 1 /\ b.deed = deeds + 1 /\ tagReq[r].of = {b.asset}
  BY <1>1 DEF BindsOnly, BindingsFit
<1>8. BindingsFit'
  <2> SUFFICES ASSUME NEW u \in Chips, NEW b \in binding'[u] PROVE tagRow'[u] # NoTag /\ b.deed <= deeds'
    BY DEF BindingsFit
  <2>1. b.deed \in Nat
    BY <1>1 DEF Bindings
  <2>2. tagRow'[u] # NoTag
    BY <1>7
  <2>3. b.deed <= deeds'
    BY <1>1, <1>5, <1>7, <2>1
  <2> QED BY <2>2, <2>3
<1>9. TagHandsFit'
  <2> SUFFICES ASSUME NEW q \in Requests
               PROVE  /\ tagReq'[q] \in TagWork => KnowsTag(tagReq[q])'
                      /\ tagReq'[q] \in Telling \cup Chaining =>
                           \A u \in Chips : \A b \in binding'[u] : b.deed = tagReq'[q].deed => b.asset = tagReq'[q].asset
                      /\ tagReq'[q] \in Chaining => FollowsOn(tagReq[q])'
    BY DEF TagHandsFit
  <2>1. CASE q = r
    <3>1. CASE next = TagIdle
      BY <1>1, <2>1, <3>1 DEF TagIdle, TagWork, Telling, Chaining
    <3>2. CASE next # TagIdle
      <4>1. PICK a \in tagReq[r].of : next = [at |-> "tell", asset |-> a, deed |-> deeds + 1]
        BY <3>2 DEF WroteFor
      <4>2. next \notin TagWork /\ next \notin Chaining /\ next.asset = a /\ next.deed = deeds + 1
        BY <4>1 DEF TagWork, Chaining
      <4>3. \A u \in Chips : \A b \in binding'[u] : b.deed = deeds + 1 => b.asset = a
        <5> SUFFICES ASSUME NEW u \in Chips, NEW b \in binding'[u], b.deed = deeds + 1 PROVE b.asset = a
          OBVIOUS
        <5>1. ~(b.deed <= deeds)
          BY <1>1
        <5> QED BY <1>7, <4>1, <5>1
      <4> QED BY <1>1, <2>1, <4>2, <4>3
    <3> QED BY <3>1, <3>2
  <2>2. CASE q # r
    <3>1. tagReq'[q] \in TagWork => KnowsTag(tagReq[q])'
      BY <1>2, <2>2
    <3>2. ASSUME tagReq'[q] \in Telling \cup Chaining
          PROVE  /\ \A u \in Chips : \A b \in binding'[u] :
                      b.deed = tagReq'[q].deed => b.asset = tagReq'[q].asset
                 /\ tagReq'[q] \in Chaining => FollowsOn(tagReq[q])'
      <4>1. tagReq'[q] \notin TagWork /\ tagReq'[q].at \in {"tell", "chain"}
        BY <3>2 DEF TagWork, Telling, Chaining
      <4>2. tagReq'[q] = tagReq[q]
        BY <1>2, <2>2, <4>1
      <4>3. tagReq[q].deed \in 1..MaxDeeds /\ q \in Tellers(tagReq[q].deed)
        BY <3>2, <4>1, <4>2 DEF Telling, Chaining, Tellers
      <4>4. tagReq[q].deed <= deeds
        BY <1>1, <4>3 DEF DeedsAddUp, AddsUp
      <4>5. tagReq[q].deed # deeds + 1
        BY <1>1, <4>3, <4>4
      <4>6. \A u \in Chips : \A b \in binding'[u] : b.deed = tagReq[q].deed => b \in binding[u]
        BY <1>7, <4>5
      <4>7. \A u \in Chips : \A b \in binding[u] : b.deed = tagReq[q].deed => b.asset = tagReq[q].asset
        BY <1>1, <3>2, <4>2 DEF TagHandsFit
      <4>8. tagReq'[q] \in Chaining => FollowsOn(tagReq[q])'
        BY <1>1, <4>2 DEF TagHandsFit, FollowsOn
      <4> QED BY <4>2, <4>6, <4>7, <4>8
    <3>3. tagReq'[q] \in Chaining => tagReq'[q] \in Telling \cup Chaining
      OBVIOUS
    <3> QED BY <3>1, <3>2, <3>3
  <2> QED BY <2>1, <2>2
<1>10. ChainIsWhole'
  BY <1>1 DEF ChainIsWhole
<1> QED BY <1>3, <1>6, <1>8, <1>9, <1>10

-----------------------------------------------------------------------------
\* A write of a tag that leaves it verified, or made anew, keeps the locks earned.
LEMMA LocksStay ==
  ASSUME TagInv, NEW t \in Chips, tagRow'[t] # NoTag,
         \A u \in Chips \ {t} : tagRow'[u] = tagRow[u],
         raced \subseteq raced', locks' = locks, remade \subseteq remade',
         t \in locks \ raced /\ (tagRow[t].verified \/ t \in remade) => tagRow'[t].verified \/ t \in remade'
  PROVE  LocksAreEarned'
<1> SUFFICES ASSUME NEW u \in locks' \ raced'
             PROVE  tagRow'[u] # NoTag /\ (tagRow'[u].verified \/ u \in remade')
  BY DEF LocksAreEarned
<1>1. u \in Chips /\ u \in locks \ raced /\ LocksAreEarned
  BY DEF TagInv, TagTypeOK, TagsAreSound
<1>2. tagRow[u] # NoTag /\ (tagRow[u].verified \/ u \in remade)
  BY <1>1 DEF LocksAreEarned
<1>3. CASE u = t
  BY <1>1, <1>2, <1>3, Zenon
<1>4. CASE u # t
  <2>1. tagRow'[u] = tagRow[u]
    BY <1>1, <1>4
  <2> QED BY <1>2, <2>1, Zenon
<1> QED BY <1>3, <1>4

LEMMA TagUpserted ==
  ASSUME TagInv, NEW r \in Requests, NEW epc \in Epcs, UpsertTag(r, epc)
  PROVE  TagInv'
<1> DEFINE c == tagReq[r]
           t == c.chip
<1>1. c \in {TagIdle} \cup TagWork \cup Telling \cup Chaining /\ c.at = "write" /\ c.op = "commission"
  BY DEF TagInv, TagTypeOK, UpsertTag, Doing
<1>2. /\ c \in TagWork /\ t \in Chips /\ KnowsTag(c) /\ TagTypeOK
      /\ tagRow \in [Chips -> {NoTag} \cup TagRow] /\ raced \subseteq Chips
      /\ locks \subseteq Chips /\ remade \subseteq Chips
  BY <1>1, TagHands DEF TagInv, TagTypeOK, TagHandsFit, TagWork
<1>3. PICK next : WroteFor(r, next)
  BY OwesWrites DEF UpsertTag
<1> DEFINE new == IF tagRow[t] = NoTag THEN NewTag(epc, FALSE)
                  ELSE [tagRow[t] EXCEPT !.state = "COMMISSIONED", !.epc = epc, !.verified = FALSE]
<1>4. tagRow' = [tagRow EXCEPT ![t] = new]
  BY DEF UpsertTag
<1>5. new \in TagRow /\ new # NoTag /\ new.epc = epc /\ new.state = "COMMISSIONED"
  <2>1. CASE tagRow[t] = NoTag
    BY <2>1 DEF NewTag, TagRow, NoTag
  <2>2. CASE tagRow[t] # NoTag
    <3>1. tagRow[t] \in TagRow
      BY <1>2, <2>2
    <3> QED BY <2>2, <3>1 DEF TagRow, NoTag
  <2> QED BY <2>1, <2>2
<1>6. /\ tagRow' \in [Chips -> {NoTag} \cup TagRow] /\ tagRow'[t] = new
      /\ \A u \in Chips \ {t} : tagRow'[u] = tagRow[u]
  BY <1>2, <1>4, <1>5
<1>7. /\ binding' = binding /\ UNCHANGED <<eventLog, missing>> /\ locks' = locks
      /\ remade' = IF t \in locks THEN remade \cup {t} ELSE remade
      /\ raced' = IF c.over THEN raced \cup {t} ELSE raced
      /\ (epc = Tid(t) \/ \E a \in c.of : epc = Giai(a))
  BY <1>3 DEF UpsertTag, WroteFor, Wrote
<1>8. TagTypeOK' /\ TagHandsFit' /\ BindingsFit' /\ ChainIsWhole' /\ DeedsAddUp'
  <2>1. BindsOnly(r) /\ binding' \in [Chips -> SUBSET Bindings] /\ remade' \subseteq Chips
    BY <1>2, <1>7 DEF BindsOnly, TagTypeOK
  <2> QED BY <1>2, <1>3, <1>5, <1>6, <1>7, <2>1, WritesFit
<1>9. BoundAsEncoded'
  <2> SUFFICES ASSUME NEW u \in Chips \ raced', NEW b \in binding[u]
               PROVE  /\ tagRow'[u] # NoTag /\ tagRow'[u].state # "RETIRED"
                      /\ tagRow'[u].epc \in {Giai(b.asset), Tid(u)}
    BY <1>7 DEF BoundAsEncoded
  <2>1. u \notin raced /\ BoundAsEncoded
    BY <1>7 DEF TagInv, TagsAreSound
  <2>2. CASE u = t
    <3>1. ~c.over
      BY <1>7, <2>2
    <3>2. b.asset \in c.of /\ \E a \in TagAssets : c.of = {a}
      BY <1>1, <1>2, <2>2, <3>1 DEF KnowsTag
    <3>3. epc \in {Giai(b.asset), Tid(t)}
      BY <1>7, <3>2
    <3> QED BY <1>5, <1>6, <2>2, <3>3
  <2>3. CASE u # t
    BY <1>6, <2>1, <2>3 DEF BoundAsEncoded
  <2> QED BY <2>2, <2>3
<1>10. LocksAreEarned'
  <2>1. raced \subseteq raced' /\ remade \subseteq remade' /\ (t \in locks => t \in remade')
    BY <1>7
  <2>2. tagRow'[t] # NoTag
    BY <1>5, <1>6
  <2> QED BY ONLY TagInv, <1>2, <1>6, <1>7, <2>1, <2>2, LocksStay, Zenon
<1> QED BY <1>8, <1>9, <1>10 DEF TagInv, TagsAreSound

LEMMA TagBound ==
  ASSUME TagInv, NEW r \in Requests, BindTag(r)
  PROVE  TagInv'
<1> DEFINE c == tagReq[r]
           t == c.chip
<1>1. c \in {TagIdle} \cup TagWork \cup Telling \cup Chaining /\ c.at = "write" /\ c.op = "verify"
  BY DEF TagInv, TagTypeOK, BindTag, Doing
<1>2. /\ c \in TagWork /\ t \in Chips /\ KnowsTag(c) /\ TagTypeOK
      /\ tagRow \in [Chips -> {NoTag} \cup TagRow] /\ raced \subseteq Chips /\ c.of \subseteq TagAssets
      /\ binding \in [Chips -> SUBSET Bindings] /\ deeds \in 0..MaxDeeds /\ MaxDeeds \in Nat
  BY <1>1, TagHands, TagLifeAssumption DEF TagInv, TagTypeOK, TagHandsFit, TagWork
<1>3. PICK next : WroteFor(r, next)
  BY OwesWrites DEF BindTag
<1>4. PICK a \in TagAssets : c.of = {a}
  BY <1>1, <1>2 DEF KnowsTag
<1>5. deeds' = deeds + 1 /\ deeds < MaxDeeds
  BY <1>4 DEF BindTag, Owes
<1> DEFINE b0 == [asset |-> a, deed |-> deeds + 1]
           new == [tagRow[t] EXCEPT !.state = "COMMISSIONED", !.verified = TRUE]
<1>6. tagRow[t] \in TagRow
  BY <1>1, <1>2 DEF KnowsTag
<1>7. tagRow' = [tagRow EXCEPT ![t] = new]
  BY <1>2 DEF BindTag
<1>8. new \in TagRow /\ new # NoTag /\ new.epc = tagRow[t].epc /\ new.state = "COMMISSIONED" /\ new.verified
  BY <1>6 DEF TagRow, NoTag
<1>9. /\ tagRow' \in [Chips -> {NoTag} \cup TagRow] /\ tagRow'[t] = new
      /\ \A u \in Chips \ {t} : tagRow'[u] = tagRow[u]
  BY <1>2, <1>7, <1>8
<1>10. b0 \in Bindings /\ binding' = [binding EXCEPT ![t] = {b0}]
  <2>1. {[asset |-> x, deed |-> deeds + 1] : x \in c.of} = {b0}
    BY <1>4
  <2>2. deeds + 1 \in 0..MaxDeeds
    BY <1>2, <1>5
  <2> QED BY <2>1, <2>2 DEF BindTag, Bindings
<1>11. /\ binding' \in [Chips -> SUBSET Bindings] /\ binding'[t] = {b0}
       /\ \A u \in Chips \ {t} : binding'[u] = binding[u]
  BY <1>2, <1>10
<1>12. /\ UNCHANGED <<eventLog, missing>> /\ UNCHANGED <<locks, remade>>
       /\ raced' = IF c.over THEN raced \cup {t} ELSE raced
  BY <1>3 DEF BindTag, WroteFor, Wrote
<1>13. TagTypeOK' /\ TagHandsFit' /\ BindingsFit' /\ ChainIsWhole' /\ DeedsAddUp'
  <2>1. BindsOnly(r)
    BY <1>4, <1>5, <1>11 DEF BindsOnly
  <2>2. locks' \subseteq Chips /\ remade' \subseteq Chips
    BY <1>2, <1>12 DEF TagTypeOK
  <2> QED BY <1>2, <1>3, <1>8, <1>9, <1>11, <1>12, <2>1, <2>2, WritesFit
<1>14. BoundAsEncoded'
  <2> SUFFICES ASSUME NEW u \in Chips \ raced', NEW b \in binding'[u]
               PROVE  /\ tagRow'[u] # NoTag /\ tagRow'[u].state # "RETIRED"
                      /\ tagRow'[u].epc \in {Giai(b.asset), Tid(u)}
    BY DEF BoundAsEncoded
  <2>1. u \notin raced /\ BoundAsEncoded
    BY <1>12 DEF TagInv, TagsAreSound
  <2>2. CASE u = t
    <3>1. ~c.over
      BY <1>12, <2>2
    <3>2. c.row = tagRow[t]
      BY <1>1, <1>2, <3>1 DEF KnowsTag
    <3>3. tagRow[t].epc \in {Giai(a), Tid(t)}
      BY <1>4, <3>2 DEF BindTag, Matches
    <3>4. b.asset = a
      BY <1>11, <2>2
    <3>5. new.epc \in {Giai(b.asset), Tid(t)} /\ new # NoTag /\ new.state # "RETIRED"
      BY <1>8, <3>3, <3>4
    <3> QED BY ONLY <1>9, <2>2, <3>5
  <2>3. CASE u # t
    BY <1>9, <1>11, <2>1, <2>3 DEF BoundAsEncoded
  <2> QED BY <2>2, <2>3
<1>15. LocksAreEarned'
  <2>1. raced \subseteq raced' /\ tagRow'[t] # NoTag /\ tagRow'[t].verified
    BY <1>8, <1>9, <1>12
  <2> QED BY ONLY TagInv, <1>2, <1>9, <1>12, <2>1, LocksStay, Zenon
<1> QED BY <1>13, <1>14, <1>15 DEF TagInv, TagsAreSound

LEMMA TagQuarantined ==
  ASSUME TagInv, NEW r \in Requests, Quarantine(r)
  PROVE  TagInv'
<1> DEFINE c == tagReq[r]
           t == c.chip
           new == [tagRow[t] EXCEPT !.state = "QUARANTINED"]
<1>1. c \in {TagIdle} \cup TagWork \cup Telling \cup Chaining /\ c.at = "write" /\ c.op = "verify"
  BY DEF TagInv, TagTypeOK, Quarantine, Doing
<1>2. /\ c \in TagWork /\ t \in Chips /\ KnowsTag(c) /\ TagTypeOK
      /\ tagRow \in [Chips -> {NoTag} \cup TagRow] /\ raced \subseteq Chips
      /\ binding \in [Chips -> SUBSET Bindings]
  BY <1>1, TagHands DEF TagInv, TagTypeOK, TagHandsFit, TagWork
<1>3. WroteFor(r, TagIdle)
  BY DEF Quarantine, WroteFor
<1>4. tagRow[t] \in TagRow
  BY <1>1, <1>2 DEF KnowsTag
<1>5. new \in TagRow /\ new # NoTag /\ new.epc = tagRow[t].epc /\ new.state = "QUARANTINED"
      /\ new.verified = tagRow[t].verified
  BY <1>4 DEF TagRow, NoTag
<1>6. /\ tagRow' \in [Chips -> {NoTag} \cup TagRow] /\ tagRow'[t] = new
      /\ \A u \in Chips \ {t} : tagRow'[u] = tagRow[u]
  BY <1>2, <1>5 DEF Quarantine
<1>7. /\ UNCHANGED <<binding, eventLog, missing>> /\ UNCHANGED <<locks, remade>>
      /\ raced' = IF c.over THEN raced \cup {t} ELSE raced
  BY DEF Quarantine, Wrote
<1>8. TagTypeOK' /\ TagHandsFit' /\ BindingsFit' /\ ChainIsWhole' /\ DeedsAddUp'
  <2>1. BindsOnly(r) /\ locks' \subseteq Chips /\ remade' \subseteq Chips /\ binding' \in [Chips -> SUBSET Bindings]
    BY <1>2, <1>7 DEF BindsOnly, TagTypeOK
  <2> QED BY <1>2, <1>3, <1>5, <1>6, <1>7, <2>1, WritesFit
<1>9. BoundAsEncoded'
  <2>1. \A u \in Chips \ raced' : u \notin raced /\ (u = t \/ tagRow'[u] = tagRow[u])
    BY <1>6, <1>7
  <2> QED BY <1>5, <1>6, <1>7, <2>1 DEF TagInv, TagsAreSound, BoundAsEncoded
<1>10. LocksAreEarned'
  <2>1. raced \subseteq raced' /\ tagRow'[t] # NoTag /\ tagRow'[t].verified = tagRow[t].verified
    BY <1>5, <1>6, <1>7
  <2>2. remade' = remade /\ locks' = locks /\ remade \subseteq remade'
    BY <1>7
  <2> QED BY ONLY TagInv, <1>2, <1>6, <2>1, <2>2, LocksStay, Zenon
<1> QED BY <1>8, <1>9, <1>10 DEF TagInv, TagsAreSound

LEMMA TagPermalocked ==
  ASSUME TagInv, NEW r \in Requests, Permalock(r)
  PROVE  TagInv'
<1> DEFINE c == tagReq[r]
           t == c.chip
<1>1. c \in {TagIdle} \cup TagWork \cup Telling \cup Chaining /\ c.at = "write" /\ c.op = "permalock"
  BY DEF TagInv, TagTypeOK, Permalock, Doing
<1>2. /\ c \in TagWork /\ t \in Chips /\ KnowsTag(c) /\ TagTypeOK
      /\ tagRow \in [Chips -> {NoTag} \cup TagRow] /\ raced \subseteq Chips
      /\ binding \in [Chips -> SUBSET Bindings]
  BY <1>1, TagHands DEF TagInv, TagTypeOK, TagHandsFit, TagWork
<1>3. PICK next : WroteFor(r, next)
  BY OwesWrites DEF Permalock
<1>4. /\ UNCHANGED <<tagRow, binding, eventLog, missing>> /\ remade' = remade /\ locks' = locks \cup {t}
      /\ raced' = IF c.over THEN raced \cup {t} ELSE raced
  BY <1>3 DEF Permalock, WroteFor, Wrote
<1>5. tagRow[t] # NoTag /\ (~c.over => tagRow[t].verified)
  BY <1>1, <1>2 DEF KnowsTag
<1>6. TagTypeOK' /\ TagHandsFit' /\ BindingsFit' /\ ChainIsWhole' /\ DeedsAddUp'
  <2>1. BindsOnly(r) /\ locks' \subseteq Chips /\ remade' \subseteq Chips
    BY <1>2, <1>4 DEF BindsOnly, TagTypeOK
  <2> QED BY <1>2, <1>3, <1>4, <1>5, <2>1, WritesFit
<1>7. BoundAsEncoded' /\ LocksAreEarned'
  BY <1>4, <1>5 DEF TagInv, TagsAreSound, BoundAsEncoded, LocksAreEarned
<1> QED BY <1>6, <1>7 DEF TagInv, TagsAreSound

LEMMA TagRetired ==
  ASSUME TagInv, NEW r \in Requests, Retire(r)
  PROVE  TagInv'
<1> DEFINE c == tagReq[r]
           t == c.chip
           new == [tagRow[t] EXCEPT !.state = "RETIRED", !.retired = TRUE]
<1>1. c \in {TagIdle} \cup TagWork \cup Telling \cup Chaining /\ c.at = "write" /\ c.op = "retire"
  BY DEF TagInv, TagTypeOK, Retire, Doing
<1>2. /\ c \in TagWork /\ t \in Chips /\ KnowsTag(c) /\ TagTypeOK
      /\ tagRow \in [Chips -> {NoTag} \cup TagRow] /\ raced \subseteq Chips
      /\ binding \in [Chips -> SUBSET Bindings]
  BY <1>1, TagHands DEF TagInv, TagTypeOK, TagHandsFit, TagWork
<1>3. PICK next : WroteFor(r, next)
  BY OwesWrites DEF Retire
<1>4. tagRow[t] \in TagRow
  BY <1>1, <1>2 DEF KnowsTag
<1>5. new \in TagRow /\ new # NoTag /\ new.verified = tagRow[t].verified
  BY <1>4 DEF TagRow, NoTag
<1>6. /\ tagRow' \in [Chips -> {NoTag} \cup TagRow] /\ tagRow'[t] = new
      /\ \A u \in Chips \ {t} : tagRow'[u] = tagRow[u]
  BY <1>2, <1>5 DEF Retire
<1>7. /\ binding' \in [Chips -> SUBSET Bindings] /\ binding'[t] = binding[t] \ c.bound
      /\ \A u \in Chips \ {t} : binding'[u] = binding[u]
  BY <1>2 DEF Retire
<1>8. /\ UNCHANGED <<eventLog, missing>> /\ UNCHANGED <<locks, remade>>
      /\ raced' = IF c.over THEN raced \cup {t} ELSE raced
  BY <1>3 DEF Retire, WroteFor, Wrote
<1>9. TagTypeOK' /\ TagHandsFit' /\ BindingsFit' /\ ChainIsWhole' /\ DeedsAddUp'
  <2>1. BindsOnly(r) /\ locks' \subseteq Chips /\ remade' \subseteq Chips
    BY <1>2, <1>7, <1>8 DEF BindsOnly, TagTypeOK
  <2> QED BY <1>2, <1>3, <1>5, <1>6, <1>7, <1>8, <2>1, WritesFit
<1>10. BoundAsEncoded'
  <2>1. ~c.over => binding'[t] = {}
    BY <1>1, <1>2, <1>7 DEF KnowsTag
  <2> QED BY <1>6, <1>7, <1>8, <2>1 DEF TagInv, TagsAreSound, BoundAsEncoded
<1>11. LocksAreEarned'
  <2>1. raced \subseteq raced' /\ tagRow'[t] # NoTag /\ tagRow'[t].verified = tagRow[t].verified
    BY <1>5, <1>6, <1>8
  <2>2. remade' = remade /\ locks' = locks /\ remade \subseteq remade'
    BY <1>8
  <2> QED BY ONLY TagInv, <1>2, <1>6, <2>1, <2>2, LocksStay, Zenon
<1> QED BY <1>9, <1>10, <1>11 DEF TagInv, TagsAreSound

-----------------------------------------------------------------------------
\* A step that only changes what a request holds, to something it may hold.
LEMMA TagReads ==
  ASSUME TagInv, NEW r \in Requests, NEW c, TagGoes(r, c), Unwritten,
         \/ /\ c \in TagWork /\ KnowsTag(c) /\ tagReq[r] \in {TagIdle} \cup TagWork
         \/ c = TagIdle /\ tagReq[r] \in {TagIdle} \cup TagWork
         \/ /\ tagReq[r] \in Telling /\ c \in Chaining /\ FollowsOn(c)
            /\ c.asset = tagReq[r].asset /\ c.deed = tagReq[r].deed
  PROVE  TagInv'
<1>1. /\ TagTypeOK /\ TagHandsFit /\ BindingsFit /\ TagsAreSound
      /\ UNCHANGED <<tagRow, binding, eventLog, deeds, missing, raced, locks, remade>>
  BY DEF TagInv, Unwritten
<1>2. /\ c \in {TagIdle} \cup TagWork \cup Telling \cup Chaining
      /\ tagReq \in [Requests -> {TagIdle} \cup TagWork \cup Telling \cup Chaining]
      /\ tagReq'[r] = c /\ \A q \in Requests \ {r} : tagReq'[q] = tagReq[q]
  BY <1>1 DEF TagGoes, TagTypeOK
<1>3. TagTypeOK'
  BY <1>1, <1>2 DEF TagTypeOK, TagGoes
<1>4. \A q \in Requests : (KnowsTag(tagReq[q])' <=> KnowsTag(tagReq'[q])) /\ (FollowsOn(tagReq[q])' <=> FollowsOn(tagReq'[q]))
  BY <1>1 DEF KnowsTag, FollowsOn
<1>5. TagHandsFit'
  <2> SUFFICES ASSUME NEW q \in Requests
               PROVE  /\ tagReq'[q] \in TagWork => KnowsTag(tagReq'[q])
                      /\ tagReq'[q] \in Telling \cup Chaining =>
                           \A u \in Chips : \A b \in binding[u] : b.deed = tagReq'[q].deed => b.asset = tagReq'[q].asset
                      /\ tagReq'[q] \in Chaining => FollowsOn(tagReq'[q])
    BY <1>1, <1>4 DEF TagHandsFit
  <2>1. CASE q # r
    BY <1>1, <1>2, <2>1 DEF TagHandsFit
  <2>2. CASE q = r
    <3>1. CASE c \in TagWork /\ KnowsTag(c)
      BY <1>2, <2>2, <3>1 DEF TagWork, Telling, Chaining
    <3>2. CASE c = TagIdle
      BY <1>2, <2>2, <3>2 DEF TagIdle, TagWork, Telling, Chaining
    <3>3. CASE /\ tagReq[r] \in Telling /\ c \in Chaining /\ FollowsOn(c)
               /\ c.asset = tagReq[r].asset /\ c.deed = tagReq[r].deed
      <4>1. c \notin TagWork
        BY <3>3 DEF TagWork, Chaining
      <4>2. \A u \in Chips : \A b \in binding[u] : b.deed = c.deed => b.asset = c.asset
        BY <1>1, <3>3 DEF TagHandsFit
      <4> QED BY <1>2, <2>2, <3>3, <4>1, <4>2
    <3> QED BY <3>1, <3>2, <3>3
  <2> QED BY <2>1, <2>2
<1>6. DeedsAddUp'
  <2> SUFFICES ASSUME NEW n \in 1..MaxDeeds PROVE AddsUp(n)'
    BY DEF DeedsAddUp
  <2>1. r \in Tellers(n)' <=> r \in Tellers(n)
    BY <1>2 DEF Tellers, TagIdle, TagWork, Telling, Chaining
  <2>2. Tellers(n)' = Tellers(n)
    BY <1>2, <2>1 DEF Tellers
  <2>3. ToldIn(n)' = ToldIn(n) /\ AddsUp(n)
    BY <1>1 DEF ToldIn, TagsAreSound, DeedsAddUp
  <2> QED BY <1>1, <2>2, <2>3 DEF AddsUp
<1>7. BindingsFit' /\ BoundAsEncoded' /\ LocksAreEarned' /\ ChainIsWhole'
  BY <1>1 DEF BindingsFit, TagsAreSound, BoundAsEncoded, LocksAreEarned, ChainIsWhole
<1> QED BY <1>3, <1>5, <1>6, <1>7 DEF TagInv, TagsAreSound

LEMMA TagFound ==
  ASSUME TagInv, NEW r \in Requests, NEW t \in Chips, NEW op, NEW of \in SUBSET TagAssets, FindTag(r, op, t, of),
         \/ op \in {"commission", "verify"} /\ \E a \in TagAssets : of = {a}
         \/ op \in {"permalock", "retire"} /\ of = {}
  PROVE  TagInv'
<1> DEFINE at0 == IF tagRow[t] = NoTag \/ op = "verify" THEN "write" ELSE "binding"
           c == [at |-> at0, op |-> op, chip |-> t, of |-> of, row |-> tagRow[t], bound |-> {}, over |-> FALSE]
<1>1. TagGoes(r, c) /\ Unwritten /\ tagReq[r] = TagIdle /\ (tagRow[t] # NoTag \/ op = "commission")
  BY DEF FindTag
<1>2. tagRow[t] \in {NoTag} \cup TagRow /\ (tagRow[t] = NoTag => binding[t] = {})
  BY DEF TagInv, TagTypeOK, BindingsFit
<1>3. c \in TagWork
  BY <1>2 DEF TagWork
<1>4. KnowsTag(c)
  BY <1>1, <1>2 DEF KnowsTag
<1> QED BY <1>1, <1>3, <1>4, TagReads

LEMMA BindingFound ==
  ASSUME TagInv, NEW r \in Requests, FindBinding(r)
  PROVE  TagInv'
<1> DEFINE c0 == tagReq[r]
           t == c0.chip
           its == {b.asset : b \in binding[t]}
           decided(of, bound) == [at |-> "write", op |-> c0.op, chip |-> t, of |-> of,
                                  row |-> NoTag, bound |-> bound, over |-> c0.over]
<1>1. c0 \in {TagIdle} \cup TagWork \cup Telling \cup Chaining /\ c0.at = "binding"
  BY DEF TagInv, TagTypeOK, FindBinding
<1>2. c0 \in TagWork /\ t \in Chips /\ KnowsTag(c0) /\ binding[t] \in SUBSET Bindings /\ c0.op # "verify"
  BY <1>1, TagHands DEF TagInv, TagTypeOK, TagHandsFit, TagWork, KnowsTag
<1>3. its \in SUBSET TagAssets
  BY <1>2 DEF Bindings
<1>4. \A of \in SUBSET TagAssets, bound \in SUBSET Bindings : decided(of, bound) \in TagWork
  BY <1>2 DEF TagWork
<1>5. Unwritten /\ {} \in SUBSET Bindings
  BY DEF FindBinding
<1>6. CASE TagGoes(r, TagIdle)
  BY <1>2, <1>5, <1>6, TagReads
<1>7. CASE c0.op = "commission" /\ Commissionable(c0, binding[t]) /\ TagGoes(r, decided(c0.of, {}))
  <2>1. c0.of \in SUBSET TagAssets
    BY <1>2 DEF TagWork
  <2>2. KnowsTag(decided(c0.of, {}))
    BY <1>2, <1>7 DEF KnowsTag, Commissionable
  <2> QED BY <1>2, <1>4, <1>5, <1>7, <2>1, <2>2, TagReads
<1>8. CASE c0.op = "retire" /\ TagGoes(r, decided(its, binding[t]))
  <2>1. KnowsTag(decided(its, binding[t]))
    BY <1>2, <1>8 DEF KnowsTag
  <2> QED BY <1>2, <1>3, <1>4, <1>5, <1>8, <2>1, TagReads
<1>9. CASE c0.op = "permalock" /\ Lockable(c0) /\ TagGoes(r, decided(its, {}))
  <2>1. KnowsTag(decided(its, {}))
    BY <1>1, <1>2, <1>9 DEF KnowsTag, Lockable
  <2> QED BY <1>2, <1>3, <1>4, <1>5, <1>9, <2>1, TagReads
<1> QED BY <1>6, <1>7, <1>8, <1>9 DEF FindBinding

LEMMA LastFound ==
  ASSUME TagInv, NEW r \in Requests, FindLast(r)
  PROVE  TagInv'
<1> DEFINE c0 == tagReq[r]
           follow(seq, prev) == [at |-> "chain", asset |-> c0.asset, deed |-> c0.deed, seq |-> seq, prev |-> prev]
<1>1. c0 \in {TagIdle} \cup TagWork \cup Telling \cup Chaining /\ c0.at = "tell"
  BY DEF TagInv, TagTypeOK, FindLast
<1>2. c0 \in Telling /\ Unwritten
  BY <1>1, TagHands DEF FindLast
<1>3. eventLog[c0.asset] \in SUBSET [seq : Nat, prev : 0..MaxDeeds, deed : 1..MaxDeeds]
  BY <1>2 DEF TagInv, TagTypeOK, Telling
<1>4. CASE TagGoes(r, follow(1, 0))
  <2>1. follow(1, 0) \in Chaining
    BY <1>2, TagLifeAssumption DEF Telling, Chaining
  <2>2. FollowsOn(follow(1, 0))
    BY DEF FollowsOn
  <2> QED BY <1>2, <1>4, <2>1, <2>2, TagReads
<1>5. CASE \E e \in eventLog[c0.asset] : TagGoes(r, follow(e.seq + 1, e.deed))
  <2>1. PICK e \in eventLog[c0.asset] : TagGoes(r, follow(e.seq + 1, e.deed))
    BY <1>5
  <2>2. e.seq + 1 \in Nat /\ e.deed \in 0..MaxDeeds
    BY <1>3, TagLifeAssumption
  <2>3. follow(e.seq + 1, e.deed) \in Chaining
    BY <1>2, <2>2 DEF Telling, Chaining
  <2>4. FollowsOn(follow(e.seq + 1, e.deed))
    BY DEF FollowsOn
  <2> QED BY <1>2, <2>1, <2>3, <2>4, TagReads
<1> QED BY <1>4, <1>5 DEF FindLast

-----------------------------------------------------------------------------
\* A change that was being told is told, or is missing from now on.
ToldOrMissing(r) ==
  LET c == tagReq[r] IN
  \/ /\ c \in {TagIdle} \cup TagWork
     /\ UNCHANGED <<eventLog, missing>>
  \/ /\ c \in Telling \cup Chaining
     /\ missing' = missing \cup {c.deed} /\ UNCHANGED eventLog
  \/ /\ c \in Chaining /\ ~SeqTaken(c)
     /\ eventLog' = [eventLog EXCEPT ![c.asset] = @ \cup {[seq |-> c.seq, prev |-> c.prev, deed |-> c.deed]}]
     /\ UNCHANGED missing

LEMMA LetsGo ==
  ASSUME TagInv, NEW r \in Requests, TagGoes(r, TagIdle), ToldOrMissing(r),
         UNCHANGED <<tagRow, binding, deeds>>, UNCHANGED <<raced, locks, remade>>
  PROVE  TagInv'
<1> DEFINE c == tagReq[r]
           new == [seq |-> c.seq, prev |-> c.prev, deed |-> c.deed]
<1>1. /\ TagTypeOK /\ TagHandsFit /\ BindingsFit /\ TagsAreSound /\ DeedsAddUp /\ ChainIsWhole
      /\ tagReq \in [Requests -> {TagIdle} \cup TagWork \cup Telling \cup Chaining]
      /\ eventLog \in [TagAssets -> SUBSET [seq : Nat, prev : 0..MaxDeeds, deed : 1..MaxDeeds]]
      /\ tagReq'[r] = TagIdle /\ \A q \in Requests \ {r} : tagReq'[q] = tagReq[q]
  BY DEF TagInv, TagsAreSound, TagTypeOK, TagGoes
<1>2. \A a \in TagAssets : \A e \in eventLog[a] : e \in eventLog'[a]
  BY <1>1 DEF ToldOrMissing
<1>3. ASSUME NEW a \in TagAssets, NEW e \in eventLog'[a], e \notin eventLog[a]
      PROVE  c \in Chaining /\ a = c.asset /\ e = new /\ ~SeqTaken(c) /\ missing' = missing
  BY <1>1, <1>3 DEF ToldOrMissing
<1>4. TagTypeOK'
  <2>1. missing' \subseteq 1..MaxDeeds
    BY <1>1 DEF ToldOrMissing, TagTypeOK, Telling, Chaining
  <2>2. c \in Chaining => new \in [seq : Nat, prev : 0..MaxDeeds, deed : 1..MaxDeeds]
    BY DEF Chaining
  <2>3. eventLog' \in [TagAssets -> SUBSET [seq : Nat, prev : 0..MaxDeeds, deed : 1..MaxDeeds]]
    BY <1>1, <2>2 DEF ToldOrMissing
  <2> QED BY <1>1, <2>1, <2>3 DEF TagTypeOK, TagGoes
<1>5. TagHandsFit'
  <2> SUFFICES ASSUME NEW q \in Requests
               PROVE  /\ tagReq'[q] \in TagWork => KnowsTag(tagReq[q])'
                      /\ tagReq'[q] \in Telling \cup Chaining =>
                           \A u \in Chips : \A b \in binding'[u] : b.deed = tagReq'[q].deed => b.asset = tagReq'[q].asset
                      /\ tagReq'[q] \in Chaining => FollowsOn(tagReq[q])'
    BY DEF TagHandsFit
  <2>1. CASE q = r
    BY <1>1, <2>1 DEF TagIdle, TagWork, Telling, Chaining
  <2>2. CASE q # r
    <3>1. tagReq'[q] = tagReq[q]
      BY <1>1, <2>2
    <3>2. KnowsTag(tagReq[q])' <=> KnowsTag(tagReq[q])
      BY <3>1 DEF KnowsTag
    <3>3. tagReq[q] \in Chaining => FollowsOn(tagReq[q])'
      <4> SUFFICES ASSUME tagReq[q] \in Chaining PROVE FollowsOn(tagReq[q])'
        OBVIOUS
      <4>1. FollowsOn(tagReq[q]) /\ tagReq[q].asset \in TagAssets
        BY <1>1 DEF TagHandsFit, Chaining
      <4> QED BY <1>2, <3>1, <4>1 DEF FollowsOn
    <3> QED BY <1>1, <3>1, <3>2, <3>3 DEF TagHandsFit
  <2> QED BY <2>1, <2>2
<1>6. ChainIsWhole'
  <2> SUFFICES ASSUME NEW a \in TagAssets, NEW e \in eventLog'[a]
               PROVE  /\ \A f \in eventLog'[a] : f.seq = e.seq => f = e
                      /\ (e.seq = 1 /\ e.prev = 0) \/ \E d \in eventLog'[a] : d.seq + 1 = e.seq /\ d.deed = e.prev
    BY DEF ChainIsWhole
  <2>1. \A f \in eventLog'[a] : f.seq = e.seq => f = e
    <3> SUFFICES ASSUME NEW f \in eventLog'[a], f.seq = e.seq PROVE f = e
      OBVIOUS
    <3>1. CASE e \in eventLog[a] /\ f \in eventLog[a]
      BY <1>1, <3>1 DEF ChainIsWhole
    <3>2. CASE e \notin eventLog[a] /\ f \notin eventLog[a]
      BY <1>3, <3>2
    <3>3. CASE e \in eventLog[a] /\ f \notin eventLog[a]
      BY <1>3, <3>3 DEF SeqTaken
    <3>4. CASE e \notin eventLog[a] /\ f \in eventLog[a]
      BY <1>3, <3>4 DEF SeqTaken
    <3> QED BY <3>1, <3>2, <3>3, <3>4
  <2>2. (e.seq = 1 /\ e.prev = 0) \/ \E d \in eventLog[a] : d.seq + 1 = e.seq /\ d.deed = e.prev
    <3>1. CASE e \in eventLog[a]
      BY <1>1, <3>1 DEF ChainIsWhole
    <3>2. CASE e \notin eventLog[a]
      <4>1. c \in Chaining /\ a = c.asset /\ e = new
        BY <1>3, <3>2
      <4>2. FollowsOn(c)
        BY <1>1, <4>1 DEF TagHandsFit
      <4> QED BY <4>1, <4>2 DEF FollowsOn
    <3> QED BY <3>1, <3>2
  <2> QED BY <1>2, <2>1, <2>2
<1>7. DeedsAddUp'
  <2> SUFFICES ASSUME NEW n \in 1..MaxDeeds PROVE AddsUp(n)'
    BY DEF DeedsAddUp
  <2>1. AddsUp(n) /\ deeds' = deeds /\ binding' = binding
    BY <1>1 DEF DeedsAddUp
  <2>2. Tellers(n)' = Tellers(n) \ {r}
    BY <1>1 DEF Tellers, TagIdle
  <2>3. CASE r \notin Tellers(n)
    <3>1. c \in Telling \cup Chaining => c.deed # n
      BY <2>3 DEF Tellers, Telling, Chaining
    <3>2. (n \in missing)' <=> n \in missing
      BY <3>1 DEF ToldOrMissing
    <3>3. \A a \in TagAssets : \A e \in eventLog'[a] : e.deed = n => e \in eventLog[a]
      BY <1>3, <3>1
    <3>4. ToldIn(n)' = ToldIn(n)
      BY <1>2, <3>3 DEF ToldIn
    <3>5. \A a \in ToldIn(n) : a \in TagAssets
      BY DEF ToldIn
    <3> QED BY <2>1, <2>2, <2>3, <3>2, <3>3, <3>4, <3>5 DEF AddsUp
  <2>4. CASE r \in Tellers(n)
    <3>1. Tellers(n) = {r} /\ ToldIn(n) = {} /\ n \notin missing /\ n <= deeds /\ Tellers(n)' = {}
      BY <2>1, <2>2, <2>4 DEF AddsUp
    <3>2. c.deed = n /\ c.at \in {"tell", "chain"}
      BY <2>4 DEF Tellers
    <3>3. c \in Telling \cup Chaining /\ c \notin {TagIdle} \cup TagWork
      BY <1>1, <3>2, TagHands DEF TagIdle, TagWork
    <3>4. CASE missing' = missing \cup {c.deed} /\ UNCHANGED eventLog
      <4>1. ToldIn(n)' = {}
        BY <3>1, <3>4 DEF ToldIn
      <4> QED BY <2>1, <3>1, <3>2, <3>4, <4>1 DEF AddsUp
    <3>5. CASE /\ c \in Chaining /\ UNCHANGED missing
               /\ eventLog' = [eventLog EXCEPT ![c.asset] = @ \cup {new}]
      <4>1. c.asset \in TagAssets /\ new.deed = n /\ new \in eventLog'[c.asset]
        BY <1>1, <3>2, <3>5 DEF Chaining
      <4>2. \A a \in TagAssets : \A e \in eventLog'[a] : e.deed = n => a = c.asset /\ e = new
        BY <1>1, <3>1, <3>5 DEF ToldIn
      <4>3. ToldIn(n)' = {c.asset}
        BY <4>1, <4>2 DEF ToldIn
      <4>4. \A t \in Chips : \A b \in binding[t] : b.deed = n => b.asset = c.asset
        BY <1>1, <3>2, <3>3 DEF TagHandsFit
      <4> QED BY <2>1, <3>1, <3>5, <4>1, <4>2, <4>3, <4>4 DEF AddsUp
    <3> QED BY <3>3, <3>4, <3>5 DEF ToldOrMissing
  <2> QED BY <2>3, <2>4
<1>8. BindingsFit' /\ BoundAsEncoded' /\ LocksAreEarned'
  BY <1>1 DEF BindingsFit, TagsAreSound, BoundAsEncoded, LocksAreEarned
<1> QED BY <1>4, <1>5, <1>6, <1>7, <1>8 DEF TagInv, TagsAreSound

LEMMA EventInserted ==
  ASSUME TagInv, NEW r \in Requests, InsertEvent(r) \/ Abandon(r)
  PROVE  TagInv'
<1>1. tagReq[r] \in {TagIdle} \cup TagWork \cup Telling \cup Chaining
  BY DEF TagInv, TagTypeOK
<1>2. CASE InsertEvent(r)
  <2>1. tagReq[r] \in Chaining
    BY <1>1, <1>2, TagHands DEF InsertEvent
  <2>2. ToldOrMissing(r)
    BY <1>2, <2>1 DEF InsertEvent, ToldOrMissing
  <2> QED BY <1>2, <2>2, LetsGo DEF InsertEvent
<1>3. CASE Abandon(r)
  <2>1. CASE tagReq[r].at \in {"tell", "chain"}
    BY <1>1, <1>3, <2>1, TagHands, LetsGo DEF Abandon, ToldOrMissing
  <2>2. CASE tagReq[r].at \notin {"tell", "chain"}
    <3>1. tagReq[r] \in {TagIdle} \cup TagWork /\ UNCHANGED <<eventLog, missing>>
      BY <1>1, <1>3, <2>2, TagHands DEF Abandon
    <3> QED BY <1>3, <3>1, LetsGo DEF Abandon, ToldOrMissing
  <2> QED BY <2>1, <2>2
<1> QED BY <1>2, <1>3

LEMMA TagStep == TagInv /\ [TagNext]_tagVars => TagInv'
<1> SUFFICES ASSUME TagInv, [TagNext]_tagVars PROVE TagInv'
  OBVIOUS
<1>1. ASSUME NEW r \in Requests, NEW t \in Chips, NEW a \in TagAssets,
             FindTag(r, "commission", t, {a}) \/ FindTag(r, "verify", t, {a})
      PROVE  TagInv'
  BY <1>1, TagFound
<1>2. ASSUME NEW r \in Requests, NEW t \in Chips, FindTag(r, "permalock", t, {}) \/ FindTag(r, "retire", t, {})
      PROVE  TagInv'
  BY <1>2, TagFound
<1>3. CASE UNCHANGED tagVars
  BY <1>3 DEF tagVars, TagInv, TagTypeOK, TagHandsFit, KnowsTag, FollowsOn, BindingsFit, TagsAreSound,
              BoundAsEncoded, LocksAreEarned, ChainIsWhole, DeedsAddUp, AddsUp, Tellers, ToldIn
<1>4. CASE TagNext
  BY <1>1, <1>2, <1>4, BindingFound, TagUpserted, TagBound, TagQuarantined, TagPermalocked, TagRetired,
     LastFound, EventInserted DEF TagNext
<1> QED BY <1>3, <1>4

=============================================================================
