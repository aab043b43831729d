------------------------------- MODULE Sweep -------------------------------
(***************************************************************************)
(* A sweep with the RFID reader: reads of tags that arrive while the       *)
(* operator decides about tags, completes the sweep and sends it to the    *)
(* API.  recordRead and completeSession read a row, decide, and put the    *)
(* whole row back; the screen that completes a sweep and the screen that   *)
(* shows it completed each collect reads, complete and upload.             *)
(***************************************************************************)
EXTENDS Integers, FiniteSets

CONSTANTS
  Tags,      \* EPCs in reach, or expected
  Screens    \* 1 and 2: the sweep's screen and the one after it

ASSUME ScreensAssumption == Screens = {1, 2}

VARIABLES
  rows,       \* session_tags: what the device has for each tag
  expected,   \* the tags of known assets (expectedByEpc)
  opened,     \* the screens opened so far; the first may be closed again
  reader,     \* per screen: the read it is recording
  linking,    \* the registration or assignment the operator waits for
  completion, \* per screen: completeSession and uploadSession
  request,    \* per screen: its upload at the API
  report,     \* scan_session_tags: whose upload each tag is of
  decided     \* history: tags that are as the operator has decided

swpVars == <<rows, expected, opened, reader, linking, completion, request, report, decided>>

-----------------------------------------------------------------------------
TagStatus   == {"none", "PENDING", "NEW", "KNOWN", "IGNORED", "MISSING"}
AtRest     == [at |-> "idle"]
NoUpload == 0

\* late is history: the operator decided about the tag after it was read.
ReadStates     == {AtRest} \cup [at : {"write"}, tag : Tags, status : TagStatus, late : BOOLEAN]
Completions == {AtRest} \cup [at : {"listed"}, missing : SUBSET Tags]
                      \cup [at : {"marked", "done"}]
UploadStates == {AtRest} \cup [at : {"sent", "cleared"}, tags : SUBSET Tags]
                       \cup [at : {"ended"}, tags : SUBSET Tags]

SwpInit ==
  /\ rows = [e \in Tags |-> "none"]
  /\ expected = {}
  /\ opened = {}
  /\ reader = [v \in Screens |-> AtRest]
  /\ linking = AtRest
  /\ completion = [v \in Screens |-> AtRest]
  /\ request = [v \in Screens |-> AtRest]
  /\ report = [e \in Tags |-> NoUpload]
  /\ decided = {}

Listed == {e \in Tags : rows[e] # "none"}

-----------------------------------------------------------------------------
\* startSession: the known assets in scope, once for the whole sweep.
StartSession ==
  /\ opened = {}
  /\ opened' = {1}
  /\ expected' \in SUBSET Tags
  /\ UNCHANGED <<rows, reader, linking, completion, request, report, decided>>

\* Mutant: IGNORED does not win.
ClassifyIgnored(e, status) ==
  LET confident == IF e \in expected THEN "KNOWN" ELSE "NEW" IN
  CASE status = "none"    -> {"PENDING"}
    [] status = "PENDING" -> {"PENDING", confident}
    [] OTHER              -> {confident}

\* classify and what recordRead keeps of the row.  A first read is never
\* enough; of a pending tag the count and the time decide, which are left
\* open.  MISSING rows were first seen at time 0, so one read is enough.
Classify(e, status) ==
  LET confident == IF e \in expected THEN "KNOWN" ELSE "NEW" IN
  CASE status = "none"    -> {"PENDING"}
    [] status = "PENDING" -> {"PENDING", confident}
    [] status = "IGNORED" -> {"IGNORED"}
    [] OTHER              -> {confident}

\* recordRead: the row and its new status, then the whole row back.  The
\* completion stops the reader; what it has read by then still arrives, until
\* the screen has uploaded (a bound: later reads are in no upload).
ReadRow(v, e) ==
  /\ v \in opened /\ reader[v] = AtRest /\ completion[v].at # "done"
  /\ \E s \in Classify(e, rows[e]) :
       reader' = [reader EXCEPT ![v] = [at |-> "write", tag |-> e, status |-> s, late |-> FALSE]]
  /\ UNCHANGED <<rows, expected, opened, linking, completion, request, report, decided>>
UpsertRow(v) ==
  /\ reader[v].at = "write"
  /\ LET e == reader[v].tag IN
     /\ rows' = [rows EXCEPT ![e] = reader[v].status]
     /\ decided' = IF rows'[e] = rows[e] THEN decided ELSE decided \ {e}
  /\ reader' = [reader EXCEPT ![v] = AtRest]
  /\ UNCHANGED <<expected, opened, linking, completion, request, report>>

\* The operator decides, on the first screen while it is in front, about a
\* tag it lists as new.
SetDecided(e, status) ==
  /\ rows' = [rows EXCEPT ![e] = status]
  /\ decided' = decided \cup {e}
  /\ reader' = [v \in Screens |->
       IF reader[v] # AtRest /\ reader[v].tag = e THEN [reader[v] EXCEPT !.late = TRUE] ELSE reader[v]]
  /\ UNCHANGED <<opened, completion, request, report>>
IgnoreTag(e) ==
  /\ opened = {1} /\ rows[e] = "NEW"
  /\ SetDecided(e, "IGNORED")
  /\ UNCHANGED <<expected, linking>>

\* registerNewAsset, assignExistingAsset: the API has answered and the tag is
\* expected; the row follows, whatever it is by then.  Without an answer
\* nothing changes here.
LinkTag(e) ==
  /\ opened = {1} /\ rows[e] = "NEW" /\ linking = AtRest
  /\ expected' = expected \cup {e}
  /\ linking' = [at |-> "promote", tag |-> e]
  /\ UNCHANGED <<rows, opened, reader, completion, request, report, decided>>
Promote ==
  /\ linking.at = "promote"
  /\ SetDecided(linking.tag, "KNOWN")
  /\ linking' = AtRest
  /\ UNCHANGED expected

-----------------------------------------------------------------------------
\* completeSession: expected tags without a row are missing, and written over
\* what may have been read meanwhile.
ListTags(v) ==
  /\ v \in opened /\ completion[v] = AtRest
  /\ completion' = [completion EXCEPT ![v] = [at |-> "listed", missing |-> expected \ Listed]]
  /\ UNCHANGED <<rows, expected, opened, reader, linking, request, report, decided>>
MarkMissing(v) ==
  /\ completion[v].at = "listed"
  /\ rows' = [e \in Tags |-> IF e \in completion[v].missing THEN "MISSING" ELSE rows[e]]
  /\ decided' = decided \ completion[v].missing
  /\ completion' = [completion EXCEPT ![v] = [at |-> "marked"]]
  /\ UNCHANGED <<expected, opened, reader, linking, request, report>>

\* The screen of the completed sweep opens, and the first one is left.
OpenNext ==
  /\ opened = {1} /\ completion[1].at \in {"marked", "done"}
  /\ opened' = {1, 2}
  /\ UNCHANGED <<rows, expected, reader, linking, completion, request, report, decided>>
CloseFirst ==
  /\ 2 \in opened /\ 1 \in opened
  /\ opened' = {2}
  /\ reader' = [reader EXCEPT ![1] = AtRest]
  /\ completion' = [completion EXCEPT ![1] = [at |-> "done"]]
  /\ linking' = AtRest
  /\ UNCHANGED <<rows, expected, request, report, decided>>

\* uploadSession: the rows of the device as one payload, once.
SendReport(v) ==
  /\ completion[v].at = "marked"
  /\ completion' = [completion EXCEPT ![v] = [at |-> "done"]]
  /\ request' \in {request, [request EXCEPT ![v] = [at |-> "sent", tags |-> Listed]]}
  /\ UNCHANGED <<rows, expected, opened, reader, linking, report, decided>>

\* uploadScanSession: the session, the old tags, the new tags; each on its own,
\* and any may be the last.
ClearTags(v) ==
  /\ request[v].at = "sent"
  /\ report' = [e \in Tags |-> NoUpload]
  /\ request' = [request EXCEPT ![v].at = "cleared"]
  /\ UNCHANGED <<rows, expected, opened, reader, linking, completion, decided>>

\* The unique key of session and tag refuses all of the tags if it refuses one.
InsertTags(v) ==
  /\ request[v].at = "cleared"
  /\ report' = IF \E e \in request[v].tags : report[e] # NoUpload THEN report
               ELSE [e \in Tags |-> IF e \in request[v].tags THEN v ELSE report[e]]
  /\ request' = [request EXCEPT ![v].at = "ended"]
  /\ UNCHANGED <<rows, expected, opened, reader, linking, completion, decided>>
FailReport(v) ==
  /\ request[v].at \in {"sent", "cleared"}
  /\ request' = [request EXCEPT ![v].at = "ended"]
  /\ UNCHANGED <<rows, expected, opened, reader, linking, completion, report, decided>>

SwpNext ==
  \/ \E v \in Screens :
       \/ \E e \in Tags : ReadRow(v, e)
       \/ UpsertRow(v)
       \/ ListTags(v) \/ MarkMissing(v) \/ SendReport(v)
       \/ ClearTags(v) \/ InsertTags(v) \/ FailReport(v)
  \/ \E e \in Tags : IgnoreTag(e) \/ LinkTag(e)
  \/ Promote
  \/ StartSession \/ OpenNext \/ CloseFirst

SwpSpec == SwpInit /\ [][SwpNext]_swpVars

-----------------------------------------------------------------------------
SwpTypeOK ==
  /\ rows \in [Tags -> TagStatus] /\ expected \subseteq Tags /\ decided \subseteq Tags
  /\ opened \subseteq Screens
  /\ reader \in [Screens -> ReadStates]
  /\ linking \in {AtRest} \cup [at : {"promote"}, tag : Tags]
  /\ completion \in [Screens -> Completions]
  /\ request \in [Screens -> UploadStates]
  /\ report \in [Tags -> Screens \cup {NoUpload}]

\* What the operator has decided about a tag is undone only by the operator, by
\* a read that was being recorded when it was decided, or by a completion that
\* listed the tags before it had a row.
DecisionHolds(e) ==
  \/ e \notin decided \/ rows'[e] = rows[e]
  \/ e \in decided'
  \/ \E v \in Screens : reader[v].at = "write" /\ reader[v].tag = e /\ reader[v].late
  \/ \E v \in Screens : completion[v].at = "listed" /\ e \in completion[v].missing

\* The tags the API has of a sweep are those of one upload, all of them, or none.
ReportIsWhole ==
  \E v \in Screens \cup {NoUpload} : \A e \in Tags :
    report[e] = IF v # NoUpload /\ request[v] # AtRest /\ e \in request[v].tags THEN v ELSE NoUpload
=============================================================================
