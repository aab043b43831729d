---------------------------- MODULE ScanDelivery ----------------------------
(***************************************************************************)
(* What the offline scan queue promises, with no queue in it.  A scan an   *)
(* auditor captures is held by the device until it has been counted by the *)
(* server or the auditor has given it up, and it is counted at most once.  *)
(* ScanOutbox (the Android recorder, the sync workers and the API's        *)
(* recordScan handler) is shown to implement this specification.           *)
(***************************************************************************)
CONSTANT Scan            \* the scans that can be captured

VARIABLES
  captured,              \* scans the auditor has made
  held,                  \* scans the device still keeps
  counted,               \* scans the server has counted
  givenUp                \* scans the auditor has chosen to discard

vars == <<captured, held, counted, givenUp>>

TypeOK ==
  /\ captured \subseteq Scan
  /\ held \subseteq captured
  /\ counted \subseteq captured
  /\ givenUp \subseteq captured

Init == captured = {} /\ held = {} /\ counted = {} /\ givenUp = {}

\* A new scan is on the device before anything else can happen to it.
Capture(s) ==
  /\ s \in Scan \ captured
  /\ captured' = captured \cup {s}
  /\ held' = held \cup {s}
  /\ UNCHANGED <<counted, givenUp>>

\* The server counts a scan, once.  The device may already have given it up:
\* a request that is on its way cannot be called back.
Count(s) ==
  /\ s \in captured \ counted
  /\ counted' = counted \cup {s}
  /\ UNCHANGED <<captured, held, givenUp>>

\* The device forgets a scan only because the server has counted it.
Release(s) ==
  /\ s \in held \cap counted
  /\ held' = held \ {s}
  /\ UNCHANGED <<captured, counted, givenUp>>

\* The auditor discards some of the scans the device holds.
Discard(S) ==
  /\ S \subseteq held
  /\ held' = held \ S
  /\ givenUp' = givenUp \cup S
  /\ UNCHANGED <<captured, counted>>

Next ==
  \/ \E s \in Scan : Capture(s) \/ Count(s) \/ Release(s)
  \/ \E S \in SUBSET held : Discard(S)

Spec == Init /\ [][Next]_vars
=============================================================================
