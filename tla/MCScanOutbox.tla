--------------------------- MODULE MCScanOutbox ---------------------------
EXTENDS ScanOutbox

\* The liveness runs start on the way back from a place without network: the
\* scans have been captured and the screen that captured them is closed.
\* Requests that were given up on end with their caller; they could only add
\* events at the server, which settles a row sooner.
BackOnline ==
  /\ captured = MaxScans
  /\ row = [s \in Scan |-> "failed"]
  /\ discarded = {}
  /\ call = [a \in Caller |-> [s \in Scan |-> "idle"]]
  /\ running = [d \in Drains |-> FALSE]
  /\ batch = [d \in Drains |-> {}]
  /\ seen = [d \in Drains |-> {}]
  /\ orphans = {}
  /\ events = [s \in Scan |-> 0]
  /\ open = TRUE
  /\ session = "live"

LiveSpec == BackOnline /\ [][Next /\ orphans' = {}]_vars /\ Fairness
=============================================================================
