------------------------------ MODULE ScanRun ------------------------------
(***************************************************************************)
(* What one inventory scan promises its caller, without saying how many    *)
(* workers there are, how images are handed to them or how a scan is       *)
(* retried: every image is begun at most once and settled at most once; a  *)
(* report is made only when every image is settled, and it lists as        *)
(* scanned exactly the images whose scan completed and warns about exactly *)
(* the ones whose scan failed; the run is abandoned only because the       *)
(* caller cancelled it, and never while a scan is still in flight.         *)
(***************************************************************************)
CONSTANT Images

VARIABLES status,      \* per image: "pending", "scanning", "ok" or "failed"
          cancelled,   \* the caller has cancelled the run
          outcome,     \* "running", "report" or "cancelled"
          reported,    \* the images whose findings the report contains
          warned       \* the images the report warns about

vars == <<status, cancelled, outcome, reported, warned>>

Init == /\ status = [i \in Images |-> "pending"]
        /\ cancelled \in BOOLEAN
        /\ outcome = "running"
        /\ reported = {}
        /\ warned = {}

Begin(i) == /\ outcome = "running"
            /\ status[i] = "pending"
            /\ status' = [status EXCEPT ![i] = "scanning"]
            /\ UNCHANGED <<cancelled, outcome, reported, warned>>

Settle(i, verdict) == /\ status[i] = "scanning"
                      /\ status' = [status EXCEPT ![i] = verdict]
                      /\ UNCHANGED <<cancelled, outcome, reported, warned>>

Cancel == /\ outcome = "running"
          /\ ~cancelled
          /\ cancelled' = TRUE
          /\ UNCHANGED <<status, outcome, reported, warned>>

Report == /\ outcome = "running"
          /\ \A i \in Images : status[i] \in {"ok", "failed"}
          /\ outcome' = "report"
          /\ reported' = {i \in Images : status[i] = "ok"}
          /\ warned' = {i \in Images : status[i] = "failed"}
          /\ UNCHANGED <<status, cancelled>>

Abandon == /\ outcome = "running"
           /\ cancelled
           /\ \A i \in Images : status[i] # "scanning"
           /\ outcome' = "cancelled"
           /\ UNCHANGED <<status, cancelled, reported, warned>>

Next == \/ \E i \in Images : Begin(i) \/ \E v \in {"ok", "failed"} : Settle(i, v)
        \/ Cancel
        \/ Report
        \/ Abandon

Spec == Init /\ [][Next]_vars
=============================================================================
