-------------------------- MODULE MCScanInventory --------------------------
(***************************************************************************)
(* ScanInventory on a small instance.  A history variable counts the scans *)
(* begun after the derived context was done.                               *)
(***************************************************************************)
EXTENDS ScanInventory

VARIABLE late

MCInit == Init /\ late = 0

MCNext == Next /\ late' = IF ctxDone /\ \E w \in Workers : worker[w] = "idle" /\ worker'[w] = "scanning"
                            THEN late + 1 ELSE late

MCSpec == MCInit /\ [][MCNext]_<<vars, late>> /\ Fairness

(***************************************************************************)
(* Cancellation stops the dispatch loop: the select may still choose the   *)
(* channel when both are ready, but at most one image is begun after the   *)
(* context is done.                                                        *)
(***************************************************************************)
AtMostOneLateScan == late <= 1
=============================================================================
