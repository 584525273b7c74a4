--------------------------- MODULE MCTrivyRunner ---------------------------
(***************************************************************************)
(* TrivyRunner on small instances: the second image is the one that reads  *)
(* the Java database and is opted in to VEX.                               *)
(***************************************************************************)
EXTENDS TrivyRunner, TLC

MCJavaImages == Images \cap {1}
MCVexImages == Images \cap {1}

Interchangeable == Permutations(Workers) \cup Permutations(Dirs)

\* The call vdr makes: not cancelled beforehand.  Cleanup and a context that is
\* done from the start are the question of the inventory scan's own run.
MCInit == RunnerInit /\ policy = "never" /\ ~parentDone

\* For liveness, where the search is dearer: of the caches that vdr may find, the
\* one with the most to do, a base with both databases of which one is corrupted.
MCLiveInit == MCInit /\ corrupt = {"db"} /\ \A s \in Subs : db[Base][s] = "old"

MCSpec == MCLiveInit /\ [][RunnerNext]_allVars /\ RunnerFairness
MCSafetySpec == MCInit /\ [][RunnerNext]_allVars
=============================================================================
