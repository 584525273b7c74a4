------------------------ MODULE MCVulnrichmentStore ------------------------
(***************************************************************************)
(* VulnrichmentStore on a small instance.                                  *)
(***************************************************************************)
EXTENDS VulnrichmentStore, TLC

Interchangeable == Permutations(Callers) \cup Permutations(CVEs)
=============================================================================
