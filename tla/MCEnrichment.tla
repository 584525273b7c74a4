---------------------------- MODULE MCEnrichment ----------------------------
(***************************************************************************)
(* Enrichment on a small instance: two CVEs, each of them found twice      *)
(* (the second lookup meets the cache), and an identifier that is no CVE.  *)
(***************************************************************************)
EXTENDS Enrichment

CONSTANTS a, b

MCIdOf == <<a, b, a, NoCVE, b>>
=============================================================================
