------------------------------- MODULE Report -------------------------------
(***************************************************************************)
(* Build of internal/report/report.go with dedupe.go: what a report says   *)
(* of the findings of a run, on the assets of its inventory.               *)
(*                                                                         *)
(* A finding is a record: what identifies it (ids, packages and images are *)
(* numbers, for they are sorted), the facts Scoring rates it by, the VEX   *)
(* statement it carries, and the assets it affects, one at least and all   *)
(* of the inventory.                                                       *)
(* Texts, references and the CVSS evidence that is merged are left out.    *)
(***************************************************************************)
EXTENDS Scoring, Lists

SeverityRank(severity) ==
  CASE severity = "CRITICAL" -> 5 [] severity = "HIGH" -> 4 [] severity = "MEDIUM" -> 3
    [] severity = "LOW" -> 2 [] severity = "UNKNOWN" -> 1 [] OTHER -> 0

\* filterFindings: --min-severity and --min-epss, which an unknown score (-1)
\* does not reach.
Passes(f, o) ==
  /\ o.minSeverity # "" => SeverityRank(f.severity) >= SeverityRank(o.minSeverity)
  /\ o.minEPSS >= 0 => f.epss >= o.minEPSS

\* stripEnrichmentFields
Stripped(f) == [f EXCEPT !.epss = -1, !.active = FALSE, !.total = FALSE]

Before(f, g) ==
  \/ f.id < g.id
  \/ f.id = g.id /\ f.image < g.image
  \/ f.id = g.id /\ f.image = g.image /\ f.package < g.package

\* A finding goes behind those it is not before.
Inserted(sorted, f) ==
  LET behind == {g \in Range(sorted) : Before(f, g)}
  IN  Only(sorted, Range(sorted) \ behind) \o <<f>> \o Only(sorted, behind)

\* sort.SliceStable
Sorted(findings) ==
  LET upTo[n \in 0..Len(findings)] ==
        IF n = 0 THEN <<>> ELSE Inserted(upTo[n - 1], findings[n])
  IN  upTo[Len(findings)]

Filtered(findings, o) ==
  LET kept == Sorted(Only(findings, {f \in Range(findings) : Passes(f, o)}))
  IN  IF o.reachabilityOnly THEN [n \in DOMAIN kept |-> Stripped(kept[n])] ELSE kept

\* Mutant: the statement of a finding is not part of its identity.
DedupeKey_NoVEX(f) == <<f.id, f.package, f.version>>

\* findingDedupeKey, vexDedupeIdentity
DedupeKey(f) == <<f.id, f.package, f.version, f.vex>>

\* The first of each key, as buildResourceReports keeps it on one asset.
Firsts(findings) == FirstOfEach(findings, [f \in Range(findings) |-> DedupeKey(f)])

\* dedupeFindings: the first of its key survives and takes over what the others
\* affect and the images they are in.
Deduped(findings) ==
  LET first == Firsts(findings)
      alike(f) == {g \in Range(findings) : DedupeKey(g) = DedupeKey(f)}
  IN  [n \in DOMAIN first |->
         [first[n] EXCEPT !.resources = UNION {g.resources : g \in alike(first[n])},
                          !.images = UNION {g.images : g \in alike(first[n])}]]

-----------------------------------------------------------------------------

NoScore == [tier |-> 0, days |-> 0]

InternetReachable(asset, exposures) == asset \in DOMAIN exposures /\ exposures[asset].reachable

\* scoreAsset; a run for reachability only classifies the assets and rates none.
ScoreOn(f, asset, in, rubric) ==
  IF in.options.reachabilityOnly THEN NoScore
  ELSE Score(rubric, in.assets[asset], f, InternetReachable(asset, in.exposures))

\* bestExposure: of the most exposed asset a finding affects.
BestExposure(f, exposures) ==
  LET of == {exposures[a] : a \in f.resources \cap DOMAIN exposures}
  IN  CASE \E e \in of : e.reachable -> "reachable"
        [] ~(\E e \in of : e.reachable) /\ (\E e \in of : e.protected) -> "protected"
        [] OTHER -> "none"

\* worstAsset
Worst(scores) == CHOOSE s \in scores : \A t \in scores : ~MoreUrgent(t, s)

\* findingsWithBestExposure and suppressedWithWouldHaveBeen: what is said of one
\* finding, whose ratings on its assets are those of the survivor's facts.
Entered(f, in, rubric) ==
  LET scores == [a \in f.resources |-> ScoreOn(f, a, in, rubric)]
  IN  [finding |-> f, scores |-> scores, exposure |-> BestExposure(f, in.exposures),
       score |-> Worst({scores[a] : a \in f.resources})]

\* buildResourceReports
ResourceReports(active, in, rubric) ==
  [a \in DOMAIN in.assets |->
     LET own == Only(active, {f \in Range(active) : a \in f.resources})
         told == IF in.options.dedupe THEN Firsts(own) ELSE own
     IN  [n \in DOMAIN told |->
            [finding |-> told[n], score |-> ScoreOn(told[n], a, in, rubric)]]]

\* partitionFindings, and then the merge of each part.
Parts(in) ==
  LET all == Filtered(in.findings, in.options)
      active == Only(all, {f \in Range(all) : ~f.suppressed})
      suppressed == Only(all, {f \in Range(all) : f.suppressed})
      Together(s) == IF in.options.dedupe THEN Deduped(s) ELSE s
  IN  [active |-> active, merged |-> Together(active), suppressed |-> Together(suppressed)]

Each(findings, in, rubric) == [n \in DOMAIN findings |-> Entered(findings[n], in, rubric)]

Build(in, rubric, view) ==
  LET parts == Parts(in)
  IN  [view |-> view,
       findings |-> IF view = "findings" THEN Each(parts.merged, in, rubric) ELSE <<>>,
       resources |-> IF view = "resources" THEN ResourceReports(parts.active, in, rubric) ELSE <<>>,
       suppressed |-> Each(parts.suppressed, in, rubric)]
=============================================================================
