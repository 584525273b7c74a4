----------------------------- MODULE Assessment -----------------------------
(***************************************************************************)
(* reportInventory of cmd/vdr/main.go, the last part of every run: the     *)
(* rubric is loaded, the cluster's ConfigMap layered over it, the ceiling  *)
(* settled by its flag, and the reports are built and written.  The cloud  *)
(* policy (--cloud-config) is left out.                                    *)
(***************************************************************************)
EXTENDS Report

CONSTANTS Builtin,  \* Default of internal/scoring
          Inputs    \* what a run may come to this part with

\* What a document states of these settings has the type the decoder asks for;
\* "no such profile" is the name of none.
Decoded(document) ==
  /\ "thresholds" \in DOMAIN document =>
       {document.thresholds.narrow, document.thresholds.disruptive,
        document.thresholds.debilitating} \subseteq Int
  /\ \A x \in {"levIRV", "levNIRV"} \cap DOMAIN document : document[x] \in Int
  /\ "catalog" \in DOMAIN document => "no such profile" \notin DOMAIN document.catalog

ASSUME InputsAssumption ==
  /\ Decoded(Builtin) /\ {"thresholds", "levIRV", "levNIRV", "catalog"} \subseteq DOMAIN Builtin
  /\ \A in \in Inputs :
       /\ Decoded(in.file) /\ Decoded(in.configMap.document)
       /\ in.configMap.state \in {"none", "governed", "mistyped", "retired", "decoded"}
       /\ in.flag.given \in {"vector", "configmap", ""}
       /\ in.options.view \in {"findings", "resources"} /\ IsList(in.findings)
       /\ \A a \in Range(in.assets) :
            {"profileLabel", "classLabel", "nsClassLabel", "function"} \subseteq DOMAIN a
       /\ \A f \in Range(in.findings) :
            /\ {"id", "package", "version", "vex", "resources", "images", "suppressed",
                "active", "total", "epss", "av", "impacts"} \subseteq DOMAIN f
            /\ f.suppressed \in BOOLEAN
            /\ f.active \in BOOLEAN /\ f.total \in BOOLEAN /\ f.epss \in Int /\ f.epss <= 100
            /\ f.impacts \in {<<>>} \cup [1..3 -> {"N", "L", "H"}]

VARIABLES
  input,     \* the settings, and the assets, their exposure and the findings
  stage,     \* "rubric", "configMap", "ceiling", "report", "html", "written" or "error"
  rubric,
  rejected,  \* was the ConfigMap rejected?
  reports    \* those written

assessmentVars == <<input, stage, rubric, rejected, reports>>

AssessmentInit(inputs) ==
  /\ input \in inputs
  /\ stage = "rubric" /\ rubric = Builtin /\ rejected = FALSE /\ reports = <<>>

\* baseScoringConfig: a file that cannot be used ends the run.
LoadRubric ==
  /\ stage = "rubric"
  /\ LET loaded == Load(input.file, Builtin)
     IN  IF Valid(loaded) THEN rubric' = loaded /\ stage' = "configMap"
         ELSE stage' = "error" /\ UNCHANGED rubric
  /\ UNCHANGED <<input, rejected, reports>>

\* A ConfigMap that is rejected is logged, and the run goes on.
ApplyConfigMap ==
  /\ stage = "configMap"
  /\ LET applied == ApplyClusterDefaults(rubric, input.configMap)
     IN  rubric' = applied.rubric /\ rejected' = applied.rejected
  /\ stage' = "ceiling"
  /\ UNCHANGED <<input, reports>>

SettleCeiling ==
  /\ stage = "ceiling"
  /\ rubric' = ApplyCeiling(rubric, input.flag)
  /\ stage' = "report"
  /\ UNCHANGED <<input, rejected, reports>>

\* CycloneDX is rendered from the resources.
View == IF input.options.format = "cyclonedx" THEN "resources" ELSE input.options.view

WriteReport ==
  /\ stage = "report"
  /\ reports' = Append(reports, Build(input, rubric, View))
  /\ stage' = IF input.options.html THEN "html" ELSE "written"
  /\ UNCHANGED <<input, rubric, rejected>>

WriteHTML ==
  /\ stage = "html"
  /\ reports' = Append(reports, Build(input, rubric, "resources"))
  /\ stage' = "written"
  /\ UNCHANGED <<input, rubric, rejected>>

\* The output file cannot be created or written.
WriteFails ==
  /\ stage \in {"report", "html"}
  /\ stage' = "error"
  /\ UNCHANGED <<input, rubric, rejected, reports>>

AssessmentNext ==
  \/ LoadRubric \/ ApplyConfigMap \/ SettleCeiling \/ WriteReport \/ WriteHTML \/ WriteFails

AssessmentSpec == AssessmentInit(Inputs) /\ [][AssessmentNext]_assessmentVars

-----------------------------------------------------------------------------
(* Properties                                                              *)

\* What tells two findings apart: a VEX statement holds for one image.
Identity(f) == <<f.id, f.package, f.version, f.vex>>

\* The report says that such a finding, suppressed or not, affects an asset.
Says(report, identity, asset, suppressed) ==
  IF report.view = "resources" /\ ~suppressed
  THEN \E e \in Range(report.resources[asset]) : Identity(e.finding) = identity
  ELSE \E e \in Range(IF suppressed THEN report.suppressed ELSE report.findings) :
         Identity(e.finding) = identity /\ asset \in e.finding.resources

\* A scan said so, and the filters let it through.
Scanned(identity, asset, suppressed) ==
  \E f \in Range(input.findings) :
    /\ Identity(f) = identity /\ asset \in f.resources /\ f.suppressed = suppressed
    /\ Passes(f, input.options)

(***************************************************************************)
(* Whatever is merged, filtered and set apart, in both views: a report     *)
(* says of an asset exactly what a scan found on it, with its status; "a   *)
(* statement is never projected onto another image's resources".           *)
(***************************************************************************)
ReportIsFaithful ==
  \A n \in DOMAIN reports, f \in Range(input.findings),
     asset \in DOMAIN input.assets, suppressed \in BOOLEAN :
    Says(reports[n], Identity(f), asset, suppressed) <=> Scanned(Identity(f), asset, suppressed)

\* What is at least as bad as the facts of a finding, one fact at a time.
Worse(f) ==
  {[f EXCEPT !.active = TRUE], [f EXCEPT !.total = TRUE], [f EXCEPT !.epss = 100],
   [f EXCEPT !.av = "N"]}
  \cup (IF f.impacts = <<>> THEN {}
        ELSE {[f EXCEPT !.impacts[n] = "H"] : n \in DOMAIN f.impacts})

Rated == {a \in Range(input.assets) : ~a.function}

(***************************************************************************)
(* Worse facts never buy time: no deadline is put off, and no rating       *)
(* lowered, because a finding is actively exploited, its EPSS score or an  *)
(* impact higher, its vector the network, or its asset reachable (as long  *)
(* as the rubric asks no higher score of what is reachable).               *)
(***************************************************************************)
DeadlineMonotone ==
  stage = "report" /\ rubric.levIRV <= rubric.levNIRV =>
    \A f \in Range(input.findings), a \in Rated, reachable \in BOOLEAN :
      \A worse \in {f} \cup Worse(f), nowReachable \in {reachable, TRUE} :
        ~MoreUrgent(Score(rubric, a, f, reachable), Score(rubric, a, worse, nowReachable))

(***************************************************************************)
(* "Missing metadata never lowers PAIN": whatever rules, labels, defaults  *)
(* and ceiling say, an asset is never rated as more urgent than it would   *)
(* be with a label that names no profile.                                  *)
(***************************************************************************)
UnknownLabelIsWorst ==
  stage = "report" =>
    \A f \in Range(input.findings), a \in Rated, reachable \in BOOLEAN :
      ~MoreUrgent(Score(rubric, a, f, reachable),
                  Score(rubric, [a EXCEPT !.profileLabel = "no such profile"], f, reachable))

(***************************************************************************)
(* "Without the flag the ConfigMap ceiling is ignored": the ceiling that   *)
(* assets are rated under is then that of the file or none.                *)
(***************************************************************************)
CeilingNeedsConsent ==
  stage = "report" /\ input.flag.given = "" =>
    rubric.ceiling = Load(input.file, Builtin).ceiling
=============================================================================
