---------------------------- MODULE MCAssessment ----------------------------
(***************************************************************************)
(* Assessment of a few findings on five assets, under rubrics of a file, a *)
(* ConfigMap and a flag.                                                   *)
(***************************************************************************)
EXTENDS Assessment

Level(c, i, a) == [CR |-> c, IR |-> i, AR |-> a]

MCBuiltin ==
  [class |-> "B", multi |-> FALSE, profile |-> "unclassified",
   catalog |-> [p \in {"unclassified"} |-> Level("H", "H", "H")],
   nameRules |-> <<>>, imageRules |-> <<>>, kindRules |-> <<>>, namespaceRules |-> <<>>,
   multiNamespaces |-> {},
   thresholds |-> [narrow |-> 720000, disruptive |-> 440000, debilitating |-> 70821],
   levIRV |-> 20, levNIRV |-> 55,
   ceiling |-> NoCeiling, origin |-> "",
   previous |-> [ceiling |-> NoCeiling, origin |-> ""]]

NoSettings == [x \in {} |-> 0]

Profiles == [p \in {"low", "mid"} |-> IF p = "low" THEN Level("L", "L", "L") ELSE Level("M", "odd", "H")]
Rule(of, profile) ==
  [of |-> of, namespaces |-> {}, names |-> {}, profile |-> profile]

Files ==
  {NoSettings,
   [ceiling |-> Level("M", "M", "H")],
   [catalog |-> Profiles, profile |-> "mid", class |-> "C", levIRV |-> 30,
    namespaceRules |-> <<Rule({"app"}, "low")>>, nameRules |-> <<Rule({"batch"}, "mid")>>],
   [profile |-> "gone"]}

ConfigMap(state, document, ceiling) ==
  [state |-> state, document |-> document, class |-> "", multi |-> "", ceiling |-> ceiling,
   ceilings |-> [c \in {"low"} |-> Level("L", "L", "L")]]

Tenant == [catalog |-> Profiles, ceiling |-> Level("L", "M", "L"), multiNamespaces |-> {"app"},
           thresholds |-> [narrow |-> 100, disruptive |-> 50, debilitating |-> 0],
           kindRules |-> <<Rule({"Deployment"}, "low")>>, imageRules |-> <<Rule({"tool"}, "mid")>>,
           nameRules |-> <<>>]

ConfigMaps ==
  {ConfigMap("none", NoSettings, ""), ConfigMap("governed", Tenant, ""),
   ConfigMap("mistyped", Tenant, ""), ConfigMap("retired", Tenant, ""),
   ConfigMap("decoded", Tenant, ""), ConfigMap("decoded", NoSettings, "low"),
   ConfigMap("decoded", Tenant, "malformed"), ConfigMap("decoded", [class |-> "E"], ""),
   [ConfigMap("decoded", NoSettings, "") EXCEPT !.class = "D", !.multi = "true"]}

Flags ==
  {[given |-> g, ceiling |-> Level("L", "H", "M")] : g \in {"", "configmap", "vector"}}

Asset(name, ns, profile, nsProfile) ==
  [ns |-> ns, name |-> name, kind |-> "Deployment", image |-> "tool",
   profileLabel |-> profile, nsProfileLabel |-> nsProfile, multiLabel |-> "",
   nsMultiLabel |-> "", classLabel |-> "", nsClassLabel |-> "", function |-> FALSE]

Assets ==
  [a \in {"web", "batch", "edge", "typo", "fn"} |->
     CASE a = "web" -> Asset(a, "app", "low", "unset")
       [] a = "batch" -> [Asset(a, "app", "unset", "unset") EXCEPT !.kind = "Job", !.nsMultiLabel = "false"]
       [] a = "edge" -> [Asset(a, "edge", "unclassified", "") EXCEPT !.multiLabel = "true", !.classLabel = "D"]
       [] a = "typo" -> Asset(a, "app", "", "hihg")
       [] a = "fn" -> [Asset(a, "app", "unset", "hihg") EXCEPT !.function = TRUE]]

Exposures ==
  [a \in {"web", "batch"} |-> [reachable |-> a = "web", protected |-> a = "batch"]]

Finding(id, package, image, severity, impacts, resources) ==
  [id |-> id, package |-> package, version |-> 1, image |-> image, images |-> {image},
   severity |-> severity, av |-> "N", impacts |-> impacts, total |-> FALSE, epss |-> 30,
   active |-> FALSE, suppressed |-> FALSE, vex |-> "none", resources |-> resources]

First_ == Finding(1, 1, 1, "HIGH", <<"H", "L", "N">>, {"web", "batch"})
Elsewhere == Finding(1, 1, 2, "MEDIUM", <<>>, {"edge"})
Fixed_ == [Elsewhere EXCEPT !.suppressed = TRUE, !.resources = {"typo"}]
Stated == [First_ EXCEPT !.vex = "not_affected", !.image = 3, !.images = {3}, !.resources = {"typo"}]
Again == [First_ EXCEPT !.severity = "LOW"]
Unscored == [Finding(0, 2, 1, "CRITICAL", <<"H", "H", "H">>, {"web", "fn"}) EXCEPT !.epss = -1, !.av = "L"]

Scans == {<<First_, Elsewhere, Unscored>>, <<Fixed_, Stated, Again, First_, Elsewhere>>}

Options ==
  {[minSeverity |-> "", minEPSS |-> -1, reachabilityOnly |-> FALSE, dedupe |-> d,
    view |-> v, format |-> "json", html |-> h] :
      d \in BOOLEAN, v \in {"findings", "resources"}, h \in BOOLEAN}
  \cup {[minSeverity |-> "MEDIUM", minEPSS |-> 10, reachabilityOnly |-> TRUE, dedupe |-> TRUE,
         view |-> "findings", format |-> f, html |-> FALSE] : f \in {"json", "cyclonedx"}}

Plainly == CHOOSE o \in Options : o.dedupe /\ o.view = "findings" /\ o.html

Runs(files, configMaps, flags, options) ==
  [file : files, configMap : configMaps, flag : flags, options : options,
   assets : {Assets}, exposures : {Exposures}, findings : Scans]

\* Every rubric with one kind of report, and every report with one rubric.
MCInputs ==
  Runs(Files, ConfigMaps, Flags, {Plainly})
    \cup Runs({NoSettings}, {ConfigMap("none", NoSettings, "")},
              {[given |-> "", ceiling |-> NoCeiling]}, Options)
=============================================================================
