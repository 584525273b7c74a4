------------------------------ MODULE Scoring ------------------------------
(***************************************************************************)
(* internal/scoring: the rubric a run scores with, made of the built-in    *)
(* defaults, a file, the cluster's ConfigMap and a flag, and the rating    *)
(* and deadline of one finding on one asset.                               *)
(*                                                                         *)
(* A document is a function from the settings it states.  A glob is the    *)
(* set of what it matches, a security-impact profile the name under which  *)
(* `catalog` has its requirements.  Numbers are integers: impacts and EPSS *)
(* scores in hundredths, deadlines in half days.                           *)
(***************************************************************************)
EXTENDS Integers, Sequences, FiniteSets, SequencesExt

Objectives == {"CR", "IR", "AR"}
Classes == {"A", "B", "C", "D"}

-----------------------------------------------------------------------------
(* The rubric                                                              *)

NoCeiling == [o \in Objectives |-> "H"]

Merge(document, rubric) ==
  [x \in DOMAIN rubric |->
     IF x \notin DOMAIN document THEN rubric[x]
     ELSE IF x = "catalog"
          THEN [p \in DOMAIN rubric.catalog \cup DOMAIN document.catalog |->
                  IF p \in DOMAIN document.catalog THEN document.catalog[p] ELSE rubric.catalog[p]]
          ELSE document[x]]

\* The lists of rules, each a setting of its own, in the order they are tried in.
RuleLists == <<"nameRules", "imageRules", "kindRules", "namespaceRules">>

Known(rubric, profile) == profile \in DOMAIN rubric.catalog

\* validate: what rules and defaults refer to exists, and thresholds ascend.
Valid(rubric) ==
  /\ \A list \in Range(RuleLists) : \A r \in Range(rubric[list]) : Known(rubric, r.profile)
  /\ rubric.profile # "" => Known(rubric, rubric.profile)
  /\ rubric.class \in Classes \cup {""}
  /\ LET t == rubric.thresholds
     IN  t.narrow > t.disruptive /\ t.disruptive > t.debilitating /\ t.debilitating >= 0

\* Load: what a file states is layered over the defaults.
Load(document, builtin) ==
  LET merged == Merge(document, builtin)
  IN  [merged EXCEPT !.origin = IF merged.ceiling # builtin.ceiling THEN "file" ELSE ""]

Outcome(rubric, rejected) == [rubric |-> rubric, rejected |-> rejected]

\* The settings that ApplyClusterDefaults takes from a ConfigMap whose document
\* it could decode, and the scalars next to it.
Layered(rubric, merged, configMap) ==
  LET stated == "ceiling" \in DOMAIN configMap.document
      scalar == configMap.ceiling \notin {"", "malformed"}
  IN  [merged EXCEPT
         !.thresholds = rubric.thresholds,
         !.class = IF configMap.class # "" THEN configMap.class ELSE @,
         !.multi = IF configMap.multi # "" THEN configMap.multi = "true" ELSE @,
         !.ceiling = IF scalar THEN configMap.ceilings[configMap.ceiling] ELSE @,
         !.origin = IF stated \/ scalar THEN "configMap" ELSE @]

\* ApplyClusterDefaults.  A document with settings of the policy or of an older
\* format is rejected as a whole, one with a value of the wrong type is decoded
\* as far as possible; keys of an older format are seen when it is decoded.  The
\* caller logs a rejection and goes on with the rubric as it then is.
ApplyClusterDefaults(rubric, configMap) ==
  LET saved == [rubric EXCEPT !.previous = [ceiling |-> rubric.ceiling, origin |-> rubric.origin]]
      merged == Merge(configMap.document, saved)
      layered == Layered(saved, merged, configMap)
  IN  CASE configMap.state = "none" -> Outcome(rubric, FALSE)
        [] configMap.state = "governed" -> Outcome(saved, TRUE)
        [] configMap.state \in {"mistyped", "retired"} -> Outcome(merged, TRUE)
        [] configMap.state = "decoded" ->
             Outcome(layered, configMap.ceiling = "malformed" \/ ~Valid(layered))

\* DiscardConfigMapSecurityRequirementsCeiling
Discard(rubric) ==
  IF rubric.origin # "configMap" THEN rubric
  ELSE [rubric EXCEPT !.ceiling = rubric.previous.ceiling, !.origin = rubric.previous.origin]

\* applySecurityRequirementsCeiling: a vector given for the run wins, and the
\* ConfigMap's counts only on demand.
ApplyCeiling(rubric, flag) ==
  CASE flag.given = "vector" -> [rubric EXCEPT !.ceiling = flag.ceiling, !.origin = "runtime"]
    [] flag.given = "configmap" -> rubric
    [] flag.given = "" -> Discard(rubric)

-----------------------------------------------------------------------------
(* The asset                                                               *)

Within(scope, value) == scope = {} \/ value \in scope

\* kindRuleMatches and the tests of the other rules
Matches(list, r, a) ==
  CASE list = "nameRules" -> a.name \in r.of /\ Within(r.namespaces, a.ns)
    [] list = "imageRules" -> a.image # "" /\ a.image \in r.of
    [] list = "kindRules" -> a.kind # "" /\ a.kind \in r.of
                               /\ Within(r.namespaces, a.ns) /\ Within(r.names, a.name)
    [] list = "namespaceRules" -> a.ns \in r.of

Applicable(rubric, a) ==
  FlattenSeq([n \in DOMAIN RuleLists |->
    SelectSeq(rubric[RuleLists[n]], LAMBDA r :
      Matches(RuleLists[n], r, a) /\ Known(rubric, r.profile))])

\* Mutant: a label with an unknown profile is passed over.
ProfileOf_LabelIgnored(rubric, a) ==
  LET known == SelectSeq(<<a.profileLabel, a.nsProfileLabel>>, LAMBDA l : Known(rubric, l))
      rules == Applicable(rubric, a)
  IN  IF known # <<>> THEN Head(known)
      ELSE IF rules # <<>> THEN rules[1].profile ELSE rubric.profile

\* resolveClassification: the label of the workload, that of its namespace, the
\* rules, the default.  A label that is set and names no profile, the empty one
\* too, is not passed over; "unset" stands for a label that is not there.
ProfileOf(rubric, a) ==
  LET rules == Applicable(rubric, a)
  IN  IF a.profileLabel # "unset" THEN a.profileLabel
      ELSE IF a.nsProfileLabel # "unset" THEN a.nsProfileLabel
      ELSE IF rules # <<>> THEN rules[1].profile ELSE rubric.profile

\* An asset without a profile is taken for the most critical there is.
Requirements(rubric, a) ==
  IF Known(rubric, ProfileOf(rubric, a)) THEN rubric.catalog[ProfileOf(rubric, a)]
  ELSE [o \in Objectives |-> "H"]

\* A level of a catalog need not be one of the three: it ranks with the highest
\* and weighs like the middle one (in halves).
RequirementRank(level) == CASE level = "L" -> 1 [] level = "M" -> 2 [] OTHER -> 3
Weight(level) == CASE level = "L" -> 1 [] level = "H" -> 3 [] OTHER -> 2

\* capRequirements: each objective is lowered to the ceiling.
Capped(rubric, a) ==
  [o \in Objectives |->
     IF RequirementRank(Requirements(rubric, a)[o]) <= RequirementRank(rubric.ceiling[o])
     THEN Requirements(rubric, a)[o] ELSE rubric.ceiling[o]]

\* The first value that says anything of what is asked, or the default.
First(values, meant, default) ==
  LET stated == {n \in DOMAIN values : values[n] \in meant}
  IN  IF stated = {} THEN default ELSE values[Min(stated)]

\* resolveMultiAgency, and the fail-safe of an asset without a profile
MultiAgency(rubric, a) ==
  LET label == First(<<a.multiLabel, a.nsMultiLabel>>, {"true", "false"}, "")
  IN  \/ ~Known(rubric, ProfileOf(rubric, a))
      \/ label = "true"
      \/ label = "" /\ (a.ns \in rubric.multiNamespaces \/ rubric.multi)

\* resolveClass; normalizeClass takes anything else for no class.
ClassOf(rubric, a) == First(<<a.classLabel, a.nsClassLabel, rubric.class>>, Classes, "B")

-----------------------------------------------------------------------------
(* The rating                                                              *)

\* baseImpact and impactFromSeverity: the vector has the impacts, or else the
\* severity stands for them.
Shape(f) ==
  IF f.impacts # <<>> THEN f.impacts
  ELSE CASE f.severity = "MEDIUM" -> <<"L", "L", "L">>
         [] f.severity = "LOW" -> <<"L", "N", "N">>
         [] OTHER -> <<"H", "H", "H">>

\* impact: a total technical impact raises what the vector touches.
Impact(f) == [n \in 1..3 |-> IF f.total /\ Shape(f)[n] = "L" THEN "H" ELSE Shape(f)[n]]

\* A hundred times 1 - impact * weight.
Left(impact, requirement) ==
  CASE impact = "N" -> 100
    [] impact = "L" -> 100 - 11 * Weight(requirement)
    [] impact = "H" -> 100 - 28 * Weight(requirement)

\* The thresholds are on 1 - this product (painNormalizationDivisor).
Unharmed(f, requirements) ==
  Left(Impact(f)[1], requirements.CR) * Left(Impact(f)[2], requirements.IR)
    * Left(Impact(f)[3], requirements.AR)

\* wordFromScalar and tierFromWord
Tier(rubric, a, f) ==
  LET left == Unharmed(f, Capped(rubric, a))
      t == rubric.thresholds
      multi == MultiAgency(rubric, a)
  IN  IF left > t.narrow THEN 1
      ELSE IF left > t.disruptive THEN 2
      ELSE IF left > t.debilitating THEN IF multi THEN 4 ELSE 3
      ELSE IF multi THEN 5 ELSE 4

\* Internet-reachable: the route and the attack vector.
IRV(f, reachable) == reachable /\ f.av = "N"

\* Mutant: the thresholds of the two cases are swapped.
LEV_Swapped(rubric, f, reachable) ==
  f.active \/ (f.epss >= 0 /\ f.epss >= (IF IRV(f, reachable) THEN rubric.levNIRV ELSE rubric.levIRV))

\* isLEV: active exploitation, or a known EPSS score at the threshold.
LEV(rubric, f, reachable) ==
  f.active \/ (f.epss >= 0 /\ f.epss >= (IF IRV(f, reachable) THEN rubric.levIRV ELSE rubric.levNIRV))

\* remediationMatrix by class, rating and column; 0 is no deadline.
Row(class, tier) ==
  CASE tier = 1 -> <<0, 0, 0>>
    [] class = "C" /\ tier = 5 -> <<4, 8, 32>>
    [] class = "C" /\ tier = 4 -> <<8, 16, 128>>
    [] class = "C" /\ tier = 3 -> <<32, 64, 256>>
    [] class = "C" /\ tier = 2 -> <<96, 256, 384>>
    [] class = "D" /\ tier = 5 -> <<1, 2, 16>>
    [] class = "D" /\ tier = 4 -> <<4, 16, 64>>
    [] class = "D" /\ tier = 3 -> <<16, 32, 128>>
    [] class = "D" /\ tier = 2 -> <<48, 192, 384>>
    [] class \in {"A", "B"} /\ tier = 5 -> <<8, 16, 64>>
    [] class \in {"A", "B"} /\ tier = 4 -> <<16, 64, 128>>
    [] class \in {"A", "B"} /\ tier = 3 -> <<64, 128, 384>>
    [] class \in {"A", "B"} /\ tier = 2 -> <<192, 320, 384>>

Deadline(class, tier, lev, irv) == Row(class, tier)[IF ~lev THEN 3 ELSE IF irv THEN 1 ELSE 2]

\* Score: the rating and the deadline; those of cloud functions are fixed.
Score(rubric, a, f, reachable) ==
  LET class == ClassOf(rubric, a)
      tier == Tier(rubric, a, f)
  IN  IF a.function THEN [tier |-> 2, days |-> Deadline(class, 2, FALSE, FALSE)]
      ELSE [tier |-> tier,
            days |-> Deadline(class, tier, LEV(rubric, f, reachable), IRV(f, reachable))]

\* deadlineKey: the days that count, no deadline being later than any.
Days(score) == IF score.days = 0 THEN 1000 ELSE score.days

\* moreUrgent: the shorter deadline, then the higher rating.
MoreUrgent(s, t) == Days(s) < Days(t) \/ (Days(s) = Days(t) /\ s.tier > t.tier)
=============================================================================
