------------------------------- MODULE VdrRun -------------------------------
(***************************************************************************)
(* One run of vdr from its arguments to its exit status (cmd/vdr/main.go): *)
(* collect an inventory, assemble registry credentials, scan, enrich,      *)
(* score and write the reports, and then unwind what was deferred, while a *)
(* goroutine asks for the latest release.                                  *)
(*                                                                         *)
(* The seven runX functions differ in how they collect and share the rest. *)
(* The scan is what module ScanRun promises (ScanInventory keeps that      *)
(* promise), under a background context, so it is never cancelled; the     *)
(* credentials are what RegistryBuild ends with.                           *)
(***************************************************************************)
EXTENDS Integers

CONSTANT Images  \* the images of the inventory

Config == [reachabilityOnly : BOOLEAN, \* --reachability-only: no scan at all
           skipAuth : BOOLEAN,         \* --skip-registry-auth
           parallel : BOOLEAN,         \* ParallelScans > 1
           enrich : BOOLEAN,           \* neither --skip-enrichment nor --scan-reachability-only
           html : BOOLEAN,             \* --html-output
           updateCheck : BOOLEAN]      \* no --skip-update-check

VARIABLES
  cfg,
  stage,      \* what the main goroutine does next
  dockerDir,  \* the DOCKER_CONFIG directory of registry.Build
  workerDirs, \* the isolated scan caches
  status, cancelled, outcome, reported, warned,  \* the scan, as in ScanRun
  enriched,   \* "no", "complete" or "incomplete"
  primary,    \* the primary report
  html,       \* the HTML report
  error,      \* what run returns
  update,     \* the lookup of the latest release
  exit        \* the exit status, -1 while running

scan == <<status, cancelled, outcome, reported, warned>>
dirs == <<dockerDir, workerDirs>>
reports == <<enriched, primary, html>>
ended == <<error, exit>>
vars == <<cfg, stage, dirs, scan, reports, ended, update>>

Scan == INSTANCE ScanRun

Stages == {"parse", "collect", "auth", "prepare", "scan", "enrich", "score", "primary",
           "html", "conclude", "removeWorkers", "removeDocker", "await", "ended"}
Outputs == {"none", "partial", "written"}

(***************************************************************************)
(* Type invariant of the run.                                              *)
(***************************************************************************)
TypeOK ==
  /\ cfg \in Config
  /\ stage \in Stages
  /\ dockerDir \in {"none", "made", "removed"} /\ workerDirs \in {"none", "made", "removed"}
  /\ status \in [Images -> {"pending", "scanning", "ok", "failed"}]
  /\ cancelled = FALSE
  /\ outcome \in {"running", "report"}
  /\ reported \in SUBSET Images /\ warned \in SUBSET Images
  /\ enriched \in {"no", "complete", "incomplete"}
  /\ primary \in Outputs /\ html \in Outputs
  /\ error \in {"none", "help", "failures", "fatal"}
  /\ update \in {"off", "asking", "answered"}
  /\ exit \in {-1, 0, 1, 2}

Init ==
  /\ cfg \in Config
  /\ stage = "parse"
  /\ dockerDir = "none" /\ workerDirs = "none"
  /\ Scan!Init /\ cancelled = FALSE
  /\ enriched = "no" /\ primary = "none" /\ html = "none"
  /\ error = "none" /\ exit = -1
  /\ update = "off"

Goto(next) == stage' = next /\ error' = error /\ exit' = exit

\* Every error returns through the calls whose deferred functions still run.
Fail == stage' = "removeWorkers" /\ error' = "fatal" /\ exit' = exit

-----------------------------------------------------------------------------
(* The goroutine of updatecheck.Start: it answers, or its timeout does.    *)

\* Mutant: the lookup has no timeout and the server does not answer.
UpdateAnswers_Never ==
  /\ update = "asking"
  /\ UNCHANGED vars

UpdateAnswers ==
  /\ update = "asking"
  /\ update' = "answered"
  /\ UNCHANGED <<cfg, stage, dirs, scan, reports, ended>>

-----------------------------------------------------------------------------
(* run and the runX functions                                              *)

\* A flag error, or a request for help, ends the run before anything is deferred.
Parse ==
  /\ stage = "parse"
  /\ \/ Goto("collect") /\ update' = IF cfg.updateCheck THEN "asking" ELSE "off"
     \/ stage' = "await" /\ error' \in {"help", "fatal"} /\ exit' = exit /\ update' = update
  /\ UNCHANGED <<cfg, dirs, scan, reports>>

\* Inventory and exposure: an error, or a source that only warns.
Collect ==
  /\ stage = "collect"
  /\ Goto(IF cfg.reachabilityOnly THEN "score" ELSE "auth") \/ Fail
  /\ UNCHANGED <<cfg, dirs, scan, reports, update>>

\* Mutant: the directory is removed when runX has it, and not when runX returns.
BuildCredentials_CleanedAtOnce ==
  /\ stage = "auth"
  /\ \/ Goto("prepare") /\ dockerDir' = dockerDir
     \/ ~cfg.skipAuth /\ Goto("prepare") /\ dockerDir' = "removed"
     \/ ~cfg.skipAuth /\ Fail /\ dockerDir' = dockerDir
  /\ UNCHANGED <<cfg, workerDirs, scan, reports, update>>

\* registry.Build: no directory without credentials, none left by an error.
BuildCredentials ==
  /\ stage = "auth"
  /\ \/ Goto("prepare") /\ dockerDir' = dockerDir
     \/ ~cfg.skipAuth /\ Goto("prepare") /\ dockerDir' = "made"
     \/ ~cfg.skipAuth /\ Fail /\ dockerDir' = dockerDir
  /\ UNCHANGED <<cfg, workerDirs, scan, reports, update>>

-----------------------------------------------------------------------------
(* scanAndReport                                                           *)

\* Neither the databases nor the worker caches can end the run.
Prepare ==
  /\ stage = "prepare"
  /\ Goto("scan")
  /\ \/ workerDirs' = workerDirs
     \/ cfg.parallel /\ workerDirs' = "made"
  /\ UNCHANGED <<cfg, dockerDir, scan, reports, update>>

ScanStep ==
  /\ stage = "scan"
  /\ \/ \E i \in Images : Scan!Begin(i) \/ \E v \in {"ok", "failed"} : Scan!Settle(i, v)
     \/ Scan!Report
  /\ Goto(IF outcome' = "report" THEN "enrich" ELSE "scan")
  /\ UNCHANGED <<cfg, dirs, reports, update>>

\* EnrichFindings: an error of it becomes a warning.
Enrich ==
  /\ stage = "enrich"
  /\ Goto("score")
  /\ enriched' \in IF cfg.enrich THEN {"complete", "incomplete"} ELSE {"no"}
  /\ UNCHANGED <<cfg, dirs, scan, primary, html, update>>

\* The scoring configuration, the ceiling and the cloud configuration.
Score ==
  /\ stage = "score"
  /\ Goto("primary") \/ Fail
  /\ UNCHANGED <<cfg, dirs, scan, reports, update>>

\* The file is created, or standard output used, before the report is rendered.
WritePrimary ==
  /\ stage = "primary"
  /\ \/ primary' = "written" /\ Goto(IF cfg.html THEN "html" ELSE "conclude")
     \/ primary' \in {"none", "partial"} /\ Fail
  /\ UNCHANGED <<cfg, dirs, scan, enriched, html, update>>

WriteHTML ==
  /\ stage = "html"
  /\ \/ html' = "written" /\ Goto("conclude")
     \/ html' \in {"none", "partial"} /\ Fail
  /\ UNCHANGED <<cfg, dirs, scan, enriched, primary, update>>

\* Mutant: failed images are only logged.
Conclude_NoFailures ==
  /\ stage = "conclude"
  /\ Goto("removeWorkers")
  /\ UNCHANGED <<cfg, dirs, scan, reports, update>>

\* A failed scan is reported by the error, after the reports are written.
Conclude ==
  /\ stage = "conclude"
  /\ stage' = "removeWorkers"
  /\ error' = IF warned # {} THEN "failures" ELSE "none"
  /\ exit' = exit
  /\ UNCHANGED <<cfg, dirs, scan, reports, update>>

-----------------------------------------------------------------------------
(* What was deferred, in reverse order, and main.                          *)

Removed(dir) == IF dir = "made" THEN "removed" ELSE dir

\* Mutant: the caches are removed at the end of scanAndReport, not deferred.
RemoveWorkerDirs_NotDeferred ==
  /\ stage = "removeWorkers"
  /\ Goto("removeDocker")
  /\ workerDirs' = IF error = "fatal" THEN workerDirs ELSE Removed(workerDirs)
  /\ UNCHANGED <<cfg, dockerDir, scan, reports, update>>

RemoveWorkerDirs ==
  /\ stage = "removeWorkers"
  /\ Goto("removeDocker")
  /\ workerDirs' = Removed(workerDirs)
  /\ UNCHANGED <<cfg, dockerDir, scan, reports, update>>

RemoveDockerDir ==
  /\ stage = "removeDocker"
  /\ Goto("await")
  /\ dockerDir' = Removed(dockerDir)
  /\ UNCHANGED <<cfg, workerDirs, scan, reports, update>>

Status == CASE error \in {"none", "help"} -> 0
            [] error = "failures" -> 1
            [] error = "fatal" -> 2

\* The notice waits for the lookup; then main turns the error into a status.
AwaitUpdate ==
  /\ stage = "await"
  /\ update # "asking"
  /\ stage' = "ended"
  /\ exit' = Status
  /\ UNCHANGED <<cfg, dirs, scan, reports, error, update>>

Main ==
  \/ Parse
  \/ Collect
  \/ BuildCredentials
  \/ Prepare
  \/ ScanStep
  \/ Enrich
  \/ Score
  \/ WritePrimary
  \/ WriteHTML
  \/ Conclude
  \/ RemoveWorkerDirs
  \/ RemoveDockerDir
  \/ AwaitUpdate

Next == Main \/ UpdateAnswers

\* The scan returns (ScanInventory's EventuallyReturns), the commands the other
\* stages run end, and the lookup is bounded by its timeout.
Spec == Init /\ [][Next]_vars /\ WF_vars(Main) /\ WF_vars(UpdateAnswers)

-----------------------------------------------------------------------------
(***************************************************************************)
(* The exit status is honest.  Zero: every requested report was written    *)
(* and every image was scanned, unless no scan was asked for.  One: every  *)
(* report was written, and it names the images whose scan failed.  "If any *)
(* image fails, vdr exits with a non-zero status after writing the report" *)
(* and no image is missing from it.                                        *)
(***************************************************************************)
ExitIsHonest ==
  LET delivered == primary = "written" /\ (cfg.html => html = "written")
  IN /\ exit = 0 /\ error # "help" =>
          delivered /\ (cfg.reachabilityOnly \/ \A i \in Images : status[i] = "ok")
     /\ exit = 1 => delivered /\ warned # {} /\ warned = {i \in Images : status[i] = "failed"}
     /\ primary = "written" /\ ~cfg.reachabilityOnly => reported \cup warned = Images

(***************************************************************************)
(* What a scan uses outlives it: while any image is scanned, neither the   *)
(* credentials nor the worker caches prepared for it have been removed.    *)
(***************************************************************************)
ResourcesOutliveScans ==
  (\E i \in Images : status[i] \in {"pending", "scanning"}) /\ stage = "scan" =>
    dockerDir # "removed" /\ workerDirs # "removed"

(***************************************************************************)
(* The directory with the credentials "is removed when the run ends", and  *)
(* so are the worker caches, on whichever path run returns; the lookup is  *)
(* not under way any more.                                                 *)
(***************************************************************************)
NothingLeftBehind ==
  exit # -1 => dockerDir # "made" /\ workerDirs # "made" /\ update # "asking"

(***************************************************************************)
(* Every run ends, also when the release server does not answer.           *)
(***************************************************************************)
RunEnds == <>(exit # -1)
=============================================================================
