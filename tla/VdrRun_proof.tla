---------------------------- MODULE VdrRun_proof ----------------------------
(***************************************************************************)
(* Safety of a run of vdr for any set of images: what holds at each stage  *)
(* of what was scanned, reported, concluded, made and removed.             *)
(***************************************************************************)
EXTENDS VdrRun, TLAPS

\* The stages before the scan has returned, those of the reports, and those of
\* the unwinding.
BeforeReport == {"parse", "collect", "auth", "prepare", "scan"}
Reporting == {"score", "primary", "html", "conclude"}
Unwinding == {"removeWorkers", "removeDocker", "await", "ended"}

\* The run made a report of a scan that settled every image, or needed none.
Scanned == outcome = "report" \/ cfg.reachabilityOnly
Delivered == primary = "written" /\ (cfg.html => html = "written")

\* ScanRun's promise in this run: the report is of settled images only, and it
\* divides them into reported and warned about.
ScanHonest ==
  /\ outcome = "running" => reported = {} /\ warned = {}
  /\ outcome = "report" =>
       /\ \A i \in Images : status[i] \in {"ok", "failed"}
       /\ reported = {i \in Images : status[i] = "ok"}
       /\ warned = {i \in Images : status[i] = "failed"}
  /\ stage \in BeforeReport => outcome = "running"
  /\ stage = "enrich" => outcome = "report"

\* A report is written only once there is something to report.
ReportsInOrder ==
  /\ stage \in Reporting => Scanned
  /\ primary = "written" => Scanned
  /\ stage \in {"html", "conclude"} => primary = "written"
  /\ stage = "conclude" => Delivered

\* The error of a run says what happened before the unwinding, and the exit
\* status is not there before its end.
ErrorHonest ==
  /\ stage \notin Unwinding => error = "none"
  /\ stage \in Unwinding /\ error = "none" => Scanned /\ Delivered /\ warned = {}
  /\ error = "failures" => outcome = "report" /\ Delivered /\ warned # {}
  /\ exit = IF stage = "ended" THEN Status ELSE -1

\* A directory is removed by its deferred call and by nothing else.
DirsInOrder ==
  /\ stage \in {"parse", "collect", "auth"} => dockerDir = "none"
  /\ stage \in {"parse", "collect", "auth", "prepare"} => workerDirs = "none"
  /\ stage \notin Unwinding => dockerDir # "removed" /\ workerDirs # "removed"
  /\ stage \in {"removeDocker", "await", "ended"} => workerDirs # "made"
  /\ stage \in {"await", "ended"} => dockerDir # "made"
  /\ stage = "ended" => update # "asking"

Inv == TypeOK /\ ScanHonest /\ ReportsInOrder /\ ErrorHonest /\ DirsInOrder

USE DEF BeforeReport, Reporting, Unwinding, scan, dirs, reports, ended

(***************************************************************************)
(* A run starts with its arguments only.                                   *)
(***************************************************************************)
LEMMA InitInv == Init => Inv
<1> SUFFICES ASSUME Init PROVE Inv
  OBVIOUS
<1> USE DEF Init, Scan!Init
<1>1. TypeOK
  BY DEF TypeOK, Stages, Outputs
<1>2. ScanHonest /\ ReportsInOrder /\ ErrorHonest /\ DirsInOrder
  BY DEF ScanHonest, ReportsInOrder, ErrorHonest, DirsInOrder, Scanned
<1> QED
  BY <1>1, <1>2 DEF Inv

(***************************************************************************)
(* The stages up to the scan, which has not begun.                         *)
(***************************************************************************)
LEMMA EarlyInv == ASSUME Inv, Parse \/ Collect \/ BuildCredentials \/ Prepare PROVE Inv'
<1> USE DEF Inv, Parse, Collect, BuildCredentials, Prepare, Goto, Fail
<1>1. TypeOK'
  BY DEF TypeOK, Stages, Config
<1>2. ScanHonest' /\ ReportsInOrder' /\ DirsInOrder'
  BY DEF TypeOK, ScanHonest, ReportsInOrder, DirsInOrder, Scanned, Delivered
<1>3. ErrorHonest'
  BY DEF TypeOK, ErrorHonest, Scanned, Delivered
<1> QED
  BY <1>1, <1>2, <1>3

(***************************************************************************)
(* A step of the scan keeps the promise of ScanRun, and leaves the stage   *)
(* exactly when it reports.                                                *)
(***************************************************************************)
LEMMA ScanStepInv == ASSUME Inv, ScanStep PROVE Inv'
<1> USE DEF Inv, ScanStep, Goto, Scan!Begin, Scan!Settle, Scan!Report
<1>1. TypeOK'
  BY DEF TypeOK, Stages
<1>2. ScanHonest'
  BY DEF TypeOK, ScanHonest
<1>3. ReportsInOrder' /\ DirsInOrder'
  BY DEF TypeOK, ScanHonest, ReportsInOrder, DirsInOrder, Scanned, Delivered
<1>4. ErrorHonest'
  BY DEF TypeOK, ScanHonest, ErrorHonest, Scanned, Delivered
<1> QED
  BY <1>1, <1>2, <1>3, <1>4

(***************************************************************************)
(* Enrichment, scoring and the reports leave the scan's results alone.     *)
(***************************************************************************)
LEMMA ReportInv == ASSUME Inv, Enrich \/ Score \/ WritePrimary \/ WriteHTML PROVE Inv'
<1> USE DEF Inv, Enrich, Score, WritePrimary, WriteHTML, Goto, Fail
<1>1. TypeOK'
  BY DEF TypeOK, Stages, Outputs
<1>2. ScanHonest' /\ DirsInOrder'
  BY DEF TypeOK, ScanHonest, DirsInOrder
<1>3. ReportsInOrder'
  BY DEF TypeOK, ScanHonest, ReportsInOrder, Scanned, Delivered
<1>4. ErrorHonest'
  BY DEF TypeOK, ErrorHonest, Scanned, Delivered
<1> QED
  BY <1>1, <1>2, <1>3, <1>4

(***************************************************************************)
(* The conclusion is drawn from delivered reports, and the deferred calls  *)
(* do not change it.                                                       *)
(***************************************************************************)
LEMMA UnwindInv ==
  ASSUME Inv, Conclude \/ RemoveWorkerDirs \/ RemoveDockerDir \/ AwaitUpdate PROVE Inv'
<1> USE DEF Inv, Conclude, RemoveWorkerDirs, RemoveDockerDir, AwaitUpdate, Goto, Removed
<1>1. TypeOK'
  BY DEF TypeOK, Stages, Status
<1>2. ScanHonest' /\ DirsInOrder'
  BY DEF TypeOK, ScanHonest, DirsInOrder
<1>3. ReportsInOrder'
  BY DEF TypeOK, ReportsInOrder, Scanned, Delivered
<1>4. ErrorHonest'
  BY DEF TypeOK, ScanHonest, ReportsInOrder, ErrorHonest, Scanned, Delivered, Status
<1> QED
  BY <1>1, <1>2, <1>3, <1>4

(***************************************************************************)
(* Every step of a run preserves the invariant.                            *)
(***************************************************************************)
LEMMA NextInv == Inv /\ [Next]_vars => Inv'
<1>1. ASSUME Inv, UpdateAnswers \/ UNCHANGED vars PROVE Inv'
  BY <1>1 DEF UpdateAnswers, vars, Inv, TypeOK, ScanHonest, ReportsInOrder, ErrorHonest,
              DirsInOrder, Scanned, Delivered, Status
<1> QED
  BY <1>1, EarlyInv, ScanStepInv, ReportInv, UnwindInv DEF Next, Main

(***************************************************************************)
(* The invariant holds in every reachable state of a run.                  *)
(***************************************************************************)
THEOREM Invariance == Spec => []Inv
  BY InitInv, NextInv, PTL DEF Spec

(***************************************************************************)
(* Type correctness of the run.                                            *)
(***************************************************************************)
THEOREM TypeCorrect == Spec => []TypeOK
  BY Invariance, PTL DEF Inv

(***************************************************************************)
(* The exit status says truthfully whether every image was scanned and     *)
(* every report written, for any number of images.                         *)
(***************************************************************************)
THEOREM ExitTells == Spec => []ExitIsHonest
<1>1. Inv => ExitIsHonest
  <2> SUFFICES ASSUME Inv PROVE ExitIsHonest
    OBVIOUS
  <2> USE DEF Inv, TypeOK
  <2>1. exit = 0 /\ error # "help" => error = "none" /\ stage \in Unwinding
    BY DEF ErrorHonest, Status
  <2>2. exit = 1 => error = "failures"
    BY DEF ErrorHonest, Status
  <2>3. outcome = "report" => reported \cup warned = Images
    BY DEF ScanHonest
  <2>4. exit = 0 /\ error # "help" =>
          Delivered /\ (cfg.reachabilityOnly \/ \A i \in Images : status[i] = "ok")
    BY <2>1 DEF ErrorHonest, Scanned, ScanHonest
  <2>5. exit = 1 => Delivered /\ warned # {} /\ warned = {i \in Images : status[i] = "failed"}
    BY <2>2 DEF ErrorHonest, ScanHonest
  <2> QED
    BY <2>3, <2>4, <2>5 DEF ExitIsHonest, Delivered, ReportsInOrder, Scanned
<1> QED
  BY <1>1, Invariance, PTL

(***************************************************************************)
(* Credentials and worker caches outlive the scans they were made for.     *)
(***************************************************************************)
THEOREM ScansKeepResources == Spec => []ResourcesOutliveScans
<1>1. Inv => ResourcesOutliveScans
  BY DEF Inv, DirsInOrder, ResourcesOutliveScans
<1> QED
  BY <1>1, Invariance, PTL

(***************************************************************************)
(* On every path, a run that ended has removed its directories and is not  *)
(* asking for the latest release.                                          *)
(***************************************************************************)
THEOREM RunCleansUp == Spec => []NothingLeftBehind
<1>1. Inv => NothingLeftBehind
  BY DEF Inv, ErrorHonest, DirsInOrder, NothingLeftBehind
<1> QED
  BY <1>1, Invariance, PTL
=============================================================================
