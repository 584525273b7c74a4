----------------------------- MODULE Enrichment -----------------------------
(***************************************************************************)
(* EnrichFindings of internal/enrich/enrich.go: one pass over the findings *)
(* that asks the EPSS store (internal/enrich/epss) and the Vulnrichment    *)
(* store (module VulnrichmentStore, of which it is the one caller) about   *)
(* each, and turns what fails into a bounded list of warnings.             *)
(***************************************************************************)
EXTENDS VulnrichmentStore

CONSTANTS Total,       \* len(findings)
          IdOf,        \* the CVE of each finding, NoCVE for another identifier
          MaxWarnings, \* maxVulnrichmentWarnings
          Caller       \* the goroutine that runs EnrichFindings

ASSUME EnrichmentAssumption ==
  /\ Callers = {Caller}
  /\ Total \in Nat /\ MaxWarnings \in Nat
  /\ IdOf \in [1 .. Total -> CVEs \cup {NoCVE}]

Findings == 1 .. Total

VARIABLES
  stage,           \* "finding", "epss", "vulnrichment", "lookup" or "returned"
  index,           \* the finding the loop is at
  epssFile,        \* the cached EPSS data set
  epssLoaded,      \* it is in memory
  epssOn,          \* epssStore is not nil
  epssWarned,      \* the warning that EPSS is skipped
  vuln,            \* what the Vulnrichment lookup of each finding returned
  errors,          \* vulnrichmentErrCount
  warnedFor,       \* the findings a warning names
  breakerWarned,   \* vulnrichmentSuppressed, and its warning
  rollup,          \* the number the closing warning gives, 0 without one
  returned         \* "no", "complete", or the error returned

epss == <<epssFile, epssLoaded, epssOn, epssWarned>>
warnings == <<errors, warnedFor, breakerWarned, rollup>>
loop == <<stage, index, vuln, returned>>
enrichVars == <<vars, epss, warnings, loop>>

(***************************************************************************)
(* Type invariant of the pass.                                             *)
(***************************************************************************)
EnrichTypeOK ==
  /\ stage \in {"finding", "epss", "vulnrichment", "lookup", "returned"}
  /\ index \in 1 .. (Total + 1)
  /\ epssFile \in Files
  /\ epssLoaded \in BOOLEAN /\ epssOn \in BOOLEAN /\ epssWarned \in BOOLEAN
  /\ vuln \in [Findings -> Outcomes]
  /\ errors \in 0 .. Total /\ rollup \in 0 .. Total
  /\ warnedFor \in SUBSET Findings
  /\ breakerWarned \in BOOLEAN
  /\ returned \in {"no", "complete"} \cup ContextErrors

EnrichInit ==
  /\ Init
  /\ stage = "finding"
  /\ index = 1
  /\ epssFile \in Files \ {"torn"}
  /\ epssLoaded = FALSE
  /\ epssOn = TRUE
  /\ epssWarned = FALSE
  /\ vuln = [f \in Findings |-> "none"]
  /\ errors = 0
  /\ warnedFor = {}
  /\ breakerWarned = FALSE
  /\ rollup = 0
  /\ returned = "no"

ReturnWith(error) ==
  /\ returned' = error
  /\ stage' = "returned"
  /\ UNCHANGED <<index, vuln>>

\* The head of the loop: the context, then the next finding or the end.
NextFinding ==
  /\ stage = "finding"
  /\ index <= Total
  /\ IF ctxDone THEN ReturnWith("cancelled")
     ELSE stage' = "epss" /\ UNCHANGED <<index, vuln, returned>>
  /\ UNCHANGED <<vars, epss, warnings>>

RollUp(count) == IF count > MaxWarnings THEN count - MaxWarnings ELSE 0

EndOfFindings ==
  /\ stage = "finding"
  /\ index > Total
  /\ rollup' = RollUp(errors)
  /\ ReturnWith("complete")
  /\ UNCHANGED <<vars, epss, errors, warnedFor, breakerWarned>>

-----------------------------------------------------------------------------
(* The EPSS store: load the data set once, from the cache when it is less  *)
(* than a day old and otherwise over HTTP into the cache.                  *)

GoToVulnrichment == stage' = "vulnrichment" /\ UNCHANGED <<index, vuln, returned>>

\* Disabled, or already in memory.
EpssSkipped ==
  /\ stage = "epss"
  /\ ~epssOn \/ epssLoaded
  /\ GoToVulnrichment
  /\ UNCHANGED <<vars, epss, warnings>>

\* Any other error than the context's disables the source and warns once.
EpssError(error) ==
  IF error \in ContextErrors
    THEN ReturnWith(error) /\ UNCHANGED <<epssOn, epssWarned>>
    ELSE epssOn' = FALSE /\ epssWarned' = TRUE /\ GoToVulnrichment

\* Open and parse the cached file.
EpssParse(cached) ==
  IF cached \in Valid
    THEN epssLoaded' = TRUE /\ GoToVulnrichment /\ UNCHANGED <<epssOn, epssWarned>>
    ELSE epssLoaded' = FALSE /\ EpssError("failed")

EpssFromCache ==
  /\ stage = "epss" /\ epssOn /\ ~epssLoaded
  /\ ~ctxDone /\ ~force /\ epssFile \in Young
  /\ EpssParse(epssFile)
  /\ UNCHANGED <<vars, epssFile, warnings>>

\* load checks the context before it reads anything.
EpssCancelled ==
  /\ stage = "epss" /\ epssOn /\ ~epssLoaded
  /\ ctxDone
  /\ ReturnWith("cancelled")
  /\ UNCHANGED <<vars, epss, warnings>>

\* A download is checked to parse and to have rows before it is renamed into the
\* cache.  When it fails, for whatever reason, a cached file of any age is used.
EpssFetch(answer) ==
  /\ stage = "epss" /\ epssOn /\ ~epssLoaded
  /\ force \/ epssFile \notin Young
  /\ answer = "cancelled" => ctxDone
  /\ \/ /\ answer = "ok"
        /\ epssFile' = "fresh"
        /\ EpssParse("fresh")
     \/ /\ answer \notin {"ok", "notFound"}
        /\ epssFile # "absent"
        /\ epssFile' = epssFile
        /\ EpssParse(epssFile)
     \/ /\ answer \notin {"ok", "notFound"}
        /\ epssFile = "absent"
        /\ UNCHANGED <<epssFile, epssLoaded>>
        /\ EpssError(answer)
  /\ UNCHANGED <<vars, warnings>>

-----------------------------------------------------------------------------
(* The Vulnrichment store, through its one caller.                         *)

\* Mutant: the loop does not advance.
NotACVE_Again ==
  /\ stage = "vulnrichment"
  /\ IdOf[index] = NoCVE
  /\ vuln' = [vuln EXCEPT ![index] = "noRecord"]
  /\ stage' = "finding"
  /\ UNCHANGED <<vars, epss, warnings, returned, index>>

\* An identifier that is not a CVE has no record.
NotACVE ==
  /\ stage = "vulnrichment"
  /\ IdOf[index] = NoCVE
  /\ vuln' = [vuln EXCEPT ![index] = "noRecord"]
  /\ index' = index + 1
  /\ stage' = "finding"
  /\ UNCHANGED <<vars, epss, warnings, returned>>

LookUp ==
  /\ stage = "vulnrichment"
  /\ IdOf[index] # NoCVE
  /\ Lookup(Caller, IdOf[index])
  /\ stage' = "lookup"
  /\ UNCHANGED <<epss, warnings, index, vuln, returned>>

StoreStep ==
  /\ stage = "lookup"
  /\ Step(Caller)
  /\ UNCHANGED <<epss, warnings, loop>>

\* Mutant: one warning too few.
Named_OneFewer(count) == count < MaxWarnings

Named(count) == count <= MaxWarnings

\* The errors that are neither the context's nor the two sentinel errors.
Failed == {"failed", "unreadable"}

\* The lookup returned: its error becomes a warning, or ends the pass.
TakeResult ==
  /\ stage = "lookup"
  /\ pc[Caller] = "idle"
  /\ IF result[Caller] \in ContextErrors
       THEN ReturnWith(result[Caller]) /\ UNCHANGED warnings
       ELSE /\ vuln' = [vuln EXCEPT ![index] = result[Caller]]
            /\ index' = index + 1
            /\ stage' = "finding"
            /\ breakerWarned' = (breakerWarned \/ result[Caller] = "unavailable")
            /\ IF result[Caller] \in Failed
                 THEN /\ errors' = errors + 1
                      /\ warnedFor' = IF Named(errors + 1) THEN warnedFor \cup {index} ELSE warnedFor
                 ELSE UNCHANGED <<errors, warnedFor>>
            /\ UNCHANGED <<rollup, returned>>
  /\ UNCHANGED <<vars, epss>>

CancelRun == stage # "returned" /\ Cancel /\ UNCHANGED <<epss, warnings, loop>>

Pass ==
  \/ NextFinding
  \/ EndOfFindings
  \/ EpssSkipped
  \/ EpssFromCache
  \/ EpssCancelled
  \/ \E answer \in Answers : EpssFetch(answer)
  \/ NotACVE
  \/ LookUp
  \/ StoreStep
  \/ TakeResult

EnrichNext == Pass \/ CancelRun

\* The pass is one goroutine that never waits for another one: every exchange
\* ends with the client's timeout and every delay is finite.
EnrichSpec == EnrichInit /\ [][EnrichNext]_enrichVars /\ WF_enrichVars(Pass)

-----------------------------------------------------------------------------
(***************************************************************************)
(* No failure disappears in the bounded warning list: when the pass        *)
(* completes, every lookup that failed is named by a warning or counted by *)
(* the closing one, and the breaker is mentioned exactly when it made some *)
(* finding go without a lookup.                                            *)
(***************************************************************************)
EveryFailureAccounted ==
  returned = "complete" =>
    LET failed == {f \in Findings : vuln[f] \in Failed}
    IN /\ warnedFor \subseteq failed
       /\ Cardinality(failed) = Cardinality(warnedFor) + rollup
       /\ breakerWarned <=> \E f \in Findings : vuln[f] = "unavailable"
       /\ \A f \in Findings : vuln[f] # "none"

(***************************************************************************)
(* "Enrichment is best-effort and non-fatal: network and parsing failures  *)
(* produce Warnings rather than aborting the scan": EnrichFindings returns *)
(* an error only when the context it was given is done.                    *)
(***************************************************************************)
ErrorOnlyIfCancelled == returned \in ContextErrors => ctxDone

(***************************************************************************)
(* The pass ends, however slow or broken the two sources are.              *)
(***************************************************************************)
EnrichmentEnds == <>(stage = "returned")
=============================================================================
