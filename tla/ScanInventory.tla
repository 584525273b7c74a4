--------------------------- MODULE ScanInventory ---------------------------
(***************************************************************************)
(* ScanInventoryWithOptions of internal/scanner/trivy.go: the calling      *)
(* goroutine hands the indices of the deduplicated, sorted image list to a *)
(* fixed set of worker goroutines over an unbuffered channel, waits for    *)
(* them, cleans Trivy's scan cache up, and assembles the findings and the  *)
(* warnings from the slice the workers filled in.                          *)
(*                                                                         *)
(* The Runner that scans one image is an interface of the program; here it *)
(* ends each attempt in any way the interface allows (module TrivyRunner   *)
(* composes this module with the runner vdr uses).  The caller may cancel  *)
(* the context at any time; the derived context follows a step later.      *)
(***************************************************************************)
EXTENDS Integers, FiniteSets

CONSTANTS Workers,   \* the worker goroutines: ParallelScans of them
          Total,     \* len(images)
          Retries    \* len(options.RetryDelays): the retries one image may use

ASSUME WorkersAssumption == IsFiniteSet(Workers) /\ Workers # {}
ASSUME TotalAssumption == Total \in Nat
ASSUME RetriesAssumption == Retries \in Nat

Images == 0 .. (Total - 1)
NoJob == -1

Policies == {"auto", "always", "never"}

\* How a scan attempt, or a cleanup, can fail: an error that looks transient,
\* the context's own error, or any other error.
Failures == {"transient", "context", "permanent"}

Result == [err : Failures \cup {"nil"}, completed : BOOLEAN]
ZeroResult == [err |-> "nil", completed |-> FALSE]
Completed == [err |-> "nil", completed |-> TRUE]
Failed(e) == [err |-> e, completed |-> FALSE]

VARIABLES
  parentDone,     \* the caller's context is cancelled
  ctxDone,        \* the derived context is cancelled
  policy,         \* options.CacheCleanup, with the default applied
  pc,             \* where the calling goroutine is
  next,           \* the loop variable index of the dispatch loop
  jobsClosed,     \* close(jobs) has run
  worker,         \* where each worker is
  job,            \* the index each worker is scanning
  attempt,        \* the attempt of that image it is in
  results,        \* the slice results
  cleanupWarned,  \* cleanupWarnings is not empty
  outcome,        \* "running", "report" or "cancelled"
  reported,       \* the images whose findings were returned
  warned          \* the images a returned warning names

context == <<parentDone, ctxDone>>
dispatcher == <<pc, next, jobsClosed, cleanupWarned>>
workers == <<worker, job, attempt, results>>
returned == <<outcome, reported, warned>>
vars == <<context, policy, dispatcher, workers, returned>>

PCs == {"dispatch", "check", "wait", "plan", "clean", "recheck", "assemble", "done"}

(***************************************************************************)
(* Type invariant: a state of the scan is one the program's variables can  *)
(* hold (the index within its loop's bounds, attempts within the retries). *)
(***************************************************************************)
TypeOK ==
  /\ parentDone \in BOOLEAN /\ ctxDone \in BOOLEAN
  /\ policy \in Policies
  /\ pc \in PCs
  /\ next \in 0 .. Total
  /\ jobsClosed \in BOOLEAN
  /\ worker \in [Workers -> {"idle", "scanning", "backoff", "exited"}]
  /\ job \in [Workers -> Images \cup {NoJob}]
  /\ attempt \in [Workers -> 1 .. (Retries + 1)]
  /\ results \in [Images -> Result]
  /\ cleanupWarned \in BOOLEAN
  /\ outcome \in {"running", "report", "cancelled"}
  /\ reported \in SUBSET Images
  /\ warned \in SUBSET Images

Init ==
  /\ parentDone \in BOOLEAN
  /\ ctxDone = parentDone
  /\ policy \in Policies
  /\ pc = "dispatch"
  /\ next = 0
  /\ jobsClosed = FALSE
  /\ worker = [w \in Workers |-> "idle"]
  /\ job = [w \in Workers |-> NoJob]
  /\ attempt = [w \in Workers |-> 1]
  /\ results = [i \in Images |-> ZeroResult]
  /\ cleanupWarned = FALSE
  /\ outcome = "running"
  /\ reported = {}
  /\ warned = {}

-----------------------------------------------------------------------------
(* The caller's context, and the derived one that follows it.              *)

Cancel ==
  /\ outcome = "running"
  /\ ~parentDone
  /\ parentDone' = TRUE
  /\ UNCHANGED <<ctxDone, policy, dispatcher, workers, returned>>

Propagate ==
  /\ parentDone
  /\ ~ctxDone
  /\ ctxDone' = TRUE
  /\ UNCHANGED <<parentDone, policy, dispatcher, workers, returned>>

-----------------------------------------------------------------------------
(* The dispatch loop: select on the context and on the channel, then look  *)
(* at the context again before the next index.                             *)

\* A send on the unbuffered channel meets a worker that waits in its range loop.
Send(w) ==
  /\ pc = "dispatch"
  /\ next < Total
  /\ worker[w] = "idle"
  /\ worker' = [worker EXCEPT ![w] = "scanning"]
  /\ job' = [job EXCEPT ![w] = next]
  /\ attempt' = [attempt EXCEPT ![w] = 1]
  /\ pc' = "check"
  /\ UNCHANGED <<context, policy, next, jobsClosed, cleanupWarned, results, returned>>

\* The select takes <-ctx.Done(): this index goes to no worker.
SkipSend ==
  /\ pc = "dispatch"
  /\ next < Total
  /\ ctxDone
  /\ pc' = "check"
  /\ UNCHANGED <<context, policy, next, jobsClosed, cleanupWarned, workers, returned>>

\* Mutant: the channel is never closed.
CloseJobs_Forgotten ==
  /\ pc' = "wait"
  /\ UNCHANGED <<context, policy, next, jobsClosed, cleanupWarned, workers, returned>>

CloseJobs ==
  /\ jobsClosed' = TRUE
  /\ pc' = "wait"
  /\ UNCHANGED <<context, policy, next, cleanupWarned, workers, returned>>

\* Mutant: the loop stops one index short.
EndDispatch_OneShort == pc = "dispatch" /\ next >= Total - 1 /\ CloseJobs

EndDispatch == pc = "dispatch" /\ next = Total /\ CloseJobs

\* Mutant: the index is not advanced.
CheckContext_SameIndex ==
  /\ pc = "check"
  /\ \/ ctxDone /\ CloseJobs
     \/ ~ctxDone /\ pc' = "dispatch"
        /\ UNCHANGED <<context, policy, next, jobsClosed, cleanupWarned, workers, returned>>

\* Mutant: the context is not looked at after the select.
CheckContext_Unchecked ==
  /\ pc = "check"
  /\ next' = next + 1
  /\ pc' = "dispatch"
  /\ UNCHANGED <<context, policy, jobsClosed, cleanupWarned, workers, returned>>

CheckContext ==
  /\ pc = "check"
  /\ \/ ctxDone /\ CloseJobs
     \/ /\ ~ctxDone
        /\ next' = next + 1
        /\ pc' = "dispatch"
        /\ UNCHANGED <<context, policy, jobsClosed, cleanupWarned, workers, returned>>

-----------------------------------------------------------------------------
(* A worker: its scan attempts, the retries of one image, its exit.        *)

\* scanIndex stores the image's result and the worker returns to its loop.
Record(w, result) ==
  /\ results' = [results EXCEPT ![job[w]] = result]
  /\ worker' = [worker EXCEPT ![w] = "idle"]
  /\ job' = [job EXCEPT ![w] = NoJob]
  /\ UNCHANGED <<context, policy, dispatcher, attempt, returned>>

ScanSucceeds(w) ==
  /\ worker[w] = "scanning"
  /\ Record(w, Completed)

\* The context's own error comes only from a context that is done.
ScanFails(w, e) ==
  /\ worker[w] = "scanning"
  /\ e = "context" => ctxDone
  /\ IF e = "transient" /\ attempt[w] <= Retries
       THEN /\ worker' = [worker EXCEPT ![w] = "backoff"]
            /\ UNCHANGED <<context, policy, dispatcher, job, attempt, results, returned>>
       ELSE Record(w, Failed(e))

RetryScan(w) ==
  /\ worker[w] = "backoff"
  /\ worker' = [worker EXCEPT ![w] = "scanning"]
  /\ attempt' = [attempt EXCEPT ![w] = @ + 1]
  /\ UNCHANGED <<context, policy, dispatcher, job, results, returned>>

\* waitRetryDelay returns ctx.Err(), which is then the image's error.
BackoffCancelled(w) ==
  /\ worker[w] = "backoff"
  /\ ctxDone
  /\ Record(w, Failed("context"))

\* The range loop ends when the channel is closed: no index is buffered in it.
WorkerExits(w) ==
  /\ jobsClosed
  /\ worker[w] = "idle"
  /\ worker' = [worker EXCEPT ![w] = "exited"]
  /\ UNCHANGED <<context, policy, dispatcher, job, attempt, results, returned>>

-----------------------------------------------------------------------------
(* After the last index: wait for the workers, clean up, assemble.         *)

\* Returning runs the deferred cancel() of the derived context.
Return(o) ==
  /\ outcome' = o
  /\ ctxDone' = TRUE
  /\ pc' = "done"
  /\ UNCHANGED <<parentDone, policy, next, jobsClosed, cleanupWarned, workers>>

ReturnCancelled == Return("cancelled") /\ UNCHANGED <<reported, warned>>

Goto(label) ==
  /\ pc' = label
  /\ UNCHANGED <<context, policy, next, jobsClosed, cleanupWarned, workers, returned>>

CleanupWanted == policy # "never" /\ \E i \in Images : results[i].completed

\* Mutant: the workers are not waited for.
Join_WithoutWaiting ==
  /\ pc = "wait"
  /\ \/ parentDone /\ ReturnCancelled
     \/ ~parentDone /\ CleanupWanted /\ Goto("plan")
     \/ ~parentDone /\ ~CleanupWanted /\ Goto("assemble")

\* Mutant: the parent context is not looked at.
Join_ParentIgnored ==
  /\ pc = "wait"
  /\ \A w \in Workers : worker[w] = "exited"
  /\ \/ CleanupWanted /\ Goto("plan")
     \/ ~CleanupWanted /\ Goto("assemble")

Join ==
  /\ pc = "wait"
  /\ \A w \in Workers : worker[w] = "exited"
  /\ \/ parentDone /\ ReturnCancelled
     \/ ~parentDone /\ CleanupWanted /\ Goto("plan")
     \/ ~parentDone /\ ~CleanupWanted /\ Goto("assemble")

\* A cleanup error only warns, unless the run was cancelled.
CleanupFails(e) ==
  \/ /\ parentDone \/ e = "context" \/ ctxDone
     /\ ReturnCancelled
  \/ /\ ~parentDone /\ e # "context" /\ ~ctxDone
     /\ cleanupWarned' = TRUE
     /\ pc' = "recheck"
     /\ UNCHANGED <<context, policy, next, jobsClosed, workers, returned>>

\* Cleanup: policy "auto" first measures the free space of the cache's disk.
PlanCleanup ==
  /\ pc = "plan"
  /\ \/ Goto("clean")
     \/ policy = "auto" /\ Goto("recheck")
     \/ policy = "auto" /\ CleanupFails("permanent")

\* The process `trivy clean --scan-cache` ends.
EndCleanup ==
  /\ pc = "clean"
  /\ \/ Goto("recheck")
     \/ CleanupFails("permanent")
     \/ ctxDone /\ CleanupFails("context")

RecheckContext ==
  /\ pc = "recheck"
  /\ \/ ctxDone /\ ReturnCancelled
     \/ ~ctxDone /\ Goto("assemble")

\* Mutant: a failed image is warned about and also reported as scanned.
Assemble_NoContinue ==
  /\ pc = "assemble"
  /\ Return("report")
  /\ reported' = Images
  /\ warned' = {i \in Images : results[i].err # "nil"}

\* Results are told apart by their error alone, as the loop over them does.
Assemble ==
  /\ pc = "assemble"
  /\ Return("report")
  /\ reported' = {i \in Images : results[i].err = "nil"}
  /\ warned' = {i \in Images : results[i].err # "nil"}

-----------------------------------------------------------------------------
Dispatcher ==
  \/ \E w \in Workers : Send(w)
  \/ SkipSend
  \/ CheckContext
  \/ EndDispatch
  \/ Join
  \/ PlanCleanup
  \/ EndCleanup
  \/ RecheckContext
  \/ Assemble

EndAttempt(w) == ScanSucceeds(w) \/ \E e \in Failures : ScanFails(w, e)

Worker(w) ==
  \/ EndAttempt(w)
  \/ RetryScan(w)
  \/ BackoffCancelled(w)
  \/ WorkerExits(w)

Next ==
  \/ Cancel
  \/ Propagate
  \/ Dispatcher
  \/ \E w \in Workers : Worker(w)

\* The goroutines are scheduled, a scan ends (each runs with --timeout) and so
\* does a delay or a cleanup.  Nothing obliges the caller to cancel.
Fairness ==
  /\ WF_vars(Propagate)
  /\ WF_vars(Dispatcher)
  /\ \A w \in Workers : WF_vars(Worker(w))

Spec == Init /\ [][Next]_vars
FairSpec == Spec /\ Fairness

-----------------------------------------------------------------------------
(***************************************************************************)
(* No image is silently dropped: when a report is returned, every image of *)
(* the inventory either completed its scan and is in the findings, or has  *)
(* a recorded error and is named by a warning.  The assembling loop cannot *)
(* tell a never-written zero result from a clean image, so this rests on   *)
(* the order of dispatch, cancellation check, join and parent check.       *)
(***************************************************************************)
NoImageDropped ==
  outcome = "report" =>
    /\ \A i \in Images : results[i] # ZeroResult
    /\ reported = {i \in Images : results[i].completed}
    /\ warned = Images \ reported

(***************************************************************************)
(* A report never blames the cancellation of the run on an image: a scan   *)
(* or a delay cut short by the context makes the whole run return the      *)
(* context's error, whenever the cancellation arrived.                     *)
(***************************************************************************)
NoReportOfCancelledScan ==
  outcome = "report" => \A i \in Images : results[i].err # "context"

(***************************************************************************)
(* `trivy clean --scan-cache` deletes the cache every scan writes to: from *)
(* the moment the cleanup is considered until the call returns, no worker  *)
(* is scanning, waiting to retry, or still able to take an index.          *)
(***************************************************************************)
CleanupAlone ==
  pc \in {"plan", "clean", "recheck", "assemble", "done"} =>
    \A w \in Workers : worker[w] = "exited"

(***************************************************************************)
(* One image, one scan: no two workers scan the same index at a time, and  *)
(* no worker scans an index whose result is already in the slice (the      *)
(* slice is written without a lock).                                       *)
(***************************************************************************)
OneScanPerImage ==
  \A w \in Workers : job[w] # NoJob =>
    /\ results[job[w]] = ZeroResult
    /\ \A v \in Workers \ {w} : job[v] # job[w]

(***************************************************************************)
(* A recorded result is final: no later step of any worker replaces it.    *)
(***************************************************************************)
ResultsAreFinal ==
  [][\A i \in Images : results[i] # ZeroResult => results'[i] = results[i]]_vars

(***************************************************************************)
(* The call returns, whatever fails and whenever the caller cancels.       *)
(***************************************************************************)
EventuallyReturns == <>(outcome # "running")

-----------------------------------------------------------------------------
(* The inductive invariant behind the safety properties.                   *)

Settled(i) == results[i] # ZeroResult
InFlight(i) == \E w \in Workers : job[w] = i
Dispatched(i) == Settled(i) \/ InFlight(i)

\* A stored result is that of a completed scan or of an error.
ResultsWellFormed ==
  \A i \in Images : results[i].completed <=> (Settled(i) /\ results[i].err = "nil")

WorkersBusy ==
  \A w \in Workers :
    /\ worker[w] \in {"scanning", "backoff"} <=> job[w] # NoJob
    /\ worker[w] = "exited" => jobsClosed
    /\ worker[w] = "backoff" => attempt[w] <= Retries

\* Nothing above the loop's index has been dispatched, everything below it has.
LoopIndex ==
  /\ \A i \in Images : Dispatched(i) => (i < next \/ (i = next /\ pc # "dispatch"))
  /\ \A i \in Images : i < next => Dispatched(i)
  /\ pc = "check" => next < Total /\ (ctxDone \/ Dispatched(next))

\* The loop ends early only on cancellation.
LoopEnd == /\ jobsClosed <=> pc \notin {"dispatch", "check"}
           /\ pc = "wait" => ctxDone \/ next = Total

\* What the join establishes, and a later cancellation cannot take back.
Joined ==
  pc \in {"plan", "clean", "recheck", "assemble"} =>
    \A i \in Images : Settled(i) /\ results[i].err # "context"

Cancellation ==
  /\ pc # "done" <=> outcome = "running"
  /\ pc # "done" /\ ctxDone => parentDone
  /\ outcome = "cancelled" => parentDone
  /\ \A i \in Images : results[i].err = "context" => ctxDone

NothingReturnedYet == outcome # "report" => reported = {} /\ warned = {}

Inv ==
  /\ TypeOK
  /\ ResultsWellFormed
  /\ WorkersBusy
  /\ OneScanPerImage
  /\ LoopIndex
  /\ LoopEnd
  /\ CleanupAlone
  /\ Joined
  /\ Cancellation
  /\ NothingReturnedYet
  /\ NoImageDropped
  /\ NoReportOfCancelledScan

-----------------------------------------------------------------------------
\* The promise this scan keeps (module ScanRun), read off its own state.
StatusOf(i) ==
  IF \E w \in Workers : job[w] = i THEN "scanning"
  ELSE IF results[i].completed THEN "ok"
  ELSE IF results[i].err # "nil" THEN "failed"
  ELSE "pending"

Promise == INSTANCE ScanRun WITH
  status <- [i \in Images |-> StatusOf(i)],
  cancelled <- parentDone

(***************************************************************************)
(* The scan implements the promise: every image begun once and settled     *)
(* once, a report only of settled images, an abandoned run only after a    *)
(* cancellation and with no scan left in flight.                           *)
(***************************************************************************)
KeepsPromise == Promise!Spec
=============================================================================
