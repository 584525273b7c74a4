------------------------ MODULE ScanInventory_proof ------------------------
(***************************************************************************)
(* Safety of the inventory scan for any number of workers, images and      *)
(* retries, from the inductive invariant Inv of ScanInventory.             *)
(***************************************************************************)
EXTENDS MCScanInventory, TLAPS

USE DEF Images, NoJob, Policies, Failures, Result, ZeroResult, Completed, Failed,
        PCs, context, dispatcher, workers, returned

(***************************************************************************)
(* The scan starts in a state that satisfies the invariant.                *)
(***************************************************************************)
LEMMA InitInv == Init => Inv
<1> SUFFICES ASSUME Init PROVE Inv
  OBVIOUS
<1> USE TotalAssumption, RetriesAssumption DEF Init
<1>1. TypeOK
  <2>0. parentDone \in BOOLEAN /\ ctxDone \in BOOLEAN /\ jobsClosed \in BOOLEAN
    OBVIOUS
  <2>4. policy \in Policies /\ pc \in PCs /\ next \in 0 .. Total
    OBVIOUS
  <2>1. worker \in [Workers -> {"idle", "scanning", "backoff", "exited"}]
    OBVIOUS
  <2>2. job \in [Workers -> Images \cup {NoJob}] /\ attempt \in [Workers -> 1 .. (Retries + 1)]
    OBVIOUS
  <2>3. results \in [Images -> Result]
    OBVIOUS
  <2> QED
    BY <2>0, <2>1, <2>2, <2>3, <2>4 DEF TypeOK
<1>2. ResultsWellFormed /\ WorkersBusy /\ OneScanPerImage
  BY DEF ResultsWellFormed, WorkersBusy, OneScanPerImage, Settled
<1>3. LoopIndex /\ LoopEnd
  BY DEF LoopIndex, LoopEnd, Dispatched, Settled, InFlight
<1>4. CleanupAlone /\ Joined /\ Cancellation /\ NothingReturnedYet
  BY DEF CleanupAlone, Joined, Cancellation, NothingReturnedYet
<1>5. NoImageDropped /\ NoReportOfCancelledScan
  BY DEF NoImageDropped, NoReportOfCancelledScan
<1> QED
  BY <1>1, <1>2, <1>3, <1>4, <1>5 DEF Inv

(***************************************************************************)
(* A send hands the loop's index, which nobody had, to an idle worker.     *)
(***************************************************************************)
LEMMA SendInv == ASSUME Inv, NEW w \in Workers, Send(w) PROVE Inv'
<1> USE TotalAssumption, RetriesAssumption DEF Inv, Send
<1>a. next \in Images /\ ~Dispatched(next)
  BY DEF LoopIndex, TypeOK
<1>b. \A i \in Images : Dispatched(i)' <=> Dispatched(i) \/ i = next
  BY <1>a DEF Dispatched, InFlight, Settled, WorkersBusy, TypeOK
<1>1. TypeOK'
  BY DEF TypeOK
<1>2. ResultsWellFormed'
  BY DEF ResultsWellFormed, Settled
<1>3. WorkersBusy'
  BY <1>a DEF WorkersBusy, TypeOK
<1>4. OneScanPerImage'
  BY <1>a DEF OneScanPerImage, Dispatched, Settled, InFlight, TypeOK
<1>5. LoopIndex'
  BY <1>a, <1>b DEF LoopIndex, TypeOK
<1>6. LoopEnd' /\ CleanupAlone' /\ Joined'
  BY DEF LoopEnd, CleanupAlone, Joined
<1>7. Cancellation' /\ NothingReturnedYet'
  BY DEF Cancellation, NothingReturnedYet
<1>8. NoImageDropped' /\ NoReportOfCancelledScan'
  BY DEF NoImageDropped, NoReportOfCancelledScan
<1> QED
  BY <1>1, <1>2, <1>3, <1>4, <1>5, <1>6, <1>7, <1>8

(***************************************************************************)
(* Everything but the results, the workers and their jobs may change when  *)
(* the invariant speaks of what was dispatched.                            *)
(***************************************************************************)
LEMMA DispatchedUnchanged ==
  ASSUME UNCHANGED <<job, results>>
  PROVE  \A i \in Images : /\ Dispatched(i)' <=> Dispatched(i)
                           /\ Settled(i)' <=> Settled(i)
BY DEF Dispatched, Settled, InFlight

(***************************************************************************)
(* The other steps of the dispatch loop.                                   *)
(***************************************************************************)
LEMMA LoopInv ==
  ASSUME Inv, SkipSend \/ CheckContext \/ EndDispatch PROVE Inv'
<1> USE TotalAssumption, RetriesAssumption DEF Inv, SkipSend, CheckContext, EndDispatch, CloseJobs
<1>a. \A i \in Images : (Dispatched(i)' <=> Dispatched(i)) /\ (Settled(i)' <=> Settled(i))
  BY DispatchedUnchanged
<1>1. TypeOK'
  <2>1. next' \in 0 .. Total
    BY DEF TypeOK, LoopIndex
  <2> QED
    BY <2>1 DEF TypeOK
<1>2. ResultsWellFormed'
  BY <1>a DEF ResultsWellFormed
<1>3. WorkersBusy'
  BY DEF WorkersBusy
<1>4. OneScanPerImage'
  BY DEF OneScanPerImage
<1>5. LoopIndex'
  BY <1>a DEF LoopIndex, TypeOK
<1>6. LoopEnd' /\ CleanupAlone' /\ Joined'
  BY DEF LoopEnd, CleanupAlone, Joined
<1>7. Cancellation' /\ NothingReturnedYet'
  BY DEF Cancellation, NothingReturnedYet
<1>8. NoImageDropped' /\ NoReportOfCancelledScan'
  BY DEF NoImageDropped, NoReportOfCancelledScan
<1> QED
  BY <1>1, <1>2, <1>3, <1>4, <1>5, <1>6, <1>7, <1>8

(***************************************************************************)
(* A worker stores the result of its image: the image stays dispatched,    *)
(* no other worker has it, and only a done context records its own error.  *)
(***************************************************************************)
LEMMA RecordInv ==
  ASSUME Inv, NEW w \in Workers, worker[w] \in {"scanning", "backoff"},
         NEW r \in Result, r # ZeroResult, r.completed <=> r.err = "nil",
         r.err = "context" => ctxDone,
         Record(w, r)
  PROVE  Inv'
<1> USE TotalAssumption, RetriesAssumption DEF Inv, Record
<1>a. job[w] \in Images /\ ~Settled(job[w])
  BY DEF WorkersBusy, OneScanPerImage, TypeOK, Settled
<1>b. \A i \in Images : Dispatched(i)' <=> Dispatched(i)
  BY <1>a DEF Dispatched, InFlight, Settled, WorkersBusy, OneScanPerImage, TypeOK
<1>c. \A i \in Images : results'[i] = IF i = job[w] THEN r ELSE results[i]
  BY <1>a DEF TypeOK
<1>d. pc \in {"dispatch", "check", "wait"} /\ outcome = "running"
  BY DEF CleanupAlone, Cancellation, TypeOK
<1>1. TypeOK'
  BY <1>a DEF TypeOK
<1>2. ResultsWellFormed'
  BY <1>a, <1>c DEF ResultsWellFormed, Settled
<1>3. WorkersBusy'
  BY DEF WorkersBusy, TypeOK
<1>4. OneScanPerImage'
  BY <1>a, <1>c DEF OneScanPerImage, TypeOK
<1>5. LoopIndex'
  BY <1>b DEF LoopIndex, TypeOK
<1>6. LoopEnd' /\ CleanupAlone' /\ Joined'
  BY <1>d DEF LoopEnd, CleanupAlone, Joined
<1>7. Cancellation' /\ NothingReturnedYet'
  BY <1>c DEF Cancellation, NothingReturnedYet
<1>8. NoImageDropped' /\ NoReportOfCancelledScan'
  BY <1>d DEF NoImageDropped, NoReportOfCancelledScan
<1> QED
  BY <1>1, <1>2, <1>3, <1>4, <1>5, <1>6, <1>7, <1>8

(***************************************************************************)
(* The other steps of a worker leave every result and every job alone.     *)
(***************************************************************************)
LEMMA WorkerPausesInv ==
  ASSUME Inv, NEW w \in Workers,
         \/ /\ worker[w] = "scanning" /\ attempt[w] <= Retries
            /\ worker' = [worker EXCEPT ![w] = "backoff"]
            /\ UNCHANGED <<context, policy, dispatcher, job, attempt, results, returned>>
         \/ RetryScan(w)
         \/ WorkerExits(w)
  PROVE  Inv'
<1> USE TotalAssumption, RetriesAssumption DEF Inv, RetryScan, WorkerExits
<1>a. \A i \in Images : (Dispatched(i)' <=> Dispatched(i)) /\ (Settled(i)' <=> Settled(i))
  BY DispatchedUnchanged
<1>1. TypeOK'
  <2>1. worker' \in [Workers -> {"idle", "scanning", "backoff", "exited"}]
    BY DEF TypeOK
  <2>2. attempt' \in [Workers -> 1 .. (Retries + 1)]
    <3>1. CASE RetryScan(w)
      <4>1. attempt[w] + 1 \in 1 .. (Retries + 1)
        BY <3>1 DEF TypeOK, WorkersBusy
      <4> QED
        BY <3>1, <4>1 DEF TypeOK
    <3>2. CASE attempt' = attempt
      BY <3>2 DEF TypeOK
    <3> QED
      BY <3>1, <3>2
  <2>3. job' \in [Workers -> Images \cup {NoJob}] /\ results' \in [Images -> Result]
    BY DEF TypeOK
  <2>4. /\ UNCHANGED <<parentDone, ctxDone, policy, pc, next, jobsClosed>>
        /\ UNCHANGED <<cleanupWarned, outcome, reported, warned>>
    OBVIOUS
  <2> QED
    BY <2>1, <2>2, <2>3, <2>4 DEF TypeOK
<1>2. ResultsWellFormed'
  BY <1>a DEF ResultsWellFormed
<1>3. WorkersBusy'
  BY DEF WorkersBusy, TypeOK
<1>4. OneScanPerImage'
  BY DEF OneScanPerImage
<1>5. LoopIndex'
  BY <1>a DEF LoopIndex, TypeOK
<1>6. LoopEnd' /\ CleanupAlone' /\ Joined'
  BY <1>a DEF LoopEnd, CleanupAlone, Joined, TypeOK
<1>7. Cancellation' /\ NothingReturnedYet'
  BY DEF Cancellation, NothingReturnedYet
<1>8. NoImageDropped' /\ NoReportOfCancelledScan'
  BY DEF NoImageDropped, NoReportOfCancelledScan
<1> QED
  BY <1>1, <1>2, <1>3, <1>4, <1>5, <1>6, <1>7, <1>8

(***************************************************************************)
(* Every step of a worker preserves the invariant.                         *)
(***************************************************************************)
LEMMA WorkerInv == ASSUME Inv, NEW w \in Workers, Worker(w) PROVE Inv'
<1>1. CASE ScanSucceeds(w)
  BY <1>1, RecordInv DEF ScanSucceeds
<1>2. ASSUME NEW e \in Failures, ScanFails(w, e) PROVE Inv'
  <2>1. CASE e = "transient" /\ attempt[w] <= Retries
    BY <1>2, <2>1, WorkerPausesInv DEF ScanFails
  <2>2. CASE ~(e = "transient" /\ attempt[w] <= Retries)
    BY <1>2, <2>2, RecordInv DEF ScanFails
  <2> QED
    BY <2>1, <2>2
<1>3. CASE BackoffCancelled(w)
  BY <1>3, RecordInv DEF BackoffCancelled
<1>4. CASE RetryScan(w) \/ WorkerExits(w)
  BY <1>4, WorkerPausesInv
<1> QED
  BY <1>1, <1>2, <1>3, <1>4 DEF Worker, EndAttempt

(***************************************************************************)
(* The caller's cancellation, and the derived context that follows it.     *)
(***************************************************************************)
LEMMA ContextInv == ASSUME Inv, Cancel \/ Propagate PROVE Inv'
<1> USE DEF Inv, Cancel, Propagate
<1>a. \A i \in Images : (Dispatched(i)' <=> Dispatched(i)) /\ (Settled(i)' <=> Settled(i))
  BY DispatchedUnchanged
<1>1. TypeOK'
  BY DEF TypeOK
<1>2. ResultsWellFormed' /\ WorkersBusy' /\ OneScanPerImage'
  BY <1>a DEF ResultsWellFormed, WorkersBusy, OneScanPerImage
<1>3. LoopIndex'
  BY <1>a, TotalAssumption DEF LoopIndex, TypeOK
<1>4. LoopEnd' /\ CleanupAlone' /\ Joined'
  BY <1>a DEF LoopEnd, CleanupAlone, Joined
<1>5. Cancellation' /\ NothingReturnedYet'
  BY DEF Cancellation, NothingReturnedYet, TypeOK
<1>6. NoImageDropped' /\ NoReportOfCancelledScan'
  BY DEF NoImageDropped, NoReportOfCancelledScan
<1> QED
  BY <1>1, <1>2, <1>3, <1>4, <1>5, <1>6

(***************************************************************************)
(* Returning the context's error: any time after the loop, once every      *)
(* worker has exited and the caller has cancelled.                         *)
(***************************************************************************)
LEMMA ReturnCancelledInv ==
  ASSUME Inv, ReturnCancelled, pc \notin {"dispatch", "check", "done"}, parentDone,
         \A w \in Workers : worker[w] = "exited"
  PROVE  Inv'
<1> USE DEF Inv, ReturnCancelled, Return
<1>a. \A i \in Images : (Dispatched(i)' <=> Dispatched(i)) /\ (Settled(i)' <=> Settled(i))
  BY DispatchedUnchanged
<1>1. TypeOK'
  BY DEF TypeOK
<1>2. ResultsWellFormed' /\ WorkersBusy' /\ OneScanPerImage'
  BY <1>a DEF ResultsWellFormed, WorkersBusy, OneScanPerImage
<1>3. LoopIndex'
  BY <1>a DEF LoopIndex
<1>4. LoopEnd' /\ CleanupAlone' /\ Joined'
  BY DEF LoopEnd, CleanupAlone, Joined
<1>5. Cancellation' /\ NothingReturnedYet'
  BY DEF Cancellation, NothingReturnedYet
<1>6. NoImageDropped' /\ NoReportOfCancelledScan'
  BY DEF NoImageDropped, NoReportOfCancelledScan
<1> QED
  BY <1>1, <1>2, <1>3, <1>4, <1>5, <1>6

(***************************************************************************)
(* Going on after the join: every result is settled and none is the        *)
(* context's, which no later step can change.                              *)
(***************************************************************************)
LEMMA GoOnInv ==
  ASSUME Inv, pc \notin {"dispatch", "check", "done"},
         \A w \in Workers : worker[w] = "exited",
         \A i \in Images : Settled(i) /\ results[i].err # "context",
         pc' \in {"plan", "clean", "recheck", "assemble"},
         cleanupWarned' \in BOOLEAN,
         UNCHANGED <<context, policy, next, jobsClosed, workers, returned>>
  PROVE  Inv'
<1> USE DEF Inv
<1>a. \A i \in Images : (Dispatched(i)' <=> Dispatched(i)) /\ (Settled(i)' <=> Settled(i))
  BY DispatchedUnchanged
<1>1. TypeOK'
  BY DEF TypeOK
<1>2. ResultsWellFormed' /\ WorkersBusy' /\ OneScanPerImage'
  BY <1>a DEF ResultsWellFormed, WorkersBusy, OneScanPerImage
<1>3. LoopIndex'
  BY <1>a DEF LoopIndex
<1>4. LoopEnd' /\ CleanupAlone' /\ Joined'
  BY <1>a DEF LoopEnd, CleanupAlone, Joined
<1>5. Cancellation' /\ NothingReturnedYet'
  BY DEF Cancellation, NothingReturnedYet
<1>6. NoImageDropped' /\ NoReportOfCancelledScan'
  BY DEF NoImageDropped, NoReportOfCancelledScan
<1> QED
  BY <1>1, <1>2, <1>3, <1>4, <1>5, <1>6

(***************************************************************************)
(* The join.  Without a cancellation the loop ran to its end, so every     *)
(* image was dispatched; with all workers gone none is in flight.          *)
(***************************************************************************)
LEMMA JoinInv == ASSUME Inv, Join PROVE Inv'
<1> USE DEF Inv, Join
<1>1. CASE parentDone /\ ReturnCancelled
  BY <1>1, ReturnCancelledInv
<1>2. CASE ~parentDone /\ (Goto("plan") \/ Goto("assemble"))
  <2>1. ~ctxDone /\ next = Total
    BY <1>2 DEF Cancellation, LoopEnd
  <2>2. \A i \in Images : ~InFlight(i)
    BY DEF InFlight, WorkersBusy
  <2>3. \A i \in Images : Settled(i) /\ results[i].err # "context"
    BY <2>1, <2>2, TotalAssumption DEF LoopIndex, Dispatched, Cancellation
  <2>4. pc' \in {"plan", "assemble"} /\ cleanupWarned' \in BOOLEAN
    BY <1>2 DEF Goto, TypeOK
  <2> QED
    BY <1>2, <2>3, <2>4, GoOnInv DEF Goto
<1> QED
  BY <1>1, <1>2

(***************************************************************************)
(* The cleanup of the scan cache and the check of the context after it.    *)
(***************************************************************************)
LEMMA CleanupInv == ASSUME Inv, PlanCleanup \/ EndCleanup \/ RecheckContext PROVE Inv'
<1>1. /\ pc \in {"plan", "clean", "recheck"}
      /\ \A w \in Workers : worker[w] = "exited"
      /\ \A i \in Images : Settled(i) /\ results[i].err # "context"
      /\ ctxDone => parentDone
  BY DEF Inv, PlanCleanup, EndCleanup, RecheckContext, CleanupAlone, Joined, Cancellation
<1>2. CASE ReturnCancelled /\ parentDone
  BY <1>1, <1>2, ReturnCancelledInv
<1>3. CASE Goto("clean") \/ Goto("recheck") \/ Goto("assemble")
  <2>1. pc' \in {"clean", "recheck", "assemble"} /\ cleanupWarned' \in BOOLEAN
    BY <1>3 DEF Inv, TypeOK, Goto
  <2> QED
    BY <1>1, <1>3, <2>1, GoOnInv DEF Goto
<1>4. CASE /\ cleanupWarned' = TRUE
           /\ pc' = "recheck"
           /\ UNCHANGED <<context, policy, next, jobsClosed, workers, returned>>
  BY <1>1, <1>4, GoOnInv
<1> QED
  BY <1>1, <1>2, <1>3, <1>4 DEF PlanCleanup, EndCleanup, RecheckContext, CleanupFails

(***************************************************************************)
(* The report is assembled from settled results only.                      *)
(***************************************************************************)
LEMMA AssembleInv == ASSUME Inv, Assemble PROVE Inv'
<1> USE DEF Inv, Assemble, Return
<1>a. \A i \in Images : (Dispatched(i)' <=> Dispatched(i)) /\ (Settled(i)' <=> Settled(i))
  BY DispatchedUnchanged
<1>b. \A i \in Images : Settled(i) /\ results[i].err # "context"
  BY DEF Joined
<1>1. TypeOK'
  BY DEF TypeOK
<1>2. ResultsWellFormed' /\ WorkersBusy' /\ OneScanPerImage'
  BY <1>a DEF ResultsWellFormed, WorkersBusy, OneScanPerImage
<1>3. LoopIndex'
  BY <1>a DEF LoopIndex
<1>4. LoopEnd' /\ CleanupAlone' /\ Joined'
  BY DEF LoopEnd, CleanupAlone, Joined
<1>5. Cancellation' /\ NothingReturnedYet'
  BY DEF Cancellation, NothingReturnedYet
<1>6. NoImageDropped'
  BY <1>b DEF NoImageDropped, ResultsWellFormed, Settled
<1>7. NoReportOfCancelledScan'
  BY <1>b DEF NoReportOfCancelledScan
<1> QED
  BY <1>1, <1>2, <1>3, <1>4, <1>5, <1>6, <1>7

(***************************************************************************)
(* Every step preserves the invariant.                                     *)
(***************************************************************************)
LEMMA NextInv == Inv /\ [Next]_vars => Inv'
<1> SUFFICES ASSUME Inv, [Next]_vars PROVE Inv'
  OBVIOUS
<1>1. CASE Cancel \/ Propagate
  BY <1>1, ContextInv
<1>2. CASE Dispatcher
  <2>1. ASSUME NEW w \in Workers, Send(w) PROVE Inv'
    BY <2>1, SendInv
  <2>2. CASE SkipSend \/ CheckContext \/ EndDispatch
    BY <2>2, LoopInv
  <2>3. CASE Join
    BY <2>3, JoinInv
  <2>4. CASE PlanCleanup \/ EndCleanup \/ RecheckContext
    BY <2>4, CleanupInv
  <2>5. CASE Assemble
    BY <2>5, AssembleInv
  <2> QED
    BY <1>2, <2>1, <2>2, <2>3, <2>4, <2>5 DEF Dispatcher
<1>3. ASSUME NEW w \in Workers, Worker(w) PROVE Inv'
  BY <1>3, WorkerInv
<1>4. CASE UNCHANGED vars
  BY <1>4 DEF vars, Inv, TypeOK, ResultsWellFormed, WorkersBusy, OneScanPerImage, LoopIndex,
              LoopEnd, CleanupAlone, Joined, Cancellation, NothingReturnedYet, NoImageDropped,
              NoReportOfCancelledScan, Dispatched, Settled, InFlight
<1> QED
  BY <1>1, <1>2, <1>3, <1>4 DEF Next

(***************************************************************************)
(* The invariant holds in every reachable state.                           *)
(***************************************************************************)
THEOREM Invariance == Spec => []Inv
  BY InitInv, NextInv, PTL DEF Spec

(***************************************************************************)
(* Type correctness of the scan.                                           *)
(***************************************************************************)
THEOREM TypeCorrect == Spec => []TypeOK
  BY Invariance, PTL DEF Inv

(***************************************************************************)
(* A report accounts for every image (Scanner.ScanInventory).              *)
(***************************************************************************)
THEOREM ReportIsComplete == Spec => []NoImageDropped
  BY Invariance, PTL DEF Inv

(***************************************************************************)
(* No report is made of a scan that was cancelled: it names no image as    *)
(* failed because of that (the context is looked at again after the wait). *)
(***************************************************************************)
THEOREM CancelledIsNoReport == Spec => []NoReportOfCancelledScan
  BY Invariance, PTL DEF Inv

(***************************************************************************)
(* The cleanup of the scan cache runs only when every worker has exited.   *)
(***************************************************************************)
THEOREM CleanupIsAlone == Spec => []CleanupAlone
  BY Invariance, PTL DEF Inv

(***************************************************************************)
(* No index is scanned by two workers, nor again once it has a result.     *)
(***************************************************************************)
THEOREM OneScan == Spec => []OneScanPerImage
  BY Invariance, PTL DEF Inv

(***************************************************************************)
(* Only a worker that holds an image's index writes the image's result,    *)
(* and then the result is still the zero value.                            *)
(***************************************************************************)
LEMMA ResultsStep ==
  ASSUME Inv, [Next]_vars
  PROVE  \A i \in Images : results[i] # ZeroResult => results'[i] = results[i]
<1>1. ASSUME NEW w \in Workers, NEW r, worker[w] \in {"scanning", "backoff"}, Record(w, r)
      PROVE  \A i \in Images : results[i] # ZeroResult => results'[i] = results[i]
  BY <1>1 DEF Inv, Record, WorkersBusy, OneScanPerImage, TypeOK
<1>2. CASE results' = results
  BY <1>2
<1>3. ASSUME NEW w \in Workers, Worker(w)
      PROVE  \/ results' = results
             \/ worker[w] \in {"scanning", "backoff"} /\ \E r \in Result : Record(w, r)
  BY <1>3 DEF Worker, EndAttempt, ScanSucceeds, ScanFails, RetryScan, BackoffCancelled, WorkerExits
<1>4. ASSUME Dispatcher PROVE results' = results
  BY <1>4 DEF Dispatcher, Send, SkipSend, CheckContext, EndDispatch, CloseJobs, Join, PlanCleanup,
              EndCleanup, RecheckContext, Assemble, Goto, CleanupFails, ReturnCancelled, Return
<1> QED
  BY <1>1, <1>2, <1>3, <1>4 DEF Next, vars, Cancel, Propagate

(***************************************************************************)
(* A recorded result is final.                                             *)
(***************************************************************************)
THEOREM FinalResults == Spec => ResultsAreFinal
<1>1. Inv /\ [Next]_vars =>
        [\A i \in Images : results[i] # ZeroResult => results'[i] = results[i]]_vars
  BY ResultsStep
<1> QED
  BY <1>1, Invariance, PTL DEF Spec, ResultsAreFinal

(***************************************************************************)
(* Once the context is done the dispatcher either has looked at it or has  *)
(* at most one send to make: a scan begun late is the last, and while      *)
(* another image could be handed out none has been begun late.             *)
(***************************************************************************)
LateInv ==
  /\ late \in {0, 1}
  /\ late = 1 => ctxDone /\ pc # "dispatch"

(***************************************************************************)
(* No step begins a second late scan.                                      *)
(***************************************************************************)
LEMMA LateStep == Inv /\ LateInv /\ [MCNext]_<<vars, late>> => LateInv'
<1> SUFFICES ASSUME Inv, LateInv, [MCNext]_<<vars, late>> PROVE LateInv'
  OBVIOUS
<1> USE DEF LateInv
<1>1. ASSUME NEW w \in Workers, Send(w), late' \in {late, late + 1},
             late' = late + 1 => ctxDone
      PROVE  LateInv'
  BY <1>1 DEF Send
<1>2. ASSUME \A w \in Workers : ~(worker[w] = "idle" /\ worker'[w] = "scanning"), Next
      PROVE  LateInv'
  <2>1. late' = late
    BY <1>2 DEF MCNext
  <2>2. late = 1 => ctxDone' /\ pc' # "dispatch"
    <3>1. CASE Cancel \/ Propagate
      BY <3>1 DEF Cancel, Propagate
    <3>2. CASE Dispatcher
      <4>1. CASE (\E w \in Workers : Send(w)) \/ SkipSend \/ CheckContext \/ EndDispatch
        BY <4>1 DEF Send, SkipSend, CheckContext, EndDispatch, CloseJobs
      <4>2. CASE Join \/ RecheckContext \/ Assemble
        BY <4>2 DEF Join, RecheckContext, Assemble, Goto, ReturnCancelled, Return
      <4>3. CASE PlanCleanup \/ EndCleanup
        BY <4>3 DEF PlanCleanup, EndCleanup, CleanupFails, Goto, ReturnCancelled, Return
      <4> QED
        BY <3>2, <4>1, <4>2, <4>3 DEF Dispatcher
    <3>3. CASE \E w \in Workers : Worker(w)
      <4>1. PICK w \in Workers : Worker(w)
        BY <3>3
      <4>2. UNCHANGED <<context, dispatcher>>
        BY <4>1 DEF Worker, EndAttempt, ScanSucceeds, ScanFails, RetryScan, BackoffCancelled,
                    WorkerExits, Record
      <4> QED
        BY <4>2
    <3> QED
      BY <1>2, <3>1, <3>2, <3>3 DEF Next
  <2> QED
    BY <2>1, <2>2
<1>3. ASSUME Next, NEW w \in Workers, worker[w] = "idle", worker'[w] = "scanning"
      PROVE  \E v \in Workers : Send(v)
  <2>1. ~Cancel /\ ~Propagate
    BY <1>3 DEF Cancel, Propagate
  <2>2. \A v \in Workers : ~Worker(v)
    BY <1>3 DEF Worker, EndAttempt, ScanSucceeds, ScanFails, RetryScan, BackoffCancelled, WorkerExits,
                Record, Inv, TypeOK
  <2>3. CASE Dispatcher
    BY <1>3, <2>3 DEF Dispatcher, SkipSend, CheckContext, EndDispatch, CloseJobs, Join, PlanCleanup,
                EndCleanup, RecheckContext, Assemble, Goto, CleanupFails, ReturnCancelled, Return
  <2> QED
    BY <1>3, <2>1, <2>2, <2>3 DEF Next
<1>4. CASE MCNext
  <2>1. Next /\ late' \in {late, late + 1} /\ (late' = late + 1 => ctxDone)
    BY <1>4 DEF MCNext
  <2> QED
    BY <1>1, <1>2, <1>3, <2>1
<1>5. CASE UNCHANGED <<vars, late>>
  BY <1>5 DEF vars
<1> QED
  BY <1>4, <1>5

(***************************************************************************)
(* Cancellation stops the dispatch: whatever the select of the loop chose, *)
(* at most one image is begun after the context is done.                   *)
(***************************************************************************)
THEOREM CancelStopsDispatch == MCSpec => []AtMostOneLateScan
<1>1. MCInit => Inv /\ LateInv
  BY InitInv DEF MCInit, LateInv
<1>2. Inv /\ [MCNext]_<<vars, late>> => Inv'
  <2>1. [MCNext]_<<vars, late>> => [Next]_vars
    BY DEF MCNext
  <2> QED
    BY <2>1, NextInv
<1>3. LateInv => AtMostOneLateScan
  BY DEF LateInv, AtMostOneLateScan
<1> QED
  BY <1>1, <1>2, <1>3, LateStep, PTL DEF MCSpec

-----------------------------------------------------------------------------
(***************************************************************************)
(* The refinement of ScanRun: what each step does to the status of each    *)
(* image.                                                                  *)
(***************************************************************************)
LEMMA StatusKept ==
  ASSUME UNCHANGED <<job, results>>
  PROVE  \A i \in Images : StatusOf(i)' = StatusOf(i)
BY DEF StatusOf

(***************************************************************************)
(* Handing an image to a worker is a step of the abstract scan, or none.   *)
(***************************************************************************)
LEMMA SendRefines == ASSUME Inv, NEW w \in Workers, Send(w) PROVE Promise!Begin(next)
<1> USE DEF Send
<1>1. next \in Images /\ ~Dispatched(next)
  BY TotalAssumption DEF Inv, LoopIndex, TypeOK
<1>2. outcome = "running"
  BY DEF Inv, Cancellation
<1>3. StatusOf(next) = "pending" /\ StatusOf(next)' = "scanning"
  BY <1>1 DEF StatusOf, Dispatched, Settled, InFlight, Inv, TypeOK
<1>4. \A i \in Images \ {next} : StatusOf(i)' = StatusOf(i)
  BY <1>1 DEF StatusOf, Inv, TypeOK, WorkersBusy
<1> QED
  BY <1>1, <1>2, <1>3, <1>4 DEF Promise!Begin

(***************************************************************************)
(* So is recording a result.                                               *)
(***************************************************************************)
LEMMA RecordRefines ==
  ASSUME Inv, NEW w \in Workers, worker[w] \in {"scanning", "backoff"},
         NEW r \in Result, r # ZeroResult, r.completed <=> r.err = "nil",
         Record(w, r)
  PROVE  Promise!Settle(job[w], IF r.completed THEN "ok" ELSE "failed")
<1> USE DEF Record
<1>1. job[w] \in Images /\ \A v \in Workers \ {w} : job[v] # job[w]
  BY DEF Inv, WorkersBusy, OneScanPerImage, TypeOK
<1>2. \A i \in Images : results'[i] = IF i = job[w] THEN r ELSE results[i]
  BY <1>1 DEF Inv, TypeOK
<1>3. \A v \in Workers : job'[v] = IF v = w THEN NoJob ELSE job[v]
  BY DEF Inv, TypeOK
<1>4. StatusOf(job[w]) = "scanning"
  BY DEF StatusOf
<1>5. \A i \in Images : StatusOf(i)' = IF i # job[w] THEN StatusOf(i)
                                       ELSE IF r.completed THEN "ok" ELSE "failed"
  <2> SUFFICES ASSUME NEW i \in Images
               PROVE  StatusOf(i)' = IF i # job[w] THEN StatusOf(i)
                                     ELSE IF r.completed THEN "ok" ELSE "failed"
    OBVIOUS
  <2>1. CASE i = job[w]
    <3>1. ~\E v \in Workers : job'[v] = i
      BY <1>1, <1>3, <2>1
    <3>2. results'[i] = r
      BY <1>1, <1>2, <2>1
    <3> QED
      BY <2>1, <3>1, <3>2 DEF StatusOf
  <2>2. CASE i # job[w]
    <3>1. (\E v \in Workers : job'[v] = i) <=> (\E v \in Workers : job[v] = i)
      BY <1>3, <2>2
    <3>2. results'[i] = results[i]
      BY <1>2, <2>2
    <3> QED
      BY <2>2, <3>1, <3>2 DEF StatusOf
  <2> QED
    BY <2>1, <2>2
<1> QED
  BY <1>1, <1>4, <1>5 DEF Promise!Settle

(***************************************************************************)
(* The steps that neither dispatch nor settle an image leave the promise's *)
(* state alone, cancel it, or end it.                                      *)
(***************************************************************************)
LEMMA WorkerRefines == ASSUME Inv, NEW w \in Workers, Worker(w) PROVE [Promise!Next]_(Promise!vars)
<1>1. ASSUME NEW r \in Result, r # ZeroResult, r.completed <=> r.err = "nil",
             worker[w] \in {"scanning", "backoff"}, Record(w, r)
      PROVE  Promise!Next
  <2>1. Promise!Settle(job[w], IF r.completed THEN "ok" ELSE "failed")
    BY <1>1, RecordRefines
  <2>2. job[w] \in Images
    BY <1>1 DEF Inv, WorkersBusy, TypeOK
  <2> QED
    BY <2>1, <2>2 DEF Promise!Next
<1>2. ASSUME UNCHANGED <<job, results, parentDone, outcome, reported, warned>>
      PROVE  UNCHANGED Promise!vars
  BY <1>2, StatusKept DEF Promise!vars
<1>3. CASE ScanSucceeds(w)
  BY <1>1, <1>3 DEF ScanSucceeds
<1>4. ASSUME NEW e \in Failures, ScanFails(w, e) PROVE [Promise!Next]_(Promise!vars)
  <2>1. CASE e = "transient" /\ attempt[w] <= Retries
    BY <1>2, <1>4, <2>1 DEF ScanFails
  <2>2. CASE ~(e = "transient" /\ attempt[w] <= Retries)
    BY <1>1, <1>4, <2>2 DEF ScanFails
  <2> QED
    BY <2>1, <2>2
<1>5. CASE BackoffCancelled(w)
  BY <1>1, <1>5 DEF BackoffCancelled
<1>6. CASE RetryScan(w) \/ WorkerExits(w)
  BY <1>2, <1>6 DEF RetryScan, WorkerExits
<1> QED
  BY <1>3, <1>4, <1>5, <1>6 DEF Worker, EndAttempt

(***************************************************************************)
(* So are the steps of the dispatcher.                                     *)
(***************************************************************************)
LEMMA DispatcherRefines == ASSUME Inv, Dispatcher PROVE [Promise!Next]_(Promise!vars)
<1>1. ASSUME NEW w \in Workers, Send(w) PROVE Promise!Next
  <2>1. next \in Images
    BY <1>1, TotalAssumption DEF Send, Inv, TypeOK
  <2> QED
    BY <1>1, <2>1, SendRefines DEF Promise!Next
<1>2. ASSUME UNCHANGED <<job, results, parentDone, outcome, reported, warned>>
      PROVE  UNCHANGED Promise!vars
  BY <1>2, StatusKept DEF Promise!vars
<1>3. ASSUME ReturnCancelled, parentDone, outcome = "running",
             \A w \in Workers : worker[w] = "exited"
      PROVE  Promise!Next
  <2>1. \A i \in Images : StatusOf(i) # "scanning"
    BY <1>3 DEF StatusOf, Inv, WorkersBusy
  <2>2. \A i \in Images : StatusOf(i)' = StatusOf(i)
    BY <1>3, StatusKept DEF ReturnCancelled, Return
  <2> QED
    BY <1>3, <2>1, <2>2 DEF Promise!Next, Promise!Abandon, ReturnCancelled, Return
<1>4. CASE Assemble
  <2>1. \A i \in Images : Settled(i) /\ ~InFlight(i)
    BY <1>4 DEF Assemble, Inv, Joined, CleanupAlone, WorkersBusy, InFlight
  <2>2. \A i \in Images : StatusOf(i) = IF results[i].err = "nil" THEN "ok" ELSE "failed"
    BY <2>1 DEF StatusOf, InFlight, Inv, ResultsWellFormed, TypeOK
  <2>3. \A i \in Images : StatusOf(i)' = StatusOf(i)
    BY <1>4, StatusKept DEF Assemble, Return
  <2>4. outcome = "running"
    BY <1>4 DEF Assemble, Inv, Cancellation
  <2> QED
    BY <1>4, <2>2, <2>3, <2>4 DEF Promise!Next, Promise!Report, Assemble, Return
<1>5. CASE SkipSend \/ CheckContext \/ EndDispatch
  BY <1>2, <1>5 DEF SkipSend, CheckContext, EndDispatch, CloseJobs
<1>6. CASE Join \/ PlanCleanup \/ EndCleanup \/ RecheckContext
  <2>1. outcome = "running" /\ (ctxDone => parentDone)
    BY <1>6 DEF Join, PlanCleanup, EndCleanup, RecheckContext, Inv, Cancellation
  <2>2. \A w \in Workers : worker[w] = "exited"
    BY <1>6 DEF Join, PlanCleanup, EndCleanup, RecheckContext, Inv, CleanupAlone
  <2>3. \/ ReturnCancelled /\ parentDone
        \/ UNCHANGED <<job, results, parentDone, outcome, reported, warned>>
    BY <1>6, <2>1 DEF Join, PlanCleanup, EndCleanup, RecheckContext, CleanupFails, Goto
  <2> QED
    BY <1>2, <1>3, <2>1, <2>2, <2>3
<1> QED
  BY <1>1, <1>4, <1>5, <1>6 DEF Dispatcher

(***************************************************************************)
(* Every step of the scan is one of the abstract scan, or leaves it as it  *)
(* is.                                                                     *)
(***************************************************************************)
LEMMA StepRefines == Inv /\ [Next]_vars => [Promise!Next]_(Promise!vars)
<1> SUFFICES ASSUME Inv, [Next]_vars PROVE [Promise!Next]_(Promise!vars)
  OBVIOUS
<1>1. CASE Cancel
  <2>1. \A i \in Images : StatusOf(i)' = StatusOf(i)
    BY <1>1, StatusKept DEF Cancel
  <2> QED
    BY <1>1, <2>1 DEF Cancel, Promise!Next, Promise!Cancel
<1>2. CASE Propagate \/ UNCHANGED vars
  <2>1. \A i \in Images : StatusOf(i)' = StatusOf(i)
    BY <1>2, StatusKept DEF Propagate, vars
  <2> QED
    BY <1>2, <2>1 DEF Propagate, vars, Promise!vars
<1> QED
  BY <1>1, <1>2, WorkerRefines, DispatcherRefines DEF Next

(***************************************************************************)
(* The scan starts as the abstract one does.                               *)
(***************************************************************************)
LEMMA InitRefines == Init => Promise!Init
<1> SUFFICES ASSUME Init PROVE Promise!Init
  OBVIOUS
<1>1. \A i \in Images : StatusOf(i) = "pending"
  BY DEF Init, StatusOf
<1> QED
  BY <1>1 DEF Init, Promise!Init

(***************************************************************************)
(* The inventory scan keeps the promise of ScanRun, for any number of      *)
(* workers, images and retries.                                            *)
(***************************************************************************)
THEOREM Refinement == Spec => KeepsPromise
  BY InitRefines, StepRefines, Invariance, PTL DEF Spec, KeepsPromise, Promise!Spec
=============================================================================
