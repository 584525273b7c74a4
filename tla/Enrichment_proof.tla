-------------------------- MODULE Enrichment_proof --------------------------
(***************************************************************************)
(* The Vulnrichment store and the enrichment pass, for any number of       *)
(* goroutines, records, retries and restarts, any findings, any limit of   *)
(* warnings and any behaviour of the sources: the action properties of the *)
(* store, from an invariant about what a lookup under way holds, and that  *)
(* no failure disappears in the pass, whose counts are compared with what  *)
(* the lookups of its findings returned so far.                            *)
(***************************************************************************)
EXTENDS Enrichment, FiniteSetTheorems, TLAPS

-----------------------------------------------------------------------------
(* The store                                                               *)

\* A lookup under way is for a CVE, waits only for an attempt it still has, and
\* has a temporary file only where it writes one.
LookupsWellFormed ==
  \A c \in Callers :
    /\ pc[c] # "idle" => cve[c] \in CVEs
    /\ pc[c] = "backoff" => attempt[c] <= Retries
    /\ temp[c] # "absent" => pc[c] \in {"write", "rename"}

\* No file of the cache is part of a document.
FilesWhole == \A id \in CVEs : file[id] # "torn"

Inv == TypeOK /\ LookupsWellFormed /\ FilesWhole

USE StoreAssumption, NoCVEAssumption DEF store, caller, bounds, NoCVE, Goto

(***************************************************************************)
(* A new process has no lookup under way and no temporary file.            *)
(***************************************************************************)
LEMMA IdleTyped ==
  /\ Idle.pc \in [Callers -> PCs] /\ Idle.cve \in [Callers -> CVEs \cup {NoCVE}]
  /\ Idle.data \in [Callers -> Files] /\ Idle.attempt \in [Callers -> 1 .. (Retries + 1)]
  /\ Idle.temp \in [Callers -> {"absent", "torn", "whole"}]
  /\ Idle.result \in [Callers -> Outcomes]
  /\ \A c \in Callers : Idle.pc[c] = "idle" /\ Idle.temp[c] = "absent"
  BY DEF Idle, PCs, Files, Outcomes

(***************************************************************************)
(* The store starts with its cache's files whole and no lookup under way.  *)
(***************************************************************************)
LEMMA InitInv == Init => Inv
<1> SUFFICES ASSUME Init PROVE Inv
  OBVIOUS
<1>a. /\ file \in [CVEs -> Files] /\ force \in BOOLEAN /\ ctxDone \in BOOLEAN
      /\ tripped \in BOOLEAN /\ litter \in BOOLEAN
  BY DEF Init, Files
<1>b. consecutive \in Nat /\ lookups \in 0 .. MaxLookups /\ kills \in 0 .. MaxKills
  BY DEF Init
<1>c. /\ pc \in [Callers -> PCs] /\ cve \in [Callers -> CVEs \cup {NoCVE}]
      /\ data \in [Callers -> Files] /\ attempt \in [Callers -> 1 .. (Retries + 1)]
      /\ temp \in [Callers -> {"absent", "torn", "whole"}]
      /\ result \in [Callers -> Outcomes]
  BY IdleTyped DEF Init
<1>1. TypeOK
  BY <1>a, <1>b, <1>c DEF TypeOK
<1>2. LookupsWellFormed /\ FilesWhole
  BY IdleTyped DEF Init, LookupsWellFormed, FilesWhole
<1> QED
  BY <1>1, <1>2 DEF Inv

(***************************************************************************)
(* What a return does to the lookup that returns, and to no other.         *)
(***************************************************************************)
LEMMA ReturnInv ==
  ASSUME Inv, NEW c \in Callers, NEW outcome \in Outcomes, Return(c, outcome)
  PROVE  /\ pc' \in [Callers -> PCs] /\ pc'[c] = "idle"
         /\ cve' \in [Callers -> CVEs \cup {NoCVE}]
         /\ data' \in [Callers -> Files]
         /\ attempt' \in [Callers -> 1 .. (Retries + 1)]
         /\ temp' \in [Callers -> {"absent", "torn", "whole"}]
         /\ result' \in [Callers -> Outcomes] /\ result'[c] = outcome
         /\ LookupsWellFormed'
<1> USE DEF Inv, TypeOK, Return
<1>1. pc' \in [Callers -> PCs] /\ cve' \in [Callers -> CVEs \cup {NoCVE}]
  BY DEF PCs
<1>2. data' \in [Callers -> Files] /\ attempt' \in [Callers -> 1 .. (Retries + 1)]
  BY DEF Files
<1>3. /\ temp' \in [Callers -> {"absent", "torn", "whole"}]
      /\ result' \in [Callers -> Outcomes] /\ result'[c] = outcome /\ pc'[c] = "idle"
  OBVIOUS
<1>4. LookupsWellFormed'
  BY DEF LookupsWellFormed
<1> QED
  BY <1>1, <1>2, <1>3, <1>4

(***************************************************************************)
(* A lookup returns one of the declared outcomes, and the record when it   *)
(* had read a valid one.                                                   *)
(***************************************************************************)
LEMMA FallBackReturns ==
  ASSUME Inv, NEW c \in Callers, NEW outcome \in Outcomes, FallBack(c, outcome)
  PROVE  \E given \in Outcomes : /\ Return(c, given)
                                 /\ data[c] \in Valid => given = "record"
  BY DEF FallBack, Outcomes

(***************************************************************************)
(* Beginning a lookup.                                                     *)
(***************************************************************************)
LEMMA LookupInv == ASSUME Inv, NEW c \in Callers, NEW id \in CVEs, Lookup(c, id) PROVE Inv'
<1> USE DEF Inv, TypeOK, Lookup
<1>1. TypeOK'
  BY DEF PCs, Outcomes
<1>2. LookupsWellFormed' /\ FilesWhole'
  BY DEF LookupsWellFormed, FilesWhole
<1> QED
  BY <1>1, <1>2

(***************************************************************************)
(* Reading the cache and asking the breaker touch neither the cache nor    *)
(* the breaker; a document that was read is what it was in the cache.      *)
(***************************************************************************)
LEMMA CacheStepInv ==
  ASSUME Inv, NEW c \in Callers, ReadCache(c) \/ StatCache(c) \/ CheckBreaker(c)
  PROVE  Inv'
<1> USE DEF Inv, TypeOK
<1>1. UNCHANGED <<file, force, ctxDone, store, litter, bounds>>
  BY DEF ReadCache, StatCache, CheckBreaker
<1>2. CASE \E outcome \in Outcomes : Return(c, outcome)
  BY <1>1, <1>2, ReturnInv DEF FilesWhole
<1>3. ASSUME NEW label \in {"stat", "breaker", "fetch"}, Goto(c, label),
             data' \in [Callers -> Files], pc[c] \in {"read", "stat", "breaker"},
             UNCHANGED <<cve, attempt, temp, result>>
      PROVE  Inv'
  <2>1. TypeOK'
    BY <1>1, <1>3 DEF PCs
  <2>2. LookupsWellFormed' /\ FilesWhole'
    BY <1>1, <1>3 DEF LookupsWellFormed, FilesWhole
  <2> QED
    BY <2>1, <2>2
<1>4. CASE ReadCache(c)
  <2>1. file[cve[c]] \in Files
    BY <1>4 DEF ReadCache, LookupsWellFormed
  <2>2. CASE file[cve[c]] # "absent" /\ Return(c, "unreadable")
    BY <1>2, <2>2 DEF Outcomes
  <2>3. CASE ~(file[cve[c]] # "absent" /\ Return(c, "unreadable"))
    BY <1>3, <1>4, <2>1, <2>3 DEF ReadCache
  <2> QED
    BY <2>2, <2>3
<1>5. CASE StatCache(c)
  BY <1>2, <1>3, <1>5 DEF StatCache, ReturnData, Outcomes
<1>6. CASE CheckBreaker(c)
  BY <1>2, <1>3, <1>6, FallBackReturns DEF CheckBreaker, Outcomes
<1> QED
  BY <1>4, <1>5, <1>6

(***************************************************************************)
(* A fetch that fails for good returns from the lookup.                    *)
(***************************************************************************)
LEMMA FetchFailsInv ==
  ASSUME Inv, NEW c \in Callers, NEW answer \in Answers, FetchFails(c, answer) PROVE Inv'
<1>1. PICK outcome \in Outcomes : Return(c, outcome)
  BY FallBackReturns DEF FetchFails, Outcomes, ContextErrors
<1> QED
  BY <1>1, ReturnInv DEF FetchFails, RecordFailure, Inv, TypeOK, FilesWhole

(***************************************************************************)
(* An attempt ends in a document to be cached, an answer, another attempt  *)
(* or a failure.                                                           *)
(***************************************************************************)
LEMMA FetchInv ==
  ASSUME Inv, NEW c \in Callers, NEW answer \in Answers, Fetch(c, answer) PROVE Inv'
<1> USE DEF Inv, TypeOK
<1>1. CASE answer = "ok"
  <2>1. TypeOK'
    BY <1>1 DEF Fetch, PCs, Retried
  <2>2. LookupsWellFormed' /\ FilesWhole'
    BY <1>1 DEF Fetch, Retried, LookupsWellFormed, FilesWhole
  <2> QED
    BY <2>1, <2>2
<1>2. CASE answer = "notFound"
  <2>1. /\ FallBack(c, "noRecord") /\ consecutive' = 0
        /\ UNCHANGED <<file, force, ctxDone, tripped, litter, bounds>>
    BY <1>2 DEF Fetch, Retried
  <2>2. PICK outcome \in Outcomes : Return(c, outcome)
    BY <2>1, FallBackReturns DEF Outcomes
  <2> QED
    BY <2>1, <2>2, ReturnInv DEF FilesWhole
<1>3. CASE Retried(c, answer)
  <2>1. TypeOK'
    BY <1>3 DEF Fetch, PCs, Retried
  <2>2. LookupsWellFormed' /\ FilesWhole'
    BY <1>3 DEF Fetch, Retried, LookupsWellFormed, FilesWhole
  <2> QED
    BY <2>1, <2>2
<1> QED
  BY <1>1, <1>2, <1>3, FetchFailsInv DEF Fetch

(***************************************************************************)
(* A delay ends in an attempt the lookup still has.                        *)
(***************************************************************************)
LEMMA BackoffInv == ASSUME Inv, NEW c \in Callers, Backoff(c) PROVE Inv'
<1> USE DEF Inv, TypeOK
<1>1. CASE FetchFails(c, "cancelled")
  BY <1>1, FetchFailsInv DEF Answers
<1>2. CASE ~FetchFails(c, "cancelled")
  <2>1. attempt[c] \in 1 .. Retries
    BY DEF Backoff, LookupsWellFormed
  <2>2. TypeOK'
    BY <1>2, <2>1 DEF Backoff, PCs
  <2>3. LookupsWellFormed' /\ FilesWhole'
    BY <1>2 DEF Backoff, LookupsWellFormed, FilesWhole
  <2> QED
    BY <2>2, <2>3
<1> QED
  BY <1>1, <1>2

(***************************************************************************)
(* Only a complete temporary file takes the place of a cached one.         *)
(***************************************************************************)
LEMMA WriteInv == ASSUME Inv, NEW c \in Callers, WriteTemp(c) \/ Rename(c) PROVE Inv'
<1> USE DEF Inv, TypeOK
<1>1. CASE Return(c, "record")
  <2>1. file' \in [CVEs -> Files] /\ FilesWhole'
    BY DEF WriteTemp, Rename, FilesWhole, Files
  <2> QED
    BY <1>1, <2>1, ReturnInv DEF WriteTemp, Rename, Outcomes
<1>2. CASE ~Return(c, "record")
  <2>1. TypeOK'
    BY <1>2 DEF WriteTemp, Rename, PCs
  <2>2. LookupsWellFormed' /\ FilesWhole'
    BY <1>2 DEF WriteTemp, Rename, LookupsWellFormed, FilesWhole
  <2> QED
    BY <2>1, <2>2
<1> QED
  BY <1>1, <1>2

(***************************************************************************)
(* A killed process leaves the cache's files whole and only older.         *)
(***************************************************************************)
LEMMA KillInv == ASSUME Inv, KillAndRestart PROVE Inv'
<1> USE DEF Inv, TypeOK, KillAndRestart
<1>1. /\ file' \in [CVEs -> Files] /\ FilesWhole'
      /\ \A id \in CVEs : file[id] \in Valid => file'[id] \in Valid
  BY DEF FilesWhole, Files, Valid
<1>a. /\ force' \in BOOLEAN /\ ctxDone' \in BOOLEAN /\ tripped' \in BOOLEAN
      /\ litter' \in BOOLEAN
  OBVIOUS
<1>c. consecutive' \in Nat /\ lookups' \in 0 .. MaxLookups /\ kills' \in 0 .. MaxKills
  OBVIOUS
<1>b. /\ pc' \in [Callers -> PCs] /\ cve' \in [Callers -> CVEs \cup {NoCVE}]
      /\ data' \in [Callers -> Files] /\ attempt' \in [Callers -> 1 .. (Retries + 1)]
      /\ temp' \in [Callers -> {"absent", "torn", "whole"}]
      /\ result' \in [Callers -> Outcomes]
  BY IdleTyped
<1>2. TypeOK'
  BY <1>1, <1>a, <1>b, <1>c DEF TypeOK
<1>3. LookupsWellFormed'
  BY IdleTyped DEF LookupsWellFormed
<1> QED
  BY <1>1, <1>2, <1>3

(***************************************************************************)
(* Every step of the store preserves the invariant.                        *)
(***************************************************************************)
LEMMA NextInv == Inv /\ [Next]_vars => Inv'
<1>1. ASSUME Inv, Cancel \/ UNCHANGED vars PROVE Inv'
  BY <1>1 DEF Cancel, vars, Inv, TypeOK, LookupsWellFormed, FilesWhole
<1> QED
  BY <1>1, LookupInv, CacheStepInv, FetchInv, BackoffInv, WriteInv, KillInv DEF Next, Step

(***************************************************************************)
(* The invariant holds in every reachable state of the store.              *)
(***************************************************************************)
THEOREM Invariance == Spec => []Inv
  BY InitInv, NextInv, PTL DEF Spec

(***************************************************************************)
(* Type correctness of the store; with it, no lookup makes more than       *)
(* Retries + 1 attempts.                                                   *)
(***************************************************************************)
THEOREM TypeCorrect == Spec => []TypeOK
  BY Invariance, PTL DEF Inv

(***************************************************************************)
(* No step leaves part of a document in the cache or loses a valid record. *)
(***************************************************************************)
THEOREM CacheKept == Spec => CacheNeverDamaged
<1>1. ASSUME Inv, [Next]_vars, NEW id \in CVEs
      PROVE  file'[id] # "torn" /\ (file[id] \in Valid => file'[id] \in Valid)
  <2>0. Inv'
    BY <1>1, NextInv
  <2>1. file'[id] # "torn"
    BY <2>0 DEF Inv, FilesWhole
  <2>2. CASE KillAndRestart
    BY <1>1, <2>1, <2>2 DEF KillAndRestart, Valid
  <2>3. ASSUME NEW c \in Callers, Rename(c) PROVE file[id] \in Valid => file'[id] \in Valid
    BY <1>1, <2>3 DEF Rename, Valid, Inv, TypeOK
  <2>4. ASSUME NEW c \in Callers, Step(c) \/ \E other \in CVEs : Lookup(c, other), ~Rename(c)
        PROVE  file' = file
    <3>1. ~WriteTemp(c) => file' = file
      BY <2>4 DEF Step, Lookup, ReadCache, StatCache, CheckBreaker, Fetch, FetchFails, Backoff
    <3> QED
      BY <3>1 DEF WriteTemp
  <2>5. CASE Cancel \/ UNCHANGED vars
    BY <2>1, <2>5 DEF Cancel, vars, Valid
  <2> QED
    BY <1>1, <2>1, <2>2, <2>3, <2>4, <2>5 DEF Next
<1>2. Inv /\ [Next]_vars =>
        [\A id \in CVEs : /\ file'[id] # "torn"
                          /\ file[id] \in Valid => file'[id] \in Valid]_vars
  BY <1>1
<1> QED
  BY <1>2, Invariance, PTL DEF Spec, CacheNeverDamaged

(***************************************************************************)
(* What a step of a caller does to another one: nothing.                   *)
(***************************************************************************)
LEMMA OthersUntouched ==
  ASSUME Inv, NEW c \in Callers, NEW other \in Callers \ {c},
         Step(c) \/ \E id \in CVEs : Lookup(c, id)
  PROVE  pc'[other] = pc[other]
  BY DEF Inv, TypeOK, Step, Lookup, ReadCache, StatCache, ReturnData, CheckBreaker, Fetch,
         FetchFails, FallBack, Backoff, WriteTemp, Rename, Return

(***************************************************************************)
(* A lookup that comes back has an outcome.                                *)
(***************************************************************************)
LEMMA StepGivesOutcome ==
  ASSUME Inv, NEW c \in Callers, Step(c), pc'[c] = "idle"
  PROVE  result'[c] # "none"
<1> USE DEF Inv, TypeOK
<1>1. ASSUME NEW outcome, outcome # "none", FallBack(c, outcome) PROVE result'[c] # "none"
  BY <1>1 DEF FallBack, Return
<1>2. CASE ReadCache(c) \/ StatCache(c)
  BY <1>2 DEF ReadCache, StatCache, ReturnData, Return
<1>3. CASE CheckBreaker(c)
  BY <1>1, <1>3 DEF CheckBreaker
<1>4. ASSUME NEW answer \in Answers, Fetch(c, answer) PROVE result'[c] # "none"
  BY <1>1, <1>4 DEF Fetch, FetchFails, ContextErrors
<1>5. CASE Backoff(c)
  BY <1>1, <1>5 DEF Backoff, FetchFails, ContextErrors
<1>6. CASE WriteTemp(c) \/ Rename(c)
  BY <1>6 DEF WriteTemp, Rename, Return
<1> QED
  BY <1>2, <1>3, <1>4, <1>5, <1>6 DEF Step

(***************************************************************************)
(* A lookup that read a valid record gives a record, or finds that it can  *)
(* no longer examine the file.                                             *)
(***************************************************************************)
LEMMA StepUsesRecord ==
  ASSUME Inv, NEW c \in Callers, Step(c), data[c] \in Valid, pc'[c] = "idle"
  PROVE  result'[c] \in {"record", "unreadable"}
<1> USE DEF Inv, TypeOK
<1>1. ASSUME NEW outcome, FallBack(c, outcome) PROVE result'[c] = "record"
  BY <1>1 DEF FallBack, Return
<1>2. CASE ReadCache(c) \/ StatCache(c)
  BY <1>2 DEF ReadCache, StatCache, ReturnData, Return
<1>3. CASE CheckBreaker(c)
  BY <1>1, <1>3 DEF CheckBreaker
<1>4. ASSUME NEW answer \in Answers, Fetch(c, answer) PROVE result'[c] = "record"
  BY <1>1, <1>4 DEF Fetch, FetchFails
<1>5. CASE Backoff(c)
  BY <1>1, <1>5 DEF Backoff, FetchFails
<1>6. CASE WriteTemp(c) \/ Rename(c)
  BY <1>6 DEF WriteTemp, Rename, Return
<1> QED
  BY <1>2, <1>3, <1>4, <1>5, <1>6 DEF Step

(***************************************************************************)
(* A valid cached record is used whatever the source answers.              *)
(***************************************************************************)
THEOREM RecordIsUsed == Spec => CachedRecordUsed
<1>1. ASSUME Inv, [Next]_vars, NEW c \in Callers, data[c] \in Valid,
             pc[c] # "idle", pc'[c] = "idle", kills' = kills
      PROVE  result'[c] \in {"record", "unreadable"}
  <2>1. ~KillAndRestart
    BY <1>1 DEF KillAndRestart, Inv, TypeOK
  <2>2. ~Cancel /\ ~UNCHANGED vars
    BY <1>1 DEF Cancel, vars
  <2>3. ~\E other \in Callers \ {c} : Step(other) \/ \E id \in CVEs : Lookup(other, id)
    BY <1>1, OthersUntouched
  <2>4. ~\E id \in CVEs : Lookup(c, id)
    BY <1>1 DEF Lookup
  <2>5. Step(c)
    BY <1>1, <2>1, <2>2, <2>3, <2>4 DEF Next
  <2> QED
    BY <1>1, <2>5, StepUsesRecord
<1>2. Inv /\ [Next]_vars =>
        [\A c \in Callers :
           data[c] \in Valid /\ pc[c] # "idle" /\ pc'[c] = "idle" /\ kills' = kills
             => result'[c] \in {"record", "unreadable"}]_vars
  BY <1>1
<1> QED
  BY <1>2, Invariance, PTL DEF Spec, CachedRecordUsed

(***************************************************************************)
(* Once the breaker has tripped, a caller fetches only if it already did.  *)
(***************************************************************************)
LEMMA StepAsksBreaker ==
  ASSUME Inv, NEW c \in Callers, Step(c) \/ \E id \in CVEs : Lookup(c, id), tripped
  PROVE  tripped' /\ (pc'[c] \in {"fetch", "backoff"} => pc[c] \in {"fetch", "backoff"})
<1> USE DEF Inv, TypeOK, Return
<1>1. CASE ReadCache(c) \/ StatCache(c) \/ \E id \in CVEs : Lookup(c, id)
  BY <1>1 DEF ReadCache, StatCache, ReturnData, Lookup
<1>2. CASE CheckBreaker(c)
  BY <1>2 DEF CheckBreaker, FallBack
<1>3. CASE \E answer \in Answers : Fetch(c, answer)
  BY <1>3 DEF Fetch, FetchFails, RecordFailure
<1>4. CASE Backoff(c)
  BY <1>4 DEF Backoff, FetchFails, RecordFailure
<1>5. CASE WriteTemp(c) \/ Rename(c)
  BY <1>5 DEF WriteTemp, Rename
<1> QED
  BY <1>1, <1>2, <1>3, <1>4, <1>5 DEF Step

(***************************************************************************)
(* Within a process the breaker stays tripped, and from then on only the   *)
(* fetches already under way go on.                                        *)
(***************************************************************************)
THEOREM BreakerStaysTripped == Spec => BreakerIsFinal
<1>1. ASSUME Inv, [Next]_vars, kills' = kills, tripped
      PROVE  /\ tripped'
             /\ \A c \in Callers : pc'[c] \in {"fetch", "backoff"} => pc[c] \in {"fetch", "backoff"}
  <2>1. CASE Cancel \/ UNCHANGED vars
    BY <1>1, <2>1 DEF Cancel, vars
  <2>2. ASSUME NEW c \in Callers, Step(c) \/ \E id \in CVEs : Lookup(c, id)
        PROVE  /\ tripped'
               /\ \A other \in Callers :
                    pc'[other] \in {"fetch", "backoff"} => pc[other] \in {"fetch", "backoff"}
    <3>1. \A other \in Callers \ {c} : pc'[other] = pc[other]
      BY <1>1, <2>2, OthersUntouched
    <3>2. tripped' /\ (pc'[c] \in {"fetch", "backoff"} => pc[c] \in {"fetch", "backoff"})
      BY <1>1, <2>2, StepAsksBreaker
    <3> QED
      BY <3>1, <3>2
  <2>3. ~KillAndRestart
    BY <1>1 DEF KillAndRestart, Inv, TypeOK
  <2> QED
    BY <1>1, <2>1, <2>2, <2>3 DEF Next
<1>2. Inv /\ [Next]_vars =>
        [kills' = kills =>
           /\ tripped => tripped'
           /\ tripped => \A c \in Callers :
                pc'[c] \in {"fetch", "backoff"} => pc[c] \in {"fetch", "backoff"}]_vars
  BY <1>1
<1> QED
  BY <1>2, Invariance, PTL DEF Spec, BreakerIsFinal

-----------------------------------------------------------------------------
(* The pass                                                                *)

FailedSoFar == {f \in Findings : vuln[f] \in Failed}

\* The findings before the index are the ones with an outcome, and a lookup
\* that came back has one.
LoopInPlace ==
  /\ stage \in {"epss", "vulnrichment", "lookup"} => index <= Total
  /\ \A f \in Findings : vuln[f] = "none" <=> f >= index
  /\ stage = "lookup" /\ pc[Caller] = "idle" => result[Caller] # "none"
  /\ returned = "complete" => stage = "returned" /\ index = Total + 1

\* The counter is the number of failed lookups, and the first MaxWarnings of
\* them are named.
FailuresCounted ==
  /\ Cardinality(FailedSoFar) = errors
  /\ warnedFor \subseteq FailedSoFar
  /\ Cardinality(warnedFor) = IF errors <= MaxWarnings THEN errors ELSE MaxWarnings
  /\ breakerWarned <=> \E f \in Findings : vuln[f] = "unavailable"
  /\ returned = "complete" => rollup = RollUp(errors)

EnrichInv == Inv /\ EnrichTypeOK /\ LoopInPlace /\ FailuresCounted

USE EnrichmentAssumption DEF Findings, epss, warnings, loop, Failed, ContextErrors, Outcomes

(***************************************************************************)
(* The pass starts with nothing asked, counted or warned about.            *)
(***************************************************************************)
LEMMA EnrichInitInv == EnrichInit => EnrichInv
<1> SUFFICES ASSUME EnrichInit PROVE EnrichInv
  OBVIOUS
<1> USE DEF EnrichInit
<1>1. Inv
  BY InitInv
<1>a. epssFile \in Files /\ vuln \in [Findings -> Outcomes]
  OBVIOUS
<1>b. /\ index \in 1 .. (Total + 1) /\ errors \in 0 .. Total /\ rollup \in 0 .. Total
      /\ warnedFor \in SUBSET Findings
  OBVIOUS
<1>c. /\ epssLoaded \in BOOLEAN /\ epssOn \in BOOLEAN /\ epssWarned \in BOOLEAN
      /\ breakerWarned \in BOOLEAN
  OBVIOUS
<1>2. EnrichTypeOK
  BY <1>a, <1>b, <1>c DEF EnrichTypeOK
<1>3. LoopInPlace
  BY DEF LoopInPlace
<1>4. FailedSoFar = {} /\ Cardinality(FailedSoFar) = 0
  BY FS_EmptySet DEF FailedSoFar
<1>5. FailuresCounted
  BY <1>4 DEF FailuresCounted
<1> QED
  BY <1>1, <1>2, <1>3, <1>5 DEF EnrichInv

(***************************************************************************)
(* The store's invariant goes through the pass: a step of the pass is a    *)
(* step of the store or leaves it alone.                                   *)
(***************************************************************************)
LEMMA StoreInv == EnrichInv /\ [EnrichNext]_enrichVars => Inv'
<1> SUFFICES ASSUME EnrichInv, [EnrichNext]_enrichVars PROVE Inv'
  OBVIOUS
<1>1. [Next]_vars
  <2>1. CASE NextFinding \/ EndOfFindings \/ EpssSkipped \/ EpssFromCache \/ EpssCancelled
    BY <2>1 DEF NextFinding, EndOfFindings, EpssSkipped, EpssFromCache, EpssCancelled
  <2>2. CASE \E answer \in Answers : EpssFetch(answer)
    BY <2>2 DEF EpssFetch
  <2>3. CASE NotACVE \/ TakeResult \/ UNCHANGED enrichVars
    BY <2>3 DEF NotACVE, TakeResult, enrichVars
  <2>4. CASE LookUp
    <3>1. index \in 1 .. Total
      BY <2>4 DEF LookUp, EnrichInv, LoopInPlace, EnrichTypeOK
    <3>2. IdOf[index] \in CVEs
      BY <2>4, <3>1 DEF LookUp
    <3> QED
      BY <2>4, <3>2 DEF LookUp, Next
  <2>5. CASE StoreStep \/ CancelRun
    BY <2>5 DEF StoreStep, CancelRun, Next
  <2> QED
    BY <2>1, <2>2, <2>3, <2>4, <2>5 DEF EnrichNext, Pass
<1> QED
  BY <1>1, NextInv DEF EnrichInv

(***************************************************************************)
(* A step that gives no finding its outcome changes neither the count nor  *)
(* what it counts; the closing warning gives what the list left out.       *)
(***************************************************************************)
LEMMA NoOutcomeInv ==
  ASSUME EnrichInv,
         \/ NextFinding \/ EndOfFindings
         \/ EpssSkipped \/ EpssFromCache \/ EpssCancelled \/ \E answer \in Answers : EpssFetch(answer)
         \/ LookUp \/ StoreStep \/ CancelRun \/ UNCHANGED enrichVars
  PROVE  EnrichTypeOK' /\ LoopInPlace' /\ FailuresCounted'
<1> USE DEF EnrichInv
<1>a. UNCHANGED <<vuln, errors, warnedFor, breakerWarned>> /\ FailedSoFar' = FailedSoFar
  BY DEF NextFinding, EndOfFindings, EpssSkipped, EpssFromCache, EpssCancelled, EpssFetch, EpssParse,
         EpssError, GoToVulnrichment, LookUp, StoreStep, CancelRun, ReturnWith, enrichVars, FailedSoFar
<1>b. ASSUME EnrichTypeOK', UNCHANGED <<rollup, returned>> PROVE FailuresCounted'
  BY <1>a, <1>b DEF FailuresCounted, RollUp
<1>c. ASSUME returned' \in ContextErrors PROVE FailuresCounted'
  BY <1>a, <1>c DEF FailuresCounted
<1>1. CASE NextFinding \/ CancelRun \/ UNCHANGED enrichVars
  <2>1. EnrichTypeOK' /\ LoopInPlace'
    BY <1>1 DEF NextFinding, CancelRun, Cancel, ReturnWith, enrichVars, vars, caller, EnrichTypeOK,
                LoopInPlace
  <2> QED
    BY <1>1, <2>1, <1>b, <1>c DEF NextFinding, CancelRun, ReturnWith, enrichVars
<1>2. CASE EndOfFindings
  <2>1. EnrichTypeOK'
    BY <1>2 DEF EndOfFindings, ReturnWith, EnrichTypeOK, RollUp
  <2>2. LoopInPlace'
    BY <1>2 DEF EndOfFindings, ReturnWith, vars, caller, EnrichTypeOK, LoopInPlace
  <2> QED
    BY <1>2, <1>a, <2>1, <2>2 DEF EndOfFindings, FailuresCounted, RollUp
<1>3. CASE \/ EpssSkipped \/ EpssFromCache \/ EpssCancelled
           \/ \E answer \in Answers : EpssFetch(answer)
  <2>1. /\ stage = "epss" /\ returned # "complete"
        /\ \/ stage' = "vulnrichment" /\ UNCHANGED <<index, vuln, returned>>
           \/ stage' = "returned" /\ returned' \in ContextErrors /\ UNCHANGED <<index, vuln>>
        /\ UNCHANGED <<vars, warnings>>
    BY <1>3 DEF EpssSkipped, EpssFromCache, EpssCancelled, EpssFetch, EpssParse, EpssError,
                GoToVulnrichment, ReturnWith, LoopInPlace
  <2>2. epssFile' \in Files /\ epssLoaded' \in BOOLEAN /\ epssOn' \in BOOLEAN /\ epssWarned' \in BOOLEAN
    BY <1>3 DEF EpssSkipped, EpssFromCache, EpssCancelled, EpssFetch, EpssParse, EpssError,
                EnrichTypeOK, Files
  <2>3. EnrichTypeOK'
    BY <2>1, <2>2 DEF EnrichTypeOK
  <2>4. LoopInPlace'
    BY <2>1 DEF LoopInPlace, vars, caller
  <2> QED
    BY <2>1, <2>3, <2>4, <1>b, <1>c
<1>5. CASE LookUp
  <2>1. EnrichTypeOK'
    BY <1>5 DEF LookUp, EnrichTypeOK
  <2>2. LoopInPlace'
    <3>1. pc'[Caller] = "read"
      BY <1>5 DEF LookUp, Lookup, Goto, Inv, TypeOK
    <3> QED
      BY <1>5, <3>1 DEF LookUp, LoopInPlace
  <2> QED
    BY <1>5, <2>1, <2>2, <1>b DEF LookUp
<1>6. CASE StoreStep
  <2>1. EnrichTypeOK'
    BY <1>6 DEF StoreStep, EnrichTypeOK
  <2>2. LoopInPlace'
    BY <1>6, StepGivesOutcome DEF StoreStep, LoopInPlace
  <2> QED
    BY <1>6, <2>1, <2>2, <1>b DEF StoreStep
<1> QED
  BY <1>1, <1>2, <1>3, <1>5, <1>6

(***************************************************************************)
(* A finding whose lookup did not fail is not counted.                     *)
(***************************************************************************)
LEMMA NotCountedInv ==
  ASSUME EnrichInv, NEW outcome \in Outcomes \ (Failed \cup {"none"}),
         index <= Total, vuln' = [vuln EXCEPT ![index] = outcome], index' = index + 1,
         stage' = "finding", UNCHANGED <<epss, errors, warnedFor, rollup, returned>>,
         breakerWarned' = (breakerWarned \/ outcome = "unavailable"), returned # "complete"
  PROVE  EnrichTypeOK' /\ LoopInPlace' /\ FailuresCounted'
<1> USE DEF EnrichInv, EnrichTypeOK
<1>1. index \in Findings /\ vuln[index] = "none"
  BY DEF LoopInPlace
<1>2. FailedSoFar' = FailedSoFar
  BY <1>1 DEF FailedSoFar
<1>3. EnrichTypeOK'
  BY <1>1
<1>4. LoopInPlace'
  BY <1>1 DEF LoopInPlace
<1>5. FailuresCounted'
  BY <1>1, <1>2 DEF FailuresCounted
<1> QED
  BY <1>3, <1>4, <1>5

(***************************************************************************)
(* A finding whose lookup failed is counted once, and named if the list    *)
(* has room.                                                               *)
(***************************************************************************)
LEMMA CountedInv ==
  ASSUME EnrichInv, NEW outcome \in Failed,
         index <= Total, vuln' = [vuln EXCEPT ![index] = outcome], index' = index + 1,
         stage' = "finding", UNCHANGED <<epss, rollup, returned>>,
         breakerWarned' = (breakerWarned \/ outcome = "unavailable"), returned # "complete",
         errors' = errors + 1,
         warnedFor' = IF Named(errors + 1) THEN warnedFor \cup {index} ELSE warnedFor
  PROVE  EnrichTypeOK' /\ LoopInPlace' /\ FailuresCounted'
<1> USE DEF EnrichInv, EnrichTypeOK
<1>1. index \in Findings /\ vuln[index] = "none"
  BY DEF LoopInPlace
<1>2. FailedSoFar' = FailedSoFar \cup {index} /\ index \notin FailedSoFar
  BY <1>1 DEF FailedSoFar
<1>3. IsFiniteSet(Findings) /\ Cardinality(Findings) = Total
  BY FS_Interval
<1>4. IsFiniteSet(FailedSoFar) /\ IsFiniteSet(warnedFor)
  BY <1>3, FS_Subset DEF FailedSoFar
<1>5. Cardinality(FailedSoFar') = errors'
  BY <1>2, <1>4, FS_AddElement DEF FailuresCounted
<1>6. errors' <= Total
  <2>1. FailedSoFar' \subseteq Findings
    BY DEF FailedSoFar
  <2> QED
    BY <1>3, <1>5, <2>1, FS_Subset
<1>7. Named(errors + 1) => Cardinality(warnedFor') = Cardinality(warnedFor) + 1
  BY <1>2, <1>4, FS_AddElement DEF FailuresCounted
<1>8. EnrichTypeOK'
  BY <1>1, <1>6
<1>9. LoopInPlace'
  BY <1>1 DEF LoopInPlace
<1>10. FailuresCounted'
  BY <1>1, <1>2, <1>5, <1>7 DEF FailuresCounted, Named
<1> QED
  BY <1>8, <1>9, <1>10

(***************************************************************************)
(* Every step of the pass preserves its invariant.                         *)
(***************************************************************************)
LEMMA EnrichNextInv == EnrichInv /\ [EnrichNext]_enrichVars => EnrichInv'
<1> SUFFICES ASSUME EnrichInv, [EnrichNext]_enrichVars PROVE EnrichTypeOK' /\ LoopInPlace' /\ FailuresCounted'
  BY StoreInv DEF EnrichInv
<1> USE DEF EnrichInv, EnrichTypeOK
<1>1. CASE NotACVE
  <2>1. index <= Total /\ returned # "complete"
    BY <1>1 DEF NotACVE, LoopInPlace
  <2> QED
    BY <1>1, <2>1, NotCountedInv DEF NotACVE
<1>2. CASE TakeResult
  <2>1. index <= Total /\ returned # "complete" /\ result[Caller] # "none"
    BY <1>2 DEF TakeResult, LoopInPlace
  <2>2. result[Caller] \in Outcomes
    BY DEF Inv, TypeOK
  <2>3. CASE result[Caller] \in ContextErrors
    BY <1>2, <2>1, <2>3 DEF TakeResult, ReturnWith, vars, caller, LoopInPlace, FailuresCounted, FailedSoFar, RollUp
  <2>4. CASE result[Caller] \in Failed
    BY <1>2, <2>1, <2>4, CountedInv DEF TakeResult
  <2>5. CASE result[Caller] \notin ContextErrors \cup Failed
    BY <1>2, <2>1, <2>2, <2>5, NotCountedInv DEF TakeResult
  <2> QED
    BY <2>3, <2>4, <2>5
<1> QED
  BY <1>1, <1>2, NoOutcomeInv DEF EnrichNext, Pass

(***************************************************************************)
(* The invariant holds in every reachable state of the pass.               *)
(***************************************************************************)
THEOREM EnrichInvariance == EnrichSpec => []EnrichInv
  BY EnrichInitInv, EnrichNextInv, PTL DEF EnrichSpec

(***************************************************************************)
(* Type correctness of the pass and of the store under it.                 *)
(***************************************************************************)
THEOREM EnrichTypeCorrect == EnrichSpec => [](TypeOK /\ EnrichTypeOK)
  BY EnrichInvariance, PTL DEF EnrichInv, Inv

(***************************************************************************)
(* A pass that completes has named or counted every lookup that failed.    *)
(***************************************************************************)
THEOREM FailuresAccounted == EnrichSpec => []EveryFailureAccounted
<1>1. EnrichInv => EveryFailureAccounted
  BY DEF EnrichInv, EnrichTypeOK, LoopInPlace, FailuresCounted, FailedSoFar, RollUp, EveryFailureAccounted
<1> QED
  BY <1>1, EnrichInvariance, PTL
=============================================================================
