------------------------- MODULE VulnrichmentStore -------------------------
(***************************************************************************)
(* The Vulnrichment store of internal/enrich/vulnrichment with the retry   *)
(* loop of internal/httpretry: a lookup reads a cached record, and fetches *)
(* it over HTTP when there is none or it is a week old; a circuit breaker  *)
(* stops fetching after a limit of consecutive failures; fetched records   *)
(* are written to a temporary file and renamed into the cache.             *)
(*                                                                         *)
(* The store's counters and its breaker are atomics, so lookups may run in *)
(* several goroutines; each atomic or file-system access is a step.  The   *)
(* process may be killed at any step and started again on the same cache.  *)
(***************************************************************************)
EXTENDS Integers, FiniteSets

CONSTANTS Callers,      \* the goroutines that look records up
          CVEs,         \* the identifiers looked up
          Retries,      \* len(retryDelays)
          FailureLimit, \* breakerLimit
          MaxLookups,   \* bound: lookups begun by one process
          MaxKills      \* bound: times the process is killed

ASSUME StoreAssumption ==
  /\ IsFiniteSet(Callers) /\ IsFiniteSet(CVEs)
  /\ Retries \in Nat /\ FailureLimit \in Nat \ {0}
  /\ MaxLookups \in Nat /\ MaxKills \in Nat

NoCVE == "none"
ASSUME NoCVEAssumption == NoCVE \notin CVEs

\* A cache file: absent, holding a JSON document or not, younger than a week
\* or not.  "torn" is a document of which only a part was written.
Files == {"absent", "fresh", "stale", "badFresh", "badStale", "torn"}
Valid == {"fresh", "stale"}
Young == {"fresh", "badFresh", "torn"}

\* What one HTTP exchange ends with: a document, 404, an error that is worth a
\* retry or not, the caller's context error, or the client's own timeout (which
\* matches context.DeadlineExceeded as the context's error does).
Answers == {"ok", "notFound", "transient", "permanent", "cancelled", "timeout"}
ContextErrors == {"cancelled", "timeout"}

\* What a lookup returns: the record, no record, or an error ("unreadable" when
\* the cached file is what failed, "failed" when fetching it did).
Outcomes == {"none", "record", "noRecord", "unavailable", "unreadable", "failed"}
              \cup ContextErrors

VARIABLES
  file,        \* the cache file of each CVE
  force,       \* forceRefresh
  ctxDone,     \* the context of the lookups is done
  tripped,     \* the circuit breaker
  consecutive, \* consecutiveFailures
  pc,          \* where each caller is
  cve,         \* the CVE it looks up
  data,        \* what os.ReadFile returned to it, as read
  attempt,     \* its attempt of the fetch
  temp,        \* its temporary file
  result,      \* what its last lookup returned
  litter,      \* a temporary file was left behind by a killed process
  lookups,     \* lookups begun by this process
  kills

store == <<tripped, consecutive>>
caller == <<pc, cve, data, attempt, temp, result>>
bounds == <<lookups, kills>>
vars == <<file, force, ctxDone, store, caller, litter, bounds>>

PCs == {"idle", "read", "stat", "breaker", "fetch", "backoff", "write", "rename"}

(***************************************************************************)
(* Type invariant of the store.                                            *)
(***************************************************************************)
TypeOK ==
  /\ file \in [CVEs -> Files]
  /\ force \in BOOLEAN /\ ctxDone \in BOOLEAN /\ tripped \in BOOLEAN
  /\ consecutive \in Nat
  /\ pc \in [Callers -> PCs]
  /\ cve \in [Callers -> CVEs \cup {NoCVE}]
  /\ data \in [Callers -> Files]
  /\ attempt \in [Callers -> 1 .. (Retries + 1)]
  /\ temp \in [Callers -> {"absent", "torn", "whole"}]
  /\ result \in [Callers -> Outcomes]
  /\ litter \in BOOLEAN
  /\ lookups \in 0 .. MaxLookups /\ kills \in 0 .. MaxKills

Idle == [pc |-> [c \in Callers |-> "idle"],
         cve |-> [c \in Callers |-> NoCVE],
         data |-> [c \in Callers |-> "absent"],
         attempt |-> [c \in Callers |-> 1],
         temp |-> [c \in Callers |-> "absent"],
         result |-> [c \in Callers |-> "none"]]

\* A cache may hold documents that are not JSON (written by other means), never
\* part of one.
Init ==
  /\ file \in [CVEs -> Files \ {"torn"}]
  /\ force \in BOOLEAN
  /\ ctxDone = FALSE
  /\ litter = FALSE
  /\ kills = 0
  /\ tripped = FALSE
  /\ consecutive = 0
  /\ pc = Idle.pc /\ cve = Idle.cve /\ data = Idle.data
  /\ attempt = Idle.attempt /\ temp = Idle.temp /\ result = Idle.result
  /\ lookups = 0

-----------------------------------------------------------------------------
(* readOrFetch                                                             *)

Goto(c, label) == pc' = [pc EXCEPT ![c] = label]

Return(c, outcome) ==
  /\ Goto(c, "idle")
  /\ cve' = [cve EXCEPT ![c] = NoCVE]
  /\ data' = [data EXCEPT ![c] = "absent"]
  /\ attempt' = [attempt EXCEPT ![c] = 1]
  /\ temp' = [temp EXCEPT ![c] = "absent"]
  /\ result' = [result EXCEPT ![c] = outcome]

\* LookupContext hands the returned document to parse.
ReturnData(c, read) == Return(c, IF read \in Valid THEN "record" ELSE "unreadable")

Lookup(c, id) ==
  /\ pc[c] = "idle"
  /\ lookups < MaxLookups
  /\ lookups' = lookups + 1
  /\ Goto(c, "read")
  /\ cve' = [cve EXCEPT ![c] = id]
  /\ result' = [result EXCEPT ![c] = "none"]
  /\ UNCHANGED <<file, force, ctxDone, store, data, attempt, temp, litter, kills>>

\* Any other error of os.ReadFile than a missing file is the lookup's.
ReadCache(c) ==
  /\ pc[c] = "read"
  /\ \/ /\ data' = [data EXCEPT ![c] = file[cve[c]]]
        /\ Goto(c, IF file[cve[c]] = "absent" THEN "breaker" ELSE "stat")
        /\ UNCHANGED <<cve, attempt, temp, result>>
     \/ file[cve[c]] # "absent" /\ Return(c, "unreadable")
  /\ UNCHANGED <<file, force, ctxDone, store, litter, bounds>>

\* os.Stat sees the file of this moment, which a rename may have replaced, or fails.
StatCache(c) ==
  /\ pc[c] = "stat"
  /\ \/ ~force /\ file[cve[c]] \in Young /\ ReturnData(c, data[c])
     \/ /\ force \/ file[cve[c]] \notin Young
        /\ Goto(c, "breaker")
        /\ UNCHANGED <<cve, data, attempt, temp, result>>
     \/ Return(c, "unreadable")
  /\ UNCHANGED <<file, force, ctxDone, store, litter, bounds>>

\* Mutant: the cached document is not used.
FallBack_Forgets(c, outcome) == Return(c, outcome)

\* Without an answer from the source, a valid document of any age is used.
FallBack(c, outcome) ==
  Return(c, IF data[c] \in Valid THEN "record" ELSE outcome)

\* Mutant: a refresh of a cached record does not ask the breaker.
CheckBreaker_NotForRefresh(c) ==
  /\ pc[c] = "breaker"
  /\ IF tripped /\ data[c] = "absent"
       THEN FallBack(c, "unavailable")
       ELSE Goto(c, "fetch") /\ UNCHANGED <<cve, data, attempt, temp, result>>
  /\ UNCHANGED <<file, force, ctxDone, store, litter, bounds>>

CheckBreaker(c) ==
  /\ pc[c] = "breaker"
  /\ IF tripped
       THEN FallBack(c, "unavailable")
       ELSE Goto(c, "fetch") /\ UNCHANGED <<cve, data, attempt, temp, result>>
  /\ UNCHANGED <<file, force, ctxDone, store, litter, bounds>>

-----------------------------------------------------------------------------
(* fetchWithRetry and httpretry.Do                                         *)

RecordFailure ==
  /\ consecutive' = consecutive + 1
  /\ tripped' = (tripped \/ consecutive + 1 >= FailureLimit)

FetchFails(c, answer) ==
  /\ RecordFailure
  /\ FallBack(c, IF answer \in ContextErrors THEN answer ELSE "failed")
  /\ UNCHANGED <<file, force, ctxDone, litter, bounds>>

\* Only a transient error is tried again, and not after the last attempt.
Retried(c, answer) == answer = "transient" /\ attempt[c] <= Retries

\* One attempt.  An exchange that ended before the context did is still handled.
Fetch(c, answer) ==
  /\ pc[c] = "fetch"
  /\ answer = "cancelled" => ctxDone
  /\ \/ /\ answer = "ok"
        /\ consecutive' = 0
        /\ Goto(c, "write")
        /\ temp' = [temp EXCEPT ![c] = "torn"]
        /\ UNCHANGED <<file, force, ctxDone, tripped, cve, data, attempt, result, litter, bounds>>
     \/ /\ answer = "notFound"
        /\ consecutive' = 0
        /\ FallBack(c, "noRecord")
        /\ UNCHANGED <<file, force, ctxDone, tripped, litter, bounds>>
     \/ /\ Retried(c, answer)
        /\ Goto(c, "backoff")
        /\ UNCHANGED <<file, force, ctxDone, store, cve, data, attempt, temp, result, litter, bounds>>
     \/ /\ answer \notin {"ok", "notFound"}
        /\ ~Retried(c, answer)
        /\ FetchFails(c, answer)

\* The delay ends, or the context does.
Backoff(c) ==
  /\ pc[c] = "backoff"
  /\ \/ /\ attempt' = [attempt EXCEPT ![c] = @ + 1]
        /\ Goto(c, "fetch")
        /\ UNCHANGED <<file, force, ctxDone, store, cve, data, temp, result, litter, bounds>>
     \/ ctxDone /\ FetchFails(c, "cancelled")

-----------------------------------------------------------------------------
(* writeCacheFileAtomically: the record is returned whether or not it      *)
(* could be cached.                                                        *)

\* Mutant: the record is written in place.
WriteTemp_InPlace(c) ==
  /\ pc[c] = "write"
  /\ file' = [file EXCEPT ![cve[c]] = "torn"]
  /\ Goto(c, "rename")
  /\ UNCHANGED <<force, ctxDone, store, cve, data, attempt, temp, result, litter, bounds>>

WriteTemp(c) ==
  /\ pc[c] = "write"
  /\ \/ /\ temp' = [temp EXCEPT ![c] = "whole"]
        /\ Goto(c, "rename")
        /\ UNCHANGED <<cve, data, attempt, result>>
     \/ Return(c, "record")
  /\ UNCHANGED <<file, force, ctxDone, store, litter, bounds>>

Rename(c) ==
  /\ pc[c] = "rename"
  /\ file' \in {file, [file EXCEPT ![cve[c]] = "fresh"]}
  /\ Return(c, "record")
  /\ UNCHANGED <<force, ctxDone, store, litter, bounds>>

-----------------------------------------------------------------------------
(* The environment                                                         *)

Cancel ==
  /\ ~ctxDone
  /\ ctxDone' = TRUE
  /\ UNCHANGED <<file, force, store, caller, litter, bounds>>

\* The process is killed and, some time later, started again on the same cache.
KillAndRestart ==
  /\ kills < MaxKills
  /\ kills' = kills + 1
  /\ tripped' = FALSE
  /\ consecutive' = 0
  /\ pc' = Idle.pc /\ cve' = Idle.cve /\ data' = Idle.data
  /\ attempt' = Idle.attempt /\ temp' = Idle.temp /\ result' = Idle.result
  /\ lookups' = 0
  /\ litter' = (litter \/ \E c \in Callers : temp[c] # "absent")
  /\ \E aged \in SUBSET CVEs :
       file' = [id \in CVEs |->
                 IF id \in aged /\ file[id] = "fresh" THEN "stale"
                 ELSE IF id \in aged /\ file[id] = "badFresh" THEN "badStale" ELSE file[id]]
  /\ ctxDone' = FALSE
  /\ force' = force

Step(c) ==
  \/ ReadCache(c)
  \/ StatCache(c)
  \/ CheckBreaker(c)
  \/ \E answer \in Answers : Fetch(c, answer)
  \/ Backoff(c)
  \/ WriteTemp(c)
  \/ Rename(c)

Next ==
  \/ \E c \in Callers : Step(c) \/ \E id \in CVEs : Lookup(c, id)
  \/ Cancel
  \/ KillAndRestart

Spec == Init /\ [][Next]_vars

-----------------------------------------------------------------------------
(***************************************************************************)
(* A cache file is replaced in one piece: whatever the callers interleave  *)
(* and wherever the process is killed, no file of the cache is ever part   *)
(* of a document, and a valid record is never lost.                        *)
(***************************************************************************)
CacheNeverDamaged ==
  [][\A id \in CVEs : /\ file'[id] # "torn"
                      /\ file[id] \in Valid => file'[id] \in Valid]_vars

(***************************************************************************)
(* "If a forced refresh fails and an existing cache file is still readable *)
(* and valid, vdr keeps and uses the cached data": a lookup that read a    *)
(* valid record returns a record, whatever the source answers, whether or  *)
(* not the breaker is tripped, and also when the context is done (unless   *)
(* the file itself can no longer be examined).                             *)
(***************************************************************************)
CachedRecordUsed ==
  [][\A c \in Callers :
       data[c] \in Valid /\ pc[c] # "idle" /\ pc'[c] = "idle" /\ kills' = kills
         => result'[c] \in {"record", "unreadable"}]_vars

(***************************************************************************)
(* The breaker is for good: a caller that has not passed it yet when it    *)
(* trips makes no request any more, so after the trip only the fetches     *)
(* already under way go on, each with its own retries.                     *)
(***************************************************************************)
BreakerIsFinal ==
  [][kills' = kills =>
       /\ tripped => tripped'
       /\ tripped => \A c \in Callers :
            pc'[c] \in {"fetch", "backoff"} => pc[c] \in {"fetch", "backoff"}]_vars
=============================================================================
