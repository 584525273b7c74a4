---------------------------- MODULE TrivyRunner ----------------------------
(***************************************************************************)
(* The Runner vdr scans with, composed with the inventory scan: databases  *)
(* downloaded once up front (EnsureDatabases), one isolated cache          *)
(* directory per worker whose databases are hardlinks to those of the base *)
(* cache (PrepareWorkerCaches), a one-shot repair of a corrupted database  *)
(* shared by all workers (WithSelfHeal), and a best-effort VEX lookup      *)
(* (applyOCIVEX) after a successful scan.                                  *)
(*                                                                         *)
(* The disk is modelled by which database file each cache directory holds: *)
(* "old" is the file the base cache had when the scans began, and a        *)
(* hardlink to it is the same file, so it is corrupted everywhere or       *)
(* nowhere; "new" is a file downloaded since.  What `trivy image` does     *)
(* with its databases is external to the repository and modelled from what *)
(* the code expects of it.                                                 *)
(***************************************************************************)
EXTENDS ScanInventory

CONSTANTS Dirs,        \* the worker-* directories: one per worker
          JavaImages,  \* the images whose scan reads the Java database
          VexImages    \* the images opted in to OCI VEX (useOCIVEX)

ASSUME DirsAssumption == IsFiniteSet(Dirs) /\ Cardinality(Dirs) = Cardinality(Workers)
ASSUME ImagesAssumption == JavaImages \subseteq Images /\ VexImages \subseteq Images

Subs == {"db", "java-db"}
Base == "base"
NoDir == "none"
ASSUME PlacesAssumption == Base \notin Dirs /\ NoDir \notin Dirs
Places == Dirs \cup {Base}
Needs(i) == IF i \in JavaImages THEN Subs ELSE {"db"}

VARIABLES
  setup,       \* what scanAndReport is doing with the caches
  skipUpdate,  \* SkipDBUpdate: every scan gets --skip-db-update
  db,          \* the database file each cache directory holds
  corrupt,     \* the databases whose "old" file is corrupted
  isolated,    \* workerCaches is not nil
  onDisk,      \* the worker directories that exist
  free,        \* the channel workerCaches.free
  phase,       \* where each worker is in ScanImageWithOptions
  dir,         \* the cache directory it uses
  saw,         \* what its Trivy process found in its databases
  rescan,      \* it is in healAndRescan
  heal,        \* how far the function given to healOnce.Do has come
  healed       \* healCache returned nil

disk == <<db, corrupt, onDisk>>
caches == <<setup, skipUpdate, isolated>>
calls == <<phase, dir, saw, rescan, free>>
healing == <<heal, healed>>
runner == <<disk, caches, calls, healing>>
allVars == <<vars, runner>>

Setups == {"prefetch", "prefetchJava", "link", "scan", "removed"}
Heals == {"idle", "removeDb", "removeJava", "downloadDb", "downloadJava", "done"}

(***************************************************************************)
(* Type invariant of the runner's part of the state.                       *)
(***************************************************************************)
RunnerTypeOK ==
  /\ setup \in Setups
  /\ skipUpdate \in BOOLEAN /\ isolated \in BOOLEAN /\ healed \in BOOLEAN
  /\ db \in [Places -> [Subs -> {"absent", "old", "new"}]]
  /\ corrupt \in SUBSET Subs
  /\ onDisk \in SUBSET Dirs /\ free \in SUBSET Dirs
  /\ phase \in [Workers -> {"out", "open", "read", "heal", "vex"}]
  /\ dir \in [Workers -> Places \cup {NoDir}]
  /\ saw \in [Workers -> {"nothing", "good", "corrupt", "missing", "unavailable"}]
  /\ rescan \in [Workers -> BOOLEAN]
  /\ heal \in Heals

Nowhere == [s \in Subs |-> "absent"]

RunnerInit ==
  /\ Init
  /\ setup = "prefetch"
  /\ skipUpdate = FALSE
  /\ \E base \in [Subs -> {"absent", "old"}] :
       db = [p \in Places |-> IF p = Base THEN base ELSE Nowhere]
  /\ corrupt \in SUBSET Subs
  /\ isolated = FALSE
  /\ onDisk = {}
  /\ free = {}
  /\ phase = [w \in Workers |-> "out"]
  /\ dir = [w \in Workers |-> NoDir]
  /\ saw = [w \in Workers |-> "nothing"]
  /\ rescan = [w \in Workers |-> FALSE]
  /\ heal = "idle"
  /\ healed = FALSE

-----------------------------------------------------------------------------
(* Before the scans: download the databases, prepare the caches.           *)

\* downloadDB in the base cache: the file is there afterwards, or the error
\* leaves the cache as it was.
PrefetchDb ==
  /\ setup = "prefetch"
  /\ \/ /\ db' = [db EXCEPT ![Base]["db"] = "old"]
        /\ setup' = "prefetchJava"
     \/ setup' = "link" /\ db' = db
  /\ UNCHANGED <<vars, corrupt, onDisk, skipUpdate, isolated, calls, healing>>

\* Mutant: a failed Java database download still sets SkipDBUpdate.
PrefetchJavaDb_SkipAnyway ==
  /\ setup = "prefetchJava"
  /\ setup' = "link"
  /\ skipUpdate' = TRUE
  /\ \/ db' = [db EXCEPT ![Base]["java-db"] = "old"]
     \/ db' = db
  /\ UNCHANGED <<vars, corrupt, onDisk, isolated, calls, healing>>

PrefetchJavaDb ==
  /\ setup = "prefetchJava"
  /\ setup' = "link"
  /\ \/ /\ db' = [db EXCEPT ![Base]["java-db"] = "old"]
        /\ skipUpdate' = TRUE
     \/ UNCHANGED <<db, skipUpdate>>
  /\ UNCHANGED <<vars, corrupt, onDisk, isolated, calls, healing>>

\* makeWorkerCache hardlinks the database files the base cache holds.
MakeWorkerCache(d) ==
  /\ setup = "link"
  /\ Cardinality(Workers) > 1
  /\ d \notin onDisk
  /\ db' = [db EXCEPT ![d] = db[Base]]
  /\ onDisk' = onDisk \cup {d}
  /\ free' = free \cup {d}
  /\ IF onDisk' = Dirs THEN isolated' = TRUE /\ setup' = "scan"
                       ELSE UNCHANGED <<isolated, setup>>
  /\ UNCHANGED <<vars, corrupt, skipUpdate, phase, dir, saw, rescan, healing>>

RemoveDirs ==
  /\ onDisk' = {}
  /\ db' = [p \in Places |-> IF p = Base THEN db[Base] ELSE Nowhere]
  /\ corrupt' = corrupt

\* Mutant: the directories made before the failure are left behind.
ShareBaseCache_DirsLeft ==
  /\ setup = "link"
  /\ free' = {}
  /\ setup' = "scan"
  /\ UNCHANGED <<vars, disk, skipUpdate, isolated, phase, dir, saw, rescan, healing>>

\* All workers scan with the base cache: there is one only and nothing to isolate,
\* or a directory cannot be made and pool.remove() takes those made before it.
ShareBaseCache ==
  /\ setup = "link"
  /\ RemoveDirs
  /\ free' = {}
  /\ setup' = "scan"
  /\ UNCHANGED <<vars, skipUpdate, isolated, phase, dir, saw, rescan, healing>>

\* The deferred cleanup of scanAndReport, after the scan call has returned.
RemoveWorkerCaches ==
  /\ setup = "scan"
  /\ outcome # "running"
  /\ setup' = "removed"
  /\ IF isolated THEN RemoveDirs ELSE UNCHANGED disk
  /\ UNCHANGED <<vars, skipUpdate, isolated, calls, healing>>

-----------------------------------------------------------------------------
(* One call of ScanImageWithOptions.                                       *)

StartCall(w, d) ==
  /\ dir' = [dir EXCEPT ![w] = d]
  /\ phase' = [phase EXCEPT ![w] = "open"]
  /\ UNCHANGED <<vars, disk, caches, saw, rescan, healing>>

\* Mutant: the directory is read from the pool and not taken out of it.
EnterScan_NotTaken(w) ==
  /\ setup = "scan"
  /\ worker[w] = "scanning"
  /\ phase[w] = "out"
  /\ \/ isolated /\ \E d \in free : StartCall(w, d) /\ free' = free
     \/ ~isolated /\ StartCall(w, Base) /\ free' = free

\* Take a directory from the pool, or use the base cache when there is none.
EnterScan(w) ==
  /\ setup = "scan"
  /\ worker[w] = "scanning"
  /\ phase[w] = "out"
  /\ \/ isolated /\ \E d \in free : StartCall(w, d) /\ free' = free \ {d}
     \/ ~isolated /\ StartCall(w, Base) /\ free' = free

Found(files, needed) ==
  IF \E s \in needed : files[s] = "old" /\ s \in corrupt THEN "corrupt" ELSE "good"

\* The Trivy process opens the databases the image needs.  Unless told to skip,
\* it downloads the missing ones, and may replace one it considers outdated.
OpenDatabases(w) ==
  LET needed == Needs(job[w])
      missing == {s \in needed : db[dir[w]][s] = "absent"}
      Downloaded(set) == [s \in Subs |-> IF s \in set THEN "new" ELSE db[dir[w]][s]]
      Sees(files, result) == /\ db' = [db EXCEPT ![dir[w]] = files]
                             /\ saw' = [saw EXCEPT ![w] = result]
  IN /\ phase[w] = "open"
     /\ \/ skipUpdate /\ missing = {} /\ Sees(db[dir[w]], Found(db[dir[w]], needed))
        \/ skipUpdate /\ missing # {} /\ Sees(db[dir[w]], "missing")
        \/ ~skipUpdate /\ \E set \in SUBSET needed :
             missing \subseteq set /\ Sees(Downloaded(set), Found(Downloaded(set), needed))
        \/ ~skipUpdate /\ missing # {} /\ Sees(db[dir[w]], "unavailable")
     /\ phase' = [phase EXCEPT ![w] = "read"]
     /\ UNCHANGED <<vars, corrupt, onDisk, caches, dir, rescan, free, healing>>

\* Mutant: the directory is not put back.
Leave_KeepsDir(w) ==
  /\ phase' = [phase EXCEPT ![w] = "out"]
  /\ dir' = [dir EXCEPT ![w] = NoDir]
  /\ saw' = [saw EXCEPT ![w] = "nothing"]
  /\ rescan' = [rescan EXCEPT ![w] = FALSE]
  /\ UNCHANGED <<disk, caches, healing, free>>

\* The deferred put-back of the directory, when the call returns.
Leave(w) ==
  /\ phase' = [phase EXCEPT ![w] = "out"]
  /\ dir' = [dir EXCEPT ![w] = NoDir]
  /\ saw' = [saw EXCEPT ![w] = "nothing"]
  /\ rescan' = [rescan EXCEPT ![w] = FALSE]
  /\ free' = IF isolated THEN free \cup {dir[w]} ELSE free
  /\ UNCHANGED <<disk, caches, healing>>

CallSucceeds(w) ==
  /\ phase[w] = "read"
  /\ saw[w] = "good"
  /\ job[w] \notin VexImages
  /\ ScanSucceeds(w)
  /\ Leave(w)

\* An opted-in image: applyOCIVEX may fail in any way and only logs it.
BeginVexLookup(w) ==
  /\ phase[w] = "read"
  /\ saw[w] = "good"
  /\ job[w] \in VexImages
  /\ phase' = [phase EXCEPT ![w] = "vex"]
  /\ UNCHANGED <<vars, disk, caches, dir, saw, rescan, free, healing>>

EndVexLookup(w) ==
  /\ phase[w] = "vex"
  /\ ScanSucceeds(w)
  /\ Leave(w)

\* An error that does not look like corruption, or any error of the rescan.
CallFails(w, e) ==
  /\ phase[w] = "read"
  /\ saw[w] = "missing" => e # "transient"
  /\ saw[w] = "corrupt" => e = "context" \/ (rescan[w] /\ e = "permanent")
  /\ ScanFails(w, e)
  /\ Leave(w)

\* looksLikeCacheCorruption: a corrupted database does, and so does a panic
\* of Trivy with any other cause.
DetectCorruption(w) ==
  /\ phase[w] = "read"
  /\ saw[w] \in {"corrupt", "good"}
  /\ ~rescan[w]
  /\ phase' = [phase EXCEPT ![w] = "heal"]
  /\ UNCHANGED <<vars, disk, caches, dir, saw, rescan, free, healing>>

-----------------------------------------------------------------------------
(* healOnce.Do(healCache): the first caller runs it, the others wait for   *)
(* it, and later callers find it done.                                     *)

\* Mutant: every corruption starts a repair.
BeginHeal_EveryTime(w) ==
  /\ phase[w] = "heal"
  /\ heal \in {"idle", "done"}
  /\ heal' = "removeDb"
  /\ UNCHANGED <<vars, disk, caches, calls, healed>>

BeginHeal(w) ==
  /\ phase[w] = "heal"
  /\ heal = "idle"
  /\ heal' = "removeDb"
  /\ UNCHANGED <<vars, disk, caches, calls, healed>>

EndHeal(ok) == heal' = "done" /\ healed' = ok

\* os.RemoveAll of the base cache's db, then of its java-db.
HealRemoves(at, s, then) ==
  /\ heal = at
  /\ \/ /\ db' = [db EXCEPT ![Base][s] = "absent"]
        /\ heal' = then
        /\ healed' = healed
     \/ db' \in {db, [db EXCEPT ![Base][s] = "absent"]} /\ EndHeal(FALSE)
  /\ UNCHANGED <<vars, corrupt, onDisk, caches, calls>>

\* EnsureDatabases: a failed download ends the repair.
HealDownloads(at, s, last) ==
  /\ heal = at
  /\ \/ /\ db' = [db EXCEPT ![Base][s] = "new"]
        /\ IF last THEN EndHeal(TRUE) ELSE heal' = "downloadJava" /\ healed' = healed
     \/ db' = db /\ EndHeal(FALSE)
  /\ UNCHANGED <<vars, corrupt, onDisk, caches, calls>>

HealStep ==
  \/ HealRemoves("removeDb", "db", "removeJava")
  \/ HealRemoves("removeJava", "java-db", "downloadDb")
  \/ HealDownloads("downloadDb", "db", FALSE)
  \/ HealDownloads("downloadJava", "java-db", TRUE)

\* Do returns: scan again, in the cache directory of the first scan.
Rescan(w) ==
  /\ phase[w] = "heal"
  /\ heal = "done"
  /\ phase' = [phase EXCEPT ![w] = "open"]
  /\ rescan' = [rescan EXCEPT ![w] = TRUE]
  /\ saw' = [saw EXCEPT ![w] = "nothing"]
  /\ UNCHANGED <<vars, disk, caches, dir, free, healing>>

-----------------------------------------------------------------------------
Setup ==
  \/ PrefetchDb
  \/ PrefetchJavaDb
  \/ ShareBaseCache
  \/ \E d \in Dirs : MakeWorkerCache(d)
  \/ RemoveWorkerCaches

Call(w) ==
  \/ EnterScan(w)
  \/ OpenDatabases(w)
  \/ CallSucceeds(w)
  \/ BeginVexLookup(w)
  \/ EndVexLookup(w)
  \/ \E e \in Failures : CallFails(w, e)
  \/ DetectCorruption(w)
  \/ BeginHeal(w)
  \/ Rescan(w)

\* The steps of the inventory scan that are not steps of the runner.
Around(w) ==
  /\ setup = "scan"
  /\ RetryScan(w) \/ BackoffCancelled(w) \/ WorkerExits(w)
  /\ UNCHANGED runner

Dispatch == setup = "scan" /\ Dispatcher /\ UNCHANGED runner

Context == (Cancel \/ Propagate) /\ UNCHANGED runner

RunnerNext ==
  \/ Setup
  \/ Context
  \/ Dispatch
  \/ HealStep
  \/ \E w \in Workers : Call(w) \/ Around(w)

\* As for the inventory scan; a download, a VEX lookup and each call of Trivy end.
RunnerFairness ==
  /\ WF_allVars(Setup)
  /\ WF_allVars(Propagate /\ UNCHANGED runner)
  /\ WF_allVars(Dispatch)
  /\ WF_allVars(HealStep)
  /\ \A w \in Workers : WF_allVars(Call(w)) /\ WF_allVars(Around(w))

RunnerSpec == RunnerInit /\ [][RunnerNext]_allVars /\ RunnerFairness

-----------------------------------------------------------------------------
(***************************************************************************)
(* The pool is conserved: while the scans run in isolated caches, every    *)
(* worker directory is on disk and either free or held by exactly one      *)
(* worker, whatever way the calls return, so no scan shares the cache of   *)
(* another one (Trivy locks it) and none runs in a removed directory.      *)
(***************************************************************************)
PoolConserved ==
  isolated /\ setup = "scan" =>
    /\ onDisk = Dirs
    /\ \A w \in Workers : IF phase[w] = "out" THEN dir[w] = NoDir ELSE dir[w] \in Dirs \ free
    /\ \A v, w \in Workers : dir[v] = dir[w] /\ dir[v] # NoDir => v = w
    /\ \A d \in Dirs : d \in free \/ \E w \in Workers : dir[w] = d

(***************************************************************************)
(* The receive from the pool ignores the context, so it must never block:  *)
(* a worker about to scan always finds a directory.                        *)
(***************************************************************************)
PoolNeverEmpty ==
  isolated /\ setup = "scan" =>
    \A w \in Workers : worker[w] = "scanning" /\ phase[w] = "out" => free # {}

(***************************************************************************)
(* --skip-db-update is passed only when it is safe: until a repair begins, *)
(* every cache a scan can use holds both databases.                        *)
(***************************************************************************)
SkipsOnlyWhenPresent ==
  skipUpdate /\ setup = "scan" /\ heal = "idle" =>
    \A p \in onDisk \cup {Base}, s \in Subs : db[p][s] # "absent"

(***************************************************************************)
(* The databases are repaired at most once per run: after the repair ended *)
(* none begins again, and no step removes a database of a cache in use,    *)
(* however many scans report a corruption later.                           *)
(***************************************************************************)
RepairedAtMostOnce ==
  [][heal = "done" =>
       /\ heal' = "done"
       /\ setup' = setup =>
            \A p \in Places, s \in Subs : db[p][s] # "absent" => db'[p][s] # "absent"]_allVars

(***************************************************************************)
(* "If a database is ever found corrupted, vdr clears and re-downloads it  *)
(* once automatically (self-heal)": the scan that is retried after a       *)
(* successful repair does not find a corrupted database again.             *)
(***************************************************************************)
HealRepairsRescan ==
  \A w \in Workers : healed /\ rescan[w] => saw[w] # "corrupt"

(***************************************************************************)
(* No worker directory outlives the scan: when everything has ended, the   *)
(* ones made for it are gone, also when making the last of them failed.    *)
(***************************************************************************)
WorkerDirsRemoved == <>[](setup = "removed" /\ onDisk = {})

-----------------------------------------------------------------------------
(* The inductive invariant behind the safety properties of the runner.     *)

\* Before the scans no call is under way; the pool is complete only when every
\* directory was made.
SetupOrder ==
  /\ setup # "scan" => \A w \in Workers : phase[w] = "out" /\ dir[w] = NoDir
  /\ setup \in {"prefetch", "prefetchJava", "link"} =>
       ~isolated /\ free = onDisk /\ heal = "idle" /\ \A w \in Workers : ~rescan[w]
  /\ setup \in {"prefetch", "prefetchJava"} => onDisk = {} /\ ~skipUpdate
  /\ setup = "prefetchJava" => db[Base]["db"] # "absent"

CallsWellFormed ==
  \A w \in Workers :
    /\ phase[w] # "out" => worker[w] = "scanning" /\ dir[w] \in Places
    /\ phase[w] = "out" => dir[w] = NoDir
    /\ setup = "scan" /\ ~isolated => dir[w] \in {Base, NoDir}

\* As long as no repair began, a runner told to skip updates has both databases
\* in the base cache and in each directory made from it.
DatabasesPresent ==
  skipUpdate /\ heal = "idle" =>
    \A p \in onDisk \cup {Base}, s \in Subs : db[p][s] # "absent"

RunnerInv ==
  /\ RunnerTypeOK
  /\ SetupOrder
  /\ CallsWellFormed
  /\ DatabasesPresent
  /\ PoolConserved

(***************************************************************************)
(* With this runner the inventory scan is one ScanInventory describes: the *)
(* runner ends every attempt it begins, in a way the interface allows.     *)
(***************************************************************************)
ImplementsScanInventory == FairSpec
=============================================================================
