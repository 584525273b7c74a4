-------------------------- MODULE TrivyRunner_proof --------------------------
(***************************************************************************)
(* The inventory scan with vdr's runner implements the inventory scan with *)
(* any runner, so what ScanInventory_proof proves holds of it; and the     *)
(* pool of worker caches is safe, for any number of workers and images.    *)
(***************************************************************************)
EXTENDS TrivyRunner, ScanInventory_proof, FiniteSetTheorems

(***************************************************************************)
(* Every step of the composed system is a step of ScanInventory or leaves  *)
(* its variables alone.                                                    *)
(***************************************************************************)
LEMMA RunnerStep == [RunnerNext]_allVars => [Next]_vars
<1> SUFFICES ASSUME [RunnerNext]_allVars PROVE [Next]_vars
  OBVIOUS
<1>1. CASE Setup
  BY <1>1 DEF Setup, PrefetchDb, PrefetchJavaDb, ShareBaseCache, MakeWorkerCache,
              RemoveWorkerCaches
<1>2. CASE Context \/ Dispatch
  BY <1>2 DEF Context, Dispatch, Next
<1>3. CASE HealStep
  BY <1>3 DEF HealStep, HealRemoves, HealDownloads
<1>4. ASSUME NEW w \in Workers, Call(w) PROVE [Next]_vars
  <2>1. CASE CallSucceeds(w) \/ EndVexLookup(w)
    BY <2>1 DEF CallSucceeds, EndVexLookup, Next, Worker, EndAttempt
  <2>2. ASSUME NEW e \in Failures, CallFails(w, e) PROVE [Next]_vars
    BY <2>2 DEF CallFails, Next, Worker, EndAttempt
  <2>3. CASE EnterScan(w) \/ OpenDatabases(w) \/ BeginVexLookup(w)
    BY <2>3 DEF EnterScan, StartCall, OpenDatabases, BeginVexLookup
  <2>4. CASE DetectCorruption(w) \/ BeginHeal(w) \/ Rescan(w)
    BY <2>4 DEF DetectCorruption, BeginHeal, Rescan
  <2> QED
    BY <1>4, <2>1, <2>2, <2>3, <2>4 DEF Call
<1>5. ASSUME NEW w \in Workers, Around(w) PROVE [Next]_vars
  BY <1>5 DEF Around, Next, Worker
<1>6. CASE UNCHANGED allVars
  BY <1>6 DEF allVars
<1> QED
  BY <1>1, <1>2, <1>3, <1>4, <1>5, <1>6 DEF RunnerNext

(***************************************************************************)
(* The composed system implements ScanInventory.                           *)
(***************************************************************************)
THEOREM RunnerImplements == RunnerSpec => Spec
<1>1. RunnerInit => Init
  BY DEF RunnerInit
<1> QED
  BY <1>1, RunnerStep, PTL DEF RunnerSpec, Spec

(***************************************************************************)
(* So its reports are complete, and its cleanup runs alone.                *)
(***************************************************************************)
THEOREM RunnerReports == RunnerSpec => [](NoImageDropped /\ NoReportOfCancelledScan /\ CleanupAlone)
  BY RunnerImplements, ReportIsComplete, CancelledIsNoReport, CleanupIsAlone, PTL

-----------------------------------------------------------------------------
(* The invariant of the runner, next to that of the inventory scan.        *)

USE DEF Subs, Base, NoDir, Places, Setups, Heals, Nowhere,
        disk, caches, calls, healing, runner, vars, context, dispatcher, workers, returned

(***************************************************************************)
(* The runner starts with its invariant.                                   *)
(***************************************************************************)
LEMMA RunnerInitInv == RunnerInit => RunnerInv
<1> SUFFICES ASSUME RunnerInit PROVE RunnerInv
  OBVIOUS
<1> USE DEF RunnerInit
<1>1. RunnerTypeOK
  <2>1. PICK base \in [Subs -> {"absent", "old"}] :
               db = [p \in Places |-> IF p = Base THEN base ELSE Nowhere]
    OBVIOUS
  <2>2. db \in [Places -> [Subs -> {"absent", "old", "new"}]]
    BY <2>1
  <2> QED
    BY <2>2 DEF RunnerTypeOK
<1>2. SetupOrder /\ CallsWellFormed /\ DatabasesPresent /\ PoolConserved
  BY DEF SetupOrder, CallsWellFormed, DatabasesPresent, PoolConserved
<1> QED
  BY <1>1, <1>2 DEF RunnerInv

(***************************************************************************)
(* Steps of the inventory scan and of the context leave the runner alone,  *)
(* and touch no worker that is in a call.                                  *)
(***************************************************************************)
LEMMA OutsideInv ==
  ASSUME Inv, RunnerInv, Context \/ Dispatch \/ \E w \in Workers : Around(w)
  PROVE  RunnerInv'
<1> USE DEF RunnerInv
<1>1. UNCHANGED runner
  BY DEF Context, Dispatch, Around
<1>2. \A w \in Workers : worker[w] = "scanning" => worker'[w] = "scanning"
  <2>1. CASE Context
    BY <2>1 DEF Context, Cancel, Propagate
  <2>2. CASE Dispatch
    <3>1. ASSUME NEW v \in Workers, Send(v)
          PROVE  \A w \in Workers : worker[w] = "scanning" => worker'[w] = "scanning"
      BY <3>1 DEF Send, Inv, TypeOK
    <3>2. CASE ~\E v \in Workers : Send(v)
      BY <2>2, <3>2 DEF Dispatch, Dispatcher, SkipSend, CheckContext, EndDispatch, CloseJobs, Join,
              PlanCleanup, EndCleanup, RecheckContext, Assemble, Goto, CleanupFails,
              ReturnCancelled, Return
    <3> QED
      BY <3>1, <3>2
  <2>3. ASSUME NEW v \in Workers, Around(v)
        PROVE  \A w \in Workers : worker[w] = "scanning" => worker'[w] = "scanning"
    BY <2>3 DEF Around, RetryScan, BackoffCancelled, WorkerExits, Record, Inv, TypeOK
  <2> QED
    BY <2>1, <2>2, <2>3
<1>3. RunnerTypeOK' /\ SetupOrder'
  BY <1>1 DEF RunnerTypeOK, SetupOrder
<1>4. CallsWellFormed'
  BY <1>1, <1>2 DEF CallsWellFormed
<1>5. DatabasesPresent' /\ PoolConserved'
  BY <1>1 DEF DatabasesPresent, PoolConserved
<1> QED
  BY <1>3, <1>4, <1>5

(***************************************************************************)
(* Preparing and removing the caches.                                      *)
(***************************************************************************)
LEMMA DbTyped ==
  ASSUME RunnerTypeOK, NEW p \in Places, NEW s \in Subs, NEW f \in {"absent", "old", "new"}
  PROVE  [db EXCEPT ![p][s] = f] \in [Places -> [Subs -> {"absent", "old", "new"}]]
BY DEF RunnerTypeOK

(***************************************************************************)
(* Downloading the databases keeps it.                                     *)
(***************************************************************************)
LEMMA PrefetchInv == ASSUME RunnerInv, PrefetchDb \/ PrefetchJavaDb PROVE RunnerInv'
<1> USE DEF RunnerInv, PrefetchDb, PrefetchJavaDb
<1>1. db' \in [Places -> [Subs -> {"absent", "old", "new"}]]
  <2>1. db' = db \/ \E s \in Subs : db' = [db EXCEPT ![Base][s] = "old"]
    OBVIOUS
  <2>2. CASE db' = db
    BY <2>2 DEF RunnerTypeOK
  <2>3. ASSUME NEW s \in Subs, db' = [db EXCEPT ![Base][s] = "old"]
        PROVE  db' \in [Places -> [Subs -> {"absent", "old", "new"}]]
    <3>1. Base \in Places
      OBVIOUS
    <3> QED
      BY ONLY <2>3, <3>1, DbTyped, RunnerTypeOK
  <2> QED
    BY <2>1, <2>2, <2>3
<1>2. RunnerTypeOK'
  BY <1>1 DEF RunnerTypeOK
<1>3. SetupOrder'
  BY DEF SetupOrder, RunnerTypeOK
<1>4. CallsWellFormed'
  BY DEF CallsWellFormed
<1>5. DatabasesPresent'
  <2>1. CASE PrefetchDb
    BY <2>1 DEF DatabasesPresent, SetupOrder
  <2>2. CASE PrefetchJavaDb
    <3>1. onDisk' = {} /\ (skipUpdate' => db' = [db EXCEPT ![Base]["java-db"] = "old"])
      BY <2>2 DEF SetupOrder
    <3>2. skipUpdate' => db'[Base]["db"] # "absent" /\ db'[Base]["java-db"] = "old"
      BY <2>2, <3>1 DEF SetupOrder, RunnerTypeOK
    <3> QED
      BY <3>1, <3>2 DEF DatabasesPresent
  <2> QED
    BY <2>1, <2>2
<1>6. PoolConserved'
  BY DEF PoolConserved, SetupOrder
<1> QED
  BY <1>2, <1>3, <1>4, <1>5, <1>6

(***************************************************************************)
(* Removing the worker directories leaves the base cache as it is.         *)
(***************************************************************************)
LEMMA RemovedDirs ==
  ASSUME RunnerTypeOK, RemoveDirs
  PROVE  /\ db' \in [Places -> [Subs -> {"absent", "old", "new"}]]
         /\ db'[Base] = db[Base]
         /\ onDisk' = {} /\ corrupt' = corrupt
BY DEF RunnerTypeOK, RemoveDirs

(***************************************************************************)
(* Linking them into the worker directories keeps it.                      *)
(***************************************************************************)
LEMMA LinkInv ==
  ASSUME RunnerInv, ShareBaseCache \/ \E d \in Dirs : MakeWorkerCache(d)
  PROVE  RunnerInv'
<1> USE DEF RunnerInv
<1>1. CASE ShareBaseCache
  <2> USE <1>1, RemovedDirs DEF ShareBaseCache
  <2>1. RunnerTypeOK'
    BY DEF RunnerTypeOK
  <2>2. SetupOrder' /\ CallsWellFormed'
    BY DEF SetupOrder, CallsWellFormed
  <2>3. DatabasesPresent' /\ PoolConserved'
    BY DEF DatabasesPresent, PoolConserved, SetupOrder
  <2> QED
    BY <2>1, <2>2, <2>3
<1>2. ASSUME NEW d \in Dirs, MakeWorkerCache(d) PROVE RunnerInv'
  <2> USE <1>2 DEF MakeWorkerCache
  <2>1. db' \in [Places -> [Subs -> {"absent", "old", "new"}]]
    BY DEF RunnerTypeOK
  <2>2. /\ isolated' \in BOOLEAN /\ setup' \in {"link", "scan"}
        /\ isolated' => onDisk' = Dirs
    BY DEF RunnerTypeOK, SetupOrder
  <2>3. RunnerTypeOK'
    BY <2>1, <2>2 DEF RunnerTypeOK
  <2>4. SetupOrder'
    BY <2>2 DEF SetupOrder
  <2>5. CallsWellFormed'
    BY <2>2 DEF CallsWellFormed, SetupOrder
  <2>6. DatabasesPresent'
    <3>1. \A p \in Places : db'[p] = db[p] \/ (p = d /\ db'[p] = db[Base])
      BY DEF RunnerTypeOK
    <3>2. ASSUME skipUpdate', heal' = "idle", NEW p \in onDisk' \cup {Base}, NEW s \in Subs
          PROVE  db'[p][s] # "absent"
      <4>1. skipUpdate /\ heal = "idle"
        BY <3>2
      <4>2. \A q \in onDisk \cup {Base} : db[q][s] # "absent"
        BY <4>1 DEF DatabasesPresent
      <4>3. p \in Places /\ (p = d \/ p \in onDisk \cup {Base})
        BY DEF RunnerTypeOK
      <4>4. CASE p \in onDisk \cup {Base}
        BY <4>2, <4>3, <4>4, <3>1
      <4>5. CASE p = d
        <5>1. db'[p] = db[Base]
          BY <4>5 DEF RunnerTypeOK
        <5> QED
          BY <5>1, <4>2
      <4> QED
        BY <4>3, <4>4, <4>5
    <3> QED
      BY <3>2 DEF DatabasesPresent
  <2>7. PoolConserved'
    BY <2>2 DEF PoolConserved, SetupOrder
  <2> QED
    BY <2>3, <2>4, <2>5, <2>6, <2>7
<1> QED
  BY <1>1, <1>2

(***************************************************************************)
(* Removing the worker directories keeps it.                               *)
(***************************************************************************)
LEMMA RemoveInv == ASSUME Inv, RunnerInv, RemoveWorkerCaches PROVE RunnerInv'
<1> USE DEF RunnerInv, RemoveWorkerCaches
<1>1. \A w \in Workers : worker[w] = "exited"
  BY DEF Inv, TypeOK, Cancellation, CleanupAlone
<1>2. /\ db' \in [Places -> [Subs -> {"absent", "old", "new"}]]
      /\ db'[Base] = db[Base]
      /\ onDisk' \in {onDisk, {}} /\ corrupt' = corrupt
      /\ onDisk' = {} \/ db' = db
  <2>1. CASE isolated
    BY <2>1, RemovedDirs
  <2>2. CASE ~isolated
    BY <2>2 DEF RunnerTypeOK
  <2> QED
    BY <2>1, <2>2
<1>3. RunnerTypeOK'
  BY <1>2 DEF RunnerTypeOK
<1>4. SetupOrder' /\ CallsWellFormed'
  BY <1>1 DEF SetupOrder, CallsWellFormed
<1>5. DatabasesPresent'
  BY <1>2 DEF DatabasesPresent
<1>6. PoolConserved'
  BY DEF PoolConserved
<1> QED
  BY <1>3, <1>4, <1>5, <1>6

(***************************************************************************)
(* One call of ScanImageWithOptions.                                       *)
(***************************************************************************)
LEMMA EnterInv == ASSUME RunnerInv, NEW w \in Workers, EnterScan(w) PROVE RunnerInv'
<1> USE DEF RunnerInv, EnterScan, StartCall
<1>1. /\ phase' = [phase EXCEPT ![w] = "open"]
      /\ \E p \in Places : /\ dir' = [dir EXCEPT ![w] = p]
                           /\ isolated => p \in free /\ free' = free \ {p}
                           /\ ~isolated => p = Base /\ free' = free
      /\ setup = "scan" /\ worker[w] = "scanning" /\ phase[w] = "out"
      /\ UNCHANGED <<vars, disk, caches, saw, rescan, healing>>
  BY DEF RunnerTypeOK
<1>2. RunnerTypeOK'
  BY <1>1 DEF RunnerTypeOK
<1>3. SetupOrder' /\ DatabasesPresent'
  BY <1>1 DEF SetupOrder, DatabasesPresent
<1>4. CallsWellFormed'
  BY <1>1 DEF CallsWellFormed, RunnerTypeOK
<1>5. PoolConserved'
  <2> SUFFICES ASSUME isolated, setup = "scan" PROVE PoolConserved'
    BY <1>1 DEF PoolConserved
  <2>1. PICK p \in free : dir' = [dir EXCEPT ![w] = p] /\ free' = free \ {p}
    BY <1>1
  <2>2. p \in Dirs /\ p # NoDir /\ dir'[w] = p /\ phase'[w] = "open"
    BY <1>1, <2>1, PlacesAssumption DEF RunnerTypeOK
  <2>3. \A v \in Workers \ {w} : dir'[v] = dir[v] /\ phase'[v] = phase[v] /\ dir[v] # p
    BY <1>1, <2>1, <2>2 DEF RunnerTypeOK, PoolConserved
  <2>4. \A v \in Workers : IF phase'[v] = "out" THEN dir'[v] = NoDir ELSE dir'[v] \in Dirs \ free'
    BY <2>1, <2>2, <2>3 DEF PoolConserved
  <2>5. \A u, v \in Workers : dir'[u] = dir'[v] /\ dir'[u] # NoDir => u = v
    BY <2>2, <2>3 DEF PoolConserved
  <2>6. ASSUME NEW d \in Dirs PROVE d \in free' \/ \E v \in Workers : dir'[v] = d
    <3>1. CASE d = p
      BY <2>2, <3>1
    <3>2. CASE d \in free /\ d # p
      BY <2>1, <3>2
    <3>3. CASE d \notin free
      <4>1. PICK v \in Workers : dir[v] = d
        BY <1>1, <3>3 DEF PoolConserved
      <4>2. v # w
        BY <1>1, <4>1, PlacesAssumption DEF PoolConserved
      <4> QED
        BY <2>3, <4>1, <4>2
    <3> QED
      BY <3>1, <3>2, <3>3
  <2> QED
    BY <1>1, <2>4, <2>5, <2>6 DEF PoolConserved
<1> QED
  BY <1>2, <1>3, <1>4, <1>5

(***************************************************************************)
(* Entering a call, with the choice of its directory, keeps it.            *)
(***************************************************************************)
LEMMA OpenInv == ASSUME RunnerInv, NEW w \in Workers, OpenDatabases(w) PROVE RunnerInv'
<1> USE DEF RunnerInv
<1>1. /\ \E files \in [Subs -> {"absent", "old", "new"}] :
           /\ db' = [db EXCEPT ![dir[w]] = files]
           /\ \A s \in Subs : db[dir[w]][s] # "absent" => files[s] # "absent"
      /\ \E r \in {"nothing", "good", "corrupt", "missing", "unavailable"} :
           saw' = [saw EXCEPT ![w] = r]
  <2>1. dir[w] \in Places /\ db[dir[w]] \in [Subs -> {"absent", "old", "new"}]
    BY DEF OpenDatabases, CallsWellFormed, RunnerTypeOK
  <2>2. \A files, needed : Found(files, needed) \in {"good", "corrupt"}
    BY DEF Found
  <2> DEFINE Downloaded(set) == [s \in Subs |-> IF s \in set THEN "new" ELSE db[dir[w]][s]]
  <2>3. \A set : /\ Downloaded(set) \in [Subs -> {"absent", "old", "new"}]
                 /\ \A s \in Subs : db[dir[w]][s] # "absent" => Downloaded(set)[s] # "absent"
    BY <2>1
  <2>4. \/ db' = [db EXCEPT ![dir[w]] = db[dir[w]]]
        \/ \E set : db' = [db EXCEPT ![dir[w]] = Downloaded(set)]
    BY DEF OpenDatabases
  <2>5. \E r \in {"nothing", "good", "corrupt", "missing", "unavailable"} :
           saw' = [saw EXCEPT ![w] = r]
    BY <2>2 DEF OpenDatabases
  <2>6. ASSUME db' = [db EXCEPT ![dir[w]] = db[dir[w]]]
        PROVE  \E files \in [Subs -> {"absent", "old", "new"}] :
                 /\ db' = [db EXCEPT ![dir[w]] = files]
                 /\ \A s \in Subs : db[dir[w]][s] # "absent" => files[s] # "absent"
    BY ONLY <2>1, <2>6
  <2>7. ASSUME NEW set, db' = [db EXCEPT ![dir[w]] = Downloaded(set)]
        PROVE  \E files \in [Subs -> {"absent", "old", "new"}] :
                 /\ db' = [db EXCEPT ![dir[w]] = files]
                 /\ \A s \in Subs : db[dir[w]][s] # "absent" => files[s] # "absent"
    <3> HIDE DEF Downloaded
    <3> QED
      BY ONLY <2>3, <2>7
  <2>8. \E files \in [Subs -> {"absent", "old", "new"}] :
          /\ db' = [db EXCEPT ![dir[w]] = files]
          /\ \A s \in Subs : db[dir[w]][s] # "absent" => files[s] # "absent"
    <3> HIDE DEF Downloaded
    <3> QED
      BY <2>4, <2>6, <2>7
  <2> QED
    BY <2>5, <2>8
<1>2. /\ phase[w] = "open" /\ phase' = [phase EXCEPT ![w] = "read"]
      /\ UNCHANGED <<vars, corrupt, onDisk, caches, dir, rescan, free, healing>>
  BY DEF OpenDatabases
<1>3. RunnerTypeOK'
  <2>1. db' \in [Places -> [Subs -> {"absent", "old", "new"}]]
    <3>1. PICK files \in [Subs -> {"absent", "old", "new"}] : db' = [db EXCEPT ![dir[w]] = files]
      BY <1>1
    <3> QED
      BY ONLY <3>1, RunnerTypeOK DEF RunnerTypeOK
  <2>2. saw' \in [Workers -> {"nothing", "good", "corrupt", "missing", "unavailable"}]
    BY <1>1 DEF RunnerTypeOK
  <2>3. phase' \in [Workers -> {"out", "open", "read", "heal", "vex"}]
    BY <1>2 DEF RunnerTypeOK
  <2> QED
    BY <1>2, <2>1, <2>2, <2>3 DEF RunnerTypeOK
<1>4. setup = "scan"
  BY <1>2 DEF SetupOrder
<1>5. SetupOrder' /\ CallsWellFormed'
  BY <1>2, <1>4 DEF SetupOrder, CallsWellFormed, RunnerTypeOK
<1>6. DatabasesPresent'
  BY <1>1, <1>2 DEF DatabasesPresent, RunnerTypeOK
<1>7. PoolConserved'
  BY <1>2 DEF PoolConserved, RunnerTypeOK
<1> QED
  BY <1>3, <1>5, <1>6, <1>7

(***************************************************************************)
(* What happens within a call keeps it.                                    *)
(***************************************************************************)
LEMMA WithinInv ==
  ASSUME RunnerInv, NEW w \in Workers,
         BeginVexLookup(w) \/ DetectCorruption(w) \/ BeginHeal(w) \/ Rescan(w)
  PROVE  RunnerInv'
<1> USE DEF RunnerInv
<1>1. /\ phase[w] # "out"
      /\ \E p \in {"open", "read", "heal", "vex"} : phase' = [phase EXCEPT ![w] = p]
      /\ UNCHANGED <<vars, disk, caches, dir, free, healed>>
      /\ heal' = heal \/ heal' = "removeDb"
      /\ saw' = saw \/ saw' = [saw EXCEPT ![w] = "nothing"]
      /\ rescan' = rescan \/ rescan' = [rescan EXCEPT ![w] = TRUE]
  BY DEF BeginVexLookup, DetectCorruption, BeginHeal, Rescan, RunnerTypeOK
<1>2. setup = "scan"
  BY <1>1 DEF SetupOrder
<1>3. RunnerTypeOK'
  <2>1. phase' \in [Workers -> {"out", "open", "read", "heal", "vex"}]
    BY <1>1 DEF RunnerTypeOK
  <2>2. saw' \in [Workers -> {"nothing", "good", "corrupt", "missing", "unavailable"}]
    BY <1>1 DEF RunnerTypeOK
  <2>3. rescan' \in [Workers -> BOOLEAN]
    BY <1>1 DEF RunnerTypeOK
  <2>4. heal' \in Heals
    BY <1>1 DEF RunnerTypeOK
  <2> QED
    BY <1>1, <2>1, <2>2, <2>3, <2>4 DEF RunnerTypeOK
<1>4. SetupOrder' /\ CallsWellFormed'
  BY <1>1, <1>2 DEF SetupOrder, CallsWellFormed, RunnerTypeOK
<1>5. DatabasesPresent'
  BY <1>1 DEF DatabasesPresent
<1>6. PoolConserved'
  BY <1>1 DEF PoolConserved, RunnerTypeOK
<1> QED
  BY <1>3, <1>4, <1>5, <1>6

(***************************************************************************)
(* Leaving a call keeps it.                                                *)
(***************************************************************************)
LEMMA LeaveInv ==
  ASSUME Inv, RunnerInv, NEW w \in Workers,
         CallSucceeds(w) \/ EndVexLookup(w) \/ \E e \in Failures : CallFails(w, e)
  PROVE  RunnerInv'
<1> USE DEF RunnerInv
<1>1. phase[w] # "out" /\ Leave(w)
  BY DEF CallSucceeds, EndVexLookup, CallFails
<1>2. \A v \in Workers \ {w} : worker'[v] = worker[v]
  BY DEF CallSucceeds, EndVexLookup, CallFails, ScanSucceeds, ScanFails, Record, Inv, TypeOK
<1>3. setup = "scan"
  BY <1>1 DEF SetupOrder
<1>4. RunnerTypeOK'
  BY <1>1, <1>3 DEF Leave, RunnerTypeOK, PoolConserved
<1>5. SetupOrder'
  BY <1>1, <1>3 DEF Leave, SetupOrder
<1>6. CallsWellFormed'
  BY <1>1, <1>2 DEF Leave, CallsWellFormed, RunnerTypeOK
<1>7. DatabasesPresent'
  BY <1>1 DEF Leave, DatabasesPresent
<1>8. PoolConserved'
  <2> SUFFICES ASSUME isolated PROVE PoolConserved'
    BY <1>1 DEF Leave, PoolConserved
  <2>1. /\ phase'[w] = "out" /\ dir'[w] = NoDir
        /\ \A v \in Workers \ {w} : phase'[v] = phase[v] /\ dir'[v] = dir[v]
        /\ free' = free \cup {dir[w]}
        /\ onDisk' = onDisk
    BY <1>1 DEF Leave, RunnerTypeOK
  <2>2. dir[w] \in Dirs /\ \A v \in Workers \ {w} : dir[v] # dir[w]
    BY <1>1, <1>3, PlacesAssumption DEF PoolConserved
  <2>3. \A v \in Workers : IF phase'[v] = "out" THEN dir'[v] = NoDir ELSE dir'[v] \in Dirs \ free'
    BY <1>3, <2>1, <2>2 DEF PoolConserved
  <2>4. \A u, v \in Workers : dir'[u] = dir'[v] /\ dir'[u] # NoDir => u = v
    BY <1>3, <2>1 DEF PoolConserved
  <2>5. \A d \in Dirs : d \in free' \/ \E v \in Workers : dir'[v] = d
    BY <1>3, <2>1 DEF PoolConserved
  <2> QED
    BY <1>3, <2>1, <2>3, <2>4, <2>5 DEF PoolConserved
<1> QED
  BY <1>4, <1>5, <1>6, <1>7, <1>8

(***************************************************************************)
(* The repair changes the base cache only, and only after it began.        *)
(***************************************************************************)
LEMMA HealInv == ASSUME RunnerInv, HealStep PROVE RunnerInv'
<1> USE DEF RunnerInv
<1>1. /\ db' = db \/ \E s \in Subs, f \in {"absent", "new"} : db' = [db EXCEPT ![Base][s] = f]
      /\ heal # "idle" /\ heal' \in Heals \ {"idle"}
      /\ healed' \in {healed, TRUE, FALSE}
      /\ UNCHANGED <<vars, corrupt, onDisk, caches, calls>>
  BY DEF HealStep, HealRemoves, HealDownloads, EndHeal
<1>2. db' \in [Places -> [Subs -> {"absent", "old", "new"}]]
  BY <1>1, DbTyped DEF RunnerTypeOK
<1>3. RunnerTypeOK'
  BY <1>1, <1>2 DEF RunnerTypeOK
<1>4. SetupOrder' /\ CallsWellFormed'
  BY <1>1 DEF SetupOrder, CallsWellFormed
<1>5. DatabasesPresent' /\ PoolConserved'
  BY <1>1 DEF DatabasesPresent, PoolConserved
<1> QED
  BY <1>3, <1>4, <1>5

-----------------------------------------------------------------------------
(***************************************************************************)
(* The runner's invariant holds in every reachable state.                  *)
(***************************************************************************)
THEOREM RunnerInvariance == RunnerSpec => []RunnerInv
<1>1. ASSUME Inv, RunnerInv, [RunnerNext]_allVars PROVE RunnerInv'
  <2>1. CASE Setup
    BY <1>1, <2>1, PrefetchInv, LinkInv, RemoveInv DEF Setup
  <2>2. CASE Context \/ Dispatch \/ \E w \in Workers : Around(w)
    BY <1>1, <2>2, OutsideInv
  <2>3. CASE HealStep
    BY <1>1, <2>3, HealInv
  <2>4. ASSUME NEW w \in Workers, Call(w) PROVE RunnerInv'
    BY <1>1, <2>4, EnterInv, OpenInv, WithinInv, LeaveInv DEF Call
  <2>5. CASE UNCHANGED allVars
    BY <1>1, <2>5 DEF allVars, RunnerInv, RunnerTypeOK, SetupOrder, CallsWellFormed,
                      DatabasesPresent, PoolConserved
  <2> QED
    BY <1>1, <2>1, <2>2, <2>3, <2>4, <2>5 DEF RunnerNext
<1> QED
  BY <1>1, RunnerInitInv, RunnerImplements, Invariance, PTL DEF RunnerSpec

(***************************************************************************)
(* The pool of worker caches is conserved, for any number of workers.      *)
(***************************************************************************)
THEOREM PoolIsSafe == RunnerSpec => []PoolConserved
<1>1. RunnerInv => PoolConserved
  BY DEF RunnerInv
<1> QED
  BY <1>1, RunnerInvariance, PTL

(***************************************************************************)
(* --skip-db-update is passed only while every cache in use holds both     *)
(* databases.                                                              *)
(***************************************************************************)
THEOREM SkipIsSafe == RunnerSpec => []SkipsOnlyWhenPresent
<1>1. RunnerInv => SkipsOnlyWhenPresent
  BY DEF RunnerInv, DatabasesPresent, SkipsOnlyWhenPresent
<1> QED
  BY <1>1, RunnerInvariance, PTL

(***************************************************************************)
(* A worker about to scan finds a directory: those held are at most one    *)
(* for each other worker, and there are as many directories as workers.    *)
(***************************************************************************)
THEOREM PoolSuffices == RunnerSpec => []PoolNeverEmpty
<1>1. ASSUME RunnerInv, isolated, setup = "scan", free = {},
             NEW w \in Workers, phase[w] = "out"
      PROVE  FALSE
  <2> DEFINE Others == Workers \ {w}
             Holder(d) == CHOOSE v \in Others : dir[v] = d
             held == [d \in Dirs |-> Holder(d)]
  <2>1. \A d \in Dirs : \E v \in Others : dir[v] = d
    <3> SUFFICES ASSUME NEW d \in Dirs PROVE \E v \in Others : dir[v] = d
      OBVIOUS
    <3>1. PICK v \in Workers : dir[v] = d
      BY <1>1 DEF RunnerInv, PoolConserved
    <3>2. v # w
      BY <1>1, <3>1, PlacesAssumption DEF RunnerInv, PoolConserved
    <3> QED
      BY <3>1, <3>2
  <2>2. \A d \in Dirs : held[d] \in Others /\ dir[held[d]] = d
    BY <2>1
  <2>3. held \in Injection(Dirs, Others)
    <3>1. held \in [Dirs -> Others]
      BY <2>2
    <3>2. \A d, e \in Dirs : held[d] = held[e] => d = e
      BY <2>2
    <3> QED
      BY ONLY <3>1, <3>2 DEF Injection, IsInjective
  <2>4. /\ IsFiniteSet(Others)
        /\ Cardinality(Others) = Cardinality(Workers) - 1
        /\ Cardinality(Workers) \in Nat
    BY WorkersAssumption, FS_RemoveElement, FS_CardinalityType
  <2>5. Cardinality(Dirs) <= Cardinality(Others)
    BY <2>3, <2>4, DirsAssumption, FS_Injection
  <2> QED
    BY <2>4, <2>5, DirsAssumption
<1>2. RunnerInv => PoolNeverEmpty
  BY <1>1 DEF PoolNeverEmpty
<1> QED
  BY <1>2, RunnerInvariance, PTL

(***************************************************************************)
(* Once the repair ended, none begins again and no step takes a database   *)
(* from a cache in use.                                                    *)
(***************************************************************************)
THEOREM RepairIsFinal == RunnerSpec => RepairedAtMostOnce
<1> DEFINE Kept == \A p \in Places, s \in Subs : db[p][s] # "absent" => db'[p][s] # "absent"
<1>1. ASSUME RunnerInv, RunnerNext, heal = "done", setup' = setup PROVE Kept
  <2>1. CASE db' = db
    BY <2>1
  <2>2. CASE Setup
    <3>1. setup \notin {"prefetch", "prefetchJava", "link"}
      BY <1>1 DEF RunnerInv, SetupOrder
    <3> QED
      BY <1>1, <2>2, <3>1 DEF Setup, PrefetchDb, PrefetchJavaDb, ShareBaseCache, MakeWorkerCache,
                              RemoveWorkerCaches
  <2>3. CASE HealStep
    BY <1>1, <2>3 DEF HealStep, HealRemoves, HealDownloads
  <2>4. ASSUME NEW w \in Workers, OpenDatabases(w) PROVE Kept
    <3>1. PICK files : /\ db' = [db EXCEPT ![dir[w]] = files]
                       /\ \A s \in Subs : db[dir[w]][s] # "absent" => files[s] # "absent"
      <4>1. \E set : db' = [db EXCEPT ![dir[w]] =
                             [s \in Subs |-> IF s \in set THEN "new" ELSE db[dir[w]][s]]]
              \/ db' = [db EXCEPT ![dir[w]] = db[dir[w]]]
        BY <2>4 DEF OpenDatabases
      <4> QED
        BY <4>1
    <3>2. db \in [Places -> [Subs -> {"absent", "old", "new"}]]
      BY <1>1 DEF RunnerInv, RunnerTypeOK
    <3> QED
      BY ONLY <3>1, <3>2
  <2>5. CASE Context \/ Dispatch \/ \E w \in Workers : Around(w)
    BY <2>1, <2>5 DEF Context, Dispatch, Around
  <2>6. ASSUME NEW w \in Workers, Call(w), ~OpenDatabases(w) PROVE Kept
    BY <2>1, <2>6 DEF Call, EnterScan, StartCall, CallSucceeds, BeginVexLookup, EndVexLookup,
                      CallFails, DetectCorruption, BeginHeal, Rescan, Leave
  <2> QED
    BY <1>1, <2>2, <2>3, <2>4, <2>5, <2>6 DEF RunnerNext
<1>2. ASSUME RunnerNext, heal = "done" PROVE heal' = "done"
  <2>1. CASE HealStep
    BY <1>2, <2>1 DEF HealStep, HealRemoves, HealDownloads
  <2>2. CASE heal' = heal
    BY <1>2, <2>2
  <2>3. ASSUME NEW w \in Workers, Call(w) PROVE heal' = heal
    BY <1>2, <2>3 DEF Call, EnterScan, StartCall, OpenDatabases, CallSucceeds, BeginVexLookup,
                      EndVexLookup, CallFails, DetectCorruption, BeginHeal, Rescan, Leave, healing
  <2>4. CASE Setup
    BY <1>2, <2>4 DEF Setup, PrefetchDb, PrefetchJavaDb, ShareBaseCache, MakeWorkerCache,
                RemoveWorkerCaches, healing
  <2>5. CASE Context \/ Dispatch \/ \E w \in Workers : Around(w)
    BY <1>2, <2>5 DEF Context, Dispatch, Around, runner, healing
  <2> QED
    BY <1>2, <2>1, <2>2, <2>3, <2>4, <2>5 DEF RunnerNext
<1>3. ASSUME RunnerInv, [RunnerNext]_allVars
      PROVE  [heal = "done" => heal' = "done" /\ (setup' = setup => Kept)]_allVars
  BY <1>1, <1>2, <1>3
<1> QED
  BY <1>3, RunnerInvariance, PTL DEF RunnerSpec, RepairedAtMostOnce
=============================================================================
