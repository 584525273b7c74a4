# A TLA+ model of trivy-plugin-vdr

`vdr` collects an inventory of container images (from Kubernetes, Cloud Run,
ECS, Docker Swarm, Helm charts or a list of references), scans them with Trivy
processes in parallel, enriches the findings with EPSS and Vulnrichment data,
scores them and writes a report. This directory holds TLA+ modules for the parts
of it whose correctness depends on order, concurrency or failure, the TLC runs
that check them, and TLAPS proofs about the core. Paths below are relative to
`src/`.

## 1. Inventory

### The parts with behaviour worth modelling

| Part | State it keeps | Operations | Hard behaviour | What makes it correct |
|---|---|---|---|---|
| Inventory scan, `internal/scanner/trivy.go` `ScanInventoryWithOptions` | a channel of indices, a results slice, a derived context | dispatch, scan, retry, join, clean up, assemble | N workers, cancellation at any step, retries, a destructive cleanup | no image dropped, none scanned twice, cleanup alone, a cancelled run is never a report, it returns |
| Trivy runner, same file, `TrivyRunner` | cache directories and their hardlinked databases, a channel of free directories, a `sync.Once` | download databases, prepare caches, scan, heal and rescan, VEX lookup | a blocking receive that ignores the context, a repair while others scan, partial failures | directories conserved, no wait on the pool, one repair, and a repair that helps |
| Scan-cache cleanup, `cache.go` | none | measure, `trivy clean` | fails or is cancelled after a successful scan | only warns |
| Vulnrichment store, `internal/enrich/vulnrichment` with `internal/httpretry` | cache files, a failure counter, a breaker | look up, refresh, retry, write | concurrent callers, kill in a write, week-old records, timeouts | cache never torn, cached records used, breaker final |
| EPSS store, `internal/enrich/epss` | a cached data set, in memory once loaded | load, refresh | stale fallback, an invalid download | a bad download never replaces a good file |
| Enrichment pass, `internal/enrich/enrich.go` | counters of warnings | one loop over the findings | a source that fails half-way, the cap on warnings | no failure unaccounted for, it ends, an error only on cancellation |
| Registry credentials, `internal/registry` | a map of credentials, a temporary directory | merge four sources, write a Docker config | each source and each step may fail | precedence, no silent gap, no helper keyed by a host beside its credential, nothing left behind |
| The command, `cmd/vdr/main.go` | what is deferred, the error to return | the stages of a run | many returns across two functions, a background lookup | honest exit status, resources outlive their users |
| Kubernetes collection, `internal/k8s`, and exposure analysis, `internal/exposure` | what the lists returned, warnings | some thirty lists, the verdict of every container | any list may be refused, held back or scoped, and each is treated differently | "not reachable" only from a complete discovery, no pod's image lost |
| Swarm collection, `internal/swarm` | a file staged on a remote manager, the parsed services | stage, read chunks, remove; parse, judge | client timeout against an agent still running; a document without networks | staged file removed, the run ends, a negative verdict is proved |
| ECS collection, `internal/ecs` | definitions, runtime signals, a graph of paths | per region: list, describe, judge; read secrets | regions and requests that fail one by one | what is not read is warned of |
| Cloud Run collection, `internal/cloudrun` | services, jobs, routes | per region: list; routes and policies, judge | the same | the same |
| OCI VEX, `internal/scanner/ocivex*.go` | an authorization header per session, the statements | find and fetch attestations, choose for a finding | one answer to a 401, an expiring token, two discovery ways | nothing listed is missed without a warning, the best statement wins |
| Scoring and report, `internal/scoring`, `internal/report` | the rubric, the report | layer four sources, rate, merge, filter, write | a source rejected in part, merged findings | worse facts never buy time, the report says what was found |

They interact by calls: `main` collects, then `registry.Build` makes the
credential directory that every Trivy process of the scan reads; `scanAndReport`
prepares the runner, hands it to the inventory scan, which calls it from its
worker goroutines; the findings go through the enrichment pass, which owns both
stores. State is shared between goroutines in three places only: the scan's
channel and slice, the runner's pool and `sync.Once`, and the store's atomics.
State is shared between processes in two: Trivy's cache and the enrichment cache.

### The rest

Chain analysis (tables), cloud policy, flag parsing, the chain catalog, the
compliance scan, manifests and Helm charts, enrich-report, logging, the data
model and rendering have no model; `PROJECT.json` lists every component with its
status and the reason, and under `hazards` what is hard to test in this code,
line by line.

## 2. Modules

    ScanRun              what a scan promises its caller (abstract)
      ^ implemented by                      ^ used as a stage by
    ScanInventory        the worker pool    VdrRun   arguments to exit status
      ^ extended by
    TrivyRunner          the scan with the runner vdr uses
    VulnrichmentStore    one store, any callers, crashes
      ^ extended by
    Enrichment           the pass, its one caller, with the EPSS store
    RegistryBuild        credentials of one run

    Exposure             verdicts on the containers of a cluster (operators)
      ^ extended by
    KubernetesCollection runK8s up to the scans
    SwarmSSM             documents from a manager, by its agent
      ^ extended by
    SwarmCollection      runSwarm up to the scans
    ECSCollection        runECS up to the scans
    CloudRunCollection   runCloudRun up to the scans
    OCIVEX               the VEX lookup of one image
    Scoring, Report      rubric, rating, report (operators)
      ^ extended by
    Assessment           reportInventory: rubric, ceiling, reports
    Survey               the five parts above and Assessment, one per behaviour

`MC*` modules give TLC its instances; `*_proof` modules hold the theorems (that
of ScanInventory extends its MC module, for the history variable `late`; those
of the stores and the pass are in Enrichment_proof). Of Survey, Collections_proof
has the lemmas about lists, Swarm and Cloud Run, Kubernetes_proof the cluster and
the exposure analysis, and Survey_proof the VEX lookup, the rating, the report and
the theorems.
`Lists` has the loops that keep some elements of a slice, or one of each key, as
recursive functions: about those something can be proved for every list.
Operators named `<Action>_<What>` directly before an action are faulty
variants of it. They are used by no specification; substituting one for the
action shows that a property can fail.

**ScanInventory.** One action per step of the caller's goroutine (`pc`) and of
each worker. A send on the unbuffered channel is a joint step of both (`Send`).
The `select` is two actions (`Send`, `SkipSend`), the context test after it is a
third, because a cancellation may fall in between. `Cancel` is the caller's
context, `Propagate` the derived one. The `Runner` interface is open: an attempt
ends in success or in one of three kinds of error, the context's own only when
the context is done. Cleanup is three steps, with policy and its failure as
choices. The image list stands for `orderedInventoryImages`: distinct indices.
The early return for a nil inventory is left out.

**TrivyRunner** extends it: the steps before the scan (`PrefetchDb` ...
`ShareBaseCache`), the steps of `ScanImageWithOptions` on each worker, the
repair, and the deferred removal. Actions that end a call conjoin the attempt's
end in ScanInventory. The disk is modelled by file identity: `old` in two places
is one file with two links, so corruption belongs to the file. What `trivy image`
does with its databases is external: it reads those it needs, downloads those
missing (and may replace outdated ones) unless told to skip, and fails if it
cannot. `looksLikeCacheCorruption` also matches any panic, so a scan with good
databases may start a repair too. A non-empty cache directory is assumed, as
`config` sets one. Downloads and removals of the repair are separate steps, as
other workers' scans run between them.

**VulnrichmentStore.** Every file access and every access to the atomics in
`readOrFetch` is a step of its own. The HTTP exchange of one attempt is one
step with six answers, among them the client's own timeout, which Go reports
with an error that matches `context.DeadlineExceeded`. Documents are valid or
not, files young or not; `KillAndRestart` loses the process and keeps the cache,
some of which may have become a week old. Write, rename, read and stat may fail.
`parse` is "valid gives a record".

**Enrichment** is the loop of `EnrichFindings` around one caller of that store.
An EPSS refresh, retries included, is one step: its only effect is the file that
it replaces or not. The store's sticky error cannot matter: the pass drops the
store after the first error.

**RegistryBuild.** One action per credential source in program order, then the
directory. A credential is the source it came from, a host its normalized name.
A helper entry is dropped exactly if its key, as written, is a host with a
credential. Commands fail or answer; the process is not killed inside.

**VdrRun.** The seven scanning sources differ in how they collect and share the
remaining stages; every stage may fail where the code returns an error. The scan
stage takes the actions of ScanRun, without cancellation, since `run` passes
`context.Background()`. The deferred functions run in reverse order whatever the
error. `k8s-compliance` and `enrich-report` have their own shorter paths and are
left out.

**KubernetesCollection** has the calls of a run in the code's order (`calls`),
each of which is answered or refused; what follows a refusal differs: the run
ends (workloads), the kind is skipped with a warning (pods, gateways), or it is
held back until it is known whether any listener accepts it (routes). `Complete`
is the code's `CollectionComplete`, the only licence for a negative verdict.
`Analyze` gives the verdicts with the operators of **Exposure**, which merge the
entries in the order of the code. Objects keep the fields that decide: classes,
labels, listeners, grants, and of protections whether they authenticate or only
attach Cloud Armor. The cluster stands still while it is read.

**SwarmSSM.** Client and agent are separate: a command is queued, and the agent
runs, breaks or ignores it at any time, also after the client gave up on it. The
removal is deferred in the code, so `Abandon` and `Decode` both lead to it.
**SwarmCollection** takes the document it yields, or a file's, and judges.

**ECSCollection, CloudRunCollection.** One action per list that the code gives
up as a whole at its first failing request. `ServiceLimit` is how many services
ECS describes at once (ten; external). Names are keys as in the code: for ECS
without the region. The versions of the Cloud Run API differ in the ingress of a
service that states none. What is open is judged by all the places where a URL map
names a backend, read by the program or not.

**OCIVEX.** `request` is the next request; `Authorize` is the single
answer to a 401 of `do`. A token may expire, and the deadline pass, between two
requests. Documents are what parsing depends on: envelope, predicate, entries.
What a registry lists is in pages of `page` (external); the program reads one.

**Scoring, Report, Assessment.** A document of settings is a function from those
it states, each of the four lists of rules being one. A label is the profile it
names, the empty one included, or `"unset"`. `ApplyClusterDefaults` keeps what a rejected ConfigMap has changed by
the time it is rejected. A report is what it says of each finding and asset.

**Survey** begins one part per behaviour; the parts of a run follow one another
and share nothing but inputs, so their interleaving adds nothing.

## 3. What the runs check

| Run | Instance | Question |
|---|---|---|
| scan_inventory | 2 workers, 3 images, 1 retry, all policies | all safety of the scan, that it returns, that it implements ScanRun |
| trivy_isolated | 2 workers, 2 directories, 2 images, 1 retry | safety of pool, databases and repair |
| trivy_liveness | 2 workers, 2 directories, 2 images, 1 retry, a base cache with a corrupted database | no attempt hangs on pool or repair, so the fair scan is implemented; directories removed |
| trivy_self_heal | 2 workers, 2 images | **violated**: finding 1 |
| vulnrichment | 2 callers, 2 CVEs, 1 retry, breaker at 2, 3 lookups, 1 kill | cache and breaker |
| enrichment | 5 findings (2 CVEs twice, 1 other), 1 named warning, breaker at 2 | accounting, the end |
| enrichment_timeout | the same | **violated**: finding 2 |
| registry_build | 1 GAR and 2 ECR hosts, one also spelled otherwise, every input | precedence, gaps, helpers, directory |
| registry_role | the same | **violated**: finding 3 |
| vdr_run | 3 images, every configuration | exit status, lifetimes, the end |
| survey | 10 clusters with 5 sets of flags and 2 refused lists; 3 Swarms, 3 configs, 2 chunks; 2 regions of ECS; 5 Cloud Run projects; some 400 registries; 5 assets, 2 scans, every mix of rubrics | verdicts, warnings, the staged file, statements, ratings, reports |
| security_ceiling | the rubrics and reports of survey | **violated**: finding 4 |

*Why these bounds.* Two workers and three images make a worker take a second
image while the other is still busy, and leave an index undispatched when the
loop is cut short; a third worker adds no new interaction, and the proofs cover
every number. One retry reaches both sides of the retry test. Two callers and
two lookups of the same CVE are what the store's races need; a breaker of two
distinguishes "a failure" from "the limit". Three lookups let both callers meet
again after a trip. Five findings over two CVEs reach a failure beyond the named
ones, a trip, and a cached record after it. Two ECR hosts separate "the first
call failed" from "all did". `MaxLookups` and `MaxKills` bound what would be
unbounded; both are constants of their modules. The repair runs leave cleanup
and prior cancellation to scan_inventory (`MCInit`). The liveness run has both
images scanned at once, so that workers meet at the pool and in `healOnce.Do`, and
a retry that comes back to both; to stay affordable it begins with the one cache
that takes the whole repair (`MCLiveInit`) and leaves the Java images to
trivy_isolated.

For `survey`: two refused lists are enough for one to hide behind the other (a
route kind held back, and the gateways that would decide about it). Each cluster
stands for one way to a container or its closing, with a sidecar, an init
container, a Job and pods of several owners beside it; of one, the static pod of
one node is upgraded and that of the other not yet. Two chunks make a
read fail between the first and the last. Two ECS regions share a name; one
has more services than `ServiceLimit`. The four attestation manifests hold
every kind of layer and the registries every way to them; `MaxReferrers` is two
with up to three listed, and some registries list one per page. The URL maps have
a backend in each place where one may be named, and endpoint groups with a mask. Findings repeat across images, with and without a
statement, and one reaches every class of asset.

*Deadlock* checking is off everywhere: every one of these programs ends, and a
finished run is a state without successor. That they do end is checked as
liveness.

*Fairness* is weak and only for code that is obliged to go on: the dispatching
goroutine, each worker, the derived context, the setup and the repair. A scan
ends because each has a `--timeout`, a wait because it is a timer, an HTTP
exchange because the client has a timeout, the update lookup because its context
has one. Reading a Swarm ends because every command has its timeout; of the
agent nothing is assumed. Downloads and CLI calls are assumed to end. Nothing obliges a caller to
cancel, a source to answer well, or Trivy to succeed.

### Findings

1. *Self-heal does not reach the isolated caches.* With `--parallel-scans` above
   one, the repair replaces the databases of the base cache, but the retried
   scan, and all later ones, read the worker directory, whose hardlinks keep the
   corrupted files alive. `README.md:488` promises the repair. With one worker
   the scans read the base cache, and it works.
2. *An HTTP timeout is taken for a cancellation.* A 30 s client timeout is not
   retried and ends the whole pass with an error, leaving the remaining findings
   without enrichment, where `enrich.go:42` promises a warning.
3. *ECR tokens without the role.* If the role cannot be assumed, the ECR calls
   run as the ambient identity (not even the `--aws-profile`), against
   `README.md:410`; a warning is given.
4. *A rejected ConfigMap still counts.* `ApplyClusterDefaults` decodes the
   in-cluster `scoring.yaml` into the rubric before it may reject it (a mistyped
   field, a retired data key), and returns before it restores the word thresholds
   and notes where the ceiling came from. The error is logged, the run goes on,
   and the ceiling lowers ratings without any flag, against `main.go:882` and
   `README.md:603`; the thresholds too, which `scoring.go:343` says cannot be
   set there. (Swarm and `--sip-config-map` validate first.)

### Other differences, met while modelling

These have no run of their own. Where a property would meet one, it makes an
exception for it, and says so.

- `dropResolvedCredHelpers` (`registry/builder.go:239`) looks normalized hosts up
  among the helper keys as they are written. A helper keyed
  `https://index.docker.io/v1/`, the key that clients use for Docker Hub, stays
  beside the credential of `docker.io` and is asked before it, as is an ambient
  `credsStore` (not modelled), although the comment at line 225 speaks of all
  "hosts we have a resolved static credential for" (`HelpersNeverShadow`).
- A verdict that is not reachable behind a protection, or reachable at all, does
  not depend on the order of Services, Ingresses and routes; which protection it
  tells of does. Of two open ways `mergeExposure` (`exposure.go:1768`) keeps the
  first, with its Cloud Armor policy or without, and on an init container a Cloud
  Armor policy keeps out an IAP that comes later. Of two policies for one Service
  the last one listed stands (`exposure.go:564`), and so decides about
  reachability if one has IAP and the other Cloud Armor (`VerdictIgnoresOrder`
  varies neither).
- `README.md:539`: after de-duplication "the surviving finding keeps the
  worst-case" rating; it is rated by the facts of the first finding, not of those
  merged into it.
- Pods of a ReplicaSet are taken for a Deployment's (`k8s/inventory.go:309`): of
  a ReplicaSet that nothing owns, or that another controller made, neither is
  collected, though the comment there says such pods are kept (`PodsCovered`).
- Of mirror pods of one manifest name in a namespace only the first one listed is
  kept (`k8s/inventory.go:338`), whatever its images: while nodes run different
  versions of a static pod, those of the others are not scanned. The comment there
  speaks of "the same manifest" (`PodsCovered`).
- Referrers are read from the first page of their list, and at most 64 of them
  (`ocivex_registry.go:249`); the rest is left out without a warning
  (`LookupIsComplete`).
- A VEX statement whose component references resolve to no package applies to the
  whole image (`ocivex.go:204`, `290`).
- `main.go:311` logs that after an incomplete discovery workloads "will not be
  reported as not internet-accessible"; verdicts that a label or the ConfigMap
  states are still given.
- `levEpssThresholdIRV` may be set above `levEpssThresholdNIRV`; then a finding
  on a reachable asset can get more time (`DeadlineMonotone` leaves it out).
- ECS keys status, verdict paths and ports by family and revision without the
  region (`ecs/runtime.go:49`, `exposure.go:60`, `aws.go:120`): a definition of
  one region takes what runs in another (`Own` in `ECSGapIsWarned`), against
  `README.md:379`.
- A security group rule for all traffic matches no port (`ecs/exposure.go:150`),
  against `docs/internet-reachability.md:40`.
- Cloud Run functions are collected as kind Function and looked up as Service
  (`cloudrun/exposure.go:40`), so they have no verdict, against `README.md:105`.
- Three gaps of Cloud Run have no warning (`CloudRunGapIsWarned`). A service
  listed by the second API version without an ingress is read as "unspecified" and
  judged not reachable (`cloudrun/gcp.go:710`, `exposure.go:102`); by the first it
  takes all traffic. Of a URL map, the weighted backends of path rules and of
  default actions are not read (`gcp.go:751`). A serverless backend given by a URL
  mask names no service and matches none (`gcp.go:906`).
- ECS and Cloud Run answer "not reachable" for what they failed to read, with a
  warning, where Kubernetes leaves it unassessed (`README.md:508`).

## 4. What is proved

TLAPS proves what follows for every value of the constants that satisfies the
named ASSUMEs of the modules; the runs evaluate those on their instances. Each
proof finds an invariant that is inductive, which the properties themselves
seldom are, shows it of the initial states and of every action in turn, and
reads the properties off it.

**Inventory scan** (`ScanInventory_proof`; any workers, images, retries).
`Invariance` has, beside the types, `LoopIndex` (exactly what is below the loop's
index has been dispatched), `LoopEnd` (the loop ends early only on cancellation)
and `Joined` (a join without cancellation leaves every result settled, and none
with the context's error, although the context may be cancelled afterwards).
From it: `ReportIsComplete`, `CancelledIsNoReport`, `CleanupIsAlone`, `OneScan`,
and the action property `FinalResults` (a worker writes only at its own index,
which is unsettled). `CancelStopsDispatch` is about the run's specification with
its history variable: once a scan has begun late, the dispatcher has left its
`select`. `Refinement` maps each step to one of ScanRun or to a stutter.

**Trivy runner** (`TrivyRunner_proof`; as many directories as workers, as
`PrepareWorkerCaches` makes; the place names differ). `RunnerImplements`: the
composition implements `Spec` of the inventory scan, so `RunnerReports` follows.
`RunnerInvariance` adds to the conservation of the pool where a call can be in
each phase of the setup, and which databases the base cache holds while no repair
has begun. From it: `PoolIsSafe`, `SkipIsSafe`, `RepairIsFinal`, and by counting
`PoolSuffices` (a worker outside a call holds nothing, the directories held
inject into the other workers).

**Vulnrichment store** (`Enrichment_proof`; any callers, CVEs, retries,
limit and restarts). The invariant: a temporary file exists only between its
write and its rename, a lookup waits only for an attempt it still has, no file of
the cache is part of a document. From it: `CacheKept`, `RecordIsUsed` and
`BreakerStaysTripped`, each by following one caller's step while the others stand
still (`OthersUntouched`).

**Enrichment pass** (the same module; one caller, any findings and limit of
warnings). The store's invariant goes through the pass.
Beside it, the counters are compared with what the lookups so far returned: the
number of failed ones is the counter, the first `MaxWarnings` of them are named,
and the rollup says the rest. That is `FailuresAccounted`.

**Registry credentials** (`RegistryBuild_proof`; GAR and ECR hosts are disjoint).
The invariant says for each point of `Build` which source may have given a host
its credential, and what the sources passed so far owe: a token or a warning
(`GcloudPaid`, `EcrPaid`). From it: `GapsAreWarned`, `HelpersAreKeptApart`,
`CredentialsImprove`.

**Run** (`VdrRun_proof`; any images). The invariant carries ScanRun's promise
through the stages (`ScanHonest`), says at which stage a report or a directory is
there, and what an error says of what happened before the unwinding. From it:
`ExitTells`, `ScansKeepResources`, `RunCleansUp`.

**Collections, VEX, rating** (`Survey_proof`, on `Kubernetes_proof` and
`Collections_proof`). The parts of
a behaviour of Survey share nothing, so the invariant is one conjunct for each,
and for a part not begun that it is as it began.

- `NegativesProved`, any clusters (`ClustersAssumption`: lists are lists, a
  namespace has one service of a name, and what there is of an optional resource is
  served at a version that the code tries: it takes a resource served only at
  others for one that is not installed, without a warning), any options. While a
  discovery may still count as complete, each resource that can lead to a workload
  is still to be asked for, at a version that is served, or has been listed
  whole, or is a route kind held back (`Accounted`); anything else that goes wrong
  has left a warning (`AllSeen`). A held-back kind is forgiven only if no listener
  that was found accepts it, so none leads anywhere (`NotFronted`).
- `OperatorDecides`, the same clusters. Each of the three passes makes an entry
  only over a way that is open (`IngressGives`, `RouteGives`, `ServiceGives`), and
  what is said of a container is one of the entries about it (`MergedComes`). As
  names are unique, the service of the entry is the one that the workload has.
- `OrderIsIgnored`, the same clusters. Merging keeps what was said first unless
  the next says more (`MergingRaises`), so the verdict is one of those said of
  which none says more (`MergedIsHighest`), and what is said is the union of what
  each object makes (`EntriesOf`, `EachReordered`). An entry that is not reachable
  has authentication or nothing (`WellTold`). `VerdictReordered` says it of any
  order, the property of the reverse one.
- `PodsAreCovered`, any clusters and any namespaces that are a list
  (`OptionSetsAssumption`). Of mirror pods it says that one of the name is there
  with all its images (`OnePerManifest`). As long as the inventory is read, each workload that is
  collected has its images there or its list still to come, in its namespace or in
  all (`WorkloadsFound`); at the start that is `ScopesTell`, by which leaving out
  repeated names loses none. Then no list is left, and a pod is a workload itself
  or has a template that is one. The property's premise is the template: that of a
  controller has the pod's images, which a rollout in progress or a ReplicaSet
  without a Deployment breaks.
- `BestIsSelected`, any registries whose lists are lists (`ContentAssumption`,
  `RegistriesAssumption`) and documents of any times. Of the invariant it needs the
  types; the rest is the loop over the statements, which after each of them has a
  best one of those it has seen (`SelectsBest`).
- `NothingIsMissed`, the same registries. The invariant says, as long as nothing
  was warned of, which manifests each stage has come to (`Visited`, `Followed`), and
  that of each of them what was read and what is left make all it has, in its order
  and once (`ReadOrLeft`). What a registry has is the whole of its list; what is
  left out of it lies beyond the first page or the limit (`BeyondTheList`), and the
  property says so. Statements of several manifests are interleaved in no
  way, so those of one can be told out of the list: `OnlyJoins`, `OnlyWhole` and
  `MappedOnly` say how filtering goes with appending and with translating a list.
- `ManagerLeftClean`, any number of chunks and any agent. A file whose staging
  the client was told of has been asked to be removed, or its removal is still to
  come; of the agent, that a file it made it was told to make, and one whose
  removal it has done is gone.
- `SwarmNegativesProved`, any Swarms (`SwarmsAssumption`: labels are as parsed,
  host networks are named or driven so), and any configs. It rests on
  `NegativeRests`: what each kind of declaration and of service can give.
- `ECSGapsWarned`, any estates (`EstatesAssumption`: what an ARN names is in one
  region, a name is one definition of its region, a container name one container of
  it, and no port is 0), regions asked twice included. Names that no other region
  has are enough for the code's keys to be right: such a name denotes one definition
  (`OneOfName`), runs where it is defined (`RunsAtHome`) and, of all the ports that
  are entered for its container, keeps its own (`PortsAreOwn`). So the status and
  the paths are those of the definition (`StatusTells`, `BalancedTells`,
  `PublicTells`), provided that its region was read. The invariant is that a region
  that was not is still to be read or is named by a warning of the stage
  (`RegionsRead`), and likewise for the secrets (`SecretsAsked`).
- `CloudRunGapsWarned`, any projects (`ProjectsAssumption`: a region has
  one service of a name, a URL map names backends there are). The invariant says what of the
  regions passed so far is in the inventory or warned about, and that the
  verdicts, once given, are the ones that the routes and policies which are read
  imply (`RoutesOpen`, `JudgeHolds`). What is open is not defined by what is read:
  a way over a backend that the program overlooks is excepted by name.
- `RatingsMonotone`, `UnknownLabelsWorst`, any rubric that the layers can produce
  from documents of any numbers (`InputsAssumption`: documents are as decoded, the
  built-in one states all numbers). What survives every layer, merge and
  rejection is `RubricSound`: its thresholds and LEV bounds are numbers, and its
  catalog has no profile of the name that stands for an unknown one. The rest is
  about the rating: what an impact leaves unharmed falls with what the asset
  requires (`LeftFalls`), the product of three such falls (`ProductFalls`, which
  is not linear), so tiers rise, and the matrix falls in each argument
  (`MatrixFalls`). That LEV's bounds are ordered is the property's own premise.

- `ReportsFaithful`, any findings (`InputsAssumption`: they are a list, with the
  fields that are read). Every report written is faithful (`BuildTells`), link by
  link: sorting and stripping leave who is affected by what (`SortedElements`,
  `FilteredTells`), a merge gives the first of a key all that those alike affect
  (`DedupedTells`), and on one asset one of each key is enough (`ResourcesTell`).
  That the VEX statement is part of the key is what the merge needs.

What a loop computes is proved by induction on how far it has come. The library's
induction theorems take a predicate, which these provers cannot instantiate, so
`SetInduction` is about a set of numbers, from the well-foundedness of `<`;
`LoopRuns` shows from it that a recursive function exists, and `OnlyKept`,
`FirstElements`, `SortedElements` and `FlattenJoins` what the elements of a
filtered, a de-duplicated, a sorted and an appended list are.

*Only model-checked.* Liveness, which needs fairness and ENABLED and is beyond the
prover: `EventuallyReturns`, `WorkerDirsRemoved`, `EnrichmentEnds`, `RunEnds`,
`SwarmCollectionEnds`, and `ImplementsScanInventory` with its fairness (its safety
half is `RunnerImplements`). Every safety property of a passing run is stated by a
theorem. What the violation runs refute has none, of course.

## 5. Plan

What is left, most important first.

1. Proofs of more than the runs ask: that a report is sorted, that its deadlines
   are those of the rubric for the worst asset, and that a verdict does not depend
   on which of two refused lists failed first.
2. The credentials of Cloud Run images, the choice of ECS revisions, and the
   security facts of pod templates.
3. Enrich-report as a composition of Enrichment and Assessment.

## 6. Not modelled

Contents of findings and log lines, and how reports are rendered; wall-clock
durations; file-system permissions; signals (none is handled, so an interrupted
run leaves its directories behind); a cluster that changes while it is read (its
lists are separate requests, so a verdict may mix two moments); pagination, of
which only the ECS limit on descriptions is kept (`DescribeTargetGroups` and
`DescribeLoadBalancers` read one page); Trivy's, gcloud's, aws's and the
registries' own behaviour beyond what the code expects of them.
