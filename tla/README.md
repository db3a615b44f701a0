# Formal models of vmss-metrics-exporter

The exporter runs in two replicas. A Kubernetes Lease elects the one that collects from
Azure; it polls Resource Graph and Azure Monitor on background threads and publishes
Prometheus gauges, and a Service selects it by a pod label. This directory holds TLA+
modules of its concurrent and failure-prone parts, TLC configurations that check them on
small instances, and TLAPS proofs for every value of the constants.

Paths below are relative to the repository; `PROJECT.json` maps every definition to the
lines it models.

## 1. The system

| Component | State | Operations | Talks to | Hard because of |
|---|---|---|---|---|
| Lease election, `leader_election.py` (`_LeaseElection`, `LeaderElectionRunner`) | `_is_leader`, `_stop_event`, observed record and time, renew deadline | acquire, renew, create, replace, release, 401 refresh, supervisor restart | API server; callbacks into `main.py` | clocks of different processes, lost and late replies, crashes, no fencing |
| Pod lifecycle, `main.py` | pod label, drain | promotion and demotion callbacks, SIGTERM, drain, stop | election thread, exporter, API server | two threads release one Lease; suppressed failures; order of label and gauges |
| Exporter polling, `collector.py` | `_stop_event`, `_is_leader_event`, `_wake_event`, gauges | two pollers, `collect_once`, `set_leader`, `stop` | Azure clients, election thread, main thread | three shared events, leadership lost during a call |
| Gauge retention, `collector.py` `_update_lustre_metrics`, `_clear_resource_gauges` | label sets exposed, `_active_*_labelsets` | update with or without removal, clear | result of a round | partial failures, overlapping rounds, missing timestamps |
| Managed Lustre collector, `azure_managed_lustre.py` | none between rounds | discover, query each filesystem in a pool, aggregate | Resource Graph, Azure Monitor | one failure of many, retries |
| Resource Graph client, `azure_resource_graph.py` | none between queries | paged query with retry | Resource Graph | a page retried after others arrived |
| Standalone VM inventory, `collector.py` `_update_standalone_vm_metrics` | label sets exposed, totals | update of the series, then of the total | Resource Graph, poller and election thread | two locked sections, two threads, a cap |
| Credential chain, `credentials.py` | active credential | `get_token` | Azure identity | several threads, sticky choice |
| Aggregates and labels, `models.py` | none | pure functions | | numeric edges |
| Settings, `config.py` | none | pure validation | | boundaries |
| Workload generator, `scripts/av_lustre_workload.py` | progress, histograms, budget | read, write-only and mixed loops, sharding | file system | skip rules, deadline, budget |
| Write budget, manifests, shell drivers, `scripts/` | none | arithmetic, text, kubectl | | zero and negative budgets |

What makes each one correct: at most one leader and a leader that holds the Lease; a release
that harms nobody and frees the Lease at once; a shutdown that ends and keeps serving while
it drains; a follower that exposes nothing; a leader that fills its gauges again after every
bounce; gauges that show what the last complete round found and, after a partial one,
neither forget nor invent; freshness gauges that do not lie; a collection that accounts for
every filesystem once, fails only for cause and ends; a token for every thread when some
identity can give one; a fill that keeps to its limits; an exit code 0 that is earned; a
workload that never writes into its dataset.

## 2. Modules

| Module | Models | Role |
|---|---|---|
| `LeaseElection` | every pod's election thread against one Lease, with time | timed |
| `LeaderSpec` | what the election promises | abstract specification |
| `Settings` | the checks of the election's settings | operators |
| `MCLeaseElection` | | pod symmetry and the disturbances of the TLC runs |
| `LeaseElectionProofs` | | theorems on `LeaseElection`, and its refinement of `LeaderSpec` |
| `PodShutdown` | one pod's election and main thread, callbacks, label, drain, a rival | untimed |
| `PodShutdownProofs` | | theorems on `PodShutdown` |
| `ExporterPolling` | pollers, election thread and main thread inside one exporter | untimed |
| `ExporterPollingProofs` | | theorems on `ExporterPolling` |
| `CredentialChain` | the chain a deployment builds, `get_token` by several threads | part of `AzureFetch` |
| `AzureFetch` | a collection: paged discovery, pool of queries, retries | composes `CredentialChain` |
| `FetchRound` | what a collection promises | abstract specification |
| `MCAzureFetch` | | filesystems, pages and deployments of the run |
| `AzureFetchProofs` | | theorems on `AzureFetch` and `CredentialChain`, and its refinement of `FetchRound` |
| `LustreGauges` | rounds of the Lustre collector and what they leave in the gauges | untimed, ages fresh/old |
| `MCLustreGauges` | | filesystem symmetry |
| `LustreGaugesProofs` | | theorems on `LustreGauges` |
| `LustreSamples` | answers of Azure Monitor to rows and aggregates | pure functions and the order they are fed in |
| `MCLustreSamples` | | metrics and time series of the run |
| `LustreSamplesProofs` | | theorems on `LustreSamples` |
| `InventoryGauges` | the standalone VMs' gauges, two threads, the cap | untimed |
| `MCInventoryGauges` | | VM profiles of the run |
| `InventoryGaugesProofs` | | theorems on `InventoryGauges` |
| `Workload` | the pods of a pressure-test Job, verification, write budget | data sizes small |
| `DatasetPaths` | the guards that keep a Job out of its dataset | operators |
| `MCWorkload` | | Job settings and a directory tree |
| `Sums` | the sum of a natural-valued function over a finite set | operators, for `Workload` and `LustreSamples` |
| `WorkloadProofs` | | theorems on `Workload` and `DatasetPaths` |

The models are abstractions of one program and overlap at their borders, each
leaving to another what it does not say. `LeaseElection` says who leads and takes the
callbacks as one bounded phase (`CallbackTime`). `PodShutdown` opens the callbacks and
the shutdown and takes time out. `ExporterPolling` opens the exporter behind
`set_leader` and `collect_once`, and knows of a resource only whether it has series.
`LustreGauges` and `InventoryGauges` open one resource's series and leave the pollers'
schedule open. `FetchRound` is the border of `AzureFetch` and `LustreGauges`: both are proved
to implement it, the first with requests and threads, the second with what the gauges make of
a round; `LustreSamples` says what is in the result of one query. `Workload`
is another program, with the exporter's Lustre filesystems as its disk.

### LeaseElection, LeaderSpec and Settings

`pc[p]` is where a pod's thread stands: waiting between attempts, in the GET, in the
create or replace, `ack` when its write is committed and the reply not seen, in
`on_started_leading`, in the supervisor's backoff, in one of the three phases of
`release`. `isLeader`, `stopping` are `_is_leader` and `_stop_event`. Time is relative:
no variable is an instant, each is an age (`leaseAge`, `timer`, `obsAge`, `deadlineAge`) that
`Tick` advances for everybody, saturating where nothing compares it any more (`Cap`), so
the state space is finite without a bound on the run. `current[p]` abstracts the
resourceVersion and the lease key: the record p last saw is the Lease's present record. A
compare-and-swap succeeds when it holds, and an observation keeps its date while it holds.
`late` holds what a write given up by its client (timeout, crash) would still commit.

Disturbances (`Env`): `crash`, `stop`, `error` (any call), `unauthorized` (the second
401), `late`, `delete` (somebody deletes the Lease). `CallTime` is how long a call to the API
server takes; `ConfigAssumption` lets it be anything up to `RequestTimeout`, the connect and
read timeouts of `_api_request_timeout` together, which is the whole renew deadline.
`RequestTime` is twice that if a 401 repeats the call with the same timeouts; an attempt is two
requests. `CallbackTime` bounds `on_started_leading`, **which the code does not** (see the
findings).

`LeaderSpec` says what remains when clocks, requests and threads are taken away: a lock with
a `holder` and a set of `leaders`, granted and freed only while nobody leads. The refinement
maps `leaders` to the pods with `Leading(p)`; it is checked (`ImplementsLock`) and proved.
`Settings` is `_load_leader_election_settings`, which must reject what
`LeaderElectionConfig` would reject later. `LeaseElection` takes `ValidTiming` from it, and
`MCLeaseElection` assumes that the durations of its runs pass `Loads`.

### PodShutdown

`epc` and `mpc` are the election and the main thread, step by step as far as the other
thread can come in between: the check of `_leading`, `_api_lock` taken for a read and its
write, `_stop_leading`'s test-and-clear, the three steps of `_on_started_leading`, the two of
`_on_stopped_leading`. `seen[t]`: the resourceVersion read by thread t is current. A replace that
fails never arrives, arrives later (`late`, `LateWrite`, even after the exit), or was committed
and only its reply is lost (`Fails`). Waits end
at any moment and a renew deadline passes whenever the code lets it. `excused` is
history: a suppressed failure (first collection, label patch) that may leave a label without
data; so is `overtaken`: the record in the Lease is a late write of this pod.

### ExporterPolling

One program counter per poller, election thread and main thread; `todo[t]` is what is left
of the collection thread t is in: for each resource the Azure call, the locked update, the
locked summary. Steps under `_metric_lock` are atomic. `wake`, `event`, `stopEvent` are the
three `threading.Event`s; `Rest` is what an early return or an exception leaves of a round,
always an end of it; `SetWake` releases sleepers and stays set for the
others, `Begin` clears it. `strays` and `owed` are history. The duration gauges are left out
(see section 6).

### CredentialChain and AzureFetch

`Chain(c)` is what `_build_credential_chain` makes of an environment `c`: mode, complete
variables, constructors that raise. `get_token` is opened where `_lock` is released:
`Begin` reads `_active`, `Cached` uses it, `ClearActive` clears whatever is there by then,
`Try` walks the chain, `Keep` stores the choice, `Refuse` raises. The identities behind the
members (`health`) fail and recover at any step; `lived[t]` is history, the identities that
were up ever since t's call began.

`AzureFetch` composes it with one `collect()` after another. The collecting thread pages
through Resource Graph (`page`, `rows`), the pool's threads take filesystems (`queue`, `job`),
each sends its requests one after the other (`batches`), `Merge` is the `as_completed` loop,
and every request goes through `Send`, a token, `Answer` or `Error`, and `Retry`. `excused`
is history: the work Azure gave reason to give up, by the errors in a row (`failed`) that one
request met with. A Resource Graph query of the VMSS and
VM collectors is the collecting thread's part alone.

`FetchRound` is the promise: a collection fails as a whole before any query, or accounts for
each filesystem exactly once, delivered complete or counted as an error. `RemoveStale` of
`LustreGauges` (a round with `error_count == 0` is complete) rests on it. No result lists a
filesystem twice (`Unrepeated`, an assumption on `Inventories`): the query lists resources and is
ordered by subscription, resource group and name.

### LustreGauges

A gauge family is its label sets: `gauges` those on display, `active` the union of the
seven `_active_lustre_*_labelsets` (they are treated alike, so one tagged set is the same
thing). `stamp` and `maxAge` are the two kinds of freshness gauge. A round is
`Discover`, one `QueryReturns` or `QueryFails` per filesystem in any order, `Apply`.
Ages are two-valued, on either side of the alerts' 300 seconds; a timestamp ages with the
sample it dates (`GrowOld`), an age gauge does not.

### LustreSamples

`Query` sends the next batch of metric names (`Batches` cuts the five tuples as
`_chunk_metric_names` does), `Normalize` is one turn of the loop of
`normalize_lustre_metrics_response`, on any of the merged time series: the order in which
Azure returns them means nothing. A row is `values[key]`, with `key` the family, the
dimension and the operation, and its date `stamps[key]`. `Aggregate` is
`build_lustre_filesystem_aggregate_metrics`. A time series may lack its dimension, its
metadata, dates or values; Azure has no two of one metric with the same dimensions.

### InventoryGauges

One round is `Query`, `Update` (the series, under `_metric_lock`), `Summarize` (the total, in
a second locked section), by the poller or by the `collect_once` of a promotion. `info`,
`power`, `sizes` are the gauges, `active` the union of the three
`_active_standalone_vm_*_labelsets`. `Stale` and the `...After` operators follow the removal
and the writing of `_update_standalone_vm_metrics`. Between a thread's steps the other thread
publishes, the pod is demoted and cleared (`Demote`, `Clear`), and the VMs change.

### Workload and DatasetPaths

A pod runs `run_write_only` (`Top` to `Close`) or `run_read` (`EpochBegins` to `EpochEnds`),
until `Exit`. A chunk is the smallest step of a fill: pods share `free`, the signal flag is read
before each chunk, and every call may fail with ENOSPC or another error. A chunk is counted when
`fh.write` returns, which is before all of it is on the disk: `buffered` is what the file object
holds back, up to `Buffer` bytes (Python takes the filesystem's block size, which on Lustre may
be as large as a chunk). ENOSPC and errors come when a write spills over (`Full`, `WriteError`) or
when the `with` statement closes the file (`CloseFull`, `CloseError`), and take with them what is
left in the buffer. On the disk is what the kernel has accepted. `artifact[p][f]`
is the output of p for file f: none, a torn sidecar, a sidecar without its payload, or whole.
`Selections` are the choices `select_files` may make for a shuffle. `Verify` is
`run_verify` after the Job; `Budget` and `Allowed` are `lustre_safe_write_budget.py`.

`DatasetPaths` has a path as a sequence of segments and `Path.resolve()` as a function `Real`
that is idempotent. `DisjointRoots`, `WalkRoot`, `RunDir`, `PodDir`, `EnsureWithin` are the
guards; `Reads` and `Writes` are the files they leave to a pod. The file system's links do not
change while a Job runs; the `--exclude` arguments, which only take files away, are left out.

## 3. Runs

| Run | Module, cfg | Result | What it shows |
|---|---|---|---|
| `lease_safety` | `MCLeaseElection`, `LeaseSafety` | pass | the election implements `LeaderSpec`; mutual exclusion, holder, no early steal, harmless release, immediate handoff |
| `lease_recovery` | `MCLeaseElection`, `LeaseRecovery` | pass | leaders are elected again after any finite history of faults |
| `lease_slow_calls` | `MCLeaseElection`, `LeaseSlowCalls` | violation | 8/5/1 s as deployed, an instant callback, calls of up to 2 s, no fault: two leaders |
| `shutdown_safety` | `PodShutdown`, `ShutdownSafety` | pass | the two threads do not fight, nor harm the rival; clean follower; label and data; shutdown ends |
| `shutdown_drain` | `PodShutdown`, `ShutdownDrain` | violation | gauges cleared while the pod drains |
| `polling` | `ExporterPolling`, `Polling` | pass | followers expose nothing and begin nothing; leaders refill; stop ends the pollers |
| `polling_wake` | `ExporterPolling`, `PollingWake` | violation | one poller clears the other's wake-up |
| `azure_fetch` | `MCAzureFetch`, `AzureFetch` | pass | a collection implements `FetchRound`, fails only for cause, ends; no thread is refused a token without reason, none comes from an identity nobody chose; the choice settles |
| `lustre_gauges` | `MCLustreGauges`, `LustreGauges` | pass | retention is exact, hides nothing, dates nothing too young |
| `lustre_samples` | `MCLustreSamples`, `LustreSamples` | pass | rows hold what Azure has, aggregates agree with it, in any order |
| `inventory` | `MCInventoryGauges`, `InventoryGauges` | pass | an update is exact, per-VM series are bounded and agree, the gauges converge |
| `workload` | `MCWorkload`, `Workload` | pass | fills keep to their limits and report honestly, exit 0 is earned, the budget protects, pods end |

Every property of a passing run has a mutant in `PROJECT.json`: a plausible bug in a mapped
definition that makes TLC find the property violated under the same configuration. The
mutated operators stand before the definition they replace and are commented as mutants.

### Bounds

* Lease runs: two pods, as deployed. Two are enough for every pairwise property
  (mutual exclusion, steal, release); the theorems cover any number. `LeaseSafety` takes
  the smallest renew deadline and retry period there are, calls as slow as the code's timeouts let
  them be (`CallTime` = `RequestTimeout` = 2), and the shortest lease that keeps the
  margin (12 = 1 + 2 + 1 + 4*2). `LeaseRecovery` has every fault that can leave something
  behind and 401s besides; it is not inside the margin (1 + 2 + 1 + 8 = 12 > 5), which liveness does
  not need. The violation run uses the seconds of `deploy/kubernetes.yaml` and calls of less than
  half of what the code allows them.
* `PodShutdown`: `MaxTries` = 2 release attempts, so that a release fails once and
  gives up once.
* `ExporterPolling`: `MaxStrays` = 2 is one more than the property allows.
  `Optional` = {"lustre"} has both pollers; the violation run has the standalone inventory
  too.
* `AzureFetch`: two filesystems on two pages, or none; two threads in the pool, so that they
  finish in either order and a third shares their credential; `Requests` = 2, so that one
  batch arrives before the next fails; `MaxRetries` = 1, so that a request is retried once and
  given up once. Three deployments: a secret that hides a federated token, a federated token
  with its fallback, and one that was selected although a secret is there. An identity
  fails in one way ("denied"), the way that stops a `DefaultAzureCredential`.
* `LustreGauges`: two filesystems, so that one fails while the other does not, one target
  each and one sku. A second target or sku adds only label sets, which every
  definition treats one by one; the theorems have any number of them.
* `LustreSamples`: `MaxSeries` = 3 time series out of every kind; three are needed for a
  row of two metrics beside another row. `BatchSize` = 3 cuts the four names of the
  simple metrics into a full batch and one that is not. `Now` = 2 has points before, at and after it.
* `InventoryGauges`: two VMs and a cap of one, so that an inventory crosses the cap
  both ways; two sizes and two power states, in three of their combinations.
* `Workload`: two pods; a capacity of 8 with one or three units used, files of 3 in chunks of 2
  through a buffer of 1, so that a file ends with a part of a chunk, a chunk overflows the buffer,
  the last part of a file fits into it, and ENOSPC comes in the middle of a chunk and at a close;
  four files to read in two epochs, one of them hot. Nine Jobs: fills that end by target, by
  files, and by ENOSPC alone, and readers with each pair of error flags, with and without limits,
  on an empty filesystem, on a half-full one, and on one that is over its budget from the start.
  `MaxFailures` = 1 and `MaxWritten` = 9 = `Capacity` + `Buffer` saturate two counters that nothing compares beyond.

### Fairness

* `LeaseElection!FairSpec`: threads are scheduled, requests end (each has a timeout), time
  passes. No pod is forced to start, so a crashed pod may be gone for good, and
  `Recovery` says what then holds.
* `PodShutdown!FairSpec`: both threads are scheduled and their calls end. The rival, SIGTERM
  and the pollers are under no obligation.
* `ExporterPolling!FairSpec`: threads are scheduled, Azure calls return or raise, timed
  waits end. Elections, demotions and SIGTERM come when they come. `LeaderRefills`
  assumes what it says: leadership that lasts, and an Azure that no longer fails.
* `AzureFetch!FairSpec`: threads are scheduled and requests end, with an answer or an error.
  Nothing makes Azure answer; `CollectEnds` follows from the bounded retries alone.
  `ActiveSettles` assumes that the identities no longer change.
* `InventoryGauges!FairSpec`: both threads go round and queries end. `InventoryConverges`
  assumes leadership that lasts and VMs that stay as they are.
* `Workload!FairSpec`: each pod is scheduled and its calls end. Nothing makes a write
  succeed; `PodsFinish` assumes that errors stop.

`LustreGauges` has safety properties alone: "after an error-free round exactly what it
found" is stronger than convergence. `LustreSamples` is a computation that ends, and may stop.

## 4. What is proved

TLAPS checks every theorem for any value of the constants that meets the modules'
assumptions. The TLC runs show the same formulas on an instance.

* **LeaseElection.** `TypeCorrect`, `StealsAreLate`, `ReleasesAreSafe` and `HandoffIsPrompt`
  hold for every valid configuration (`ConfigAssumption`, from
  `LeaderElectionConfig.__post_init__`) and every
  disturbance, with calls as slow as the code's timeouts let them be. `MutualExclusion` and
  `LeadersHold` further assume `SafeMargin`
  (callback + renew deadline + retry + four requests fit into the lease) and that nobody
  deletes the Lease. The code does not enforce the margin: it says how fast the API server must
  be. With 8/5/1 and an instant callback a request may take half a second, with 15/10/2
  three quarters of one (the unit of time may be a fraction of a second); beyond that,
  finding 1. `TimeoutsSuffice` names the settings that ask nothing of the API server, as the
  code's own timeouts keep the margin. `LeadersGiveUp` needs no margin: a leader that
  cannot write leads no longer than renew deadline + retry + two requests after its last
  renewal. `AtMostOneLeader` is not inductive: the invariant `LeadInv` says how old
  the lease of a leader can be at each step of its loop, that a candidate takes it for at
  most one request older than it is, that every write in flight or given up would only take
  an abandoned Lease, and that whoever leads or is about to learn it is the holder.
  Mutual exclusion then follows from there being one holder. `HandoffIsPrompt` rests on
  `HandoffInv`: who is overtaken in an attempt is overtaken by a write made during it.
  `LoadedSettingsConstruct`: timings that pass `load_settings` pass `LeaderElectionConfig`,
  unless the lock has an empty name.
* **LeaderSpec.** `Implementation`, under the assumptions of `MutualExclusion`: the initial
  state is the lock's, and with `LeadInv` before and after, every step of the election is
  one of `Grant`, `Free`, `Lead`, `Yield` or a stutter.
* **PodShutdown.** `OwnWritesAgree` rests on a lock invariant: who is writing holds
  `_api_lock`, and since the read under that lock only the rival wrote, or the Lease has a
  write that this pod had given up and that came late. Until then a replace on either thread
  succeeds, also after one whose reply was lost. `RivalIsSafe`: a
  write succeeds only with a current read, and nobody goes on to write after reading the rival.
  `FollowersAreClean` and `LabelledPodsHaveData` rest on `PublishInv`, which says for each
  step of the two callbacks what has been done to the label and to the gauges by then.
  `TypeCorrect` also bounds the release attempts.
* **ExporterPolling.** `FollowersAreEmpty`: when the event is down and the clearing is not
  pending, no series and no summary are on display. `StandbyIsQuiet`: what a poller may
  still begin after a demotion is one collection; who has already decided to collect
  has not used it yet, and only a leader lets a poller decide so (`StrayInv`).
  `TypeCorrect`: whatever returns early or raises, a thread is left with the end of its round.
* **AzureFetch.** `RefusalsAreTrue` (for `CredentialChain` with any number of threads): a
  thread that walks has passed only members none of whose identities was up throughout its
  call (`ChainInv`). `TokensComeFromTheSelection` adds what `Chain` can hold for any
  environment. `FailuresHaveCause` adds that every future that raised is excused
  (`PoolInv`) and that each request counts its attempts from zero (`Counted`). `EveryRoundIsComplete` is the refinement of `FetchRound`: `RoundInv` says that the
  rows read so far are those of the pages read, each once, and that a filesystem of the round is
  in one place, the queue, a worker, a finished future, or the result. The last page is then
  `Discover`, `Merge` is `Account`, `Collect` is `Begin`, everything else a stutter.
  `ErrorCountIsExact` follows the cardinalities along: a collection that returns lacks as many
  filesystems as `error_count` says, so a round without errors is complete.
* **LustreGauges.** `TypeCorrect`, `CleanRounds`, `FailuresHideNothing`, `Backed`,
  `DatesBelong`, `StampsHonest` rest on one invariant: the active label sets cover what is on
  display; a round in flight has samples only of filesystems it discovered, and none when idle; a
  sample's age is the same in Azure, in flight and on display. `RoundsImplementFetch`: the rounds
  of each thread are those of `FetchRound`, so the gauges are not studied under outcomes a
  collection cannot have. (TLC does not take the parametrised instance as a property.)
* **LustreSamples.** `RowsHoldEverything` and `AggregatesOfSeries` rest on `SamplesInv`: whatever the
  order, the rows hold the time series normalised so far and no other, each with the latest of
  their dates; and once the last batch is merged every series has been asked for. The series of
  one metric have different keys, so summing rows and summing series is the same.
  `NamesAssumption` says which of the five tuples of metric names are disjoint and where the metrics
  that are read by name stand, as the code has them.
* **Workload.** `FillsKeepTheirLimits` and `SummariesAreHonest` rest on `FillInv`: what a pod has on disk
  is its counted files and at most the one it is at, and without errors the bytes on the disk and
  in the buffer are the bytes it counts, but for the part of a chunk that ENOSPC let through; the
  bytes of all pods and the free space add up. A fill that ENOSPC ended may have counted up to
  `Buffer` bytes that were lost with the buffer, and `SummaryIsHonest` says no more than that. `ExitZeroMeansDone` and `AllowedPlansFit`
  rest on `ReadInv`: what a pod has written, has to do and is at never exceeds what was planned
  for it, and with both error flags set its outputs and what is left of its epoch are its
  shard. `MaxFailures` and `MaxWritten`, which saturate counters in the model, are assumed to
  be large enough for what is compared.
* **InventoryGauges.** `UpdatesAreExact` and `SeriesAgree` rest on `ShownInv`: what is on
  display is what some inventory would show, and the active label sets are that
  inventory's. An update then removes all that is not its own.
* **DatasetPaths** (in `WorkloadProofs`). `WritesMissDataset`, `ReadsMissOutputs`: whatever the links are and
  whatever arguments pass the guards, no path a pod may open for writing lies in the dataset,
  and no file any pod enumerates is one a pod may write. They rest on `IsInside` being
  transitive, and two ancestors of one path being ordered.

The sums of `Workload` and `LustreSamples` are cardinalities of sets of units (`Sums`), about which
the library has theorems; a recursive sum would need an induction the provers cannot do. The
pages of a discovery are a union for the same reason.

Only model-checked: the liveness properties (`Recovery`, `ShutdownCompletes`, `LeaderRefills`,
`StopEndsPollers`, `CollectEnds`, `ActiveSettles`, `InventoryConverges`, `PodsFinish`),
liveness being out of TLAPS' reach. Every invariant, action property and refinement of a passing
run is proved.

## 5. Findings

1. Slow calls alone make two leaders: calls of 2 s at 8/5/1 s as deployed, of 4 s at the default
   15/10/2 (`leader_election.py:740`, run `lease_slow_calls`; where calls also fail, 1 s does
   at either): each call may take the whole renew
   deadline to connect and to read, the deadline is looked at between attempts only, and an
   attempt makes two calls, so a leader whose calls hang gives up after its lease has
   expired. A first collection that outlasts the lease does the same (line 258: the callback
   runs before the first renewal; `CallbackTime = 9`, `CallTime = 0` in that configuration show
   it), and so does a deleted Lease. `MutualExclusion` excludes two leaders where the Lease
   stays in place and `SafeMargin` holds.
2. A graceful shutdown may clear the gauges before the drain (`leader_election.py:223`, run
   `shutdown_drain`): the election thread wakes on the same event and releases with
   notification.
3. A wake-up may be lost to the other poller (`collector.py:843`, run `polling_wake`); the
   gauges are then refilled one poll interval later (`LeaderRefills` still holds).

## 6. Seen while modelling, without a run

Election and shutdown:

* The comment at `leader_election.py:735` says that a hung call should not consume the whole
  renew deadline; half of it to connect and half to read are all of it.
* A shutdown during an acquisition may leave the Lease naming the terminating pod, as
  `release()` asks `_leading` without `_api_lock` (`leader_election.py:238`); so may an own
  replace that commits after the exit. The next pod then waits for a lease duration.
* A failed label patch is not repeated before the next change of leadership (`main.py:266`),
  and a demotion's patch, which has no request timeout, comes before the gauges are
  cleared (`main.py:254`).
* `run()` does not return on a loss of leadership, so the supervisor's backoff is never reset
  after an election that worked (`leader_election.py:141`).
* `LEADER_ELECTION_LOCK_NAME=""` passes `load_settings` (`config.py:180`) and is rejected by
  `LeaderElectionConfig` (`leader_election.py:69`), the late failure the comment at
  `config.py:206` wants to avoid. The lease parameters are validated with the election
  disabled too, where `config.py:175` says they fall back to defaults.
* `_get_float` lets NaN through, as every comparison with it is false (`config.py:139`).

Collection and gauges:

* `stop()` on a follower opens the write gate: a collection in flight publishes
  (`collector.py:719`).
* The failure paths set a duration gauge outside `_metric_lock` and the leadership check
  (`collector.py:608`, `647`, `880`, `963`), also on a follower.
* The age gauge of a filesystem whose queries fail does not age (`collector.py:1183`).
* `main.py:81` speaks of one thread serialising the inventory calls; the promotion's
  `collect_once` makes them on the election thread beside the VMSS poller. An older answer may
  then be published over a newer one, and a total beside the series of another round, until
  the next poll (`InventoryConverges`).
* Between the release and `stop()` the pollers of a draining pod go on collecting
  (`main.py:144`).
* The timestamp of an OST is the latest of all its metrics (`azure_managed_lustre.py:523`),
  while its alert speaks of `OSTBytesAvailable`.
* A filesystem recreated with another sku during partial failures shows two info series
  until a round without errors.
* The late failure of a cached credential clears `_active` although another thread has
  proved a credential since (`credentials.py:136`); the next call walks the chain again.
* `credentials.py:98` says "prefers SP, then falls back through WI and DAC-backed auth": with
  a complete service principal the chain has one member and no fallback.

Workload:

* ENOSPC at the close of a file ends the fill as a success (`av_lustre_workload.py:1243`) with
  `bytes_written` above what is on the disk, by as much as the file's buffer held.
* A tolerated write error (`av_lustre_workload.py:1250`) rewrites the same file at once,
  without a pause and without a count, and `bytes_written` keeps what was written of it: a
  target may be reached with fewer bytes on disk.
* A tolerated write error still makes a reading pod exit 1 when `fail_on_read_error` is set
  (line 1638), since reads and writes share `files_failed`; after a failed write
  `files_attempted` is not `files_succeeded` plus `files_failed` in a fill (line 1269).
* `verify-output` reads sidecars (line 1068): a payload that is missing passes.

## 7. Plan

1. The counts of the VMSS update (`_update_metrics`), in the terms of `InventoryGauges`.
2. The supervisor's backoff and its missing reset.
3. A timed composition of `LeaseElection` and the demotion callback: how long a pod that lost
   its Lease may still publish.
4. The action-level steps behind the liveness properties: what each fair step brings closer.
5. Discovery of the dataset, warm-up and SLOs of the workload.

## 8. Not modelled

* Text and wiring: argument parsing, logging, progress and summaries, the HTTP server, the
  construction of Azure clients, the token-refresh hook of the Kubernetes client, the
  one-shot mode of `main.py`.
* `gen_lustre_fill_pvcs.py`, which fills text templates, the shell drivers, which keep no
  state of their own, and manifests, dashboards and alert rules, which are data.
* Latencies, percentiles and SLOs of the workload, and its `discover` mode, which only reads.
* The shapes a row of Resource Graph may have: its parsing takes one field after another.
* What the Kubernetes client and urllib3 add to a call beyond its timeouts: repeated connection
  attempts, several addresses of one host, replies that arrive byte by byte.
* Floating point: `int(capacity * percent / 100)` is taken in integers, the ratio of operations
  as its two terms. `retry_period * 1.2` is exact in the range the settings allow.
* The settings other than the election's: each is read on its own, with the functions
  `Settings` models.
