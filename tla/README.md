# A formal model of cicd-sensor

cicd-sensor watches CI jobs from the kernel: eBPF programs sample what the
processes of a job do, an agent attributes each sample to a job, evaluates rules
on it, and ships logs and a summary to a manager. The modules here model the
parts where several actors meet. TLC checks them on small instances, and TLAPS
proves their safety properties for every value of the constants.

Paths below are relative to `src/internal/agent/` unless they start with `src/`.

## The system

| Part | State | Operations | What is hard about it |
| --- | --- | --- | --- |
| eBPF cgroup hooks (`bpf/`) | `tracked_cgroups`, `staging_map`, ring buffer | mkdir, attach, rmdir | change the maps at once, report later; a full ring loses the report |
| kernel tracker (`kerneltracker/`) | the mirror: job of each cgroup, cgroups of each job, staged names, removal queue | register, bind, stage, remove; samples; purge; reconcile a liveness scan | commands overtake samples; a scan is old when it is used; one of several map deletes fails |
| job registry (`jobregistry/`) | `jobs`, `starting` | host and project starts, staging, host end, end notification, TTL sweep, shutdown | requests for one identity meet at every step of a start and of an end |
| job (`job/`) | scopes, `closing`, event channel, worker | set scope, process events, drain | a scope or an event that comes during the end |
| manager log outputs (`joblogs/`) | closed flag, request channel, buffer, timer | emit, flush, close, timer | close against emit and flush, failing sends, abandoned calls |
| manager client (`managerclient/`) | token cache, host configuration cache, retry loop | mint, refresh, send | shared flights, close during a mint, retry against deadline |
| HTTP uprobe worker (`kerneltracker/kernelio/`) | discovery cache, attach queue, attached targets | discover, attach, reclaim | queue and target limits, files that change |
| eBPF capture hooks (`bpf/`) | ring buffer, per-CPU scratch maps | one program per file, network, DNS, mount, exec or HTTP event | text at the limit of a field, memory left by the program before |
| process tree, file_open deduplication (`kerneltracker/`) | process nodes; ring of remembered keys | fork, exec, backfill from `/proc`; remember | lost samples, a full channel, wrap-around |
| evaluation, scopes, observations | hits, counts, capped sets | evaluate an event, join a scope | rules shared by two scopes, one-shot correlations, caps per scope |
| listener, NRI plugin, dockerd proxy | none of their own | turn a request into a registry operation | staging must come before the container |
| manager (`src/internal/manager`), rules (`src/internal/rule`) | rule and baseline caches, sinks | serve configuration, route batches | retries; merging of rule sets |

How they interact: a start request reserves the identity in the registry, fetches
its configuration, registers the identity with the kernel tracker, stores the Job,
attaches a scope and binds the caller's cgroup. From then on the hooks extend the
tracked set, the tracker sends events to the Job's channel, and the Job's worker
evaluates them and emits records to the log outputs. When the last cgroup is gone
(or the host says so, or the TTL passes, or the agent stops) a finalizer takes the
Job out of the registry, removes it from the tracker, drains the worker, closes the
logs and sends the summary.

`PROJECT.json` lists every component with its status, and every hazard at its line.

## Modules

| Module | Models |
| --- | --- |
| `KernelTracker` | cgroup hooks, BPF maps, ring buffer, engine loop, mirror, liveness scanner |
| `CgroupOwnership` | what attribution promises: a cgroup has at most one owner, and loses it only by removal of the job or when it is gone |
| `SampleRing`, `HttpCapture`, `SampleHooks`, `CaptureHooks` | the capture programs of one CPU: records of the ring and their memory; the four HTTP taps; all other programs; their composition |
| `HttpUprobeWorker` | discovery hook and cache, candidate queue, attachment and reclaim of uprobes |
| `FileOpenDedup`, `ProcessTree`, `ScopeEvaluation`, `EventPipeline` | the ring of remembered file_open keys; the process nodes of a Job; rules, alerts and observations of a scope; and the path of a Job's events through all three |
| `JobRegistry` | registry, start requests, finalizers, Job and worker, and the part of the tracker they see |
| `ManagerOutput` | one log output, its callers and its worker |
| `LogStream` | what a log output promises: delivery in order, nothing skipped |
| `CachedTokenSource`, `LogDelivery` | the shared OIDC credential; a batch on its way through retry loop, network, manager and object store |
| `KernelTracker_proofs`, `KernelTracker_attribution`, `JobRegistry_proofs`, `ManagerOutput_proofs`, `HttpUprobeWorker_proofs`, `EventPipeline_proofs`, `LogDelivery_proofs`, `CaptureHooks_proofs` | theorems |
| `MC*` | the values of the constants for TLC |

Definitions marked "Mutant" are wrong variants of the definition that follows them.
Each property has one that it must reject; nothing else refers to them.

### KernelTracker

The variables `live` and `born` are the kernel's cgroups, `trackedCgroups` and
`stagingMap` the two BPF maps, `ring` the samples on their way, and the rest are the
fields of `jobTrackingState` under their own names. The hooks, every engine command
and every sample handler are one action each. The engine is a single goroutine, so a
handler is atomic, with one exception: RemoveJob deletes keys from the BPF maps one
by one while the hooks keep running, so it is a sequence of `DeleteTrackedKey` and
`DeleteStagingKey` steps, ended by `FinishRemoveJob` or by `DeleteKeyFails`.
`inputCh` is not a variable: samples keep their order, and commands may overtake
the samples that are still in the ring. Timestamps appear only in the comparisons
the code makes with them: the age of a removal, and which cgroups were tracked
before a scan started.

### JobRegistry

Every request, end notification, TTL tick and the shutdown is a process with a
program counter; one step is what the code does under one hold of `JobRegistry.mu`
or `Job.mu`, or one command to the tracker. A start creates at most one Job, scope
and channel, and all three are named after it. The tracker is reduced to the channel
of each identity and whether the identity has no, active or drained cgroups. Answers
of the manager are success or failure. Each run has requests of one provider, because
an agent serves one.

### ManagerOutput

The mutex, the request channel, the reply channels and `done` of `managerOutput` are
`closed`, `requests`, `reply` and `exited`; a caller whose context ends leaves by
`EnqueueGivesUp` or `WaitGivesUp`. The worker's local variables are `buffer` and
`armed`, and its closures are operators on a record of that state: `Flush(w)` is the
set of outcomes a flush can have. A failing send may have stored the batch.

### CaptureHooks

A program is one action: on one CPU it runs, with the programs it tail-calls, to its
end. What survives it is the ring, the drop counter and `http_scratch`, the per-CPU
map the HTTP parser leaves its prefix and offsets in. Text is a sequence of units: a
method, `Host:` or the version is one unit, `"x"` is text that must stay in the
process, `"fault"` is memory that cannot be read. A reserved record is full of
`"old"` units, what an earlier record left there, until the program writes over it.
Path walks, fixed-size reads and chunked DNS copies keep the loop bounds, the order
of the writes and the flags of the C code. `HttpNext` has one disjunct per HTTP tap,
`HooksNext` one per other program.

### HttpUprobeWorker

`version` and `maps` are the files and who maps them, `known` the cgroups the mirror
reports as active, `hook` the state of the mmap hook between
its cache insert and its ring reservation, and `cache`, `ring`, `queue`, `reconcile`,
`attached` and `probes` are the discovery cache, the channels and the attached
targets. The worker goroutine's position is `worker`; a reclaim sweep reads
cgroups, PIDs and mappings in separate steps while processes map, fork and exit.

### EventPipeline

The kernel side is who is alive and which image it runs. `ring` loses samples when
full; the sample handlers update `nodes` (`ProcessTree`), attach the process
context and call `emitEventRecord`, which suppresses repeated file_open records
(`FileOpenDedup`) and counts every attempt. `channel` is the Job's bounded channel
and `processEvent` the worker, which evaluates one record for every attached scope
(`ScopeEvaluation`). A project scope may join, and the Job may be closed and
removed, between any two steps. One Job is modelled; samples of different Jobs share
only the ring, whose loss is nondeterministic here. `evaluated` and `observed` are
histories for the properties. argv travels with the image, so the key of the
deduplication carries the image alone.

### LogDelivery

`flight` is the singleflight group with its keys `normal` and `force`, `acquireMu` the
mutex, `reuse` the cached token; callers join a flight, the flight mints, installs and
answers. A send goes through `token`, `posted` and `sleep` until it is `sent` or
`failed`. The network keeps every posted request: it may be handled once, late, or
never, and its answer may be lost. Local steps take no time: the clock advances only
when everybody waits.

## Runs

`tlc -config <cfg> <module>`; the module is `MC` and the first part of the name of
the configuration.

| Run (cfg) | Instance | Shows |
| --- | --- | --- |
| `KernelTracker_safety` | 2 jobs, a runner cgroup and a container below it that may be staged, ring of 2, map operations that may fail, scanner | `RemovedQueueExact`: each removed cgroup is queued exactly once; `RemovedCgroupsAreGone`: no scan, however old, removes a live cgroup; `OwnershipKept`: the tracker implements `CgroupOwnership` |
| `KernelTracker_liveness` | 1 job, ring of 1 sample | `StaleCgroupsPurged` and `DrainedJobsEnd`: the scanner repairs lost samples |
| `JobRegistry_ends` | Kubernetes start, two staging requests, host end, end notification, TTL tick, shutdown | `OneSummary`; `RoutedEventsSeeScope`: the first Job of an identity takes no event before its scope is set, unless a finalizer took it in the middle of its start |
| `JobRegistry_starts` | a host start, two project starts, an end notification, a RemoveJob that fails | `StartsExclusive`, `SummaryComplete`, `ScopesFinalizedWithJob`, `LeavesOnlyWhenTakenOrUnwound` |
| `JobRegistry_liveness` | GitLab start and a staging request that may create the Job, a second identity, TTL tick, a RemoveJob that fails | `TakenJobsAreSummarized`, `WaitersReturn`, `SweepReachesEveryJob` |
| `ManagerOutput_races` | 3 emits, a flush, an EmitAndClose, 2 failing sends, channel of 2 | `CloseDelivers`, `FlushAnswered`, `InOrder` (the output implements `LogStream`), `RecordsDelivered`, `CallersReturn` |
| `HttpUprobeWorker_reclaim` | a file in 2 versions (with the symbols, then a Go binary), 2 processes, queues and target limit of 1 | `CacheJustified`: a cached key never hides a file for good; `ProbesOwned`: no probe is leaked or closed twice; `ReclaimOnlyUnmapped`; `FreshAttachmentKept` |
| `EventPipeline_events` | 2 processes, 2 images, 3 files, 3 domains, host and project rules, 5 kernel steps, all queues of 1, 2 remembered keys | `SuppressibleWasDelivered`, `DeliveredAreEvaluated`, `AttributionExact`, `AlertsCapped`, `CorrelationsOneShot`, `ObservationsAccounted`, `DedupFIFO`; `ScopesIsolated`: one pass over the merged rules leaves each scope as its own rules would |
| `LogDelivery_retries` | a sender, 2 forced refreshes, 2 attempts, 5 time units | `SendReturnsInTime`, `SentIsStored`, `CacheMonotone`, `NothingForcedAfterClose`, `RefreshServes` |
| `CaptureHooks_samples` | two programs in a row over inputs around every limit | `HttpSampleExact`: method, host and path are those of this request; `CompleteOrFlagged`: a text field is whole or flagged (but for link targets and executed names, which are cut without a flag); `DnsPayloadLogical`: a payload holds bytes of the message only, in order, and all of a short one; `OnlySelectedText`: nothing old and nothing unselected leaves the kernel |

Deadlock is checked except in the last four, which stop at their bounds (`MaxVersion`
reached with everything unmapped, `MaxSamples`, `MaxTime`, `MaxEvents`) or at the end
of the Job, of the worker or of every send. The type invariant `TypeOK` of each module
also holds in these instances; the runs leave it out, the proofs of `KernelTracker`,
`JobRegistry`, `ManagerOutput`, `HttpUprobeWorker` and `CaptureHooks` have it.

Two runs show that the code does not do what a comment or a document says; they are
the "findings" of `PROJECT.json`.

| Run (cfg) | What fails |
| --- | --- |
| `JobRegistry_wired` | `RunningJobsAreWired`: a Job started between takeJob and RemoveJob of its predecessor loses its registration |
| `CaptureHooks_symlink` | `SymlinkTargetFlagged`: the target of a symbolic link that is as long as the field, or longer, is cut and not flagged (`bpf/file_hooks.bpf.h:254`), although `bpf/kernel_samples.h:40` says that overlong paths are |

Eight more configurations end in a violation as well. Each states a sentence of the
repository, and TLC shows how the code departs from it.

| Configuration | Sentence | What happens |
| --- | --- | --- |
| `KernelTracker_mirror` | "bind mirrors a cgroup -> Job attribution already accepted by KernelIO/eBPF" (`kerneltracker/job_tracking_cgroup.go:48`) | `MirrorFollowsKernel`: a RemoveJob overtakes an attach sample, and the mirror binds a cgroup the kernel no longer tracks |
| `KernelTracker_remove` | RemoveJob "Cleans up job state, cgroup bindings, staging entries, and process context" (`src/docs/developer-guide/agent.md:203`) | `RemovedJobsLeaveNothingTracked`: a RemoveJob overtakes a mkdir sample, and the new cgroup stays in `tracked_cgroups` |
| `JobRegistry_expired` | "FinalizeExpiredJobs synchronously finalizes jobs that have exceeded their TTL" (`jobregistry/finalize.go:53`) | `OnlyExpiredJobsReaped`: it takes a fresh Job that replaced the expired one |
| `JobRegistry_shutdown` | "On shutdown it finalizes all remaining jobs" (`agent.go:93`) | `ShutdownFinalizesAll`: the process exits with a Job stored after the snapshot, or half-way through its end |
| `JobRegistry_restart` | "bind the caller cgroup so routed events always see a resolved scope" (`jobregistry/host_start.go:18`) | `RoutedEventsAlwaysSeeScope`: an identity is started again while its former Job is still routed, and the new Job takes an event before it has a scope |
| `ManagerOutput_closed` | "A closed output reports success because the close path already drained the buffer" (`joblogs/manager_output.go`, Flush) | `FlushDelivers`: a flush reports success while the close has not drained anything |
| `EventPipeline_latescope` | "every suppressible key has one visible EventRecord for rule evaluation" (`kerneltracker/engine_effect.go:139`) | `SuppressibleVisibleToScopes`: a project scope that joins a running Job never sees the keys delivered before |
| `LogDelivery_overwrite` | "Retries must reuse the original value so the same batch overwrites the same object key" (`src/proto/cicd_sensor/manager/v1beta1/collector.proto:44`) | `RetryOverwrites`: every write appends a random suffix, and a batch sent again after a lost answer is a second object |

### Bounds

- Two jobs, a runner and a container below it are enough for a conflict over a cgroup,
  over a staged name and between parent and child: the container is tracked through
  its parent or through its name, whichever comes first. A ring of one or two samples overflows,
  and lets commands overtake both samples. `Grace` is one tick: only "not yet" and
  "over" differ.
- In `JobRegistry` two or three starts of one identity suffice for creator, attacher
  and successor; every kind of finalizer meets every other in `JobRegistry_ends`.
  A channel of one event is full after the first. `MaxFaults` bounds failing RemoveJobs.
- In `ManagerOutput` a channel of two requests is full in reachable states,
  and four records of sizes 1 and 2 with a threshold of 3 fill a batch exactly, fall
  short of it and exceed it.
- In `HttpUprobeWorker` one file and a limit of one target are enough for a full
  queue, a full ring, a rewritten file and an eviction; two processes let a mapping move by
  fork while a sweep has passed one of them.
- In `EventPipeline` two remembered keys and three files (one of them truncated, which
  has no key) wrap the ring; observation caps of 1 overflow at the second domain and
  process; five kernel steps reach a correlation on two hits and a fork with an exec.
- In `LogDelivery` a time unit is half of the base delay. Five of them hold a timeout, a
  delay and an expired token, and the budgets 2 and 5 end before and after the retry.
- In `CaptureHooks` field sizes are a few units and inputs are one below, at and one
  above each of them. The second program of a pair meets whatever the first left.
- Symmetry is used over jobs in the safety run of `KernelTracker`, over processes in
  `HttpUprobeWorker` and over refreshers in `LogDelivery`; none of these runs checks
  liveness.

### Fairness

- `KernelTracker`: the loop never stops reading a FIFO, so an input that is possible
  again and again is handled (strong fairness); effects run to their end; tickers
  keep firing; a scan and a delete do not fail for ever.
- `JobRegistry`: goroutines that can run do run. Nobody is forced to call or to
  cancel, and the flush of a streaming log may hang for ever.
- `ManagerOutput`: weak fairness for the worker, its timer and blocked callers; no
  caller has to call or to give up.
- The other modules state safety only and assume no fairness.

## Proofs

`KernelTracker` is proved for arbitrary sets of jobs, cgroups and names, an arbitrary
cgroup tree, and any ring size and grace period, from `ConstantsAssumption`: the set of
cgroups is finite, the sentinels are not members of the sets they stand beside, and the
other constants have their types.

| Theorem | Statement |
| --- | --- |
| `TypeCorrect` | `Spec => []TypeOK` |
| `IndexesAlwaysAgree` | `Spec => []IndexesAgree` |
| `OnlyGoneCgroupsRemoved` | `Spec => []RemovedCgroupsAreGone` |
| `QueueIsExact` | `Spec => []RemovedQueueExact` |
| `EndedJobsAreDrained` | `Spec => EndedOnlyWhenDrained` |
| `UntrackedByOwnRemoveJob` | `Spec => UntrackedOnlyByRemoveJob` |
| `KeepsOwnership` | `Spec => OwnershipKept` (refinement of `CgroupOwnership`) |

Its inductive invariant is `IInv`. `RemovedCgroupsAreGone` is not inductive: an
rmdir sample in the ring, or a scan, may mark a cgroup removed later. `IInv` adds
that an rmdir sample is only about a cgroup that is gone, that every cgroup of the
mirror, of a sample or of a scan has been born (`BornFirst`), that a cgroup that was
tracked before a scan and is missing from it does not exist (`SoundScan`; this is what
the `TrackedAt` comparison buys), and that a running effect holds only keys of its own
job (`EffectOwned`). Cgroup ids are never reused, so gone means gone for good. Each
action has a lemma `...Inv`, `NextInv` puts them together, and the action properties
follow from `IInv` and one step. The removal queue gets its own induction (`QueueStep`)
on `QueueExact`, which says the same as `RemovedQueueExact` entry by entry.

`EventPipeline` is proved for any processes, images, files, domains, rules, scopes, caps
and queue sizes and any limit of the deduplication, from `PipelineAssumption` and
`DedupLimitAssumption` (which give the constants their types) and `RulesAssumption`: the
ids of a scope's rules are unique, which `rule.Resolve` ensures, and a correlation asks for
at least one hit. The last is a limit of the model, not a check of the code: a condition
that already holds without a hit (`rule.x >= 0`) compiles, and since the evaluator looks at
correlations of both scopes as soon as any rule of either hits, `ScopesIsolated` would not
hold for it.

| Theorem | Statement |
| --- | --- |
| `RememberIsFIFO` | `remember` on the ring is what a bounded queue does: the oldest key makes room |
| `ConsistentAlways` | `Spec => []DedupConsistent`: map and ring hold the same keys, each once |
| `SuppressedWasDelivered` | `Spec => []SuppressibleWasDelivered` |
| `FIFOAlways` | `Spec => DedupFIFO` |
| `AttributedExactly` | `Spec => []AttributionExact` |
| `DeliveredIsEvaluated` | `Spec => []DeliveredAreEvaluated` |
| `AlertsStayCapped` | `Spec => []AlertsCapped` |
| `CorrelationsFireOnce` | `Spec => []CorrelationsOneShot` |
| `ScopesStayIsolated` | `Spec => ScopesIsolated` |
| `ObservationsAreAccounted` | `Spec => []ObservationsAccounted` |

There are five inductions, each on top of the ones before it.

- `IInv`, for the deduplication. The ring lemmas come first: `Ages` reads the ring from
  its oldest key, the slot that is overwritten is the head of `Ages`, and the modulus of
  `next` is resolved once (`Mod`, `ModRange`). `IInv` adds to the two properties that the
  process nodes and the channel hold values of their types, without which a key computed
  from a sample need not be a key. The step that matters is `emitEventRecord`: it
  remembers a key exactly when it appends the record, and a record leaves the channel
  only by being evaluated.
- `AInv`, for attribution. What a node says now is not what it will say when the sample at
  the end of the ring is handled. `Tells(r, n, q, m, v)` says that whoever applies the
  first `m` samples of `r` to the nodes `n` learns that `q` runs `v`: from its last
  fork or exec among them, or from its node if there is none (`Silent`). The invariant says
  that each exact sample is told by those before it and each traced process by the whole
  ring. A lost exec takes its process out of the traced ones, a backfill only fills a node
  that nothing exact depends on, and handling the head of the ring shifts `m` by one
  (`TellsTail`).
- `SInv`, for the scopes. `EvaluatedAlone` shows that the pass over the merged rules is,
  for each attached scope, `EvaluateAlone`; that needs `SInv` itself, because a hit in the
  other scope makes the evaluator look at all correlations, and only one-shot firing
  (`NoHitNoFire`) keeps those that are satisfied from firing again. `AloneKeeps` then does
  the arithmetic of caps and thresholds for one scope.
- `DInv`, for delivery: the counters balance, and what was delivered is what the channel
  holds plus what one of the scopes has counted, the one that was there from the start.
- `OInv`, for the observations: the tables are finite and within their caps, so that a
  full table stays exactly full and what was accounted for stays so.

`JobRegistry` is proved for any identities, any number of requests of every kind and any
channel capacity, from `RegistryAssumption` (types, and a sentinel that is no request).

| Theorem | Statement |
| --- | --- |
| `Invariance` | `Spec => []IInv`, types included |
| `StartsAreExclusive` | `Spec => []StartsExclusive` |
| `OneSummaryPerJob` | `Spec => []OneSummary` |
| `SummariesAreComplete` | `Spec => []SummaryComplete` |
| `ScopesAreFinalized` | `Spec => []ScopesFinalizedWithJob` |
| `JobsLeaveOnlyTakenOrUnwound` | `Spec => LeavesOnlyWhenTakenOrUnwound` |
| `FirstJobSeesScope` | `Spec => RoutedEventsSeeScope` |

`Reserved` ties the reservation to the position of its start: a start holds it to its last
step, and until it stores its Job the identity has none. `Untaken` and `Finalizing` make
`takeJob` the only way into an end: a Job in the registry has no finalizer, and a finalizer
owns its Job and has been through the stages before. `LogsClosed` needs that a scope is never
built again after it was attached. `QuietAtFirst` is what remains of "bind last": nothing
routes events to an identity until its first Job has its scope. It is about the first Job
only; for a successor it is false (`JobRegistry_restart`).

`ManagerOutput` is proved for any number of emits and flushers, any record sizes, threshold,
channel capacity and number of failing sends, from `OutputAssumption`. It allows one closer:
the finalizer that took the Job closes its outputs, and there is one (`OneSummaryPerJob`).

| Theorem | Statement |
| --- | --- |
| `Invariance` | `Spec => []IInv`, types included |
| `CloseIsComplete` | `Spec => []CloseDelivers` |
| `FlushIsComplete` | `Spec => []FlushAnswered` |
| `ImplementsLogStream` | `Spec => InOrder` (refinement of `LogStream`) |

`Held` says that the accepted records the manager lacks are in the buffer or queued behind
it, in order, and `Gapless` that those it has are the first ones. A failed send may have
stored the batch or not; both keep `Held`, because the buffer is kept. `Waiting` has what a
close needs: only flush requests can be behind it in the channel, since `closed` is set
under the mutex that Emit holds while it enqueues. `Ahead` says the same of a flush and what
was accepted before it.

`HttpUprobeWorker` is proved for any files, versions, processes, cgroups, queue sizes and
target cap, any nonempty sequence of symbols, and any limit of at least two missing scans
(the code has two), from `UprobeAssumption`.

| Theorem | Statement |
| --- | --- |
| `Invariance` | `Spec => []IInv`, types included |
| `CachedKeysAreJustified` | `Spec => []CacheJustified` |
| `ProbesAreOwned` | `Spec => []ProbesOwned` |
| `OnlyUnmappedIsReclaimed` | `Spec => ReclaimOnlyUnmapped` |
| `FreshAttachmentsAreKept` | `Spec => FreshAttachmentKept` |
| `TargetsStayCapped` | `Spec => []TargetsCapped` |

`ScanCovers` is the loop invariant of a sweep that has not failed: a mapping in the requested
cgroups has been observed, belongs to a process still to be read, or came after the request.
`MissedOnce` is why the limit must exceed one: of the sweeps requested before an attachment
only one is left to run when it is made, since the channel holds one request and the worker
is busy attaching; every later one is bound to see the mapping. `RoomInHand` and the induction
on `CapInv` bridge the steps between the check for a known file or a full table
and the insertion: one worker attaches, so nothing is added in between.

`LogDelivery` is proved for any senders, refreshers, lifetimes, timeouts, delays and
attempts, from `TokenAssumption` and `DeliveryAssumption`.

| Theorem | Statement |
| --- | --- |
| `InTimeAlways` | `Spec => []SendReturnsInTime` |
| `StoredAlways` | `Spec => []SentIsStored` |
| `Monotone` | `Spec => CacheMonotone` |
| `NotForcedAfterClose` | `Spec => NothingForcedAfterClose` |
| `Serves` | `Spec => RefreshServes` |

The inductive invariant has three parts. `TokenInv` says that only the flight that holds
`acquireMu` mints (`OneMints`) and that the token being minted is no older than the
cached one, nor the cached one older than the last forced refresh (`CacheOrdered`): so an
install never goes back in time. `WaitTypes` bounds what callers wait for. `SendSafe`
keeps each send within its deadline while it waits for a token, an answer or a delay;
the clock does not pass a deadline that a sender has yet to notice, because the code
selects on its context in every wait.

`CaptureHooks` is proved for any programs run in any order, any texts and any sizes of fields,
prefix, payload and ring.

| Theorem | Statement |
| --- | --- |
| `CaptureStaysInBounds` | `Spec => []TypeOK` |
| `HttpSamplesAreExact` | `Spec => []HttpSampleExact` |
| `FieldsAreCompleteOrFlagged` | `Spec => []CompleteOrFlagged` |
| `DnsPayloadsAreLogical` | `Spec => []DnsPayloadLogical` |
| `SamplesShowOnlySelectedText` | `Spec => []OnlySelectedText` |

The assumptions are of three kinds. `RingAssumption`, `HttpAssumption` and `HooksAssumption`
relate the sizes: the shortest request line the parser looks at fits the prefix, the prefix
fits a field, and a payload holds two chunks (512 and 256 bytes in the code). `HttpInputs` and
`HookInputs` say that inputs are texts. `Labelling` is about `OnlySelectedText` alone and says
what its units mean: `"x"` stands for what a process sends besides the selected text, so
it occurs in an HTTP/1 request only behind the end of the path and in no `Host:` line of the
headers, and in the other inputs in no value that a program selects. `"old"` and `"over"` stand
for memory nobody asked for and are restricted in the same way. `"fault"` may be in a value that
is validated or read in one piece; an unreadable DNS segment is one that is not `ok`.

The inductive invariant is `IInv`. About the ring it says that every record there satisfies
all four properties (`RingGood`); a record does not change once it is submitted, so each program
only has to account for its own. About `http_scratch` it says no more than that its fields have
their types and its offsets lie inside the prefix (`ScratchFits`). That is the point of
`HttpSampleExact`: the programs before leave anything there, and `CaptureHolds` shows that
`http_capture_user_buffer` replaces all that the parse reads. `Holds(s, t)` says that the
scratch map `s` holds the text `t`; each of the four parse steps has a lemma about what
it finds in `t` (the end of the line, the end of the target, the first `Host:` line before the
empty line, the end of its value), and put together they are what `ExpectedFields` says of the
request. For `fill_dns_payload_from_iov_array`, `AppendedIs` shows that an iteration adds the bytes it counts for, although it copies a whole chunk, and
`FilledIsPart` and `FilledIsWhole` are the inductions over the segments: what is written is, in
order, part of the segments passed, and all of them while everything fits.

Texts have any length, so these lemmas need induction over data. The induction theorems of the
library take a predicate as a parameter, which the provers cannot instantiate; the proofs use
the order of the natural numbers instead (`WellOrdered`): a nonempty set of numbers has
a least member, so the set of indexes at which a statement fails, if it were not empty, would
have a first one. `Induction` and `Recursion` state this once, for sets and for functions that
are defined from their predecessor.

Only model-checked:

- liveness under fairness (`StaleCgroupsPurged`, `DrainedJobsEnd`, `TakenJobsAreSummarized`,
  `WaitersReturn`, `SweepReachesEveryJob`, `RecordsDelivered`, `CallersReturn`), which the
  prover cannot treat: it has no fairness and no ENABLED.

Every other property of the passing runs has a theorem.

## Not modelled

- `bpf/include` (vmlinux.h and the libbpf headers): generated or vendored declarations; they are
  most of the C lines of the repository and have no behaviour.
- Formatting of logs and reports, decoding of samples in the agent, CEL, cloud sinks,
  token verification, command lines and generated bindings: data without control, or
  external libraries.
- Loading of BPF programs and access to `/proc`: I/O whose failures appear as failing
  actions. Capacity limits of the BPF hash maps are only failing updates.
- The NRI plugin and the dockerd proxy turn a container request into one staging call,
  which `JobRegistry` has; their parsing keeps no state.
- Rule resolution, the baseline cache and the host configuration cache: a start sees
  them as an answer that succeeds or fails.
- Exits of processes: no program reports them (`src/docs/developer-guide/ebpf-runtime.md:49`
  lists one), so `recordExit` and its purge have no input, and nodes stay until the Job is
  removed. A process is PID and start time, so a PID that is reused between a sample and
  the kill of a terminate rule does not occur.
- A value in user memory that changes between its validation and its second read, and
  programs that nest on one CPU and share a per-CPU scratch map.
- Rules that terminate log every hit, also beyond `max_alerts`; `AlertsCapped` states
  this as the code does it (`src/docs/user-guide/rule-set.md:118` has no exception).

## What could follow

A composition of `JobRegistry` with `EventPipeline` and `ManagerOutput`, in which the
single closer and the scope that is set before the first event are results of one module
and no assumptions of another; a second identity for `EventPipeline`, so that the ring is
shared by name and not by nondeterministic loss.
