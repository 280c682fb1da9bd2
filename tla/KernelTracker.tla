--------------------------- MODULE KernelTracker ---------------------------
(***************************************************************************)
(* Cgroup tracking: the cgroup hooks and maps of the eBPF programs, the    *)
(* ring buffer between kernel and agent, and the single-owner loop of      *)
(* internal/agent/kerneltracker with the Job mirror it keeps.              *)
(*                                                                         *)
(* Three kinds of actor interleave.  The kernel creates, joins and removes *)
(* cgroups; its hooks update the two BPF maps at once and report through   *)
(* the ring buffer.  The engine loop takes one input at a time (a sample,  *)
(* a command of the API, a purge tick, a scan result).  The liveness       *)
(* scanner walks the cgroup file system in a goroutine of its own.         *)
(*                                                                         *)
(* inputCh is not a variable.  Samples stay in FIFO order through ring     *)
(* buffer and inputCh, and a command may overtake the samples still in the *)
(* ring buffer, so "head of the ring or any command" has the same          *)
(* behaviours.  A command that is rejected changes nothing: its error      *)
(* paths are the guards of the action.                                     *)
(***************************************************************************)
EXTENDS Naturals, Sequences, FiniteSets

CONSTANTS
    Jobs,        \* job identities
    NoJob,       \* "not found" in a map keyed to a job
    Cgroups,     \* cgroup ids; the kernel never reuses one
    Root,        \* stands for every cgroup outside Cgroups
    Basenames,   \* directory names of containers, which may be staged
    OtherName,   \* any directory name that is not staged
    Parent,      \* Parent[c]: the cgroup that c is created under
    BaseOf,      \* BaseOf[c]: the directory name of c
    StartCgroups,\* cgroups in which a start request may find its process
    Moves,       \* moves <<src, dst>> of a task between cgroups
    HasScanner,  \* the agent found the cgroup v2 root
    RingSize,    \* samples the ring buffer and inputCh hold
    Grace        \* cgroupRemovalGracePeriod, in clock ticks

ASSUME ConstantsAssumption ==
    /\ IsFiniteSet(Cgroups)
    /\ NoJob \notin Jobs
    /\ Root \notin Cgroups
    /\ Parent \in [Cgroups -> Cgroups \cup {Root}]
    /\ BaseOf \in [Cgroups -> Basenames \cup {OtherName}]
    /\ OtherName \notin Basenames
    /\ StartCgroups \subseteq Cgroups
    /\ Moves \subseteq Cgroups \X Cgroups
    /\ HasScanner \in BOOLEAN
    /\ RingSize \in Nat
    /\ Grace \in Nat

VARIABLES
    \* the kernel
    live,                \* cgroups that exist
    born,                \* cgroups that have ever existed
    trackedCgroups,      \* BPF map tracked_cgroups (its keys)
    stagingMap,          \* BPF map staging_map (its keys)
    ring,                \* samples submitted and not yet handled
    \* jobTrackingState
    jobs,
    jobByCgroup,
    cgroupsByJob,        \* state of each trackedCgroup, "none" if absent
    removedAge,          \* now - RemovedAt, saturated at Grace
    removedCgroupQueue,
    stagingByBasename,
    stagingByJob,
    ended,               \* jobs reported to OnJobEnded since they registered
    effect,              \* the kernel-map effect the loop is in the middle of
    \* the liveness scanner
    scan,                \* the walk in progress
    reconcile            \* commandReconcileCgroupLiveness waiting for the loop

kernelVars  == <<live, born, trackedCgroups, stagingMap>>
cgroupVars  == <<jobByCgroup, cgroupsByJob, removedAge, removedCgroupQueue>>
stagingVars == <<stagingByBasename, stagingByJob>>
scanVars    == <<scan, reconcile>>
vars == <<kernelVars, ring, jobs, cgroupVars, stagingVars, ended, effect, scanVars>>

\* The ways to list the elements of S, each once.
Arrangements(S) ==
    {f \in [1 .. Cardinality(S) -> S] :
        /\ \A i, k \in 1 .. Cardinality(S) : f[i] = f[k] => i = k
        /\ \A x \in S : \E i \in 1 .. Cardinality(S) : f[i] = x}

JobOrNone == Jobs \cup {NoJob}
QueueEntry == [job : Jobs, cgroup : Cgroups]
CgroupState == {"none", "active", "removed"}

Sample == [kind : {"mkdir", "attach", "rmdir"}, cgroup : Cgroups,
           from : Cgroups \cup {Root}, stagingMatched : BOOLEAN]
MkdirSample(c, m)  == [kind |-> "mkdir", cgroup |-> c, from |-> Parent[c], stagingMatched |-> m]
AttachSample(s, d) == [kind |-> "attach", cgroup |-> d, from |-> s, stagingMatched |-> FALSE]
RmdirSample(c)     == [kind |-> "rmdir", cgroup |-> c, from |-> Root, stagingMatched |-> FALSE]

Idle == [kind |-> "idle", job |-> NoJob, cgroups |-> {}, staging |-> {}]
Effect == [kind : {"idle", "removeJob"}, job : JobOrNone,
           cgroups : SUBSET Cgroups, staging : SUBSET Basenames]

\* `before` are the cgroups with TrackedAt not after ScanStartedAt; `seen` is
\* the live set at the start of the walk, then LiveCgroupIDs; `age` is
\* now - CheckedAt.  Timestamps occur in the code only in these comparisons.
NoScan == [on |-> FALSE, before |-> {}, seen |-> {}, age |-> 0]
Scan == [on : BOOLEAN, before : SUBSET Cgroups, seen : SUBSET Cgroups, age : 0 .. Grace]

Init ==
    /\ live \in SUBSET {c \in Cgroups : Parent[c] = Root}
    /\ born = live
    /\ trackedCgroups = {} /\ stagingMap = {}
    /\ ring = <<>>
    /\ jobs = {}
    /\ jobByCgroup = [c \in Cgroups |-> NoJob]
    /\ cgroupsByJob = [j \in Jobs |-> [c \in Cgroups |-> "none"]]
    /\ removedAge = [c \in Cgroups |-> 0]
    /\ removedCgroupQueue = <<>>
    /\ stagingByBasename = [b \in Basenames |-> NoJob]
    /\ stagingByJob = [j \in Jobs |-> {}]
    /\ ended = {}
    /\ effect = Idle
    /\ scan = NoScan
    /\ reconcile = NoScan

-----------------------------------------------------------------------------
(* The cgroup hooks (bpf/cgroup_hooks.bpf.h).                               *)

\* RESERVE_SAMPLE and bpf_ringbuf_submit: a full ring loses the sample, after
\* the maps have been changed.
Submit(sample) ==
    ring' = IF Len(ring) < RingSize THEN Append(ring, sample) ELSE ring

\* bpf_map_update_elem fails: the hook returns before the sample.
HookMapUpdateFails == UNCHANGED <<trackedCgroups, stagingMap, ring>>

MkdirTracked(c) ==
    /\ Parent[c] \in trackedCgroups
    /\ \/ /\ trackedCgroups' = trackedCgroups \cup {c}
          /\ Submit(MkdirSample(c, FALSE))
          /\ UNCHANGED stagingMap
       \/ HookMapUpdateFails

MkdirStaged(c) ==
    /\ Parent[c] \notin trackedCgroups
    /\ BaseOf[c] \in stagingMap
    /\ \/ /\ trackedCgroups' = trackedCgroups \cup {c}
          /\ stagingMap' = stagingMap \ {BaseOf[c]}
          /\ Submit(MkdirSample(c, TRUE))
       \/ HookMapUpdateFails

MkdirForeign(c) ==
    /\ Parent[c] \notin trackedCgroups
    /\ BaseOf[c] \notin stagingMap
    /\ UNCHANGED <<trackedCgroups, stagingMap, ring>>

CgroupMkdir(c) ==
    /\ c \notin born
    /\ Parent[c] \in live \cup {Root}
    /\ live' = live \cup {c}
    /\ born' = born \cup {c}
    /\ MkdirTracked(c) \/ MkdirStaged(c) \/ MkdirForeign(c)
    /\ UNCHANGED <<jobs, cgroupVars, stagingVars, ended, effect, scanVars>>

\* A task moves from src to dst.  An untracked source is not of interest.
CgroupAttachTask(src, dst) ==
    /\ <<src, dst>> \in Moves
    /\ src \in live /\ dst \in live
    /\ src \in trackedCgroups
    /\ \/ /\ trackedCgroups' = trackedCgroups \cup {dst}
          /\ Submit(AttachSample(src, dst))
          /\ UNCHANGED stagingMap
       \/ dst \notin trackedCgroups /\ HookMapUpdateFails
    /\ UNCHANGED <<live, born, jobs, cgroupVars, stagingVars, ended, effect, scanVars>>

\* rmdir reports and leaves tracked_cgroups to the agent.
CgroupRmdir(c) ==
    /\ c \in live
    /\ \A d \in live : Parent[d] # c
    /\ live' = live \ {c}
    /\ IF c \in trackedCgroups THEN Submit(RmdirSample(c)) ELSE UNCHANGED ring
    /\ UNCHANGED <<born, trackedCgroups, stagingMap, jobs, cgroupVars,
                   stagingVars, ended, effect, scanVars>>

-----------------------------------------------------------------------------
(* The Job mirror (job_tracking_cgroup.go).                                 *)

JobForCgroup(c) == IF c \in Cgroups THEN jobByCgroup[c] ELSE NoJob
Mirrored(c) == jobByCgroup[c] # NoJob
CgroupsOf(j) == {c \in Cgroups : cgroupsByJob[j][c] # "none"}
ActiveOf(byJob, j) == {c \in Cgroups : byJob[j][c] = "active"}

\* Mutant of Bind: the last binding wins.
BindSteals(j, c) ==
    /\ jobByCgroup' = [jobByCgroup EXCEPT ![c] = j]
    /\ cgroupsByJob' = [cgroupsByJob EXCEPT ![j][c] = "active"]
    /\ scan' = [scan EXCEPT !.before = @ \ {c}]
    /\ reconcile' = [reconcile EXCEPT !.before = @ \ {c}]

\* bindAt: an existing owner wins, and a removed cgroup is not reactivated.
\* A new binding carries a fresh TrackedAt.
Bind(j, c) ==
    IF Mirrored(c)
    THEN UNCHANGED <<jobByCgroup, cgroupsByJob, scanVars>>
    ELSE /\ jobByCgroup' = [jobByCgroup EXCEPT ![c] = j]
         /\ cgroupsByJob' = [cgroupsByJob EXCEPT ![j][c] = "active"]
         /\ scan' = [scan EXCEPT !.before = @ \ {c}]
         /\ reconcile' = [reconcile EXCEPT !.before = @ \ {c}]

\* Mutant of MarkRemoved: the cgroup is not queued for the purge.
MarkRemovedUnqueued(S, order, age) ==
    LET byJob == [j \in Jobs |-> [c \in Cgroups |->
                    IF c \in S /\ jobByCgroup[c] = j THEN "removed" ELSE cgroupsByJob[j][c]]]
    IN  /\ cgroupsByJob' = byJob
        /\ removedAge' = [c \in Cgroups |-> IF c \in S THEN age ELSE removedAge[c]]
        /\ ended' = ended \cup {j \in Jobs : /\ \E c \in S : jobByCgroup[c] = j
                                             /\ ActiveOf(byJob, j) = {}}
        /\ UNCHANGED <<jobByCgroup, removedCgroupQueue>>

\* markTrackedCgroupRemoved for the active cgroups of S, in the order `order`,
\* `age` ticks after the removal time, with the notifyJobEnded effects of the
\* jobs this drains.
MarkRemoved(S, order, age) ==
    LET byJob == [j \in Jobs |-> [c \in Cgroups |->
                    IF c \in S /\ jobByCgroup[c] = j THEN "removed" ELSE cgroupsByJob[j][c]]]
        Owner(c) == jobByCgroup[c]
    IN  /\ cgroupsByJob' = byJob
        /\ removedAge' = [c \in Cgroups |-> IF c \in S THEN age ELSE removedAge[c]]
        /\ removedCgroupQueue' = removedCgroupQueue \o
              [i \in 1 .. Len(order) |-> [job |-> Owner(order[i]), cgroup |-> order[i]]]
        /\ ended' = ended \cup {j \in Jobs : /\ \E c \in S : Owner(c) = j
                                             /\ ActiveOf(byJob, j) = {}}
        /\ UNCHANGED jobByCgroup

Unbind(S) ==
    /\ jobByCgroup' = [c \in Cgroups |-> IF c \in S THEN NoJob ELSE jobByCgroup[c]]
    /\ cgroupsByJob' = [j \in Jobs |-> [c \in Cgroups |->
                          IF c \in S /\ jobByCgroup[c] = j THEN "none" ELSE cgroupsByJob[j][c]]]
    /\ removedAge' = [c \in Cgroups |-> IF c \in S THEN 0 ELSE removedAge[c]]

-----------------------------------------------------------------------------
(* Samples (kernel_sample_cgroup_handle.go).  The loop handles an input only *)
(* when no effect is in progress.                                           *)

TakeSample(kind) ==
    /\ effect = Idle
    /\ ring # <<>>
    /\ Head(ring).kind = kind
    /\ ring' = Tail(ring)
    /\ UNCHANGED <<kernelVars, jobs, effect>>

\* removeStaging of the consumed basename, only when the bind succeeded.
PromoteStagedCgroup(b, c) ==
    LET j == IF b \in Basenames THEN stagingByBasename[b] ELSE NoJob
    IN  IF j = NoJob
        THEN UNCHANGED <<jobByCgroup, cgroupsByJob, stagingVars, scanVars>>
        ELSE /\ Bind(j, c)
             /\ IF jobByCgroup[c] \in {NoJob, j}
                THEN /\ stagingByBasename' = [stagingByBasename EXCEPT ![b] = NoJob]
                     /\ stagingByJob' = [stagingByJob EXCEPT ![j] = @ \ {b}]
                ELSE UNCHANGED stagingVars

HandleMkdirSample ==
    /\ TakeSample("mkdir")
    /\ LET s == Head(ring)
           parentJob == JobForCgroup(s.from)
       IN  \/ parentJob # NoJob /\ Bind(parentJob, s.cgroup) /\ UNCHANGED stagingVars
           \/ /\ parentJob = NoJob /\ s.stagingMatched
              /\ PromoteStagedCgroup(BaseOf[s.cgroup], s.cgroup)
           \/ /\ parentJob = NoJob /\ ~s.stagingMatched
              /\ UNCHANGED <<jobByCgroup, cgroupsByJob, stagingVars, scanVars>>
    /\ UNCHANGED <<removedAge, removedCgroupQueue, ended>>

HandleAttachSample ==
    /\ TakeSample("attach")
    /\ LET s == Head(ring)
       IN  IF JobForCgroup(s.from) # NoJob
           THEN Bind(JobForCgroup(s.from), s.cgroup)
           ELSE UNCHANGED <<jobByCgroup, cgroupsByJob, scanVars>>
    /\ UNCHANGED <<removedAge, removedCgroupQueue, stagingVars, ended>>

\* Mutant of HandleRmdirSample: without the "already removed" return.
HandleRmdirAgain ==
    /\ TakeSample("rmdir")
    /\ LET c == Head(ring).cgroup
       IN  IF Mirrored(c) THEN MarkRemoved({c}, <<c>>, 0) ELSE UNCHANGED <<cgroupVars, ended>>
    /\ UNCHANGED <<stagingVars, scanVars>>

HandleRmdirSample ==
    /\ TakeSample("rmdir")
    /\ LET c == Head(ring).cgroup
       IN  IF Mirrored(c) /\ cgroupsByJob[jobByCgroup[c]][c] = "active"
           THEN MarkRemoved({c}, <<c>>, 0)
           ELSE UNCHANGED <<cgroupVars, ended>>
    /\ UNCHANGED <<stagingVars, scanVars>>

-----------------------------------------------------------------------------
(* Commands (job_tracking.go) and their effects (engine_effect.go).         *)

\* Registering a registered job returns its channel and changes nothing.
RegisterJob(j) ==
    /\ effect = Idle
    /\ j \notin jobs
    /\ jobs' = jobs \cup {j}
    /\ ended' = ended \ {j}
    /\ UNCHANGED <<kernelVars, ring, cgroupVars, stagingVars, effect, scanVars>>

\* The caller resolved c from a process, so c has existed; it may be gone now.
BindCgroup(j, c) ==
    /\ effect = Idle
    /\ c \in born \cap StartCgroups
    /\ j \in jobs
    /\ jobByCgroup[c] \in {NoJob, j}
    /\ trackedCgroups' = trackedCgroups \cup {c}
    /\ Bind(j, c)
    /\ UNCHANGED <<live, born, stagingMap, ring, jobs, removedAge,
                   removedCgroupQueue, stagingVars, ended, effect>>

\* Nothing here asks whether j is registered.
StageCgroupBasename(b, j) ==
    /\ effect = Idle
    /\ stagingByBasename[b] \in {NoJob, j}
    /\ stagingMap' = stagingMap \cup {b}
    /\ stagingByBasename' = [stagingByBasename EXCEPT ![b] = j]
    /\ stagingByJob' = [stagingByJob EXCEPT ![j] = @ \cup {b}]
    /\ UNCHANGED <<live, born, trackedCgroups, ring, jobs, cgroupVars, ended,
                   effect, scanVars>>

\* handleRemoveJob: collect the job's map keys.  An unregistered job has
\* nothing collected and nothing removed.
RemoveJob(j) ==
    /\ effect = Idle
    /\ j \in jobs
    /\ effect' = [kind |-> "removeJob", job |-> j,
                  cgroups |-> CgroupsOf(j), staging |-> stagingByJob[j]]
    /\ UNCHANGED <<kernelVars, ring, jobs, cgroupVars, stagingVars, ended, scanVars>>

\* deleteJobKernelMapEntries deletes one key at a time, cgroups first, while
\* the hooks keep running.
DeleteTrackedKey ==
    /\ effect.kind = "removeJob"
    /\ \E c \in effect.cgroups :
          /\ trackedCgroups' = trackedCgroups \ {c}
          /\ effect' = [effect EXCEPT !.cgroups = @ \ {c}]
    /\ UNCHANGED <<live, born, stagingMap, ring, jobs, cgroupVars, stagingVars,
                   ended, scanVars>>

DeleteStagingKey ==
    /\ effect.kind = "removeJob"
    /\ effect.cgroups = {}
    /\ \E b \in effect.staging :
          /\ stagingMap' = stagingMap \ {b}
          /\ effect' = [effect EXCEPT !.staging = @ \ {b}]
    /\ UNCHANGED <<live, born, trackedCgroups, ring, jobs, cgroupVars,
                   stagingVars, ended, scanVars>>

\* A failed delete abandons the removal: the mirror keeps the whole job.
DeleteKeyFails ==
    /\ effect.kind = "removeJob"
    /\ effect.cgroups \cup effect.staging # {}
    /\ effect' = Idle
    /\ UNCHANGED <<live, born, trackedCgroups, stagingMap, ring, jobs, cgroupVars,
                   stagingVars, ended, scanVars>>

\* removeJob and removeCgroupAndStaging, after every key is deleted.  The queue
\* keeps the entries of the other jobs, in their order.
FinishRemoveJob ==
    /\ effect.kind = "removeJob"
    /\ effect.cgroups \cup effect.staging = {}
    /\ LET j == effect.job IN
          /\ jobs' = jobs \ {j}
          /\ jobByCgroup' = [c \in Cgroups |-> IF c \in CgroupsOf(j) THEN NoJob
                                               ELSE jobByCgroup[c]]
          /\ cgroupsByJob' = [cgroupsByJob EXCEPT ![j] = [c \in Cgroups |-> "none"]]
          /\ removedAge' = [c \in Cgroups |-> IF c \in CgroupsOf(j) THEN 0 ELSE removedAge[c]]
          /\ \E f \in Arrangements({i \in 1 .. Len(removedCgroupQueue) :
                                       removedCgroupQueue[i].job # j}) :
                /\ \A i, k \in DOMAIN f : i < k => f[i] < f[k]
                /\ removedCgroupQueue' = [i \in DOMAIN f |-> removedCgroupQueue[f[i]]]
          /\ stagingByBasename' = [b \in Basenames |-> IF b \in stagingByJob[j] THEN NoJob
                                                       ELSE stagingByBasename[b]]
          /\ stagingByJob' = [stagingByJob EXCEPT ![j] = {}]
          /\ ended' = ended \ {j}
    /\ effect' = Idle
    /\ UNCHANGED <<kernelVars, ring, scanVars>>

-----------------------------------------------------------------------------
(* The purge tick (handlePurgeTick).  The hooks can neither enter nor leave  *)
(* a cgroup that is gone, so the deletes are one step.                       *)

\* expiredRemovedCgroups: the longest prefix of the queue that is expired.
Expired(e) ==
    /\ cgroupsByJob[e.job][e.cgroup] = "removed"
    /\ removedAge[e.cgroup] = Grace

ExpiredPrefix(n) ==
    /\ \A i \in 1 .. n : Expired(removedCgroupQueue[i])
    /\ n < Len(removedCgroupQueue) => ~Expired(removedCgroupQueue[n + 1])

QueuedUpTo(n) == {c \in Cgroups : \E i \in 1 .. n : removedCgroupQueue[i].cgroup = c}

\* The candidates purgeRemovedCgroups finds still removed and of the same job.
StillRemoved(n) ==
    {c \in QueuedUpTo(n) :
        /\ Mirrored(c)
        /\ cgroupsByJob[jobByCgroup[c]][c] = "removed"
        /\ \E i \in 1 .. n : removedCgroupQueue[i] = [job |-> jobByCgroup[c], cgroup |-> c]}

PurgeTick ==
    /\ effect = Idle
    /\ \E n \in 1 .. Len(removedCgroupQueue) :
          /\ ExpiredPrefix(n)
          /\ trackedCgroups' = trackedCgroups \ QueuedUpTo(n)
          /\ Unbind(StillRemoved(n))
          /\ removedCgroupQueue' = SubSeq(removedCgroupQueue, n + 1, Len(removedCgroupQueue))
    /\ UNCHANGED <<live, born, stagingMap, ring, jobs, stagingVars, ended, effect,
                   scanVars>>

\* The delete of the k-th key fails; the mirror is left for the next tick.
PurgeTickFails ==
    /\ effect = Idle
    /\ \E n \in 1 .. Len(removedCgroupQueue) :
          /\ ExpiredPrefix(n)
          /\ \E k \in 1 .. n : trackedCgroups' = trackedCgroups \ QueuedUpTo(k - 1)
    /\ UNCHANGED <<live, born, stagingMap, ring, jobs, cgroupVars, stagingVars, ended,
                   effect, scanVars>>

-----------------------------------------------------------------------------
(* The liveness scanner (job_tracking_cgroup_liveness*.go).                 *)

\* scanStartedAt is taken before the walk.
StartScan ==
    /\ HasScanner /\ ~scan.on
    /\ scan' = [on |-> TRUE, before |-> {c \in Cgroups : Mirrored(c)}, seen |-> live, age |-> 0]
    /\ UNCHANGED <<kernelVars, ring, jobs, cgroupVars, stagingVars, ended, effect, reconcile>>

\* The walk sees a cgroup that exists throughout; one that came or went during
\* the walk it may see or miss.
FinishScan ==
    /\ scan.on /\ ~reconcile.on
    /\ \E S \in SUBSET ((scan.seen \cup live) \ (scan.seen \cap live)) :
          reconcile' = [scan EXCEPT !.seen = (scan.seen \cap live) \cup S]
    /\ scan' = NoScan
    /\ UNCHANGED <<kernelVars, ring, jobs, cgroupVars, stagingVars, ended, effect>>

\* Any walk error but a child's ENOENT abandons the scan.
AbortScan ==
    /\ scan.on
    /\ scan' = NoScan
    /\ UNCHANGED <<kernelVars, ring, jobs, cgroupVars, stagingVars, ended, effect, reconcile>>

\* Mutants of Vanished: without the TrackedAt comparison, and a reconcile that
\* never finds anything.
VanishedAnyAge ==
    {c \in Cgroups \ reconcile.seen :
        Mirrored(c) /\ cgroupsByJob[jobByCgroup[c]][c] = "active"}

VanishedNever == {}

Vanished ==
    {c \in reconcile.before \ reconcile.seen :
        Mirrored(c) /\ cgroupsByJob[jobByCgroup[c]][c] = "active"}

\* The Go maps of the mirror are iterated in any order.
ReconcileCgroupLiveness ==
    /\ effect = Idle
    /\ reconcile.on
    /\ \E o \in Arrangements(Vanished) : MarkRemoved(Vanished, o, reconcile.age)
    /\ reconcile' = NoScan
    /\ UNCHANGED <<kernelVars, ring, jobs, stagingVars, effect, scan>>

Older(age) == IF age < Grace THEN age + 1 ELSE age

\* Time passes.
Tick ==
    /\ removedAge' = [c \in Cgroups |->
          IF \E j \in Jobs : cgroupsByJob[j][c] = "removed" THEN Older(removedAge[c])
          ELSE removedAge[c]]
    /\ reconcile' = IF reconcile.on THEN [reconcile EXCEPT !.age = Older(@)] ELSE reconcile
    /\ UNCHANGED <<kernelVars, ring, jobs, jobByCgroup, cgroupsByJob, removedCgroupQueue,
                   stagingVars, ended, effect, scan>>

Hooks ==
    \/ \E c \in Cgroups : CgroupMkdir(c) \/ CgroupRmdir(c)
    \/ \E s, d \in Cgroups : CgroupAttachTask(s, d)

Commands ==
    \E j \in Jobs :
        \/ RegisterJob(j) \/ RemoveJob(j)
        \/ \E c \in Cgroups : BindCgroup(j, c)
        \/ \E b \in Basenames : StageCgroupBasename(b, j)

RunEffect == DeleteTrackedKey \/ DeleteStagingKey \/ DeleteKeyFails \/ FinishRemoveJob

HandleSample == HandleMkdirSample \/ HandleAttachSample \/ HandleRmdirSample

Scanner == StartScan \/ FinishScan \/ AbortScan

Next ==
    \/ Hooks \/ Commands \/ RunEffect \/ HandleSample
    \/ PurgeTick \/ PurgeTickFails
    \/ Scanner \/ ReconcileCgroupLiveness \/ Tick

Spec == Init /\ [][Next]_vars

-----------------------------------------------------------------------------
(* Properties.                                                              *)

TypeOK ==
    /\ live \in SUBSET Cgroups /\ born \in SUBSET Cgroups
    /\ trackedCgroups \in SUBSET Cgroups /\ stagingMap \in SUBSET Basenames
    /\ ring \in Seq(Sample)
    /\ jobs \in SUBSET Jobs /\ ended \in SUBSET Jobs
    /\ jobByCgroup \in [Cgroups -> JobOrNone]
    /\ cgroupsByJob \in [Jobs -> [Cgroups -> CgroupState]]
    /\ removedAge \in [Cgroups -> 0 .. Grace]
    /\ removedCgroupQueue \in Seq(QueueEntry)
    /\ stagingByBasename \in [Basenames -> JobOrNone]
    /\ stagingByJob \in [Jobs -> SUBSET Basenames]
    /\ effect \in Effect
    /\ scan \in Scan /\ reconcile \in Scan

\* The forward and the reverse index of cgroups agree, and so do those of
\* staged basenames: jobByCgroup with cgroupsByJob and stagingByBasename with
\* stagingByJob, across binds, promotions, purges and RemoveJob.
IndexesAgree ==
    /\ \A c \in Cgroups, j \in Jobs : jobByCgroup[c] = j <=> cgroupsByJob[j][c] # "none"
    /\ \A b \in Basenames, j \in Jobs : stagingByBasename[b] = j <=> b \in stagingByJob[j]

\* removedCgroupQueue holds each removed cgroup of the mirror exactly once and
\* nothing else, although an rmdir sample and a scan may both report it and a
\* RemoveJob may drop it: so no entry blocks the prefix that
\* expiredRemovedCgroups takes, and no removed cgroup is forgotten.
RemovedQueueExact ==
    LET q == removedCgroupQueue IN
    /\ \A i, k \in 1 .. Len(q) : q[i] = q[k] => i = k
    /\ {q[i] : i \in 1 .. Len(q)} =
          {e \in QueueEntry : cgroupsByJob[e.job][e.cgroup] = "removed"}

\* No cgroup that exists is ever marked removed: a scan may be arbitrarily old
\* when it is reconciled, and must not take away a cgroup that it did not see
\* because it was created or bound later (TrackedAt, job_tracking_cgroup.go).
RemovedCgroupsAreGone ==
    \A c \in Cgroups, j \in Jobs : cgroupsByJob[j][c] = "removed" => c \notin live

\* A job is reported as ended only when none of the cgroups that the mirror
\* has for it exists any more (notifyJobEnded, EndCgroupRmdir).
EndedOnlyWhenDrained ==
    [][\A j \in ended' \ ended : \A c \in Cgroups : jobByCgroup'[c] = j => c \notin live']_vars

\* The agent stops the kernel from sampling an existing cgroup of the mirror
\* only while it removes that cgroup's job.
UntrackedOnlyByRemoveJob ==
    [][\A c \in live' : /\ Mirrored(c) /\ c \in trackedCgroups /\ c \notin trackedCgroups'
                        => effect.kind = "removeJob" /\ effect.job = jobByCgroup[c]]_vars

\* Attribution as CgroupOwnership promises it, with jobByCgroup for the owner.
Attribution == INSTANCE CgroupOwnership WITH owner <- jobByCgroup
OwnershipKept == Attribution!Ownership

\* "bind mirrors a cgroup -> Job attribution already accepted by KernelIO/eBPF"
\* (job_tracking_cgroup.go) and "The kernel hook already added
\* destination_cgroup_id to tracked_cgroups" (kernel_sample_cgroup_handle.go):
\* an existing cgroup enters the mirror only if the kernel tracks it.
MirrorFollowsKernel ==
    [][\A c \in live : ~Mirrored(c) /\ jobByCgroup'[c] # NoJob => c \in trackedCgroups']_vars

\* RemoveJob "cleans up job state, cgroup bindings, staging entries"
\* (docs/developer-guide/agent.md): when the last job is removed and every
\* sample is handled, no existing cgroup is tracked by the kernel any more.
RemovedJobsLeaveNothingTracked ==
    jobs = {} /\ ring = <<>> /\ effect = Idle => live \cap trackedCgroups = {}

-----------------------------------------------------------------------------
(* Liveness.                                                                *)

\* inputCh is a FIFO that the loop never stops reading, so an input that keeps
\* becoming possible is handled even when other inputs come in between; an
\* effect runs to its end; tickers fire for ever; a walk does not fail for
\* ever, and neither does a delete.
Fairness ==
    /\ SF_vars(HandleSample)
    /\ SF_vars(PurgeTick)
    /\ SF_vars(ReconcileCgroupLiveness)
    /\ WF_vars(DeleteTrackedKey \/ DeleteStagingKey \/ FinishRemoveJob)
    /\ WF_vars(StartScan)
    /\ SF_vars(FinishScan)
    /\ WF_vars(Tick)

FairSpec == Spec /\ Fairness

\* "a missed cgroup_rmdir sample does not leave stale cgroups ... indefinitely"
\* (docs/developer-guide/ebpf-runtime.md): a cgroup of the mirror that is gone
\* is purged in the end, even when the ring buffer lost its rmdir sample.
StaleCgroupsPurged ==
    \A c \in Cgroups : Mirrored(c) /\ c \notin live ~> ~Mirrored(c)

\* "... or Jobs indefinitely": a registered job all of whose cgroups are gone
\* is reported as ended, unless it is removed or gets a new cgroup first.
DrainedJobsEnd ==
    \A j \in Jobs :
        j \in jobs /\ CgroupsOf(j) # {} /\ CgroupsOf(j) \cap live = {}
            ~> j \in ended \/ j \notin jobs \/ CgroupsOf(j) \cap live # {}
=============================================================================
