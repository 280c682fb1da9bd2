---------------------------- MODULE JobRegistry ----------------------------
(***************************************************************************)
(* The life of a Job: the registry of internal/agent/jobregistry with its  *)
(* start reservations and finalizers, the per-Job event worker of          *)
(* internal/agent/job, and the part of the KernelTracker they talk to (the *)
(* registration of an identity, its event channel, and whether cgroups     *)
(* route events to it; KernelTracker.tla models the rest).                 *)
(*                                                                         *)
(* Every request, OnJobEnded goroutine, TTL tick and the shutdown is a     *)
(* process r of its own, with a program counter.  One step is what the     *)
(* code does under one hold of JobRegistry.mu or Job.mu, or in one command *)
(* to the KernelTracker loop.  A start request creates at most one Job,    *)
(* one scope and one event channel, so all three are named by the request. *)
(*                                                                         *)
(* A command to the loop is one step: inputCh is FIFO, so a command whose  *)
(* caller gave up waiting is still handled before any later one.  The two  *)
(* checks for an existing Job in registerJobRuntime are not steps: they    *)
(* can never fail (RegistrationUncontended).                               *)
(***************************************************************************)
EXTENDS Naturals, FiniteSets

CONSTANTS
    Identities,  \* job identities
    Requests,    \* processes
    None,
    Kind,        \* Kind[r]: what process r is
    IdOf,        \* IdOf[r]: the identity process r is about
    QueueSize,   \* capacity of an event channel
    MaxFaults    \* bound: how many RemoveJob commands may fail

\* Start and staging handlers, then finalizers.  peerStage finds its Job by the
\* peer's cgroup, k8sStage is told the identity, gitlabStage may create the Job.
Kinds == {"githubHost", "githubK8s", "gitlabHost", "project",
          "peerStage", "k8sStage", "gitlabStage",
          "hostEnd", "ended", "ttl", "shutdown"}

ASSUME RegistryAssumption ==
    /\ None \notin Requests
    /\ Kind \in [Requests -> Kinds]
    /\ IdOf \in [Requests -> Identities]
    /\ QueueSize \in Nat
    /\ MaxFaults \in Nat

VARIABLES
    \* JobRegistry
    jobs,        \* the active Job of an identity
    starting,    \* the request that holds the start reservation
    \* processes
    pc,
    cur,         \* the Job a process attaches to or finalizes
    todo,        \* identities a TTL tick or the shutdown has yet to take
    pending,     \* goroutines of finalizeTakenJobSync that still run
    \* Job objects and their scopes
    eventCh,     \* the channel the event worker reads
    worker,      \* the event worker: none, idle, busy (in an event), done
    closing,     \* Jobs in JobStateClosing
    hosted,      \* Jobs with a host scope (always built by their own start)
    project,     \* the request that built the project scope of a Job
    expired,     \* Jobs past their deadline
    logs,        \* streaming logs of the scope a request built
    \* what finalization did
    takenBy,     \* the process that took the Job
    summaries,   \* summary logs emitted for the Job
    failed,      \* Jobs whose finalization stopped at a RemoveJob error
    unscoped,    \* Jobs whose worker met an event with no evaluation bundle
    \* KernelTracker
    channelOf,   \* registered identities and their event channel
    tracked,     \* cgroups of an identity: none, active, all removed
    staged,      \* identities with a staged basename
    queue,       \* events queued in a channel
    closed,      \* closed channels
    faults,
    \* Agent
    accepting,   \* the listener takes requests, the TTL ticker ticks
    up           \* the process runs

registryVars == <<jobs, starting>>
requestVars  == <<cur, todo, pending>>
scopeVars    == <<closing, hosted, project, logs>>
workerVars   == <<eventCh, worker, unscoped>>
reportVars   == <<takenBy, summaries, failed>>
trackerVars  == <<channelOf, tracked, staged, closed>>
agentVars    == <<accepting, up>>
vars == <<registryVars, pc, requestVars, scopeVars, workerVars, expired, reportVars,
          trackerVars, queue, faults, agentVars>>

\* The requests that may create a Job.
Starts == {r \in Requests :
              Kind[r] \in {"githubHost", "githubK8s", "gitlabHost", "gitlabStage", "project"}}

OrNone(S) == S \cup {None}

Labels == {"idle", "reserve", "build", "register", "create", "scope", "bind", "pod",
           "unwind", "forget", "attach", "attachBuild", "attachSet", "restage", "staging",
           "verify", "snapshot", "take", "close", "remove", "drain", "emit", "stop", "done"}
Outputs == {"summary", "host", "project"}

TypeOK ==
    /\ jobs \in [Identities -> OrNone(Requests)]
    /\ starting \in [Identities -> OrNone(Requests)]
    /\ pc \in [Requests -> Labels]
    /\ cur \in [Requests -> OrNone(Requests)]
    /\ todo \in [Requests -> SUBSET Identities]
    /\ pending \in [Requests -> SUBSET Outputs]
    /\ eventCh \in [Requests -> OrNone(Requests)]
    /\ worker \in [Requests -> {"none", "idle", "busy", "done"}]
    /\ closing \subseteq Requests
    /\ hosted \subseteq Requests
    /\ project \in [Requests -> OrNone(Requests)]
    /\ expired \subseteq Requests
    /\ logs \in [Requests -> {"none", "open", "closed"}]
    /\ takenBy \in [Requests -> OrNone(Requests)]
    /\ summaries \in [Requests -> Nat]
    /\ failed \subseteq Requests
    /\ unscoped \subseteq Requests
    /\ channelOf \in [Identities -> OrNone(Requests)]
    /\ tracked \in [Identities -> {"none", "active", "removed"}]
    /\ staged \subseteq Identities
    /\ queue \in [Requests -> 0 .. QueueSize]
    /\ closed \subseteq Requests
    /\ faults \in 0 .. MaxFaults
    /\ accepting \in BOOLEAN
    /\ up \in BOOLEAN

Init ==
    /\ jobs = [i \in Identities |-> None]
    /\ starting = [i \in Identities |-> None]
    /\ pc = [r \in Requests |-> "idle"]
    /\ cur = [r \in Requests |-> None]
    /\ todo = [r \in Requests |-> {}]
    /\ pending = [r \in Requests |-> {}]
    /\ eventCh = [r \in Requests |-> None]
    /\ worker = [r \in Requests |-> "none"]
    /\ closing = {} /\ hosted = {} /\ expired = {} /\ failed = {} /\ unscoped = {}
    /\ project = [r \in Requests |-> None]
    /\ logs = [r \in Requests |-> "none"]
    /\ takenBy = [r \in Requests |-> None]
    /\ summaries = [r \in Requests |-> 0]
    /\ channelOf = [i \in Identities |-> None]
    /\ tracked = [i \in Identities |-> "none"]
    /\ staged = {} /\ closed = {}
    /\ queue = [r \in Requests |-> 0]
    /\ faults = 0
    /\ accepting = TRUE /\ up = TRUE

Goto(r, l) == pc' = [pc EXCEPT ![r] = l]
Release(r) == starting' = [starting EXCEPT ![IdOf[r]] = None]
Scoped(o)  == o \in hosted \/ project[o] # None

-----------------------------------------------------------------------------
(* Starts (reserveJobStart, registerJobRuntime, ApplyGitHubHostStart,       *)
(* ApplyGitLabHostStart, ApplyGitHubProjectStart).                          *)

\* A request reaches reserveJobStart: start handlers at once, the GitLab staging
\* handler after a first staging attempt found no Job.
AtReserve(r) ==
    \/ /\ Kind[r] \in {"githubHost", "githubK8s", "gitlabHost", "project"}
       /\ pc[r] = "idle" /\ accepting
    \/ pc[r] = "reserve"

ReserveNew(r) ==
    /\ AtReserve(r)
    /\ jobs[IdOf[r]] = None /\ starting[IdOf[r]] = None
    /\ starting' = [starting EXCEPT ![IdOf[r]] = r]
    /\ Goto(r, "build")
    /\ UNCHANGED <<jobs, requestVars, scopeVars, workerVars, expired, reportVars,
                   trackerVars, queue, faults, agentVars>>

\* GitHub host starts are refused, GitLab takes the Job that is there, and a
\* project start attaches to it.
ReserveExisting(r) ==
    /\ AtReserve(r)
    /\ jobs[IdOf[r]] # None
    /\ \/ /\ Kind[r] \in {"githubHost", "githubK8s", "gitlabHost"}
          /\ Goto(r, "done") /\ UNCHANGED cur
       \/ Kind[r] = "gitlabStage" /\ Goto(r, "restage") /\ UNCHANGED cur
       \/ /\ Kind[r] = "project" /\ Goto(r, "attach")
          /\ cur' = [cur EXCEPT ![r] = jobs[IdOf[r]]]
    /\ UNCHANGED <<registryVars, todo, pending, scopeVars, workerVars, expired, reportVars,
                   trackerVars, queue, faults, agentVars>>

\* Another start is in flight: GitHub requests are refused; a GitLab request
\* waits for it (it has no step until the reservation is free) or its client
\* goes away.
ReserveInFlight(r) ==
    /\ AtReserve(r)
    /\ jobs[IdOf[r]] = None /\ starting[IdOf[r]] # None
    /\ Goto(r, "done")
    /\ UNCHANGED <<registryVars, requestVars, scopeVars, workerVars, expired, reportVars,
                   trackerVars, queue, faults, agentVars>>

\* buildHostScopeFromManagerConfig, buildProjectScopeFrom...: on success the
\* log workers of the scope run.
BuildScope(r) ==
    /\ pc[r] = "build"
    /\ logs' = [logs EXCEPT ![r] = "open"]
    /\ Goto(r, "register")
    /\ UNCHANGED <<registryVars, requestVars, closing, hosted, project, workerVars, expired,
                   reportVars, trackerVars, queue, faults, agentVars>>

\* Mutant: an error return without reservation.done().
BuildFailsHolding(r) ==
    /\ pc[r] = "build"
    /\ Goto(r, "done")
    /\ UNCHANGED <<registryVars, requestVars, scopeVars, workerVars, expired, reportVars,
                   trackerVars, queue, faults, agentVars>>

BuildFails(r) ==
    /\ pc[r] = "build"
    /\ Release(r)
    /\ Goto(r, "done")
    /\ UNCHANGED <<jobs, requestVars, scopeVars, workerVars, expired, reportVars,
                   trackerVars, queue, faults, agentVars>>

\* handleRegisterJob: an identity that is still registered keeps its channel.
\* The caller may stop waiting for the reply, which does not undo the command.
RegisterJob(r) ==
    LET i == IdOf[r]
        c == IF channelOf[i] = None THEN r ELSE channelOf[i]
    IN  /\ pc[r] = "register"
        /\ channelOf' = [channelOf EXCEPT ![i] = c]
        /\ \/ /\ eventCh' = [eventCh EXCEPT ![r] = c]
              /\ Goto(r, "create")
              /\ UNCHANGED starting
           \/ /\ Release(r)
              /\ Goto(r, "done")
              /\ UNCHANGED eventCh
        /\ UNCHANGED <<jobs, requestVars, scopeVars, worker, unscoped, expired, reportVars,
                       tracked, staged, closed, queue, faults, agentVars>>

\* The caller's context ends before the command is sent.
RegisterNotSent(r) ==
    /\ pc[r] = "register"
    /\ Release(r)
    /\ Goto(r, "done")
    /\ UNCHANGED <<jobs, requestVars, scopeVars, workerVars, expired, reportVars,
                   trackerVars, queue, faults, agentVars>>

\* Mutant: the reservation ends with the store, before the scope is set.
CreateJobReleasing(r) ==
    /\ pc[r] = "create"
    /\ jobs' = [jobs EXCEPT ![IdOf[r]] = r]
    /\ Release(r)
    /\ worker' = [worker EXCEPT ![r] = "idle"]
    /\ Goto(r, "scope")
    /\ UNCHANGED <<requestVars, scopeVars, eventCh, unscoped, expired, reportVars,
                   trackerVars, queue, faults, agentVars>>

\* NewJob starts the event worker; then the registry stores the Job.
CreateJob(r) ==
    /\ pc[r] = "create"
    /\ jobs' = [jobs EXCEPT ![IdOf[r]] = r]
    /\ worker' = [worker EXCEPT ![r] = "idle"]
    /\ Goto(r, "scope")
    /\ UNCHANGED <<starting, requestVars, scopeVars, eventCh, unscoped, expired, reportVars,
                   trackerVars, queue, faults, agentVars>>

\* SetHostScope: a Job that is closing drops the scope and reports success.
SetHostScope(r) ==
    /\ pc[r] = "scope" /\ Kind[r] # "project"
    /\ hosted' = IF r \in closing THEN hosted ELSE hosted \cup {r}
    /\ \/ Kind[r] = "gitlabHost" /\ Release(r) /\ Goto(r, "done")
       \/ Kind[r] = "gitlabStage" /\ Release(r) /\ Goto(r, "restage")
       \/ Kind[r] \in {"githubHost", "githubK8s"} /\ Goto(r, "bind") /\ UNCHANGED starting
    /\ UNCHANGED <<jobs, requestVars, closing, project, logs, workerVars, expired, reportVars,
                   trackerVars, queue, faults, agentVars>>

\* SetProjectScope by the start that created the Job: ErrProjectScopeAlreadySet
\* returns without unwinding.
SetProjectScope(r) ==
    /\ pc[r] = "scope" /\ Kind[r] = "project"
    /\ \/ /\ r \in closing \/ project[r] = None
          /\ project' = IF r \in closing THEN project ELSE [project EXCEPT ![r] = r]
          /\ Goto(r, "bind") /\ UNCHANGED starting
       \/ /\ r \notin closing /\ project[r] # None
          /\ Release(r) /\ Goto(r, "done") /\ UNCHANGED project
    /\ UNCHANGED <<jobs, requestVars, closing, hosted, logs, workerVars, expired, reportVars,
                   trackerVars, queue, faults, agentVars>>

\* Mutant: the caller's cgroup is bound before the scope is attached.
BindStartProcessFirst(r) ==
    /\ pc[r] = "scope"
    /\ channelOf[IdOf[r]] # None
    /\ tracked' = [tracked EXCEPT ![IdOf[r]] = "active"]
    /\ UNCHANGED <<registryVars, pc, requestVars, scopeVars, workerVars, expired, reportVars,
                   channelOf, staged, closed, queue, faults, agentVars>>

\* bindStartProcessCgroupToJob, bound in time.
BindStartProcess(r) ==
    /\ pc[r] = "bind"
    /\ channelOf[IdOf[r]] # None
    /\ tracked' = [tracked EXCEPT ![IdOf[r]] = "active"]
    /\ Release(r)
    /\ Goto(r, IF Kind[r] = "githubK8s" THEN "pod" ELSE "done")
    /\ UNCHANGED <<jobs, requestVars, scopeVars, workerVars, expired, reportVars,
                   channelOf, staged, closed, queue, faults, agentVars>>

\* The process is gone, its cgroup belongs to another Job, the identity is not
\* registered, or the caller's context ended (before or after the command).
BindStartProcessFails(r) ==
    /\ pc[r] = "bind"
    /\ \/ UNCHANGED tracked
       \/ /\ channelOf[IdOf[r]] # None
          /\ tracked' = [tracked EXCEPT ![IdOf[r]] = "active"]
    /\ Goto(r, "unwind")
    /\ UNCHANGED <<registryVars, requestVars, scopeVars, workerVars, expired, reportVars,
                   channelOf, staged, closed, queue, faults, agentVars>>

\* bindPodCgroupTreeForProcess runs after the start returned its reservation and
\* only logs its failures.
BindPodCgroupTree(r) ==
    /\ pc[r] = "pod"
    /\ \/ UNCHANGED tracked
       \/ /\ channelOf[IdOf[r]] # None
          /\ tracked' = [tracked EXCEPT ![IdOf[r]] = "active"]
    /\ Goto(r, "done")
    /\ UNCHANGED <<registryVars, requestVars, scopeVars, workerVars, expired, reportVars,
                   channelOf, staged, closed, queue, faults, agentVars>>

\* The KernelTracker's answer to RemoveJob: an identity that is not registered
\* is a success that changes nothing, not even its staging entries.
RemoveFromTracker(i) ==
    \/ channelOf[i] = None /\ UNCHANGED trackerVars
    \/ /\ channelOf[i] # None
       /\ closed' = closed \cup {channelOf[i]}
       /\ channelOf' = [channelOf EXCEPT ![i] = None]
       /\ tracked' = [tracked EXCEPT ![i] = "none"]
       /\ staged' = staged \ {i}

\* A BPF map deletion fails and the identity stays registered.
RemoveFromTrackerFails(i) ==
    /\ channelOf[i] # None
    /\ faults < MaxFaults
    /\ faults' = faults + 1
    /\ UNCHANGED trackerVars

\* Mutant: the reservation is released before the Job is deleted.
UnwindReleasing(r) ==
    /\ pc[r] = "unwind"
    /\ RemoveFromTracker(IdOf[r])
    /\ Release(r)
    /\ Goto(r, "forget")
    /\ UNCHANGED <<jobs, requestVars, scopeVars, workerVars, expired, reportVars,
                   queue, faults, agentVars>>

\* removeJobAfterProcessCgroupBindFailure logs a RemoveJob error and goes on.
Unwind(r) ==
    /\ pc[r] = "unwind"
    /\ \/ RemoveFromTracker(IdOf[r]) /\ UNCHANGED faults
       \/ RemoveFromTrackerFails(IdOf[r])
    /\ Goto(r, "forget")
    /\ UNCHANGED <<registryVars, requestVars, scopeVars, workerVars, expired, reportVars,
                   queue, agentVars>>

\* It deletes whatever Job the identity has now.
Forget(r) ==
    /\ pc[r] = "forget"
    /\ jobs' = [jobs EXCEPT ![IdOf[r]] = None]
    /\ Release(r)
    /\ Goto(r, "done")
    /\ UNCHANGED <<requestVars, scopeVars, workerVars, expired, reportVars,
                   trackerVars, queue, faults, agentVars>>

-----------------------------------------------------------------------------
(* attachGitHubProjectScopeToExistingJob.                                   *)

\* verifyPeerPIDBelongsToJob can succeed while the identity owns a cgroup; a
\* removed cgroup still counts until it is purged.
PeerInJob(r) == tracked[IdOf[r]] # "none"

AttachProject(r) ==
    /\ pc[r] = "attach"
    /\ \/ project[cur[r]] = None /\ PeerInJob(r) /\ Goto(r, "attachBuild")
       \/ Goto(r, "done")
    /\ UNCHANGED <<registryVars, requestVars, scopeVars, workerVars, expired, reportVars,
                   trackerVars, queue, faults, agentVars>>

AttachBuildScope(r) ==
    /\ pc[r] = "attachBuild"
    /\ \/ logs' = [logs EXCEPT ![r] = "open"] /\ Goto(r, "attachSet")
       \/ Goto(r, "done") /\ UNCHANGED logs
    /\ UNCHANGED <<registryVars, requestVars, closing, hosted, project, workerVars, expired,
                   reportVars, trackerVars, queue, faults, agentVars>>

\* Mutant: SetProjectScope does not look at the Job's state.
AttachSetScopeAlways(r) ==
    LET o == cur[r]
    IN  /\ pc[r] = "attachSet"
        /\ project' = IF project[o] = None THEN [project EXCEPT ![o] = r] ELSE project
        /\ Goto(r, "done")
        /\ UNCHANGED <<registryVars, requestVars, closing, hosted, logs, workerVars, expired,
                       reportVars, trackerVars, queue, faults, agentVars>>

\* SetProjectScope on a Job that a finalizer may have taken in the meantime.
AttachSetScope(r) ==
    LET o == cur[r]
    IN  /\ pc[r] = "attachSet"
        /\ project' = IF o \notin closing /\ project[o] = None
                      THEN [project EXCEPT ![o] = r] ELSE project
        /\ Goto(r, "done")
        /\ UNCHANGED <<registryVars, requestVars, closing, hosted, logs, workerVars, expired,
                       reportVars, trackerVars, queue, faults, agentVars>>

-----------------------------------------------------------------------------
(* Staging (handleGitHubStagingPut, handleGitHubK8sStagingPut,              *)
(* handleGitLabStagingPut, stageGitLabBasename).                            *)

FindJobForPeerPID(r) ==
    /\ Kind[r] = "peerStage" /\ pc[r] = "idle" /\ accepting
    /\ Goto(r, IF PeerInJob(r) THEN "restage" ELSE "done")
    /\ UNCHANGED <<registryVars, requestVars, scopeVars, workerVars, expired, reportVars,
                   trackerVars, queue, faults, agentVars>>

\* StageCgroupBasenameForJob looks the Job up and hides one that is starting.
\* The GitLab handler then creates the Job and tries once more.
StageLookup(r) ==
    /\ \/ Kind[r] \in {"k8sStage", "gitlabStage"} /\ pc[r] = "idle" /\ accepting
       \/ pc[r] = "restage"
    /\ \/ jobs[IdOf[r]] # None /\ starting[IdOf[r]] = None /\ Goto(r, "staging")
       \/ /\ jobs[IdOf[r]] = None \/ starting[IdOf[r]] # None
          /\ Goto(r, IF pc[r] = "idle" /\ Kind[r] = "gitlabStage" THEN "reserve" ELSE "done")
    /\ UNCHANGED <<registryVars, requestVars, scopeVars, workerVars, expired, reportVars,
                   trackerVars, queue, faults, agentVars>>

\* The command to the loop, which does not ask whether the identity is still
\* registered; it may be refused or fail.
StageCommand(r) ==
    /\ pc[r] = "staging"
    /\ \/ staged' = staged \cup {IdOf[r]}
       \/ UNCHANGED staged
    /\ Goto(r, "done")
    /\ UNCHANGED <<registryVars, requestVars, scopeVars, workerVars, expired, reportVars,
                   channelOf, tracked, closed, queue, faults, agentVars>>

-----------------------------------------------------------------------------
(* The kernel and the loop, as the registry sees them.                      *)

\* A staged container starts (promoteStagedCgroup).
ContainerStarts(i) ==
    /\ i \in staged
    /\ staged' = staged \ {i}
    /\ tracked' = [tracked EXCEPT ![i] = "active"]
    /\ UNCHANGED <<registryVars, pc, requestVars, scopeVars, workerVars, expired, reportVars,
                   channelOf, closed, queue, faults, agentVars>>

\* The last active cgroup of the identity is removed: notifyJobEnded starts a
\* goroutine of OnJobEnded.
JobDrained(i) ==
    /\ tracked[i] = "active"
    /\ tracked' = [tracked EXCEPT ![i] = "removed"]
    /\ \E r \in Requests :
          /\ Kind[r] = "ended" /\ IdOf[r] = i /\ pc[r] = "idle"
          /\ todo' = [todo EXCEPT ![r] = {i}]
          /\ Goto(r, "take")
    /\ UNCHANGED <<registryVars, cur, pending, scopeVars, workerVars, expired, reportVars,
                   channelOf, staged, closed, queue, faults, agentVars>>

\* emitEventRecord: dropped without a registration or with a full channel.
EmitEvent(i) ==
    LET c == channelOf[i]
    IN  /\ tracked[i] # "none"
        /\ c # None
        /\ queue[c] < QueueSize
        /\ queue' = [queue EXCEPT ![c] = @ + 1]
        /\ UNCHANGED <<registryVars, pc, requestVars, scopeVars, workerVars, expired, reportVars,
                       trackerVars, faults, agentVars>>

-----------------------------------------------------------------------------
(* The event worker of a Job (runEventWorker, processEvent).                *)

ReceiveEvent(o) ==
    /\ worker[o] = "idle"
    /\ queue[eventCh[o]] > 0
    /\ queue' = [queue EXCEPT ![eventCh[o]] = @ - 1]
    /\ worker' = [worker EXCEPT ![o] = "busy"]
    /\ UNCHANGED <<registryVars, pc, requestVars, scopeVars, eventCh, unscoped, expired,
                   reportVars, trackerVars, faults, agentVars>>

ProcessEvent(o) ==
    /\ worker[o] = "busy"
    /\ worker' = [worker EXCEPT ![o] = "idle"]
    /\ unscoped' = IF Scoped(o) THEN unscoped ELSE unscoped \cup {o}
    /\ UNCHANGED <<registryVars, pc, requestVars, scopeVars, eventCh, expired, reportVars,
                   trackerVars, queue, faults, agentVars>>

WorkerExits(o) ==
    /\ worker[o] = "idle"
    /\ eventCh[o] \in closed /\ queue[eventCh[o]] = 0
    /\ worker' = [worker EXCEPT ![o] = "done"]
    /\ UNCHANGED <<registryVars, pc, requestVars, scopeVars, eventCh, unscoped, expired,
                   reportVars, trackerVars, queue, faults, agentVars>>

\* The deadline of a Job passes; it only matters if a TTL tick will look.
DeadlinePasses(o) ==
    /\ \E r \in Requests : Kind[r] = "ttl"
    /\ worker[o] # "none" /\ o \notin expired
    /\ expired' = expired \cup {o}
    /\ UNCHANGED <<registryVars, pc, requestVars, scopeVars, workerVars, reportVars,
                   trackerVars, queue, faults, agentVars>>

-----------------------------------------------------------------------------
(* Finalization (finalize.go) and shutdown (Agent.shutdown).                *)

\* Where a finalizer goes when it has the identities t left to take.
Onward(r, t) ==
    IF t # {} THEN "take" ELSE IF Kind[r] = "shutdown" THEN "stop" ELSE "done"

\* RequestGitHubHostEnd: no Job is a success, a Job without host scope an error.
HostEndLookup(r) ==
    LET o == jobs[IdOf[r]]
    IN  /\ Kind[r] = "hostEnd" /\ pc[r] = "idle" /\ accepting
        /\ Goto(r, IF o # None /\ o \in hosted THEN "verify" ELSE "done")
        /\ UNCHANGED <<registryVars, requestVars, scopeVars, workerVars, expired, reportVars,
                       trackerVars, queue, faults, agentVars>>

HostEndVerify(r) ==
    /\ pc[r] = "verify"
    /\ \/ PeerInJob(r) /\ Goto(r, "take") /\ todo' = [todo EXCEPT ![r] = {IdOf[r]}]
       \/ Goto(r, "done") /\ UNCHANGED todo
    /\ UNCHANGED <<registryVars, cur, pending, scopeVars, workerVars, expired, reportVars,
                   trackerVars, queue, faults, agentVars>>

\* FinalizeExpiredJobs keeps the identities of the Jobs it found expired.
FindExpiredJobs(r) ==
    LET found == {i \in Identities : jobs[i] # None /\ jobs[i] \in expired \ closing}
    IN  /\ Kind[r] = "ttl" /\ pc[r] = "idle" /\ accepting
        /\ todo' = [todo EXCEPT ![r] = found]
        /\ Goto(r, Onward(r, found))
        /\ UNCHANGED <<registryVars, cur, pending, scopeVars, workerVars, expired, reportVars,
                       trackerVars, queue, faults, agentVars>>

\* The listener stops and the TTL ticker is cancelled; handlers that are still
\* running after listenerShutdownTimeout go on.
StopListening(r) ==
    /\ Kind[r] = "shutdown" /\ pc[r] = "idle"
    /\ accepting' = FALSE
    /\ Goto(r, "snapshot")
    /\ UNCHANGED <<registryVars, requestVars, scopeVars, workerVars, expired, reportVars,
                   trackerVars, queue, faults, up>>

\* FinalizeAll.
SnapshotJobs(r) ==
    LET all == {i \in Identities : jobs[i] # None}
    IN  /\ pc[r] = "snapshot"
        /\ todo' = [todo EXCEPT ![r] = all]
        /\ Goto(r, Onward(r, all))
        /\ UNCHANGED <<registryVars, cur, pending, scopeVars, workerVars, expired, reportVars,
                       trackerVars, queue, faults, agentVars>>

\* Mutant: the Job stays in the registry while it is finalized.
TakeJobKeeping(r, i) ==
    LET o == jobs[i]
    IN  /\ pc[r] = "take" /\ i \in todo[r]
        /\ todo' = [todo EXCEPT ![r] = @ \ {i}]
        /\ \/ /\ o = None
              /\ Goto(r, Onward(r, todo[r] \ {i}))
              /\ UNCHANGED <<cur, takenBy>>
           \/ /\ o # None
              /\ cur' = [cur EXCEPT ![r] = o]
              /\ takenBy' = [takenBy EXCEPT ![o] = r]
              /\ Goto(r, "close")
        /\ UNCHANGED <<registryVars, pending, scopeVars, workerVars, expired, summaries, failed,
                       trackerVars, queue, faults, agentVars>>

\* takeJob by identity: whichever Job the identity has now.
TakeJob(r, i) ==
    LET o == jobs[i]
    IN  /\ pc[r] = "take" /\ i \in todo[r]
        /\ todo' = [todo EXCEPT ![r] = @ \ {i}]
        /\ \/ /\ o = None
              /\ Goto(r, Onward(r, todo[r] \ {i}))
              /\ UNCHANGED <<jobs, cur, takenBy>>
           \/ /\ o # None
              /\ jobs' = [jobs EXCEPT ![i] = None]
              /\ cur' = [cur EXCEPT ![r] = o]
              /\ takenBy' = [takenBy EXCEPT ![o] = r]
              /\ Goto(r, "close")
        /\ UNCHANGED <<starting, pending, scopeVars, workerVars, expired, summaries, failed,
                       trackerVars, queue, faults, agentVars>>

MarkClosing(r) ==
    /\ pc[r] = "close"
    /\ closing' = closing \cup {cur[r]}
    /\ Goto(r, "remove")
    /\ UNCHANGED <<registryVars, requestVars, hosted, project, logs, workerVars, expired,
                   reportVars, trackerVars, queue, faults, agentVars>>

RemoveJob(r) ==
    /\ pc[r] = "remove"
    /\ RemoveFromTracker(IdOf[cur[r]])
    /\ Goto(r, "drain")
    /\ UNCHANGED <<registryVars, requestVars, scopeVars, workerVars, expired, reportVars,
                   queue, faults, agentVars>>

\* Mutant: the first error ends the loop over the collected Jobs.
RemoveJobFailsStops(r) ==
    /\ pc[r] = "remove"
    /\ RemoveFromTrackerFails(IdOf[cur[r]])
    /\ failed' = failed \cup {cur[r]}
    /\ Goto(r, Onward(r, {}))
    /\ UNCHANGED <<registryVars, requestVars, scopeVars, workerVars, expired, takenBy, summaries,
                   queue, agentVars>>

\* finalizeTakenJobSync returns early: no drain, no summary, no second attempt.
RemoveJobFails(r) ==
    /\ pc[r] = "remove"
    /\ RemoveFromTrackerFails(IdOf[cur[r]])
    /\ failed' = failed \cup {cur[r]}
    /\ Goto(r, Onward(r, todo[r]))
    /\ UNCHANGED <<registryVars, requestVars, scopeVars, workerVars, expired, takenBy, summaries,
                   queue, agentVars>>

\* Mutant: an empty queue is taken for Done.
WaitForEmptyQueue(r) ==
    LET o == cur[r]
    IN  /\ pc[r] = "drain"
        /\ queue[eventCh[o]] = 0
        /\ pending' = [pending EXCEPT ![r] = {"summary"}
                          \cup (IF o \in hosted THEN {"host"} ELSE {})
                          \cup (IF project[o] # None THEN {"project"} ELSE {})]
        /\ Goto(r, "emit")
        /\ UNCHANGED <<registryVars, cur, todo, scopeVars, workerVars, expired, reportVars,
                       trackerVars, queue, faults, agentVars>>

\* waitForDrain returns; the summary and the streaming logs of each scope are
\* then sent by goroutines of their own.
WaitForDrain(r) ==
    LET o == cur[r]
    IN  /\ pc[r] = "drain"
        /\ worker[o] = "done"
        /\ pending' = [pending EXCEPT ![r] = {"summary"}
                          \cup (IF o \in hosted THEN {"host"} ELSE {})
                          \cup (IF project[o] # None THEN {"project"} ELSE {})]
        /\ Goto(r, "emit")
        /\ UNCHANGED <<registryVars, cur, todo, scopeVars, workerVars, expired, reportVars,
                       trackerVars, queue, faults, agentVars>>

\* Mutant: the summary waits behind the streaming flush.
EmitSummaryAfterFlush(r) ==
    /\ pc[r] = "emit" /\ pending[r] = {"summary"}
    /\ pending' = [pending EXCEPT ![r] = {}]
    /\ summaries' = [summaries EXCEPT ![cur[r]] = @ + 1]
    /\ UNCHANGED <<registryVars, pc, cur, todo, scopeVars, workerVars, expired, takenBy, failed,
                   trackerVars, queue, faults, agentVars>>

EmitSummary(r) ==
    /\ pc[r] = "emit" /\ "summary" \in pending[r]
    /\ pending' = [pending EXCEPT ![r] = @ \ {"summary"}]
    /\ summaries' = [summaries EXCEPT ![cur[r]] = @ + 1]
    /\ UNCHANGED <<registryVars, pc, cur, todo, scopeVars, workerVars, expired, takenBy, failed,
                   trackerVars, queue, faults, agentVars>>

FinalizeStreamingLogs(r, k) ==
    LET s == IF k = "host" THEN cur[r] ELSE project[cur[r]]
    IN  /\ pc[r] = "emit" /\ k \in pending[r] \ {"summary"}
        /\ pending' = [pending EXCEPT ![r] = @ \ {k}]
        /\ logs' = [logs EXCEPT ![s] = "closed"]
        /\ UNCHANGED <<registryVars, pc, cur, todo, closing, hosted, project, workerVars, expired,
                       reportVars, trackerVars, queue, faults, agentVars>>

JobFinalized(r) ==
    /\ pc[r] = "emit" /\ pending[r] = {}
    /\ Goto(r, Onward(r, todo[r]))
    /\ UNCHANGED <<registryVars, requestVars, scopeVars, workerVars, expired, reportVars,
                   trackerVars, queue, faults, agentVars>>

\* The loop is cancelled and the process exits.
AgentStops(r) ==
    /\ pc[r] = "stop"
    /\ up' = FALSE
    /\ Goto(r, "done")
    /\ UNCHANGED <<registryVars, requestVars, scopeVars, workerVars, expired, reportVars,
                   trackerVars, queue, faults, accepting>>

-----------------------------------------------------------------------------
StartStep(r) ==
    \/ ReserveNew(r) \/ ReserveExisting(r) \/ ReserveInFlight(r)
    \/ BuildScope(r) \/ BuildFails(r)
    \/ RegisterJob(r) \/ RegisterNotSent(r) \/ CreateJob(r)
    \/ SetHostScope(r) \/ SetProjectScope(r)
    \/ BindStartProcess(r) \/ BindStartProcessFails(r) \/ BindPodCgroupTree(r)
    \/ Unwind(r) \/ Forget(r)
    \/ AttachProject(r) \/ AttachBuildScope(r) \/ AttachSetScope(r)

StageStep(r) == FindJobForPeerPID(r) \/ StageLookup(r) \/ StageCommand(r)

FinalizeStep(r) ==
    \/ HostEndLookup(r) \/ HostEndVerify(r)
    \/ FindExpiredJobs(r) \/ StopListening(r) \/ SnapshotJobs(r)
    \/ \E i \in Identities : TakeJob(r, i)
    \/ MarkClosing(r) \/ RemoveJob(r) \/ RemoveJobFails(r)
    \/ WaitForDrain(r) \/ EmitSummary(r)
    \/ \E k \in Outputs : FinalizeStreamingLogs(r, k)
    \/ JobFinalized(r) \/ AgentStops(r)

TrackerStep(i) == ContainerStarts(i) \/ JobDrained(i) \/ EmitEvent(i)
JobStep(o)     == ReceiveEvent(o) \/ ProcessEvent(o) \/ WorkerExits(o) \/ DeadlinePasses(o)

\* No request is being served, or the process has exited.
AtRest == ~up \/ \A r \in Requests : pc[r] \in {"idle", "done"}

Next ==
    \/ up /\ \E r \in Requests : StartStep(r) \/ StageStep(r) \/ FinalizeStep(r) \/ JobStep(r)
    \/ up /\ \E i \in Identities : TrackerStep(i)
    \/ AtRest /\ UNCHANGED vars

Spec == Init /\ [][Next]_vars

\* What the code's scheduling guarantees: goroutines that can run do run, and
\* the loop answers.  Nobody is forced to call, to cancel, or to deliver the
\* backlog of a streaming log (FinalizeStreamingLogs may hang on its manager).
Progress(r) ==
    \/ pc[r] # "idle" /\ (ReserveNew(r) \/ ReserveExisting(r))
    \/ BuildScope(r) \/ BuildFails(r) \/ RegisterJob(r) \/ CreateJob(r)
    \/ SetHostScope(r) \/ SetProjectScope(r)
    \/ BindStartProcess(r) \/ BindStartProcessFails(r) \/ BindPodCgroupTree(r)
    \/ Unwind(r) \/ Forget(r)
    \/ AttachProject(r) \/ AttachBuildScope(r) \/ AttachSetScope(r)
    \/ pc[r] # "idle" /\ StageLookup(r)
    \/ StageCommand(r)
    \/ HostEndVerify(r) \/ SnapshotJobs(r)
    \/ \E i \in Identities : TakeJob(r, i)
    \/ MarkClosing(r) \/ RemoveJob(r) \/ RemoveJobFails(r)
    \/ WaitForDrain(r) \/ EmitSummary(r) \/ JobFinalized(r) \/ AgentStops(r)

WorkerStep(o) == ReceiveEvent(o) \/ ProcessEvent(o) \/ WorkerExits(o)

FairSpec ==
    /\ Spec
    /\ \A r \in Requests : WF_vars(up /\ Progress(r)) /\ WF_vars(up /\ WorkerStep(r))

\* What remains of the finalizer's work is a flush, which may hang.
FlushPending(r) == pc[r] = "emit" /\ pending[r] # {} /\ "summary" \notin pending[r]

-----------------------------------------------------------------------------
(* Properties.                                                              *)

\* The reservation keeps starts of one identity apart: no Job of the identity
\* is in the registry while a start is between reserveJobStart and the store of
\* its Job, so the two re-checks of registerJobRuntime cannot fail.
RegistrationUncontended ==
    \A r \in Requests :
        pc[r] \in {"build", "register", "create"} =>
            jobs[IdOf[r]] = None /\ starting[IdOf[r]] = r

\* A Job that StageCgroupBasenameForJob can see has a scope: `starting` hides
\* half-created Jobs until SetHostScope or SetProjectScope is done.
HalfCreatedHidden ==
    \A i \in Identities : jobs[i] # None /\ starting[i] = None => Scoped(jobs[i])

\* A reservation gives its start the identity for itself, from reserveJobStart
\* until the scope is set: nobody else registers, and nobody sees the Job.
StartsExclusive == RegistrationUncontended /\ HalfCreatedHidden

\* A Job is summarized at most once, however its end is noticed (host end, drained
\* cgroups, TTL, shutdown, all at the same time).
OneSummary == \A o \in Requests : summaries[o] <= 1

\* The summary is the last word: when it is sent the event worker has left
\* (Done, not an empty queue) and the Job takes no scope any more, so no event
\* and no scope can be missing from it.
SummaryComplete ==
    \A o \in Requests : summaries[o] > 0 => worker[o] = "done" /\ o \in closing

\* When the finalizer of a Job is through, the streaming logs of both its scopes
\* are closed, also of a project scope that was attached during the end.
ScopesFinalizedWithJob ==
    \A o \in Requests :
        LET r == takenBy[o]
        IN  r # None /\ cur[r] = o /\ pc[r] = "emit" /\ pending[r] = {} =>
                /\ o \in hosted => logs[o] = "closed"
                /\ project[o] # None => logs[project[o]] = "closed"

\* A Job leaves the registry only into the hands of one finalizer, or because
\* its own start failed to bind; the unwind never deletes another Job.
LeavesOnlyWhenTakenOrUnwound ==
    [][\A i \in Identities :
          jobs[i] # None /\ jobs'[i] # jobs[i] =>
              /\ jobs'[i] = None
              /\ \/ takenBy[jobs[i]] = None /\ takenBy'[jobs[i]] # None
                 \/ pc[jobs[i]] = "forget"]_vars

\* The first Job of an identity never takes an event before its scope is set:
\* no cgroup of the identity is bound, staged or about to be until then.  The
\* one exception is a Job that a finalizer took in the middle of its start,
\* which drops the scope.
RoutedEventsSeeScope ==
    [][\A o \in unscoped' \ unscoped :
          \/ o \in closing
          \/ \E q \in Requests \ {o} : IdOf[q] = IdOf[o] /\ worker[q] # "none"]_vars

\* Comment in ApplyGitHubHostStart: "Build scope config first, register the Job
\* runtime, attach the scope, then bind the caller cgroup so routed events
\* always see a resolved scope."  It fails when the identity is started again
\* while its former Job is still routed, or leaves a staged container behind.
RoutedEventsAlwaysSeeScope == [][\A o \in unscoped' \ unscoped : o \in closing]_vars

\* Comment on registerJobRuntime: it "creates a running Job, wires BPF events, and
\* stores it".  A Job in the registry whose start is over receives the events of
\* its identity.
RunningJobsAreWired ==
    \A i \in Identities :
        jobs[i] # None /\ starting[i] = None => channelOf[i] = eventCh[jobs[i]]

\* Comment on FinalizeExpiredJobs: it "synchronously finalizes jobs that have
\* exceeded their TTL".
OnlyExpiredJobsReaped ==
    \A o \in Requests : takenBy[o] # None /\ Kind[takenBy[o]] = "ttl" => o \in expired

\* Comment on Agent.Run: "On shutdown it finalizes all remaining jobs."  When the
\* process exits no Job is left in the registry or half-way through its end.
ShutdownFinalizesAll ==
    ~up => /\ \A i \in Identities : jobs[i] = None
           /\ \A o \in Requests : takenBy[o] # None => summaries[o] > 0 \/ o \in failed

\* Every Job that a finalizer took gets its summary unless RemoveJob failed or the
\* agent exited, even if a streaming log never finishes its flush: the summary
\* has a goroutine of its own (#143) and the drain ends because RemoveJob
\* closes the channel.
TakenJobsAreSummarized ==
    \A o \in Starts :
        takenBy[o] # None ~> summaries[o] > 0 \/ o \in failed \/ ~up

\* One Job that cannot be removed does not end a sweep: a TTL tick and the
\* shutdown try every identity they collected, if only the streaming logs of
\* the Jobs before it are flushed.
SweepReachesEveryJob ==
    \A r \in {q \in Requests : Kind[q] \in {"ttl", "shutdown"}}, i \in Identities :
        i \in todo[r] ~> i \notin todo[r] \/ FlushPending(r) \/ ~up

\* A GitLab staging request that found another start in flight gets its turn:
\* every way out of a start releases the reservation.
WaitersReturn ==
    \A r \in Starts : pc[r] = "reserve" ~> pc[r] = "done" \/ ~up

=============================================================================
