------------------------- MODULE JobRegistry_proofs -------------------------
(***************************************************************************)
(* What JobRegistry guarantees for any identities, requests and channel    *)
(* capacity: the inductive invariant, what each step of a start, a staging *)
(* request, the tracker, the event workers, finalization and shutdown does *)
(* to it, and the theorems.                                                *)
(***************************************************************************)
EXTENDS JobRegistry, TLAPS

-----------------------------------------------------------------------------
(* The inductive invariant.                                                *)

BeforeJob == {"idle", "reserve", "build", "register", "create"}
Starting  == {"build", "register", "create"}
Created   == {"scope", "bind", "unwind", "forget"}
Attaching == {"attach", "attachBuild", "attachSet"}
Ending    == {"close", "remove", "drain", "emit"}

\* A start keeps its reservation to its last step, and the identity has no Job
\* until it stores one, and no other Job after that.
Reserved ==
    \A r \in Requests :
        /\ pc[r] \in Starting \cup Created => starting[IdOf[r]] = r
        /\ pc[r] \in Starting => jobs[IdOf[r]] = None
        /\ pc[r] \in Created => jobs[IdOf[r]] \in {None, r}

\* Where a request is tells whether it has created its Job.
JobsCreated ==
    /\ \A r \in Requests :
          /\ pc[r] \in BeforeJob \cup Attaching => worker[r] = "none"
          /\ pc[r] \in Created \cup {"pod"} => worker[r] # "none"
    /\ \A o \in Requests : takenBy[o] # None => worker[o] # "none"

\* A Job in the registry is nobody's to finalize yet.
Untaken ==
    /\ \A i \in Identities :
          jobs[i] # None => /\ IdOf[jobs[i]] = i
                            /\ worker[jobs[i]] # "none"
                            /\ takenBy[jobs[i]] = None
    /\ \A o \in Requests : takenBy[o] = None => o \notin closing /\ summaries[o] = 0

\* A finalizer owns the Job it works on, and has gone through the stages before.
Finalizing ==
    /\ \A r \in Requests :
          pc[r] \in Ending =>
              /\ cur[r] \in Requests
              /\ takenBy[cur[r]] = r
              /\ pc[r] # "close" => cur[r] \in closing
              /\ pc[r] = "emit" => worker[cur[r]] = "done"
              /\ pc[r] # "emit" \/ "summary" \in pending[r] => summaries[cur[r]] = 0
    /\ OneSummary
    /\ SummaryComplete

\* A Job whose start is past its scope step has a scope, or was taken too soon.
JobsScoped ==
    /\ \A i \in Identities : jobs[i] # None => Scoped(jobs[i]) \/ pc[jobs[i]] = "scope"
    /\ \A r \in Requests :
          pc[r] \in {"bind", "unwind", "forget", "pod"} => Scoped(r) \/ r \in closing

\* No scope is built again after it was attached, and the logs that the
\* finalizer has closed stay closed.
LogsClosed ==
    /\ \A o \in Requests :
          project[o] # None => pc[project[o]] \notin BeforeJob \cup Attaching
    /\ \A r \in Requests :
          pc[r] = "emit" =>
              /\ cur[r] \in hosted /\ "host" \notin pending[r] => logs[cur[r]] = "closed"
              /\ project[cur[r]] # None /\ "project" \notin pending[r] =>
                    logs[project[cur[r]]] = "closed"

\* Channels belong to the identity they were made for.
Wired ==
    /\ \A i \in Identities : channelOf[i] # None => IdOf[channelOf[i]] = i
    /\ \A r \in Requests :
          /\ eventCh[r] # None => IdOf[eventCh[r]] = IdOf[r]
          /\ pc[r] = "create" \/ worker[r] # "none" => eventCh[r] # None

\* Nothing routes events to identity i, and no event is under way.
Quiet(i) ==
    /\ tracked[i] = "none" /\ i \notin staged
    /\ \A r \in Requests :
          IdOf[r] = i => pc[r] # "staging" /\ queue[r] = 0 /\ worker[r] # "busy"

\* Identity i has a Job that has its scope or was taken, or more than one Job.
Opened(i) ==
    \E o \in Requests :
        /\ IdOf[o] = i /\ worker[o] # "none"
        /\ \/ Scoped(o) \/ o \in closing
           \/ \E q \in Requests \ {o} : IdOf[q] = i /\ worker[q] # "none"

\* An identity is quiet until its first Job has its scope.
QuietAtFirst == \A i \in Identities : Quiet(i) \/ Opened(i)

Core ==
    /\ Reserved /\ JobsCreated /\ Untaken
    /\ Finalizing /\ JobsScoped /\ LogsClosed

IInv == TypeOK /\ Core /\ Wired /\ QuietAtFirst

-----------------------------------------------------------------------------
(* What a step does to the parts of the invariant it does not aim at.      *)

coreVars == <<registryVars, cur, pending, scopeVars, worker, takenBy, summaries>>

CoreTypes ==
    /\ jobs \in [Identities -> OrNone(Requests)]
    /\ starting \in [Identities -> OrNone(Requests)]
    /\ pc \in [Requests -> Labels]
    /\ cur \in [Requests -> OrNone(Requests)]
    /\ pending \in [Requests -> SUBSET Outputs]
    /\ worker \in [Requests -> {"none", "idle", "busy", "done"}]
    /\ hosted \subseteq Requests
    /\ project \in [Requests -> OrNone(Requests)]
    /\ logs \in [Requests -> {"none", "open", "closed"}]
    /\ takenBy \in [Requests -> OrNone(Requests)]
    /\ summaries \in [Requests -> Nat]

\* The part of the type invariant that Core needs.
LEMMA TypesOfCore == ASSUME TypeOK PROVE CoreTypes
BY Zenon DEF TypeOK, CoreTypes

\* The registry, the Jobs and the requests stay as they are.
LEMMA StillCore == ASSUME Core, UNCHANGED <<coreVars, pc>> PROVE Core'
<1> USE DEF Core, coreVars, registryVars, scopeVars
<1>1. Reserved'     BY Zenon DEF Reserved
<1>2. JobsCreated'  BY Zenon DEF JobsCreated
<1>3. Untaken'      BY Zenon DEF Untaken
<1>4. Finalizing'   BY Zenon DEF Finalizing, OneSummary, SummaryComplete
<1>5. JobsScoped'   BY Zenon DEF JobsScoped, Scoped
<1>6. LogsClosed'   BY Zenon DEF LogsClosed
<1> QED BY Zenon, <1>1, <1>2, <1>3, <1>4, <1>5, <1>6

\* A request goes on to a stage at which it holds nothing.
LEMMA MoveCore ==
    ASSUME CoreTypes, Core, UNCHANGED coreVars, NEW r \in Requests, pc[r] # "scope",
           NEW l \in {"restage", "staging", "verify", "snapshot", "take", "stop", "done"},
           Goto(r, l)
    PROVE  Core'
<1> USE RegistryAssumption DEF Core, coreVars, registryVars, scopeVars, Goto
<1>t. pc \in [Requests -> Labels] /\ jobs \in [Identities -> Requests \cup {None}]
  BY Zenon DEF CoreTypes, OrNone
<1>1. Reserved'     BY Zenon, <1>t DEF Reserved, Starting, Created
<1>2. JobsCreated'  BY Zenon, <1>t DEF JobsCreated, BeforeJob, Attaching, Created
<1>3. Untaken'      BY Zenon DEF Untaken
<1>4. Finalizing'   BY Zenon, <1>t DEF Finalizing, Ending, OneSummary, SummaryComplete
<1>5. JobsScoped'   BY Zenon, <1>t DEF JobsScoped, Scoped
<1>6. LogsClosed'   BY <1>t DEF LogsClosed, BeforeJob, Attaching
<1> QED BY Zenon, <1>1, <1>2, <1>3, <1>4, <1>5, <1>6

\* The same, and the start gives its reservation back.
LEMMA ReleaseCore ==
    ASSUME CoreTypes, Core, NEW r \in Requests, NEW l \in {"pod", "done"},
           pc[r] \in {"build", "register", "bind"}, l = "pod" => pc[r] = "bind",
           Goto(r, l), Release(r),
           UNCHANGED <<jobs, cur, pending, scopeVars, worker, takenBy, summaries>>
    PROVE  Core'
<1> USE RegistryAssumption DEF Core, scopeVars, Goto, Release
<1>t. /\ pc \in [Requests -> Labels] /\ jobs \in [Identities -> Requests \cup {None}]
      /\ starting \in [Identities -> Requests \cup {None}]
  BY Zenon DEF CoreTypes, OrNone
<1>1. Reserved'     BY Zenon, <1>t DEF Reserved, Starting, Created
<1>2. JobsCreated'  BY Zenon, <1>t DEF JobsCreated, BeforeJob, Attaching, Created
<1>3. Untaken'      BY Zenon DEF Untaken
<1>4. Finalizing'   BY Zenon, <1>t DEF Finalizing, Ending, OneSummary, SummaryComplete
<1>5. JobsScoped'   BY Zenon, <1>t DEF JobsScoped, Scoped
<1>6. LogsClosed'   BY <1>t DEF LogsClosed, BeforeJob, Attaching
<1> QED BY Zenon, <1>1, <1>2, <1>3, <1>4, <1>5, <1>6

\* One stage of a request and the next, which holds no more and no less.
Following(a, b) ==
    \/ a = "idle" /\ b = "reserve"
    \/ a = "build" /\ b = "register"
    \/ a = "register" /\ b = "create"
    \/ a = "bind" /\ b = "unwind"
    \/ a = "unwind" /\ b = "forget"
    \/ a = "attach" /\ b = "attachBuild"
    \/ a = "attachBuild" /\ b = "attachSet"
    \/ a = "remove" /\ b = "drain"

\* A request goes on from one stage to such a next one; it may open its logs
\* where its scope is built.
LEMMA FollowCore ==
    ASSUME CoreTypes, Core, NEW r \in Requests, NEW l, Following(pc[r], l), Goto(r, l),
           UNCHANGED <<registryVars, cur, pending, closing, hosted, project, worker,
                       takenBy, summaries>>,
           \/ UNCHANGED logs
           \/ pc[r] \in {"build", "attachBuild"} /\ logs' = [logs EXCEPT ![r] = "open"]
    PROVE  Core'
<1> USE RegistryAssumption DEF Core, registryVars, Goto, Following
<1>t. /\ pc \in [Requests -> Labels] /\ jobs \in [Identities -> Requests \cup {None}]
      /\ logs \in [Requests -> {"none", "open", "closed"}]
      /\ project \in [Requests -> Requests \cup {None}]
  BY Zenon DEF CoreTypes, OrNone
<1>1. Reserved'     BY Zenon, <1>t DEF Reserved, Starting, Created
<1>2. JobsCreated'  BY Zenon, <1>t DEF JobsCreated, BeforeJob, Attaching, Created
<1>3. Untaken'      BY Zenon DEF Untaken
<1>4. Finalizing'   BY <1>t DEF Finalizing, Ending, OneSummary, SummaryComplete
<1>5. JobsScoped'   BY Zenon, <1>t DEF JobsScoped, Scoped
<1>6. LogsClosed'
  BY <1>t DEF LogsClosed, JobsCreated, Finalizing, BeforeJob, Attaching, Ending
<1> QED BY Zenon, <1>1, <1>2, <1>3, <1>4, <1>5, <1>6

\* Once opened, an identity stays so: Jobs and scopes are never taken back.
LEMMA OpenedStays ==
    ASSUME closing \subseteq closing', hosted \subseteq hosted',
           \A o \in Requests : project[o] # None => project'[o] # None,
           \A o \in Requests : worker[o] # "none" => worker'[o] # "none",
           NEW i \in Identities, Opened(i)
    PROVE  Opened(i)'
BY Zenon DEF Opened, Scoped

\* A step that touches neither the tracker nor the event workers.
LEMMA SilentStep ==
    ASSUME TypeOK, Wired, QuietAtFirst, NEW r \in Requests,
           NEW l \in Labels \ {"create", "staging"}, Goto(r, l),
           UNCHANGED <<eventCh, worker, channelOf, tracked, staged, queue>>,
           closing \subseteq closing', hosted \subseteq hosted',
           \A o \in Requests : project[o] # None => project'[o] # None
    PROVE  Wired' /\ QuietAtFirst'
<1>t. pc \in [Requests -> Labels]  BY Zenon DEF TypeOK
<1>1. Wired'  BY Zenon, <1>t DEF Wired, Goto
<1>2. ASSUME NEW i \in Identities, Quiet(i) PROVE Quiet(i)'
  BY Zenon, <1>2, <1>t DEF Quiet, Goto
<1>3. ASSUME NEW i \in Identities, Opened(i) PROVE Opened(i)'
  BY Zenon, <1>3, OpenedStays
<1> QED BY Zenon, <1>1, <1>2, <1>3 DEF QuietAtFirst

\* The same without a request that moves.
LEMMA SilentStill ==
    ASSUME Wired, QuietAtFirst,
           UNCHANGED <<pc, eventCh, worker, channelOf, tracked, staged, queue,
                       closing, hosted, project>>
    PROVE  Wired' /\ QuietAtFirst'
<1>1. Wired'  BY Zenon DEF Wired
<1>2. QuietAtFirst'  BY DEF QuietAtFirst, Quiet, Opened, Scoped
<1> QED BY Zenon, <1>1, <1>2

-----------------------------------------------------------------------------
(* Each step of a start keeps the invariant.                               *)

LEMMA ReserveNewInv == ASSUME IInv, NEW r \in Requests, ReserveNew(r) PROVE IInv'
<1>t. TypeOK /\ CoreTypes /\ Core /\ Wired /\ QuietAtFirst  BY Zenon, TypesOfCore DEF IInv
<1>1. TypeOK'
  BY Zenon, <1>t, RegistryAssumption DEF TypeOK, ReserveNew, AtReserve, Goto, Release,
     OrNone, Labels, registryVars, requestVars, scopeVars, workerVars, reportVars,
     trackerVars, agentVars
<1>2. /\ pc[r] \in {"idle", "reserve"}
      /\ jobs[IdOf[r]] = None /\ starting[IdOf[r]] = None
      /\ pc' = [pc EXCEPT ![r] = "build"]
      /\ starting' = [starting EXCEPT ![IdOf[r]] = r]
      /\ UNCHANGED <<jobs, cur, pending, closing, hosted, project, logs, worker, takenBy, summaries>>
  BY Zenon DEF ReserveNew, AtReserve, registryVars, requestVars, scopeVars, workerVars,
     reportVars, trackerVars, agentVars, Goto, Release
<1>3. Core'
  <2>t. CoreTypes /\ Core  BY Zenon, <1>t
  <2>1. Reserved'
    BY Zenon, <2>t, <1>2, RegistryAssumption DEF CoreTypes, OrNone, Core, Reserved,
       Starting, Created
  <2>2. JobsCreated'
    BY Zenon, <2>t, <1>2, RegistryAssumption DEF CoreTypes, OrNone, Core, JobsCreated,
       BeforeJob, Attaching, Created
  <2>3. Untaken'
    BY Zenon, <2>t, <1>2, RegistryAssumption DEF CoreTypes, OrNone, Core, Untaken
  <2>4. Finalizing'
    BY Zenon, <2>t, <1>2, RegistryAssumption DEF CoreTypes, OrNone, Core, Finalizing,
       Ending, OneSummary, SummaryComplete
  <2>5. JobsScoped'
    BY Zenon, <2>t, <1>2, RegistryAssumption DEF CoreTypes, OrNone, Core, JobsScoped,
       Scoped
  <2>6. LogsClosed'
    BY Zenon, <2>t, <1>2, RegistryAssumption DEF CoreTypes, OrNone, Core, LogsClosed,
       BeforeJob, Attaching
  <2> QED BY Zenon, <2>1, <2>2, <2>3, <2>4, <2>5, <2>6 DEF Core
<1>4. Wired' /\ QuietAtFirst'
  BY Zenon, <1>t, SilentStep DEF ReserveNew, AtReserve, Labels, registryVars, requestVars,
     scopeVars, workerVars, reportVars, trackerVars, agentVars
<1> QED BY Zenon, <1>1, <1>3, <1>4 DEF IInv

LEMMA ReserveExistingInv == ASSUME IInv, NEW r \in Requests, ReserveExisting(r) PROVE IInv'
<1>t. TypeOK /\ CoreTypes /\ Core /\ Wired /\ QuietAtFirst  BY Zenon, TypesOfCore DEF IInv
<1>1. TypeOK'
  BY <1>t, RegistryAssumption, SMTT(30) DEF TypeOK, ReserveExisting, AtReserve, Goto, Release,
     OrNone, Labels, registryVars, requestVars, scopeVars, workerVars, reportVars,
     trackerVars, agentVars
<1>2. Core'
  <2>0. /\ pc[r] \in {"idle", "reserve"}
        /\ UNCHANGED <<registryVars, pending, scopeVars, worker, takenBy, summaries>>
    BY Zenon DEF ReserveExisting, AtReserve, workerVars, reportVars
  <2>1. CASE Goto(r, "done") /\ UNCHANGED cur
    BY Zenon, <2>0, <2>1, <1>t, MoveCore DEF coreVars
  <2>2. CASE Goto(r, "restage") /\ UNCHANGED cur
    BY Zenon, <2>0, <2>2, <1>t, MoveCore DEF coreVars
  <2>3. CASE Goto(r, "attach") /\ cur' = [cur EXCEPT ![r] = jobs[IdOf[r]]]
    <3> USE <2>0, <2>3, <1>t, RegistryAssumption
        DEF CoreTypes, OrNone, Core, registryVars, scopeVars, Goto
    <3>1. Reserved'     BY Zenon DEF Reserved, Starting, Created
    <3>2. JobsCreated'  BY Zenon DEF JobsCreated, BeforeJob, Attaching, Created
    <3>3. Untaken'      BY Zenon DEF Untaken
    <3>4. Finalizing'   BY Zenon DEF Finalizing, Ending, OneSummary, SummaryComplete
    <3>5. JobsScoped'   BY Zenon DEF JobsScoped, Scoped
    <3>6. LogsClosed'   BY ZenonT(30) DEF LogsClosed, BeforeJob, Attaching
    <3> QED BY Zenon, <3>1, <3>2, <3>3, <3>4, <3>5, <3>6
  <2> QED BY Zenon, <2>1, <2>2, <2>3 DEF ReserveExisting
<1>3. Wired' /\ QuietAtFirst'
  BY Zenon, <1>t, SilentStep DEF ReserveExisting, AtReserve, Labels, registryVars,
     requestVars, scopeVars, workerVars, reportVars, trackerVars, agentVars
<1> QED BY Zenon, <1>1, <1>2, <1>3 DEF IInv

LEMMA ReserveInFlightInv == ASSUME IInv, NEW r \in Requests, ReserveInFlight(r) PROVE IInv'
<1>t. TypeOK /\ CoreTypes /\ Core /\ Wired /\ QuietAtFirst  BY Zenon, TypesOfCore DEF IInv
<1>1. TypeOK'
  BY Zenon, <1>t, RegistryAssumption DEF TypeOK, ReserveInFlight, AtReserve, Goto, Release,
     OrNone, Labels, registryVars, requestVars, scopeVars, workerVars, reportVars,
     trackerVars, agentVars
<1>2. Core'
  BY Zenon, <1>t, MoveCore DEF ReserveInFlight, AtReserve, coreVars, registryVars,
     requestVars, scopeVars, workerVars, reportVars, trackerVars, agentVars
<1>3. Wired' /\ QuietAtFirst'
  BY Zenon, <1>t, SilentStep DEF ReserveInFlight, AtReserve, Labels, registryVars,
     requestVars, scopeVars, workerVars, reportVars, trackerVars, agentVars
<1> QED BY Zenon, <1>1, <1>2, <1>3 DEF IInv

LEMMA BuildScopeInv == ASSUME IInv, NEW r \in Requests, BuildScope(r) PROVE IInv'
<1>t. TypeOK /\ CoreTypes /\ Core /\ Wired /\ QuietAtFirst  BY Zenon, TypesOfCore DEF IInv
<1>1. TypeOK'
  BY Zenon, <1>t, RegistryAssumption DEF TypeOK, BuildScope, Goto, Release, OrNone, Labels,
     registryVars, requestVars, scopeVars, workerVars, reportVars, trackerVars,
     agentVars
<1>2. Core'
  BY Zenon, <1>t, FollowCore DEF BuildScope, Following, registryVars, requestVars,
     scopeVars, workerVars, reportVars, trackerVars, agentVars
<1>3. Wired' /\ QuietAtFirst'
  BY Zenon, <1>t, SilentStep DEF BuildScope, Labels, registryVars, requestVars, scopeVars,
     workerVars, reportVars, trackerVars, agentVars
<1> QED BY Zenon, <1>1, <1>2, <1>3 DEF IInv

LEMMA BuildFailsInv == ASSUME IInv, NEW r \in Requests, BuildFails(r) PROVE IInv'
<1>t. TypeOK /\ CoreTypes /\ Core /\ Wired /\ QuietAtFirst  BY Zenon, TypesOfCore DEF IInv
<1>1. TypeOK'
  BY Zenon, <1>t, RegistryAssumption DEF TypeOK, BuildFails, Goto, Release, OrNone, Labels,
     registryVars, requestVars, scopeVars, workerVars, reportVars, trackerVars,
     agentVars
<1>2. Core'
  BY Zenon, <1>t, ReleaseCore DEF BuildFails, registryVars, requestVars, scopeVars,
     workerVars, reportVars, trackerVars, agentVars
<1>3. Wired' /\ QuietAtFirst'
  BY Zenon, <1>t, SilentStep DEF BuildFails, Labels, registryVars, requestVars, scopeVars,
     workerVars, reportVars, trackerVars, agentVars
<1> QED BY Zenon, <1>1, <1>2, <1>3 DEF IInv

LEMMA RegisterJobInv == ASSUME IInv, NEW r \in Requests, RegisterJob(r) PROVE IInv'
<1>t. TypeOK /\ CoreTypes /\ Core /\ Wired /\ QuietAtFirst  BY Zenon, TypesOfCore DEF IInv
<1>1. TypeOK'
<2>1. pc' \in [Requests -> Labels]  BY <1>t DEF TypeOK, RegisterJob, Goto, Labels
  <2>2. starting' \in [Identities -> OrNone(Requests)]
    BY Zenon, <1>t DEF TypeOK, RegisterJob, Release, OrNone
  <2>3. (IF channelOf[IdOf[r]] = None THEN r ELSE channelOf[IdOf[r]]) \in Requests
    BY Zenon, <1>t, RegistryAssumption DEF TypeOK, OrNone
  <2>4. channelOf' \in [Identities -> OrNone(Requests)]
    BY Zenon, <1>t, <2>3 DEF TypeOK, RegisterJob, OrNone
  <2>5. eventCh' \in [Requests -> OrNone(Requests)]
    BY <1>t, <2>3 DEF TypeOK, RegisterJob, OrNone
  <2> QED
    BY Zenon, <1>t, <2>1, <2>2, <2>4, <2>5 DEF TypeOK, RegisterJob, registryVars,
       requestVars, scopeVars, workerVars, reportVars, trackerVars, agentVars
<1>2. Core'
  <2>0. /\ pc[r] = "register"
        /\ \/ Goto(r, "create") /\ UNCHANGED starting
           \/ Goto(r, "done") /\ Release(r)
        /\ UNCHANGED <<jobs, cur, pending, scopeVars, worker, takenBy, summaries>>
    BY Zenon DEF RegisterJob, requestVars, reportVars
  <2>1. CASE Goto(r, "create") /\ UNCHANGED starting
    BY Zenon, <1>t, <2>0, <2>1, FollowCore DEF Following, registryVars, scopeVars
  <2>2. CASE Goto(r, "done") /\ Release(r)
    BY Zenon, <1>t, <2>0, <2>2, ReleaseCore
  <2> QED BY Zenon, <2>0, <2>1, <2>2
<1>3. Wired' /\ QuietAtFirst'
  <2> DEFINE i == IdOf[r]
             c == IF channelOf[i] = None THEN r ELSE channelOf[i]
  <2>t. /\ pc \in [Requests -> Labels] /\ eventCh \in [Requests -> OrNone(Requests)]
        /\ channelOf \in [Identities -> OrNone(Requests)] /\ i \in Identities
    BY Zenon, <1>t, RegistryAssumption DEF TypeOK
  <2>0. /\ channelOf' = [channelOf EXCEPT ![i] = c]
        /\ \/ eventCh' = [eventCh EXCEPT ![r] = c] /\ Goto(r, "create")
           \/ UNCHANGED eventCh /\ Goto(r, "done")
        /\ UNCHANGED <<scopeVars, worker, tracked, staged, queue>>
    BY Zenon DEF RegisterJob, registryVars, requestVars, scopeVars, workerVars, reportVars,
       trackerVars, agentVars
  <2>1. c # None /\ IdOf[c] = i
    BY Zenon, <1>t, RegistryAssumption DEF Wired
  <2> HIDE DEF c
  <2>2. Wired'
    BY Zenon, <1>t, <2>t, <2>0, <2>1 DEF Wired, Goto
  <2>3. ASSUME NEW j \in Identities, Quiet(j) PROVE Quiet(j)'
    BY Zenon, <2>t, <2>0, <2>3 DEF Quiet, Goto
  <2>4. ASSUME NEW j \in Identities, Opened(j) PROVE Opened(j)'
    BY Zenon, <2>0, <2>4, OpenedStays DEF scopeVars
  <2> QED BY Zenon, <1>t, <2>2, <2>3, <2>4 DEF QuietAtFirst
<1> QED BY Zenon, <1>1, <1>2, <1>3 DEF IInv

LEMMA RegisterNotSentInv == ASSUME IInv, NEW r \in Requests, RegisterNotSent(r) PROVE IInv'
<1>t. TypeOK /\ CoreTypes /\ Core /\ Wired /\ QuietAtFirst  BY Zenon, TypesOfCore DEF IInv
<1>1. TypeOK'
  BY Zenon, <1>t, RegistryAssumption DEF TypeOK, RegisterNotSent, Goto, Release, OrNone,
     Labels, registryVars, requestVars, scopeVars, workerVars, reportVars,
     trackerVars, agentVars
<1>2. Core'
  BY Zenon, <1>t, ReleaseCore DEF RegisterNotSent, registryVars, requestVars, scopeVars,
     workerVars, reportVars, trackerVars, agentVars
<1>3. Wired' /\ QuietAtFirst'
  BY Zenon, <1>t, SilentStep DEF RegisterNotSent, Labels, registryVars, requestVars,
     scopeVars, workerVars, reportVars, trackerVars, agentVars
<1> QED BY Zenon, <1>1, <1>2, <1>3 DEF IInv

LEMMA CreateJobInv == ASSUME IInv, NEW r \in Requests, CreateJob(r) PROVE IInv'
<1>t. TypeOK /\ CoreTypes /\ Core /\ Wired /\ QuietAtFirst  BY Zenon, TypesOfCore DEF IInv
<1>1. TypeOK'
  BY Zenon, <1>t, RegistryAssumption DEF TypeOK, CreateJob, Goto, Release, OrNone, Labels,
     registryVars, requestVars, scopeVars, workerVars, reportVars, trackerVars,
     agentVars
<1>2. /\ pc[r] = "create"
      /\ jobs' = [jobs EXCEPT ![IdOf[r]] = r]
      /\ worker' = [worker EXCEPT ![r] = "idle"]
      /\ pc' = [pc EXCEPT ![r] = "scope"]
      /\ UNCHANGED <<starting, cur, pending, closing, hosted, project, logs, takenBy, summaries>>
  BY Zenon DEF CreateJob, registryVars, requestVars, scopeVars, workerVars, reportVars,
     trackerVars, agentVars, Goto, Release
<1>3. Core'
  <2>t. CoreTypes /\ Core  BY Zenon, <1>t
  <2>1. Reserved'
    BY Zenon, <2>t, <1>2, RegistryAssumption DEF CoreTypes, OrNone, Core, Reserved,
       Starting, Created, Reserved
  <2>2. JobsCreated'
    BY Zenon, <2>t, <1>2, RegistryAssumption DEF CoreTypes, OrNone, Core, JobsCreated,
       BeforeJob, Attaching, Created
  <2>3. Untaken'
    BY <2>t, <1>2, RegistryAssumption DEF CoreTypes, OrNone, Core, Untaken,
       JobsCreated, BeforeJob
  <2>4. Finalizing'
    BY <2>t, <1>2, RegistryAssumption DEF CoreTypes, OrNone, Core, Finalizing,
       Ending, OneSummary, SummaryComplete, JobsCreated, BeforeJob
  <2>5. JobsScoped'
    BY Zenon, <2>t, <1>2, RegistryAssumption DEF CoreTypes, OrNone, Core, JobsScoped,
       Scoped
  <2>6. LogsClosed'
    BY Zenon, <2>t, <1>2, RegistryAssumption DEF CoreTypes, OrNone, Core, LogsClosed,
       BeforeJob, Attaching
  <2> QED BY Zenon, <2>1, <2>2, <2>3, <2>4, <2>5, <2>6 DEF Core
<1>4. Wired' /\ QuietAtFirst'
  <2>t. pc \in [Requests -> Labels] /\ worker \in [Requests -> {"none", "idle", "busy", "done"}]
    BY Zenon, <1>t DEF CoreTypes
  <2>0. /\ pc[r] = "create" /\ Goto(r, "scope") /\ worker' = [worker EXCEPT ![r] = "idle"]
        /\ UNCHANGED <<closing, hosted, project, eventCh, channelOf, tracked, staged, queue>>
    BY Zenon DEF CreateJob, registryVars, requestVars, scopeVars, workerVars, reportVars,
       trackerVars, agentVars
  <2>1. Wired'
    BY Zenon, <1>t, <2>t, <2>0 DEF Wired, Goto
  <2>2. ASSUME NEW j \in Identities, Quiet(j) PROVE Quiet(j)'
    BY Zenon, <2>t, <2>0, <2>2 DEF Quiet, Goto
  <2>3. ASSUME NEW j \in Identities, Opened(j) PROVE Opened(j)'
    BY Zenon, <2>t, <2>0, <2>3, OpenedStays
  <2> QED BY Zenon, <1>t, <2>1, <2>2, <2>3 DEF QuietAtFirst
<1> QED BY Zenon, <1>1, <1>3, <1>4 DEF IInv

LEMMA SetHostScopeInv == ASSUME IInv, NEW r \in Requests, SetHostScope(r) PROVE IInv'
<1>t. TypeOK /\ CoreTypes /\ Core /\ Wired /\ QuietAtFirst  BY Zenon, TypesOfCore DEF IInv
<1>1. TypeOK'
  BY <1>t, RegistryAssumption, SMTT(30) DEF TypeOK, SetHostScope, Goto, Release, OrNone,
     Labels, registryVars, requestVars, scopeVars, workerVars, reportVars,
     trackerVars, agentVars
<1>2. /\ pc[r] = "scope"
      /\ hosted' = IF r \in closing THEN hosted ELSE hosted \cup {r}
      /\ \/ /\ pc' = [pc EXCEPT ![r] = "bind"] /\ UNCHANGED starting
         \/ /\ starting' = [starting EXCEPT ![IdOf[r]] = None]
            /\ \/ pc' = [pc EXCEPT ![r] = "done"]
               \/ pc' = [pc EXCEPT ![r] = "restage"]
      /\ UNCHANGED <<jobs, cur, pending, closing, project, logs, worker, takenBy, summaries>>
  BY Zenon DEF SetHostScope, registryVars, requestVars, scopeVars, workerVars, reportVars,
     trackerVars, agentVars, Goto, Release
<1>3. Core'
  <2>t. CoreTypes /\ Core  BY Zenon, <1>t
  <2>1. Reserved'
    BY <2>t, <1>2, RegistryAssumption DEF CoreTypes, OrNone, Core, Reserved,
       Starting, Created
  <2>2. JobsCreated'
    BY <2>t, <1>2, RegistryAssumption DEF CoreTypes, OrNone, Core, JobsCreated,
       BeforeJob, Attaching, Created
  <2>3. Untaken'
    BY Zenon, <2>t, <1>2, RegistryAssumption DEF CoreTypes, OrNone, Core, Untaken
  <2>4. Finalizing'
    BY <2>t, <1>2, RegistryAssumption DEF CoreTypes, OrNone, Core, Finalizing,
       Ending, OneSummary, SummaryComplete
  <2>5. JobsScoped'
    BY <2>t, <1>2, RegistryAssumption DEF CoreTypes, OrNone, Core, JobsScoped,
       Scoped, Untaken
  <2>6. LogsClosed'
    BY <2>t, <1>2, RegistryAssumption DEF CoreTypes, OrNone, Core, LogsClosed,
       BeforeJob, Attaching, Finalizing, Ending
  <2> QED BY Zenon, <2>1, <2>2, <2>3, <2>4, <2>5, <2>6 DEF Core
<1>4. Wired' /\ QuietAtFirst'
  BY Zenon, <1>t, SilentStep DEF SetHostScope, Labels, registryVars, requestVars,
     scopeVars, workerVars, reportVars, trackerVars, agentVars
<1> QED BY Zenon, <1>1, <1>3, <1>4 DEF IInv

LEMMA SetProjectScopeInv == ASSUME IInv, NEW r \in Requests, SetProjectScope(r) PROVE IInv'
<1>t. TypeOK /\ CoreTypes /\ Core /\ Wired /\ QuietAtFirst  BY Zenon, TypesOfCore DEF IInv
<1>1. TypeOK'
<2>t. pc \in [Requests -> Labels] /\ starting \in [Identities -> OrNone(Requests)]
        /\ project \in [Requests -> OrNone(Requests)]
    BY Zenon, <1>t DEF TypeOK
  <2>1. pc' \in [Requests -> Labels]  BY Zenon, <2>t DEF SetProjectScope, Goto, Labels
  <2>2. starting' \in [Identities -> OrNone(Requests)]
    BY Zenon, <2>t DEF SetProjectScope, Release, OrNone
  <2>3. project' \in [Requests -> OrNone(Requests)]
    BY Zenon, <2>t DEF SetProjectScope, OrNone
  <2> QED
    BY Zenon, <1>t, <2>1, <2>2, <2>3 DEF TypeOK, SetProjectScope, registryVars, requestVars,
       scopeVars, workerVars, reportVars, trackerVars, agentVars
<1>2. /\ pc[r] = "scope"
      /\ \/ /\ r \in closing \/ project[r] = None
            /\ project' = IF r \in closing THEN project ELSE [project EXCEPT ![r] = r]
            /\ pc' = [pc EXCEPT ![r] = "bind"] /\ UNCHANGED starting
         \/ /\ r \notin closing /\ project[r] # None
            /\ pc' = [pc EXCEPT ![r] = "done"]
            /\ starting' = [starting EXCEPT ![IdOf[r]] = None] /\ UNCHANGED project
      /\ UNCHANGED <<jobs, cur, pending, closing, hosted, logs, worker, takenBy, summaries>>
  BY Zenon DEF SetProjectScope, registryVars, requestVars, scopeVars, workerVars,
     reportVars, trackerVars, agentVars, Goto, Release
<1>3. Core'
  <2>t. CoreTypes /\ Core  BY Zenon, <1>t
  <2>1. Reserved'
    BY <2>t, <1>2, RegistryAssumption DEF CoreTypes, OrNone, Core, Reserved,
       Starting, Created
  <2>2. JobsCreated'
    BY <2>t, <1>2, RegistryAssumption DEF CoreTypes, OrNone, Core, JobsCreated,
       BeforeJob, Attaching, Created
  <2>3. Untaken'
    BY Zenon, <2>t, <1>2, RegistryAssumption DEF CoreTypes, OrNone, Core, Untaken
  <2>4. Finalizing'
    BY <2>t, <1>2, RegistryAssumption DEF CoreTypes, OrNone, Core, Finalizing,
       Ending, OneSummary, SummaryComplete
  <2>5. JobsScoped'
    BY <2>t, <1>2, RegistryAssumption DEF CoreTypes, OrNone, Core, JobsScoped,
       Scoped, Untaken
  <2>6. LogsClosed'
    <3>t. /\ pc \in [Requests -> Labels]
          /\ project \in [Requests -> Requests \cup {None}]
      BY Zenon, <2>t DEF CoreTypes, OrNone
    <3>1. \A o \in Requests : project'[o] # None => project'[o] = project[o] \/ project'[o] = r
      BY Zenon, <1>2, <3>t
    <3>2. \A o \in Requests :
             project'[o] # None => pc'[project'[o]] \notin BeforeJob \cup Attaching
      BY <1>2, <2>t, <3>t, <3>1 DEF Core, LogsClosed, BeforeJob, Attaching
    <3>3. \A q \in Requests :
             pc'[q] = "emit" => pc[q] = "emit" /\ cur[q] \in closing /\ cur[q] \in Requests
      BY <1>2, <2>t, <3>t DEF Core, Finalizing, Ending
    <3>4. \A o \in closing : o \in Requests => project'[o] = project[o]
      BY Zenon, <1>2, <3>t
    <3>5. ASSUME NEW q \in Requests, pc'[q] = "emit"
          PROVE  /\ cur'[q] \in hosted' /\ "host" \notin pending'[q] => logs'[cur'[q]] = "closed"
                 /\ project'[cur'[q]] # None /\ "project" \notin pending'[q] =>
                       logs'[project'[cur'[q]]] = "closed"
      <4>1. project'[cur[q]] = project[cur[q]] /\ pc[q] = "emit"  BY Zenon, <3>3, <3>4, <3>5
      <4>2. UNCHANGED <<cur, hosted, pending, logs>>  BY Zenon, <1>2
      <4> QED BY Zenon, <2>t, <4>1, <4>2 DEF Core, LogsClosed
    <3> QED BY Zenon, <3>2, <3>5 DEF LogsClosed
  <2> QED BY Zenon, <2>1, <2>2, <2>3, <2>4, <2>5, <2>6 DEF Core
<1>4. Wired' /\ QuietAtFirst'
  <2>1. Goto(r, "bind") \/ Goto(r, "done")
    BY Zenon DEF SetProjectScope
  <2>2. UNCHANGED <<eventCh, worker, channelOf, tracked, staged, queue, closing, hosted>>
    BY Zenon DEF SetProjectScope, registryVars, requestVars, scopeVars, workerVars,
       reportVars, trackerVars, agentVars
  <2>3. \A o \in Requests : project[o] # None => project'[o] # None
    BY ZenonT(30), <1>t, <1>2, RegistryAssumption DEF CoreTypes, OrNone
  <2> QED BY Zenon, <1>t, <2>1, <2>2, <2>3, SilentStep DEF Labels
<1> QED BY Zenon, <1>1, <1>3, <1>4 DEF IInv

LEMMA BindStartProcessInv == ASSUME IInv, NEW r \in Requests, BindStartProcess(r) PROVE IInv'
<1>t. TypeOK /\ CoreTypes /\ Core /\ Wired /\ QuietAtFirst  BY Zenon, TypesOfCore DEF IInv
<1>1. TypeOK'
  BY Zenon, <1>t, RegistryAssumption DEF TypeOK, BindStartProcess, Goto, Release, OrNone,
     Labels, registryVars, requestVars, scopeVars, workerVars, reportVars,
     trackerVars, agentVars
<1>2. Core'
  BY Zenon, <1>t, ReleaseCore DEF BindStartProcess, registryVars, requestVars, scopeVars,
     workerVars, reportVars, trackerVars, agentVars
<1>3. Wired' /\ QuietAtFirst'
  <2>t. /\ pc \in [Requests -> Labels] /\ IdOf[r] \in Identities
        /\ tracked \in [Identities -> {"none", "active", "removed"}]
    BY Zenon, <1>t, RegistryAssumption DEF TypeOK
  <2>0. /\ pc[r] = "bind"
        /\ tracked' \in {tracked, [tracked EXCEPT ![IdOf[r]] = "active"]}
        /\ \E l \in {"unwind", "pod", "done"} : Goto(r, l)
        /\ UNCHANGED <<closing, hosted, project, worker, eventCh, channelOf, staged, queue>>
    BY ZenonT(60) DEF BindStartProcess, registryVars, requestVars, scopeVars, workerVars,
       reportVars, trackerVars, agentVars
  <2>1. Wired'
    BY Zenon, <1>t, <2>t, <2>0 DEF Wired, Goto
  <2>2. Opened(IdOf[r])
    BY Zenon, <1>t, <2>0 DEF Core, JobsScoped, JobsCreated, Created, Opened
  <2>3. ASSUME NEW j \in Identities \ {IdOf[r]}, Quiet(j) PROVE Quiet(j)'
    BY Zenon, <2>t, <2>0, <2>3 DEF Quiet, Goto
  <2>4. ASSUME NEW j \in Identities, Opened(j) PROVE Opened(j)'
    BY Zenon, <2>0, <2>4, OpenedStays
  <2> QED BY Zenon, <1>t, <2>t, <2>1, <2>2, <2>3, <2>4 DEF QuietAtFirst
<1> QED BY Zenon, <1>1, <1>2, <1>3 DEF IInv

LEMMA BindStartProcessFailsInv ==
    ASSUME IInv, NEW r \in Requests, BindStartProcessFails(r) PROVE IInv'
<1>t. TypeOK /\ CoreTypes /\ Core /\ Wired /\ QuietAtFirst  BY Zenon, TypesOfCore DEF IInv
<1>1. TypeOK'
  BY Zenon, <1>t, RegistryAssumption DEF TypeOK, BindStartProcessFails, Goto, Release,
     OrNone, Labels, registryVars, requestVars, scopeVars, workerVars, reportVars,
     trackerVars, agentVars
<1>2. Core'
  BY ZenonT(60), <1>t, FollowCore DEF BindStartProcessFails, Following, registryVars,
     requestVars, scopeVars, workerVars, reportVars, trackerVars, agentVars
<1>3. Wired' /\ QuietAtFirst'
  <2>t. /\ pc \in [Requests -> Labels] /\ IdOf[r] \in Identities
        /\ tracked \in [Identities -> {"none", "active", "removed"}]
    BY Zenon, <1>t, RegistryAssumption DEF TypeOK
  <2>0. /\ pc[r] = "bind"
        /\ tracked' \in {tracked, [tracked EXCEPT ![IdOf[r]] = "active"]}
        /\ \E l \in {"unwind", "pod", "done"} : Goto(r, l)
        /\ UNCHANGED <<closing, hosted, project, worker, eventCh, channelOf, staged, queue>>
    BY Zenon DEF BindStartProcessFails, registryVars, requestVars, scopeVars, workerVars,
       reportVars, trackerVars, agentVars
  <2>1. Wired'
    BY Zenon, <1>t, <2>t, <2>0 DEF Wired, Goto
  <2>2. Opened(IdOf[r])
    BY Zenon, <1>t, <2>0 DEF Core, JobsScoped, JobsCreated, Created, Opened
  <2>3. ASSUME NEW j \in Identities \ {IdOf[r]}, Quiet(j) PROVE Quiet(j)'
    BY Zenon, <2>t, <2>0, <2>3 DEF Quiet, Goto
  <2>4. ASSUME NEW j \in Identities, Opened(j) PROVE Opened(j)'
    BY Zenon, <2>0, <2>4, OpenedStays
  <2> QED BY Zenon, <1>t, <2>t, <2>1, <2>2, <2>3, <2>4 DEF QuietAtFirst
<1> QED BY Zenon, <1>1, <1>2, <1>3 DEF IInv

LEMMA BindPodCgroupTreeInv == ASSUME IInv, NEW r \in Requests, BindPodCgroupTree(r) PROVE IInv'
<1>t. TypeOK /\ CoreTypes /\ Core /\ Wired /\ QuietAtFirst  BY Zenon, TypesOfCore DEF IInv
<1>1. TypeOK'
  BY Zenon, <1>t, RegistryAssumption DEF TypeOK, BindPodCgroupTree, Goto, Release, OrNone,
     Labels, registryVars, requestVars, scopeVars, workerVars, reportVars,
     trackerVars, agentVars
<1>2. Core'
  BY ZenonT(60), <1>t, MoveCore DEF BindPodCgroupTree, coreVars, registryVars, requestVars,
     scopeVars, workerVars, reportVars, trackerVars, agentVars
<1>3. Wired' /\ QuietAtFirst'
  <2>t. /\ pc \in [Requests -> Labels] /\ IdOf[r] \in Identities
        /\ tracked \in [Identities -> {"none", "active", "removed"}]
    BY Zenon, <1>t, RegistryAssumption DEF TypeOK
  <2>0. /\ pc[r] = "pod"
        /\ tracked' \in {tracked, [tracked EXCEPT ![IdOf[r]] = "active"]}
        /\ \E l \in {"unwind", "pod", "done"} : Goto(r, l)
        /\ UNCHANGED <<closing, hosted, project, worker, eventCh, channelOf, staged, queue>>
    BY Zenon DEF BindPodCgroupTree, registryVars, requestVars, scopeVars, workerVars,
       reportVars, trackerVars, agentVars
  <2>1. Wired'
    BY Zenon, <1>t, <2>t, <2>0 DEF Wired, Goto
  <2>2. Opened(IdOf[r])
    BY Zenon, <1>t, <2>0 DEF Core, JobsScoped, JobsCreated, Created, Opened
  <2>3. ASSUME NEW j \in Identities \ {IdOf[r]}, Quiet(j) PROVE Quiet(j)'
    BY Zenon, <2>t, <2>0, <2>3 DEF Quiet, Goto
  <2>4. ASSUME NEW j \in Identities, Opened(j) PROVE Opened(j)'
    BY Zenon, <2>0, <2>4, OpenedStays
  <2> QED BY Zenon, <1>t, <2>t, <2>1, <2>2, <2>3, <2>4 DEF QuietAtFirst
<1> QED BY Zenon, <1>1, <1>2, <1>3 DEF IInv

LEMMA UnwindInv == ASSUME IInv, NEW r \in Requests, Unwind(r) PROVE IInv'
<1>t. TypeOK /\ CoreTypes /\ Core /\ Wired /\ QuietAtFirst  BY Zenon, TypesOfCore DEF IInv
<1>1. TypeOK'
<2>t. pc' \in [Requests -> Labels] /\ faults' \in 0 .. MaxFaults
    BY <1>t, RegistryAssumption DEF TypeOK, Unwind, RemoveFromTracker,
       RemoveFromTrackerFails, registryVars, requestVars, scopeVars, workerVars, reportVars,
       trackerVars, agentVars, Goto, Labels
  <2>1. IdOf[r] \in Identities
    BY Zenon, <1>t, RegistryAssumption DEF TypeOK
  <2>2. /\ channelOf' \in [Identities -> OrNone(Requests)]
        /\ tracked' \in [Identities -> {"none", "active", "removed"}]
        /\ staged' \subseteq Identities /\ closed' \subseteq Requests
    BY <1>t, <2>1 DEF TypeOK, OrNone, Unwind, RemoveFromTracker, RemoveFromTrackerFails,
       registryVars, requestVars, scopeVars, workerVars, reportVars, trackerVars, agentVars
  <2> QED
    BY ZenonT(60), <1>t, <2>t, <2>2 DEF TypeOK, Unwind, RemoveFromTracker,
       RemoveFromTrackerFails, registryVars, requestVars, scopeVars, workerVars, reportVars,
       trackerVars, agentVars
<1>2. Core'
  BY Zenon, <1>t, FollowCore DEF Unwind, RemoveFromTracker, RemoveFromTrackerFails,
     Following, registryVars, requestVars, scopeVars, workerVars, reportVars,
     trackerVars, agentVars
<1>3. Wired' /\ QuietAtFirst'
  <2>t. /\ pc \in [Requests -> Labels] /\ IdOf[r] \in Identities
        /\ tracked \in [Identities -> {"none", "active", "removed"}]
        /\ channelOf \in [Identities -> OrNone(Requests)]
    BY Zenon, <1>t, RegistryAssumption DEF TypeOK
  <2>0. /\ \/ UNCHANGED <<channelOf, tracked, staged>>
           \/ /\ channelOf' = [channelOf EXCEPT ![IdOf[r]] = None]
              /\ tracked' = [tracked EXCEPT ![IdOf[r]] = "none"]
              /\ staged' = staged \ {IdOf[r]}
        /\ Goto(r, "forget")
        /\ UNCHANGED <<closing, hosted, project, worker, eventCh, queue>>
    BY Zenon DEF Unwind, RemoveFromTracker, RemoveFromTrackerFails, registryVars,
       requestVars, scopeVars, workerVars, reportVars, trackerVars, agentVars
  <2>1. Wired'
    BY Zenon, <1>t, <2>t, <2>0 DEF Wired, Goto
  <2>2. ASSUME NEW j \in Identities, Quiet(j) PROVE Quiet(j)'
    BY Zenon, <2>t, <2>0, <2>2 DEF Quiet, Goto
  <2>3. ASSUME NEW j \in Identities, Opened(j) PROVE Opened(j)'
    BY Zenon, <2>0, <2>3, OpenedStays
  <2> QED BY Zenon, <1>t, <2>1, <2>2, <2>3 DEF QuietAtFirst
<1> QED BY Zenon, <1>1, <1>2, <1>3 DEF IInv

LEMMA ForgetInv == ASSUME IInv, NEW r \in Requests, Forget(r) PROVE IInv'
<1>t. TypeOK /\ CoreTypes /\ Core /\ Wired /\ QuietAtFirst  BY Zenon, TypesOfCore DEF IInv
<1>1. TypeOK'
  BY Zenon, <1>t, RegistryAssumption DEF TypeOK, Forget, Goto, Release, OrNone, Labels,
     registryVars, requestVars, scopeVars, workerVars, reportVars, trackerVars,
     agentVars
<1>2. /\ pc[r] = "forget"
      /\ jobs' = [jobs EXCEPT ![IdOf[r]] = None]
      /\ starting' = [starting EXCEPT ![IdOf[r]] = None]
      /\ pc' = [pc EXCEPT ![r] = "done"]
      /\ UNCHANGED <<cur, pending, closing, hosted, project, logs, worker, takenBy, summaries>>
  BY Zenon DEF Forget, registryVars, requestVars, scopeVars, workerVars, reportVars,
     trackerVars, agentVars, Goto, Release
<1>3. Core'
  <2>t. CoreTypes /\ Core  BY Zenon, <1>t
  <2>1. Reserved'
    BY Zenon, <2>t, <1>2, RegistryAssumption DEF CoreTypes, OrNone, Core, Reserved,
       Starting, Created
  <2>2. JobsCreated'
    BY Zenon, <2>t, <1>2, RegistryAssumption DEF CoreTypes, OrNone, Core, JobsCreated,
       BeforeJob, Attaching, Created
  <2>3. Untaken'
    BY Zenon, <2>t, <1>2, RegistryAssumption DEF CoreTypes, OrNone, Core, Untaken
  <2>4. Finalizing'
    BY Zenon, <2>t, <1>2, RegistryAssumption DEF CoreTypes, OrNone, Core, Finalizing,
       Ending, OneSummary, SummaryComplete
  <2>5. JobsScoped'
    BY Zenon, <2>t, <1>2, RegistryAssumption DEF CoreTypes, OrNone, Core, JobsScoped,
       Scoped
  <2>6. LogsClosed'
    BY Zenon, <2>t, <1>2, RegistryAssumption DEF CoreTypes, OrNone, Core, LogsClosed,
       BeforeJob, Attaching
  <2> QED BY Zenon, <2>1, <2>2, <2>3, <2>4, <2>5, <2>6 DEF Core
<1>4. Wired' /\ QuietAtFirst'
  BY Zenon, <1>t, SilentStep DEF Forget, Labels, registryVars, requestVars, scopeVars,
     workerVars, reportVars, trackerVars, agentVars
<1> QED BY Zenon, <1>1, <1>3, <1>4 DEF IInv

LEMMA AttachProjectInv == ASSUME IInv, NEW r \in Requests, AttachProject(r) PROVE IInv'
<1>t. TypeOK /\ CoreTypes /\ Core /\ Wired /\ QuietAtFirst  BY Zenon, TypesOfCore DEF IInv
<1>1. TypeOK'
  BY Zenon, <1>t, RegistryAssumption DEF TypeOK, AttachProject, Goto, Release, OrNone,
     Labels, registryVars, requestVars, scopeVars, workerVars, reportVars,
     trackerVars, agentVars
<1>2. Core'
  <2>0. /\ pc[r] = "attach" /\ (Goto(r, "attachBuild") \/ Goto(r, "done"))
        /\ UNCHANGED coreVars
    BY Zenon DEF AttachProject, coreVars, requestVars, workerVars, reportVars
  <2>1. CASE Goto(r, "attachBuild")
    BY Zenon, <1>t, <2>0, <2>1, FollowCore DEF Following, coreVars, scopeVars
  <2>2. CASE Goto(r, "done")
    BY Zenon, <1>t, <2>0, <2>2, MoveCore
  <2> QED BY Zenon, <2>0, <2>1, <2>2
<1>3. Wired' /\ QuietAtFirst'
  BY Zenon, <1>t, SilentStep DEF AttachProject, Labels, registryVars, requestVars,
     scopeVars, workerVars, reportVars, trackerVars, agentVars
<1> QED BY Zenon, <1>1, <1>2, <1>3 DEF IInv

LEMMA AttachBuildScopeInv == ASSUME IInv, NEW r \in Requests, AttachBuildScope(r) PROVE IInv'
<1>t. TypeOK /\ CoreTypes /\ Core /\ Wired /\ QuietAtFirst  BY Zenon, TypesOfCore DEF IInv
<1>1. TypeOK'
  BY <1>t, RegistryAssumption DEF TypeOK, AttachBuildScope, Goto, Release, OrNone,
     Labels, registryVars, requestVars, scopeVars, workerVars, reportVars,
     trackerVars, agentVars
<1>2. Core'
  <2>0. /\ pc[r] = "attachBuild"
        /\ \/ Goto(r, "attachSet") /\ logs' = [logs EXCEPT ![r] = "open"]
           \/ Goto(r, "done") /\ UNCHANGED logs
        /\ UNCHANGED <<registryVars, cur, pending, closing, hosted, project, worker,
                       takenBy, summaries>>
    BY Zenon DEF AttachBuildScope, requestVars, workerVars, reportVars
  <2>1. CASE Goto(r, "attachSet") /\ logs' = [logs EXCEPT ![r] = "open"]
    BY Zenon, <1>t, <2>0, <2>1, FollowCore DEF Following
  <2>2. CASE Goto(r, "done") /\ UNCHANGED logs
    BY Zenon, <1>t, <2>0, <2>2, MoveCore DEF coreVars, scopeVars
  <2> QED BY Zenon, <2>0, <2>1, <2>2
<1>3. Wired' /\ QuietAtFirst'
  BY Zenon, <1>t, SilentStep DEF AttachBuildScope, Labels, registryVars, requestVars,
     scopeVars, workerVars, reportVars, trackerVars, agentVars
<1> QED BY Zenon, <1>1, <1>2, <1>3 DEF IInv

LEMMA AttachSetScopeInv == ASSUME IInv, NEW r \in Requests, AttachSetScope(r) PROVE IInv'
<1>t. TypeOK /\ CoreTypes /\ Core /\ Wired /\ QuietAtFirst  BY Zenon, TypesOfCore DEF IInv
<1>1. TypeOK'
  BY Zenon, <1>t, RegistryAssumption DEF TypeOK, AttachSetScope, Goto, Release, OrNone,
     Labels, registryVars, requestVars, scopeVars, workerVars, reportVars,
     trackerVars, agentVars
<1>2. /\ pc[r] = "attachSet"
      /\ project' = IF cur[r] \notin closing /\ project[cur[r]] = None
                    THEN [project EXCEPT ![cur[r]] = r] ELSE project
      /\ pc' = [pc EXCEPT ![r] = "done"]
      /\ UNCHANGED <<jobs, starting, cur, pending, closing, hosted, logs, worker, takenBy, summaries>>
  BY Zenon DEF AttachSetScope, registryVars, requestVars, scopeVars, workerVars,
     reportVars, trackerVars, agentVars, Goto, Release
<1>3. Core'
  <2>t. CoreTypes /\ Core  BY Zenon, <1>t
  <2>1. Reserved'
    BY Zenon, <2>t, <1>2, RegistryAssumption DEF CoreTypes, OrNone, Core, Reserved,
       Starting, Created
  <2>2. JobsCreated'
    BY Zenon, <2>t, <1>2, RegistryAssumption DEF CoreTypes, OrNone, Core, JobsCreated,
       BeforeJob, Attaching, Created
  <2>3. Untaken'
    BY Zenon, <2>t, <1>2, RegistryAssumption DEF CoreTypes, OrNone, Core, Untaken
  <2>4. Finalizing'
    BY Zenon, <2>t, <1>2, RegistryAssumption DEF CoreTypes, OrNone, Core, Finalizing,
       Ending, OneSummary, SummaryComplete
  <2>5. JobsScoped'
    BY Zenon, <2>t, <1>2, RegistryAssumption DEF CoreTypes, OrNone, Core, JobsScoped,
       Scoped
  <2>6. LogsClosed'
    BY SMTT(30), <2>t, <1>2, RegistryAssumption DEF CoreTypes, OrNone, Core, LogsClosed,
       BeforeJob, Attaching, Finalizing, Ending
  <2> QED BY Zenon, <2>1, <2>2, <2>3, <2>4, <2>5, <2>6 DEF Core
<1>4. Wired' /\ QuietAtFirst'
  BY <1>t, SilentStep, <1>2 DEF AttachSetScope, Labels, registryVars, requestVars,
     scopeVars, workerVars, reportVars, trackerVars, agentVars
<1> QED BY Zenon, <1>1, <1>3, <1>4 DEF IInv

-----------------------------------------------------------------------------
(* So does each step of a staging request.                                 *)

LEMMA FindJobForPeerPIDInv == ASSUME IInv, NEW r \in Requests, FindJobForPeerPID(r) PROVE IInv'
<1>t. TypeOK /\ CoreTypes /\ Core /\ Wired /\ QuietAtFirst  BY Zenon, TypesOfCore DEF IInv
<1>1. TypeOK'
  BY Zenon, <1>t, RegistryAssumption DEF TypeOK, FindJobForPeerPID, Goto, Release, OrNone,
     Labels, registryVars, requestVars, scopeVars, workerVars, reportVars,
     trackerVars, agentVars
<1>2. Core'
  BY Zenon, <1>t, MoveCore DEF FindJobForPeerPID, coreVars, registryVars, requestVars,
     scopeVars, workerVars, reportVars, trackerVars, agentVars
<1>3. Wired' /\ QuietAtFirst'
  BY Zenon, <1>t, SilentStep DEF FindJobForPeerPID, Labels, registryVars, requestVars,
     scopeVars, workerVars, reportVars, trackerVars, agentVars
<1> QED BY Zenon, <1>1, <1>2, <1>3 DEF IInv

LEMMA StageLookupInv == ASSUME IInv, NEW r \in Requests, StageLookup(r) PROVE IInv'
<1>t. TypeOK /\ CoreTypes /\ Core /\ Wired /\ QuietAtFirst  BY Zenon, TypesOfCore DEF IInv
<1>1. TypeOK'
  BY ZenonT(30), <1>t, RegistryAssumption DEF TypeOK, StageLookup, Goto, Release, OrNone,
     Labels, registryVars, requestVars, scopeVars, workerVars, reportVars,
     trackerVars, agentVars
<1>2. Core'
  <2>0. /\ UNCHANGED coreVars
        /\ pc[r] \in {"idle", "restage"}
        /\ \/ Goto(r, "staging")
           \/ Goto(r, "reserve") /\ pc[r] = "idle"
           \/ Goto(r, "done")
    BY Zenon DEF StageLookup, coreVars, requestVars, workerVars, reportVars
  <2>1. CASE Goto(r, "staging") \/ Goto(r, "done")
    BY Zenon, <1>t, <2>0, <2>1, MoveCore
  <2>2. CASE Goto(r, "reserve") /\ pc[r] = "idle"
    BY Zenon, <1>t, <2>0, <2>2, FollowCore DEF Following, coreVars, scopeVars
  <2> QED BY Zenon, <2>0, <2>1, <2>2
<1>3. Wired' /\ QuietAtFirst'
  <2>t. pc \in [Requests -> Labels] /\ jobs \in [Identities -> OrNone(Requests)] /\ IdOf[r] \in Identities
    BY Zenon, <1>t, RegistryAssumption DEF CoreTypes
  <2>0. UNCHANGED <<eventCh, worker, channelOf, tracked, staged, queue, closing, hosted, project>>
    BY Zenon DEF StageLookup, registryVars, requestVars, scopeVars, workerVars, reportVars,
       trackerVars, agentVars
  <2>1. CASE Goto(r, "staging") /\ jobs[IdOf[r]] # None /\ starting[IdOf[r]] = None
    <3>1. Wired'
      BY Zenon, <1>t, <2>t, <2>0, <2>1 DEF Wired, Goto
    <3>2. Opened(IdOf[r])
      <4> DEFINE o == jobs[IdOf[r]]
      <4>1. o \in Requests /\ IdOf[o] = IdOf[r] /\ worker[o] # "none"
        BY Zenon, <1>t, <2>t, <2>1 DEF OrNone, Core, Untaken
      <4>2. Scoped(o) \/ pc[o] = "scope"
        BY Zenon, <1>t, <2>t, <2>1 DEF Core, JobsScoped
      <4>3. pc[o] # "scope"
        BY Zenon, <1>t, <2>1, <4>1, RegistryAssumption DEF Core, Reserved, Created
      <4> QED BY Zenon, <4>1, <4>2, <4>3 DEF Opened
    <3>3. ASSUME NEW j \in Identities \ {IdOf[r]}, Quiet(j) PROVE Quiet(j)'
      BY Zenon, <2>t, <2>0, <2>1, <3>3 DEF Quiet, Goto
    <3>4. ASSUME NEW j \in Identities, Opened(j) PROVE Opened(j)'
      BY Zenon, <2>0, <3>4, OpenedStays
    <3> QED BY Zenon, <1>t, <2>t, <3>1, <3>2, <3>3, <3>4 DEF QuietAtFirst
  <2>2. CASE Goto(r, "reserve") \/ Goto(r, "done")
    BY Zenon, <1>t, <2>0, <2>2, SilentStep DEF Labels
  <2> QED BY Zenon, <2>1, <2>2 DEF StageLookup
<1> QED BY Zenon, <1>1, <1>2, <1>3 DEF IInv

LEMMA StageCommandInv == ASSUME IInv, NEW r \in Requests, StageCommand(r) PROVE IInv'
<1>t. TypeOK /\ CoreTypes /\ Core /\ Wired /\ QuietAtFirst  BY Zenon, TypesOfCore DEF IInv
<1>1. TypeOK'
  BY ZenonT(30), <1>t, RegistryAssumption DEF TypeOK, StageCommand, Goto, Release, OrNone,
     Labels, registryVars, requestVars, scopeVars, workerVars, reportVars,
     trackerVars, agentVars
<1>2. Core'
  BY Zenon, <1>t, MoveCore DEF StageCommand, coreVars, registryVars, requestVars,
     scopeVars, workerVars, reportVars, trackerVars, agentVars
<1>3. Wired' /\ QuietAtFirst'
  <2>t. pc \in [Requests -> Labels] /\ IdOf[r] \in Identities
    BY Zenon, <1>t, RegistryAssumption DEF CoreTypes
  <2>0. /\ pc[r] = "staging" /\ Goto(r, "done")
        /\ staged' \in {staged, staged \cup {IdOf[r]}}
        /\ UNCHANGED <<closing, hosted, project, worker, eventCh, channelOf, tracked, queue>>
    BY Zenon DEF StageCommand, registryVars, requestVars, scopeVars, workerVars, reportVars,
       trackerVars, agentVars
  <2>1. Wired'
    BY Zenon, <1>t, <2>t, <2>0 DEF Wired, Goto
  <2>2. Opened(IdOf[r])
    BY Zenon, <1>t, <2>t, <2>0 DEF QuietAtFirst, Quiet
  <2>3. ASSUME NEW j \in Identities \ {IdOf[r]}, Quiet(j) PROVE Quiet(j)'
    BY Zenon, <2>t, <2>0, <2>3 DEF Quiet, Goto
  <2>4. ASSUME NEW j \in Identities, Opened(j) PROVE Opened(j)'
    BY Zenon, <2>0, <2>4, OpenedStays
  <2> QED BY Zenon, <1>t, <2>t, <2>1, <2>2, <2>3, <2>4 DEF QuietAtFirst
<1> QED BY Zenon, <1>1, <1>2, <1>3 DEF IInv

\* The first half of the induction: the requests that start Jobs and stage
\* basenames.
LEMMA StartStepInv == ASSUME IInv, NEW r \in Requests, StartStep(r) PROVE IInv'
BY Zenon, ReserveNewInv, ReserveExistingInv, ReserveInFlightInv, BuildScopeInv, BuildFailsInv,
   RegisterJobInv, RegisterNotSentInv, CreateJobInv, SetHostScopeInv, SetProjectScopeInv,
   BindStartProcessInv, BindStartProcessFailsInv, BindPodCgroupTreeInv, UnwindInv,
   ForgetInv, AttachProjectInv, AttachBuildScopeInv, AttachSetScopeInv DEF StartStep

LEMMA StageStepInv == ASSUME IInv, NEW r \in Requests, StageStep(r) PROVE IInv'
BY Zenon, FindJobForPeerPIDInv, StageLookupInv, StageCommandInv DEF StageStep

-----------------------------------------------------------------------------
(* Each step of the tracker and of an event worker keeps the invariant.    *)

LEMMA ContainerStartsInv == ASSUME IInv, NEW i \in Identities, ContainerStarts(i) PROVE IInv'
<1>t. TypeOK /\ CoreTypes /\ Core /\ Wired /\ QuietAtFirst  BY Zenon, TypesOfCore DEF IInv
<1>1. TypeOK'
  BY Zenon, <1>t, RegistryAssumption DEF TypeOK, ContainerStarts, Goto, Release, OrNone,
     Labels, registryVars, requestVars, scopeVars, workerVars, reportVars,
     trackerVars, agentVars
<1>2. Core'
  BY Zenon, <1>t, StillCore DEF ContainerStarts, coreVars, registryVars, requestVars,
     scopeVars, workerVars, reportVars, trackerVars, agentVars
<1>3. Wired' /\ QuietAtFirst'
  <2>t. tracked \in [Identities -> {"none", "active", "removed"}]
    BY Zenon, <1>t, RegistryAssumption DEF TypeOK
  <2>0. /\ i \in staged /\ staged' = staged \ {i}
        /\ tracked' = [tracked EXCEPT ![i] = "active"]
        /\ UNCHANGED <<pc, closing, hosted, project, worker, eventCh, channelOf, queue>>
    BY Zenon DEF ContainerStarts, registryVars, requestVars, scopeVars, workerVars,
       reportVars, trackerVars, agentVars
  <2>1. Wired'
    BY Zenon, <1>t, <2>t, <2>0 DEF Wired
  <2>2. Opened(i)
    BY Zenon, <1>t, <2>0 DEF QuietAtFirst, Quiet
  <2>3. ASSUME NEW j \in Identities \ {i}, Quiet(j) PROVE Quiet(j)'
    BY Zenon, <1>t, <2>t, <2>0, <2>3 DEF Quiet
  <2>4. ASSUME NEW j \in Identities, Opened(j) PROVE Opened(j)'
    BY Zenon, <2>0, <2>4, OpenedStays
  <2> QED BY Zenon, <1>t, <2>1, <2>2, <2>3, <2>4 DEF QuietAtFirst
<1> QED BY Zenon, <1>1, <1>2, <1>3 DEF IInv

LEMMA JobDrainedInv == ASSUME IInv, NEW i \in Identities, JobDrained(i) PROVE IInv'
<1>t. TypeOK /\ CoreTypes /\ Core /\ Wired /\ QuietAtFirst  BY Zenon, TypesOfCore DEF IInv
<1>1. TypeOK'
  BY <1>t, RegistryAssumption DEF TypeOK, JobDrained, Goto, Release, OrNone, Labels,
     registryVars, requestVars, scopeVars, workerVars, reportVars, trackerVars,
     agentVars
<1>2. Core'
  BY Zenon, <1>t, MoveCore DEF JobDrained, coreVars, registryVars, requestVars, scopeVars,
     workerVars, reportVars, trackerVars, agentVars
<1>3. Wired' /\ QuietAtFirst'
  <2>t. tracked \in [Identities -> {"none", "active", "removed"}] /\ pc \in [Requests -> Labels]
    BY Zenon, <1>t, RegistryAssumption DEF TypeOK
  <2>0. /\ tracked[i] = "active" /\ tracked' = [tracked EXCEPT ![i] = "removed"]
        /\ \E r \in Requests : Goto(r, "take")
        /\ UNCHANGED <<closing, hosted, project, worker, eventCh, channelOf, staged, queue>>
    BY Zenon DEF JobDrained, registryVars, requestVars, scopeVars, workerVars, reportVars,
       trackerVars, agentVars
  <2>1. Wired'
    BY Zenon, <1>t, <2>t, <2>0 DEF Wired, Goto
  <2>2. Opened(i)
    BY Zenon, <1>t, <2>0 DEF QuietAtFirst, Quiet
  <2>3. ASSUME NEW j \in Identities \ {i}, Quiet(j) PROVE Quiet(j)'
    BY Zenon, <1>t, <2>t, <2>0, <2>3 DEF Quiet, Goto
  <2>4. ASSUME NEW j \in Identities, Opened(j) PROVE Opened(j)'
    BY Zenon, <2>0, <2>4, OpenedStays
  <2> QED BY Zenon, <1>t, <2>1, <2>2, <2>3, <2>4 DEF QuietAtFirst
<1> QED BY Zenon, <1>1, <1>2, <1>3 DEF IInv

LEMMA EmitEventInv == ASSUME IInv, NEW i \in Identities, EmitEvent(i) PROVE IInv'
<1>t. TypeOK /\ CoreTypes /\ Core /\ Wired /\ QuietAtFirst  BY Zenon, TypesOfCore DEF IInv
<1>1. TypeOK'
<2>t. queue \in [Requests -> 0 .. QueueSize] /\ channelOf[i] \in Requests
    BY Zenon, <1>t DEF TypeOK, OrNone, EmitEvent
  <2>0. queue[channelOf[i]] < QueueSize /\ queue' = [queue EXCEPT ![channelOf[i]] = @ + 1]
    BY Zenon DEF EmitEvent
  <2>1. queue' \in [Requests -> 0 .. QueueSize]
    BY <2>t, <2>0, RegistryAssumption
  <2> QED
    BY Zenon, <1>t, <2>1 DEF TypeOK, EmitEvent, registryVars, requestVars, scopeVars,
       workerVars, reportVars, trackerVars, agentVars
<1>2. Core'
  BY Zenon, <1>t, StillCore DEF EmitEvent, coreVars, registryVars, requestVars, scopeVars,
     workerVars, reportVars, trackerVars, agentVars
<1>3. Wired' /\ QuietAtFirst'
  <2>t. queue \in [Requests -> 0 .. QueueSize]
    BY Zenon, <1>t, RegistryAssumption DEF TypeOK
  <2>0. /\ tracked[i] # "none" /\ channelOf[i] # None
        /\ queue' = [queue EXCEPT ![channelOf[i]] = @ + 1]
        /\ UNCHANGED <<pc, closing, hosted, project, worker, eventCh, channelOf, tracked, staged>>
    BY Zenon DEF EmitEvent, registryVars, requestVars, scopeVars, workerVars, reportVars,
       trackerVars, agentVars
  <2>1. Wired'
    BY Zenon, <1>t, <2>t, <2>0 DEF Wired
  <2>2. Opened(i)
    BY Zenon, <1>t, <2>0 DEF QuietAtFirst, Quiet
  <2>3. ASSUME NEW j \in Identities \ {i}, Quiet(j) PROVE Quiet(j)'
    BY Zenon, <1>t, <2>t, <2>0, <2>3 DEF Quiet, Wired
  <2>4. ASSUME NEW j \in Identities, Opened(j) PROVE Opened(j)'
    BY Zenon, <2>0, <2>4, OpenedStays
  <2> QED BY Zenon, <1>t, <2>1, <2>2, <2>3, <2>4 DEF QuietAtFirst
<1> QED BY Zenon, <1>1, <1>2, <1>3 DEF IInv

LEMMA ReceiveEventInv == ASSUME IInv, NEW o \in Requests, ReceiveEvent(o) PROVE IInv'
<1>t. TypeOK /\ CoreTypes /\ Core /\ Wired /\ QuietAtFirst  BY Zenon, TypesOfCore DEF IInv
<1>1. TypeOK'
<2>t. queue \in [Requests -> 0 .. QueueSize] /\ eventCh[o] \in Requests
    BY ZenonT(30), <1>t DEF TypeOK, OrNone, ReceiveEvent, Wired
  <2>0. queue[eventCh[o]] > 0 /\ queue' = [queue EXCEPT ![eventCh[o]] = @ - 1]
    BY Zenon DEF ReceiveEvent
  <2>1. queue' \in [Requests -> 0 .. QueueSize]
    BY <2>t, <2>0, RegistryAssumption
  <2>2. worker' \in [Requests -> {"none", "idle", "busy", "done"}]
    BY Zenon, <1>t DEF TypeOK, ReceiveEvent
  <2> QED
    BY Zenon, <1>t, <2>1, <2>2 DEF TypeOK, ReceiveEvent, registryVars, requestVars,
       scopeVars, workerVars, reportVars, trackerVars, agentVars
<1>2. /\ worker[o] = "idle" /\ worker' = [worker EXCEPT ![o] = "busy"]
      /\ UNCHANGED <<jobs, starting, pc, cur, pending, closing, hosted, project, logs, takenBy, summaries>>
  BY Zenon DEF ReceiveEvent, registryVars, requestVars, scopeVars, workerVars, reportVars,
     trackerVars, agentVars, Goto, Release
<1>3. Core'
  <2>t. CoreTypes /\ Core  BY Zenon, <1>t
  <2>1. Reserved'
    BY Zenon, <2>t, <1>2, RegistryAssumption DEF CoreTypes, OrNone, Core, Reserved,
       Starting, Created
  <2>2. JobsCreated'
    BY Zenon, <2>t, <1>2, RegistryAssumption DEF CoreTypes, OrNone, Core, JobsCreated,
       BeforeJob, Attaching, Created
  <2>3. Untaken'
    BY <2>t, <1>2, RegistryAssumption DEF CoreTypes, OrNone, Core, Untaken
  <2>4. Finalizing'
    BY Zenon, <2>t, <1>2, RegistryAssumption DEF CoreTypes, OrNone, Core, Finalizing,
       Ending, OneSummary, SummaryComplete
  <2>5. JobsScoped'
    BY Zenon, <2>t, <1>2, RegistryAssumption DEF CoreTypes, OrNone, Core, JobsScoped,
       Scoped
  <2>6. LogsClosed'
    BY Zenon, <2>t, <1>2, RegistryAssumption DEF CoreTypes, OrNone, Core, LogsClosed,
       BeforeJob, Attaching
  <2> QED BY Zenon, <2>1, <2>2, <2>3, <2>4, <2>5, <2>6 DEF Core
<1>4. Wired' /\ QuietAtFirst'
  <2>t. /\ worker \in [Requests -> {"none", "idle", "busy", "done"}] /\ IdOf[o] \in Identities
        /\ queue \in [Requests -> 0 .. QueueSize] /\ eventCh[o] \in OrNone(Requests)
    BY Zenon, <1>t, RegistryAssumption DEF TypeOK
  <2>0. /\ worker[o] = "idle" /\ worker' = [worker EXCEPT ![o] = "busy"]
        /\ queue[eventCh[o]] > 0 /\ queue' = [queue EXCEPT ![eventCh[o]] = @ - 1]
        /\ UNCHANGED <<pc, closing, hosted, project, eventCh, channelOf, tracked, staged>>
    BY Zenon DEF ReceiveEvent, registryVars, requestVars, scopeVars, workerVars, reportVars,
       trackerVars, agentVars
  <2>1. Wired'
    BY Zenon, <1>t, <2>t, <2>0 DEF Wired
  <2>2. eventCh[o] \in Requests /\ IdOf[eventCh[o]] = IdOf[o]
    BY Zenon, <1>t, <2>t, <2>0 DEF Wired, OrNone
  <2>3. Opened(IdOf[o])
    BY <1>t, <2>t, <2>0, <2>2 DEF QuietAtFirst, Quiet
  <2>4. ASSUME NEW j \in Identities \ {IdOf[o]}, Quiet(j) PROVE Quiet(j)'
    BY Zenon, <2>t, <2>0, <2>2, <2>4 DEF Quiet
  <2>5. ASSUME NEW j \in Identities, Opened(j) PROVE Opened(j)'
    BY Zenon, <2>t, <2>0, <2>5, OpenedStays
  <2> QED BY Zenon, <1>t, <2>t, <2>1, <2>3, <2>4, <2>5 DEF QuietAtFirst
<1> QED BY Zenon, <1>1, <1>3, <1>4 DEF IInv

LEMMA ProcessEventInv == ASSUME IInv, NEW o \in Requests, ProcessEvent(o) PROVE IInv'
<1>t. TypeOK /\ CoreTypes /\ Core /\ Wired /\ QuietAtFirst  BY Zenon, TypesOfCore DEF IInv
<1>1. TypeOK'
  BY Zenon, <1>t, RegistryAssumption DEF TypeOK, ProcessEvent, Goto, Release, OrNone,
     Labels, registryVars, requestVars, scopeVars, workerVars, reportVars,
     trackerVars, agentVars
<1>2. /\ worker[o] = "busy" /\ worker' = [worker EXCEPT ![o] = "idle"]
      /\ UNCHANGED <<jobs, starting, pc, cur, pending, closing, hosted, project, logs, takenBy, summaries>>
  BY Zenon DEF ProcessEvent, registryVars, requestVars, scopeVars, workerVars, reportVars,
     trackerVars, agentVars, Goto, Release
<1>3. Core'
  <2>t. CoreTypes /\ Core  BY Zenon, <1>t
  <2>1. Reserved'
    BY Zenon, <2>t, <1>2, RegistryAssumption DEF CoreTypes, OrNone, Core, Reserved,
       Starting, Created
  <2>2. JobsCreated'
    BY Zenon, <2>t, <1>2, RegistryAssumption DEF CoreTypes, OrNone, Core, JobsCreated,
       BeforeJob, Attaching, Created
  <2>3. Untaken'
    BY <2>t, <1>2, RegistryAssumption DEF CoreTypes, OrNone, Core, Untaken
  <2>4. Finalizing'
    BY Zenon, <2>t, <1>2, RegistryAssumption DEF CoreTypes, OrNone, Core, Finalizing,
       Ending, OneSummary, SummaryComplete
  <2>5. JobsScoped'
    BY Zenon, <2>t, <1>2, RegistryAssumption DEF CoreTypes, OrNone, Core, JobsScoped,
       Scoped
  <2>6. LogsClosed'
    BY Zenon, <2>t, <1>2, RegistryAssumption DEF CoreTypes, OrNone, Core, LogsClosed,
       BeforeJob, Attaching
  <2> QED BY Zenon, <2>1, <2>2, <2>3, <2>4, <2>5, <2>6 DEF Core
<1>4. Wired' /\ QuietAtFirst'
  <2>t. worker \in [Requests -> {"none", "idle", "busy", "done"}]
    BY Zenon, <1>t DEF TypeOK
  <2>0. /\ worker[o] = "busy" /\ worker' = [worker EXCEPT ![o] = "idle"]
        /\ UNCHANGED <<pc, closing, hosted, project, eventCh, channelOf, tracked, staged, queue>>
    BY Zenon DEF ProcessEvent, registryVars, requestVars, scopeVars, workerVars, reportVars,
       trackerVars, agentVars
  <2>1. Wired'
    BY Zenon, <1>t, <2>t, <2>0 DEF Wired
  <2>2. ASSUME NEW j \in Identities, Quiet(j) PROVE Quiet(j)'
    BY Zenon, <2>t, <2>0, <2>2 DEF Quiet
  <2>3. ASSUME NEW j \in Identities, Opened(j) PROVE Opened(j)'
    BY Zenon, <2>t, <2>0, <2>3, OpenedStays
  <2> QED BY Zenon, <1>t, <2>1, <2>2, <2>3 DEF QuietAtFirst
<1> QED BY Zenon, <1>1, <1>3, <1>4 DEF IInv

LEMMA WorkerExitsInv == ASSUME IInv, NEW o \in Requests, WorkerExits(o) PROVE IInv'
<1>t. TypeOK /\ CoreTypes /\ Core /\ Wired /\ QuietAtFirst  BY Zenon, TypesOfCore DEF IInv
<1>1. TypeOK'
  BY Zenon, <1>t, RegistryAssumption DEF TypeOK, WorkerExits, Goto, Release, OrNone,
     Labels, registryVars, requestVars, scopeVars, workerVars, reportVars,
     trackerVars, agentVars
<1>2. /\ worker[o] = "idle" /\ worker' = [worker EXCEPT ![o] = "done"]
      /\ UNCHANGED <<jobs, starting, pc, cur, pending, closing, hosted, project, logs, takenBy, summaries>>
  BY Zenon DEF WorkerExits, registryVars, requestVars, scopeVars, workerVars, reportVars,
     trackerVars, agentVars, Goto, Release
<1>3. Core'
  <2>t. CoreTypes /\ Core  BY Zenon, <1>t
  <2>1. Reserved'
    BY Zenon, <2>t, <1>2, RegistryAssumption DEF CoreTypes, OrNone, Core, Reserved,
       Starting, Created
  <2>2. JobsCreated'
    BY Zenon, <2>t, <1>2, RegistryAssumption DEF CoreTypes, OrNone, Core, JobsCreated,
       BeforeJob, Attaching, Created
  <2>3. Untaken'
    BY <2>t, <1>2, RegistryAssumption DEF CoreTypes, OrNone, Core, Untaken
  <2>4. Finalizing'
    BY Zenon, <2>t, <1>2, RegistryAssumption DEF CoreTypes, OrNone, Core, Finalizing,
       Ending, OneSummary, SummaryComplete
  <2>5. JobsScoped'
    BY Zenon, <2>t, <1>2, RegistryAssumption DEF CoreTypes, OrNone, Core, JobsScoped,
       Scoped
  <2>6. LogsClosed'
    BY Zenon, <2>t, <1>2, RegistryAssumption DEF CoreTypes, OrNone, Core, LogsClosed,
       BeforeJob, Attaching
  <2> QED BY Zenon, <2>1, <2>2, <2>3, <2>4, <2>5, <2>6 DEF Core
<1>4. Wired' /\ QuietAtFirst'
  <2>t. worker \in [Requests -> {"none", "idle", "busy", "done"}]
    BY Zenon, <1>t DEF TypeOK
  <2>0. /\ worker[o] = "idle" /\ worker' = [worker EXCEPT ![o] = "done"]
        /\ UNCHANGED <<pc, closing, hosted, project, eventCh, channelOf, tracked, staged, queue>>
    BY Zenon DEF WorkerExits, registryVars, requestVars, scopeVars, workerVars, reportVars,
       trackerVars, agentVars
  <2>1. Wired'
    BY Zenon, <1>t, <2>t, <2>0 DEF Wired
  <2>2. ASSUME NEW j \in Identities, Quiet(j) PROVE Quiet(j)'
    BY Zenon, <2>t, <2>0, <2>2 DEF Quiet
  <2>3. ASSUME NEW j \in Identities, Opened(j) PROVE Opened(j)'
    BY Zenon, <2>t, <2>0, <2>3, OpenedStays
  <2> QED BY Zenon, <1>t, <2>1, <2>2, <2>3 DEF QuietAtFirst
<1> QED BY Zenon, <1>1, <1>3, <1>4 DEF IInv

LEMMA DeadlinePassesInv == ASSUME IInv, NEW o \in Requests, DeadlinePasses(o) PROVE IInv'
<1>t. TypeOK /\ CoreTypes /\ Core /\ Wired /\ QuietAtFirst  BY Zenon, TypesOfCore DEF IInv
<1>1. TypeOK'
  BY Zenon, <1>t, RegistryAssumption DEF TypeOK, DeadlinePasses, Goto, Release, OrNone,
     Labels, registryVars, requestVars, scopeVars, workerVars, reportVars,
     trackerVars, agentVars
<1>2. Core'
  BY Zenon, <1>t, StillCore DEF DeadlinePasses, coreVars, registryVars, requestVars,
     scopeVars, workerVars, reportVars, trackerVars, agentVars
<1>3. Wired' /\ QuietAtFirst'
  BY Zenon, <1>t, SilentStill DEF DeadlinePasses, Labels, registryVars, requestVars,
     scopeVars, workerVars, reportVars, trackerVars, agentVars
<1> QED BY Zenon, <1>1, <1>2, <1>3 DEF IInv

-----------------------------------------------------------------------------
(* So does each step of a finalizer and of the shutdown.                   *)

LEMMA HostEndLookupInv == ASSUME IInv, NEW r \in Requests, HostEndLookup(r) PROVE IInv'
<1>t. TypeOK /\ CoreTypes /\ Core /\ Wired /\ QuietAtFirst  BY Zenon, TypesOfCore DEF IInv
<1>1. TypeOK'
  BY Zenon, <1>t, RegistryAssumption DEF TypeOK, HostEndLookup, Goto, Release, OrNone,
     Labels, registryVars, requestVars, scopeVars, workerVars, reportVars,
     trackerVars, agentVars
<1>2. Core'
  BY Zenon, <1>t, MoveCore DEF HostEndLookup, coreVars, registryVars, requestVars,
     scopeVars, workerVars, reportVars, trackerVars, agentVars
<1>3. Wired' /\ QuietAtFirst'
  BY Zenon, <1>t, SilentStep DEF HostEndLookup, Labels, registryVars, requestVars,
     scopeVars, workerVars, reportVars, trackerVars, agentVars
<1> QED BY Zenon, <1>1, <1>2, <1>3 DEF IInv

LEMMA HostEndVerifyInv == ASSUME IInv, NEW r \in Requests, HostEndVerify(r) PROVE IInv'
<1>t. TypeOK /\ CoreTypes /\ Core /\ Wired /\ QuietAtFirst  BY Zenon, TypesOfCore DEF IInv
<1>1. TypeOK'
  BY <1>t, RegistryAssumption, SMTT(30) DEF TypeOK, HostEndVerify, Goto, Release, OrNone,
     Labels, registryVars, requestVars, scopeVars, workerVars, reportVars,
     trackerVars, agentVars
<1>2. Core'
  BY Zenon, <1>t, MoveCore DEF HostEndVerify, coreVars, registryVars, requestVars,
     scopeVars, workerVars, reportVars, trackerVars, agentVars
<1>3. Wired' /\ QuietAtFirst'
  BY Zenon, <1>t, SilentStep DEF HostEndVerify, Labels, registryVars, requestVars,
     scopeVars, workerVars, reportVars, trackerVars, agentVars
<1> QED BY Zenon, <1>1, <1>2, <1>3 DEF IInv

LEMMA FindExpiredJobsInv == ASSUME IInv, NEW r \in Requests, FindExpiredJobs(r) PROVE IInv'
<1>t. TypeOK /\ CoreTypes /\ Core /\ Wired /\ QuietAtFirst  BY Zenon, TypesOfCore DEF IInv
<1>1. TypeOK'
  BY Zenon, <1>t, RegistryAssumption DEF TypeOK, FindExpiredJobs, Onward, Goto, Release,
     OrNone, Labels, registryVars, requestVars, scopeVars, workerVars, reportVars,
     trackerVars, agentVars
<1>2. Core'
  BY Zenon, <1>t, MoveCore DEF FindExpiredJobs, Onward, coreVars, registryVars,
     requestVars, scopeVars, workerVars, reportVars, trackerVars, agentVars
<1>3. Wired' /\ QuietAtFirst'
  BY Zenon, <1>t, SilentStep DEF FindExpiredJobs, Onward, Labels, registryVars,
     requestVars, scopeVars, workerVars, reportVars, trackerVars, agentVars
<1> QED BY Zenon, <1>1, <1>2, <1>3 DEF IInv

LEMMA StopListeningInv == ASSUME IInv, NEW r \in Requests, StopListening(r) PROVE IInv'
<1>t. TypeOK /\ CoreTypes /\ Core /\ Wired /\ QuietAtFirst  BY Zenon, TypesOfCore DEF IInv
<1>1. TypeOK'
  BY Zenon, <1>t, RegistryAssumption DEF TypeOK, StopListening, Goto, Release, OrNone,
     Labels, registryVars, requestVars, scopeVars, workerVars, reportVars,
     trackerVars, agentVars
<1>2. Core'
  BY Zenon, <1>t, MoveCore DEF StopListening, coreVars, registryVars, requestVars,
     scopeVars, workerVars, reportVars, trackerVars, agentVars
<1>3. Wired' /\ QuietAtFirst'
  BY Zenon, <1>t, SilentStep DEF StopListening, Labels, registryVars, requestVars,
     scopeVars, workerVars, reportVars, trackerVars, agentVars
<1> QED BY Zenon, <1>1, <1>2, <1>3 DEF IInv

LEMMA SnapshotJobsInv == ASSUME IInv, NEW r \in Requests, SnapshotJobs(r) PROVE IInv'
<1>t. TypeOK /\ CoreTypes /\ Core /\ Wired /\ QuietAtFirst  BY Zenon, TypesOfCore DEF IInv
<1>1. TypeOK'
  BY Zenon, <1>t, RegistryAssumption DEF TypeOK, SnapshotJobs, Onward, Goto, Release,
     OrNone, Labels, registryVars, requestVars, scopeVars, workerVars, reportVars,
     trackerVars, agentVars
<1>2. Core'
  BY Zenon, <1>t, MoveCore DEF SnapshotJobs, Onward, coreVars, registryVars, requestVars,
     scopeVars, workerVars, reportVars, trackerVars, agentVars
<1>3. Wired' /\ QuietAtFirst'
  BY Zenon, <1>t, SilentStep DEF SnapshotJobs, Onward, Labels, registryVars, requestVars,
     scopeVars, workerVars, reportVars, trackerVars, agentVars
<1> QED BY Zenon, <1>1, <1>2, <1>3 DEF IInv

LEMMA TakeJobInv ==
    ASSUME IInv, NEW r \in Requests, NEW i \in Identities, TakeJob(r, i)
    PROVE  IInv'
<1>t. TypeOK /\ CoreTypes /\ Core /\ Wired /\ QuietAtFirst  BY Zenon, TypesOfCore DEF IInv
<1>1. TypeOK'
<2>1. pc' \in [Requests -> Labels]
    BY <1>t DEF TypeOK, TakeJob, Goto, Onward, Labels
  <2>2. todo' \in [Requests -> SUBSET Identities]
    BY Zenon, <1>t DEF TypeOK, TakeJob
  <2>3. jobs' \in [Identities -> OrNone(Requests)]
    BY Zenon, <1>t DEF TypeOK, TakeJob, OrNone
  <2>4. cur' \in [Requests -> OrNone(Requests)] /\ takenBy' \in [Requests -> OrNone(Requests)]
    BY SMTT(30), <1>t DEF TypeOK, TakeJob, OrNone
  <2> QED
    BY Zenon, <1>t, <2>1, <2>2, <2>3, <2>4 DEF TypeOK, TakeJob, Onward, registryVars,
       requestVars, scopeVars, workerVars, reportVars, trackerVars, agentVars
<1>2. Core'
  <2>0. /\ pc[r] = "take"
        /\ UNCHANGED <<starting, pending, scopeVars, worker, summaries>>
    BY Zenon DEF TakeJob, workerVars
  <2>1. CASE jobs[i] = None
    <3>1. UNCHANGED coreVars
      BY Zenon, <2>0, <2>1 DEF TakeJob, coreVars, registryVars
    <3>2. Goto(r, "take") \/ Goto(r, "stop") \/ Goto(r, "done")
      BY Zenon, <2>1 DEF TakeJob, Onward
    <3> QED BY Zenon, <1>t, <2>0, <3>1, <3>2, MoveCore
  <2>2. CASE jobs[i] # None
    <3> DEFINE o == jobs[i]
    <3>0. /\ jobs' = [jobs EXCEPT ![i] = None]
          /\ cur' = [cur EXCEPT ![r] = o]
          /\ takenBy' = [takenBy EXCEPT ![o] = r]
          /\ pc' = [pc EXCEPT ![r] = "close"]
          /\ UNCHANGED <<starting, pending, closing, hosted, project, logs, worker, summaries>>
      BY Zenon, <2>0, <2>2 DEF TakeJob, Goto, scopeVars
    <3>1. /\ o \in Requests /\ worker[o] # "none" /\ takenBy[o] = None
          /\ o \notin closing /\ summaries[o] = 0 /\ IdOf[o] = i
      BY <1>t, <2>2 DEF CoreTypes, OrNone, Core, Untaken
    <3> HIDE DEF o
    <3> USE <1>t, <2>0, <3>0, <3>1, RegistryAssumption DEF CoreTypes, OrNone, Core
    <3>2. Reserved'     BY Zenon DEF Reserved, Starting, Created
    <3>3. JobsCreated'  BY Zenon DEF JobsCreated, BeforeJob, Attaching, Created
    <3>4. Untaken'      BY DEF Untaken, o
    <3>5. Finalizing'   BY DEF Finalizing, Ending, OneSummary, SummaryComplete
    <3>6. JobsScoped'   BY ZenonT(30) DEF JobsScoped, Scoped
    <3>7. LogsClosed'   BY ZenonT(30) DEF LogsClosed, BeforeJob, Attaching
    <3> QED BY Zenon, <3>2, <3>3, <3>4, <3>5, <3>6, <3>7
  <2> QED BY Zenon, <2>1, <2>2
<1>3. Wired' /\ QuietAtFirst'
  <2>1. \E l \in {"take", "stop", "done", "close"} : Goto(r, l)
    BY Zenon DEF TakeJob, Onward
  <2>2. UNCHANGED <<eventCh, worker, channelOf, tracked, staged, queue, closing, hosted, project>>
    BY Zenon DEF TakeJob, scopeVars, workerVars, trackerVars
  <2> QED BY Zenon, <1>t, <2>1, <2>2, SilentStep DEF Labels
<1> QED BY Zenon, <1>1, <1>2, <1>3 DEF IInv

LEMMA MarkClosingInv == ASSUME IInv, NEW r \in Requests, MarkClosing(r) PROVE IInv'
<1>t. TypeOK /\ CoreTypes /\ Core /\ Wired /\ QuietAtFirst  BY Zenon, TypesOfCore DEF IInv
<1>1. TypeOK'
  BY <1>t, RegistryAssumption DEF TypeOK, Core, Finalizing, Ending, MarkClosing,
     Goto, Release, OrNone, Labels, registryVars, requestVars, scopeVars,
     workerVars, reportVars, trackerVars, agentVars
<1>2. /\ pc[r] = "close" /\ closing' = closing \cup {cur[r]}
      /\ pc' = [pc EXCEPT ![r] = "remove"]
      /\ UNCHANGED <<jobs, starting, cur, pending, hosted, project, logs, worker, takenBy, summaries>>
  BY Zenon DEF MarkClosing, registryVars, requestVars, scopeVars, workerVars, reportVars,
     trackerVars, agentVars, Goto, Release
<1>3. Core'
  <2>t. CoreTypes /\ Core  BY Zenon, <1>t
  <2>1. Reserved'
    BY Zenon, <2>t, <1>2, RegistryAssumption DEF CoreTypes, OrNone, Core, Reserved,
       Starting, Created
  <2>2. JobsCreated'
    BY Zenon, <2>t, <1>2, RegistryAssumption DEF CoreTypes, OrNone, Core, JobsCreated,
       BeforeJob, Attaching, Created
  <2>3. Untaken'
    BY <2>t, <1>2, RegistryAssumption DEF CoreTypes, OrNone, Core, Untaken,
       Finalizing, Ending
  <2>4. Finalizing'
    BY <2>t, <1>2, RegistryAssumption DEF CoreTypes, OrNone, Core, Finalizing,
       Ending, OneSummary, SummaryComplete
  <2>5. JobsScoped'
    BY Zenon, <2>t, <1>2, RegistryAssumption DEF CoreTypes, OrNone, Core, JobsScoped,
       Scoped
  <2>6. LogsClosed'
    BY Zenon, <2>t, <1>2, RegistryAssumption DEF CoreTypes, OrNone, Core, LogsClosed,
       BeforeJob, Attaching
  <2> QED BY Zenon, <2>1, <2>2, <2>3, <2>4, <2>5, <2>6 DEF Core
<1>4. Wired' /\ QuietAtFirst'
  BY Zenon, <1>t, SilentStep DEF MarkClosing, Labels, registryVars, requestVars, scopeVars,
     workerVars, reportVars, trackerVars, agentVars
<1> QED BY Zenon, <1>1, <1>3, <1>4 DEF IInv

LEMMA RemoveJobInv == ASSUME IInv, NEW r \in Requests, RemoveJob(r) PROVE IInv'
<1>t. TypeOK /\ CoreTypes /\ Core /\ Wired /\ QuietAtFirst  BY Zenon, TypesOfCore DEF IInv
<1>1. TypeOK'
<2>t. pc' \in [Requests -> Labels] /\ faults' \in 0 .. MaxFaults
    BY Zenon, <1>t, RegistryAssumption DEF TypeOK, RemoveJob, RemoveFromTracker,
       registryVars, requestVars, scopeVars, workerVars, reportVars, trackerVars, agentVars,
       Goto, Labels
  <2>1. IdOf[cur[r]] \in Identities
    BY Zenon, <1>t, RegistryAssumption DEF RemoveJob, Core, Finalizing, Ending
  <2>2. /\ channelOf' \in [Identities -> OrNone(Requests)]
        /\ tracked' \in [Identities -> {"none", "active", "removed"}]
        /\ staged' \subseteq Identities /\ closed' \subseteq Requests
    BY <1>t, <2>1 DEF TypeOK, OrNone, RemoveJob, RemoveFromTracker, registryVars,
       requestVars, scopeVars, workerVars, reportVars, trackerVars, agentVars
  <2> QED
    BY Zenon, <1>t, <2>t, <2>2 DEF TypeOK, RemoveJob, RemoveFromTracker, registryVars,
       requestVars, scopeVars, workerVars, reportVars, trackerVars, agentVars
<1>2. Core'
  BY Zenon, <1>t, FollowCore DEF RemoveJob, RemoveFromTracker, Following, registryVars,
     requestVars, scopeVars, workerVars, reportVars, trackerVars, agentVars
<1>3. Wired' /\ QuietAtFirst'
  <2>t. /\ pc \in [Requests -> Labels] /\ IdOf[cur[r]] \in Identities
        /\ tracked \in [Identities -> {"none", "active", "removed"}]
        /\ channelOf \in [Identities -> OrNone(Requests)]
    BY ZenonT(30), <1>t, RegistryAssumption DEF TypeOK, Core, Finalizing, Ending, RemoveJob
  <2>0. /\ \/ UNCHANGED <<channelOf, tracked, staged>>
           \/ /\ channelOf' = [channelOf EXCEPT ![IdOf[cur[r]]] = None]
              /\ tracked' = [tracked EXCEPT ![IdOf[cur[r]]] = "none"]
              /\ staged' = staged \ {IdOf[cur[r]]}
        /\ Goto(r, "drain")
        /\ UNCHANGED <<closing, hosted, project, worker, eventCh, queue>>
    BY Zenon DEF RemoveJob, RemoveFromTracker, registryVars, requestVars, scopeVars,
       workerVars, reportVars, trackerVars, agentVars
  <2>1. Wired'
    BY Zenon, <1>t, <2>t, <2>0 DEF Wired, Goto
  <2>2. ASSUME NEW j \in Identities, Quiet(j) PROVE Quiet(j)'
    BY Zenon, <2>t, <2>0, <2>2 DEF Quiet, Goto
  <2>3. ASSUME NEW j \in Identities, Opened(j) PROVE Opened(j)'
    BY Zenon, <2>0, <2>3, OpenedStays
  <2> QED BY Zenon, <1>t, <2>1, <2>2, <2>3 DEF QuietAtFirst
<1> QED BY Zenon, <1>1, <1>2, <1>3 DEF IInv

LEMMA RemoveJobFailsInv == ASSUME IInv, NEW r \in Requests, RemoveJobFails(r) PROVE IInv'
<1>t. TypeOK /\ CoreTypes /\ Core /\ Wired /\ QuietAtFirst  BY Zenon, TypesOfCore DEF IInv
<1>1. TypeOK'
<2>1. cur[r] \in Requests  BY Zenon, <1>t DEF RemoveJobFails, Core, Finalizing, Ending
  <2>2. pc' \in [Requests -> Labels]
    BY Zenon, <1>t DEF TypeOK, RemoveJobFails, Goto, Onward, Labels
  <2>3. faults < MaxFaults /\ faults' = faults + 1 /\ failed' = failed \cup {cur[r]}
    BY Zenon DEF RemoveJobFails, RemoveFromTrackerFails
  <2>4. faults' \in 0 .. MaxFaults /\ failed' \subseteq Requests
    BY <1>t, <2>1, <2>3, RegistryAssumption DEF TypeOK
  <2> QED
    BY Zenon, <1>t, <2>2, <2>4 DEF TypeOK, RemoveJobFails, RemoveFromTrackerFails, Onward,
       registryVars, requestVars, scopeVars, workerVars, reportVars, trackerVars, agentVars
<1>2. Core'
  BY Zenon, <1>t, MoveCore DEF RemoveJobFails, RemoveFromTrackerFails, Onward, coreVars,
     registryVars, requestVars, scopeVars, workerVars, reportVars, trackerVars,
     agentVars
<1>3. Wired' /\ QuietAtFirst'
  BY Zenon, <1>t, SilentStep DEF RemoveJobFails, RemoveFromTrackerFails, Onward, Labels,
     registryVars, requestVars, scopeVars, workerVars, reportVars, trackerVars,
     agentVars
<1> QED BY Zenon, <1>1, <1>2, <1>3 DEF IInv

LEMMA WaitForDrainInv == ASSUME IInv, NEW r \in Requests, WaitForDrain(r) PROVE IInv'
<1>t. TypeOK /\ CoreTypes /\ Core /\ Wired /\ QuietAtFirst  BY Zenon, TypesOfCore DEF IInv
<1>1. TypeOK'
  BY Zenon, <1>t, RegistryAssumption DEF TypeOK, Outputs, WaitForDrain, Goto, Release,
     OrNone, Labels, registryVars, requestVars, scopeVars, workerVars, reportVars,
     trackerVars, agentVars
<1>2. /\ pc[r] = "drain" /\ worker[cur[r]] = "done"
      /\ pending' = [pending EXCEPT ![r] = {"summary"}
                        \cup (IF cur[r] \in hosted THEN {"host"} ELSE {})
                        \cup (IF project[cur[r]] # None THEN {"project"} ELSE {})]
      /\ pc' = [pc EXCEPT ![r] = "emit"]
      /\ UNCHANGED <<jobs, starting, cur, closing, hosted, project, logs, worker, takenBy, summaries>>
  BY Zenon DEF WaitForDrain, registryVars, requestVars, scopeVars, workerVars, reportVars,
     trackerVars, agentVars, Goto, Release
<1>3. Core'
  <2>t. CoreTypes /\ Core  BY Zenon, <1>t
  <2>1. Reserved'
    BY Zenon, <2>t, <1>2, RegistryAssumption DEF CoreTypes, OrNone, Core, Reserved,
       Starting, Created
  <2>2. JobsCreated'
    BY Zenon, <2>t, <1>2, RegistryAssumption DEF CoreTypes, OrNone, Core, JobsCreated,
       BeforeJob, Attaching, Created
  <2>3. Untaken'
    BY Zenon, <2>t, <1>2, RegistryAssumption DEF CoreTypes, OrNone, Core, Untaken
  <2>4. Finalizing'
    BY <2>t, <1>2, RegistryAssumption DEF CoreTypes, OrNone, Core, Finalizing,
       Ending, OneSummary, SummaryComplete
  <2>5. JobsScoped'
    BY Zenon, <2>t, <1>2, RegistryAssumption DEF CoreTypes, OrNone, Core, JobsScoped,
       Scoped
  <2>6. LogsClosed'
    BY Zenon, <2>t, <1>2, RegistryAssumption DEF CoreTypes, OrNone, Core, LogsClosed,
       BeforeJob, Attaching
  <2> QED BY Zenon, <2>1, <2>2, <2>3, <2>4, <2>5, <2>6 DEF Core
<1>4. Wired' /\ QuietAtFirst'
  BY Zenon, <1>t, SilentStep DEF WaitForDrain, Labels, registryVars, requestVars,
     scopeVars, workerVars, reportVars, trackerVars, agentVars
<1> QED BY Zenon, <1>1, <1>3, <1>4 DEF IInv

LEMMA EmitSummaryInv == ASSUME IInv, NEW r \in Requests, EmitSummary(r) PROVE IInv'
<1>t. TypeOK /\ CoreTypes /\ Core /\ Wired /\ QuietAtFirst  BY Zenon, TypesOfCore DEF IInv
<1>1. TypeOK'
<2>1. cur[r] \in Requests  BY Zenon, <1>t DEF EmitSummary, Core, Finalizing, Ending
  <2>2. summaries' = [summaries EXCEPT ![cur[r]] = @ + 1]  BY Zenon DEF EmitSummary
  <2>3. summaries' \in [Requests -> Nat]  BY <1>t, <2>1, <2>2 DEF TypeOK
  <2>4. pending' \in [Requests -> SUBSET Outputs]  BY Zenon, <1>t DEF TypeOK, EmitSummary
  <2> QED
    BY Zenon, <1>t, <2>3, <2>4 DEF TypeOK, EmitSummary, registryVars, requestVars, scopeVars,
       workerVars, reportVars, trackerVars, agentVars
<1>2. /\ pc[r] = "emit" /\ "summary" \in pending[r]
      /\ pending' = [pending EXCEPT ![r] = @ \ {"summary"}]
      /\ summaries' = [summaries EXCEPT ![cur[r]] = @ + 1]
      /\ UNCHANGED <<pc, jobs, starting, cur, closing, hosted, project, logs, worker, takenBy>>
  BY Zenon DEF EmitSummary, registryVars, requestVars, scopeVars, workerVars, reportVars,
     trackerVars, agentVars, Goto, Release
<1>3. Core'
  <2>t. CoreTypes /\ Core  BY Zenon, <1>t
  <2>1. Reserved'
    BY Zenon, <2>t, <1>2, RegistryAssumption DEF CoreTypes, OrNone, Core, Reserved,
       Starting, Created
  <2>2. JobsCreated'
    BY Zenon, <2>t, <1>2, RegistryAssumption DEF CoreTypes, OrNone, Core, JobsCreated,
       BeforeJob, Attaching, Created
  <2>3. Untaken'
    BY <2>t, <1>2, RegistryAssumption DEF CoreTypes, OrNone, Core, Untaken,
       Finalizing, Ending
  <2>4. Finalizing'
    BY <2>t, <1>2, RegistryAssumption DEF CoreTypes, OrNone, Core, Finalizing,
       Ending, OneSummary, SummaryComplete
  <2>5. JobsScoped'
    BY Zenon, <2>t, <1>2, RegistryAssumption DEF CoreTypes, OrNone, Core, JobsScoped,
       Scoped
  <2>6. LogsClosed'
    BY Zenon, <2>t, <1>2, RegistryAssumption DEF CoreTypes, OrNone, Core, LogsClosed,
       BeforeJob, Attaching
  <2> QED BY Zenon, <2>1, <2>2, <2>3, <2>4, <2>5, <2>6 DEF Core
<1>4. Wired' /\ QuietAtFirst'
  BY Zenon, <1>t, SilentStill DEF EmitSummary, Labels, registryVars, requestVars,
     scopeVars, workerVars, reportVars, trackerVars, agentVars
<1> QED BY Zenon, <1>1, <1>3, <1>4 DEF IInv

LEMMA FinalizeStreamingLogsInv ==
    ASSUME IInv, NEW r \in Requests, NEW k \in Outputs, FinalizeStreamingLogs(r, k)
    PROVE  IInv'
<1>t. TypeOK /\ CoreTypes /\ Core /\ Wired /\ QuietAtFirst  BY Zenon, TypesOfCore DEF IInv
<1>1. TypeOK'
  BY Zenon, <1>t, RegistryAssumption DEF TypeOK, FinalizeStreamingLogs, Goto, Release,
     OrNone, Labels, registryVars, requestVars, scopeVars, workerVars, reportVars,
     trackerVars, agentVars
<1>2. /\ pc[r] = "emit" /\ k \in pending[r] /\ k # "summary"
      /\ pending' = [pending EXCEPT ![r] = @ \ {k}]
      /\ logs' = [logs EXCEPT ![IF k = "host" THEN cur[r] ELSE project[cur[r]]] = "closed"]
      /\ UNCHANGED <<pc, jobs, starting, cur, closing, hosted, project, worker, takenBy, summaries>>
  BY Zenon DEF FinalizeStreamingLogs, registryVars, requestVars, scopeVars, workerVars,
     reportVars, trackerVars, agentVars, Goto, Release
<1>3. Core'
  <2>t. CoreTypes /\ Core  BY Zenon, <1>t
  <2>1. Reserved'
    BY Zenon, <2>t, <1>2, RegistryAssumption DEF CoreTypes, OrNone, Core, Reserved,
       Starting, Created
  <2>2. JobsCreated'
    BY Zenon, <2>t, <1>2, RegistryAssumption DEF CoreTypes, OrNone, Core, JobsCreated,
       BeforeJob, Attaching, Created
  <2>3. Untaken'
    BY Zenon, <2>t, <1>2, RegistryAssumption DEF CoreTypes, OrNone, Core, Untaken
  <2>4. Finalizing'
    BY Zenon, <2>t, <1>2, RegistryAssumption DEF CoreTypes, OrNone, Core, Finalizing,
       Ending, OneSummary, SummaryComplete
  <2>5. JobsScoped'
    BY Zenon, <2>t, <1>2, RegistryAssumption DEF CoreTypes, OrNone, Core, JobsScoped,
       Scoped
  <2>6. LogsClosed'
    BY <2>t, <1>2, RegistryAssumption DEF CoreTypes, OrNone, Core, LogsClosed,
       BeforeJob, Attaching, Finalizing, Ending, Outputs
  <2> QED BY Zenon, <2>1, <2>2, <2>3, <2>4, <2>5, <2>6 DEF Core
<1>4. Wired' /\ QuietAtFirst'
  BY Zenon, <1>t, SilentStill DEF FinalizeStreamingLogs, Labels, registryVars, requestVars,
     scopeVars, workerVars, reportVars, trackerVars, agentVars
<1> QED BY Zenon, <1>1, <1>3, <1>4 DEF IInv

LEMMA JobFinalizedInv == ASSUME IInv, NEW r \in Requests, JobFinalized(r) PROVE IInv'
<1>t. TypeOK /\ CoreTypes /\ Core /\ Wired /\ QuietAtFirst  BY Zenon, TypesOfCore DEF IInv
<1>1. TypeOK'
  BY Zenon, <1>t, RegistryAssumption DEF TypeOK, JobFinalized, Onward, Goto, Release,
     OrNone, Labels, registryVars, requestVars, scopeVars, workerVars, reportVars,
     trackerVars, agentVars
<1>2. Core'
  BY Zenon, <1>t, MoveCore DEF JobFinalized, Onward, coreVars, registryVars, requestVars,
     scopeVars, workerVars, reportVars, trackerVars, agentVars
<1>3. Wired' /\ QuietAtFirst'
  BY Zenon, <1>t, SilentStep DEF JobFinalized, Onward, Labels, registryVars, requestVars,
     scopeVars, workerVars, reportVars, trackerVars, agentVars
<1> QED BY Zenon, <1>1, <1>2, <1>3 DEF IInv

LEMMA AgentStopsInv == ASSUME IInv, NEW r \in Requests, AgentStops(r) PROVE IInv'
<1>t. TypeOK /\ CoreTypes /\ Core /\ Wired /\ QuietAtFirst  BY Zenon, TypesOfCore DEF IInv
<1>1. TypeOK'
  BY Zenon, <1>t, RegistryAssumption DEF TypeOK, AgentStops, Goto, Release, OrNone, Labels,
     registryVars, requestVars, scopeVars, workerVars, reportVars, trackerVars,
     agentVars
<1>2. Core'
  BY Zenon, <1>t, MoveCore DEF AgentStops, coreVars, registryVars, requestVars, scopeVars,
     workerVars, reportVars, trackerVars, agentVars
<1>3. Wired' /\ QuietAtFirst'
  BY Zenon, <1>t, SilentStep DEF AgentStops, Labels, registryVars, requestVars, scopeVars,
     workerVars, reportVars, trackerVars, agentVars
<1> QED BY Zenon, <1>1, <1>2, <1>3 DEF IInv

-----------------------------------------------------------------------------
(* The theorems.                                                           *)

LEMMA FinalizeStepInv == ASSUME IInv, NEW r \in Requests, FinalizeStep(r) PROVE IInv'
BY Zenon, HostEndLookupInv, HostEndVerifyInv, FindExpiredJobsInv, StopListeningInv,
   SnapshotJobsInv, TakeJobInv, MarkClosingInv, RemoveJobInv, RemoveJobFailsInv,
   WaitForDrainInv, EmitSummaryInv, FinalizeStreamingLogsInv, JobFinalizedInv, AgentStopsInv
   DEF FinalizeStep

LEMMA JobStepInv == ASSUME IInv, NEW o \in Requests, JobStep(o) PROVE IInv'
BY Zenon, ReceiveEventInv, ProcessEventInv, WorkerExitsInv, DeadlinePassesInv DEF JobStep

LEMMA TrackerStepInv == ASSUME IInv, NEW i \in Identities, TrackerStep(i) PROVE IInv'
BY Zenon, ContainerStartsInv, JobDrainedInv, EmitEventInv DEF TrackerStep

\* Nothing but the stuttering of a finished system is left.
LEMMA StutterInv == ASSUME IInv, UNCHANGED vars PROVE IInv'
<1>1. TypeOK'
  BY Zenon DEF IInv, TypeOK, vars, registryVars, requestVars, scopeVars, workerVars,
     reportVars,
         trackerVars, agentVars
<1>2. UNCHANGED <<coreVars, pc, eventCh, channelOf, tracked, staged, queue>>
  BY Zenon DEF vars, coreVars, registryVars, requestVars, scopeVars, workerVars, reportVars,
         trackerVars, agentVars
<1>3. Core'  BY Zenon, <1>2, StillCore DEF IInv
<1>4. Wired' /\ QuietAtFirst'  BY Zenon, <1>2, SilentStill DEF IInv, coreVars, scopeVars
<1> QED BY Zenon, <1>1, <1>3, <1>4 DEF IInv

\* The agent has just started.
LEMMA InitInv == ASSUME Init PROVE IInv
<1>1. TypeOK
  <2>1. CoreTypes  BY Zenon, RegistryAssumption DEF Init, CoreTypes, OrNone, Labels
  <2>2. /\ todo \in [Requests -> SUBSET Identities] /\ eventCh \in [Requests -> OrNone(Requests)]
        /\ channelOf \in [Identities -> OrNone(Requests)]
        /\ tracked \in [Identities -> {"none", "active", "removed"}]
        /\ queue \in [Requests -> 0 .. QueueSize] /\ faults \in 0 .. MaxFaults
    BY RegistryAssumption DEF Init, OrNone
  <2> QED BY Zenon, <2>1, <2>2 DEF TypeOK, CoreTypes, Init
<1>2. Core
  <2>1. Reserved     BY Zenon DEF Init, Reserved, Starting, Created
  <2>2. JobsCreated  BY Zenon DEF Init, JobsCreated, Created
  <2>3. Untaken      BY Zenon, RegistryAssumption DEF Init, Untaken
  <2>4. Finalizing   BY DEF Init, Finalizing, Ending, OneSummary, SummaryComplete
  <2>5. JobsScoped   BY Zenon DEF Init, JobsScoped
  <2>6. LogsClosed   BY Zenon DEF Init, LogsClosed
  <2> QED BY Zenon, <2>1, <2>2, <2>3, <2>4, <2>5, <2>6 DEF Core
<1>3. Wired  BY Zenon DEF Init, Wired
<1>4. QuietAtFirst  BY Zenon DEF Init, QuietAtFirst, Quiet
<1> QED BY Zenon, <1>1, <1>2, <1>3, <1>4 DEF IInv

LEMMA NextInv == ASSUME IInv, [Next]_vars PROVE IInv'
<1>1. CASE \E r \in Requests : StartStep(r)     BY Zenon, <1>1, StartStepInv
<1>2. CASE \E r \in Requests : StageStep(r)     BY Zenon, <1>2, StageStepInv
<1>3. CASE \E r \in Requests : FinalizeStep(r)  BY Zenon, <1>3, FinalizeStepInv
<1>4. CASE \E r \in Requests : JobStep(r)       BY Zenon, <1>4, JobStepInv
<1>5. CASE \E i \in Identities : TrackerStep(i) BY Zenon, <1>5, TrackerStepInv
<1>6. CASE UNCHANGED vars                       BY Zenon, <1>6, StutterInv
<1> QED BY Zenon, <1>1, <1>2, <1>3, <1>4, <1>5, <1>6 DEF Next

\* Every reachable state of the registry satisfies the inductive invariant, and so
\* has its types.
THEOREM Invariance == Spec => []IInv
<1>1. Init => IInv  BY Zenon, InitInv
<1>2. IInv /\ [Next]_vars => IInv'  BY Zenon, NextInv
<1> QED BY <1>1, <1>2, PTL DEF Spec

\* No two starts of an identity get past its reservation, and a Job that
\* registerJobRuntime has stored is not visible to staging before its scope is
\* set (reserveJobStart and the checks of registerJobRuntime never fail).
THEOREM StartsAreExclusive == Spec => []StartsExclusive
<1>1. ASSUME IInv PROVE RegistrationUncontended
  BY ZenonT(60), <1>1 DEF IInv, Core, Reserved, Starting, RegistrationUncontended
<1>2. ASSUME IInv PROVE HalfCreatedHidden
  <2> SUFFICES ASSUME NEW i \in Identities, jobs[i] # None, starting[i] = None
               PROVE  Scoped(jobs[i])
    BY Zenon DEF HalfCreatedHidden
  <2>1. jobs[i] \in Requests /\ IdOf[jobs[i]] = i
    BY <1>2 DEF IInv, TypeOK, OrNone, Core, Untaken
  <2>2. pc[jobs[i]] # "scope"
    BY Zenon, <1>2, <2>1, RegistryAssumption DEF IInv, Core, Reserved, Created
  <2> QED BY ZenonT(60), <1>2, <2>2 DEF IInv, Core, JobsScoped
<1>3. IInv => StartsExclusive
  BY Zenon, <1>1, <1>2 DEF StartsExclusive
<1> QED BY <1>3, Invariance, PTL

\* A Job gets at most one summary, whoever tries to finalize it, and in any
\* order of end requests, TTL ticks, drained cgroups and shutdown.
THEOREM OneSummaryPerJob == Spec => []OneSummary
<1>1. IInv => OneSummary
  BY Zenon DEF IInv, Core, Finalizing
<1> QED BY <1>1, Invariance, PTL

\* When the summary is written, the event worker has returned and the Job takes
\* no more scopes: nothing it counts can change any more.
THEOREM SummariesAreComplete == Spec => []SummaryComplete
<1>1. IInv => SummaryComplete
  BY Zenon DEF IInv, Core, Finalizing
<1> QED BY <1>1, Invariance, PTL

\* When finalizeTakenJobSync returns, the streaming logs of every scope of its
\* Job are closed, those of a project scope that was attached late included.
THEOREM ScopesAreFinalized == Spec => []ScopesFinalizedWithJob
<1>1. IInv => ScopesFinalizedWithJob
  <2> SUFFICES ASSUME IInv, NEW o \in Requests, takenBy[o] # None, cur[takenBy[o]] = o,
                      pc[takenBy[o]] = "emit", pending[takenBy[o]] = {}
               PROVE  /\ o \in hosted => logs[o] = "closed"
                      /\ project[o] # None => logs[project[o]] = "closed"
    BY Zenon DEF ScopesFinalizedWithJob
  <2>1. takenBy[o] \in Requests
    BY Zenon DEF IInv, TypeOK, OrNone
  <2> QED BY Zenon, <2>1 DEF IInv, Core, LogsClosed
<1> QED BY <1>1, Invariance, PTL

\* Only three steps write the registry's map.
LEMMA JobsWritten ==
    ASSUME NEW r \in Requests, StartStep(r) \/ StageStep(r) \/ FinalizeStep(r) \/ JobStep(r)
    PROVE  \/ UNCHANGED jobs
           \/ CreateJob(r) \/ Forget(r) \/ \E i \in Identities : TakeJob(r, i)
<1>1. CASE StartStep(r)
  BY ZenonT(60), <1>1 DEF StartStep, ReserveNew, ReserveExisting, ReserveInFlight,
     BuildScope, BuildFails,
     RegisterJob, RegisterNotSent, SetHostScope, SetProjectScope, BindStartProcess,
     BindStartProcessFails, BindPodCgroupTree, Unwind, AttachProject, AttachBuildScope,
     AttachSetScope, registryVars
<1>2. CASE StageStep(r)
  BY ZenonT(60), <1>2 DEF StageStep, FindJobForPeerPID, StageLookup, StageCommand,
     registryVars
<1>3. CASE FinalizeStep(r)
  BY ZenonT(60), <1>3 DEF FinalizeStep, HostEndLookup, HostEndVerify, FindExpiredJobs,
     StopListening,
     SnapshotJobs, MarkClosing, RemoveJob, RemoveJobFails, WaitForDrain, EmitSummary,
     FinalizeStreamingLogs, JobFinalized, AgentStops, registryVars
<1>4. CASE JobStep(r)
  BY Zenon, <1>4 DEF JobStep, ReceiveEvent, ProcessEvent, WorkerExits, DeadlinePasses,
     registryVars
<1> QED BY Zenon, <1>1, <1>2, <1>3, <1>4

\* A Job leaves the registry only with the process that takes it, or with its own
\* start that failed to bind; no start ever replaces the Job of another.
THEOREM JobsLeaveOnlyTakenOrUnwound == Spec => LeavesOnlyWhenTakenOrUnwound
<1> DEFINE Leaves(i) == /\ jobs'[i] = None
                        /\ \/ takenBy[jobs[i]] = None /\ takenBy'[jobs[i]] # None
                           \/ pc[jobs[i]] = "forget"
<1>1. ASSUME IInv, NEW r \in Requests, CreateJob(r),
             NEW i \in Identities, jobs[i] # None, jobs'[i] # jobs[i]
      PROVE  FALSE
  BY Zenon, <1>1 DEF IInv, TypeOK, CreateJob, Core, Reserved, Starting
<1>2. ASSUME IInv, NEW r \in Requests, Forget(r),
             NEW i \in Identities, jobs[i] # None, jobs'[i] # jobs[i]
      PROVE  Leaves(i)
  <2>1. jobs \in [Identities -> OrNone(Requests)]  BY Zenon, <1>2 DEF IInv, TypeOK
  <2>2. pc[r] = "forget" /\ jobs' = [jobs EXCEPT ![IdOf[r]] = None]
    BY ZenonT(60), <1>2 DEF Forget
  <2>3. i = IdOf[r] /\ jobs'[i] = None  BY Zenon, <1>2, <2>1, <2>2
  <2>4. jobs[i] = r  BY ZenonT(60), <1>2, <2>2, <2>3 DEF IInv, Core, Reserved, Created
  <2> QED BY Zenon, <2>2, <2>3, <2>4
<1>3. ASSUME IInv, NEW r \in Requests, NEW k \in Identities, TakeJob(r, k),
             NEW i \in Identities, jobs[i] # None, jobs'[i] # jobs[i]
      PROVE  Leaves(i)
  <2>1. /\ jobs \in [Identities -> OrNone(Requests)]
        /\ takenBy \in [Requests -> OrNone(Requests)]
    BY Zenon, <1>3 DEF IInv, TypeOK
  <2>2. /\ jobs' = [jobs EXCEPT ![k] = None]
        /\ takenBy' = [takenBy EXCEPT ![jobs[k]] = r]
    BY Zenon, <1>3 DEF TakeJob
  <2>3. i = k /\ jobs'[i] = None  BY Zenon, <1>3, <2>1, <2>2
  <2>4. jobs[i] \in Requests  BY Zenon, <1>3, <2>1 DEF OrNone
  <2>5. takenBy[jobs[i]] = None  BY Zenon, <1>3 DEF IInv, Core, Untaken
  <2>6. takenBy'[jobs[i]] # None  BY Zenon, <2>1, <2>2, <2>3, <2>4, RegistryAssumption
  <2> QED BY Zenon, <2>3, <2>5, <2>6
<1>4. ASSUME NEW i \in Identities, TrackerStep(i) PROVE UNCHANGED jobs
  BY Zenon, <1>4 DEF TrackerStep, ContainerStarts, JobDrained, EmitEvent, registryVars
<1>5. UNCHANGED vars => UNCHANGED jobs  BY Zenon DEF vars, registryVars
<1>6. IInv /\ [Next]_vars =>
        [\A i \in Identities : jobs[i] # None /\ jobs'[i] # jobs[i] => Leaves(i)]_vars
  <2> SUFFICES ASSUME IInv, Next, NEW i \in Identities, jobs[i] # None, jobs'[i] # jobs[i]
               PROVE  Leaves(i)
    BY Zenon
  <2> HIDE DEF Leaves
  <2>1. ~UNCHANGED jobs  BY Zenon
  <2>2. PICK r \in Requests : StartStep(r) \/ StageStep(r) \/ FinalizeStep(r) \/ JobStep(r)
    BY <2>1, <1>4, <1>5, Zenon DEF Next
  <2>3. CreateJob(r) \/ Forget(r) \/ \E k \in Identities : TakeJob(r, k)
    BY Zenon, <2>1, <2>2, JobsWritten
  <2> QED BY ZenonT(60), <2>3, <1>1, <1>2, <1>3
<1> QED BY <1>6, Invariance, PTL DEF Spec, LeavesOnlyWhenTakenOrUnwound

\* Nothing routes events to an identity, and none is queued for it, before its
\* first Job has its scope; so processEvent of that Job always has one.
THEOREM FirstJobSeesScope == Spec => RoutedEventsSeeScope
<1>1. ASSUME IInv, NEW o \in Requests, ProcessEvent(o), ~Scoped(o)
      PROVE  \/ o \in closing
             \/ \E q \in Requests \ {o} : IdOf[q] = IdOf[o] /\ worker[q] # "none"
  <2>1. worker[o] = "busy"  BY Zenon, <1>1 DEF ProcessEvent
  <2>2. Opened(IdOf[o])
    BY Zenon, <1>1, <2>1, RegistryAssumption DEF IInv, QuietAtFirst, Quiet
  <2> QED BY Zenon, <1>1, <2>2 DEF Opened
<1>2. ASSUME NEW r \in Requests, StartStep(r) PROVE UNCHANGED unscoped
  BY ZenonT(60), <1>2 DEF StartStep, ReserveNew, ReserveExisting, ReserveInFlight,
     BuildScope, BuildFails,
     RegisterJob, RegisterNotSent, CreateJob, SetHostScope, SetProjectScope, BindStartProcess,
     BindStartProcessFails, BindPodCgroupTree, Unwind, Forget, AttachProject,
     AttachBuildScope, AttachSetScope, workerVars
<1>3. ASSUME NEW r \in Requests, StageStep(r) \/ FinalizeStep(r) PROVE UNCHANGED unscoped
  BY ZenonT(60), <1>3 DEF StageStep, FindJobForPeerPID, StageLookup, StageCommand,
     FinalizeStep, HostEndLookup, HostEndVerify, FindExpiredJobs, StopListening,
     SnapshotJobs, TakeJob, MarkClosing, RemoveJob, RemoveJobFails, WaitForDrain, EmitSummary,
     FinalizeStreamingLogs, JobFinalized, AgentStops, workerVars
<1>4. ASSUME NEW o \in Requests, JobStep(o), ~ProcessEvent(o) PROVE UNCHANGED unscoped
  BY ZenonT(60), <1>4 DEF JobStep, ReceiveEvent, WorkerExits, DeadlinePasses, workerVars
<1>5. ASSUME NEW i \in Identities, TrackerStep(i) PROVE UNCHANGED unscoped
  BY Zenon, <1>5 DEF TrackerStep, ContainerStarts, JobDrained, EmitEvent, workerVars
<1>6. UNCHANGED vars => UNCHANGED unscoped  BY Zenon DEF vars, workerVars
<1>7. IInv /\ [Next]_vars =>
        [\A o \in unscoped' \ unscoped :
            \/ o \in closing
            \/ \E q \in Requests \ {o} : IdOf[q] = IdOf[o] /\ worker[q] # "none"]_vars
  <2> SUFFICES ASSUME IInv, Next, NEW o \in unscoped' \ unscoped
               PROVE  \/ o \in closing
                      \/ \E q \in Requests \ {o} : IdOf[q] = IdOf[o] /\ worker[q] # "none"
    BY Zenon
  <2>1. ~UNCHANGED unscoped  BY Zenon
  <2>2. PICK p \in Requests : ProcessEvent(p)
    BY <2>1, <1>2, <1>3, <1>4, <1>5, <1>6, Zenon DEF Next
  <2>3. p = o /\ ~Scoped(o)
    BY Zenon, <2>2 DEF ProcessEvent
  <2> QED BY Zenon, <2>2, <2>3, <1>1
<1> QED BY <1>7, Invariance, PTL DEF Spec, RoutedEventsSeeScope


=============================================================================
