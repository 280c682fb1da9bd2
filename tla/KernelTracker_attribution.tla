--------------------- MODULE KernelTracker_attribution ---------------------
(***************************************************************************)
(* What the inductive invariant of KernelTracker_proofs says about steps:  *)
(* the action properties, the refinement of CgroupOwnership, and the       *)
(* removal queue.                                                          *)
(***************************************************************************)
EXTENDS KernelTracker_proofs

-----------------------------------------------------------------------------
(* Action properties.                                                       *)

\* Only marking cgroups as removed reports a job as ended.
LEMMA EndedByMarking ==
    ASSUME [Next]_vars
    PROVE  ended' \subseteq ended \/ \E S, o, age : MarkRemoved(S, o, age)
<1>1. CASE HandleSample
  BY <1>1 DEF HandleSample, HandleMkdirSample, HandleAttachSample, HandleRmdirSample
<1>2. CASE ReconcileCgroupLiveness
  BY <1>2 DEF ReconcileCgroupLiveness
<1>3. CASE Hooks
  BY <1>3, Zenon DEF Hooks, CgroupMkdir, CgroupAttachTask, CgroupRmdir
<1>4. CASE Commands
  BY <1>4, Zenon DEF Commands, RegisterJob, RemoveJob, BindCgroup, StageCgroupBasename
<1>5. CASE RunEffect
  BY <1>5 DEF RunEffect, DeleteTrackedKey, DeleteStagingKey, DeleteKeyFails, FinishRemoveJob
<1>6. CASE PurgeTick \/ PurgeTickFails \/ Scanner \/ Tick \/ UNCHANGED vars
  BY <1>6 DEF PurgeTick, PurgeTickFails, Scanner, StartScan, FinishScan, AbortScan, Tick, vars
<1> QED
  BY <1>1, <1>2, <1>3, <1>4, <1>5, <1>6 DEF Next

\* A job is reported as ended only when every cgroup the mirror has for it is
\* gone from the kernel (activeCgroupCount and notifyJobEnded).
THEOREM EndedJobsAreDrained == Spec => EndedOnlyWhenDrained
<1>1. ASSUME IInv, [Next]_vars
      PROVE  \A j \in ended' \ ended : \A c \in Cgroups : jobByCgroup'[c] = j => c \notin live'
  <2> SUFFICES ASSUME NEW j \in ended' \ ended, NEW c \in Cgroups, jobByCgroup'[c] = j
               PROVE  c \notin live'
    OBVIOUS
  <2>1. PICK S, o, age : MarkRemoved(S, o, age)
    BY <1>1, EndedByMarking
  <2>2. j \in Jobs /\ ActiveOf(cgroupsByJob', j) = {}
    BY <2>1 DEF MarkRemoved
  <2>3. TypeOK' /\ IndexesAgree' /\ RemovedCgroupsAreGone'
    BY <1>1, NextInv DEF IInv
  <2>4. cgroupsByJob'[j][c] = "removed"
    BY <2>2, <2>3 DEF ActiveOf, IndexesAgree, TypeOK, CgroupState
  <2> QED
    BY <2>2, <2>3, <2>4 DEF RemovedCgroupsAreGone
<1> QED
  BY <1>1, InvHolds, PTL DEF Spec, EndedOnlyWhenDrained

\* A key of tracked_cgroups whose cgroup exists goes away only in a RemoveJob
\* of the job that owns it (deleteJobKernelMapEntries); a purge takes keys of
\* cgroups that are gone (deleteExpiredCgroupsFromKernel).
THEOREM UntrackedByOwnRemoveJob == Spec => UntrackedOnlyByRemoveJob
<1>1. ASSUME IInv, [Next]_vars, NEW c \in live',
             Mirrored(c), c \in trackedCgroups, c \notin trackedCgroups'
      PROVE  effect.kind = "removeJob" /\ effect.job = jobByCgroup[c]
  <2>1. CASE RunEffect
    <3>1. CASE DeleteTrackedKey
      BY <1>1, <3>1 DEF DeleteTrackedKey, IInv, EffectOwned
    <3>2. CASE DeleteStagingKey \/ DeleteKeyFails \/ FinishRemoveJob
      BY <1>1, <3>2 DEF DeleteStagingKey, DeleteKeyFails, FinishRemoveJob, kernelVars
    <3> QED
      BY <2>1, <3>1, <3>2 DEF RunEffect
  <2>2. CASE PurgeTick \/ PurgeTickFails
    <3>1. PICK n \in 1 .. Len(removedCgroupQueue) :
             /\ ExpiredPrefix(n)
             /\ \/ trackedCgroups' = trackedCgroups \ QueuedUpTo(n)
                \/ \E k \in 1 .. n : trackedCgroups' = trackedCgroups \ QueuedUpTo(k - 1)
      BY <2>2 DEF PurgeTick, PurgeTickFails
    <3>2. PICK i \in 1 .. n : removedCgroupQueue[i].cgroup = c
      BY <1>1, <3>1 DEF QueuedUpTo
    <3>3. removedCgroupQueue[i].job \in Jobs /\ c \in Cgroups
      <4>1. removedCgroupQueue \in Seq(QueueEntry)
        BY <1>1 DEF IInv, TypeOK
      <4>2. removedCgroupQueue[i] \in QueueEntry
        BY <4>1, <3>1, <3>2
      <4> QED
        BY <4>2, <3>2 DEF QueueEntry
    <3>4. c \notin live
      BY <3>1, <3>2, <3>3, <1>1 DEF ExpiredPrefix, Expired, IInv, RemovedCgroupsAreGone
    <3>5. UNCHANGED live
      BY <2>2 DEF PurgeTick, PurgeTickFails
    <3> QED
      BY <1>1, <3>4, <3>5
  <2>3. CASE Hooks
    BY <1>1, <2>3, Zenon DEF Hooks, CgroupMkdir, CgroupAttachTask, CgroupRmdir, MkdirTracked, MkdirStaged,
                      MkdirForeign, HookMapUpdateFails
  <2>4. CASE Commands
    BY <1>1, <2>4 DEF Commands, RegisterJob, RemoveJob, BindCgroup, StageCgroupBasename, kernelVars
  <2>5. CASE HandleSample
    BY <1>1, <2>5, Zenon DEF HandleSample, HandleMkdirSample, HandleAttachSample, HandleRmdirSample,
                      TakeSample, kernelVars
  <2>6. CASE Scanner \/ ReconcileCgroupLiveness \/ Tick \/ UNCHANGED vars
    BY <1>1, <2>6 DEF Scanner, StartScan, FinishScan, AbortScan, ReconcileCgroupLiveness, Tick, vars,
                      kernelVars
  <2> QED
    BY <1>1, <2>1, <2>2, <2>3, <2>4, <2>5, <2>6 DEF Next
<1>2. IInv /\ [Next]_vars =>
         \A c \in live' : /\ Mirrored(c) /\ c \in trackedCgroups /\ c \notin trackedCgroups'
                         => effect.kind = "removeJob" /\ effect.job = jobByCgroup[c]
  BY <1>1
<1> QED
  BY <1>2, InvHolds, PTL DEF Spec, UntrackedOnlyByRemoveJob

-----------------------------------------------------------------------------
(* Refinement.                                                              *)

\* bindAt gives a cgroup that has no owner to the job, or changes nothing.
LEMMA BindClaims ==
    ASSUME NEW j \in Jobs, NEW c \in Cgroups, Bind(j, c), UNCHANGED live
    PROVE  [Attribution!OwnershipNext]_(Attribution!ownerVars)
BY DEF Bind, Mirrored, Attribution!OwnershipNext, Attribution!Claim, Attribution!ownerVars

LEMMA SampleClaims ==
    ASSUME IInv, HandleSample PROVE [Attribution!OwnershipNext]_(Attribution!ownerVars)
<1>1. UNCHANGED live /\ Head(ring) \in Sample
  BY TakeRing DEF IInv, HandleSample, HandleMkdirSample, HandleAttachSample, HandleRmdirSample,
                  TakeSample, kernelVars
<1>2. \A d : JobForCgroup(d) # NoJob => JobForCgroup(d) \in Jobs
  BY DEF IInv, TypeOK, JobForCgroup, JobOrNone
<1>3. UNCHANGED jobByCgroup \/ \E j \in Jobs, c \in Cgroups : Bind(j, c)
  <2>1. CASE HandleMkdirSample
    BY <1>1, <1>2, <2>1, Zenon DEF HandleMkdirSample, PromoteStagedCgroup, Sample, IInv, TypeOK, JobOrNone
  <2>2. CASE HandleAttachSample
    BY <1>1, <1>2, <2>2, SMTT(30) DEF HandleAttachSample, Sample
  <2>3. CASE HandleRmdirSample
    BY <2>3 DEF HandleRmdirSample, MarkRemoved, cgroupVars
  <2> QED
    BY <2>1, <2>2, <2>3, Zenon DEF HandleSample
<1> QED
  BY <1>1, <1>3, BindClaims, SMTT(30) DEF Attribution!ownerVars

\* The engine loop, the hooks and the scanner together implement
\* CgroupOwnership: a cgroup is never handed from one job to another, and an
\* existing one loses its job only when the job is removed.
THEOREM KeepsOwnership == Spec => OwnershipKept
<1>1. Init => Attribution!OwnershipInit
  BY DEF Init, Attribution!OwnershipInit
<1>2. ASSUME IInv, [Next]_vars PROVE [Attribution!OwnershipNext]_(Attribution!ownerVars)
  <2> USE DEF Attribution!ownerVars
  <2>1. CASE Hooks
    <3>1. CASE \E c \in Cgroups : CgroupMkdir(c) \/ CgroupRmdir(c)
      BY <3>1, Zenon DEF CgroupMkdir, CgroupRmdir, cgroupVars, Attribution!OwnershipNext,
                  Attribution!Appear, Attribution!Vanish
    <3>2. CASE \E s, d \in Cgroups : CgroupAttachTask(s, d)
      BY <3>2 DEF CgroupAttachTask, cgroupVars
    <3> QED
      BY <2>1, <3>1, <3>2 DEF Hooks
  <2>2. CASE Commands
    <3>1. CASE \E j \in Jobs, c \in Cgroups : BindCgroup(j, c)
      BY <3>1, BindClaims DEF BindCgroup
    <3>2. CASE \E j \in Jobs : \/ RegisterJob(j) \/ RemoveJob(j)
                               \/ \E b \in Basenames : StageCgroupBasename(b, j)
      BY <3>2 DEF RegisterJob, RemoveJob, StageCgroupBasename, cgroupVars, kernelVars
    <3> QED
      BY <2>2, <3>1, <3>2 DEF Commands
  <2>3. CASE RunEffect
    <3>1. CASE FinishRemoveJob
      <4>1. effect.job \in Jobs
        BY <1>2, <3>1, Zenon DEF FinishRemoveJob, IInv, EffectOwned
      <4>2. \A c \in Cgroups : c \in CgroupsOf(effect.job) <=> jobByCgroup[c] = effect.job
        BY <1>2, <4>1 DEF CgroupsOf, IInv, IndexesAgree
      <4>3. Attribution!Release(effect.job)
        BY <3>1, <4>2 DEF FinishRemoveJob, kernelVars, Attribution!Release
      <4> QED
        BY <4>1, <4>3 DEF Attribution!OwnershipNext
    <3>2. CASE DeleteTrackedKey \/ DeleteStagingKey \/ DeleteKeyFails
      BY <3>2 DEF DeleteTrackedKey, DeleteStagingKey, DeleteKeyFails, cgroupVars
    <3> QED
      BY <2>3, <3>1, <3>2 DEF RunEffect
  <2>4. CASE HandleSample
    BY <1>2, <2>4, SampleClaims
  <2>5. CASE PurgeTick
    <3>1. PICK n \in 1 .. Len(removedCgroupQueue) : Unbind(StillRemoved(n))
      BY <2>5 DEF PurgeTick
    <3>2. StillRemoved(n) \in SUBSET Cgroups /\ StillRemoved(n) \cap live = {}
      BY <1>2 DEF StillRemoved, QueuedUpTo, Mirrored, IInv, TypeOK, JobOrNone, RemovedCgroupsAreGone
    <3>3. Attribution!Forget(StillRemoved(n))
      BY <2>5, <3>1, <3>2 DEF PurgeTick, Unbind, Attribution!Forget
    <3> QED
      BY <3>2, <3>3 DEF Attribution!OwnershipNext
  <2>6. CASE ReconcileCgroupLiveness
    BY <2>6 DEF ReconcileCgroupLiveness, MarkRemoved, kernelVars
  <2>7. CASE PurgeTickFails \/ Scanner \/ Tick \/ UNCHANGED vars
    BY <2>7 DEF PurgeTickFails, Scanner, StartScan, FinishScan, AbortScan, Tick, vars, kernelVars,
                cgroupVars
  <2> QED
    BY <1>2, <2>1, <2>2, <2>3, <2>4, <2>5, <2>6, <2>7 DEF Next
<1> QED
  BY <1>1, <1>2, InvHolds, PTL DEF Spec, OwnershipKept, Attribution!Ownership

-----------------------------------------------------------------------------
(* The removal queue.                                                       *)

\* RemovedQueueExact, entry by entry.
QueueExact ==
    LET q == removedCgroupQueue IN
    /\ \A i, k \in 1 .. Len(q) : q[i] = q[k] => i = k
    /\ \A i \in 1 .. Len(q) : cgroupsByJob[q[i].job][q[i].cgroup] = "removed"
    /\ \A j \in Jobs, c \in Cgroups :
          cgroupsByJob[j][c] = "removed" =>
              \E i \in 1 .. Len(q) : q[i].job = j /\ q[i].cgroup = c

LEMMA QueueEntries ==
    ASSUME TypeOK, NEW i \in 1 .. Len(removedCgroupQueue)
    PROVE  /\ removedCgroupQueue[i] \in QueueEntry
           /\ removedCgroupQueue[i].job \in Jobs /\ removedCgroupQueue[i].cgroup \in Cgroups
<1>1. removedCgroupQueue[i] \in QueueEntry
  BY DEF TypeOK
<1> QED
  BY <1>1 DEF QueueEntry

LEMMA QueueExactEntrywise == TypeOK => (QueueExact <=> RemovedQueueExact)
<1> SUFFICES ASSUME TypeOK PROVE QueueExact <=> RemovedQueueExact
  OBVIOUS
<1> DEFINE q == removedCgroupQueue
           R == {e \in QueueEntry : cgroupsByJob[e.job][e.cgroup] = "removed"}
<1>1. \A e \in QueueEntry : e.job \in Jobs /\ e.cgroup \in Cgroups
  BY DEF QueueEntry
<1>2. \A e, f \in QueueEntry : e.job = f.job /\ e.cgroup = f.cgroup => e = f
  BY DEF QueueEntry
<1>3. \A j \in Jobs, c \in Cgroups : [job |-> j, cgroup |-> c] \in QueueEntry
  BY DEF QueueEntry
<1>4. \A i \in 1 .. Len(q) : q[i] \in QueueEntry
  BY QueueEntries
<1>5. ASSUME QueueExact PROVE RemovedQueueExact
  <2>1. \A e \in R : \E i \in 1 .. Len(q) : q[i] = e
    BY <1>5, <1>1, <1>2, <1>4 DEF QueueExact
  <2>2. \A i \in 1 .. Len(q) : q[i] \in R
    BY <1>5, <1>4 DEF QueueExact
  <2> QED
    BY <1>5, <2>1, <2>2 DEF QueueExact, RemovedQueueExact
<1>6. ASSUME RemovedQueueExact PROVE QueueExact
  <2>1. {q[i] : i \in 1 .. Len(q)} = R
    BY <1>6 DEF RemovedQueueExact
  <2>2. \A i \in 1 .. Len(q) : cgroupsByJob[q[i].job][q[i].cgroup] = "removed"
    BY <2>1
  <2>3. ASSUME NEW j \in Jobs, NEW c \in Cgroups, cgroupsByJob[j][c] = "removed"
        PROVE  \E i \in 1 .. Len(q) : q[i].job = j /\ q[i].cgroup = c
    <3>1. [job |-> j, cgroup |-> c] \in R
      BY <1>3, <2>3, Zenon
    <3> QED
      BY <3>1, <2>1
  <2> QED
    BY <1>6, <2>2, <2>3 DEF QueueExact, RemovedQueueExact
<1> QED
  BY <1>5, <1>6

\* Steps that neither mark nor forget a removed cgroup.
LEMMA SameRemoved ==
    ASSUME TypeOK, QueueExact, UNCHANGED removedCgroupQueue,
           \A j \in Jobs, c \in Cgroups :
               cgroupsByJob'[j][c] = "removed" <=> cgroupsByJob[j][c] = "removed"
    PROVE  QueueExact'
BY QueueEntries DEF QueueExact

LEMMA BindSameRemoved ==
    ASSUME IInv, NEW j \in Jobs, NEW c \in Cgroups, Bind(j, c)
    PROVE  \A k \in Jobs, d \in Cgroups :
              cgroupsByJob'[k][d] = "removed" <=> cgroupsByJob[k][d] = "removed"
<1>1. CASE Mirrored(c)
  BY <1>1 DEF Bind
<1>2. CASE ~Mirrored(c)
  <2>1. cgroupsByJob' = [cgroupsByJob EXCEPT ![j][c] = "active"]
    BY <1>2, Zenon DEF Bind
  <2>2. cgroupsByJob[j][c] = "none"
    BY <1>2, ConstantsAssumption, SMTT(30) DEF IInv, IndexesAgree, Mirrored
  <2> QED
    BY <2>1, <2>2 DEF IInv, TypeOK
<1> QED
  BY <1>1, <1>2

\* Active cgroups are marked and queued, each once.
LEMMA MarkingQueues ==
    ASSUME IInv, QueueExact, NEW S \in SUBSET Cgroups, NEW o \in Seq(S), NEW age,
           \A c \in S : Mirrored(c) /\ cgroupsByJob[jobByCgroup[c]][c] = "active",
           \A i, k \in 1 .. Len(o) : o[i] = o[k] => i = k,
           \A c \in S : \E i \in 1 .. Len(o) : o[i] = c,
           MarkRemoved(S, o, age)
    PROVE  QueueExact'
<1> DEFINE q == removedCgroupQueue
           n == Len(q)
           m == Len(o)
           tail == [i \in 1 .. m |-> [job |-> jobByCgroup[o[i]], cgroup |-> o[i]]]
<1>1. /\ q' = q \o tail
      /\ cgroupsByJob' = [j \in Jobs |-> [c \in Cgroups |->
            IF c \in S /\ jobByCgroup[c] = j THEN "removed" ELSE cgroupsByJob[j][c]]]
  BY Zenon DEF MarkRemoved
<1>2. \A j \in Jobs, c \in Cgroups : cgroupsByJob'[j][c] =
            IF c \in S /\ jobByCgroup[c] = j THEN "removed" ELSE cgroupsByJob[j][c]
  BY <1>1, Zenon
<1>3. \A i \in 1 .. m : o[i] \in S /\ o[i] \in Cgroups /\ jobByCgroup[o[i]] \in Jobs
  <2>1. \A c \in S : c \in Cgroups /\ jobByCgroup[c] \in Jobs
    BY DEF IInv, TypeOK, JobOrNone, Mirrored
  <2> QED
    BY <2>1, SMTT(30)
<1>4. n \in Nat /\ m \in Nat /\ q \in Seq(QueueEntry) /\ tail \in Seq(QueueEntry)
  <2>1. \A i \in 1 .. m : [job |-> jobByCgroup[o[i]], cgroup |-> o[i]] \in QueueEntry
    BY <1>3, Zenon DEF QueueEntry
  <2> QED
    BY <2>1 DEF IInv, TypeOK
<1>5. Len(tail) = m /\ \A i \in 1 .. m : /\ tail[i].job = jobByCgroup[o[i]]
                                         /\ tail[i].cgroup = o[i]
  BY <1>4
<1>6. Len(q) = n /\ Len(o) = m
  OBVIOUS
<1>7. \A i \in 1 .. Len(q) : /\ cgroupsByJob[q[i].job][q[i].cgroup] = "removed"
                             /\ q[i].job \in Jobs /\ q[i].cgroup \in Cgroups
  BY QueueEntries, Zenon DEF QueueExact, IInv
<1> HIDE DEF tail, n, m
<1>8. /\ Len(q') = n + m
      /\ \A i \in 1 .. (n + m) : q'[i] = IF i <= n THEN q[i] ELSE tail[i - n]
  <2> HIDE DEF q
  <2>1. /\ Len(q \o tail) = Len(q) + Len(tail)
        /\ \A i \in 1 .. Len(q) + Len(tail) :
              (q \o tail)[i] = IF i <= Len(q) THEN q[i] ELSE tail[i - Len(q)]
    BY <1>4, ConcatProperties
  <2> QED
    BY <1>1, <1>5, <1>6, <2>1, Zenon
<1>9. /\ \A i \in 1 .. n : i \in 1 .. Len(q') /\ q'[i] = q[i]
      /\ \A i \in 1 .. m : n + i \in 1 .. Len(q') /\ q'[n + i] = tail[i]
      /\ \A i \in 1 .. Len(q') : i \in 1 .. n \/ (i - n \in 1 .. m /\ i = n + (i - n))
  <2> HIDE DEF q
  <2> QED
    BY <1>4, <1>8
<1>10. \A i \in 1 .. n, k \in 1 .. m : q[i] # tail[k]
  BY <1>3, <1>5, <1>6, <1>7, SMTT(30)
<1>11. \A i, k \in 1 .. Len(q') : q'[i] = q'[k] => i = k
  <2>1. \A i, k \in 1 .. n : q[i] = q[k] => i = k
    BY <1>6 DEF QueueExact
  <2>2. \A i, k \in 1 .. m : tail[i] = tail[k] => i = k
    BY <1>5, <1>6
  <2> HIDE DEF q
  <2>3. SUFFICES ASSUME NEW i \in 1 .. Len(q'), NEW k \in 1 .. Len(q'), q'[i] = q'[k]
                 PROVE  i = k
    OBVIOUS
  <2>4. CASE i \in 1 .. n /\ k \in 1 .. n
    BY <1>9, <2>1, <2>3, <2>4, Zenon
  <2>5. CASE i - n \in 1 .. m /\ k - n \in 1 .. m /\ i = n + (i - n) /\ k = n + (k - n)
    <3>1. q'[i] = tail[i - n]
      BY <1>9, <2>5
    <3>2. q'[k] = tail[k - n]
      BY <1>9, <2>5
    <3>3. i - n = k - n
      BY <2>2, <2>3, <2>5, <3>1, <3>2, Zenon
    <3> QED
      BY <2>5, <3>3
  <2>6. CASE i \in 1 .. n /\ k - n \in 1 .. m /\ k = n + (k - n)
    BY <1>9, <1>10, <2>3, <2>6, SMTT(30)
  <2>7. CASE k \in 1 .. n /\ i - n \in 1 .. m /\ i = n + (i - n)
    BY <1>9, <1>10, <2>3, <2>7, SMTT(30)
  <2> QED
    BY <1>9, <2>4, <2>5, <2>6, <2>7, Zenon
<1>12. \A i \in 1 .. Len(q') : cgroupsByJob'[q'[i].job][q'[i].cgroup] = "removed"
  <2>1. \A i \in 1 .. n : cgroupsByJob'[q[i].job][q[i].cgroup] = "removed"
    BY <1>2, <1>6, <1>7, SMTT(30)
  <2>2. \A i \in 1 .. m : cgroupsByJob'[tail[i].job][tail[i].cgroup] = "removed"
    BY <1>2, <1>3, <1>5, <1>6, SMTT(30)
  <2> HIDE DEF q
  <2> QED
    BY <1>9, <2>1, <2>2, SMTT(30)
<1>13. ASSUME NEW j \in Jobs, NEW c \in Cgroups, cgroupsByJob'[j][c] = "removed"
       PROVE  \E i \in 1 .. Len(q') : q'[i].job = j /\ q'[i].cgroup = c
  <2>1. CASE c \in S /\ jobByCgroup[c] = j
    <3>1. PICK k \in 1 .. m : o[k] = c
      BY <2>1, <1>6
    <3>2. q'[n + k].job = j /\ q'[n + k].cgroup = c
      BY <1>5, <1>9, <2>1, <3>1, Zenon
    <3> QED
      BY <1>9, <3>2
  <2>2. CASE ~(c \in S /\ jobByCgroup[c] = j)
    <3>1. cgroupsByJob[j][c] = "removed"
      BY <1>2, <1>13, <2>2, Zenon
    <3>2. PICK i \in 1 .. n : q[i].job = j /\ q[i].cgroup = c
      BY <3>1, <1>6, SMTT(30) DEF QueueExact
    <3> QED
      BY <1>9, <3>2, Zenon
  <2> QED
    BY <2>1, <2>2, Zenon
<1> QED
  BY <1>11, <1>12, <1>13, Zenon DEF QueueExact

\* RemoveJob drops the entries of its job, whose cgroups leave the mirror.
LEMMA FinishRemoveQueue == ASSUME IInv, QueueExact, FinishRemoveJob PROVE QueueExact'
<1> DEFINE r == effect.job
           q == removedCgroupQueue
           keep == {i \in 1 .. Len(q) : q[i].job # r}
<1>1. r \in Jobs /\ cgroupsByJob' = [cgroupsByJob EXCEPT ![r] = [c \in Cgroups |-> "none"]]
  BY Zenon DEF FinishRemoveJob, IInv, EffectOwned
<1>2. \A j \in Jobs, c \in Cgroups : cgroupsByJob'[j][c] = IF j = r THEN "none" ELSE cgroupsByJob[j][c]
  BY <1>1 DEF IInv, TypeOK
<1>3. PICK f \in Arrangements(keep) : q' = [i \in DOMAIN f |-> q[f[i]]]
  BY Zenon DEF FinishRemoveJob
<1>4. IsFiniteSet(keep)
  <2>0. removedCgroupQueue \in Seq(QueueEntry)
    BY Zenon DEF IInv, TypeOK
  <2>3. Len(q) \in Int
    BY <2>0, SeqLenInt, Zenon
  <2>1. IsFiniteSet(1 .. Len(q))
    BY <2>3, FS_Interval
  <2> QED
    BY <2>1, FS_Subset
<1>5. DOMAIN f = 1 .. Len(f) /\ Len(f) \in Nat /\ \A i \in 1 .. Len(f) : f[i] \in keep
  BY <1>4, ArrangementIsSeq
<1>6. /\ \A i, k \in 1 .. Len(f) : f[i] = f[k] => i = k
      /\ \A x \in keep : \E i \in 1 .. Len(f) : f[i] = x
  <2>1. Cardinality(keep) \in Nat /\ DOMAIN f = 1 .. Cardinality(keep)
    BY <1>4, FS_CardinalityType DEF Arrangements
  <2>2. Len(f) = Cardinality(keep)
    BY <1>5, <2>1
  <2> QED
    BY <2>2, Zenon DEF Arrangements
<1>7. Len(q') = Len(f) /\ \A i \in 1 .. Len(f) : q'[i] = q[f[i]]
  BY <1>3, <1>5
<1>8. \A i \in 1 .. Len(q) : q[i].job \in Jobs /\ q[i].cgroup \in Cgroups
  BY QueueEntries DEF IInv
<1>9. \A i, k \in 1 .. Len(q') : q'[i] = q'[k] => i = k
  <2>1. \A i, k \in 1 .. Len(q) : q[i] = q[k] => i = k
    BY DEF QueueExact
  <2> QED
    BY <1>5, <1>6, <1>7, <2>1, SMTT(30)
<1>10. \A i \in 1 .. Len(q') : cgroupsByJob'[q'[i].job][q'[i].cgroup] = "removed"
  <2>1. \A i \in 1 .. Len(q) : cgroupsByJob[q[i].job][q[i].cgroup] = "removed"
    BY DEF QueueExact
  <2> QED
    BY <1>2, <1>5, <1>7, <1>8, <2>1, SMTT(30)
<1>11. ASSUME NEW j \in Jobs, NEW c \in Cgroups, cgroupsByJob'[j][c] = "removed"
       PROVE  \E i \in 1 .. Len(q') : q'[i].job = j /\ q'[i].cgroup = c
  <2>1. j # r /\ cgroupsByJob[j][c] = "removed"
    BY <1>2, <1>11, Zenon
  <2>2. PICK x \in 1 .. Len(q) : q[x].job = j /\ q[x].cgroup = c
    BY <2>1 DEF QueueExact
  <2>3. PICK i \in 1 .. Len(f) : f[i] = x
    BY <1>6, <2>1, <2>2
  <2> QED
    BY <1>7, <2>2, <2>3
<1> QED
  BY <1>9, <1>10, <1>11 DEF QueueExact

\* A queue entry is its job and its cgroup.
LEMMA SameEntry ==
    \A e, f \in QueueEntry : e.job = f.job /\ e.cgroup = f.cgroup => e = f
BY DEF QueueEntry

\* A purge drops the expired prefix, and exactly those cgroups leave the mirror.
LEMMA PurgeQueue == ASSUME IInv, QueueExact, PurgeTick PROVE QueueExact'
<1> DEFINE q == removedCgroupQueue
<1>1. PICK n \in 1 .. Len(q) : /\ Unbind(StillRemoved(n))
                               /\ q' = SubSeq(q, n + 1, Len(q))
  BY Zenon DEF PurgeTick
<1>2. \A i \in 1 .. Len(q) : /\ q[i] \in QueueEntry /\ q[i].job \in Jobs /\ q[i].cgroup \in Cgroups
                             /\ cgroupsByJob[q[i].job][q[i].cgroup] = "removed"
                             /\ q[i].job = jobByCgroup[q[i].cgroup]
  BY QueueEntries DEF IInv, QueueExact, IndexesAgree
<1>3. \A j \in Jobs, c \in Cgroups : cgroupsByJob'[j][c] =
         IF c \in StillRemoved(n) /\ jobByCgroup[c] = j THEN "none" ELSE cgroupsByJob[j][c]
  BY <1>1 DEF Unbind
<1>4. \A i \in 1 .. n : q[i].cgroup \in StillRemoved(n)
  <2> SUFFICES ASSUME NEW i \in 1 .. n PROVE q[i].cgroup \in StillRemoved(n)
    OBVIOUS
  <2>1. i \in 1 .. Len(q)
    BY <1>1 DEF IInv, TypeOK
  <2>2. q[i] = [job |-> jobByCgroup[q[i].cgroup], cgroup |-> q[i].cgroup]
    BY <1>2, <2>1, SMTT(30) DEF QueueEntry
  <2>3. q[i].cgroup \in QueuedUpTo(n) /\ Mirrored(q[i].cgroup)
    BY <1>2, <2>1, ConstantsAssumption, SMTT(30) DEF QueuedUpTo, Mirrored
  <2> QED
    BY <1>2, <2>1, <2>2, <2>3, Zenon DEF StillRemoved
<1>5. \A c \in StillRemoved(n) : \E i \in 1 .. n : q[i].job = jobByCgroup[c] /\ q[i].cgroup = c
  BY SMTT(30) DEF StillRemoved
<1>6. /\ n \in Nat /\ Len(q) \in Nat /\ Len(q') \in Nat /\ Len(q') = Len(q) - n
      /\ \A i \in 1 .. Len(q') : i + n \in 1 .. Len(q) /\ q'[i] = q[i + n]
  BY <1>1, SMTT(30) DEF IInv, TypeOK
<1>7. \A i, k \in 1 .. Len(q) : q[i] = q[k] => i = k
  BY DEF QueueExact
<1>8. \A i, k \in 1 .. Len(q') : q'[i] = q'[k] => i = k
  <2> SUFFICES ASSUME NEW i \in 1 .. Len(q'), NEW k \in 1 .. Len(q'), q'[i] = q'[k] PROVE i = k
    OBVIOUS
  <2>1. i + n = k + n
    BY <1>6, <1>7, SMTT(30)
  <2> QED
    BY <1>6, <2>1
<1>9. ASSUME NEW i \in 1 .. Len(q')
      PROVE  cgroupsByJob'[q'[i].job][q'[i].cgroup] = "removed"
  <2> DEFINE x == i + n
  <2>1. x \in 1 .. Len(q) /\ q'[i] = q[x] /\ x \notin 1 .. n
    BY <1>6
  <2>2. q[x].cgroup \notin StillRemoved(n)
    <3> SUFFICES ASSUME q[x].cgroup \in StillRemoved(n) PROVE FALSE
      OBVIOUS
    <3>1. PICK k \in 1 .. n : q[k].job = jobByCgroup[q[x].cgroup] /\ q[k].cgroup = q[x].cgroup
      BY <1>5
    <3>2. k \in 1 .. Len(q)
      BY <1>6
    <3>3. q[k] \in QueueEntry /\ q[x] \in QueueEntry /\ q[k].job = q[x].job
      BY <1>2, <2>1, <3>1, <3>2, Zenon
    <3>4. q[k] = q[x]
      BY <3>1, <3>3, SameEntry, Zenon
    <3> QED
      BY <1>7, <2>1, <3>2, <3>4, SMTT(30)
  <2> QED
    BY <1>2, <1>3, <2>1, <2>2, SMTT(30)
<1>10. ASSUME NEW j \in Jobs, NEW c \in Cgroups, cgroupsByJob'[j][c] = "removed"
       PROVE  \E i \in 1 .. Len(q') : q'[i].job = j /\ q'[i].cgroup = c
  <2>1. cgroupsByJob[j][c] = "removed" /\ ~(c \in StillRemoved(n) /\ jobByCgroup[c] = j)
    BY <1>3, <1>10, SMTT(30)
  <2>2. PICK x \in 1 .. Len(q) : q[x].job = j /\ q[x].cgroup = c
    BY <2>1 DEF QueueExact
  <2>3. x \notin 1 .. n
    BY <1>2, <1>4, <2>1, <2>2, Zenon
  <2>4. x - n \in 1 .. Len(q') /\ (x - n) + n = x
    BY <1>6, <2>2, <2>3, SMTT(30)
  <2>5. q'[x - n] = q[x]
    BY <1>6, <2>4
  <2> QED
    BY <2>2, <2>4, <2>5
<1> QED
  BY <1>8, <1>9, <1>10 DEF QueueExact

LEMMA QueueStep == ASSUME IInv, QueueExact, [Next]_vars PROVE QueueExact'
<1>1. TypeOK
  BY DEF IInv
<1>2. CASE HandleSample
  <2>1. Head(ring) \in Sample /\ Head(ring).cgroup \in Cgroups
    BY <1>1, <1>2, TakeRing, Zenon DEF HandleSample, HandleMkdirSample, HandleAttachSample,
                                HandleRmdirSample, Sample
  <2>2. \A d : JobForCgroup(d) # NoJob => JobForCgroup(d) \in Jobs
    BY <1>1 DEF TypeOK, JobForCgroup, JobOrNone
  <2>3. CASE HandleRmdirSample /\ ~UNCHANGED cgroupVars
    <3> DEFINE c == Head(ring).cgroup
    <3>1. MarkRemoved({c}, <<c>>, 0) /\ Mirrored(c) /\ cgroupsByJob[jobByCgroup[c]][c] = "active"
      BY <2>3, Zenon DEF HandleRmdirSample
    <3>2. /\ {c} \in SUBSET Cgroups /\ <<c>> \in Seq({c})
          /\ \A i, k \in 1 .. Len(<<c>>) : <<c>>[i] = <<c>>[k] => i = k
          /\ \A d \in {c} : \E i \in 1 .. Len(<<c>>) : <<c>>[i] = d
      BY <2>1
    <3> HIDE DEF c
    <3> QED
      BY <3>1, <3>2, MarkingQueues, Zenon
  <2>4. CASE UNCHANGED cgroupVars
    BY <1>1, <2>4, SameRemoved, SMTT(30) DEF cgroupVars
  <2>5. CASE HandleMkdirSample \/ HandleAttachSample
    <3>1. UNCHANGED removedCgroupQueue
      BY <2>5, Zenon DEF HandleMkdirSample, HandleAttachSample
    <3>2. UNCHANGED cgroupsByJob \/ \E j \in Jobs, d \in Cgroups : Bind(j, d)
      <4>1. CASE HandleMkdirSample
        BY <2>1, <2>2, <4>1, <1>1, Zenon
           DEF HandleMkdirSample, PromoteStagedCgroup, TypeOK, JobOrNone
      <4>2. CASE HandleAttachSample
        BY <2>1, <2>2, <4>2, Zenon DEF HandleAttachSample
      <4> QED
        BY <2>5, <4>1, <4>2, Zenon
    <3>3. \A k \in Jobs, d \in Cgroups :
             cgroupsByJob'[k][d] = "removed" <=> cgroupsByJob[k][d] = "removed"
      BY <3>2, BindSameRemoved, SMTT(30)
    <3> QED
      BY <1>1, <3>1, <3>3, SameRemoved, SMTT(30)
  <2> QED
    BY <1>2, <2>3, <2>4, <2>5, Zenon DEF HandleSample
<1>3. CASE ReconcileCgroupLiveness
  <2>1. PICK o \in Arrangements(Vanished) : MarkRemoved(Vanished, o, reconcile.age)
    BY <1>3 DEF ReconcileCgroupLiveness
  <2>2. o \in Seq(Vanished) /\ DOMAIN o = 1 .. Len(o) /\ Vanished \in SUBSET Cgroups
    BY VanishedAreGone, ArrangementIsSeq
  <2>3. Cardinality(Vanished) \in Nat /\ DOMAIN o = 1 .. Cardinality(Vanished)
    BY VanishedAreGone, FS_CardinalityType DEF Arrangements
  <2>4. Len(o) = Cardinality(Vanished)
    BY <2>2, <2>3, SMTT(30)
  <2>5. /\ \A i, k \in 1 .. Len(o) : o[i] = o[k] => i = k
        /\ \A c \in Vanished : \E i \in 1 .. Len(o) : o[i] = c
    BY <2>4, SMTT(30) DEF Arrangements
  <2>6. \A c \in Vanished : Mirrored(c) /\ cgroupsByJob[jobByCgroup[c]][c] = "active"
    BY SMTT(30) DEF Vanished
  <2> QED
    BY <2>1, <2>2, <2>5, <2>6, MarkingQueues, SMTT(30)
<1>4. CASE Commands
  <2>1. CASE \E j \in Jobs, c \in Cgroups : BindCgroup(j, c)
    <3>1. PICK j \in Jobs, c \in Cgroups : BindCgroup(j, c)
      BY <2>1
    <3>2. Bind(j, c) /\ UNCHANGED removedCgroupQueue
      BY <3>1, SMTT(30) DEF BindCgroup
    <3> QED
      BY <1>1, <3>2, BindSameRemoved, SameRemoved, SMTT(30)
  <2>2. CASE UNCHANGED cgroupVars
    BY <1>1, <2>2, SameRemoved DEF cgroupVars
  <2> QED
    BY <1>4, <2>1, <2>2, SMTT(30) DEF Commands, RegisterJob, RemoveJob, StageCgroupBasename
<1>5. CASE FinishRemoveJob
  BY <1>5, FinishRemoveQueue
<1>6. CASE PurgeTick
  BY <1>6, PurgeQueue
<1>7. CASE UNCHANGED <<cgroupsByJob, removedCgroupQueue>>
  BY <1>1, <1>7, SameRemoved
<1>8. Hooks \/ DeleteTrackedKey \/ DeleteStagingKey \/ DeleteKeyFails \/ PurgeTickFails \/ Scanner
        \/ Tick \/ UNCHANGED vars => UNCHANGED <<cgroupsByJob, removedCgroupQueue>>
  BY Zenon DEF Hooks, CgroupMkdir, CgroupAttachTask, CgroupRmdir, DeleteTrackedKey, DeleteStagingKey,
         DeleteKeyFails, PurgeTickFails, Scanner, StartScan, FinishScan, AbortScan, Tick, vars,
         cgroupVars
<1> QED
  BY <1>2, <1>3, <1>4, <1>5, <1>6, <1>7, <1>8, Zenon DEF Next, RunEffect

\* removedCgroupQueue is exactly the removed cgroups of the mirror, each once:
\* rmdir samples and scans never queue one twice, RemoveJob and the purge drop
\* what they unbind (expiredRemovedCgroups relies on it).
THEOREM QueueIsExact == Spec => []RemovedQueueExact
<1>1. Init => QueueExact
  BY DEF Init, QueueExact
<1>2. IInv /\ QueueExact => RemovedQueueExact
  BY QueueExactEntrywise DEF IInv
<1> QED
  BY <1>1, <1>2, InvHolds, QueueStep, PTL DEF Spec
=============================================================================
