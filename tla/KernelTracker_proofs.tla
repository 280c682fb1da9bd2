------------------------ MODULE KernelTracker_proofs ------------------------
(***************************************************************************)
(* Proofs about KernelTracker, for any jobs, cgroups, ring size and grace  *)
(* period.                                                                 *)
(***************************************************************************)
EXTENDS KernelTracker, FiniteSetTheorems, SequenceTheorems, TLAPS

\* Nothing is known of a cgroup before it is created, and an rmdir sample is
\* about a cgroup that is gone for good.
BornFirst ==
    /\ live \subseteq born
    /\ \A c \in Cgroups : Mirrored(c) => c \in born
    /\ \A i \in 1 .. Len(ring) : /\ ring[i].cgroup \in born
                                 /\ ring[i].kind = "rmdir" => ring[i].cgroup \notin live

\* What a scan knew when it started and did not see does not exist.
SoundScan(s) ==
    /\ s.before \subseteq born
    /\ \A c \in s.before \ s.seen : c \notin live

ScansSound == SoundScan(scan) /\ SoundScan(reconcile)

\* RemoveJob deletes the map keys of its own job only.
EffectOwned ==
    effect.kind = "removeJob" =>
        /\ effect.job \in Jobs
        /\ \A c \in effect.cgroups : jobByCgroup[c] = effect.job

IInv ==
    /\ TypeOK
    /\ IndexesAgree
    /\ RemovedCgroupsAreGone
    /\ BornFirst
    /\ ScansSound
    /\ EffectOwned

-----------------------------------------------------------------------------
(* Lemmas about the pieces that the actions share.                         *)

\* The length of a queue is a bound FS_Interval accepts.
LEMMA SeqLenInt == \A S : \A q \in Seq(S) : Len(q) \in Int
OBVIOUS

\* A sample is appended or lost (RESERVE_SAMPLE).
LEMMA SubmitRing ==
    ASSUME TypeOK, NEW s \in Sample, Submit(s)
    PROVE  /\ ring' \in Seq(Sample)
           /\ \A i \in 1 .. Len(ring') :
                 \/ i \in 1 .. Len(ring) /\ ring'[i] = ring[i]
                 \/ ring'[i] = s
BY DEF TypeOK, Submit

\* The loop takes the oldest sample and leaves the others in their order.
LEMMA TakeRing ==
    ASSUME TypeOK, NEW k, TakeSample(k)
    PROVE  /\ ring' \in Seq(Sample)
           /\ Head(ring) = ring[1] /\ 1 \in 1 .. Len(ring) /\ Head(ring) \in Sample
           /\ \A i \in 1 .. Len(ring') : i + 1 \in 1 .. Len(ring) /\ ring'[i] = ring[i + 1]
BY DEF TypeOK, TakeSample

\* bindAt keeps the indexes in agreement, removes nothing, and takes the newly
\* bound cgroup out of the reach of the scans in flight.
LEMMA BindKeeps ==
    ASSUME IInv, NEW j \in Jobs, NEW c \in Cgroups, c \in born, Bind(j, c),
           UNCHANGED <<live, born>>
    PROVE  /\ jobByCgroup' \in [Cgroups -> JobOrNone]
           /\ cgroupsByJob' \in [Jobs -> [Cgroups -> CgroupState]]
           /\ scan' \in Scan /\ reconcile' \in Scan
           /\ \A d \in Cgroups, k \in Jobs : jobByCgroup'[d] = k <=> cgroupsByJob'[k][d] # "none"
           /\ RemovedCgroupsAreGone'
           /\ \A d \in Cgroups : jobByCgroup'[d] # NoJob => d \in born
           /\ ScansSound'
<1> USE ConstantsAssumption DEF IInv, TypeOK
<1>1. CASE Mirrored(c)
  BY <1>1 DEF Bind, scanVars, IndexesAgree, RemovedCgroupsAreGone, BornFirst, ScansSound,
              SoundScan, Mirrored
<1>2. CASE ~Mirrored(c)
  <2>1. /\ jobByCgroup' = [jobByCgroup EXCEPT ![c] = j]
        /\ cgroupsByJob' = [cgroupsByJob EXCEPT ![j][c] = "active"]
        /\ scan' = [scan EXCEPT !.before = @ \ {c}]
        /\ reconcile' = [reconcile EXCEPT !.before = @ \ {c}]
    BY <1>2 DEF Bind
  <2>2. jobByCgroup' \in [Cgroups -> JobOrNone] /\ cgroupsByJob' \in [Jobs -> [Cgroups -> CgroupState]]
    BY <2>1 DEF JobOrNone, CgroupState
  <2>3. scan' \in Scan /\ reconcile' \in Scan
    BY <2>1, Zenon DEF Scan
  <2>4. \A d \in Cgroups, k \in Jobs : jobByCgroup'[d] = k <=> cgroupsByJob'[k][d] # "none"
    BY <1>2, <2>1 DEF IndexesAgree, Mirrored, JobOrNone, CgroupState
  <2>5. RemovedCgroupsAreGone'
    BY <2>1 DEF RemovedCgroupsAreGone, CgroupState
  <2>6. \A d \in Cgroups : jobByCgroup'[d] # NoJob => d \in born
    BY <2>1 DEF BornFirst, Mirrored
  <2>7. ScansSound'
    BY <2>1 DEF ScansSound, SoundScan, Scan
  <2> QED
    BY <2>2, <2>3, <2>4, <2>5, <2>6, <2>7
<1> QED
  BY <1>1, <1>2

-----------------------------------------------------------------------------
(* The initial state.                                                       *)

LEMMA InitInv == Init => IInv
<1> SUFFICES ASSUME Init PROVE IInv
  OBVIOUS
<1> USE ConstantsAssumption DEF Init
<1>1. TypeOK
  BY DEF TypeOK, JobOrNone, CgroupState, Idle, Effect, NoScan, Scan
<1>2. IndexesAgree
  BY DEF IndexesAgree
<1>3. RemovedCgroupsAreGone
  BY DEF RemovedCgroupsAreGone
<1>4. BornFirst
  BY DEF BornFirst, Mirrored
<1>5. ScansSound
  BY DEF ScansSound, SoundScan, NoScan
<1>6. EffectOwned
  BY DEF EffectOwned, Idle
<1> QED
  BY <1>1, <1>2, <1>3, <1>4, <1>5, <1>6 DEF IInv

-----------------------------------------------------------------------------
(* The hooks.  They touch neither the mirror nor the scans.                 *)

LEMMA MkdirInv == ASSUME IInv, NEW c \in Cgroups, CgroupMkdir(c) PROVE IInv'
<1> USE ConstantsAssumption
<1>1. /\ c \notin born /\ live' = live \cup {c} /\ born' = born \cup {c}
      /\ UNCHANGED <<jobs, jobByCgroup, cgroupsByJob, removedAge, removedCgroupQueue,
                     stagingByBasename, stagingByJob, ended, effect, scan, reconcile>>
  BY DEF CgroupMkdir, cgroupVars, stagingVars, scanVars
<1>2. MkdirSample(c, FALSE) \in Sample /\ MkdirSample(c, TRUE) \in Sample
  BY DEF MkdirSample, Sample
<1>3. UNCHANGED ring \/ Submit(MkdirSample(c, FALSE)) \/ Submit(MkdirSample(c, TRUE))
  BY Zenon DEF CgroupMkdir, MkdirTracked, MkdirStaged, MkdirForeign, HookMapUpdateFails
<1>3b. /\ trackedCgroups' \in SUBSET Cgroups /\ stagingMap' \in SUBSET Basenames
  <2> USE DEF IInv, TypeOK
  <2>1. CASE HookMapUpdateFails
    BY <2>1 DEF HookMapUpdateFails
  <2>2. CASE MkdirTracked(c) /\ ~HookMapUpdateFails
    BY <2>2, Zenon DEF MkdirTracked
  <2>3. CASE MkdirStaged(c) /\ ~HookMapUpdateFails
    BY <2>3, Zenon DEF MkdirStaged
  <2>4. CASE MkdirForeign(c)
    BY <2>4 DEF MkdirForeign
  <2> QED
    BY <2>1, <2>2, <2>3, <2>4 DEF CgroupMkdir
<1>4. /\ ring' \in Seq(Sample)
      /\ \A i \in 1 .. Len(ring') :
            \/ i \in 1 .. Len(ring) /\ ring'[i] = ring[i]
            \/ ring'[i].cgroup = c /\ ring'[i].kind = "mkdir"
  <2>1. CASE UNCHANGED ring
    BY <2>1 DEF IInv, TypeOK
  <2>2. CASE Submit(MkdirSample(c, FALSE)) \/ Submit(MkdirSample(c, TRUE))
    BY <2>2, <1>2, SubmitRing DEF IInv, MkdirSample
  <2> QED
    BY <1>3, <2>1, <2>2, Zenon
<1>5. TypeOK'
  BY <1>1, <1>3b, <1>4 DEF IInv, TypeOK
<1>6. IndexesAgree' /\ EffectOwned'
  BY <1>1 DEF IInv, IndexesAgree, EffectOwned
<1>7. RemovedCgroupsAreGone'
  <2>1. \A j \in Jobs : cgroupsByJob[j][c] = "none"
    BY <1>1 DEF IInv, BornFirst, Mirrored, IndexesAgree, TypeOK
  <2> QED
    BY <1>1, <2>1 DEF IInv, RemovedCgroupsAreGone
<1>8. BornFirst'
  BY <1>1, <1>4, SMTT(30) DEF IInv, BornFirst, Mirrored
<1>9. ScansSound'
  BY <1>1 DEF IInv, ScansSound, SoundScan
<1> QED
  BY <1>5, <1>6, <1>7, <1>8, <1>9 DEF IInv

LEMMA AttachInv ==
    ASSUME IInv, NEW s \in Cgroups, NEW d \in Cgroups, CgroupAttachTask(s, d)
    PROVE  IInv'
<1> USE ConstantsAssumption
<1>1. /\ d \in live
      /\ UNCHANGED <<live, born, jobs, jobByCgroup, cgroupsByJob, removedAge, removedCgroupQueue,
                     stagingByBasename, stagingByJob, ended, effect, scan, reconcile>>
  BY DEF CgroupAttachTask, cgroupVars, stagingVars, scanVars
<1>2. AttachSample(s, d) \in Sample
  BY DEF AttachSample, Sample
<1>3. /\ trackedCgroups' \in SUBSET Cgroups /\ stagingMap' \in SUBSET Basenames
      /\ UNCHANGED ring \/ Submit(AttachSample(s, d))
  BY DEF CgroupAttachTask, HookMapUpdateFails, IInv, TypeOK
<1>4. /\ ring' \in Seq(Sample)
      /\ \A i \in 1 .. Len(ring') :
            \/ i \in 1 .. Len(ring) /\ ring'[i] = ring[i]
            \/ ring'[i].cgroup = d /\ ring'[i].kind = "attach"
  <2>1. CASE UNCHANGED ring
    BY <2>1 DEF IInv, TypeOK
  <2>2. CASE Submit(AttachSample(s, d))
    BY <2>2, <1>2, SubmitRing, SMTT(30) DEF IInv, AttachSample
  <2> QED
    BY <1>3, <2>1, <2>2, Zenon
<1>5. TypeOK'
  BY <1>1, <1>3, <1>4, SMTT(30) DEF IInv, TypeOK
<1>6. IndexesAgree' /\ EffectOwned' /\ RemovedCgroupsAreGone' /\ ScansSound'
  BY <1>1 DEF IInv, IndexesAgree, EffectOwned, RemovedCgroupsAreGone, ScansSound, SoundScan
<1>7. BornFirst'
  BY <1>1, <1>4 DEF IInv, BornFirst, Mirrored
<1> QED
  BY <1>5, <1>6, <1>7 DEF IInv

LEMMA RmdirInv == ASSUME IInv, NEW c \in Cgroups, CgroupRmdir(c) PROVE IInv'
<1> USE ConstantsAssumption
<1>1. /\ c \in live /\ live' = live \ {c}
      /\ UNCHANGED <<born, trackedCgroups, stagingMap, jobs, jobByCgroup, cgroupsByJob,
                     removedAge, removedCgroupQueue, stagingByBasename, stagingByJob, ended,
                     effect, scan, reconcile>>
      /\ UNCHANGED ring \/ Submit(RmdirSample(c))
  BY DEF CgroupRmdir, cgroupVars, stagingVars, scanVars
<1>2. RmdirSample(c) \in Sample
  BY DEF RmdirSample, Sample
<1>4. /\ ring' \in Seq(Sample)
      /\ \A i \in 1 .. Len(ring') :
            \/ i \in 1 .. Len(ring) /\ ring'[i] = ring[i]
            \/ ring'[i].cgroup = c
  <2>1. CASE UNCHANGED ring
    BY <2>1 DEF IInv, TypeOK
  <2>2. CASE Submit(RmdirSample(c))
    BY <2>2, <1>2, SubmitRing DEF IInv, RmdirSample
  <2> QED
    BY <1>1, <2>1, <2>2
<1>5. TypeOK'
  BY <1>1, <1>4 DEF IInv, TypeOK
<1>6. IndexesAgree' /\ EffectOwned' /\ RemovedCgroupsAreGone' /\ ScansSound'
  BY <1>1 DEF IInv, IndexesAgree, EffectOwned, RemovedCgroupsAreGone, ScansSound, SoundScan
<1>7. BornFirst'
  BY <1>1, <1>4 DEF IInv, BornFirst, Mirrored
<1> QED
  BY <1>5, <1>6, <1>7 DEF IInv

-----------------------------------------------------------------------------
(* The samples.                                                             *)

\* What every sample handler leaves alone, and the shorter ring.
LEMMA TakeKeeps ==
    ASSUME IInv, NEW k, TakeSample(k)
    PROVE  /\ effect = Idle
           /\ Head(ring) \in Sample /\ Head(ring).kind = k
           /\ Head(ring).cgroup \in born
           /\ k = "rmdir" => Head(ring).cgroup \notin live
           /\ ring' \in Seq(Sample)
           /\ UNCHANGED <<live, born, trackedCgroups, stagingMap, jobs, effect>>
           /\ \A i \in 1 .. Len(ring') : /\ ring'[i].cgroup \in born
                                         /\ ring'[i].kind = "rmdir" => ring'[i].cgroup \notin live
<1>1. UNCHANGED <<live, born, trackedCgroups, stagingMap, jobs, effect>>
  BY DEF TakeSample, kernelVars
<1>2. effect = Idle /\ Head(ring).kind = k
  BY DEF TakeSample
<1> QED
  BY <1>1, <1>2, TakeRing DEF IInv, BornFirst

LEMMA EffectIdle ==
    ASSUME effect = Idle, UNCHANGED effect
    PROVE  EffectOwned'
BY DEF EffectOwned, Idle

LEMMA HandleMkdirInv == ASSUME IInv, HandleMkdirSample PROVE IInv'
<1> USE ConstantsAssumption
<1> DEFINE s == Head(ring)
           parentJob == JobForCgroup(s.from)
           b == BaseOf[s.cgroup]
           owner == IF b \in Basenames THEN stagingByBasename[b] ELSE NoJob
<1>1. TakeSample("mkdir")
  BY DEF HandleMkdirSample
<1>2. /\ s \in Sample /\ s.cgroup \in Cgroups /\ s.cgroup \in born /\ effect = Idle
      /\ ring' \in Seq(Sample)
      /\ UNCHANGED <<live, born, trackedCgroups, stagingMap, jobs, effect>>
      /\ \A i \in 1 .. Len(ring') : /\ ring'[i].cgroup \in born
                                    /\ ring'[i].kind = "rmdir" => ring'[i].cgroup \notin live
  BY <1>1, TakeKeeps, Zenon DEF Sample
<1>3. UNCHANGED <<removedAge, removedCgroupQueue, ended>>
  BY DEF HandleMkdirSample
<1>4. parentJob \in JobOrNone /\ owner \in JobOrNone
  BY <1>2, Zenon DEF IInv, TypeOK, Sample, JobOrNone, JobForCgroup
<1>5. \/ /\ UNCHANGED <<jobByCgroup, cgroupsByJob, scan, reconcile>>
         /\ UNCHANGED <<stagingByBasename, stagingByJob>>
      \/ /\ \E j \in Jobs : Bind(j, s.cgroup)
         /\ \/ UNCHANGED <<stagingByBasename, stagingByJob>>
            \/ /\ owner \in Jobs /\ b \in Basenames
               /\ stagingByBasename' = [stagingByBasename EXCEPT ![b] = NoJob]
               /\ stagingByJob' = [stagingByJob EXCEPT ![owner] = @ \ {b}]
  <2>1. CASE parentJob # NoJob
    BY <2>1, <1>4, Zenon DEF HandleMkdirSample, stagingVars, JobOrNone
  <2>2. CASE parentJob = NoJob /\ ~s.stagingMatched
    BY <2>2, Zenon DEF HandleMkdirSample, stagingVars, scanVars
  <2>3. CASE parentJob = NoJob /\ s.stagingMatched
    <3>1. PromoteStagedCgroup(b, s.cgroup)
      BY <2>3, Zenon DEF HandleMkdirSample
    <3>2. CASE owner = NoJob
      BY <3>1, <3>2 DEF PromoteStagedCgroup, stagingVars, scanVars
    <3>3. CASE owner # NoJob
      <4>1. owner \in Jobs /\ b \in Basenames
        BY <3>3, <1>4, Zenon DEF JobOrNone
      <4>2. Bind(owner, s.cgroup)
        BY <3>1, <3>3, ZenonT(60) DEF PromoteStagedCgroup
      <4>3. \/ UNCHANGED <<stagingByBasename, stagingByJob>>
            \/ /\ stagingByBasename' = [stagingByBasename EXCEPT ![b] = NoJob]
               /\ stagingByJob' = [stagingByJob EXCEPT ![owner] = @ \ {b}]
        BY <3>1, <3>3, Zenon DEF PromoteStagedCgroup, stagingVars
      <4> QED
        BY <4>1, <4>2, <4>3, Zenon
    <3> QED
      BY <3>2, <3>3, Zenon
  <2> QED
    BY <2>1, <2>2, <2>3, ZenonT(60)
<1>6. /\ jobByCgroup' \in [Cgroups -> JobOrNone]
      /\ cgroupsByJob' \in [Jobs -> [Cgroups -> CgroupState]]
      /\ scan' \in Scan /\ reconcile' \in Scan
      /\ \A d \in Cgroups, k \in Jobs : jobByCgroup'[d] = k <=> cgroupsByJob'[k][d] # "none"
      /\ RemovedCgroupsAreGone'
      /\ \A d \in Cgroups : jobByCgroup'[d] # NoJob => d \in born
      /\ ScansSound'
  <2>1. CASE UNCHANGED <<jobByCgroup, cgroupsByJob, scan, reconcile>>
    BY <2>1, <1>2, SMTT(30) DEF IInv, TypeOK, IndexesAgree, RemovedCgroupsAreGone, BornFirst, Mirrored,
                      ScansSound, SoundScan
  <2>2. CASE \E j \in Jobs : Bind(j, s.cgroup)
    BY <2>2, <1>2, BindKeeps
  <2> QED
    BY <1>5, <2>1, <2>2, Zenon
<1>7. /\ stagingByBasename' \in [Basenames -> JobOrNone]
      /\ stagingByJob' \in [Jobs -> SUBSET Basenames]
      /\ \A n \in Basenames, j \in Jobs : stagingByBasename'[n] = j <=> n \in stagingByJob'[j]
  <2>1. CASE UNCHANGED <<stagingByBasename, stagingByJob>>
    BY <2>1, Zenon DEF IInv, TypeOK, IndexesAgree
  <2>2. CASE /\ owner \in Jobs /\ b \in Basenames
             /\ stagingByBasename' = [stagingByBasename EXCEPT ![b] = NoJob]
             /\ stagingByJob' = [stagingByJob EXCEPT ![owner] = @ \ {b}]
    BY <2>2, SMTT(30) DEF IInv, TypeOK, IndexesAgree, JobOrNone
  <2> QED
    BY <1>5, <2>1, <2>2, Zenon
<1>8. TypeOK'
  BY <1>2, <1>3, <1>6, <1>7, Zenon DEF IInv, TypeOK
<1>9. IndexesAgree'
  BY <1>6, <1>7 DEF IndexesAgree
<1>10. BornFirst'
  BY <1>2, <1>6, ZenonT(60) DEF IInv, BornFirst, Mirrored
<1> QED
  BY <1>2, <1>6, <1>8, <1>9, <1>10, EffectIdle, Zenon DEF IInv

LEMMA HandleAttachInv == ASSUME IInv, HandleAttachSample PROVE IInv'
<1> USE ConstantsAssumption
<1> DEFINE s == Head(ring)
<1>1. TakeSample("attach")
  BY Zenon DEF HandleAttachSample
<1>2. /\ s \in Sample /\ s.cgroup \in Cgroups /\ s.cgroup \in born /\ effect = Idle
      /\ ring' \in Seq(Sample)
      /\ UNCHANGED <<live, born, trackedCgroups, stagingMap, jobs, effect>>
      /\ \A i \in 1 .. Len(ring') : /\ ring'[i].cgroup \in born
                                    /\ ring'[i].kind = "rmdir" => ring'[i].cgroup \notin live
  BY <1>1, TakeKeeps, ZenonT(60) DEF Sample
<1>3. UNCHANGED <<removedAge, removedCgroupQueue, stagingByBasename, stagingByJob, ended>>
  BY Zenon DEF HandleAttachSample, stagingVars
<1>4. \/ UNCHANGED <<jobByCgroup, cgroupsByJob, scan, reconcile>>
      \/ \E j \in Jobs : Bind(j, s.cgroup)
  BY <1>2, Zenon DEF HandleAttachSample, scanVars, JobForCgroup, IInv, TypeOK, JobOrNone
<1>5. /\ jobByCgroup' \in [Cgroups -> JobOrNone]
      /\ cgroupsByJob' \in [Jobs -> [Cgroups -> CgroupState]]
      /\ scan' \in Scan /\ reconcile' \in Scan
      /\ \A d \in Cgroups, k \in Jobs : jobByCgroup'[d] = k <=> cgroupsByJob'[k][d] # "none"
      /\ RemovedCgroupsAreGone'
      /\ \A d \in Cgroups : jobByCgroup'[d] # NoJob => d \in born
      /\ ScansSound'
  <2>1. CASE UNCHANGED <<jobByCgroup, cgroupsByJob, scan, reconcile>>
    BY <2>1, <1>2, Zenon DEF IInv, TypeOK, IndexesAgree, RemovedCgroupsAreGone, BornFirst, Mirrored,
                      ScansSound, SoundScan
  <2>2. CASE \E j \in Jobs : Bind(j, s.cgroup)
    BY <2>2, <1>2, BindKeeps
  <2> QED
    BY <1>4, <2>1, <2>2, Zenon
<1>6. TypeOK'
  BY <1>2, <1>3, <1>5, Zenon DEF IInv, TypeOK
<1>7. IndexesAgree'
  BY <1>3, <1>5, Zenon DEF IInv, IndexesAgree
<1>8. BornFirst'
  BY <1>2, <1>5 DEF IInv, BornFirst, Mirrored
<1> QED
  BY <1>2, <1>5, <1>6, <1>7, <1>8, EffectIdle, SMTT(30) DEF IInv

\* markTrackedCgroupRemoved on cgroups of the mirror that are gone.
LEMMA MarkRemovedKeeps ==
    ASSUME IInv, NEW S \in SUBSET Cgroups, NEW o \in Seq(S), NEW age \in 0 .. Grace,
           \A c \in S : Mirrored(c) /\ c \notin live,
           MarkRemoved(S, o, age), UNCHANGED live
    PROVE  /\ UNCHANGED jobByCgroup
           /\ cgroupsByJob' \in [Jobs -> [Cgroups -> CgroupState]]
           /\ removedAge' \in [Cgroups -> 0 .. Grace]
           /\ removedCgroupQueue' \in Seq(QueueEntry)
           /\ ended' \in SUBSET Jobs
           /\ \A c \in Cgroups, j \in Jobs : jobByCgroup[c] = j <=> cgroupsByJob'[j][c] # "none"
           /\ RemovedCgroupsAreGone'
<1> USE ConstantsAssumption
<1> DEFINE byJob == [j \in Jobs |-> [c \in Cgroups |->
                       IF c \in S /\ jobByCgroup[c] = j THEN "removed" ELSE cgroupsByJob[j][c]]]
<1>1. UNCHANGED jobByCgroup /\ cgroupsByJob' = byJob
  BY DEF MarkRemoved
<1>2. \A j \in Jobs, c \in Cgroups :
        byJob[j][c] = IF c \in S /\ jobByCgroup[c] = j THEN "removed" ELSE cgroupsByJob[j][c]
  OBVIOUS
<1>3. byJob \in [Jobs -> [Cgroups -> CgroupState]]
  BY Zenon DEF IInv, TypeOK, CgroupState
<1> HIDE DEF byJob
<1>4. removedAge' \in [Cgroups -> 0 .. Grace]
  BY DEF MarkRemoved, IInv, TypeOK
<1>5. removedCgroupQueue' \in Seq(QueueEntry)
  <2>1. removedCgroupQueue' = removedCgroupQueue \o
           [i \in 1 .. Len(o) |-> [job |-> jobByCgroup[o[i]], cgroup |-> o[i]]]
    BY Zenon DEF MarkRemoved
  <2>2. \A i \in 1 .. Len(o) : [job |-> jobByCgroup[o[i]], cgroup |-> o[i]] \in QueueEntry
    <3> SUFFICES ASSUME NEW i \in 1 .. Len(o)
                 PROVE  o[i] \in Cgroups /\ jobByCgroup[o[i]] \in Jobs
      BY DEF QueueEntry
    <3>1. o[i] \in S
      OBVIOUS
    <3> QED
      BY <3>1, Zenon DEF IInv, TypeOK, JobOrNone, Mirrored
  <2>3. [i \in 1 .. Len(o) |-> [job |-> jobByCgroup[o[i]], cgroup |-> o[i]]] \in Seq(QueueEntry)
    BY <2>2, SMTT(30)
  <2> QED
    BY <2>1, <2>3, SMTT(30) DEF IInv, TypeOK
<1>6. ended' \in SUBSET Jobs
  BY Zenon DEF MarkRemoved, IInv, TypeOK
<1>7. \A c \in Cgroups, j \in Jobs : jobByCgroup[c] = j <=> cgroupsByJob'[j][c] # "none"
  BY <1>1, <1>2, SMTT(30) DEF IInv, IndexesAgree, TypeOK
<1>8. RemovedCgroupsAreGone'
  BY <1>1, <1>2 DEF IInv, RemovedCgroupsAreGone
<1> QED
  BY <1>1, <1>3, <1>4, <1>5, <1>6, <1>7, <1>8, SMTT(30)

LEMMA HandleRmdirInv == ASSUME IInv, HandleRmdirSample PROVE IInv'
<1> USE ConstantsAssumption
<1> DEFINE c == Head(ring).cgroup
<1>1. TakeSample("rmdir")
  BY DEF HandleRmdirSample
<1>2. /\ c \in Cgroups /\ c \notin live /\ effect = Idle
      /\ ring' \in Seq(Sample)
      /\ UNCHANGED <<live, born, trackedCgroups, stagingMap, jobs, effect>>
      /\ \A i \in 1 .. Len(ring') : /\ ring'[i].cgroup \in born
                                    /\ ring'[i].kind = "rmdir" => ring'[i].cgroup \notin live
  BY <1>1, TakeKeeps, Zenon DEF Sample
<1>3. UNCHANGED <<stagingByBasename, stagingByJob, scan, reconcile>>
  BY DEF HandleRmdirSample, stagingVars, scanVars
<1>4. /\ UNCHANGED jobByCgroup
      /\ cgroupsByJob' \in [Jobs -> [Cgroups -> CgroupState]]
      /\ removedAge' \in [Cgroups -> 0 .. Grace]
      /\ removedCgroupQueue' \in Seq(QueueEntry)
      /\ ended' \in SUBSET Jobs
      /\ \A d \in Cgroups, j \in Jobs : jobByCgroup[d] = j <=> cgroupsByJob'[j][d] # "none"
      /\ RemovedCgroupsAreGone'
  <2>1. CASE UNCHANGED <<cgroupVars, ended>>
    BY <2>1, <1>2 DEF cgroupVars, IInv, TypeOK, IndexesAgree, RemovedCgroupsAreGone
  <2>2. CASE Mirrored(c) /\ MarkRemoved({c}, <<c>>, 0)
    <3>1. {c} \in SUBSET Cgroups /\ <<c>> \in Seq({c}) /\ 0 \in 0 .. Grace
      BY <1>2, SMTT(30)
    <3> HIDE DEF c
    <3> QED
      BY <2>2, <1>2, <3>1, MarkRemovedKeeps, ZenonT(60)
  <2> QED
    BY <2>1, <2>2, Zenon DEF HandleRmdirSample
<1>5. TypeOK'
  BY <1>2, <1>3, <1>4, Zenon DEF IInv, TypeOK
<1>6. IndexesAgree'
  BY <1>3, <1>4, Zenon DEF IInv, IndexesAgree
<1>7. BornFirst'
  BY <1>2, <1>4, Zenon DEF IInv, BornFirst, Mirrored
<1>8. ScansSound'
  BY <1>2, <1>3, Zenon DEF IInv, ScansSound, SoundScan
<1> QED
  BY <1>2, <1>4, <1>5, <1>6, <1>7, <1>8, EffectIdle, Zenon DEF IInv

-----------------------------------------------------------------------------
(* The commands and the effect of RemoveJob.                                *)

LEMMA RegisterInv == ASSUME IInv, NEW j \in Jobs, RegisterJob(j) PROVE IInv'
<1>1. /\ jobs' = jobs \cup {j} /\ ended' = ended \ {j}
      /\ UNCHANGED <<live, born, trackedCgroups, stagingMap, ring, jobByCgroup, cgroupsByJob,
                     removedAge, removedCgroupQueue, stagingByBasename, stagingByJob, effect,
                     scan, reconcile>>
  BY DEF RegisterJob, kernelVars, cgroupVars, stagingVars, scanVars
<1>2. TypeOK'
  BY <1>1 DEF IInv, TypeOK
<1> QED
  BY <1>1, <1>2 DEF IInv, IndexesAgree, RemovedCgroupsAreGone, BornFirst, Mirrored, ScansSound,
                    SoundScan, EffectOwned

LEMMA BindCgroupInv ==
    ASSUME IInv, NEW j \in Jobs, NEW c \in Cgroups, BindCgroup(j, c) PROVE IInv'
<1>1. /\ effect = Idle /\ c \in born /\ Bind(j, c)
      /\ trackedCgroups' = trackedCgroups \cup {c}
      /\ UNCHANGED <<live, born, stagingMap, ring, jobs, removedAge, removedCgroupQueue,
                     stagingByBasename, stagingByJob, ended, effect>>
  BY DEF BindCgroup, stagingVars
<1>2. /\ jobByCgroup' \in [Cgroups -> JobOrNone]
      /\ cgroupsByJob' \in [Jobs -> [Cgroups -> CgroupState]]
      /\ scan' \in Scan /\ reconcile' \in Scan
      /\ \A d \in Cgroups, k \in Jobs : jobByCgroup'[d] = k <=> cgroupsByJob'[k][d] # "none"
      /\ RemovedCgroupsAreGone'
      /\ \A d \in Cgroups : jobByCgroup'[d] # NoJob => d \in born
      /\ ScansSound'
  BY <1>1, BindKeeps, Zenon
<1>3. TypeOK'
  BY <1>1, <1>2 DEF IInv, TypeOK
<1>4. IndexesAgree' /\ BornFirst'
  BY <1>1, <1>2, Zenon DEF IInv, IndexesAgree, BornFirst, Mirrored
<1> QED
  BY <1>1, <1>2, <1>3, <1>4, EffectIdle, Zenon DEF IInv

LEMMA StageInv ==
    ASSUME IInv, NEW j \in Jobs, NEW b \in Basenames, StageCgroupBasename(b, j) PROVE IInv'
<1> USE ConstantsAssumption
<1>1. /\ effect = Idle /\ stagingByBasename[b] \in {NoJob, j}
      /\ stagingMap' = stagingMap \cup {b}
      /\ stagingByBasename' = [stagingByBasename EXCEPT ![b] = j]
      /\ stagingByJob' = [stagingByJob EXCEPT ![j] = @ \cup {b}]
      /\ UNCHANGED <<live, born, trackedCgroups, ring, jobs, jobByCgroup, cgroupsByJob,
                     removedAge, removedCgroupQueue, ended, effect, scan, reconcile>>
  BY Zenon DEF StageCgroupBasename, cgroupVars, scanVars
<1>2. TypeOK'
  BY <1>1, Zenon DEF IInv, TypeOK, JobOrNone
<1>3. IndexesAgree'
  BY <1>1, SMTT(30) DEF IInv, TypeOK, JobOrNone, IndexesAgree
<1>4. RemovedCgroupsAreGone' /\ BornFirst' /\ ScansSound' /\ EffectOwned'
  BY <1>1 DEF IInv, RemovedCgroupsAreGone, BornFirst, Mirrored, ScansSound, SoundScan, EffectOwned
<1> QED
  BY <1>2, <1>3, <1>4, Zenon DEF IInv

LEMMA RemoveJobInv == ASSUME IInv, NEW j \in Jobs, RemoveJob(j) PROVE IInv'
<1>1. /\ effect' = [kind |-> "removeJob", job |-> j,
                    cgroups |-> CgroupsOf(j), staging |-> stagingByJob[j]]
      /\ UNCHANGED <<live, born, trackedCgroups, stagingMap, ring, jobs, jobByCgroup,
                     cgroupsByJob, removedAge, removedCgroupQueue, stagingByBasename, stagingByJob,
                     ended, scan, reconcile>>
  BY DEF RemoveJob, kernelVars, cgroupVars, stagingVars, scanVars
<1>2. CgroupsOf(j) \in SUBSET Cgroups /\ \A c \in CgroupsOf(j) : jobByCgroup[c] = j
  BY Zenon DEF CgroupsOf, IInv, IndexesAgree
<1>3. TypeOK'
  BY <1>1, <1>2, Zenon DEF IInv, TypeOK, Effect, JobOrNone
<1>4. EffectOwned'
  BY <1>1, <1>2, Zenon DEF EffectOwned
<1>5. IndexesAgree' /\ RemovedCgroupsAreGone' /\ BornFirst' /\ ScansSound'
  BY <1>1 DEF IInv, IndexesAgree, RemovedCgroupsAreGone, BornFirst, Mirrored, ScansSound, SoundScan
<1> QED
  BY <1>3, <1>4, <1>5, Zenon DEF IInv

\* Deleting a key, and giving up, leave the mirror as it is.
LEMMA DeleteKeyInv ==
    ASSUME IInv, DeleteTrackedKey \/ DeleteStagingKey \/ DeleteKeyFails PROVE IInv'
<1>1. UNCHANGED <<live, born, ring, jobs, jobByCgroup, cgroupsByJob, removedAge, removedCgroupQueue,
                  stagingByBasename, stagingByJob, ended, scan, reconcile>>
  BY DEF DeleteTrackedKey, DeleteStagingKey, DeleteKeyFails, cgroupVars, stagingVars, scanVars
<1>2. /\ trackedCgroups' \in SUBSET Cgroups /\ stagingMap' \in SUBSET Basenames
      /\ effect' \in Effect /\ EffectOwned'
  <2> USE DEF IInv, TypeOK, Effect, JobOrNone, EffectOwned
  <2>1. CASE DeleteTrackedKey
    <3>1. PICK c \in effect.cgroups : /\ trackedCgroups' = trackedCgroups \ {c}
                                      /\ effect' = [effect EXCEPT !.cgroups = @ \ {c}]
      BY <2>1, Zenon DEF DeleteTrackedKey
    <3>2. effect.kind = "removeJob" /\ UNCHANGED stagingMap
      BY <2>1 DEF DeleteTrackedKey
    <3>3. effect' \in Effect
      BY <3>1, Zenon
    <3>4. EffectOwned'
      BY <3>1, <3>2, <1>1, Zenon
    <3> QED
      BY <3>1, <3>2, <3>3, <3>4, Zenon
  <2>2. CASE DeleteStagingKey
    BY <2>2, <1>1, ZenonT(60) DEF DeleteStagingKey
  <2>3. CASE DeleteKeyFails
    BY <2>3, <1>1, ConstantsAssumption, Zenon DEF DeleteKeyFails, Idle
  <2> QED
    BY <2>1, <2>2, <2>3
<1>3. TypeOK'
  BY <1>1, <1>2, Zenon DEF IInv, TypeOK
<1>4. IndexesAgree' /\ RemovedCgroupsAreGone' /\ BornFirst' /\ ScansSound'
  BY <1>1 DEF IInv, IndexesAgree, RemovedCgroupsAreGone, BornFirst, Mirrored, ScansSound, SoundScan
<1> QED
  BY <1>2, <1>3, <1>4 DEF IInv

\* A listing of a set of cgroups, or of positions of the queue, is a sequence.
LEMMA ArrangementIsSeq ==
    ASSUME NEW S, IsFiniteSet(S), NEW f \in Arrangements(S)
    PROVE  f \in Seq(S) /\ DOMAIN f = 1 .. Len(f)
<1>1. Cardinality(S) \in Nat
  BY FS_CardinalityType
<1>2. f \in [1 .. Cardinality(S) -> S]
  BY DEF Arrangements
<1> QED
  BY <1>1, <1>2

LEMMA FinishRemoveJobInv == ASSUME IInv, FinishRemoveJob PROVE IInv'
<1> USE ConstantsAssumption
<1> DEFINE j == effect.job
           keep == {i \in 1 .. Len(removedCgroupQueue) : removedCgroupQueue[i].job # j}
<1>1. j \in Jobs
  BY Zenon DEF FinishRemoveJob, IInv, EffectOwned
<1>2. /\ jobs' = jobs \ {j} /\ ended' = ended \ {j} /\ effect' = Idle
      /\ jobByCgroup' = [c \in Cgroups |-> IF c \in CgroupsOf(j) THEN NoJob ELSE jobByCgroup[c]]
      /\ cgroupsByJob' = [cgroupsByJob EXCEPT ![j] = [c \in Cgroups |-> "none"]]
      /\ removedAge' = [c \in Cgroups |-> IF c \in CgroupsOf(j) THEN 0 ELSE removedAge[c]]
      /\ stagingByBasename' = [b \in Basenames |-> IF b \in stagingByJob[j] THEN NoJob
                                                   ELSE stagingByBasename[b]]
      /\ stagingByJob' = [stagingByJob EXCEPT ![j] = {}]
      /\ UNCHANGED <<live, born, trackedCgroups, stagingMap, ring, scan, reconcile>>
  BY Zenon DEF FinishRemoveJob, kernelVars, scanVars
<1>3. removedCgroupQueue' \in Seq(QueueEntry)
  <2>1. PICK f \in Arrangements(keep) :
           removedCgroupQueue' = [i \in DOMAIN f |-> removedCgroupQueue[f[i]]]
    BY Zenon DEF FinishRemoveJob
  <2>2. IsFiniteSet(keep)
    <3>0. removedCgroupQueue \in Seq(QueueEntry)
      BY Zenon DEF IInv, TypeOK
    <3>1. Len(removedCgroupQueue) \in Int
      <4> HIDE DEF j, keep
      <4> QED
        BY <3>0, SeqLenInt, Zenon
    <3>2. IsFiniteSet(1 .. Len(removedCgroupQueue))
      BY <3>1, FS_Interval
    <3> QED
      BY <3>2, FS_Subset
  <2>3. f \in Seq(keep) /\ DOMAIN f = 1 .. Len(f)
    BY <2>1, <2>2, ArrangementIsSeq, Zenon
  <2>4. \A i \in 1 .. Len(f) : removedCgroupQueue[f[i]] \in QueueEntry
    BY <2>3, SMTT(30) DEF IInv, TypeOK
  <2> QED
    BY <2>1, <2>3, <2>4, SMTT(30)
<1>4. TypeOK'
  BY <1>1, <1>2, <1>3, SMTT(30) DEF IInv, TypeOK, JobOrNone, CgroupState, Idle, Effect
<1>5. IndexesAgree'
  <2>1. \A c \in Cgroups, k \in Jobs : jobByCgroup'[c] = k <=> cgroupsByJob'[k][c] # "none"
    BY <1>1, <1>2, SMTT(30) DEF IInv, TypeOK, IndexesAgree, CgroupsOf
  <2>2. \A b \in Basenames, k \in Jobs : stagingByBasename'[b] = k <=> b \in stagingByJob'[k]
    BY <1>1, <1>2, SMTT(30) DEF IInv, TypeOK, IndexesAgree
  <2> QED
    BY <2>1, <2>2, Zenon DEF IndexesAgree
<1>6. RemovedCgroupsAreGone'
  BY <1>1, <1>2, Zenon DEF IInv, TypeOK, RemovedCgroupsAreGone
<1>7. BornFirst'
  BY <1>2, Zenon DEF IInv, BornFirst, Mirrored
<1>8. ScansSound' /\ EffectOwned'
  BY <1>2, Zenon DEF IInv, ScansSound, SoundScan, EffectOwned, Idle
<1> QED
  BY <1>4, <1>5, <1>6, <1>7, <1>8, Zenon DEF IInv

-----------------------------------------------------------------------------
(* The purge tick and the scanner.                                          *)

\* Only removed cgroups of the mirror are purged.
LEMMA PurgeTickInv == ASSUME IInv, PurgeTick PROVE IInv'
<1> USE ConstantsAssumption
<1>1. /\ effect = Idle
      /\ UNCHANGED <<live, born, stagingMap, ring, jobs, stagingByBasename, stagingByJob,
                     ended, effect, scan, reconcile>>
  BY DEF PurgeTick, stagingVars, scanVars
<1>2. PICK n \in 1 .. Len(removedCgroupQueue) :
         /\ trackedCgroups' = trackedCgroups \ QueuedUpTo(n)
         /\ Unbind(StillRemoved(n))
         /\ removedCgroupQueue' = SubSeq(removedCgroupQueue, n + 1, Len(removedCgroupQueue))
  BY Zenon DEF PurgeTick
<1> DEFINE S == StillRemoved(n)
<1>3. S \in SUBSET Cgroups /\ \A c \in S : Mirrored(c)
  BY DEF StillRemoved, QueuedUpTo
<1>4. removedCgroupQueue' \in Seq(QueueEntry)
  BY <1>2, SMTT(30) DEF IInv, TypeOK
<1>5. /\ jobByCgroup' = [c \in Cgroups |-> IF c \in S THEN NoJob ELSE jobByCgroup[c]]
      /\ cgroupsByJob' = [j \in Jobs |-> [c \in Cgroups |->
                             IF c \in S /\ jobByCgroup[c] = j THEN "none" ELSE cgroupsByJob[j][c]]]
      /\ removedAge' = [c \in Cgroups |-> IF c \in S THEN 0 ELSE removedAge[c]]
  BY <1>2, Zenon DEF Unbind
<1> HIDE DEF S
<1>6. TypeOK'
  BY <1>1, <1>2, <1>4, <1>5, SMTT(30) DEF IInv, TypeOK, JobOrNone, CgroupState
<1>7. \A c \in Cgroups, j \in Jobs : jobByCgroup'[c] = j <=> cgroupsByJob'[j][c] # "none"
  BY <1>5, SMTT(30) DEF IInv, TypeOK, IndexesAgree
<1>8. IndexesAgree'
  BY <1>1, <1>7, Zenon DEF IInv, IndexesAgree
<1>9. RemovedCgroupsAreGone' /\ BornFirst' /\ ScansSound'
  BY <1>1, <1>5, Zenon DEF IInv, RemovedCgroupsAreGone, BornFirst, Mirrored, ScansSound, SoundScan
<1> QED
  BY <1>1, <1>6, <1>8, <1>9, EffectIdle, Zenon DEF IInv

\* A failed purge has deleted map keys only.
LEMMA PurgeTickFailsInv == ASSUME IInv, PurgeTickFails PROVE IInv'
<1>1. /\ effect = Idle /\ trackedCgroups' \in SUBSET trackedCgroups
      /\ UNCHANGED <<live, born, stagingMap, ring, jobs, jobByCgroup, cgroupsByJob, removedAge,
                     removedCgroupQueue, stagingByBasename, stagingByJob, ended, effect, scan,
                     reconcile>>
  BY DEF PurgeTickFails, cgroupVars, stagingVars, scanVars
<1>2. TypeOK'
  BY <1>1 DEF IInv, TypeOK
<1> QED
  BY <1>1, <1>2, EffectIdle, Zenon DEF IInv, IndexesAgree, RemovedCgroupsAreGone, BornFirst, Mirrored,
                                ScansSound, SoundScan

\* A walk starts from the cgroups of the mirror and ends with what it saw.
LEMMA ScannerInv == ASSUME IInv, Scanner PROVE IInv'
<1> USE ConstantsAssumption
<1>1. UNCHANGED <<live, born, trackedCgroups, stagingMap, ring, jobs, jobByCgroup,
                  cgroupsByJob, removedAge, removedCgroupQueue, stagingByBasename, stagingByJob,
                  ended, effect>>
  BY Zenon DEF Scanner, StartScan, FinishScan, AbortScan, kernelVars, cgroupVars, stagingVars
<1>2. NoScan \in Scan /\ SoundScan(NoScan)
  BY DEF NoScan, Scan, SoundScan
<1>3. scan' \in Scan /\ reconcile' \in Scan /\ ScansSound'
  <2>1. CASE StartScan
    <3>1. /\ scan' = [on |-> TRUE, before |-> {c \in Cgroups : Mirrored(c)}, seen |-> live, age |-> 0]
          /\ UNCHANGED reconcile
      BY <2>1, Zenon DEF StartScan
    <3>2. scan' \in Scan
      BY <3>1 DEF IInv, TypeOK, Scan
    <3>3. \A c \in scan'.before : c \in born
      BY <3>1, Zenon DEF IInv, BornFirst
    <3>4. ScansSound'
      <4>1. scan'.before = {c \in Cgroups : Mirrored(c)} /\ scan'.seen = live
        BY <3>1
      <4>2. \A c \in scan'.before \ scan'.seen : c \notin live
        BY <4>1
      <4> QED
        BY <1>1, <3>1, <3>3, <4>2, Zenon DEF IInv, ScansSound, SoundScan
    <3> QED
      BY <3>1, <3>2, <3>4, Zenon DEF IInv, TypeOK
  <2>2. CASE FinishScan
    <3>1. PICK T \in SUBSET ((scan.seen \cup live) \ (scan.seen \cap live)) :
             reconcile' = [scan EXCEPT !.seen = (scan.seen \cap live) \cup T]
      BY <2>2, Zenon DEF FinishScan
    <3>2. scan' = NoScan
      BY <2>2 DEF FinishScan
    <3>3. reconcile' \in Scan /\ SoundScan(reconcile)'
      BY <1>1, <3>1, ZenonT(60) DEF IInv, TypeOK, Scan, ScansSound, SoundScan
    <3>4. SoundScan(scan)'
      BY <3>2, Zenon DEF SoundScan, NoScan
    <3> QED
      BY <1>2, <3>2, <3>3, <3>4 DEF ScansSound
  <2>3. CASE AbortScan
    BY <1>1, <1>2, <2>3, Zenon DEF AbortScan, IInv, TypeOK, ScansSound, SoundScan
  <2> QED
    BY <2>1, <2>2, <2>3, Zenon DEF Scanner
<1>4. TypeOK'
  BY <1>1, <1>3, Zenon DEF IInv, TypeOK
<1> QED
  BY <1>1, <1>3, <1>4, Zenon DEF IInv, IndexesAgree, RemovedCgroupsAreGone, BornFirst, Mirrored, EffectOwned

\* A cgroup that a scan reports as vanished does not exist, however old the
\* scan is.
LEMMA VanishedAreGone ==
    ASSUME IInv
    PROVE  /\ Vanished \in SUBSET Cgroups /\ IsFiniteSet(Vanished)
           /\ \A c \in Vanished : Mirrored(c) /\ c \notin live
<1>1. Vanished \in SUBSET Cgroups
  BY Zenon DEF Vanished, IInv, TypeOK, Scan
<1> QED
  BY <1>1, FS_Subset, ConstantsAssumption DEF Vanished, IInv, ScansSound, SoundScan

LEMMA ReconcileInv == ASSUME IInv, ReconcileCgroupLiveness PROVE IInv'
<1> USE ConstantsAssumption
<1>1. /\ effect = Idle /\ reconcile' = NoScan
      /\ UNCHANGED <<live, born, trackedCgroups, stagingMap, ring, jobs, stagingByBasename,
                     stagingByJob, effect, scan>>
  BY DEF ReconcileCgroupLiveness, kernelVars, stagingVars
<1>2. PICK o \in Arrangements(Vanished) : MarkRemoved(Vanished, o, reconcile.age)
  BY DEF ReconcileCgroupLiveness
<1>3. o \in Seq(Vanished)
  BY VanishedAreGone, ArrangementIsSeq, Zenon
<1>4. reconcile.age \in 0 .. Grace
  BY Zenon DEF IInv, TypeOK, Scan
<1>5. /\ UNCHANGED jobByCgroup
      /\ cgroupsByJob' \in [Jobs -> [Cgroups -> CgroupState]]
      /\ removedAge' \in [Cgroups -> 0 .. Grace]
      /\ removedCgroupQueue' \in Seq(QueueEntry)
      /\ ended' \in SUBSET Jobs
      /\ \A c \in Cgroups, j \in Jobs : jobByCgroup[c] = j <=> cgroupsByJob'[j][c] # "none"
      /\ RemovedCgroupsAreGone'
  BY <1>1, <1>2, <1>3, <1>4, VanishedAreGone, MarkRemovedKeeps, ZenonT(60)
<1>6. TypeOK'
  BY <1>1, <1>5, SMTT(30) DEF IInv, TypeOK, NoScan, Scan
<1>7. IndexesAgree' /\ BornFirst' /\ ScansSound'
  BY <1>1, <1>5, Zenon DEF IInv, IndexesAgree, BornFirst, Mirrored, ScansSound, SoundScan, NoScan
<1> QED
  BY <1>1, <1>5, <1>6, <1>7, EffectIdle, Zenon DEF IInv

LEMMA TickInv == ASSUME IInv, Tick PROVE IInv'
<1> USE ConstantsAssumption
<1>1. UNCHANGED <<live, born, trackedCgroups, stagingMap, ring, jobs, jobByCgroup,
                  cgroupsByJob, removedCgroupQueue, stagingByBasename, stagingByJob, ended, effect,
                  scan>>
  BY DEF Tick, kernelVars, stagingVars
<1>2. \A a \in 0 .. Grace : Older(a) \in 0 .. Grace
  BY DEF Older
<1>3. removedAge' \in [Cgroups -> 0 .. Grace]
  BY <1>2 DEF Tick, IInv, TypeOK
<1>4. reconcile' \in Scan /\ reconcile'.before = reconcile.before /\ reconcile'.seen = reconcile.seen
  BY <1>2, Zenon DEF Tick, IInv, TypeOK, Scan
<1>5. TypeOK'
  BY <1>1, <1>3, <1>4 DEF IInv, TypeOK
<1> QED
  BY <1>1, <1>4, <1>5, ZenonT(60) DEF IInv, IndexesAgree, RemovedCgroupsAreGone, BornFirst, Mirrored,
                          ScansSound, SoundScan, EffectOwned

-----------------------------------------------------------------------------
(* The inductive invariant and what follows from it.                        *)

LEMMA NextInv == ASSUME IInv, [Next]_vars PROVE IInv'
<1>1. CASE Hooks
  <2>1. CASE \E c \in Cgroups : CgroupMkdir(c)
    BY <2>1, MkdirInv
  <2>2. CASE \E c \in Cgroups : CgroupRmdir(c)
    BY <2>2, RmdirInv
  <2>3. CASE \E s, d \in Cgroups : CgroupAttachTask(s, d)
    BY <2>3, AttachInv
  <2> QED
    BY <1>1, <2>1, <2>2, <2>3 DEF Hooks
<1>2. CASE Commands
  BY <1>2, RegisterInv, RemoveJobInv, BindCgroupInv, StageInv DEF Commands
<1>3. CASE RunEffect
  BY <1>3, DeleteKeyInv, FinishRemoveJobInv DEF RunEffect
<1>4. CASE HandleSample
  BY <1>4, HandleMkdirInv, HandleAttachInv, HandleRmdirInv DEF HandleSample
<1>5. CASE PurgeTick
  BY <1>5, PurgeTickInv
<1>6. CASE PurgeTickFails
  BY <1>6, PurgeTickFailsInv, Zenon
<1>7. CASE Scanner
  BY <1>7, ScannerInv
<1>8. CASE ReconcileCgroupLiveness
  BY <1>8, ReconcileInv
<1>9. CASE Tick
  BY <1>9, TickInv
<1>10. CASE UNCHANGED vars
  BY <1>10, Zenon DEF vars, kernelVars, cgroupVars, stagingVars, scanVars, IInv, TypeOK, IndexesAgree,
               RemovedCgroupsAreGone, BornFirst, Mirrored, ScansSound, SoundScan, EffectOwned
<1> QED
  BY <1>1, <1>2, <1>3, <1>4, <1>5, <1>6, <1>7, <1>8, <1>9, <1>10 DEF Next

LEMMA InvHolds == Spec => []IInv
BY InitInv, NextInv, PTL DEF Spec

\* Every variable keeps its type.
THEOREM TypeCorrect == Spec => []TypeOK
<1>1. IInv => TypeOK
  BY DEF IInv
<1> QED
  BY <1>1, InvHolds, PTL

\* jobByCgroup and cgroupsByJob, stagingByBasename and stagingByJob never
\* disagree (job_tracking_cgroup.go keeps each pair by hand).
THEOREM IndexesAlwaysAgree == Spec => []IndexesAgree
<1>1. IInv => IndexesAgree
  BY DEF IInv
<1> QED
  BY <1>1, InvHolds, PTL

\* No existing cgroup is marked removed, by an rmdir sample or by a scan of any
\* age (markTrackedCgroupRemoved, reconcileCgroupLiveness).
THEOREM OnlyGoneCgroupsRemoved == Spec => []RemovedCgroupsAreGone
<1>1. IInv => RemovedCgroupsAreGone
  BY DEF IInv
<1> QED
  BY <1>1, InvHolds, PTL

=============================================================================
