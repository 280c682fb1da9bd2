----------------------- MODULE HttpUprobeWorker_proofs -----------------------
(***************************************************************************)
(* Proofs about HttpUprobeWorker: for any files and versions, processes,   *)
(* cgroups and symbols, sizes of the queues and the cache's evictions, cap *)
(* on targets, and any limit of at least two missing scans.                *)
(***************************************************************************)
EXTENDS HttpUprobeWorker, TLAPS

-----------------------------------------------------------------------------
(* The inductive invariant.                                                *)

\* Keys name versions that the file has or had.
Seen(k) == k[2] <= version[k[1]]

KeysSeen ==
    /\ \A k \in cache : Seen(k)
    /\ \A p \in Procs : hook[p].at = "claim" => Seen(hook[p].key)
    /\ \A i \in 1 .. Len(ring) : Seen(ring[i].key)
    /\ \A i \in 1 .. Len(queue) : Seen(queue[i].key)
    /\ \A c \in InHand : Seen(c.key)

\* The file in hand is not attached.
RoomInHand == \A c \in InHand : c.key[1] \notin DOMAIN attached

\* A file that was not rewritten since it was opened gets one of its symbols.
SymbolsFound ==
    worker.at = "attaching" /\ CurKey(worker.cand.key[1]) = worker.cand.key =>
        /\ Kind[worker.cand.key] = "symbol"
        /\ worker.got # {} \/ worker.todo # <<>>

\* What a complete scan has not observed yet, it will, unless it began late.
ScanCovers ==
    worker.at = "scanning" /\ worker.complete =>
        \A m \in maps :
            CgroupOf[m[1]] \in worker.request.active =>
                m[1] \in worker.pids \/ m[2] \in worker.observed \/ m \in worker.request.late

\* A scan for request r is bound to see what target f was attached for.
Sees(r, f) ==
    \A m \in attached[f].origin : CgroupOf[m[1]] \in r.active /\ m \notin r.late

AskedSees(f) == \A i \in 1 .. Len(reconcile) : Sees(reconcile[i], f)
ScanSees(f) == worker.at = "scanning" => Sees(worker.request, f)

OriginMapped(f) ==
    \A m \in attached[f].origin : m \in maps /\ m[2] = f /\ CgroupOf[m[1]] \in known

\* Of the scans asked for before an attachment only one is left to run: a
\* target is missed once at most while a mapping it was attached for is there.
MissedOnce ==
    \A f \in DOMAIN attached :
        /\ OriginMapped(f)
        /\ worker.at = "scanning" => AskedSees(f)
        /\ attached[f].origin # {} /\ attached[f].missing # 0 =>
              attached[f].missing = 1 /\ AskedSees(f) /\ ScanSees(f)

IInv ==
    /\ TypeOK /\ KeysSeen /\ RoomInHand /\ SymbolsFound /\ CacheJustified /\ ProbesOwned
    /\ ScanCovers /\ MissedOnce

-----------------------------------------------------------------------------
(* Sequences, and the states of the worker.                                *)

LEMMA Sizes ==
    /\ MaxVersion \in Nat \ {0} /\ RingSize \in Nat \ {0} /\ QueueSize \in Nat \ {0}
    /\ MaxTargets \in Nat \ {0} /\ MissingScanLimit \in Nat \ {0, 1}
  <1>1. {MaxVersion, RingSize, QueueSize, MaxTargets} \subseteq Nat \ {0}
        /\ MissingScanLimit \in Nat \ {0, 1}
    BY UprobeAssumption, Zenon
  <1> QED
    BY <1>1, Zenon

Holds(q, k) == \E i \in 1 .. Len(q) : q[i].key = k

LEMMA Appended ==
    ASSUME NEW q \in Seq(Candidate), NEW c \in Candidate
    PROVE  /\ Append(q, c) \in Seq(Candidate)
           /\ Len(q) \in Nat /\ Len(Append(q, c)) = Len(q) + 1
           /\ Append(q, c)[Len(q) + 1] = c
           /\ Len(q) + 1 \in 1 .. Len(q) + 1
           /\ \A i \in 1 .. Len(q) : Append(q, c)[i] = q[i] /\ i \in 1 .. Len(q) + 1
           /\ \A i \in 1 .. Len(q) + 1 : i \in 1 .. Len(q) \/ i = Len(q) + 1
  OBVIOUS

LEMMA Taken ==
    ASSUME NEW q \in Seq(Candidate), q # <<>>
    PROVE  /\ Tail(q) \in Seq(Candidate)
           /\ Len(q) \in Nat /\ Len(Tail(q)) = Len(q) - 1
           /\ Head(q) = q[1] /\ Head(q) \in Candidate /\ 1 \in 1 .. Len(q)
           /\ \A i \in 1 .. Len(Tail(q)) : Tail(q)[i] = q[i + 1] /\ i + 1 \in 1 .. Len(q)
           /\ \A i \in 1 .. Len(q) : i # 1 =>
                 i - 1 \in 1 .. Len(Tail(q)) /\ Tail(q)[i - 1] = q[i]
  OBVIOUS

\* A queue holds the keys it held and that of the candidate put in.
LEMMA HoldsAppended ==
    ASSUME NEW q \in Seq(Candidate), NEW c \in Candidate, NEW k
    PROVE  Holds(Append(q, c), k) <=> Holds(q, k) \/ c.key = k
  <1>1. ASSUME NEW i \in 1 .. Len(q), q[i].key = k
        PROVE  \E j \in 1 .. Len(Append(q, c)) : Append(q, c)[j].key = k
    <2>1. i \in 1 .. Len(Append(q, c)) /\ Append(q, c)[i] = q[i]
      BY Appended, Zenon
    <2> QED
      BY <1>1, <2>1, Zenon
  <1>2. Len(q) + 1 \in 1 .. Len(Append(q, c)) /\ Append(q, c)[Len(q) + 1] = c
    BY Appended, Zenon
  <1>3. ASSUME NEW i \in 1 .. Len(Append(q, c)), Append(q, c)[i].key = k
        PROVE  Holds(q, k) \/ c.key = k
    <2>1. i \in 1 .. Len(q) \/ i = Len(q) + 1
      BY Appended, Zenon
    <2>2. CASE i \in 1 .. Len(q)
      <3>1. Append(q, c)[i] = q[i]
        BY <2>2, Appended, Zenon
      <3> QED
        BY <1>3, <2>2, <3>1, Zenon DEF Holds
    <2> QED
      BY <1>2, <1>3, <2>1, <2>2, Zenon
  <1> QED
    BY <1>1, <1>2, <1>3, Zenon DEF Holds

\* Only the key of the candidate that is taken can leave a queue.
LEMMA HoldsTaken ==
    ASSUME NEW q \in Seq(Candidate), q # <<>>, NEW k
    PROVE  /\ Holds(q, k) => Holds(Tail(q), k) \/ Head(q).key = k
           /\ Holds(Tail(q), k) => Holds(q, k)
  <1>1. ASSUME NEW i \in 1 .. Len(q), q[i].key = k
        PROVE  Holds(Tail(q), k) \/ Head(q).key = k
    <2>1. CASE i = 1
      BY <1>1, <2>1, Taken, Zenon
    <2>2. CASE i # 1
      <3>1. i - 1 \in 1 .. Len(Tail(q)) /\ Tail(q)[i - 1] = q[i]
        BY <2>2, Taken, Zenon
      <3> QED
        BY <1>1, <3>1, Zenon DEF Holds
    <2> QED
      BY <2>1, <2>2, Zenon
  <1>2. ASSUME NEW i \in 1 .. Len(Tail(q)), Tail(q)[i].key = k
        PROVE  Holds(q, k)
    <2>1. Tail(q)[i] = q[i + 1] /\ i + 1 \in 1 .. Len(q)
      BY Taken, Zenon
    <2> QED
      BY <1>2, <2>1, Zenon DEF Holds
  <1> QED
    BY <1>1, <1>2, Zenon DEF Holds

\* A function on 1 .. n with values in T is a sequence.
LEMMA Sequence ==
    ASSUME NEW T, NEW n \in Nat, NEW s \in [1 .. n -> T]
    PROVE  s \in Seq(T) /\ Len(s) = n
  OBVIOUS

LEMMA CandidateFields ==
    ASSUME NEW c \in Candidate
    PROVE  /\ c.proc \in Procs /\ c.key \in Keys
           /\ c.key[1] \in Files /\ c.key[2] \in Versions /\ c.key = <<c.key[1], c.key[2]>>
  BY DEF Candidate, Keys

LEMMA WorkerTypes ==
    ASSUME worker \in {Idle, Stopped} \cup Working
    PROVE  /\ worker.at \in {"idle", "stopped", "opened", "attaching", "scanning"}
           /\ worker.at = "idle" <=> worker = Idle
           /\ worker.at = "stopped" <=> worker = Stopped
           /\ worker.at = "opened" => worker \in [at : {"opened"}, cand : Candidate]
           /\ worker.at = "attaching" =>
                 worker \in [at : {"attaching"}, cand : Candidate, todo : Seq(SymbolSet),
                             got : SUBSET SymbolSet]
           /\ worker.at = "scanning" =>
                 worker \in [at : {"scanning"}, request : Request, pids : SUBSET Procs,
                             observed : SUBSET Files, complete : BOOLEAN]
  BY DEF Idle, Stopped, Working

LEMMA WorkerFields ==
    ASSUME worker \in {Idle, Stopped} \cup Working
    PROVE  /\ worker.at \in {"opened", "attaching"} => worker.cand \in Candidate
           /\ worker.at = "attaching" =>
                 worker.todo \in Seq(SymbolSet) /\ worker.got \in SUBSET SymbolSet
           /\ worker.at = "scanning" =>
                 /\ worker.request \in Request /\ worker.pids \in SUBSET Procs
                 /\ worker.observed \in SUBSET Files /\ worker.complete \in BOOLEAN
  BY WorkerTypes

LEMMA HookFields ==
    ASSUME TypeOK, NEW p \in Procs
    PROVE  /\ hook[p].at = "claim" => hook[p].key \in Keys
           /\ hook[p].at = "claim" \/ hook[p] = Idle
  BY DEF TypeOK, Idle

LEMMA QueueFields ==
    ASSUME TypeOK
    PROVE  /\ ring \in Seq(Candidate) /\ queue \in Seq(Candidate) /\ reconcile \in Seq(Request)
           /\ \A i \in 1 .. Len(ring) : ring[i] \in Candidate /\ ring[i].key \in Keys
           /\ \A i \in 1 .. Len(queue) : queue[i] \in Candidate /\ queue[i].key \in Keys
           /\ \A i \in 1 .. Len(reconcile) : reconcile[i] \in Request
  <1>1. ring \in Seq(Candidate) /\ queue \in Seq(Candidate) /\ reconcile \in Seq(Request)
    BY Zenon DEF TypeOK
  <1>2. /\ \A i \in 1 .. Len(ring) : ring[i] \in Candidate
        /\ \A i \in 1 .. Len(queue) : queue[i] \in Candidate
        /\ \A i \in 1 .. Len(reconcile) : reconcile[i] \in Request
    BY <1>1
  <1> QED
    BY <1>1, <1>2, CandidateFields, Zenon

LEMMA InHandIs ==
    /\ worker.at \in {"opened", "attaching"} => InHand = {worker.cand}
    /\ worker.at \notin {"opened", "attaching"} => InHand = {}
  BY Zenon DEF InHand

LEMMA InHandNext ==
    /\ worker'.at \in {"opened", "attaching"} => InHand' = {worker'.cand}
    /\ worker'.at \notin {"opened", "attaching"} => InHand' = {}
  BY Zenon DEF InHand

LEMMA InHandTyped ==
    ASSUME TypeOK, NEW c \in InHand
    PROVE  c \in Candidate /\ c.key \in Keys /\ c.key[1] \in Files
  <1>1. worker \in {Idle, Stopped} \cup Working
    BY Zenon DEF TypeOK
  <1>2. c \in Candidate
    BY <1>1, WorkerFields, InHandIs, Zenon
  <1> QED
    BY <1>2, CandidateFields, Zenon

\* The key of a file is a key, and a file has one current key.
LEMMA CurrentKey ==
    ASSUME TypeOK, NEW f \in Files
    PROVE  CurKey(f) \in Keys /\ CurKey(f)[1] = f /\ CurKey(f)[2] = version[f] /\ Seen(CurKey(f))
  BY Sizes DEF TypeOK, CurKey, Keys, Versions, Seen

LEMMA PendingIs ==
    ASSUME TypeOK, NEW k
    PROVE  Pending(k) <=> Holds(ring, k) \/ Holds(queue, k) \/ \E c \in InHand : c.key = k
  <1>1. DOMAIN ring = 1 .. Len(ring) /\ DOMAIN queue = 1 .. Len(queue)
    BY DEF TypeOK
  <1> QED
    BY <1>1, Zenon DEF Pending, Holds

LEMMA PendingNext ==
    ASSUME TypeOK', NEW k
    PROVE  Pending(k)' <=> Holds(ring', k) \/ Holds(queue', k) \/ \E c \in InHand' : c.key = k
  <1>1. DOMAIN ring' = 1 .. Len(ring') /\ DOMAIN queue' = 1 .. Len(queue')
    BY DEF TypeOK
  <1> QED
    BY <1>1, Zenon DEF Pending, Holds

-----------------------------------------------------------------------------
(* What keeps the parts of the invariant that a step does not touch.       *)

\* The worker does not change what it holds.
SameHand ==
    /\ InHand' = InHand
    /\ worker.at = "attaching" \/ worker'.at = "attaching" => worker' = worker
    /\ worker' = Stopped <=> worker = Stopped

LEMMA StillHolds ==
    ASSUME worker' = worker
    PROVE  SameHand
  BY Zenon DEF SameHand, InHand

LEMMA StillSeen ==
    ASSUME KeysSeen, UNCHANGED <<version, cache, hook, ring, queue>>, InHand' \subseteq InHand
    PROVE  KeysSeen'
  BY Zenon DEF KeysSeen, Seen

LEMMA StillRoom ==
    ASSUME RoomInHand, DOMAIN attached' = DOMAIN attached, InHand' \subseteq InHand
    PROVE  RoomInHand'
  BY Zenon DEF RoomInHand

LEMMA StillFound ==
    ASSUME SymbolsFound, version' = version, worker'.at = "attaching" => worker' = worker
    PROVE  SymbolsFound'
  BY Zenon DEF SymbolsFound, CurKey

\* A key that is still cached was cached before, and what justified that stays.
LEMMA StillJustified ==
    ASSUME TypeOK, CacheJustified, version' = version,
           \A f \in Files : CurKey(f) \in cache' /\ CurKey(f) \in Targets =>
               \/ Pending(CurKey(f))'
               \/ f \in DOMAIN attached' /\ attached'[f].key = CurKey(f)
               \/ CurKey(f) \in reported'
    PROVE  CacheJustified'
  <1>1. \A f \in Files : CurKey(f)' = CurKey(f)
    BY Zenon DEF CurKey
  <1> QED
    BY <1>1, Zenon DEF CacheJustified

LEMMA SameLinks ==
    ASSUME DOMAIN attached' = DOMAIN attached,
           \A f \in DOMAIN attached : attached'[f].links = attached[f].links
    PROVE  AttachedLinks' = AttachedLinks
  BY Zenon DEF AttachedLinks

LEMMA StillOwned ==
    ASSUME ProbesOwned, probes' = probes, DOMAIN attached' = DOMAIN attached,
           \A f \in DOMAIN attached : attached'[f].links = attached[f].links, SameHand
    PROVE  ProbesOwned'
  <1>1. HandLinks' = HandLinks
    BY Zenon DEF HandLinks, SameHand
  <1> QED
    BY <1>1, SameLinks, Zenon DEF SameHand, ProbesOwned

LEMMA StillCovered ==
    ASSUME ScanCovers, maps' = maps, worker'.at = "scanning" => worker' = worker
    PROVE  ScanCovers'
  BY Zenon DEF ScanCovers

LEMMA StillMissedOnce ==
    ASSUME MissedOnce, UNCHANGED <<attached, maps, reconcile>>, known \subseteq known',
           worker'.at = "scanning" => worker' = worker
    PROVE  MissedOnce'
  <1>1. attached' = attached /\ maps' = maps /\ reconcile' = reconcile
    BY Zenon
  <1>2. \A f \in DOMAIN attached : OriginMapped(f) => OriginMapped(f)'
    BY <1>1, Zenon DEF OriginMapped
  <1>3. \A f \in DOMAIN attached : AskedSees(f) => AskedSees(f)'
    BY <1>1, Zenon DEF AskedSees, Sees
  <1>4. \A f \in DOMAIN attached : ScanSees(f) => ScanSees(f)'
    BY <1>1, Zenon DEF ScanSees, Sees
  <1> QED
    BY <1>1, <1>2, <1>3, <1>4, Zenon DEF MissedOnce

LEMMA SameJustified ==
    ASSUME CacheJustified, UNCHANGED <<version, cache, ring, queue, reported>>, SameHand,
           DOMAIN attached' = DOMAIN attached,
           \A f \in DOMAIN attached : attached'[f].key = attached[f].key
    PROVE  CacheJustified'
  <1>1. \A f \in Files : CurKey(f)' = CurKey(f)
    BY Zenon DEF CurKey
  <1>2. \A f \in Files : Pending(CurKey(f)) => Pending(CurKey(f))'
    BY <1>1, Zenon DEF Pending, SameHand
  <1> QED
    BY <1>1, <1>2, Zenon DEF CacheJustified

-----------------------------------------------------------------------------
(* The world around discovery.                                             *)

LEMMA RewriteInv ==
    ASSUME IInv, NEW f \in Files, Rewrite(f)
    PROVE  IInv'
  <1>0. TypeOK /\ KeysSeen /\ RoomInHand /\ SymbolsFound /\ CacheJustified /\ ProbesOwned
        /\ ScanCovers /\ MissedOnce
    BY Zenon DEF IInv
  <1>1. UNCHANGED <<maps, known, hook, cache, ring, queue, reconcile, worker, attached,
                    probes, reported>>
        /\ version[f] < MaxVersion /\ version' = [version EXCEPT ![f] = @ + 1]
    BY Zenon DEF Rewrite
  <1>2. version \in [Files -> Versions]
    BY <1>0, Zenon DEF TypeOK
  <1>3. version' \in [Files -> Versions]
    BY <1>1, <1>2, Sizes DEF Versions
  <1>4. /\ \A g \in Files : version[g] <= version'[g]
        /\ \A g \in Files : g # f => version'[g] = version[g]
        /\ \A v \in Versions : v <= version[f] => v # version'[f]
    BY <1>1, <1>2, Sizes DEF Versions
  <1>5. TypeOK'
    BY <1>0, <1>1, <1>3, Zenon DEF TypeOK
  <1>6. \A k \in Keys : k[1] \in Files /\ k[2] \in Versions
    BY DEF Keys
  <1>7. ASSUME NEW k \in Keys, Seen(k) PROVE Seen(k)'
    <2>1. k[2] <= version[k[1]] /\ version[k[1]] <= version'[k[1]]
      BY <1>4, <1>6, <1>7, Zenon DEF Seen
    <2>2. k[2] \in Nat /\ version[k[1]] \in Nat /\ version'[k[1]] \in Nat
      BY <1>2, <1>3, <1>6 DEF Versions
    <2>3. k[2] <= version'[k[1]]
      BY <2>1, <2>2
    <2> QED
      BY <2>3, Zenon DEF Seen
  <1>8. KeysSeen'
    <2>1. \A k \in cache : k \in Keys
      BY <1>0, Zenon DEF TypeOK
    <2>2. \A p \in Procs : hook[p].at = "claim" => hook[p].key \in Keys
      BY <1>0, HookFields, Zenon
    <2>3. /\ \A i \in 1 .. Len(ring) : ring[i].key \in Keys
          /\ \A i \in 1 .. Len(queue) : queue[i].key \in Keys
      BY <1>0, QueueFields, Zenon
    <2>4. \A c \in InHand : c.key \in Keys
      BY <1>0, InHandTyped, Zenon
    <2>5. InHand' = InHand
      BY <1>1, StillHolds, Zenon DEF SameHand
    <2> QED
      BY <1>0, <1>1, <1>7, <2>1, <2>2, <2>3, <2>4, <2>5, Zenon DEF KeysSeen
  <1>9. SymbolsFound'
    <2> SUFFICES ASSUME worker.at = "attaching",
                        CurKey(worker.cand.key[1])' = worker.cand.key
                 PROVE  CurKey(worker.cand.key[1]) = worker.cand.key
      BY <1>0, <1>1, Zenon DEF SymbolsFound
    <2> DEFINE k == worker.cand.key
    <2>1. k \in Keys /\ Seen(k)
      BY <1>0, InHandIs, InHandTyped, Zenon DEF KeysSeen
    <2>2. version'[k[1]] = k[2]
      BY <1>1, <2>1 DEF CurKey
    <2>3. k[1] # f
      BY <1>4, <1>6, <2>1, <2>2, Zenon DEF Seen
    <2> QED
      BY <1>1, <1>4, <1>6, <2>1, <2>3, Zenon DEF CurKey
  <1>10. CacheJustified'
    <2> SUFFICES ASSUME NEW g \in Files, CurKey(g)' \in cache
                 PROVE  \/ Pending(CurKey(g))'
                        \/ g \in DOMAIN attached /\ attached[g].key = CurKey(g)'
                        \/ CurKey(g)' \notin Targets
                        \/ CurKey(g)' \in reported
      BY <1>1, Zenon DEF CacheJustified
    <2>1. CASE g = f
      <3>1. CurKey(f)'[1] = f /\ CurKey(f)'[2] = version'[f]
        BY DEF CurKey
      <3>2. Seen(CurKey(f)') /\ CurKey(f)'[2] \in Versions
        BY <1>0, <1>6, <2>1, Zenon DEF KeysSeen, TypeOK
      <3> QED
        BY <1>4, <3>1, <3>2, Zenon DEF Seen
    <2>2. CASE g # f
      <3>1. CurKey(g)' = CurKey(g)
        BY <1>4, <2>2, Zenon DEF CurKey
      <3>2. Pending(CurKey(g)) => Pending(CurKey(g))'
        BY <1>1, <3>1, Zenon DEF Pending, InHand
      <3> QED
        BY <1>0, <3>1, <3>2, Zenon DEF CacheJustified
    <2> QED
      BY <2>1, <2>2, Zenon
  <1>11. RoomInHand' /\ ProbesOwned' /\ ScanCovers' /\ MissedOnce'
    BY <1>0, <1>1, StillHolds, StillRoom, StillOwned, StillCovered, StillMissedOnce, Zenon
       DEF SameHand
  <1> QED
    BY <1>5, <1>8, <1>9, <1>10, <1>11, Zenon DEF IInv

LEMMA LearnInv ==
    ASSUME IInv, NEW c \in Cgroups, Learn(c)
    PROVE  IInv'
  <1>0. TypeOK /\ KeysSeen /\ RoomInHand /\ SymbolsFound /\ CacheJustified /\ ProbesOwned
        /\ ScanCovers /\ MissedOnce
    BY Zenon DEF IInv
  <1>1. UNCHANGED <<version, maps, hook, cache, ring, queue, reconcile, worker, attached,
                    probes, reported>>
        /\ known' = known \cup {c}
    BY Zenon DEF Learn
  <1>2. TypeOK'
    BY <1>0, <1>1, Zenon DEF TypeOK
  <1>3. SameHand
    BY <1>1, StillHolds, Zenon
  <1>4. KeysSeen' /\ RoomInHand' /\ SymbolsFound' /\ ProbesOwned' /\ ScanCovers'
    BY <1>0, <1>1, <1>3, StillSeen, StillRoom, StillFound, StillOwned, StillCovered, Zenon
       DEF SameHand
  <1>5. CacheJustified'
    BY <1>0, <1>1, <1>3, SameJustified, Zenon
  <1>6. MissedOnce'
    BY <1>0, <1>1, StillMissedOnce, Zenon
  <1> QED
    BY <1>2, <1>4, <1>5, <1>6, Zenon DEF IInv

\* A request is asked for some cgroups; only the mapping that begins joins what
\* it need not see.
LEMMA LateIs ==
    ASSUME TypeOK, NEW m \in Mappings, Late(m)
    PROVE  /\ reconcile' \in Seq(Request) /\ Len(reconcile') = Len(reconcile)
           /\ \A i \in 1 .. Len(reconcile) :
                 /\ reconcile'[i].active = reconcile[i].active
                 /\ reconcile'[i].late \subseteq reconcile[i].late \cup {m}
           /\ worker' \in {Idle, Stopped} \cup Working
           /\ worker.at # "scanning" => worker' = worker
           /\ worker.at = "scanning" =>
                 /\ worker'.at = "scanning" /\ worker'.pids = worker.pids
                 /\ worker'.observed = worker.observed /\ worker'.complete = worker.complete
                 /\ worker'.request.active = worker.request.active
                 /\ worker'.request.late \subseteq worker.request.late \cup {m}
                 /\ worker.request.late \subseteq worker'.request.late
                 /\ CgroupOf[m[1]] \in worker.request.active => m \in worker'.request.late
  <1> DEFINE Note(r) == IF CgroupOf[m[1]] \in r.active THEN [r EXCEPT !.late = @ \cup {m}] ELSE r
  <1>1. ASSUME NEW r \in Request
        PROVE  /\ Note(r) \in Request /\ Note(r).active = r.active
               /\ Note(r).late \subseteq r.late \cup {m} /\ r.late \subseteq Note(r).late
               /\ CgroupOf[m[1]] \in r.active => m \in Note(r).late
    <2>1. CASE CgroupOf[m[1]] \in r.active
      <3> DEFINE n == [r EXCEPT !.late = @ \cup {m}]
      <3>1. r.late \cup {m} \in SUBSET Mappings
        BY DEF Request
      <3>2. n \in Request /\ n.active = r.active /\ n.late = r.late \cup {m}
        BY <3>1 DEF Request
      <3> HIDE DEF n
      <3>3. Note(r) = n
        BY <2>1, Zenon DEF n
      <3> HIDE DEF Note
      <3> QED
        BY <3>2, <3>3, Zenon
    <2>2. CASE CgroupOf[m[1]] \notin r.active
      <3>1. Note(r) = r
        BY <2>2, Zenon
      <3> HIDE DEF Note
      <3> QED
        BY <2>2, <3>1, Zenon
    <2> QED
      BY <2>1, <2>2, Zenon
  <1>2. /\ reconcile' = [i \in DOMAIN reconcile |-> Note(reconcile[i])]
        /\ worker' = IF worker.at = "scanning"
                     THEN [worker EXCEPT !.request = Note(@)] ELSE worker
    BY Zenon DEF Late
  <1>3. worker \in {Idle, Stopped} \cup Working
    BY Zenon DEF TypeOK
  <1> HIDE DEF Note
  <1>4. DOMAIN reconcile = 1 .. Len(reconcile) /\ Len(reconcile) \in Nat
    BY QueueFields
  <1>5. reconcile' \in [1 .. Len(reconcile) -> Request]
    BY <1>1, <1>2, <1>4, QueueFields, Zenon
  <1>6. reconcile' \in Seq(Request) /\ Len(reconcile') = Len(reconcile)
    BY <1>4, <1>5, Sequence, Zenon
  <1>7. \A i \in 1 .. Len(reconcile) : reconcile'[i] = Note(reconcile[i])
    BY <1>2, <1>4, Zenon
  <1>8. \A i \in 1 .. Len(reconcile) :
           /\ reconcile'[i].active = reconcile[i].active
           /\ reconcile'[i].late \subseteq reconcile[i].late \cup {m}
    BY <1>1, <1>7, QueueFields, Zenon
  <1>9. CASE worker.at # "scanning"
    BY <1>2, <1>3, <1>6, <1>8, <1>9, Zenon
  <1>10. CASE worker.at = "scanning"
    <2>1. worker.request \in Request
      BY <1>3, <1>10, WorkerFields, Zenon
    <2>2. /\ worker' \in [at : {"scanning"}, request : Request, pids : SUBSET Procs,
                          observed : SUBSET Files, complete : BOOLEAN]
          /\ worker'.request = Note(worker.request) /\ worker'.at = "scanning"
          /\ worker'.pids = worker.pids
          /\ worker'.observed = worker.observed /\ worker'.complete = worker.complete
      BY <1>1, <1>2, <1>3, <1>10, <2>1, WorkerTypes
    <2>3. worker' \in Working
      BY <2>2, Zenon DEF Working
    <2>4. /\ worker'.request.active = worker.request.active
          /\ worker'.request.late \subseteq worker.request.late \cup {m}
          /\ worker.request.late \subseteq worker'.request.late
          /\ CgroupOf[m[1]] \in worker.request.active => m \in worker'.request.late
      BY <1>1, <2>1, <2>2, Zenon
    <2> QED
      BY <1>6, <1>8, <1>10, <2>2, <2>3, <2>4, Zenon
  <1> QED
    BY <1>9, <1>10, Zenon

\* A mapping begins: no scan promised to see it, and no target was attached for it.
LEMMA MappingBegins ==
    ASSUME TypeOK, ScanCovers, MissedOnce, NEW m \in Mappings, m \notin maps, Late(m),
           maps' = maps \cup {m}, UNCHANGED <<known, attached>>
    PROVE  SameHand /\ ScanCovers' /\ MissedOnce'
           /\ worker' \in {Idle, Stopped} \cup Working
           /\ reconcile' \in Seq(Request) /\ Len(reconcile') = Len(reconcile)
           /\ (worker'.at = "attaching" => worker' = worker)
  <1>0. worker \in {Idle, Stopped} \cup Working
    BY Zenon DEF TypeOK
  <1>1. /\ reconcile' \in Seq(Request) /\ Len(reconcile') = Len(reconcile)
        /\ worker' \in {Idle, Stopped} \cup Working
        /\ worker.at # "scanning" => worker' = worker
        /\ worker.at = "scanning" => worker'.at = "scanning"
    BY LateIs, Zenon
  <1>2. SameHand /\ (worker'.at = "attaching" => worker' = worker)
    <2>1. CASE worker' = worker
      BY <2>1, StillHolds, Zenon
    <2>2. CASE worker.at = "scanning" /\ worker'.at = "scanning"
      <3>1. InHand = {} /\ InHand' = {}
        BY <2>2, InHandIs, InHandNext, Zenon
      <3>2. worker # Stopped /\ worker' # Stopped
        BY <2>2 DEF Stopped
      <3> QED
        BY <2>2, <3>1, <3>2, Zenon DEF SameHand
    <2> QED
      BY <1>1, <2>1, <2>2, Zenon
  <1>3. ScanCovers'
    <2> SUFFICES ASSUME worker'.at = "scanning", worker'.complete, NEW x \in maps',
                        CgroupOf[x[1]] \in worker'.request.active
                 PROVE  x[1] \in worker'.pids \/ x[2] \in worker'.observed
                        \/ x \in worker'.request.late
      BY Zenon DEF ScanCovers
    <2>1. worker.at = "scanning"
      BY <1>1, Zenon
    <2>2. CASE x = m
      BY <2>1, <2>2, LateIs, Zenon
    <2>3. CASE x \in maps
      <3>1. x[1] \in worker.pids \/ x[2] \in worker.observed \/ x \in worker.request.late
        BY <2>1, <2>3, LateIs, Zenon DEF ScanCovers
      <3> QED
        BY <2>1, <3>1, LateIs, Zenon
    <2> QED
      BY <2>2, <2>3, Zenon
  <1>4. MissedOnce'
    <2>1. \A f \in DOMAIN attached : m \notin attached[f].origin
      BY Zenon DEF MissedOnce, OriginMapped
    <2>2. \A f \in DOMAIN attached : OriginMapped(f) => OriginMapped(f)'
      BY Zenon DEF OriginMapped
    <2>3. ASSUME NEW f \in DOMAIN attached, AskedSees(f)
          PROVE  AskedSees(f)'
      <3> SUFFICES ASSUME NEW i \in 1 .. Len(reconcile), NEW x \in attached[f].origin
                   PROVE  CgroupOf[x[1]] \in reconcile'[i].active /\ x \notin reconcile'[i].late
        BY <1>1, Zenon DEF AskedSees, Sees
      <3>1. CgroupOf[x[1]] \in reconcile[i].active /\ x \notin reconcile[i].late
        BY <2>3, Zenon DEF AskedSees, Sees
      <3>2. /\ reconcile'[i].active = reconcile[i].active
            /\ reconcile'[i].late \subseteq reconcile[i].late \cup {m}
        BY LateIs, Zenon
      <3> QED
        BY <2>1, <3>1, <3>2, Zenon
    <2>4. ASSUME NEW f \in DOMAIN attached, ScanSees(f)
          PROVE  ScanSees(f)'
      <3> SUFFICES ASSUME worker'.at = "scanning", NEW x \in attached[f].origin
                   PROVE  CgroupOf[x[1]] \in worker'.request.active /\ x \notin worker'.request.late
        BY Zenon DEF ScanSees, Sees
      <3>1. worker.at = "scanning"
        BY <1>1, Zenon
      <3>2. CgroupOf[x[1]] \in worker.request.active /\ x \notin worker.request.late
        BY <2>4, <3>1, Zenon DEF ScanSees, Sees
      <3>3. /\ worker'.request.active = worker.request.active
            /\ worker'.request.late \subseteq worker.request.late \cup {m}
        BY <3>1, LateIs, Zenon
      <3> QED
        BY <2>1, <3>2, <3>3, Zenon
    <2>5. worker'.at = "scanning" => worker.at = "scanning"
      BY <1>1, Zenon
    <2> QED
      BY <2>2, <2>3, <2>4, <2>5, Zenon DEF MissedOnce
  <1> QED
    BY <1>1, <1>2, <1>3, <1>4, Zenon

LEMMA ForkInv ==
    ASSUME IInv, NEW p \in Procs, NEW q \in Procs, NEW f \in Files, Fork(p, q, f)
    PROVE  IInv'
  <1>0. TypeOK /\ KeysSeen /\ RoomInHand /\ SymbolsFound /\ CacheJustified /\ ProbesOwned
        /\ ScanCovers /\ MissedOnce
    BY Zenon DEF IInv
  <1>1. /\ UNCHANGED <<version, known, hook, cache, ring, queue, attached, probes, reported>>
        /\ <<q, f>> \notin maps /\ maps' = maps \cup {<<q, f>>} /\ Late(<<q, f>>)
    BY Zenon DEF Fork
  <1>2. <<q, f>> \in Mappings
    BY Zenon DEF Mappings
  <1>3. /\ SameHand /\ ScanCovers' /\ MissedOnce'
        /\ worker' \in {Idle, Stopped} \cup Working
        /\ reconcile' \in Seq(Request) /\ Len(reconcile') = Len(reconcile)
        /\ worker'.at = "attaching" => worker' = worker
    BY <1>0, <1>1, <1>2, MappingBegins, Zenon
  <1>4. TypeOK'
    BY <1>0, <1>1, <1>2, <1>3, Zenon DEF TypeOK
  <1>5. KeysSeen' /\ RoomInHand' /\ SymbolsFound' /\ ProbesOwned'
    BY <1>0, <1>1, <1>3, StillSeen, StillRoom, StillFound, StillOwned, Zenon DEF SameHand
  <1>6. CacheJustified'
    BY <1>0, <1>1, <1>3, SameJustified, Zenon
  <1> QED
    BY <1>3, <1>4, <1>5, <1>6, Zenon DEF IInv

\* The mapping is there before the hook reads the cache.
LEMMA MmapInv ==
    ASSUME IInv, NEW p \in Procs, NEW f \in Files, Mmap(p, f)
    PROVE  IInv'
  <1>0. TypeOK /\ KeysSeen /\ RoomInHand /\ SymbolsFound /\ CacheJustified /\ ProbesOwned
        /\ ScanCovers /\ MissedOnce
    BY Zenon DEF IInv
  <1>1. /\ UNCHANGED <<version, known, cache, ring, queue, attached, probes, reported>>
        /\ maps' = maps \cup {<<p, f>>}
        /\ IF <<p, f>> \in maps THEN UNCHANGED <<reconcile, worker>> ELSE Late(<<p, f>>)
    BY Zenon DEF Mmap
  <1>2. <<p, f>> \in Mappings
    BY Zenon DEF Mappings
  <1>3. /\ SameHand /\ ScanCovers' /\ MissedOnce'
        /\ worker' \in {Idle, Stopped} \cup Working
        /\ reconcile' \in Seq(Request) /\ Len(reconcile') = Len(reconcile)
        /\ worker'.at = "attaching" => worker' = worker
    <2>1. CASE <<p, f>> \in maps
      <3>1. maps' = maps /\ worker' = worker /\ reconcile' = reconcile
        BY <1>1, <2>1, Zenon
      <3> QED
        BY <1>0, <1>1, <3>1, StillHolds, StillCovered, StillMissedOnce, Zenon DEF TypeOK
    <2>2. CASE <<p, f>> \notin maps
      BY <1>0, <1>1, <1>2, <2>2, MappingBegins, Zenon
    <2> QED
      BY <2>1, <2>2, Zenon
  <1>4. /\ hook' \in [Procs -> [at : {"idle"}] \cup [at : {"claim"}, key : Keys]]
        /\ \A q \in Procs : hook'[q] = hook[q] \/ hook'[q] = Idle
                            \/ hook'[q] = [at |-> "claim", key |-> CurKey(f)]
    <2>1. CurKey(f) \in Keys
      BY <1>0, CurrentKey, Zenon
    <2> DEFINE n == IF CurKey(f) \in cache THEN Idle ELSE [at |-> "claim", key |-> CurKey(f)]
    <2>2. hook' = [hook EXCEPT ![p] = n]
      BY Zenon DEF Mmap
    <2>3. n \in [at : {"idle"}] \cup [at : {"claim"}, key : Keys]
      BY <2>1 DEF Idle
    <2>4. n = Idle \/ n = [at |-> "claim", key |-> CurKey(f)]
      BY Zenon
    <2> HIDE DEF n
    <2>5. hook \in [Procs -> [at : {"idle"}] \cup [at : {"claim"}, key : Keys]]
      BY <1>0, Zenon DEF TypeOK
    <2> QED
      BY <2>2, <2>3, <2>4, <2>5, Zenon
  <1>5. TypeOK'
    BY <1>0, <1>1, <1>2, <1>3, <1>4, Zenon DEF TypeOK
  <1>6. KeysSeen'
    <2>1. ASSUME NEW q \in Procs, hook'[q].at = "claim"
          PROVE  Seen(hook'[q].key)
      <3>1. CASE hook'[q] = hook[q]
        BY <1>0, <2>1, <3>1, Zenon DEF KeysSeen
      <3>2. CASE hook'[q] = [at |-> "claim", key |-> CurKey(f)]
        <4>1. hook'[q].key = CurKey(f)
          BY <3>2
        <4> QED
          BY <1>0, <4>1, CurrentKey, Zenon
      <3>3. hook'[q] # Idle
        BY <2>1 DEF Idle
      <3> QED
        BY <1>4, <3>1, <3>2, <3>3, Zenon
    <2>2. version' = version /\ cache' = cache /\ ring' = ring /\ queue' = queue
          /\ InHand' = InHand
      BY <1>1, <1>3, Zenon DEF SameHand
    <2> QED
      BY <1>0, <2>1, <2>2, Zenon DEF KeysSeen, Seen
  <1>7. RoomInHand' /\ SymbolsFound' /\ ProbesOwned'
    BY <1>0, <1>1, <1>3, StillRoom, StillFound, StillOwned, Zenon DEF SameHand
  <1>8. CacheJustified'
    BY <1>0, <1>1, <1>3, SameJustified, Zenon
  <1> QED
    BY <1>3, <1>5, <1>6, <1>7, <1>8, Zenon DEF IInv

\* A scan forgets the process, and so does what targets were attached for.
LEMMA ExitIs ==
    ASSUME TypeOK, NEW p \in Procs, Exit(p)
    PROVE  /\ reconcile' \in Seq(Request) /\ Len(reconcile') = Len(reconcile)
           /\ \A i \in 1 .. Len(reconcile) :
                 /\ reconcile'[i].active = reconcile[i].active
                 /\ reconcile'[i].late \subseteq reconcile[i].late
           /\ worker' \in {Idle, Stopped} \cup Working
           /\ worker.at # "scanning" => worker' = worker
           /\ worker.at = "scanning" =>
                 /\ worker'.at = "scanning" /\ worker'.pids = worker.pids
                 /\ worker'.observed = worker.observed /\ worker'.complete = worker.complete
                 /\ worker'.request.active = worker.request.active
                 /\ worker'.request.late = {m \in worker.request.late : m[1] # p}
           /\ DOMAIN attached' = DOMAIN attached
           /\ \A f \in DOMAIN attached :
                 /\ attached'[f] \in Target /\ attached'[f].key = attached[f].key
                 /\ attached'[f].links = attached[f].links
                 /\ attached'[f].missing = attached[f].missing
                 /\ attached'[f].origin = {m \in attached[f].origin : m[1] # p}
  <1> DEFINE Of(ms) == {m \in ms : m[1] = p}
             Old(r) == [r EXCEPT !.late = @ \ Of(@)]
             Less(t) == [t EXCEPT !.origin = @ \ Of(@)]
  <1>0. \A ms : ms \ Of(ms) = {m \in ms : m[1] # p}
    BY Zenon
  <1>1. ASSUME NEW r \in Request
        PROVE  /\ Old(r) \in Request /\ Old(r).active = r.active
               /\ Old(r).late = {m \in r.late : m[1] # p}
    <2>1. r.late \ Of(r.late) = {m \in r.late : m[1] # p}
      BY <1>0, Zenon
    <2>2. r.late \ Of(r.late) \in SUBSET Mappings
      BY DEF Request
    <2> HIDE DEF Of
    <2> QED
      BY <2>1, <2>2 DEF Request
  <1>2. ASSUME NEW t \in Target
        PROVE  /\ Less(t) \in Target /\ Less(t).key = t.key /\ Less(t).links = t.links
               /\ Less(t).missing = t.missing /\ Less(t).origin = {m \in t.origin : m[1] # p}
    <2>1. t.origin \ Of(t.origin) = {m \in t.origin : m[1] # p}
      BY <1>0, Zenon
    <2>2. t.origin \ Of(t.origin) \in SUBSET Mappings
      BY DEF Target
    <2> HIDE DEF Of
    <2> QED
      BY <2>1, <2>2 DEF Target
  <1>3. /\ reconcile' = [i \in DOMAIN reconcile |-> Old(reconcile[i])]
        /\ attached' = [f \in DOMAIN attached |-> Less(attached[f])]
        /\ worker.at # "scanning" => worker' = worker
        /\ worker.at = "scanning" =>
              worker' = [worker EXCEPT !.request.late = @ \ Of(@)]
    BY Zenon DEF Exit
  <1>4. worker \in {Idle, Stopped} \cup Working
    BY Zenon DEF TypeOK
  <1>5. DOMAIN reconcile = 1 .. Len(reconcile) /\ Len(reconcile) \in Nat
    BY QueueFields
  <1>6. ASSUME worker.at = "scanning"
        PROVE  /\ worker' \in Working
               /\ worker'.at = "scanning" /\ worker'.pids = worker.pids
               /\ worker'.observed = worker.observed /\ worker'.complete = worker.complete
               /\ worker'.request.active = worker.request.active
               /\ worker'.request.late = {m \in worker.request.late : m[1] # p}
    <2> HIDE DEF Of
    <2>1. worker.request \in Request
      BY <1>4, <1>6, WorkerFields, Zenon
    <2>2. worker \in [at : {"scanning"}, request : Request, pids : SUBSET Procs,
                      observed : SUBSET Files, complete : BOOLEAN]
      BY <1>4, <1>6, WorkerTypes, Zenon
    <2>3. worker' = [worker EXCEPT !.request = Old(@)]
      BY <1>3, <1>6, <2>1, <2>2 DEF Request
    <2> HIDE DEF Old
    <2>4. /\ worker' \in [at : {"scanning"}, request : Request, pids : SUBSET Procs,
                          observed : SUBSET Files, complete : BOOLEAN]
          /\ worker'.request = Old(worker.request) /\ worker'.at = "scanning"
          /\ worker'.pids = worker.pids
          /\ worker'.observed = worker.observed /\ worker'.complete = worker.complete
      BY <1>1, <2>1, <2>2, <2>3
    <2>5. worker' \in Working
      BY <2>4, Zenon DEF Working
    <2> QED
      BY <1>1, <2>1, <2>4, <2>5, Zenon
  <1> HIDE DEF Old, Less, Of
  <1>7. reconcile' \in [1 .. Len(reconcile) -> Request]
    BY <1>1, <1>3, <1>5, QueueFields, Zenon
  <1>8. reconcile' \in Seq(Request) /\ Len(reconcile') = Len(reconcile)
    BY <1>5, <1>7, Sequence, Zenon
  <1>9. \A i \in 1 .. Len(reconcile) : reconcile'[i] = Old(reconcile[i])
    BY <1>3, <1>5, Zenon
  <1>10. \A i \in 1 .. Len(reconcile) :
           /\ reconcile'[i].active = reconcile[i].active
           /\ reconcile'[i].late \subseteq reconcile[i].late
    BY <1>1, <1>9, QueueFields, Zenon
  <1>11. DOMAIN attached' = DOMAIN attached
    BY <1>3, Zenon
  <1>12. \A f \in DOMAIN attached : attached[f] \in Target /\ attached'[f] = Less(attached[f])
    BY <1>3, Zenon DEF TypeOK
  <1>13. \A f \in DOMAIN attached :
            /\ attached'[f] \in Target /\ attached'[f].key = attached[f].key
            /\ attached'[f].links = attached[f].links
            /\ attached'[f].missing = attached[f].missing
            /\ attached'[f].origin = {m \in attached[f].origin : m[1] # p}
    BY <1>2, <1>12, Zenon
  <1>14. worker' \in {Idle, Stopped} \cup Working
    BY <1>3, <1>4, <1>6, Zenon
  <1> QED
    BY <1>3, <1>6, <1>8, <1>10, <1>11, <1>13, <1>14, Zenon

LEMMA ExitInv ==
    ASSUME IInv, NEW p \in Procs, Exit(p)
    PROVE  IInv'
  <1>0. TypeOK /\ KeysSeen /\ RoomInHand /\ SymbolsFound /\ CacheJustified /\ ProbesOwned
        /\ ScanCovers /\ MissedOnce
    BY Zenon DEF IInv
  <1>1. /\ UNCHANGED <<version, known, hook, cache, ring, queue, probes, reported>>
        /\ maps' = {m \in maps : m[1] # p}
    BY Zenon DEF Exit
  <1>2. /\ reconcile' \in Seq(Request) /\ Len(reconcile') = Len(reconcile)
        /\ worker' \in {Idle, Stopped} \cup Working
        /\ worker.at # "scanning" => worker' = worker
        /\ worker.at = "scanning" => worker'.at = "scanning"
        /\ DOMAIN attached' = DOMAIN attached
        /\ \A f \in DOMAIN attached :
              /\ attached'[f] \in Target /\ attached'[f].key = attached[f].key
              /\ attached'[f].links = attached[f].links
    BY <1>0, ExitIs, Zenon
  <1>3. SameHand
    <2>1. CASE worker' = worker
      BY <2>1, StillHolds, Zenon
    <2>2. CASE worker.at = "scanning" /\ worker'.at = "scanning"
      <3>1. InHand = {} /\ InHand' = {}
        BY <2>2, InHandIs, InHandNext, Zenon
      <3>2. worker # Stopped /\ worker' # Stopped
        BY <2>2 DEF Stopped
      <3> QED
        BY <2>2, <3>1, <3>2, Zenon DEF SameHand
    <2> QED
      BY <1>2, <2>1, <2>2, Zenon
  <1>4. TypeOK'
    <2>1. maps' \subseteq Mappings
      BY <1>0, <1>1, Zenon DEF TypeOK
    <2>2. \A f \in DOMAIN attached' : attached'[f] \in Target /\ attached'[f].key[1] = f
      BY <1>0, <1>2, Zenon DEF TypeOK
    <2> QED
      BY <1>0, <1>1, <1>2, <2>1, <2>2, Zenon DEF TypeOK
  <1>5. KeysSeen' /\ RoomInHand' /\ SymbolsFound' /\ ProbesOwned'
    BY <1>0, <1>1, <1>2, <1>3, StillSeen, StillRoom, StillFound, StillOwned, Zenon
       DEF SameHand
  <1>6. CacheJustified'
    BY <1>0, <1>1, <1>2, <1>3, SameJustified, Zenon
  <1>7. ScanCovers'
    <2> SUFFICES ASSUME worker'.at = "scanning", worker'.complete, NEW x \in maps',
                        CgroupOf[x[1]] \in worker'.request.active
                 PROVE  x[1] \in worker'.pids \/ x[2] \in worker'.observed
                        \/ x \in worker'.request.late
      BY Zenon DEF ScanCovers
    <2>1. worker.at = "scanning"
      BY <1>2, Zenon
    <2>2. /\ worker'.pids = worker.pids /\ worker'.observed = worker.observed
          /\ worker'.complete = worker.complete
          /\ worker'.request.active = worker.request.active
          /\ worker'.request.late = {m \in worker.request.late : m[1] # p}
      BY <1>0, <2>1, ExitIs, Zenon
    <2>3. x \in maps /\ x[1] # p
      BY <1>1, Zenon
    <2> QED
      BY <1>0, <2>1, <2>2, <2>3, Zenon DEF ScanCovers
  <1>8. MissedOnce'
    <2>1. \A f \in DOMAIN attached :
             /\ attached'[f].missing = attached[f].missing
             /\ attached'[f].origin = {m \in attached[f].origin : m[1] # p}
      BY <1>0, ExitIs, Zenon
    <2>2. \A f \in DOMAIN attached : OriginMapped(f) => OriginMapped(f)'
      BY <1>1, <2>1, Zenon DEF OriginMapped
    <2>3. ASSUME NEW f \in DOMAIN attached, AskedSees(f)
          PROVE  AskedSees(f)'
      <3> SUFFICES ASSUME NEW i \in 1 .. Len(reconcile), NEW x \in attached'[f].origin
                   PROVE  CgroupOf[x[1]] \in reconcile'[i].active /\ x \notin reconcile'[i].late
        BY <1>2, Zenon DEF AskedSees, Sees
      <3>1. CgroupOf[x[1]] \in reconcile[i].active /\ x \notin reconcile[i].late
        BY <2>1, <2>3, Zenon DEF AskedSees, Sees
      <3>2. /\ reconcile'[i].active = reconcile[i].active
            /\ reconcile'[i].late \subseteq reconcile[i].late
        BY <1>0, ExitIs, Zenon
      <3> QED
        BY <3>1, <3>2, Zenon
    <2>4. ASSUME NEW f \in DOMAIN attached, ScanSees(f)
          PROVE  ScanSees(f)'
      <3> SUFFICES ASSUME worker'.at = "scanning", NEW x \in attached'[f].origin
                   PROVE  CgroupOf[x[1]] \in worker'.request.active /\ x \notin worker'.request.late
        BY Zenon DEF ScanSees, Sees
      <3>1. worker.at = "scanning"
        BY <1>2, Zenon
      <3>2. CgroupOf[x[1]] \in worker.request.active /\ x \notin worker.request.late
        BY <2>1, <2>4, <3>1, Zenon DEF ScanSees, Sees
      <3>3. /\ worker'.request.active = worker.request.active
            /\ worker'.request.late = {m \in worker.request.late : m[1] # p}
        BY <1>0, <3>1, ExitIs, Zenon
      <3> QED
        BY <3>2, <3>3, Zenon
    <2>5. worker'.at = "scanning" => worker.at = "scanning"
      BY <1>2, Zenon
    <2>6. \A f \in DOMAIN attached : attached'[f].origin # {} => attached[f].origin # {}
      BY <2>1, Zenon
    <2> QED
      BY <1>0, <1>2, <2>1, <2>2, <2>3, <2>4, <2>5, <2>6, Zenon DEF MissedOnce
  <1> QED
    BY <1>4, <1>5, <1>6, <1>7, <1>8, Zenon DEF IInv

-----------------------------------------------------------------------------
(* The hook and the cache.                                                 *)

\* A step of the hook, the reader or the cache leaves the worker alone.
LEMMA WorkerApart ==
    ASSUME IInv, UNCHANGED <<world, reconcile, worker, attached, probes>>
    PROVE  /\ SameHand /\ InHand' = InHand
           /\ RoomInHand' /\ SymbolsFound' /\ ProbesOwned' /\ ScanCovers' /\ MissedOnce'
  <1>0. RoomInHand /\ SymbolsFound /\ ProbesOwned /\ ScanCovers /\ MissedOnce
    BY Zenon DEF IInv
  <1>1. UNCHANGED <<version, maps, known, reconcile, worker, attached, probes>>
    BY Zenon DEF world
  <1>2. SameHand /\ InHand' = InHand
    BY <1>1, StillHolds, Zenon DEF SameHand
  <1> QED
    BY <1>0, <1>1, <1>2, StillRoom, StillFound, StillOwned, StillCovered, StillMissedOnce, Zenon

\* A key of which the cache lets go, or whose deletion failed and was reported,
\* needs no other justification.
LEMMA StaysJustified ==
    ASSUME CacheJustified, version' = version, NEW ks,
           cache' \subseteq cache,
           \A k \in cache' : (k \in ks \/ k \in reported) => k \in reported',
           \A k \in Keys : k \notin ks /\ Pending(k) => Pending(k)',
           \A f \in DOMAIN attached : attached[f].key \notin ks =>
               f \in DOMAIN attached' /\ attached'[f].key = attached[f].key,
           cache \subseteq Keys
    PROVE  CacheJustified'
  <1> SUFFICES ASSUME NEW f \in Files, CurKey(f)' \in cache'
               PROVE  \/ Pending(CurKey(f))'
                      \/ f \in DOMAIN attached' /\ attached'[f].key = CurKey(f)'
                      \/ CurKey(f)' \notin Targets
                      \/ CurKey(f)' \in reported'
    BY Zenon DEF CacheJustified
  <1>1. CurKey(f)' = CurKey(f)
    BY Zenon DEF CurKey
  <1>2. CurKey(f) \in cache /\ CurKey(f) \in cache' /\ CurKey(f) \in Keys
    BY <1>1, Zenon
  <1>3. \/ Pending(CurKey(f))
        \/ f \in DOMAIN attached /\ attached[f].key = CurKey(f)
        \/ CurKey(f) \notin Targets
        \/ CurKey(f) \in reported
    BY <1>2, Zenon DEF CacheJustified
  <1>4. CASE CurKey(f) \in ks \/ CurKey(f) \in reported
    BY <1>1, <1>2, <1>4, Zenon
  <1>5. CASE CurKey(f) \notin ks /\ Pending(CurKey(f))
    <2> DEFINE k == CurKey(f)
    <2>1. \A x \in Keys : x = k => Pending(x)'
      BY <1>5, Zenon
    <2>2. Pending(CurKey(f))'
      BY <1>1, <1>2, <2>1, Zenon DEF Pending
    <2> QED
      BY <2>2, Zenon
  <1>6. CASE CurKey(f) \notin ks /\ f \in DOMAIN attached /\ attached[f].key = CurKey(f)
    BY <1>1, <1>6, Zenon
  <1> QED
    BY <1>1, <1>3, <1>4, <1>5, <1>6, Zenon

\* deleteDiscoveryCacheEntry: a key stays only where its deletion was reported
\* to have failed.
LEMMA Deleted ==
    ASSUME TypeOK, NEW ks \in SUBSET Keys, NEW bad \in SUBSET ks, DeleteEntries(ks, bad)
    PROVE  /\ cache' \subseteq cache /\ cache' \subseteq Keys /\ reported' \subseteq Keys
           /\ \A k \in cache' : (k \in ks \/ k \in reported) => k \in reported'
  <1>1. cache \subseteq Keys /\ reported \subseteq Keys
    BY Zenon DEF TypeOK
  <1> QED
    BY <1>1, Zenon DEF DeleteEntries

LEMMA HookEnds ==
    ASSUME TypeOK, KeysSeen, NEW p \in Procs, hook' = [hook EXCEPT ![p] = Idle],
           version' = version
    PROVE  /\ hook' \in [Procs -> [at : {"idle"}] \cup [at : {"claim"}, key : Keys]]
           /\ \A q \in Procs : hook'[q].at = "claim" => Seen(hook'[q].key)
  <1>1. hook \in [Procs -> [at : {"idle"}] \cup [at : {"claim"}, key : Keys]]
    BY Zenon DEF TypeOK
  <1>2. Idle \in [at : {"idle"}] /\ Idle.at # "claim"
    BY DEF Idle
  <1>3. hook' \in [Procs -> [at : {"idle"}] \cup [at : {"claim"}, key : Keys]]
        /\ \A q \in Procs : hook'[q] = hook[q] \/ hook'[q] = Idle
    BY <1>1, <1>2, Zenon
  <1> QED
    BY <1>2, <1>3, Zenon DEF KeysSeen, Seen

LEMMA LoseClaimInv ==
    ASSUME IInv, NEW p \in Procs, LoseClaim(p)
    PROVE  IInv'
  <1>0. TypeOK /\ KeysSeen /\ CacheJustified
    BY Zenon DEF IInv
  <1>1. /\ hook' = [hook EXCEPT ![p] = Idle]
        /\ UNCHANGED <<world, cache, ring, queue, reconcile, worker, attached, probes, reported>>
    BY Zenon DEF LoseClaim
  <1>2. version' = version /\ maps' = maps /\ known' = known
    BY <1>1, Zenon DEF world
  <1>3. /\ hook' \in [Procs -> [at : {"idle"}] \cup [at : {"claim"}, key : Keys]]
        /\ \A q \in Procs : hook'[q].at = "claim" => Seen(hook'[q].key)
    BY <1>0, <1>1, <1>2, HookEnds, Zenon
  <1>4. /\ SameHand /\ InHand' = InHand
        /\ RoomInHand' /\ SymbolsFound' /\ ProbesOwned' /\ ScanCovers' /\ MissedOnce'
    BY <1>1, WorkerApart, Zenon
  <1>5. TypeOK'
    BY <1>0, <1>1, <1>2, <1>3, Zenon DEF TypeOK
  <1>6. KeysSeen'
    BY <1>0, <1>1, <1>2, <1>3, <1>4, Zenon DEF KeysSeen, Seen
  <1>7. CacheJustified'
    BY <1>0, <1>1, <1>2, <1>4, SameJustified, Zenon
  <1> QED
    BY <1>4, <1>5, <1>6, <1>7, Zenon DEF IInv

\* A key that the hook caches is in the ring at once.
LEMMA NotifyInv ==
    ASSUME IInv, NEW p \in Procs, Notify(p)
    PROVE  IInv'
  <1>0. TypeOK /\ KeysSeen /\ CacheJustified
    BY Zenon DEF IInv
  <1> DEFINE k == hook[p].key
             c == [proc |-> p, key |-> k]
  <1>1. /\ hook' = [hook EXCEPT ![p] = Idle] /\ hook[p].at = "claim"
        /\ UNCHANGED <<world, queue, reconcile, worker, attached, probes, reported>>
        /\ \/ Len(ring) < RingSize /\ ring' = Append(ring, c) /\ cache' = cache \cup {k}
           \/ UNCHANGED <<ring, cache>>
    BY Zenon DEF Notify
  <1>2. version' = version /\ maps' = maps /\ known' = known
    BY <1>1, Zenon DEF world
  <1>3. /\ hook' \in [Procs -> [at : {"idle"}] \cup [at : {"claim"}, key : Keys]]
        /\ \A q \in Procs : hook'[q].at = "claim" => Seen(hook'[q].key)
    BY <1>0, <1>1, <1>2, HookEnds, Zenon
  <1>4. /\ SameHand /\ InHand' = InHand
        /\ RoomInHand' /\ SymbolsFound' /\ ProbesOwned' /\ ScanCovers' /\ MissedOnce'
    BY <1>1, WorkerApart, Zenon
  <1>5. k \in Keys /\ Seen(k)
    BY <1>0, <1>1, HookFields, Zenon DEF KeysSeen
  <1>6. c \in Candidate /\ c.key = k
    BY <1>5 DEF Candidate
  <1> HIDE DEF c, k
  <1>7. CASE UNCHANGED <<ring, cache>>
    <2>1. ring' = ring /\ cache' = cache
      BY <1>7, Zenon
    <2>2. TypeOK'
      BY <1>0, <1>1, <1>2, <1>3, <2>1, Zenon DEF TypeOK
    <2>3. KeysSeen'
      BY <1>0, <1>1, <1>2, <1>3, <1>4, <2>1, Zenon DEF KeysSeen, Seen
    <2>4. CacheJustified'
      BY <1>0, <1>1, <1>2, <1>4, <2>1, SameJustified, Zenon
    <2> QED
      BY <1>4, <2>2, <2>3, <2>4, Zenon DEF IInv
  <1>8. CASE Len(ring) < RingSize /\ ring' = Append(ring, c) /\ cache' = cache \cup {k}
    <2>1. ring \in Seq(Candidate)
      BY <1>0, QueueFields, Zenon
    <2>2. ring' \in Seq(Candidate) /\ Len(ring) \in Nat /\ Len(ring') = Len(ring) + 1
      BY <1>6, <1>8, <2>1, Appended, Zenon
    <2>3. Len(ring') <= RingSize
      BY <1>8, <2>2, Sizes
    <2>4. TypeOK'
      BY <1>0, <1>1, <1>2, <1>3, <1>5, <1>8, <2>2, <2>3, Zenon DEF TypeOK
    <2>5. KeysSeen'
      <3>1. \A i \in 1 .. Len(ring') :
               (i \in 1 .. Len(ring) /\ ring'[i] = ring[i]) \/ ring'[i] = c
        <4>1. /\ \A i \in 1 .. Len(ring) + 1 : i \in 1 .. Len(ring) \/ i = Len(ring) + 1
              /\ \A i \in 1 .. Len(ring) : ring'[i] = ring[i]
              /\ ring'[Len(ring) + 1] = c
          BY <1>6, <1>8, <2>1, Appended, Zenon
        <4> QED
          BY <2>2, <4>1, Zenon
      <3>2. \A i \in 1 .. Len(ring') : Seen(ring'[i].key)
        BY <1>0, <1>2, <1>5, <1>6, <3>1, Zenon DEF KeysSeen, Seen
      <3>3. \A x \in cache' : Seen(x)
        BY <1>0, <1>2, <1>5, <1>8, Zenon DEF KeysSeen, Seen
      <3> QED
        BY <1>0, <1>1, <1>2, <1>3, <1>4, <3>2, <3>3, Zenon DEF KeysSeen, Seen
    <2>6. CacheJustified'
      <3>1. \A x : Holds(ring', x) <=> Holds(ring, x) \/ k = x
        BY <1>6, <1>8, <2>1, HoldsAppended, Zenon
      <3>2. \A x : Pending(x) \/ k = x => Pending(x)'
        BY <1>0, <1>1, <1>4, <2>4, <3>1, PendingIs, PendingNext, Zenon
      <3>3. \A f \in Files : CurKey(f)' = CurKey(f)
        BY <1>2, Zenon DEF CurKey
      <3>4. \A f \in Files : Pending(CurKey(f)) \/ k = CurKey(f) => Pending(CurKey(f))'
        BY <3>2, <3>3, Zenon DEF Pending
      <3> QED
        BY <1>0, <1>1, <1>8, <3>3, <3>4, Zenon DEF CacheJustified
    <2> QED
      BY <1>4, <2>4, <2>5, <2>6, Zenon DEF IInv
  <1> QED
    BY <1>1, <1>7, <1>8, Zenon

LEMMA EvictInv ==
    ASSUME IInv, NEW k \in Keys, Evict(k)
    PROVE  IInv'
  <1>0. TypeOK /\ KeysSeen /\ CacheJustified
    BY Zenon DEF IInv
  <1>1. /\ UNCHANGED <<world, hook, ring, queue, reconcile, worker, attached, probes>>
        /\ cache' = cache \ {k} /\ reported' = reported \ {k}
    BY Zenon DEF Evict
  <1>2. version' = version /\ maps' = maps /\ known' = known
    BY <1>1, Zenon DEF world
  <1>3. /\ SameHand /\ InHand' = InHand
        /\ RoomInHand' /\ SymbolsFound' /\ ProbesOwned' /\ ScanCovers' /\ MissedOnce'
    BY <1>1, WorkerApart, Zenon
  <1>4. TypeOK'
    BY <1>0, <1>1, <1>2, Zenon DEF TypeOK
  <1>5. KeysSeen'
    BY <1>0, <1>1, <1>2, <1>3, Zenon DEF KeysSeen, Seen
  <1>6. CacheJustified'
    <2>1. \A x : Pending(x) => Pending(x)'
      BY <1>1, <1>3, Zenon DEF Pending
    <2>2. cache \subseteq Keys
      BY <1>0, Zenon DEF TypeOK
    <2>3. \A x \in cache' : (x \in {} \/ x \in reported) => x \in reported'
      BY <1>1, Zenon
    <2>4. cache' \subseteq cache /\ attached' = attached
      BY <1>1, Zenon
    <2> QED
      BY <1>0, <1>2, <2>1, <2>2, <2>3, <2>4, StaysJustified, Zenon
  <1> QED
    BY <1>3, <1>4, <1>5, <1>6, Zenon DEF IInv

-----------------------------------------------------------------------------
(* The sample reader and the engine's ticker.                              *)

LEMMA SeenTaken ==
    ASSUME NEW q \in Seq(Candidate), q # <<>>, \A i \in 1 .. Len(q) : Seen(q[i].key)
    PROVE  /\ \A i \in 1 .. Len(Tail(q)) : Seen(Tail(q)[i].key)
           /\ Seen(Head(q).key)
  <1>1. \A i \in 1 .. Len(Tail(q)) : Tail(q)[i] = q[i + 1] /\ i + 1 \in 1 .. Len(q)
    BY Taken, Zenon
  <1>2. Head(q) = q[1] /\ 1 \in 1 .. Len(q)
    BY Taken, Zenon
  <1> QED
    BY <1>1, <1>2, Zenon

LEMMA SeenAppended ==
    ASSUME NEW q \in Seq(Candidate), NEW c \in Candidate,
           \A i \in 1 .. Len(q) : Seen(q[i].key), Seen(c.key)
    PROVE  \A i \in 1 .. Len(Append(q, c)) : Seen(Append(q, c)[i].key)
  <1>1. /\ Len(Append(q, c)) = Len(q) + 1 /\ Append(q, c)[Len(q) + 1] = c
        /\ \A i \in 1 .. Len(q) + 1 : i \in 1 .. Len(q) \/ i = Len(q) + 1
        /\ \A i \in 1 .. Len(q) : Append(q, c)[i] = q[i]
    BY Appended, Zenon
  <1> QED
    BY <1>1, Zenon

\* A candidate moves from the ring to the queue, or its key is released.
LEMMA ReadCandidateInv ==
    ASSUME IInv, ReadCandidate
    PROVE  IInv'
  <1>0. TypeOK /\ KeysSeen /\ CacheJustified
    BY Zenon DEF IInv
  <1> DEFINE c == Head(ring)
             k == c.key
  <1>1. /\ ring # <<>> /\ ring' = Tail(ring)
        /\ UNCHANGED <<world, hook, reconcile, worker, attached, probes>>
        /\ \/ Len(queue) < QueueSize /\ queue' = Append(queue, c) /\ UNCHANGED <<cache, reported>>
           \/ queue' = queue /\ \E bad \in SUBSET {k} : DeleteEntries({k}, bad)
    BY Zenon DEF ReadCandidate
  <1>2. version' = version /\ maps' = maps /\ known' = known
    BY <1>1, Zenon DEF world
  <1>3. /\ SameHand /\ InHand' = InHand
        /\ RoomInHand' /\ SymbolsFound' /\ ProbesOwned' /\ ScanCovers' /\ MissedOnce'
    BY <1>1, WorkerApart, Zenon
  <1>4. ring \in Seq(Candidate) /\ queue \in Seq(Candidate)
    BY <1>0, QueueFields, Zenon
  <1>5. c \in Candidate /\ k \in Keys
    BY <1>1, <1>4, Taken, CandidateFields, Zenon
  <1>6. ring' \in Seq(Candidate) /\ Len(ring') <= RingSize
    <2>1. Len(ring) <= RingSize
      BY <1>0, Zenon DEF TypeOK
    <2> QED
      BY <1>1, <1>4, <2>1, Sizes
  <1>7. /\ \A i \in 1 .. Len(ring') : Seen(ring'[i].key)
        /\ Seen(k)
    BY <1>0, <1>1, <1>4, SeenTaken, Zenon DEF KeysSeen
  <1>8. \A x : Holds(ring, x) => Holds(ring', x) \/ k = x
    BY <1>1, <1>4, HoldsTaken, Zenon
  <1>9. CASE /\ Len(queue) < QueueSize /\ queue' = Append(queue, c)
             /\ UNCHANGED <<cache, reported>>
    <2>0. cache' = cache /\ reported' = reported
      BY <1>9, Zenon
    <2>1. queue' \in Seq(Candidate) /\ Len(queue') <= QueueSize
      BY <1>4, <1>5, <1>9, Sizes
    <2>2. TypeOK'
      BY <1>0, <1>1, <1>2, <1>6, <2>0, <2>1, Zenon DEF TypeOK
    <2>3. \A i \in 1 .. Len(queue') : Seen(queue'[i].key)
      BY <1>0, <1>4, <1>5, <1>7, <1>9, SeenAppended, Zenon DEF KeysSeen
    <2>4. KeysSeen'
      <3>1. hook' = hook
        BY <1>1, Zenon
      <3> HIDE DEF c, k
      <3> QED
        BY <1>0, <1>2, <1>3, <1>7, <2>0, <2>3, <3>1, Zenon DEF KeysSeen, Seen
    <2>5. \A x : Holds(queue', x) <=> Holds(queue, x) \/ k = x
      BY <1>4, <1>5, <1>9, HoldsAppended, Zenon
    <2> HIDE DEF c, k
    <2>6. \A x : Pending(x) => Pending(x)'
      BY <1>0, <1>3, <1>8, <2>2, <2>5, PendingIs, PendingNext, Zenon
    <2>7. CacheJustified'
      <3>1. cache \subseteq Keys
        BY <1>0, Zenon DEF TypeOK
      <3>2. attached' = attached
        BY <1>1, Zenon
      <3>3. \A x \in cache' : (x \in {} \/ x \in reported) => x \in reported'
        BY <2>0, Zenon
      <3> QED
        BY <1>0, <1>2, <2>0, <2>6, <3>1, <3>2, <3>3, StaysJustified, Zenon
    <2> QED
      BY <1>3, <2>2, <2>4, <2>7, Zenon DEF IInv
  <1>10. CASE queue' = queue /\ \E bad \in SUBSET {k} : DeleteEntries({k}, bad)
    <2>1. /\ cache' \subseteq cache /\ cache' \subseteq Keys /\ reported' \subseteq Keys
          /\ \A x \in cache' : (x \in {k} \/ x \in reported) => x \in reported'
      <3>1. {k} \in SUBSET Keys
        BY <1>5, Zenon
      <3> HIDE DEF k
      <3> QED
        BY <1>0, <1>10, <3>1, Deleted, Zenon
    <2>2. TypeOK'
      BY <1>0, <1>1, <1>2, <1>6, <1>10, <2>1, Zenon DEF TypeOK
    <2>3. KeysSeen'
      <3>1. hook' = hook
        BY <1>1, Zenon
      <3> HIDE DEF c, k
      <3> QED
        BY <1>0, <1>2, <1>3, <1>7, <1>10, <2>1, <3>1, Zenon DEF KeysSeen, Seen
    <2> HIDE DEF c, k
    <2>4. \A x : x \notin {k} /\ Pending(x) => Pending(x)'
      BY <1>0, <1>3, <1>8, <1>10, <2>2, PendingIs, PendingNext, Zenon
    <2>5. CacheJustified'
      <3>1. cache \subseteq Keys
        BY <1>0, Zenon DEF TypeOK
      <3>2. attached' = attached
        BY <1>1, Zenon
      <3> QED
        BY <1>0, <1>2, <2>1, <2>4, <3>1, <3>2, StaysJustified, Zenon
    <2> QED
      BY <1>3, <2>2, <2>3, <2>5, Zenon DEF IInv
  <1> QED
    BY <1>1, <1>9, <1>10, Zenon

\* What is asked for now sees everything that targets were attached for.
LEMMA RequestReconciliationInv ==
    ASSUME IInv, RequestReconciliation
    PROVE  IInv'
  <1>0. TypeOK /\ KeysSeen /\ RoomInHand /\ SymbolsFound /\ CacheJustified /\ ProbesOwned
        /\ ScanCovers /\ MissedOnce
    BY Zenon DEF IInv
  <1>1. /\ reconcile' = <<[active |-> known, late |-> {}]>>
        /\ UNCHANGED <<world, hook, cache, ring, queue, worker, attached, probes, reported>>
    BY Zenon DEF RequestReconciliation
  <1>2. version' = version /\ maps' = maps /\ known' = known
    BY <1>1, Zenon DEF world
  <1>3. SameHand
    BY <1>1, StillHolds, Zenon
  <1>4. known \subseteq Cgroups
    BY <1>0, Zenon DEF TypeOK
  <1>5. /\ reconcile' \in Seq(Request) /\ Len(reconcile') = 1
        /\ \A i \in 1 .. Len(reconcile') : reconcile'[i].active = known /\ reconcile'[i].late = {}
    BY <1>1, <1>4 DEF Request
  <1>6. Len(reconcile') <= 1
    BY <1>5
  <1>7. TypeOK'
    BY <1>0, <1>1, <1>2, <1>5, <1>6, Zenon DEF TypeOK
  <1>8. KeysSeen' /\ RoomInHand' /\ SymbolsFound' /\ ProbesOwned' /\ ScanCovers'
    BY <1>0, <1>1, <1>2, <1>3, StillSeen, StillRoom, StillFound, StillOwned, StillCovered, Zenon
       DEF SameHand
  <1>9. CacheJustified'
    BY <1>0, <1>1, <1>2, <1>3, SameJustified, Zenon
  <1>10. MissedOnce'
    <2>1. attached' = attached /\ worker' = worker
      BY <1>1, Zenon
    <2>2. \A f \in DOMAIN attached : OriginMapped(f) => OriginMapped(f)' /\ AskedSees(f)'
      BY <1>2, <1>5, <2>1, Zenon DEF OriginMapped, AskedSees, Sees
    <2>3. \A f \in DOMAIN attached : ScanSees(f) => ScanSees(f)'
      BY <2>1, Zenon DEF ScanSees, Sees
    <2> QED
      BY <1>0, <2>1, <2>2, <2>3, Zenon DEF MissedOnce
  <1> QED
    BY <1>7, <1>8, <1>9, <1>10, Zenon DEF IInv

-----------------------------------------------------------------------------
(* The worker: classifyAndAttach.                                          *)

LEMMA QueueTaken ==
    ASSUME TypeOK, KeysSeen, TakeCandidate
    PROVE  /\ worker = Idle /\ queue \in Seq(Candidate) /\ queue # <<>> /\ queue' = Tail(queue)
           /\ queue' \in Seq(Candidate) /\ Len(queue') <= QueueSize
           /\ Head(queue) \in Candidate /\ Head(queue).key \in Keys
           /\ Head(queue).key[1] \in Files /\ Seen(Head(queue).key)
           /\ \A i \in 1 .. Len(queue') : Seen(queue'[i].key)
           /\ \A x : Holds(queue, x) => Holds(queue', x) \/ Head(queue).key = x
           /\ InHand = {}
  <1>1. worker = Idle /\ queue # <<>> /\ queue' = Tail(queue) /\ queue \in Seq(Candidate)
        /\ Len(queue) <= QueueSize
    BY Zenon DEF TakeCandidate, TypeOK
  <1>2. queue' \in Seq(Candidate) /\ Len(queue') <= QueueSize
    BY <1>1, Sizes
  <1>3. Head(queue) \in Candidate /\ Head(queue).key \in Keys /\ Head(queue).key[1] \in Files
    BY <1>1, Taken, CandidateFields, Zenon
  <1>4. /\ \A i \in 1 .. Len(queue') : Seen(queue'[i].key)
        /\ Seen(Head(queue).key)
    BY <1>1, SeenTaken, Zenon DEF KeysSeen
  <1>5. \A x : Holds(queue, x) => Holds(queue', x) \/ Head(queue).key = x
    BY <1>1, HoldsTaken, Zenon
  <1>6. worker.at \notin {"opened", "attaching"}
    BY <1>1 DEF Idle
  <1>7. InHand = {}
    BY <1>6, InHandIs, Zenon
  <1> QED
    BY <1>1, <1>2, <1>3, <1>4, <1>5, <1>7, Zenon

\* The candidate's key replaces the one under which its file was attached.
LEMMA AdoptKeyInv ==
    ASSUME IInv, AdoptKey
    PROVE  IInv'
  <1>0. TypeOK /\ KeysSeen /\ RoomInHand /\ SymbolsFound /\ CacheJustified /\ ProbesOwned
        /\ ScanCovers /\ MissedOnce
    BY Zenon DEF IInv
  <1> DEFINE key == Head(queue).key
             f == key[1]
             old == {attached[f].key} \ {key}
  <1>1. /\ TakeCandidate /\ f \in DOMAIN attached
        /\ attached' = [attached EXCEPT ![f].key = key]
        /\ UNCHANGED <<world, hook, ring, reconcile, worker, probes>>
        /\ \E bad \in SUBSET old :
              /\ cache' = (cache \ (old \ bad)) \cup {key}
              /\ reported' = (reported \ (old \ bad)) \cup (bad \cap cache)
    BY Zenon DEF AdoptKey
  <1>2. version' = version /\ maps' = maps /\ known' = known /\ worker' = worker
        /\ hook' = hook /\ ring' = ring /\ reconcile' = reconcile /\ probes' = probes
    BY <1>1, Zenon DEF world
  <1>3. /\ queue' \in Seq(Candidate) /\ Len(queue') <= QueueSize
        /\ key \in Keys /\ f \in Files /\ Seen(key)
        /\ \A i \in 1 .. Len(queue') : Seen(queue'[i].key)
        /\ \A x : Holds(queue, x) => Holds(queue', x) \/ key = x
    BY <1>0, <1>1, QueueTaken, Zenon
  <1>4. SameHand
    BY <1>2, StillHolds, Zenon
  <1>5. \A g \in DOMAIN attached : attached[g] \in Target /\ attached[g].key[1] = g
    BY <1>0, Zenon DEF TypeOK
  <1>6. \A t \in Target, k \in Keys :
           /\ [t EXCEPT !.key = k] \in Target /\ [t EXCEPT !.key = k].key = k
           /\ [t EXCEPT !.key = k].links = t.links /\ [t EXCEPT !.key = k].missing = t.missing
           /\ [t EXCEPT !.key = k].origin = t.origin
    BY DEF Target
  <1>7. \A t \in Target : t.key \in Keys
    BY DEF Target
  <1> HIDE DEF key, f
  <1>8. attached' = [attached EXCEPT ![f] = [@ EXCEPT !.key = key]]
    BY <1>1
  <1>9. DOMAIN attached' = DOMAIN attached
        /\ attached'[f] = [attached[f] EXCEPT !.key = key]
        /\ \A g \in DOMAIN attached : g # f => attached'[g] = attached[g]
    BY <1>1, <1>8, Zenon
  <1>10. attached'[f] \in Target /\ attached'[f].key = key
         /\ attached'[f].links = attached[f].links
         /\ attached'[f].missing = attached[f].missing
         /\ attached'[f].origin = attached[f].origin
    <2>1. attached[f] \in Target
      BY <1>1, <1>5, Zenon
    <2> DEFINE t == [attached[f] EXCEPT !.key = key]
    <2>2. /\ t \in Target /\ t.key = key /\ t.links = attached[f].links
          /\ t.missing = attached[f].missing /\ t.origin = attached[f].origin
      BY <1>3, <1>6, <2>1, Zenon
    <2>3. attached'[f] = t
      BY <1>9, Zenon
    <2> HIDE DEF t
    <2> QED
      BY <2>2, <2>3, Zenon
  <1>11. \A g \in DOMAIN attached :
            /\ attached'[g].links = attached[g].links
            /\ attached'[g].missing = attached[g].missing
            /\ attached'[g].origin = attached[g].origin
    BY <1>9, <1>10, Zenon
  <1>12. PICK bad \in SUBSET old :
              /\ cache' = (cache \ (old \ bad)) \cup {key}
              /\ reported' = (reported \ (old \ bad)) \cup (bad \cap cache)
    BY <1>1, Zenon
  <1>13. cache' \subseteq cache \cup {key} /\ cache' \subseteq Keys /\ reported' \subseteq Keys
    <2>1. cache \subseteq Keys /\ reported \subseteq Keys
      BY <1>0, Zenon DEF TypeOK
    <2> QED
      BY <1>3, <1>12, <2>1, Zenon
  <1>14. TypeOK'
    <2>1. key[1] = f
      BY DEF f
    <2>2. \A g \in DOMAIN attached' : attached'[g] \in Target /\ attached'[g].key[1] = g
      BY <1>5, <1>9, <1>10, <2>1, ZenonT(30)
    <2> QED
      BY <1>0, <1>2, <1>3, <1>9, <1>13, <2>2, Zenon DEF TypeOK
  <1>15. KeysSeen'
    <2>1. \A k \in cache' : Seen(k)
      BY <1>0, <1>3, <1>13, Zenon DEF KeysSeen
    <2>2. InHand' = InHand
      BY <1>4, Zenon DEF SameHand
    <2> QED
      BY <1>0, <1>2, <1>3, <2>1, <2>2, Zenon DEF KeysSeen, Seen
  <1>16. RoomInHand' /\ SymbolsFound' /\ ProbesOwned' /\ ScanCovers'
    BY <1>0, <1>2, <1>4, <1>9, <1>11, StillRoom, StillFound, StillOwned, StillCovered, Zenon
       DEF SameHand
  <1>17. MissedOnce'
    <2>1. \A g \in DOMAIN attached : OriginMapped(g) => OriginMapped(g)'
      BY <1>2, <1>11, Zenon DEF OriginMapped
    <2>2. \A g \in DOMAIN attached : AskedSees(g) => AskedSees(g)'
      BY <1>2, <1>11, Zenon DEF AskedSees, Sees
    <2>3. \A g \in DOMAIN attached : ScanSees(g) => ScanSees(g)'
      BY <1>2, <1>11, Zenon DEF ScanSees, Sees
    <2> QED
      BY <1>0, <1>2, <1>9, <1>11, <2>1, <2>2, <2>3, Zenon DEF MissedOnce
  <1>18. CacheJustified'
    <2>1. \A x : x # key /\ Pending(x) => Pending(x)'
      BY <1>0, <1>2, <1>3, <1>4, <1>14, PendingIs, PendingNext, Zenon DEF SameHand
    <2> SUFFICES ASSUME NEW g \in Files, CurKey(g)' \in cache'
                 PROVE  \/ Pending(CurKey(g))'
                        \/ g \in DOMAIN attached' /\ attached'[g].key = CurKey(g)'
                        \/ CurKey(g)' \notin Targets
                        \/ CurKey(g)' \in reported'
      BY Zenon DEF CacheJustified
    <2>2. CurKey(g)' = CurKey(g)
      BY <1>2, Zenon DEF CurKey
    <2>3. CASE CurKey(g) = key
      <3>1. g = f
        BY <1>0, <2>3, CurrentKey, Zenon DEF f
      <3> QED
        BY <1>1, <1>9, <1>10, <2>2, <2>3, <3>1, Zenon
    <2>4. CASE CurKey(g) # key
      <3>1. CurKey(g) \in cache /\ (CurKey(g) \in old => CurKey(g) \in reported')
        BY <1>12, <2>2, <2>4, Zenon
      <3>2. CurKey(g) \notin old /\ CurKey(g) \in reported => CurKey(g) \in reported'
        BY <1>12, Zenon
      <3>3. Pending(CurKey(g)) => Pending(CurKey(g))'
        BY <2>1, <2>2, <2>4, Zenon DEF Pending
      <3>4. g = f /\ attached[g].key = CurKey(g) => CurKey(g) \in old
        BY <2>4, Zenon
      <3> HIDE DEF old
      <3> QED
        BY <1>0, <1>9, <2>2, <3>1, <3>2, <3>3, <3>4, Zenon DEF CacheJustified
    <2> QED
      BY <2>3, <2>4, Zenon
  <1> QED
    BY <1>14, <1>15, <1>16, <1>17, <1>18, Zenon DEF IInv

LEMMA RefuseCandidateInv ==
    ASSUME IInv, RefuseCandidate
    PROVE  IInv'
  <1>0. TypeOK /\ KeysSeen /\ CacheJustified
    BY Zenon DEF IInv
  <1> DEFINE k == Head(queue).key
  <1>1. /\ TakeCandidate /\ worker' = Idle
        /\ \E bad \in SUBSET {k} : DeleteEntries({k}, bad)
        /\ UNCHANGED <<world, hook, ring, reconcile, attached, probes>>
    BY Zenon DEF RefuseCandidate, Release
  <1>2. /\ queue' \in Seq(Candidate) /\ Len(queue') <= QueueSize /\ k \in Keys
        /\ \A i \in 1 .. Len(queue') : Seen(queue'[i].key)
        /\ \A x : Holds(queue, x) => Holds(queue', x) \/ k = x
    BY <1>0, <1>1, QueueTaken, Zenon
  <1>3. worker' = worker
    BY <1>0, <1>1, QueueTaken, Zenon
  <1> HIDE DEF k
  <1>4. version' = version /\ maps' = maps /\ known' = known /\ attached' = attached
        /\ hook' = hook /\ ring' = ring /\ reconcile' = reconcile /\ probes' = probes
    BY <1>1, Zenon DEF world
  <1>5. /\ SameHand /\ InHand' = InHand
        /\ RoomInHand' /\ SymbolsFound' /\ ProbesOwned' /\ ScanCovers' /\ MissedOnce'
    BY <1>1, <1>3, WorkerApart, Zenon
  <1>6. /\ cache' \subseteq cache /\ cache' \subseteq Keys /\ reported' \subseteq Keys
        /\ \A x \in cache' : (x \in {k} \/ x \in reported) => x \in reported'
    <2>1. {k} \in SUBSET Keys
      BY <1>2, Zenon
    <2> QED
      BY <1>0, <1>1, <2>1, Deleted, Zenon
  <1>7. TypeOK'
    BY <1>0, <1>2, <1>3, <1>4, <1>6, Zenon DEF TypeOK
  <1>8. KeysSeen'
    BY <1>0, <1>2, <1>4, <1>5, <1>6, Zenon DEF KeysSeen, Seen
  <1>9. \A x : x \notin {k} /\ Pending(x) => Pending(x)'
    BY <1>0, <1>2, <1>4, <1>5, <1>7, PendingIs, PendingNext, Zenon
  <1>10. CacheJustified'
    <2>1. cache \subseteq Keys
      BY <1>0, Zenon DEF TypeOK
    <2> QED
      BY <1>0, <1>4, <1>6, <1>9, <2>1, StaysJustified, Zenon
  <1> QED
    BY <1>5, <1>7, <1>8, <1>10, Zenon DEF IInv

\* Nothing is attached between opening the file and the end of its attachment.
LEMMA OpenCandidateInv ==
    ASSUME IInv, OpenCandidate
    PROVE  IInv'
  <1>0. TypeOK /\ KeysSeen /\ RoomInHand /\ CacheJustified /\ ProbesOwned /\ MissedOnce
    BY Zenon DEF IInv
  <1> DEFINE c == Head(queue)
  <1>1. /\ TakeCandidate /\ c.key[1] \notin DOMAIN attached /\ ~CapReached
        /\ worker' = [at |-> "opened", cand |-> c]
        /\ UNCHANGED <<world, hook, cache, ring, reconcile, attached, probes, reported>>
    BY Zenon DEF OpenCandidate
  <1>2. /\ worker = Idle /\ InHand = {}
        /\ queue' \in Seq(Candidate) /\ Len(queue') <= QueueSize
        /\ c \in Candidate /\ Seen(c.key)
        /\ \A i \in 1 .. Len(queue') : Seen(queue'[i].key)
        /\ \A x : Holds(queue, x) => Holds(queue', x) \/ c.key = x
    BY <1>0, <1>1, QueueTaken, Zenon
  <1> HIDE DEF c
  <1>3. version' = version /\ maps' = maps /\ known' = known /\ attached' = attached
        /\ hook' = hook /\ ring' = ring /\ reconcile' = reconcile /\ probes' = probes
        /\ cache' = cache /\ reported' = reported
    BY <1>1, Zenon DEF world
  <1>4. /\ worker' \in [at : {"opened"}, cand : Candidate]
        /\ worker'.at = "opened" /\ worker'.cand = c /\ worker' # Stopped /\ worker # Stopped
        /\ worker.at = "idle"
    BY <1>1, <1>2 DEF Idle, Stopped
  <1>5. InHand' = {c}
    BY <1>4, InHandNext, Zenon
  <1>6. worker' \in {Idle, Stopped} \cup Working
    BY <1>4, Zenon DEF Working
  <1>7. TypeOK'
    BY <1>0, <1>2, <1>3, <1>6, Zenon DEF TypeOK
  <1>8. KeysSeen'
    BY <1>0, <1>2, <1>3, <1>5, Zenon DEF KeysSeen, Seen
  <1>9. RoomInHand'
    BY <1>1, <1>3, <1>5, Zenon DEF RoomInHand
  <1>10. SymbolsFound' /\ ScanCovers'
    BY <1>4, Zenon DEF SymbolsFound, ScanCovers
  <1>11. MissedOnce'
    BY <1>0, <1>3, <1>4, StillMissedOnce, Zenon
  <1>12. ProbesOwned'
    <2>1. HandLinks' = {} /\ HandLinks = {}
      BY <1>4, Zenon DEF HandLinks
    <2> QED
      BY <1>0, <1>3, <1>4, <2>1, SameLinks, Zenon DEF ProbesOwned
  <1>13. CacheJustified'
    <2>1. \A x : Pending(x) => Pending(x)'
      BY <1>0, <1>2, <1>3, <1>5, <1>7, PendingIs, PendingNext, Zenon
    <2>2. cache \subseteq Keys
      BY <1>0, Zenon DEF TypeOK
    <2>3. \A x \in cache' : (x \in {} \/ x \in reported) => x \in reported'
      BY <1>3, Zenon
    <2> QED
      BY <1>0, <1>3, <2>1, <2>2, <2>3, StaysJustified, Zenon
  <1> QED
    BY <1>7, <1>8, <1>9, <1>10, <1>11, <1>12, <1>13, Zenon DEF IInv

\* The worker puts down the candidate.
LEMMA HandEmptied ==
    ASSUME IInv, worker.at \in {"opened", "attaching"}, worker' = Idle,
           UNCHANGED <<world, hook, ring, queue, reconcile>>
    PROVE  /\ TypeOK /\ KeysSeen /\ RoomInHand /\ CacheJustified /\ MissedOnce
           /\ UNCHANGED <<version, maps, known, hook, ring, queue, reconcile>>
           /\ worker.cand \in Candidate /\ worker.cand.key \in Keys
           /\ worker.cand.key[1] \in Files /\ Seen(worker.cand.key)
           /\ worker.cand.key[1] \notin DOMAIN attached
           /\ InHand = {worker.cand} /\ InHand' = {}
           /\ probes = AttachedLinks \cup HandLinks
           /\ HandLinks' = {} /\ worker' # Stopped /\ worker' \in {Idle, Stopped} \cup Working
           /\ worker'.at = "idle"
           /\ SymbolsFound' /\ ScanCovers'
  <1>0. TypeOK /\ KeysSeen /\ RoomInHand /\ CacheJustified /\ MissedOnce /\ ProbesOwned
    BY Zenon DEF IInv
  <1>1. UNCHANGED <<version, maps, known, hook, ring, queue, reconcile>>
    BY Zenon DEF world
  <1>2. worker'.at = "idle" /\ worker' # Stopped
    BY DEF Idle, Stopped
  <1>3. worker # Stopped
    BY DEF Stopped
  <1>4. InHand = {worker.cand} /\ InHand' = {}
    BY <1>2, InHandIs, InHandNext, Zenon
  <1>5. worker.cand \in Candidate /\ worker.cand.key \in Keys /\ worker.cand.key[1] \in Files
    BY <1>0, <1>4, InHandTyped, Zenon
  <1>6. Seen(worker.cand.key) /\ worker.cand.key[1] \notin DOMAIN attached
    BY <1>0, <1>4, Zenon DEF KeysSeen, RoomInHand
  <1>7. HandLinks' = {} /\ SymbolsFound' /\ ScanCovers'
    BY <1>2, Zenon DEF HandLinks, SymbolsFound, ScanCovers
  <1>8. probes = AttachedLinks \cup HandLinks
    BY <1>0, <1>3, Zenon DEF ProbesOwned
  <1> QED
    BY <1>0, <1>1, <1>2, <1>4, <1>5, <1>6, <1>7, <1>8, Zenon

\* A candidate is given up: no target is attached and its key is released.
LEMMA GivenUp ==
    ASSUME IInv, worker.at \in {"opened", "attaching"}, Release(worker.cand.key),
           UNCHANGED <<world, hook, ring, queue, reconcile, attached>>,
           probes' = AttachedLinks
    PROVE  IInv'
  <1> DEFINE k == worker.cand.key
  <1>1. worker' = Idle /\ \E bad \in SUBSET {k} : DeleteEntries({k}, bad)
    BY Zenon DEF Release
  <1>2. /\ TypeOK /\ KeysSeen /\ RoomInHand /\ CacheJustified /\ MissedOnce
        /\ UNCHANGED <<version, maps, known, hook, ring, queue, reconcile>>
        /\ k \in Keys
        /\ InHand = {worker.cand} /\ InHand' = {}
        /\ HandLinks' = {} /\ worker' # Stopped /\ worker' \in {Idle, Stopped} \cup Working
        /\ worker'.at = "idle"
        /\ SymbolsFound' /\ ScanCovers'
    BY <1>1, HandEmptied, Zenon
  <1>3. version' = version /\ maps' = maps /\ known' = known /\ attached' = attached
        /\ hook' = hook /\ ring' = ring /\ queue' = queue /\ reconcile' = reconcile
    BY <1>2, Zenon
  <1> HIDE DEF k
  <1>4. /\ cache' \subseteq cache /\ cache' \subseteq Keys /\ reported' \subseteq Keys
        /\ \A x \in cache' : (x \in {k} \/ x \in reported) => x \in reported'
    <2>1. {k} \in SUBSET Keys
      BY <1>2, Zenon
    <2> QED
      BY <1>1, <1>2, <2>1, Deleted, Zenon
  <1>5. AttachedLinks' = AttachedLinks /\ ProbesOwned'
    BY <1>2, <1>3, SameLinks, Zenon DEF ProbesOwned
  <1>6. TypeOK'
    <2>1. probes' \subseteq Files \X (SymbolSet \cup {GoFunction})
      <3>1. probes = AttachedLinks \cup HandLinks
        BY <1>1, HandEmptied, Zenon
      <3> QED
        BY <1>2, <3>1, Zenon DEF TypeOK
    <2> QED
      BY <1>2, <1>3, <1>4, <2>1, Zenon DEF TypeOK
  <1>7. KeysSeen' /\ RoomInHand'
    BY <1>2, <1>3, <1>4, Zenon DEF KeysSeen, Seen, RoomInHand
  <1>8. MissedOnce'
    BY <1>2, <1>3, StillMissedOnce, Zenon
  <1>9. \A x : x \notin {k} /\ Pending(x) => Pending(x)'
    BY <1>2, <1>3, <1>6, PendingIs, PendingNext, Zenon DEF k
  <1>10. CacheJustified'
    <2>1. cache \subseteq Keys
      BY <1>2, Zenon DEF TypeOK
    <2> QED
      BY <1>2, <1>3, <1>4, <1>9, <2>1, StaysJustified, Zenon
  <1> QED
    BY <1>2, <1>5, <1>6, <1>7, <1>8, <1>10, Zenon DEF IInv

LEMMA ClassifyFailsInv ==
    ASSUME IInv, ClassifyFails
    PROVE  IInv'
  <1>1. /\ worker.at = "opened" /\ Release(worker.cand.key)
        /\ UNCHANGED <<world, hook, ring, queue, reconcile, attached, probes>>
    BY Zenon DEF ClassifyFails
  <1>2. probes = AttachedLinks
    <2>1. worker # Stopped
      BY <1>1 DEF Stopped
    <2>2. HandLinks = {}
      BY <1>1, Zenon DEF HandLinks
    <2> QED
      BY <2>1, <2>2, Zenon DEF IInv, ProbesOwned
  <1> QED
    BY <1>1, <1>2, GivenUp, Zenon

\* The probes in hand are of a file that is not attached: they are what is undone.
LEMMA AttachFailsInv ==
    ASSUME IInv, AttachFails
    PROVE  IInv'
  <1>1. /\ worker.at = "attaching" /\ Release(worker.cand.key)
        /\ probes' = probes \ ({worker.cand.key[1]} \X worker.got)
        /\ UNCHANGED <<world, hook, ring, queue, reconcile, attached>>
    BY Zenon DEF AttachFails
  <1>2. HandLinks = {worker.cand.key[1]} \X worker.got
    BY <1>1, Zenon DEF HandLinks
  <1>3. worker' = Idle
    BY <1>1, Zenon DEF Release
  <1>4. probes = AttachedLinks \cup HandLinks /\ worker.cand.key[1] \notin DOMAIN attached
    BY <1>1, <1>3, HandEmptied, Zenon
  <1>5. AttachedLinks \cap HandLinks = {}
    <2> SUFFICES ASSUME NEW x \in AttachedLinks, x \in HandLinks PROVE FALSE
      BY Zenon
    <2>1. PICK f \in DOMAIN attached : x \in {f} \X attached[f].links
      BY Zenon DEF AttachedLinks
    <2>2. x[1] = f /\ x[1] = worker.cand.key[1]
      BY <1>2, <2>1
    <2> QED
      BY <1>4, <2>1, <2>2, Zenon
  <1>6. probes' = AttachedLinks
    BY <1>1, <1>2, <1>4, <1>5, Zenon
  <1> QED
    BY <1>1, <1>6, GivenUp, Zenon

\* A key that stays cached: of a target that was attached under it, or of a
\* file that is no target, or of an older version.
LEMMA RetainJustified ==
    ASSUME TypeOK, TypeOK', CacheJustified, UNCHANGED <<version, ring, queue, reported>>,
           NEW k \in Keys, \A c \in InHand : c.key = k, cache' = cache \cup {k},
           \A g \in DOMAIN attached : g \in DOMAIN attached' /\ attached'[g].key = attached[g].key,
           \A f \in Files : CurKey(f) = k /\ k \in Targets =>
               f \in DOMAIN attached' /\ attached'[f].key = k
    PROVE  CacheJustified'
  <1>0. version' = version /\ ring' = ring /\ queue' = queue /\ reported' = reported
    BY Zenon
  <1>1. \A x : x # k /\ Pending(x) => Pending(x)'
    BY <1>0, PendingIs, PendingNext, Zenon
  <1> SUFFICES ASSUME NEW f \in Files, CurKey(f)' \in cache'
               PROVE  \/ Pending(CurKey(f))'
                      \/ f \in DOMAIN attached' /\ attached'[f].key = CurKey(f)'
                      \/ CurKey(f)' \notin Targets
                      \/ CurKey(f)' \in reported'
    BY Zenon DEF CacheJustified
  <1>2. CurKey(f)' = CurKey(f)
    BY <1>0, Zenon DEF CurKey
  <1>3. CASE CurKey(f) = k
    BY <1>2, <1>3, Zenon
  <1>4. CASE CurKey(f) # k
    <2>1. CurKey(f) \in cache
      BY <1>2, <1>4, Zenon
    <2>2. Pending(CurKey(f)) => Pending(CurKey(f))'
      BY <1>1, <1>2, <1>4, Zenon DEF Pending
    <2> QED
      BY <1>0, <1>2, <2>1, <2>2, Zenon DEF CacheJustified
  <1> QED
    BY <1>3, <1>4, Zenon

\* The file is no target as it is now, or it was rewritten and its key is old.
LEMMA ClassifyNonTargetInv ==
    ASSUME IInv, ClassifyNonTarget
    PROVE  IInv'
  <1> DEFINE k == worker.cand.key
  <1>1. /\ worker.at = "opened" /\ KindRead \in {"plain", "unsupported"}
        /\ worker' = Idle /\ cache' = cache \cup {k} /\ reported' = reported
        /\ UNCHANGED <<world, hook, ring, queue, reconcile, attached, probes>>
    BY Zenon DEF ClassifyNonTarget, Retain
  <1>2. /\ TypeOK /\ KeysSeen /\ RoomInHand /\ CacheJustified /\ MissedOnce
        /\ UNCHANGED <<version, maps, known, hook, ring, queue, reconcile>>
        /\ k \in Keys /\ k[1] \in Files /\ Seen(k)
        /\ InHand = {worker.cand} /\ InHand' = {}
        /\ probes = AttachedLinks \cup HandLinks
        /\ HandLinks' = {} /\ worker' # Stopped /\ worker' \in {Idle, Stopped} \cup Working
        /\ worker'.at = "idle"
        /\ SymbolsFound' /\ ScanCovers'
    BY <1>1, HandEmptied, Zenon
  <1>3. version' = version /\ maps' = maps /\ known' = known /\ attached' = attached
        /\ hook' = hook /\ ring' = ring /\ queue' = queue /\ reconcile' = reconcile
        /\ probes' = probes
    BY <1>1, <1>2, Zenon
  <1>4. TypeOK'
    BY <1>1, <1>2, <1>3, Zenon DEF TypeOK
  <1>5. KeysSeen' /\ RoomInHand'
    BY <1>1, <1>2, <1>3, Zenon DEF KeysSeen, Seen, RoomInHand
  <1>6. MissedOnce'
    BY <1>2, <1>3, StillMissedOnce, Zenon
  <1>7. ProbesOwned'
    <2>1. HandLinks = {}
      BY <1>1, Zenon DEF HandLinks
    <2> QED
      BY <1>2, <1>3, <2>1, SameLinks, Zenon DEF ProbesOwned
  <1>8. CacheJustified'
    <2>1. \A f \in Files : CurKey(f) = k => k \notin Targets
      <3> SUFFICES ASSUME NEW f \in Files, CurKey(f) = k PROVE k \notin Targets
        BY Zenon
      <3>1. CurKey(f)[1] = f
        BY <1>2, CurrentKey, Zenon
      <3>2. CurKey(k[1]) = k
        BY <3>1, Zenon
      <3>3. Kind[k] \in {"plain", "unsupported"}
        BY <1>1, <3>2, Zenon DEF KindRead
      <3> QED
        BY <3>3 DEF Targets
    <2>2. \A c \in InHand : c.key = k
      BY <1>2, Zenon
    <2> HIDE DEF k
    <2>3. UNCHANGED <<version, ring, queue, reported>>
      BY <1>1, <1>3, Zenon
    <2> QED
      BY <1>1, <1>2, <1>3, <1>4, <2>1, <2>2, <2>3, RetainJustified, Zenon
  <1> QED
    BY <1>2, <1>4, <1>5, <1>6, <1>7, <1>8, Zenon DEF IInv

LEMMA UnionOne ==
    ASSUME NEW A, NEW B
    PROVE  UNION (A \cup {B}) = (UNION A) \cup B
  BY Zenon

\* A new target fits under the cap, and its probes join those of the others.
LEMMA NewTargetIs ==
    ASSUME IInv, worker.at \in {"opened", "attaching"}, worker' = Idle,
           UNCHANGED <<world, hook, ring, queue, reconcile>>,
           NEW links \in SUBSET (SymbolSet \cup {GoFunction}),
           NEW k, k = worker.cand.key, NewTarget(k[1], k, links)
    PROVE  /\ DOMAIN attached' = DOMAIN attached \cup {k[1]}
           /\ \A g \in DOMAIN attached : attached'[g] = attached[g]
           /\ attached'[k[1]].key = k
           /\ DOMAIN attached' \subseteq Files
           /\ \A g \in DOMAIN attached' : attached'[g] \in Target /\ attached'[g].key[1] = g
           /\ AttachedLinks' = AttachedLinks \cup ({k[1]} \X links)
           /\ MissedOnce'
  <1> DEFINE f == k[1]
             ms == {m \in maps : m[2] = f /\ CgroupOf[m[1]] \in known}
             t == [key |-> k, links |-> links, missing |-> 0, origin |-> ms]
  <1>1. /\ TypeOK /\ RoomInHand /\ MissedOnce
        /\ maps' = maps /\ known' = known /\ reconcile' = reconcile
        /\ k \in Keys /\ f \in Files /\ f \notin DOMAIN attached
        /\ worker'.at = "idle"
    BY HandEmptied, Zenon
  <1>2. attached' = [g \in DOMAIN attached \cup {f} |-> IF g = f THEN t ELSE attached[g]]
    BY Zenon DEF NewTarget
  <1>3. ms \in SUBSET Mappings /\ 0 \in 0 .. MissingScanLimit
    BY <1>1, Sizes DEF TypeOK
  <1>4. t \in Target /\ t.key = k /\ t.links = links /\ t.missing = 0 /\ t.origin = ms
    <2> HIDE DEF ms
    <2> QED
      BY <1>1, <1>3 DEF Target
  <1>0. k[1] = f
    BY Zenon
  <1> HIDE DEF t, f
  <1>5. /\ DOMAIN attached' = DOMAIN attached \cup {f} /\ attached'[f] = t
        /\ \A g \in DOMAIN attached : attached'[g] = attached[g]
    BY <1>1, <1>2, Zenon
  <1>6. DOMAIN attached' \subseteq Files
        /\ \A g \in DOMAIN attached' : attached'[g] \in Target /\ attached'[g].key[1] = g
    <2>1. /\ DOMAIN attached \subseteq Files
          /\ \A g \in DOMAIN attached : attached[g] \in Target /\ attached[g].key[1] = g
      BY <1>1, Zenon DEF TypeOK
    <2> HIDE DEF ms
    <2>2. attached'[f] \in Target /\ attached'[f].key[1] = f
      BY <1>0, <1>4, <1>5, Zenon
    <2> QED
      BY <1>1, <1>5, <2>1, <2>2, Zenon
  <1>8. AttachedLinks' = AttachedLinks \cup ({f} \X links)
    <2>1. \A g \in DOMAIN attached : attached'[g].links = attached[g].links
      BY <1>5, Zenon
    <2>2. attached'[f].links = links
      BY <1>4, <1>5, Zenon
    <2>3. AttachedLinks' = UNION {{g} \X attached'[g].links : g \in DOMAIN attached \cup {f}}
      BY <1>5, Zenon DEF AttachedLinks
    <2>4. UNION {{g} \X attached'[g].links : g \in DOMAIN attached \cup {f}}
            = (UNION {{g} \X attached[g].links : g \in DOMAIN attached}) \cup ({f} \X links)
      <3>1. {{g} \X attached'[g].links : g \in DOMAIN attached \cup {f}}
              = {{g} \X attached[g].links : g \in DOMAIN attached} \cup {{f} \X links}
        BY <2>1, <2>2, Zenon
      <3> QED
        BY <3>1, UnionOne, Zenon
    <2>5. AttachedLinks = UNION {{g} \X attached[g].links : g \in DOMAIN attached}
      BY Zenon DEF AttachedLinks
    <2> QED
      BY <2>3, <2>4, <2>5, Zenon
  <1>9. MissedOnce'
    <2>1. \A g \in DOMAIN attached : OriginMapped(g) => OriginMapped(g)'
      BY <1>1, <1>5, Zenon DEF OriginMapped
    <2>2. \A g \in DOMAIN attached : AskedSees(g) => AskedSees(g)'
      BY <1>1, <1>5, Zenon DEF AskedSees, Sees
    <2>3. \A g \in DOMAIN attached' : ScanSees(g)'
      BY <1>1, Zenon DEF ScanSees
    <2>4. OriginMapped(f)' /\ attached'[f].missing = 0
      <3>1. attached'[f].origin = ms /\ attached'[f].missing = 0
        BY <1>4, <1>5, Zenon
      <3>2. \A m \in ms : m \in maps /\ m[2] = f /\ CgroupOf[m[1]] \in known
        BY Zenon
      <3> HIDE DEF ms
      <3> QED
        BY <1>1, <3>1, <3>2, Zenon DEF OriginMapped
    <2>5. worker'.at # "scanning"
      BY <1>1
    <2>6. \A g \in DOMAIN attached' : OriginMapped(g)'
      BY <1>1, <1>5, <2>1, <2>4, Zenon DEF MissedOnce
    <2> HIDE DEF ms
    <2>7. ASSUME NEW g \in DOMAIN attached', attached'[g].origin # {}, attached'[g].missing # 0
          PROVE  attached'[g].missing = 1 /\ AskedSees(g)'
      <3>1. g \in DOMAIN attached /\ attached'[g] = attached[g]
        BY <1>5, <2>4, <2>7, Zenon
      <3> QED
        BY <1>1, <2>2, <2>7, <3>1, Zenon DEF MissedOnce
    <2> QED
      BY <2>3, <2>5, <2>6, <2>7, Zenon DEF MissedOnce
  <1>10. attached'[f].key = k
    BY <1>4, <1>5, Zenon
  <1> HIDE DEF ms
  <1> QED
    BY <1>5, <1>6, <1>8, <1>9, <1>10, Zenon DEF f

\* An attachment is complete: the target is kept under the key that stays cached.
LEMMA AttachedInv ==
    ASSUME IInv, worker.at \in {"opened", "attaching"},
           UNCHANGED <<world, hook, ring, queue, reconcile>>,
           NEW links \in SUBSET (SymbolSet \cup {GoFunction}),
           NEW k, k = worker.cand.key, Retain(k), NewTarget(k[1], k, links),
           probes' = AttachedLinks \cup ({k[1]} \X links)
    PROVE  IInv'
  <1>1. worker' = Idle /\ cache' = cache \cup {k} /\ reported' = reported
    BY Zenon DEF Retain
  <1>2. /\ TypeOK /\ KeysSeen /\ CacheJustified
        /\ UNCHANGED <<version, maps, known, hook, ring, queue, reconcile>>
        /\ k \in Keys /\ k[1] \in Files /\ Seen(k)
        /\ InHand = {worker.cand} /\ InHand' = {}
        /\ HandLinks' = {} /\ worker' # Stopped /\ worker' \in {Idle, Stopped} \cup Working
        /\ SymbolsFound' /\ ScanCovers'
    BY <1>1, HandEmptied, Zenon
  <1>3. version' = version /\ maps' = maps /\ known' = known
        /\ hook' = hook /\ ring' = ring /\ queue' = queue /\ reconcile' = reconcile
    BY <1>2, Zenon
  <1>4. /\ DOMAIN attached' = DOMAIN attached \cup {k[1]}
        /\ \A g \in DOMAIN attached : attached'[g] = attached[g]
        /\ attached'[k[1]].key = k
        /\ DOMAIN attached' \subseteq Files
        /\ \A g \in DOMAIN attached' : attached'[g] \in Target /\ attached'[g].key[1] = g
        /\ AttachedLinks' = AttachedLinks \cup ({k[1]} \X links)
        /\ MissedOnce'
    BY <1>1, NewTargetIs, Zenon
  <1>5. TypeOK'
    <2>1. probes' \subseteq Files \X (SymbolSet \cup {GoFunction})
      <3>1. AttachedLinks \subseteq probes
        BY <1>1, HandEmptied, Zenon
      <3>2. {k[1]} \X links \subseteq Files \X (SymbolSet \cup {GoFunction})
        BY <1>2
      <3> QED
        BY <1>2, <3>1, <3>2, Zenon DEF TypeOK
    <2>2. cache' \subseteq Keys
      BY <1>1, <1>2, Zenon DEF TypeOK
    <2> QED
      BY <1>1, <1>2, <1>3, <1>4, <2>1, <2>2, Zenon DEF TypeOK
  <1>6. KeysSeen' /\ RoomInHand'
    BY <1>1, <1>2, <1>3, <1>4, Zenon DEF KeysSeen, Seen, RoomInHand
  <1>7. ProbesOwned'
    BY <1>2, <1>4, Zenon DEF ProbesOwned
  <1>8. CacheJustified'
    <2>1. \A g \in DOMAIN attached : g \in DOMAIN attached' /\ attached'[g].key = attached[g].key
      BY <1>4, Zenon
    <2>2. \A f \in Files : CurKey(f) = k => f \in DOMAIN attached' /\ attached'[f].key = k
      BY <1>2, <1>4, CurrentKey, Zenon
    <2>3. \A c \in InHand : c.key = k
      BY <1>2, Zenon
    <2>4. UNCHANGED <<version, ring, queue, reported>>
      BY <1>1, <1>3, Zenon
    <2> QED
      BY <1>1, <1>2, <1>5, <2>1, <2>2, <2>3, <2>4, RetainJustified, Zenon
  <1> QED
    BY <1>2, <1>4, <1>5, <1>6, <1>7, <1>8, Zenon DEF IInv

LEMMA AttachGoInv ==
    ASSUME IInv, AttachGo
    PROVE  IInv'
  <1>1. PICK k : k = worker.cand.key
    BY Zenon
  <1>2. /\ worker.at = "opened" /\ probes' = probes \cup {<<k[1], GoFunction>>}
        /\ NewTarget(k[1], k, {GoFunction}) /\ Retain(k)
        /\ UNCHANGED <<world, hook, ring, queue, reconcile>>
    BY <1>1, Zenon DEF AttachGo
  <1>3. probes = AttachedLinks \cup HandLinks
    BY <1>2, HandEmptied, Zenon DEF Retain
  <1>4. HandLinks = {}
    BY <1>2, Zenon DEF HandLinks
  <1>5. {<<k[1], GoFunction>>} = {k[1]} \X {GoFunction}
    OBVIOUS
  <1>6. probes' = AttachedLinks \cup ({k[1]} \X {GoFunction})
    BY <1>2, <1>3, <1>4, <1>5, Zenon
  <1>7. {GoFunction} \in SUBSET (SymbolSet \cup {GoFunction})
    BY Zenon
  <1> QED
    BY <1>1, <1>2, <1>6, <1>7, AttachedInv, Zenon

\* No symbol found in a file that was one of symbols: it was rewritten meanwhile.
LEMMA FinishSymbolsInv ==
    ASSUME IInv, FinishSymbols
    PROVE  IInv'
  <1>1. PICK k : k = worker.cand.key
    BY Zenon
  <1>2. PICK links : links = worker.got
    BY Zenon
  <1>3. /\ worker.at = "attaching" /\ worker.todo = <<>> /\ probes' = probes /\ Retain(k)
        /\ links # {} => NewTarget(k[1], k, links)
        /\ links = {} => attached' = attached
        /\ UNCHANGED <<world, hook, ring, queue, reconcile>>
    BY <1>1, <1>2, Zenon DEF FinishSymbols
  <1>4. worker' = Idle /\ cache' = cache \cup {k} /\ reported' = reported
    BY <1>3, Zenon DEF Retain
  <1>5. /\ TypeOK /\ KeysSeen /\ RoomInHand /\ CacheJustified /\ MissedOnce
        /\ UNCHANGED <<version, maps, known, hook, ring, queue, reconcile>>
        /\ k \in Keys /\ k[1] \in Files /\ Seen(k)
        /\ InHand = {worker.cand} /\ InHand' = {}
        /\ probes = AttachedLinks \cup HandLinks
        /\ HandLinks' = {} /\ worker' # Stopped /\ worker' \in {Idle, Stopped} \cup Working
        /\ worker'.at = "idle"
        /\ SymbolsFound' /\ ScanCovers'
    BY <1>1, <1>3, <1>4, HandEmptied, Zenon
  <1>6. HandLinks = {k[1]} \X links
    BY <1>1, <1>2, <1>3, Zenon DEF HandLinks
  <1>7. CASE links # {}
    <2>1. probes' = AttachedLinks \cup ({k[1]} \X links)
      BY <1>3, <1>5, <1>6, Zenon
    <2>2. links \in SUBSET (SymbolSet \cup {GoFunction})
      <3>1. links \in SUBSET SymbolSet
        BY <1>2, <1>3, <1>5, WorkerFields, Zenon DEF TypeOK
      <3> QED
        BY <3>1, Zenon
    <2> QED
      BY <1>1, <1>3, <1>7, <2>1, <2>2, AttachedInv, Zenon
  <1>8. CASE links = {}
    <2>1. version' = version /\ maps' = maps /\ known' = known /\ attached' = attached
          /\ hook' = hook /\ ring' = ring /\ queue' = queue /\ reconcile' = reconcile
          /\ probes' = probes
      BY <1>3, <1>5, <1>8, Zenon
    <2>2. TypeOK'
      BY <1>4, <1>5, <2>1, Zenon DEF TypeOK
    <2>3. KeysSeen' /\ RoomInHand'
      BY <1>4, <1>5, <2>1, Zenon DEF KeysSeen, Seen, RoomInHand
    <2>4. MissedOnce'
      BY <1>5, <2>1, StillMissedOnce, Zenon
    <2>5. ProbesOwned'
      <3>1. {k[1]} \X links = {}
        BY <1>8
      <3> QED
        BY <1>5, <1>6, <2>1, <3>1, SameLinks, Zenon DEF ProbesOwned
    <2>6. CacheJustified'
      <3>1. ASSUME NEW f \in Files, CurKey(f) = k PROVE FALSE
        <4>1. CurKey(k[1]) = k
          BY <1>5, <3>1, CurrentKey, Zenon
        <4> QED
          BY <1>1, <1>2, <1>3, <1>8, <4>1, Zenon DEF IInv, SymbolsFound
      <3>2. \A c \in InHand : c.key = k
        BY <1>1, <1>5, Zenon
      <3>3. UNCHANGED <<version, ring, queue, reported>>
        BY <1>4, <2>1, Zenon
      <3> QED
        BY <1>4, <1>5, <2>1, <2>2, <3>1, <3>2, <3>3, RetainJustified, Zenon
    <2> QED
      BY <1>5, <2>2, <2>3, <2>4, <2>5, <2>6, Zenon DEF IInv
  <1> QED
    BY <1>7, <1>8, Zenon

\* The worker goes on with the candidate it holds.
LEMMA StillInHand ==
    ASSUME IInv, worker.at \in {"opened", "attaching"},
           worker'.at = "attaching", worker'.cand = worker.cand,
           worker' \in {Idle, Stopped} \cup Working,
           UNCHANGED <<world, hook, cache, ring, queue, reconcile, attached, reported>>,
           probes' \subseteq Files \X (SymbolSet \cup {GoFunction})
    PROVE  /\ TypeOK' /\ KeysSeen' /\ RoomInHand' /\ CacheJustified' /\ ScanCovers' /\ MissedOnce'
           /\ version' = version /\ AttachedLinks' = AttachedLinks
           /\ worker' # Stopped /\ probes = AttachedLinks \cup HandLinks
  <1>0. TypeOK /\ KeysSeen /\ RoomInHand /\ CacheJustified /\ ProbesOwned /\ MissedOnce
    BY Zenon DEF IInv
  <1>1. version' = version /\ maps' = maps /\ known' = known /\ attached' = attached
        /\ hook' = hook /\ ring' = ring /\ queue' = queue /\ reconcile' = reconcile
        /\ cache' = cache /\ reported' = reported
    BY Zenon DEF world
  <1>2. InHand' = InHand
    BY InHandIs, InHandNext, Zenon
  <1>3. worker # Stopped /\ worker' # Stopped
    BY DEF Stopped
  <1>4. TypeOK'
    BY <1>0, <1>1, Zenon DEF TypeOK
  <1>5. KeysSeen' /\ RoomInHand'
    BY <1>0, <1>1, <1>2, StillSeen, StillRoom, Zenon
  <1>6. ScanCovers'
    BY Zenon DEF ScanCovers
  <1>7. MissedOnce'
    BY <1>0, <1>1, StillMissedOnce, Zenon
  <1>8. AttachedLinks' = AttachedLinks /\ probes = AttachedLinks \cup HandLinks
    BY <1>0, <1>1, <1>3, SameLinks, Zenon DEF ProbesOwned
  <1>9. CacheJustified'
    <2>1. \A x : Pending(x) => Pending(x)'
      BY <1>1, <1>2, Zenon DEF Pending
    <2>2. cache \subseteq Keys
      BY <1>0, Zenon DEF TypeOK
    <2>3. \A x \in cache' : (x \in {} \/ x \in reported) => x \in reported'
      BY <1>1, Zenon
    <2> QED
      BY <1>0, <1>1, <2>1, <2>2, <2>3, StaysJustified, Zenon
  <1> QED
    BY <1>1, <1>3, <1>4, <1>5, <1>6, <1>7, <1>8, <1>9, Zenon

LEMMA StartSymbolsInv ==
    ASSUME IInv, StartSymbols
    PROVE  IInv'
  <1>1. /\ worker.at = "opened" /\ KindRead = "symbol" /\ probes' = probes
        /\ worker' = [at |-> "attaching", cand |-> worker.cand, todo |-> Symbols, got |-> {}]
        /\ UNCHANGED <<world, hook, cache, ring, queue, reconcile, attached, reported>>
    BY Zenon DEF StartSymbols
  <1>2. worker.cand \in Candidate
    BY <1>1, WorkerFields, Zenon DEF IInv, TypeOK
  <1>3. Symbols \in Seq(SymbolSet) /\ Symbols # <<>>
    BY UprobeAssumption, Zenon
  <1>4. /\ worker' \in [at : {"attaching"}, cand : Candidate, todo : Seq(SymbolSet),
                        got : SUBSET SymbolSet]
        /\ worker'.at = "attaching" /\ worker'.cand = worker.cand /\ worker'.todo = Symbols
        /\ worker'.got = {}
    BY <1>1, <1>2, <1>3
  <1>5. worker' \in {Idle, Stopped} \cup Working
    BY <1>4, Zenon DEF Working
  <1>6. probes' \subseteq Files \X (SymbolSet \cup {GoFunction})
    BY <1>1, Zenon DEF IInv, TypeOK
  <1>7. /\ TypeOK' /\ KeysSeen' /\ RoomInHand' /\ CacheJustified' /\ ScanCovers' /\ MissedOnce'
        /\ version' = version /\ AttachedLinks' = AttachedLinks
        /\ worker' # Stopped /\ probes = AttachedLinks \cup HandLinks
    BY <1>1, <1>4, <1>5, <1>6, StillInHand, Zenon
  <1>8. SymbolsFound'
    BY <1>1, <1>3, <1>4, <1>7, Zenon DEF SymbolsFound, KindRead, CurKey
  <1>9. ProbesOwned'
    <2>1. HandLinks = {}
      BY <1>1, Zenon DEF HandLinks
    <2>2. HandLinks' = {worker'.cand.key[1]} \X worker'.got
      BY <1>4, Zenon DEF HandLinks
    <2>3. HandLinks' = {}
      BY <1>4, <2>2
    <2> QED
      BY <1>1, <1>7, <2>1, <2>3, Zenon DEF ProbesOwned
  <1> QED
    BY <1>7, <1>8, <1>9, Zenon DEF IInv

LEMMA AttachSymbolInv ==
    ASSUME IInv, AttachSymbol
    PROVE  IInv'
  <1> DEFINE s == Head(worker.todo)
             f == worker.cand.key[1]
  <1>0. TypeOK /\ SymbolsFound
    BY Zenon DEF IInv
  <1>1. /\ worker.at = "attaching" /\ worker.todo # <<>>
        /\ UNCHANGED <<world, hook, cache, ring, queue, reconcile, attached, reported>>
        /\ \/ /\ KindRead = "symbol" /\ probes' = probes \cup {<<f, s>>}
              /\ worker' = [worker EXCEPT !.todo = Tail(@), !.got = @ \cup {s}]
           \/ /\ KindRead # "symbol" /\ probes' = probes
              /\ worker' = [worker EXCEPT !.todo = Tail(@)]
    BY Zenon DEF AttachSymbol
  <1>2. worker \in [at : {"attaching"}, cand : Candidate, todo : Seq(SymbolSet),
                    got : SUBSET SymbolSet]
    BY <1>0, <1>1, WorkerTypes, Zenon DEF TypeOK
  <1>3. /\ worker.cand \in Candidate /\ f \in Files
        /\ worker.todo \in Seq(SymbolSet) /\ worker.got \in SUBSET SymbolSet
    BY <1>0, <1>1, WorkerFields, CandidateFields, Zenon DEF TypeOK
  <1>4. s \in SymbolSet /\ Tail(worker.todo) \in Seq(SymbolSet)
    BY <1>1, <1>3
  <1>5. probes \subseteq Files \X (SymbolSet \cup {GoFunction})
    BY <1>0, Zenon DEF TypeOK
  <1>6. HandLinks = {f} \X worker.got
    BY <1>1, Zenon DEF HandLinks
  <1>7. CASE /\ KindRead = "symbol" /\ probes' = probes \cup {<<f, s>>}
             /\ worker' = [worker EXCEPT !.todo = Tail(@), !.got = @ \cup {s}]
    <2> HIDE DEF s
    <2>1. /\ worker' \in [at : {"attaching"}, cand : Candidate, todo : Seq(SymbolSet),
                          got : SUBSET SymbolSet]
          /\ worker'.at = "attaching" /\ worker'.cand = worker.cand
          /\ worker'.got = worker.got \cup {s}
      <3>1. PICK td \in Seq(SymbolSet) : td = Tail(worker.todo)
        BY <1>4, Zenon
      <3>2. PICK gt \in SUBSET SymbolSet : gt = worker.got \cup {s}
        BY <1>3, <1>4, Zenon
      <3>3. worker' = [worker EXCEPT !.todo = td, !.got = gt]
        BY <1>7, <3>1, <3>2, Zenon
      <3>4. /\ worker' \in [at : {"attaching"}, cand : Candidate, todo : Seq(SymbolSet),
                            got : SUBSET SymbolSet]
            /\ worker'.at = "attaching" /\ worker'.cand = worker.cand /\ worker'.got = gt
        BY <1>2, <3>1, <3>2, <3>3, Zenon
      <3> QED
        BY <3>2, <3>4, Zenon
    <2>2. worker' \in {Idle, Stopped} \cup Working
      BY <2>1, Zenon DEF Working
    <2>3. probes' \subseteq Files \X (SymbolSet \cup {GoFunction})
      <3>1. <<f, s>> \in Files \X (SymbolSet \cup {GoFunction})
        BY <1>3, <1>4, Zenon
      <3> QED
        BY <1>5, <1>7, <3>1, Zenon
    <2>4. /\ TypeOK' /\ KeysSeen' /\ RoomInHand' /\ CacheJustified' /\ ScanCovers' /\ MissedOnce'
          /\ version' = version /\ AttachedLinks' = AttachedLinks
          /\ worker' # Stopped /\ probes = AttachedLinks \cup HandLinks
      BY <1>1, <2>1, <2>2, <2>3, StillInHand, Zenon
    <2>5. SymbolsFound'
      BY <1>0, <1>1, <2>1, <2>4, Zenon DEF SymbolsFound, CurKey
    <2>6. HandLinks' = {f} \X (worker.got \cup {s})
      BY <2>1, Zenon DEF HandLinks
    <2>7. {f} \X (worker.got \cup {s}) = ({f} \X worker.got) \cup {<<f, s>>}
      <3> HIDE DEF f
      <3> QED
        OBVIOUS
    <2>8. ProbesOwned'
      BY <1>6, <1>7, <2>4, <2>6, <2>7, Zenon DEF ProbesOwned
    <2> QED
      BY <2>4, <2>5, <2>8, Zenon DEF IInv
  <1>8. CASE /\ KindRead # "symbol" /\ probes' = probes
             /\ worker' = [worker EXCEPT !.todo = Tail(@)]
    <2>1. /\ worker' \in [at : {"attaching"}, cand : Candidate, todo : Seq(SymbolSet),
                          got : SUBSET SymbolSet]
          /\ worker'.at = "attaching" /\ worker'.cand = worker.cand
          /\ worker'.got = worker.got
      BY <1>2, <1>4, <1>8, Zenon
    <2>2. worker' \in {Idle, Stopped} \cup Working
      BY <2>1, Zenon DEF Working
    <2>4. /\ TypeOK' /\ KeysSeen' /\ RoomInHand' /\ CacheJustified' /\ ScanCovers' /\ MissedOnce'
          /\ version' = version /\ AttachedLinks' = AttachedLinks
          /\ worker' # Stopped /\ probes = AttachedLinks \cup HandLinks
      BY <1>1, <1>5, <1>8, <2>1, <2>2, StillInHand, Zenon
    <2>5. SymbolsFound'
      <3>1. CurKey(f) # worker.cand.key
        BY <1>0, <1>1, <1>8, Zenon DEF SymbolsFound, KindRead
      <3> QED
        BY <2>1, <2>4, <3>1, Zenon DEF SymbolsFound, CurKey
    <2>6. HandLinks' = HandLinks
      BY <1>1, <2>1, Zenon DEF HandLinks
    <2>8. ProbesOwned'
      BY <1>8, <2>4, <2>6, Zenon DEF ProbesOwned
    <2> QED
      BY <2>4, <2>5, <2>8, Zenon DEF IInv
  <1> QED
    BY <1>1, <1>7, <1>8, Zenon

-----------------------------------------------------------------------------
(* The worker: reconcileTargets, and the end of run.                       *)

\* What is attached, cached and pending does not depend on a scan under way.
LEMMA ScanApart ==
    ASSUME IInv, worker.at \in {"idle", "scanning"}, worker'.at = "scanning",
           UNCHANGED <<world, hook, cache, ring, queue, attached, probes, reported>>
    PROVE  KeysSeen' /\ RoomInHand' /\ SymbolsFound' /\ ProbesOwned' /\ CacheJustified'
  <1>0. KeysSeen /\ RoomInHand /\ SymbolsFound /\ CacheJustified /\ ProbesOwned
    BY Zenon DEF IInv
  <1>1. version' = version /\ attached' = attached /\ hook' = hook /\ ring' = ring
        /\ queue' = queue /\ probes' = probes /\ cache' = cache /\ reported' = reported
    BY Zenon DEF world
  <1>2. InHand' = {} /\ InHand = {}
    BY InHandIs, InHandNext
  <1>3. worker # Stopped /\ worker' # Stopped
    BY DEF Stopped
  <1>4. SameHand
    <2>1. worker.at # "attaching" /\ worker'.at # "attaching"
      OBVIOUS
    <2> QED
      BY <1>2, <1>3, <2>1, Zenon DEF SameHand
  <1> QED
    BY <1>0, <1>1, <1>4, StillSeen, StillRoom, StillFound, StillOwned, SameJustified, Zenon
       DEF SameHand

\* A scan lists every process of the cgroups it was asked for, or is incomplete.
LEMMA StartScanInv ==
    ASSUME IInv, StartScan
    PROVE  IInv'
  <1>0. TypeOK /\ MissedOnce
    BY Zenon DEF IInv
  <1>1. PICK r : r = Head(reconcile)
    BY Zenon
  <1>2. PICK pids \in SUBSET {p \in Procs : CgroupOf[p] \in r.active}, complete \in BOOLEAN :
           /\ complete => pids = {p \in Procs : CgroupOf[p] \in r.active}
           /\ worker' = [at |-> "scanning", request |-> r, pids |-> pids,
                         observed |-> {}, complete |-> complete]
    BY <1>1, Zenon DEF StartScan
  <1>3. /\ worker = Idle /\ reconcile # <<>> /\ reconcile' = <<>>
        /\ UNCHANGED <<world, hook, cache, ring, queue, attached, probes, reported>>
    BY Zenon DEF StartScan
  <1>4. version' = version /\ maps' = maps /\ known' = known /\ attached' = attached
        /\ hook' = hook /\ ring' = ring /\ queue' = queue /\ probes' = probes
        /\ cache' = cache /\ reported' = reported
    BY <1>3, Zenon DEF world
  <1>5. 1 \in 1 .. Len(reconcile) /\ r = reconcile[1]
    <2>1. reconcile \in Seq(Request)
      BY <1>0, QueueFields, Zenon
    <2> QED
      BY <1>1, <1>3, <2>1
  <1>6. r \in Request
    BY <1>0, <1>5, QueueFields, Zenon
  <1>7. /\ worker' \in [at : {"scanning"}, request : Request, pids : SUBSET Procs,
                        observed : SUBSET Files, complete : BOOLEAN]
        /\ worker'.at = "scanning" /\ worker'.request = r /\ worker'.pids = pids
        /\ worker'.complete = complete
    BY <1>2, <1>6
  <1>8. worker' \in {Idle, Stopped} \cup Working
    BY <1>7, Zenon DEF Working
  <1>9. /\ reconcile' \in Seq(Request) /\ Len(reconcile') <= 1 /\ Len(reconcile') = 0
        /\ 1 .. Len(reconcile') = {}
    BY <1>3
  <1>10. TypeOK'
    BY <1>0, <1>4, <1>8, <1>9, Zenon DEF TypeOK
  <1>11. KeysSeen' /\ RoomInHand' /\ SymbolsFound' /\ ProbesOwned' /\ CacheJustified'
    <2>1. worker.at \in {"idle", "scanning"}
      BY <1>3 DEF Idle
    <2> QED
      BY <1>3, <1>7, <2>1, ScanApart, Zenon
  <1>12. ScanCovers'
    <2>1. \A m \in maps : m[1] \in Procs
      BY <1>0 DEF TypeOK, Mappings
    <2> QED
      BY <1>2, <1>4, <1>7, <2>1, Zenon DEF ScanCovers
  <1>13. MissedOnce'
    <2>1. \A f \in DOMAIN attached : OriginMapped(f) => OriginMapped(f)'
      BY <1>4, Zenon DEF OriginMapped
    <2>2. \A f \in DOMAIN attached : AskedSees(f)'
      BY <1>9, Zenon DEF AskedSees
    <2>3. \A f \in DOMAIN attached : AskedSees(f) => ScanSees(f)'
      BY <1>4, <1>5, <1>7, Zenon DEF AskedSees, ScanSees, Sees
    <2> QED
      BY <1>0, <1>4, <2>1, <2>2, <2>3, Zenon DEF MissedOnce
  <1> QED
    BY <1>10, <1>11, <1>12, <1>13, Zenon DEF IInv

\* Once a process is read without error, all it maps was observed.
LEMMA ScanProcessInv ==
    ASSUME IInv, NEW p \in Procs, ScanProcess(p)
    PROVE  IInv'
  <1>0. TypeOK /\ ScanCovers /\ MissedOnce
    BY Zenon DEF IInv
  <1>1. /\ worker.at = "scanning"
        /\ UNCHANGED <<world, hook, cache, ring, queue, reconcile, attached, probes, reported>>
    BY Zenon DEF ScanProcess
  <1>2. PICK seen \in SUBSET {f \in Files : <<p, f>> \in maps}, ok \in BOOLEAN :
           /\ ok => seen = {f \in Files : <<p, f>> \in maps}
           /\ worker' = [worker EXCEPT !.pids = @ \ {p}, !.observed = @ \cup seen,
                                       !.complete = @ /\ ok]
    BY Zenon DEF ScanProcess
  <1>3. version' = version /\ maps' = maps /\ known' = known /\ attached' = attached
        /\ hook' = hook /\ ring' = ring /\ queue' = queue /\ probes' = probes
        /\ cache' = cache /\ reported' = reported /\ reconcile' = reconcile
    BY <1>1, Zenon DEF world
  <1>4. worker \in [at : {"scanning"}, request : Request, pids : SUBSET Procs,
                    observed : SUBSET Files, complete : BOOLEAN]
    BY <1>0, <1>1, WorkerTypes, Zenon DEF TypeOK
  <1>5. /\ worker' \in [at : {"scanning"}, request : Request, pids : SUBSET Procs,
                        observed : SUBSET Files, complete : BOOLEAN]
        /\ worker'.at = "scanning" /\ worker'.request = worker.request
        /\ worker'.pids = worker.pids \ {p} /\ worker'.observed = worker.observed \cup seen
        /\ worker'.complete => worker.complete /\ ok
    BY <1>2, <1>4, Zenon
  <1>6. worker' \in {Idle, Stopped} \cup Working
    BY <1>5, Zenon DEF Working
  <1>7. TypeOK'
    BY <1>0, <1>3, <1>6, Zenon DEF TypeOK
  <1>8. KeysSeen' /\ RoomInHand' /\ SymbolsFound' /\ ProbesOwned' /\ CacheJustified'
    BY <1>1, <1>5, ScanApart, Zenon
  <1>9. ScanCovers'
    <2> SUFFICES ASSUME worker'.complete, NEW m \in maps,
                        CgroupOf[m[1]] \in worker.request.active
                 PROVE  m[1] \in worker'.pids \/ m[2] \in worker'.observed
                        \/ m \in worker'.request.late
      BY <1>3, <1>5, Zenon DEF ScanCovers
    <2>1. m[1] \in worker.pids \/ m[2] \in worker.observed \/ m \in worker.request.late
      BY <1>0, <1>1, <1>5, Zenon DEF ScanCovers
    <2>2. m = <<m[1], m[2]>> /\ m[2] \in Files
      BY <1>0 DEF TypeOK, Mappings
    <2>3. m[1] = p => m[2] \in seen
      <3> SUFFICES ASSUME m[1] = p PROVE m[2] \in seen
        BY Zenon
      <3>1. <<p, m[2]>> \in maps
        BY <2>2, Zenon
      <3>2. seen = {f \in Files : <<p, f>> \in maps}
        BY <1>2, <1>5, Zenon
      <3> QED
        BY <2>2, <3>1, <3>2, Zenon
    <2> QED
      BY <1>5, <2>1, <2>3, Zenon
  <1>10. MissedOnce'
    <2>1. \A f \in DOMAIN attached : OriginMapped(f) => OriginMapped(f)'
      BY <1>3, Zenon DEF OriginMapped
    <2>2. \A f \in DOMAIN attached : AskedSees(f) => AskedSees(f)'
      BY <1>3, Zenon DEF AskedSees, Sees
    <2>3. \A f \in DOMAIN attached : ScanSees(f) => ScanSees(f)'
      BY <1>1, <1>3, <1>5, Zenon DEF ScanSees, Sees
    <2> QED
      BY <1>0, <1>1, <1>3, <2>1, <2>2, <2>3, Zenon DEF MissedOnce
  <1> QED
    BY <1>7, <1>8, <1>9, <1>10, Zenon DEF IInv

LEMMA StopInv ==
    ASSUME IInv, Stop
    PROVE  IInv'
  <1>0. TypeOK /\ KeysSeen /\ RoomInHand /\ CacheJustified /\ ProbesOwned /\ MissedOnce
    BY Zenon DEF IInv
  <1>1. /\ worker = Idle /\ worker' = Stopped /\ probes' = probes \ AttachedLinks
        /\ UNCHANGED <<world, hook, cache, ring, queue, reconcile, attached, reported>>
    BY Zenon DEF Stop, AttachedLinks
  <1>2. version' = version /\ maps' = maps /\ known' = known /\ attached' = attached
        /\ hook' = hook /\ ring' = ring /\ queue' = queue /\ reconcile' = reconcile
        /\ cache' = cache /\ reported' = reported
    BY <1>1, Zenon DEF world
  <1>3. worker.at = "idle" /\ worker'.at = "stopped" /\ worker # Stopped
    BY <1>1 DEF Idle, Stopped
  <1>4. InHand = {} /\ InHand' = {}
    BY <1>3, InHandIs, InHandNext
  <1>5. probes' = {}
    <2>1. HandLinks = {}
      BY <1>3, Zenon DEF HandLinks
    <2> QED
      BY <1>0, <1>1, <1>3, <2>1, Zenon DEF ProbesOwned
  <1>6. TypeOK'
    BY <1>0, <1>1, <1>2, <1>5, Zenon DEF TypeOK
  <1>7. KeysSeen' /\ RoomInHand'
    BY <1>0, <1>2, <1>4, StillSeen, StillRoom, Zenon
  <1>8. ProbesOwned'
    BY <1>1, <1>5, Zenon DEF ProbesOwned
  <1>9. SymbolsFound' /\ ScanCovers'
    BY <1>3, Zenon DEF SymbolsFound, ScanCovers
  <1>10. MissedOnce'
    BY <1>0, <1>2, <1>3, StillMissedOnce, Zenon
  <1>11. CacheJustified'
    <2>1. \A x : Pending(x) => Pending(x)'
      BY <1>2, <1>4, Zenon DEF Pending
    <2>2. cache \subseteq Keys
      BY <1>0, Zenon DEF TypeOK
    <2>3. \A x \in cache' : (x \in {} \/ x \in reported) => x \in reported'
      BY <1>2, Zenon
    <2> QED
      BY <1>0, <1>2, <2>1, <2>2, <2>3, StaysJustified, Zenon
  <1> QED
    BY <1>6, <1>7, <1>8, <1>9, <1>10, <1>11, Zenon DEF IInv

\* The count of a target for which it was attached, and that is still there,
\* was zero when a complete scan misses it.
LEMMA FirstMiss ==
    ASSUME IInv, worker.at = "scanning", worker.pids = {}, NEW f \in DOMAIN attached,
           Missed(f), attached[f].origin # {}
    PROVE  attached[f].missing = 0
  <1>0. ScanCovers /\ MissedOnce
    BY Zenon DEF IInv
  <1> SUFFICES ASSUME attached[f].missing # 0 PROVE FALSE
    BY Zenon
  <1>1. PICK m \in attached[f].origin : TRUE
    BY Zenon
  <1>2. m \in maps /\ m[2] = f
    BY <1>0, Zenon DEF MissedOnce, OriginMapped
  <1>3. CgroupOf[m[1]] \in worker.request.active /\ m \notin worker.request.late
    BY <1>0, Zenon DEF MissedOnce, ScanSees, Sees
  <1>4. worker.complete /\ f \notin worker.observed
    BY Zenon DEF Missed
  <1> QED
    BY <1>0, <1>2, <1>3, <1>4, Zenon DEF ScanCovers

LEMMA MissingIs ==
    ASSUME TypeOK, NEW f \in DOMAIN attached
    PROVE  /\ Missing(f) \in 0 .. MissingScanLimit
           /\ attached[f].missing = 0 => Missing(f) \in {0, 1} /\ Missing(f) # MissingScanLimit
           /\ ~Missed(f) /\ Missing(f) # 0 => Missing(f) = attached[f].missing
  <1>1. attached[f].missing \in 0 .. MissingScanLimit
    BY DEF TypeOK, Target
  <1>2. CASE f \in worker.observed
    <2>1. Missing(f) = 0
      BY <1>2, Zenon DEF Missing
    <2> QED
      BY <2>1, Sizes
  <1>3. CASE f \notin worker.observed /\ Missed(f) /\ attached[f].missing < MissingScanLimit
    <2>1. Missing(f) = attached[f].missing + 1
      BY <1>3, Zenon DEF Missing
    <2> QED
      BY <1>1, <1>3, <2>1, Sizes
  <1>4. CASE f \notin worker.observed /\ ~(Missed(f) /\ attached[f].missing < MissingScanLimit)
    <2>1. Missing(f) = attached[f].missing
      BY <1>4, Zenon DEF Missing
    <2> QED
      BY <1>1, <2>1, Sizes
  <1> QED
    BY <1>2, <1>3, <1>4, Zenon

\* The targets left by a scan are as they were, but for their counts.
LEMMA CloseTargetsIs ==
    ASSUME TypeOK, NEW fs \in SUBSET (DOMAIN attached),
           CloseTargets(fs), probes = AttachedLinks
    PROVE  /\ DOMAIN attached' = DOMAIN attached \ fs
           /\ \A f \in DOMAIN attached' :
                 /\ attached'[f] \in Target /\ attached'[f].key = attached[f].key
                 /\ attached'[f].origin = attached[f].origin
                 /\ attached'[f].missing = Missing(f)
           /\ probes' = AttachedLinks'
  <1>1. /\ probes' = probes \ UNION {{f} \X attached[f].links : f \in fs}
        /\ attached' = [f \in DOMAIN attached \ fs |->
                           [attached[f] EXCEPT !.missing = Missing(f)]]
    BY Zenon DEF CloseTargets
  <1>2. DOMAIN attached' = DOMAIN attached \ fs
        /\ \A f \in DOMAIN attached' : attached'[f] = [attached[f] EXCEPT !.missing = Missing(f)]
    BY <1>1, Zenon
  <1>3. \A t \in Target, n \in 0 .. MissingScanLimit :
           /\ [t EXCEPT !.missing = n] \in Target /\ [t EXCEPT !.missing = n].key = t.key
           /\ [t EXCEPT !.missing = n].links = t.links
           /\ [t EXCEPT !.missing = n].origin = t.origin
           /\ [t EXCEPT !.missing = n].missing = n
    BY DEF Target
  <1>4. \A f \in DOMAIN attached : attached[f] \in Target /\ Missing(f) \in 0 .. MissingScanLimit
    BY MissingIs, Zenon DEF TypeOK
  <1>5. \A f \in DOMAIN attached' :
           /\ attached'[f] \in Target /\ attached'[f].key = attached[f].key
           /\ attached'[f].links = attached[f].links
           /\ attached'[f].origin = attached[f].origin
           /\ attached'[f].missing = Missing(f)
    <2> SUFFICES ASSUME NEW f \in DOMAIN attached'
                 PROVE  /\ attached'[f] \in Target /\ attached'[f].key = attached[f].key
                        /\ attached'[f].links = attached[f].links
                        /\ attached'[f].origin = attached[f].origin
                        /\ attached'[f].missing = Missing(f)
      BY Zenon
    <2>1. PICK t \in Target : t = attached[f]
      BY <1>2, <1>4, Zenon
    <2>2. PICK n \in 0 .. MissingScanLimit : n = Missing(f)
      BY <1>2, <1>4, Zenon
    <2>3. attached'[f] = [t EXCEPT !.missing = n]
      BY <1>2, <2>1, <2>2, Zenon
    <2>4. /\ attached'[f] \in Target /\ attached'[f].key = t.key
          /\ attached'[f].links = t.links /\ attached'[f].origin = t.origin
          /\ attached'[f].missing = n
      <3> DEFINE w == [t EXCEPT !.missing = n]
      <3>1. w \in Target /\ w.key = t.key /\ w.links = t.links /\ w.origin = t.origin
            /\ w.missing = n
        BY <1>3, Zenon
      <3>2. attached'[f] = w
        BY <2>3, Zenon
      <3> HIDE DEF w
      <3> QED
        BY <3>1, <3>2, Zenon
    <2> QED
      BY <2>1, <2>2, <2>4, Zenon
  <1>7. probes' = AttachedLinks'
    <2> DEFINE L(f) == {f} \X attached[f].links
    <2>1. AttachedLinks = UNION {L(f) : f \in DOMAIN attached}
      BY Zenon DEF AttachedLinks
    <2>2. AttachedLinks' = UNION {L(f) : f \in DOMAIN attached \ fs}
      <3>1. AttachedLinks' = UNION {{f} \X attached'[f].links : f \in DOMAIN attached'}
        BY Zenon DEF AttachedLinks
      <3>2. {{f} \X attached'[f].links : f \in DOMAIN attached'}
              = {L(f) : f \in DOMAIN attached'}
        BY <1>5, Zenon
      <3> HIDE DEF L
      <3> QED
        BY <1>2, <3>1, <3>2, Zenon
    <2>3. probes' = AttachedLinks \ UNION {L(f) : f \in fs}
      BY <1>1, Zenon
    <2>4. \A f, x : x \in L(f) => x[1] = f
      OBVIOUS
    <2> HIDE DEF L
    <2>5. ASSUME NEW x \in AttachedLinks'
          PROVE  x \in probes'
      <3>1. PICK f \in DOMAIN attached \ fs : x \in L(f)
        BY <2>2, <2>5, Zenon
      <3>2. x \in AttachedLinks
        BY <2>1, <3>1, Zenon
      <3>3. x \notin UNION {L(g) : g \in fs}
        BY <2>4, <3>1, Zenon
      <3> QED
        BY <2>3, <3>2, <3>3, Zenon
    <2>6. ASSUME NEW x \in probes'
          PROVE  x \in AttachedLinks'
      <3>1. PICK f \in DOMAIN attached : x \in L(f)
        BY <2>1, <2>3, <2>6, Zenon
      <3>2. f \notin fs
        BY <2>3, <2>6, <3>1, Zenon
      <3> QED
        BY <2>2, <3>1, <3>2, Zenon
    <2> QED
      BY <2>5, <2>6, Zenon
  <1> QED
    BY <1>2, <1>5, <1>7, Zenon

\* A scan ends: the targets it reclaims lose their keys with their probes.
LEMMA FinishScanInv ==
    ASSUME IInv, FinishScan
    PROVE  IInv'
  <1>0. TypeOK /\ KeysSeen /\ RoomInHand /\ CacheJustified /\ ProbesOwned /\ MissedOnce
    BY Zenon DEF IInv
  <1>1. /\ worker.at = "scanning" /\ worker.pids = {} /\ worker' = Idle
        /\ UNCHANGED <<world, hook, ring, queue, reconcile>>
    BY Zenon DEF FinishScan
  <1>2. PICK gone : gone = Gone
    BY Zenon
  <1>3. PICK bad \in SUBSET gone :
           /\ DeleteEntries({attached[f].key : f \in gone}, {attached[f].key : f \in bad})
           /\ CloseTargets(gone \ bad)
    BY <1>2, Zenon DEF FinishScan
  <1>4. version' = version /\ maps' = maps /\ known' = known
        /\ hook' = hook /\ ring' = ring /\ queue' = queue /\ reconcile' = reconcile
    BY <1>1, Zenon DEF world
  <1>5. /\ worker'.at = "idle" /\ worker # Stopped /\ worker' # Stopped
        /\ worker' \in {Idle, Stopped} \cup Working
    BY <1>1 DEF Idle, Stopped
  <1>6. InHand = {} /\ InHand' = {} /\ HandLinks = {} /\ HandLinks' = {}
    BY <1>1, <1>5, InHandIs, InHandNext DEF HandLinks
  <1>7. probes = AttachedLinks
    BY <1>0, <1>5, <1>6, Zenon DEF ProbesOwned
  <1>8. gone \subseteq DOMAIN attached
    BY <1>2, Zenon DEF Gone
  <1>9. /\ DOMAIN attached' = DOMAIN attached \ (gone \ bad)
        /\ \A f \in DOMAIN attached' :
              /\ attached'[f] \in Target /\ attached'[f].key = attached[f].key
              /\ attached'[f].origin = attached[f].origin
              /\ attached'[f].missing = Missing(f)
        /\ probes' = AttachedLinks'
    <2>1. gone \ bad \in SUBSET (DOMAIN attached)
      BY <1>8, Zenon
    <2> QED
      BY <1>0, <1>3, <1>7, <2>1, CloseTargetsIs, Zenon
  <1>10. PICK ks : ks = {attached[f].key : f \in gone}
    BY Zenon
  <1>11. /\ cache' \subseteq cache /\ cache' \subseteq Keys /\ reported' \subseteq Keys
         /\ \A x \in cache' : (x \in ks \/ x \in reported) => x \in reported'
    <2>1. PICK bs : bs = {attached[f].key : f \in bad}
      BY Zenon
    <2>2. \A f \in DOMAIN attached : attached[f].key \in Keys
      BY <1>0 DEF TypeOK, Target
    <2>3. ks \in SUBSET Keys /\ bs \in SUBSET ks
      BY <1>8, <1>10, <2>1, <2>2, Zenon
    <2>4. DeleteEntries(ks, bs)
      BY <1>3, <1>10, <2>1, Zenon
    <2> QED
      BY <1>0, <2>3, <2>4, Deleted, Zenon
  <1>12. TypeOK'
    <2>1. DOMAIN attached' \subseteq Files
          /\ \A f \in DOMAIN attached' : attached'[f] \in Target /\ attached'[f].key[1] = f
      BY <1>0, <1>9, Zenon DEF TypeOK
    <2>2. probes' \subseteq probes
      BY <1>3, Zenon DEF CloseTargets
    <2>3. probes' \subseteq Files \X (SymbolSet \cup {GoFunction})
      BY <1>0, <2>2, Zenon DEF TypeOK
    <2> QED
      BY <1>0, <1>4, <1>5, <1>9, <1>11, <2>1, <2>3, Zenon DEF TypeOK
  <1>13. KeysSeen' /\ RoomInHand'
    BY <1>0, <1>4, <1>6, <1>9, <1>11, Zenon DEF KeysSeen, Seen, RoomInHand
  <1>14. SymbolsFound' /\ ScanCovers'
    BY <1>5, Zenon DEF SymbolsFound, ScanCovers
  <1>15. ProbesOwned'
    BY <1>5, <1>6, <1>9, Zenon DEF ProbesOwned
  <1>16. CacheJustified'
    <2>1. \A x : Pending(x) => Pending(x)'
      BY <1>4, <1>6, Zenon DEF Pending
    <2>2. cache \subseteq Keys
      BY <1>0, Zenon DEF TypeOK
    <2>3. \A f \in DOMAIN attached : attached[f].key \notin ks =>
             f \in DOMAIN attached' /\ attached'[f].key = attached[f].key
      BY <1>9, <1>10, Zenon
    <2> QED
      BY <1>0, <1>4, <1>11, <2>1, <2>2, <2>3, StaysJustified, Zenon
  <1>17. MissedOnce'
    <2>0. DOMAIN attached' \subseteq DOMAIN attached
      BY <1>9, Zenon
    <2>1. \A f \in DOMAIN attached' : OriginMapped(f)'
      BY <1>0, <1>4, <1>9, <2>0, Zenon DEF MissedOnce, OriginMapped
    <2>2. \A f \in DOMAIN attached' : AskedSees(f)'
      BY <1>0, <1>1, <1>4, <1>9, <2>0, Zenon DEF MissedOnce, AskedSees, Sees
    <2>3. \A f \in DOMAIN attached' : ScanSees(f)'
      BY <1>5 DEF ScanSees
    <2>4. ASSUME NEW f \in DOMAIN attached', attached'[f].origin # {}, attached'[f].missing # 0
          PROVE  attached'[f].missing = 1
      <3>1. f \in DOMAIN attached /\ attached[f].origin # {} /\ Missing(f) # 0
            /\ attached'[f].missing = Missing(f)
        BY <1>9, <2>0, <2>4, Zenon
      <3>2. CASE Missed(f)
        <4>1. attached[f].missing = 0
          BY <1>1, <3>1, <3>2, FirstMiss, Zenon
        <4> QED
          BY <1>0, <3>1, <4>1, MissingIs, Zenon
      <3>3. CASE ~Missed(f)
        <4>1. Missing(f) = attached[f].missing
          BY <1>0, <3>1, <3>3, MissingIs, Zenon
        <4> QED
          BY <1>0, <3>1, <4>1, Zenon DEF MissedOnce
      <3> QED
        BY <3>2, <3>3, Zenon
    <2> QED
      BY <2>1, <2>2, <2>3, <2>4, Zenon DEF MissedOnce
  <1> QED
    BY <1>12, <1>13, <1>14, <1>15, <1>16, <1>17, Zenon DEF IInv

-----------------------------------------------------------------------------
(* The theorems.                                                           *)

LEMMA InitInv ==
    ASSUME Init
    PROVE  IInv
  <1>1. /\ version = [f \in Files |-> 1] /\ maps = {} /\ known = {}
        /\ hook = [p \in Procs |-> Idle] /\ cache = {} /\ ring = <<>> /\ queue = <<>>
        /\ reconcile = <<>> /\ worker = Idle /\ attached = <<>> /\ probes = {} /\ reported = {}
    BY Zenon DEF Init
  <1>2. worker.at = "idle" /\ worker # Stopped
    BY <1>1 DEF Idle, Stopped
  <1>3. InHand = {}
    BY <1>2, InHandIs
  <1>4. /\ 1 .. Len(ring) = {} /\ 1 .. Len(queue) = {}
        /\ ring \in Seq(Candidate) /\ Len(ring) <= RingSize
        /\ queue \in Seq(Candidate) /\ Len(queue) <= QueueSize
        /\ reconcile \in Seq(Request) /\ Len(reconcile) <= 1
    BY <1>1, Sizes
  <1>5. DOMAIN attached = {}
    BY <1>1
  <1>8. 1 \in Versions
    BY Sizes DEF Versions
  <1>9. version \in [Files -> Versions]
    BY <1>1, <1>8, Zenon
  <1>10. Idle \in [at : {"idle"}]
    BY DEF Idle
  <1>11. hook \in [Procs -> [at : {"idle"}] \cup [at : {"claim"}, key : Keys]]
    BY <1>1, <1>10, Zenon
  <1>12. TypeOK
    BY <1>1, <1>4, <1>5, <1>9, <1>11, Zenon DEF TypeOK
  <1>13. KeysSeen
    <2>1. \A p \in Procs : hook[p].at # "claim"
      BY <1>1 DEF Idle
    <2> QED
      BY <1>1, <1>3, <1>4, <2>1, Zenon DEF KeysSeen
  <1>14. RoomInHand /\ SymbolsFound /\ ScanCovers /\ MissedOnce
    BY <1>2, <1>3, <1>5, Zenon DEF RoomInHand, SymbolsFound, ScanCovers, MissedOnce
  <1>15. CacheJustified
    BY <1>1, Zenon DEF CacheJustified
  <1>16. ProbesOwned
    <2>1. HandLinks = {}
      BY <1>2 DEF HandLinks
    <2>2. AttachedLinks = {}
      BY <1>5, Zenon DEF AttachedLinks
    <2> QED
      BY <1>1, <1>2, <2>1, <2>2, Zenon DEF ProbesOwned
  <1> QED
    BY <1>12, <1>13, <1>14, <1>15, <1>16, Zenon DEF IInv

LEMMA StutterInv ==
    ASSUME IInv, UNCHANGED vars
    PROVE  IInv'
  <1>1. UNCHANGED <<version, maps, known, hook, cache, ring, queue, reconcile, worker, attached,
                    probes, reported>>
    BY Zenon DEF vars
  <1>2. UNCHANGED <<world, reconcile, worker, attached, probes>>
    BY <1>1, Zenon DEF world
  <1>3. /\ SameHand /\ InHand' = InHand
        /\ RoomInHand' /\ SymbolsFound' /\ ProbesOwned' /\ ScanCovers' /\ MissedOnce'
    BY <1>2, WorkerApart, Zenon
  <1>4. TypeOK'
    BY <1>1, Zenon DEF IInv, TypeOK
  <1>5. KeysSeen' /\ CacheJustified'
    BY <1>1, <1>3, StillSeen, SameJustified, Zenon DEF IInv
  <1> QED
    BY <1>3, <1>4, <1>5, Zenon DEF IInv

LEMMA NextInv ==
    ASSUME IInv, [Next]_vars
    PROVE  IInv'
  <1>1. CASE World
    BY <1>1, RewriteInv, ExitInv, LearnInv, ForkInv, Zenon DEF World
  <1>2. CASE Hook
    BY <1>2, MmapInv, LoseClaimInv, NotifyInv, EvictInv, Zenon DEF Hook
  <1>3. CASE ReadCandidate \/ RequestReconciliation \/ Stop
    BY <1>3, ReadCandidateInv, RequestReconciliationInv, StopInv, Zenon
  <1>4. CASE Classify
    BY <1>4, AdoptKeyInv, RefuseCandidateInv, OpenCandidateInv, ClassifyNonTargetInv,
       ClassifyFailsInv, AttachGoInv, StartSymbolsInv, AttachSymbolInv, AttachFailsInv,
       FinishSymbolsInv, Zenon DEF Classify
  <1>5. CASE Reconcile
    BY <1>5, StartScanInv, ScanProcessInv, FinishScanInv, Zenon DEF Reconcile
  <1>6. CASE UNCHANGED vars
    BY <1>6, StutterInv, Zenon
  <1> QED
    BY <1>1, <1>2, <1>3, <1>4, <1>5, <1>6, Zenon DEF Next

\* Whatever is mapped, rewritten, forked, evicted, dropped or failing, and in
\* whatever order, the state of discovery and attachment satisfies IInv.
THEOREM Invariance == Spec => []IInv
  <1>1. Init => IInv
    BY InitInv, Zenon
  <1>2. IInv /\ [Next]_vars => IInv'
    BY NextInv, Zenon
  <1> QED
    BY <1>1, <1>2, PTL DEF Spec

\* No file is lost to discovery: a key that suppresses notifications belongs to
\* a candidate, to a target attached under it, to no target, or to a deletion
\* that failed and was reported.
THEOREM CachedKeysAreJustified == Spec => []CacheJustified
  <1>1. IInv => CacheJustified
    BY Zenon DEF IInv
  <1> QED
    BY <1>1, Invariance, PTL

\* The kernel holds exactly the probes the worker accounts for, on every error
\* path, and none after it stopped.
THEOREM ProbesAreOwned == Spec => []ProbesOwned
  <1>1. IInv => ProbesOwned
    BY Zenon DEF IInv
  <1> QED
    BY <1>1, Invariance, PTL

\* Targets leave at the end of a scan only.
LEMMA OnlyScansReclaim ==
    ASSUME IInv, [Next]_vars, ~FinishScan
    PROVE  DOMAIN attached \subseteq DOMAIN attached'
  <1>0. TypeOK
    BY Zenon DEF IInv
  <1>1. CASE World
    <2>1. CASE \E p \in Procs : Exit(p)
      BY <1>0, <2>1, ExitIs, Zenon
    <2> QED
      BY <1>1, <2>1, Zenon DEF World, Rewrite, Learn, Fork
  <1>2. CASE Hook
    BY <1>2, Zenon DEF Hook, Mmap, LoseClaim, Notify, Evict
  <1>3. CASE ReadCandidate \/ RequestReconciliation \/ Stop
    BY <1>3, Zenon DEF ReadCandidate, RequestReconciliation, Stop
  <1>4. CASE AdoptKey \/ RefuseCandidate \/ OpenCandidate
    BY <1>4, Zenon DEF AdoptKey, RefuseCandidate, OpenCandidate
  <1>5. CASE ClassifyNonTarget \/ ClassifyFails \/ StartSymbols \/ AttachSymbol \/ AttachFails
    BY <1>5, Zenon DEF ClassifyNonTarget, ClassifyFails, StartSymbols, AttachSymbol, AttachFails
  <1>6. CASE AttachGo \/ FinishSymbols
    <2>1. \A f, k, links : NewTarget(f, k, links) => DOMAIN attached \subseteq DOMAIN attached'
      BY Zenon DEF NewTarget
    <2> QED
      BY <1>6, <2>1, Zenon DEF AttachGo, FinishSymbols
  <1>7. CASE StartScan \/ \E p \in Procs : ScanProcess(p)
    BY <1>7, Zenon DEF StartScan, ScanProcess
  <1>8. CASE UNCHANGED vars
    BY <1>8, Zenon DEF vars
  <1> QED
    BY <1>1, <1>2, <1>3, <1>4, <1>5, <1>6, <1>7, <1>8, Zenon DEF Next, Classify, Reconcile

\* The targets that leave are those that a complete scan missed at the limit.
LEMMA ReclaimedIsGone ==
    ASSUME IInv, [Next]_vars, NEW f, Reclaimed(f)
    PROVE  /\ worker.at = "scanning" /\ worker.pids = {}
           /\ f \in DOMAIN attached /\ Missed(f) /\ Missing(f) = MissingScanLimit
  <1>1. FinishScan
    BY OnlyScansReclaim, Zenon DEF Reclaimed
  <1>2. PICK bad \in SUBSET Gone : CloseTargets(Gone \ bad)
    BY <1>1, Zenon DEF FinishScan
  <1>3. DOMAIN attached' = DOMAIN attached \ (Gone \ bad)
    BY <1>2, Zenon DEF CloseTargets
  <1>4. f \in DOMAIN attached /\ f \in Gone
    BY <1>3, Zenon DEF Reclaimed
  <1> QED
    BY <1>1, <1>4, Zenon DEF FinishScan, Gone

\* reconcileTargets reclaims nothing that a process of the cgroups it was asked
\* about mapped before it was asked: for any number of processes, and whatever
\* maps, forks and exits while the scan walks through them.
THEOREM OnlyUnmappedIsReclaimed == Spec => ReclaimOnlyUnmapped
  <1>1. ASSUME IInv, [Next]_vars, NEW f \in Files, Reclaimed(f), NEW m \in maps, m[2] = f,
               CgroupOf[m[1]] \in worker.request.active
        PROVE  m \in worker.request.late
    <2>1. worker.at = "scanning" /\ worker.pids = {} /\ Missed(f)
      BY <1>1, ReclaimedIsGone, Zenon
    <2>2. worker.complete /\ f \notin worker.observed
      BY <2>1, Zenon DEF Missed
    <2>3. ScanCovers
      BY <1>1, Zenon DEF IInv
    <2> QED
      BY <1>1, <2>1, <2>2, <2>3, Zenon DEF ScanCovers
  <1>2. IInv /\ [Next]_vars =>
           [\A f \in Files : Reclaimed(f) =>
               \A m \in maps : (m[2] = f /\ CgroupOf[m[1]] \in worker.request.active)
                                   => m \in worker.request.late]_vars
    BY <1>1, Zenon
  <1> QED
    BY <1>2, Invariance, PTL DEF Spec, ReclaimOnlyUnmapped

\* missingScanLimit, whatever its value above one, keeps a new target from the
\* scan that was asked for before it was attached.
THEOREM FreshAttachmentsAreKept == Spec => FreshAttachmentKept
  <1>1. ASSUME IInv, [Next]_vars, NEW f \in Files, Reclaimed(f)
        PROVE  attached[f].origin \cap maps = {}
    <2>1. /\ worker.at = "scanning" /\ worker.pids = {}
          /\ f \in DOMAIN attached /\ Missed(f) /\ Missing(f) = MissingScanLimit
      BY <1>1, ReclaimedIsGone, Zenon
    <2>2. CASE attached[f].origin # {}
      <3>1. attached[f].missing = 0
        BY <1>1, <2>1, <2>2, FirstMiss, Zenon
      <3> QED
        BY <1>1, <2>1, <3>1, MissingIs, Zenon DEF IInv
    <2> QED
      BY <2>2, Zenon
  <1>2. IInv /\ [Next]_vars =>
           [\A f \in Files : Reclaimed(f) => attached[f].origin \cap maps = {}]_vars
    BY <1>1, Zenon
  <1> QED
    BY <1>2, Invariance, PTL DEF Spec, FreshAttachmentKept

(***************************************************************************)
(* The cap on attached targets, for any cap and any files.  The worker     *)
(* checks the cap when it takes a candidate and adds the target several    *)
(* steps later, so the induction needs the room left while a candidate is  *)
(* in hand.                                                                *)
(***************************************************************************)
FS == INSTANCE FiniteSetTheorems

\* The instance counts as FiniteSets does.
LEMMA SameCount ==
    /\ \A T : FS!IsFiniteSet(T) <=> IsFiniteSet(T)
    /\ \A T : FS!Cardinality(T) = Cardinality(T)
  <1>1. \A T : FS!IsFiniteSet(T) <=> IsFiniteSet(T)
    BY Zenon DEF FS!IsFiniteSet, IsFiniteSet
  <1>2. \A T : FS!Cardinality(T) = Cardinality(T)
    BY Zenon DEF FS!Cardinality, Cardinality
  <1> QED
    BY <1>1, <1>2, Zenon

LEMMA CountNone == IsFiniteSet({}) /\ Cardinality({}) = 0
  BY SameCount, FS!FS_EmptySet, Zenon

LEMMA CountIsNat ==
    ASSUME NEW S, IsFiniteSet(S)
    PROVE  Cardinality(S) \in Nat
  BY SameCount, FS!FS_CardinalityType, Zenon

LEMMA CountAdded ==
    ASSUME NEW S, NEW x, IsFiniteSet(S)
    PROVE  /\ IsFiniteSet(S \cup {x})
           /\ Cardinality(S \cup {x}) = Cardinality(S)
                \/ Cardinality(S \cup {x}) = Cardinality(S) + 1
  <1>1. FS!IsFiniteSet(S)
    BY SameCount, Zenon
  <1>2. /\ FS!IsFiniteSet(S \cup {x})
        /\ FS!Cardinality(S \cup {x}) =
              IF x \in S THEN FS!Cardinality(S) ELSE FS!Cardinality(S) + 1
    BY <1>1, FS!FS_AddElement, Zenon
  <1> QED
    BY <1>2, SameCount, Zenon

LEMMA CountSubset ==
    ASSUME NEW S, IsFiniteSet(S), NEW T \in SUBSET S
    PROVE  IsFiniteSet(T) /\ Cardinality(T) <= Cardinality(S)
  <1>1. FS!IsFiniteSet(S)
    BY SameCount, Zenon
  <1>2. FS!IsFiniteSet(T) /\ FS!Cardinality(T) <= FS!Cardinality(S)
    BY <1>1, FS!FS_Subset, Zenon
  <1> QED
    BY <1>2, SameCount, Zenon

Busy == worker.at \in {"opened", "attaching"}

CapInv ==
    /\ IsFiniteSet(DOMAIN attached) /\ TargetsCapped
    /\ Busy => ~CapReached

\* The targets are the same and no candidate was taken.
Quiet == DOMAIN attached' = DOMAIN attached /\ (Busy' => Busy)

LEMMA QuietCap ==
    ASSUME CapInv, Quiet
    PROVE  CapInv'
  BY Zenon DEF CapInv, Quiet, TargetsCapped, CapReached

LEMMA FiniteCount ==
    ASSUME CapInv
    PROVE  Cardinality(DOMAIN attached) \in Nat /\ MaxTargets \in Nat
  BY CountIsNat, UprobeAssumption, SMTT(30) DEF CapInv

LEMMA WorldQuiet ==
    ASSUME IInv, World \/ Hook
    PROVE  Quiet
  <1>1. TypeOK
    BY Zenon DEF IInv
  <1>2. \A m \in Mappings : Late(m) => worker'.at = worker.at
    BY <1>1, LateIs, Zenon
  <1>3. CASE \E p \in Procs : Exit(p)
    BY <1>1, <1>3, ExitIs, Zenon DEF Quiet, Busy
  <1>4. CASE \E p, q \in Procs, f \in Files : Fork(p, q, f)
    BY <1>2, <1>4, Zenon DEF Fork, Quiet, Busy, Mappings
  <1>5. CASE \E p \in Procs, f \in Files : Mmap(p, f)
    BY <1>2, <1>5, Zenon DEF Mmap, Quiet, Busy, Mappings
  <1> QED
    BY <1>3, <1>4, <1>5, Zenon
       DEF World, Hook, Rewrite, Learn, LoseClaim, Notify, Evict, Quiet, Busy

\* Taking up a candidate is what the cap guards.
LEMMA OpenCap ==
    ASSUME CapInv, OpenCandidate
    PROVE  CapInv'
  BY Zenon DEF OpenCandidate, CapInv, TargetsCapped, CapReached

LEMMA ScanQuiet ==
    ASSUME IInv, StartScan \/ \E p \in Procs : ScanProcess(p)
    PROVE  Quiet
  <1>1. CASE StartScan
    <2>1. worker'.at = "scanning" /\ attached' = attached
      <3>1. \A r, ps, c : [at |-> "scanning", request |-> r, pids |-> ps, observed |-> {},
                           complete |-> c].at = "scanning"
        OBVIOUS
      <3> QED
        BY <1>1, <3>1, Zenon DEF StartScan
    <2> QED
      BY <2>1, Zenon DEF Quiet, Busy
  <1>2. CASE \E p \in Procs : ScanProcess(p)
    <2>1. worker.at = "scanning" /\ attached' = attached /\ DOMAIN worker' = DOMAIN worker
      BY <1>2, Zenon DEF ScanProcess
    <2>2. "at" \in DOMAIN worker
      <3>1. worker \in Working
        BY <2>1, SMTT(30) DEF IInv, TypeOK, Idle, Stopped
      <3> QED
        BY <3>1, SMTT(30) DEF Working
    <2>3. worker'.at = worker.at
      BY <1>2, <2>2, Zenon DEF ScanProcess
    <2> QED
      BY <2>1, <2>3, Zenon DEF Quiet, Busy
  <1> QED
    BY <1>1, <1>2, Zenon

\* What the worker does with its candidate, short of adding a target.
LEMMA HandQuiet ==
    ASSUME IInv, ClassifyNonTarget \/ ClassifyFails \/ StartSymbols \/ AttachSymbol \/ AttachFails
    PROVE  Quiet
  <1>1. Busy
    BY Zenon DEF Busy, ClassifyNonTarget, ClassifyFails, StartSymbols, AttachSymbol, AttachFails
  <1>2. attached' = attached
    BY Zenon DEF ClassifyNonTarget, ClassifyFails, StartSymbols, AttachSymbol, AttachFails
  <1> QED
    BY <1>1, <1>2, Zenon DEF Quiet

LEMMA TakeQuiet ==
    ASSUME IInv, AdoptKey \/ RefuseCandidate
    PROVE  Quiet
  <1>1. DOMAIN attached' = DOMAIN attached
    BY Zenon DEF AdoptKey, RefuseCandidate
  <1>2. worker'.at = "idle"
    <2>1. worker' = Idle
      BY Zenon DEF AdoptKey, RefuseCandidate, TakeCandidate, Release
    <2> QED
      BY <2>1, SMT DEF Idle
  <1> QED
    BY <1>1, <1>2, Zenon DEF Quiet, Busy

\* A new target uses the room that was left.
LEMMA AttachCap ==
    ASSUME IInv, CapInv, AttachGo \/ FinishSymbols
    PROVE  CapInv'
  <1>1. Busy /\ worker'.at = "idle"
    <2>1. Busy /\ worker' = Idle
      BY Zenon DEF AttachGo, FinishSymbols, Busy, Retain
    <2> QED
      BY <2>1, SMTT(30) DEF Idle
  <1>2. CASE attached' = attached
    BY <1>1, <1>2, QuietCap, Zenon DEF Quiet, Busy
  <1>3. CASE \E f : DOMAIN attached' = DOMAIN attached \cup {f}
    <2>1. PICK f : DOMAIN attached' = DOMAIN attached \cup {f}
      BY <1>3, Zenon
    <2>2. /\ IsFiniteSet(DOMAIN attached')
          /\ \/ Cardinality(DOMAIN attached') = Cardinality(DOMAIN attached)
             \/ Cardinality(DOMAIN attached') = Cardinality(DOMAIN attached) + 1
      BY <2>1, CountAdded, Zenon DEF CapInv
    <2>3. ~(Cardinality(DOMAIN attached) >= MaxTargets)
      BY <1>1, Zenon DEF CapInv, CapReached
    <2>4. Cardinality(DOMAIN attached') <= MaxTargets
      BY <2>2, <2>3, FiniteCount, SMTT(30)
    <2> QED
      BY <1>1, <2>2, <2>4, Zenon DEF CapInv, TargetsCapped, Busy
  <1>4. \A f, k, links : NewTarget(f, k, links) => DOMAIN attached' = DOMAIN attached \cup {f}
    BY Zenon DEF NewTarget
  <1> QED
    BY <1>2, <1>3, <1>4, Zenon DEF AttachGo, FinishSymbols

LEMMA FinishScanCap ==
    ASSUME IInv, CapInv, FinishScan
    PROVE  CapInv'
  <1>1. worker'.at = "idle"
    BY Zenon DEF FinishScan, Idle
  <1>2. DOMAIN attached' \subseteq DOMAIN attached
    BY Zenon DEF FinishScan, CloseTargets
  <1>3. /\ IsFiniteSet(DOMAIN attached')
        /\ Cardinality(DOMAIN attached') <= Cardinality(DOMAIN attached)
        /\ Cardinality(DOMAIN attached') \in Nat
    BY <1>2, CountSubset, CountIsNat, Zenon DEF CapInv
  <1>4. Cardinality(DOMAIN attached') <= MaxTargets
    <2>1. Cardinality(DOMAIN attached) <= MaxTargets
      BY Zenon DEF CapInv, TargetsCapped
    <2> QED
      BY <1>3, <2>1, FiniteCount, SMTT(30)
  <1> QED
    BY <1>1, <1>3, <1>4, Zenon DEF CapInv, TargetsCapped, Busy

LEMMA NextCap ==
    ASSUME IInv, CapInv, [Next]_vars
    PROVE  CapInv'
  <1>1. CASE ReadCandidate \/ RequestReconciliation \/ UNCHANGED vars
    BY <1>1, QuietCap, Zenon DEF ReadCandidate, RequestReconciliation, vars, Quiet, Busy
  <1>2. CASE Stop
    <2>1. attached' = attached /\ worker'.at = "stopped"
      BY <1>2, Zenon DEF Stop, Stopped
    <2> QED
      BY <2>1, QuietCap, Zenon DEF Quiet, Busy
  <1>3. CASE Classify
    BY <1>3, QuietCap, HandQuiet, TakeQuiet, OpenCap, AttachCap, Zenon DEF Classify
  <1>4. CASE Reconcile
    BY <1>4, QuietCap, ScanQuiet, FinishScanCap, Zenon DEF Reconcile
  <1> QED
    BY <1>1, <1>2, <1>3, <1>4, QuietCap, WorldQuiet, Zenon DEF Next

\* maxAttachedUprobeTargets is never exceeded, though the check and the
\* insertion are several steps apart.
THEOREM TargetsStayCapped == Spec => []TargetsCapped
  <1>1. Init => CapInv
    <2>1. SUFFICES ASSUME Init PROVE CapInv
      OBVIOUS
    <2>2. DOMAIN attached = {} /\ worker.at = "idle"
      <3>1. attached = <<>> /\ worker = Idle
        BY <2>1 DEF Init
      <3> QED
        BY <3>1, SMT DEF Idle
    <2>3. IsFiniteSet(DOMAIN attached) /\ Cardinality(DOMAIN attached) = 0
      BY <2>2, CountNone, Zenon
    <2>4. Cardinality(DOMAIN attached) <= MaxTargets
      BY <2>3, UprobeAssumption, SMTT(30)
    <2> QED
      BY <2>2, <2>3, <2>4, Zenon DEF CapInv, TargetsCapped, Busy
  <1>2. IInv /\ CapInv /\ [Next]_vars => CapInv'
    BY NextCap, Zenon
  <1>3. CapInv => TargetsCapped
    BY Zenon DEF CapInv
  <1> QED
    BY <1>1, <1>2, <1>3, Invariance, PTL DEF Spec
=============================================================================
