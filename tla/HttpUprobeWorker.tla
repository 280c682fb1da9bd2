-------------------------- MODULE HttpUprobeWorker --------------------------
(***************************************************************************)
(* Discovery and attachment of HTTP uprobes: the eBPF hook on uprobe_mmap, *)
(* the discovery cache it shares with userspace, the sample reader that    *)
(* queues attach candidates, and the worker that classifies mapped files,  *)
(* attaches probes and reclaims them (kernelio/http_uprobe_worker.go).     *)
(*                                                                         *)
(* A file is an inode.  A key names one version of it, as device, inode    *)
(* and ctime do; Kind says what the ELF of each version holds.  The        *)
(* process table is reduced to who maps what: a process that is gone maps  *)
(* nothing.                                                                *)
(***************************************************************************)
EXTENDS Naturals, Sequences, FiniteSets, Functions

CONSTANTS
    Files, Procs, Cgroups,
    CgroupOf,          \* CgroupOf[p]: the tracked cgroup of process p
    MaxVersion,        \* bound: versions of a file
    Kind,              \* Kind[<<f, v>>]: the content of version v of file f
    Symbols,           \* the selected symbols of symbolTargets, in order
    RingSize,          \* records the events ring buffer holds
    QueueSize,         \* attachCandidateQueueSize
    MaxTargets,        \* maxAttachedUprobeTargets
    MissingScanLimit   \* missingScanLimit

Versions == 1 .. MaxVersion
Keys == Files \X Versions
Kinds == {"symbol", "go", "plain", "unsupported", "opaque"}
Targets == {k \in Keys : Kind[k] \in {"symbol", "go"}}
GoFunction == "roundTrip"
SymbolSet == Range(Symbols)
Mappings == Procs \X Files

ASSUME UprobeAssumption ==
    /\ CgroupOf \in [Procs -> Cgroups]
    /\ Kind \in [Keys -> Kinds]
    /\ GoFunction \notin SymbolSet /\ Symbols \in Seq(SymbolSet) \ {<<>>}
    /\ {MaxVersion, RingSize, QueueSize, MaxTargets} \subseteq Nat \ {0}
    /\ MissingScanLimit \in Nat \ {0, 1}

VARIABLES
    version,    \* the current version of each file
    maps,       \* executable mappings <<p, f>> of tracked processes
    known,      \* active cgroups of the tracking mirror
    hook,       \* the run of handle_uprobe_mmap in each process
    cache,      \* http_uprobe_discovery_cache
    ring,       \* attach candidates in the ring buffer
    queue,      \* attachCandidates
    reconcile,  \* reconcileRequests, a channel of one
    worker,     \* what the worker goroutine is doing
    attached,   \* attachedTargets
    probes,     \* uprobes <<f, symbol>> the kernel holds
    reported    \* keys whose deletion failed, with a warning

vars == <<version, maps, known, hook, cache, ring, queue, reconcile, worker,
          attached, probes, reported>>
world == <<version, maps, known>>

CurKey(f) == <<f, version[f]>>
Candidate == [proc : Procs, key : Keys]
Request == [active : SUBSET Cgroups, late : SUBSET Mappings]

Idle == [at |-> "idle"]
Stopped == [at |-> "stopped"]
Working == [at : {"opened"}, cand : Candidate]
           \cup [at : {"attaching"}, cand : Candidate, todo : Seq(SymbolSet),
                 got : SUBSET SymbolSet]
           \cup [at : {"scanning"}, request : Request, pids : SUBSET Procs,
                 observed : SUBSET Files, complete : BOOLEAN]
Target == [key : Keys, links : SUBSET (SymbolSet \cup {GoFunction}),
           missing : 0 .. MissingScanLimit, origin : SUBSET Mappings]

\* The candidate the worker has in hand.
InHand == IF worker.at \in {"opened", "attaching"} THEN {worker.cand} ELSE {}

TypeOK ==
    /\ version \in [Files -> Versions] /\ maps \subseteq Mappings /\ known \subseteq Cgroups
    /\ hook \in [Procs -> [at : {"idle"}] \cup [at : {"claim"}, key : Keys]]
    /\ cache \subseteq Keys /\ reported \subseteq Keys
    /\ ring \in Seq(Candidate) /\ Len(ring) <= RingSize
    /\ queue \in Seq(Candidate) /\ Len(queue) <= QueueSize
    /\ reconcile \in Seq(Request) /\ Len(reconcile) <= 1
    /\ worker \in {Idle, Stopped} \cup Working
    /\ DOMAIN attached \subseteq Files
    /\ \A f \in DOMAIN attached : attached[f] \in Target /\ attached[f].key[1] = f
    /\ probes \subseteq Files \X (SymbolSet \cup {GoFunction})

Init ==
    /\ version = [f \in Files |-> 1]
    /\ maps = {} /\ known = {}
    /\ hook = [p \in Procs |-> Idle]
    /\ cache = {} /\ ring = <<>> /\ queue = <<>> /\ reconcile = <<>>
    /\ worker = Idle
    /\ attached = <<>> /\ probes = {} /\ reported = {}

-----------------------------------------------------------------------------
(* The world around discovery.                                             *)

\* A file is rewritten in place: same inode, new ctime, perhaps other content.
Rewrite(f) ==
    /\ version[f] < MaxVersion
    /\ version' = [version EXCEPT ![f] = @ + 1]
    /\ UNCHANGED <<maps, known, hook, cache, ring, queue, reconcile, worker,
                   attached, probes, reported>>

\* The scans asked for before mapping m began need not see it.
Late(m) ==
    LET Note(r) == IF CgroupOf[m[1]] \in r.active THEN [r EXCEPT !.late = @ \cup {m}] ELSE r
    IN /\ reconcile' = [i \in DOMAIN reconcile |-> Note(reconcile[i])]
       /\ worker' = IF worker.at = "scanning"
                    THEN [worker EXCEPT !.request = Note(@)] ELSE worker

\* fork copies the mappings of p; uprobe_mmap is not called for them.
Fork(p, q, f) ==
    /\ <<p, f>> \in maps /\ <<q, f>> \notin maps /\ CgroupOf[p] = CgroupOf[q]
    /\ hook[q] = Idle
    /\ maps' = maps \cup {<<q, f>>}
    /\ Late(<<q, f>>)
    /\ UNCHANGED <<version, known, hook, cache, ring, queue, attached, probes, reported>>

\* A process exits, and the model forgets what it knew of its mappings.
Exit(p) ==
    LET Of(ms) == {m \in ms : m[1] = p}
    IN /\ hook[p] = Idle /\ Of(maps) # {}
       /\ maps' = maps \ Of(maps)
       /\ reconcile' = [i \in DOMAIN reconcile |-> [reconcile[i] EXCEPT !.late = @ \ Of(@)]]
       /\ worker' = IF worker.at = "scanning"
                    THEN [worker EXCEPT !.request.late = @ \ Of(@)] ELSE worker
       /\ attached' = [f \in DOMAIN attached |-> [attached[f] EXCEPT !.origin = @ \ Of(@)]]
       /\ UNCHANGED <<version, known, hook, cache, ring, queue, probes, reported>>

\* The mirror learns of a cgroup that the kernel tracks already.
Learn(c) ==
    /\ c \notin known
    /\ known' = known \cup {c}
    /\ UNCHANGED <<version, maps, hook, cache, ring, queue, reconcile, worker,
                   attached, probes, reported>>

-----------------------------------------------------------------------------
(* The hook on uprobe_mmap, in the context of the mapping process.         *)

\* The mapping is complete when uprobe_mmap runs.  The hook reads the key and
\* returns when the cache holds it.
Mmap(p, f) ==
    /\ hook[p] = Idle
    /\ maps' = maps \cup {<<p, f>>}
    /\ hook' = [hook EXCEPT ![p] = IF CurKey(f) \in cache THEN Idle
                                   ELSE [at |-> "claim", key |-> CurKey(f)]]
    /\ IF <<p, f>> \in maps THEN UNCHANGED <<reconcile, worker>> ELSE Late(<<p, f>>)
    /\ UNCHANGED <<version, known, cache, ring, queue, attached, probes, reported>>

\* The BPF_NOEXIST update lets one of several concurrent hooks go on; it caches
\* the key and submits a sample.  The ring buffer may be full, of these samples
\* or of others: the key is then released.
Notify(p) ==
    /\ hook[p].at = "claim" /\ hook[p].key \notin cache
    /\ \/ /\ Len(ring) < RingSize
          /\ ring' = Append(ring, [proc |-> p, key |-> hook[p].key])
          /\ cache' = cache \cup {hook[p].key}
       \/ UNCHANGED <<ring, cache>>
    /\ hook' = [hook EXCEPT ![p] = Idle]
    /\ UNCHANGED <<world, queue, reconcile, worker, attached, probes, reported>>

\* Another hook was first with the key.
LoseClaim(p) ==
    /\ hook[p].at = "claim" /\ hook[p].key \in cache
    /\ hook' = [hook EXCEPT ![p] = Idle]
    /\ UNCHANGED <<world, cache, ring, queue, reconcile, worker, attached, probes, reported>>

\* The LRU map may drop any entry; so does a failing Put.
Evict(k) ==
    /\ k \in cache
    /\ cache' = cache \ {k} /\ reported' = reported \ {k}
    /\ UNCHANGED <<world, hook, ring, queue, reconcile, worker, attached, probes>>

-----------------------------------------------------------------------------
(* The sample reader and the engine's ticker, which feed the worker.       *)

\* deleteDiscoveryCacheEntry for the keys ks, of which those in bad fail.
DeleteEntries(ks, bad) ==
    /\ cache' = cache \ (ks \ bad)
    /\ reported' = (reported \ (ks \ bad)) \cup (bad \cap cache)

\* Mutant: a candidate dropped at a full queue keeps its key.
ReadCandidateKeepingKey ==
    /\ ring # <<>>
    /\ ring' = Tail(ring)
    /\ queue' = IF Len(queue) < QueueSize THEN Append(queue, Head(ring)) ELSE queue
    /\ UNCHANGED <<world, hook, cache, reconcile, worker, attached, probes, reported>>

\* A full queue drops the candidate and releases its key.
ReadCandidate ==
    /\ ring # <<>>
    /\ ring' = Tail(ring)
    /\ \/ /\ Len(queue) < QueueSize
          /\ queue' = Append(queue, Head(ring))
          /\ UNCHANGED <<cache, reported>>
       \/ /\ Len(queue) >= QueueSize
          /\ \E bad \in SUBSET {Head(ring).key} : DeleteEntries({Head(ring).key}, bad)
          /\ UNCHANGED queue
    /\ UNCHANGED <<world, hook, reconcile, worker, attached, probes>>

\* A pending request is enough: a second one is dropped.
RequestReconciliation ==
    /\ reconcile = <<>>
    /\ reconcile' = <<[active |-> known, late |-> {}]>>
    /\ UNCHANGED <<world, hook, cache, ring, queue, worker, attached, probes, reported>>

-----------------------------------------------------------------------------
(* The worker: classifyAndAttach.                                          *)

\* The worker is done with a candidate whose key does not stay cached.
Release(key) ==
    /\ worker' = Idle
    /\ \E bad \in SUBSET {key} : DeleteEntries({key}, bad)

\* The worker is done with a candidate whose key stays, by cacheDiscoveryFile.
Retain(key) ==
    /\ worker' = Idle
    /\ cache' = cache \cup {key}
    /\ UNCHANGED reported

TakeCandidate ==
    /\ worker = Idle /\ queue # <<>>
    /\ queue' = Tail(queue)

\* The inode is attached already: only its key is replaced.
AdoptKey ==
    /\ TakeCandidate
    /\ LET key == Head(queue).key
           f == key[1]
           old == {attached[f].key} \ {key}
       IN /\ f \in DOMAIN attached
          /\ \E bad \in SUBSET old :
                /\ cache' = (cache \ (old \ bad)) \cup {key}
                /\ reported' = (reported \ (old \ bad)) \cup (bad \cap cache)
          /\ attached' = [attached EXCEPT ![f].key = key]
    /\ UNCHANGED <<world, hook, ring, reconcile, worker, probes>>

CapReached == Cardinality(DOMAIN attached) >= MaxTargets

\* The cap is reached, the mapping is gone, or the file cannot be opened or is
\* another version than the candidate's.
RefuseCandidate ==
    /\ TakeCandidate
    /\ Head(queue).key[1] \notin DOMAIN attached
    /\ Release(Head(queue).key)
    /\ UNCHANGED <<world, hook, ring, reconcile, attached, probes>>

\* openMappedFile finds the mapping and fstat confirms the version.
OpenCandidate ==
    /\ TakeCandidate
    /\ LET c == Head(queue)
       IN /\ c.key[1] \notin DOMAIN attached
          /\ ~CapReached
          /\ <<c.proc, c.key[1]>> \in maps
          /\ c.key = CurKey(c.key[1])
          /\ worker' = [at |-> "opened", cand |-> c]
    /\ UNCHANGED <<world, hook, cache, ring, reconcile, attached, probes, reported>>

\* The file as the worker reads it, which may have been rewritten since fstat.
KindRead == Kind[CurKey(worker.cand.key[1])]

NewTarget(f, key, links) ==
    attached' = [g \in DOMAIN attached \cup {f} |->
                   IF g = f THEN [key |-> key, links |-> links, missing |-> 0,
                                  origin |-> {m \in maps : m[2] = f /\ CgroupOf[m[1]] \in known}]
                            ELSE attached[g]]

\* No selected symbol and no Go function, or a pclntab that is not supported.
ClassifyNonTarget ==
    /\ worker.at = "opened" /\ KindRead \in {"plain", "unsupported"}
    /\ Retain(worker.cand.key)
    /\ UNCHANGED <<world, hook, ring, queue, reconcile, attached, probes>>

\* Reading failed, the ELF is inconclusive, or attaching the Go probe failed.
ClassifyFails ==
    /\ worker.at = "opened"
    /\ Release(worker.cand.key)
    /\ UNCHANGED <<world, hook, ring, queue, reconcile, attached, probes>>

AttachGo ==
    /\ worker.at = "opened" /\ KindRead = "go"
    /\ LET f == worker.cand.key[1]
       IN /\ probes' = probes \cup {<<f, GoFunction>>}
          /\ NewTarget(f, worker.cand.key, {GoFunction})
    /\ Retain(worker.cand.key)
    /\ UNCHANGED <<world, hook, ring, queue, reconcile>>

StartSymbols ==
    /\ worker.at = "opened" /\ KindRead = "symbol"
    /\ worker' = [at |-> "attaching", cand |-> worker.cand, todo |-> Symbols, got |-> {}]
    /\ UNCHANGED <<world, hook, cache, ring, queue, reconcile, attached, probes, reported>>

\* One symbol of attachSymbolTargets: attached, or absent (ErrNoSymbol) from a
\* file that was rewritten since it was classified.
AttachSymbol ==
    /\ worker.at = "attaching" /\ worker.todo # <<>>
    /\ \/ /\ KindRead = "symbol"
          /\ worker' = [worker EXCEPT !.todo = Tail(@), !.got = @ \cup {Head(worker.todo)}]
          /\ probes' = probes \cup {<<worker.cand.key[1], Head(worker.todo)>>}
       \/ /\ KindRead # "symbol"
          /\ worker' = [worker EXCEPT !.todo = Tail(@)]
          /\ UNCHANGED probes
    /\ UNCHANGED <<world, hook, cache, ring, queue, reconcile, attached, reported>>

\* Mutant: a failure leaves the probes attached so far.
AttachFailsLeaking ==
    /\ worker.at = "attaching" /\ worker.todo # <<>>
    /\ Release(worker.cand.key)
    /\ UNCHANGED <<world, hook, ring, queue, reconcile, attached, probes>>

\* Another attach error undoes the partial attachment.
AttachFails ==
    /\ worker.at = "attaching" /\ worker.todo # <<>>
    /\ probes' = probes \ ({worker.cand.key[1]} \X worker.got)
    /\ Release(worker.cand.key)
    /\ UNCHANGED <<world, hook, ring, queue, reconcile, attached>>

FinishSymbols ==
    /\ worker.at = "attaching" /\ worker.todo = <<>>
    /\ IF worker.got # {} THEN NewTarget(worker.cand.key[1], worker.cand.key, worker.got)
                          ELSE UNCHANGED attached
    /\ Retain(worker.cand.key)
    /\ UNCHANGED <<world, hook, ring, queue, reconcile, probes>>

-----------------------------------------------------------------------------
(* The worker: reconcileTargets, and the end of run.                       *)

\* resolveActiveCgroupPaths and collectCgroupPIDs; an error makes the scan
\* incomplete and may hide processes.
StartScan ==
    /\ worker = Idle /\ reconcile # <<>>
    /\ reconcile' = <<>>
    /\ \E pids \in SUBSET {p \in Procs : CgroupOf[p] \in Head(reconcile).active},
          complete \in BOOLEAN :
          /\ complete => pids = {p \in Procs : CgroupOf[p] \in Head(reconcile).active}
          /\ worker' = [at |-> "scanning", request |-> Head(reconcile), pids |-> pids,
                        observed |-> {}, complete |-> complete]
    /\ UNCHANGED <<world, hook, cache, ring, queue, attached, probes, reported>>

\* scanProcessMappings of one process; an error may hide mappings.
ScanProcess(p) ==
    /\ worker.at = "scanning" /\ p \in worker.pids
    /\ \E seen \in SUBSET {f \in Files : <<p, f>> \in maps}, ok \in BOOLEAN :
          /\ ok => seen = {f \in Files : <<p, f>> \in maps}
          /\ worker' = [worker EXCEPT !.pids = @ \ {p}, !.observed = @ \cup seen,
                                      !.complete = @ /\ ok]
    /\ UNCHANGED <<world, hook, cache, ring, queue, reconcile, attached, probes, reported>>

\* Mutant: an incomplete scan counts.
MissedBlindly(f) == f \notin worker.observed

\* Only a complete scan proves that nothing maps a target.
Missed(f) == f \notin worker.observed /\ worker.complete

\* missingScanCount after the scan, which this model stops counting at the limit.
Missing(f) ==
    IF f \in worker.observed THEN 0
    ELSE IF Missed(f) /\ attached[f].missing < MissingScanLimit THEN attached[f].missing + 1
    ELSE attached[f].missing

\* Mutant: the first complete miss reclaims.
GoneAtFirstMiss == {f \in DOMAIN attached : Missed(f)}

\* The targets this scan reclaims.
Gone == {f \in DOMAIN attached : Missed(f) /\ Missing(f) = MissingScanLimit}

CloseTargets(fs) ==
    /\ probes' = probes \ UNION {{f} \X attached[f].links : f \in fs}
    /\ attached' = [f \in DOMAIN attached \ fs |-> [attached[f] EXCEPT !.missing = Missing(f)]]

\* The key is deleted first; where that fails, the target stays.
FinishScan ==
    /\ worker.at = "scanning" /\ worker.pids = {}
    /\ \E bad \in SUBSET Gone :
          /\ DeleteEntries({attached[f].key : f \in Gone}, {attached[f].key : f \in bad})
          /\ CloseTargets(Gone \ bad)
    /\ worker' = Idle
    /\ UNCHANGED <<world, hook, ring, queue, reconcile>>

\* ctx is done: closeAll.
Stop ==
    /\ worker = Idle
    /\ probes' = probes \ UNION {{f} \X attached[f].links : f \in DOMAIN attached}
    /\ worker' = Stopped
    /\ UNCHANGED <<world, hook, cache, ring, queue, reconcile, attached, reported>>

-----------------------------------------------------------------------------
World ==
    \/ \E f \in Files : Rewrite(f)
    \/ \E p \in Procs : Exit(p)
    \/ \E c \in Cgroups : Learn(c)
    \/ \E p, q \in Procs, f \in Files : Fork(p, q, f)

Hook ==
    \/ \E p \in Procs, f \in Files : Mmap(p, f)
    \/ \E p \in Procs : LoseClaim(p) \/ Notify(p)
    \/ \E k \in Keys : Evict(k)

Classify ==
    \/ AdoptKey \/ RefuseCandidate \/ OpenCandidate
    \/ ClassifyNonTarget \/ ClassifyFails \/ AttachGo \/ StartSymbols
    \/ AttachSymbol
    \/ AttachFails \/ FinishSymbols

Reconcile ==
    \/ StartScan
    \/ \E p \in Procs : ScanProcess(p)
    \/ FinishScan

\* The model ends with the worker.
Next ==
    /\ worker # Stopped
    /\ \/ World \/ Hook \/ ReadCandidate \/ RequestReconciliation
       \/ Classify \/ Reconcile \/ Stop

Spec == Init /\ [][Next]_vars

-----------------------------------------------------------------------------
Pending(k) ==
    \/ \E i \in DOMAIN ring : ring[i].key = k
    \/ \E i \in DOMAIN queue : queue[i].key = k
    \/ \E c \in InHand : c.key = k

\* A cached key suppresses every later notification of its file, so it is only
\* there for a file that is pending, attached under that key, or no target:
\* whatever is dropped, refused, failed or reclaimed can be found again.  The
\* exception is a deletion that failed, which the code reports.
CacheJustified ==
    \A f \in Files :
        CurKey(f) \in cache =>
            \/ Pending(CurKey(f))
            \/ f \in DOMAIN attached /\ attached[f].key = CurKey(f)
            \/ CurKey(f) \notin Targets
            \/ CurKey(f) \in reported

\* The probes of the attached targets, and those of an attachment in progress.
AttachedLinks == UNION {{f} \X attached[f].links : f \in DOMAIN attached}
HandLinks == IF worker.at = "attaching" THEN {worker.cand.key[1]} \X worker.got ELSE {}

\* The kernel holds exactly the probes of the attached targets and those of an
\* attachment in progress, and none once run has returned: no error path and no
\* reclaim leaks a link or closes one twice.
ProbesOwned ==
    probes = IF worker = Stopped THEN {} ELSE AttachedLinks \cup HandLinks

\* The cap is checked before a file is opened and the target attached later, yet
\* the worker never holds more than maxAttachedUprobeTargets.
TargetsCapped == Cardinality(DOMAIN attached) <= MaxTargets

Reclaimed(f) == f \in DOMAIN attached /\ f \notin DOMAIN attached'

\* reconcileTargets closes a target only when every process that still maps it
\* began to do so after the scan was asked for, or runs in a cgroup the mirror
\* did not know then: an incomplete scan proves nothing.
ReclaimOnlyUnmapped ==
    [][\A f \in Files : Reclaimed(f) =>
          \A m \in maps : (m[2] = f /\ CgroupOf[m[1]] \in worker.request.active)
                              => m \in worker.request.late]_vars

\* A target is not closed while a mapping for which it was attached is still
\* there: a scan asked for before the attachment may miss it, the second miss
\* that missingScanLimit requires cannot.
FreshAttachmentKept ==
    [][\A f \in Files : Reclaimed(f) => attached[f].origin \cap maps = {}]_vars
=============================================================================
