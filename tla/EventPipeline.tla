--------------------------- MODULE EventPipeline ---------------------------
(***************************************************************************)
(* The path of one Job's events, from the kernel to its scopes: the ring   *)
(* buffer, the tracker loop that gives each sample its process context,    *)
(* drops repeated file_open records and hands the rest to the Job's        *)
(* bounded channel, and the Job's worker that evaluates them.  Scopes may  *)
(* join, and the Job may end, while events are under way.                  *)
(*                                                                         *)
(* A process is its identity (PID and start time).                         *)
(***************************************************************************)
EXTENDS ScopeEvaluation, FileOpenDedup

CONSTANTS
    Old,           \* processes that run when tracking starts
    Young,         \* processes that are forked later
    Images,        \* executables
    FirstImage,    \* what the old processes run at first
    Files,
    Truncated,     \* files whose path does not fit a sample
    Domains,
    Ignored,       \* queries that do not parse or name a local host
    StartScopes,   \* the scopes a Job may start with
    Acts,          \* what the processes do: triples process, event type, object
    RingSize,
    QueueSize,     \* capacity of the Job's channel
    MaxSamples     \* bound on the kernel's steps

Procs == Old \cup Young

ASSUME PipelineAssumption ==
    /\ Old \cap Young = {}
    /\ NoImage \notin Images
    /\ FirstImage \in Images
    /\ Truncated \subseteq Files
    /\ Ignored \subseteq Domains
    /\ StartScopes \subseteq Scopes
    /\ Acts \subseteq (Procs \X {"file_open"} \X Files) \cup (Procs \X {"domain"} \X Domains)
    /\ {RingSize, QueueSize, MaxSamples, MaxAncestorDepth} \subseteq Nat

VARIABLES
    \* the kernel
    alive, image,     \* processes, and what each of them runs
    traced,           \* history: processes whose image the samples tell
    budget, ring,
    \* the tracker
    nodes, dedup, stats, channel,
    \* the Job
    state,            \* "running", "closing", "removed" (from the tracker)
    attached,         \* scopes in the worker's evaluation bundle
    scopes,
    \* history
    evaluated,        \* pairs of a file_open key and a scope that evaluated it
    observed          \* triples scope, domain, process

kernelVars == <<alive, image, traced, budget, ring>>
trackerVars == <<nodes, dedup, stats, channel>>
jobVars == <<state, attached, scopes>>
history == <<evaluated, observed>>
vars == <<kernelVars, trackerVars, jobVars, history>>

NoStats == [attempted |-> 0, delivered |-> 0, dropped |-> 0, suppressed |-> 0]

\* A scope is set before the Job's first cgroup is bound, so the bundle is
\* never empty when events arrive; a project-only Job has no host scope.
Init ==
    /\ alive = Old
    /\ image = [p \in Procs |-> IF p \in Old THEN FirstImage ELSE NoImage]
    /\ traced = {}
    /\ budget = MaxSamples /\ ring = <<>>
    /\ nodes = [p \in {} |-> UnknownProcess]
    /\ dedup = newFileOpenDedupState
    /\ stats = NoStats
    /\ channel = <<>>
    /\ state = "running"
    /\ attached \in {{s} : s \in StartScopes}
    /\ scopes = [s \in Scopes |-> NewState]
    /\ evaluated = {} /\ observed = {}

-----------------------------------------------------------------------------
(* The kernel.  `truth` and `exact` are history: the image of the process   *)
(* when the sample was taken, and whether the samples before it tell it.    *)

submit(sample) == ring' = IF Len(ring) < RingSize THEN Append(ring, sample) ELSE ring

\* Bounds: samples that the tracker ignores because the Job is gone are left
\* out, and so is an exec of the image that runs already.
Spend(p) ==
    /\ p \in alive /\ state # "removed"
    /\ budget > 0 /\ budget' = budget - 1

Sample(type, p, object, now, told) ==
    [type |-> type, proc |-> p, object |-> object, truth |-> now, exact |-> told]

Fork(p, c) ==
    /\ Spend(p)
    /\ c \in Young /\ image[c] = NoImage
    /\ alive' = alive \cup {c}
    /\ image' = [image EXCEPT ![c] = image[p]]
    /\ submit(Sample("fork", c, p, image[p], p \in traced))
    /\ traced' = IF p \in traced /\ Len(ring) < RingSize THEN traced \cup {c} ELSE traced
    /\ UNCHANGED <<trackerVars, jobVars, history>>

Exec(p, i) ==
    /\ Spend(p)
    /\ i # image[p]
    /\ image' = [image EXCEPT ![p] = i]
    /\ submit(Sample("process_exec", p, i, i, TRUE))
    /\ traced' = IF Len(ring) < RingSize THEN traced \cup {p} ELSE traced \ {p}
    /\ UNCHANGED <<alive, trackerVars, jobVars, history>>

Act(p, type, object) ==
    /\ Spend(p)
    /\ submit(Sample(type, p, object, image[p], p \in traced))
    /\ UNCHANGED <<alive, image, traced, trackerVars, jobVars, history>>

\* No program reports it.
Exit(p) ==
    /\ Spend(p)
    /\ alive' = alive \ {p}
    /\ UNCHANGED <<image, traced, ring, trackerVars, jobVars, history>>

-----------------------------------------------------------------------------
(* The tracker loop.                                                        *)

\* fileOpenDedupKeyForRecord; a truncated path gives no key.
hasKey(ev) == ev.type = "file_open" /\ ev.object \notin Truncated
keyOf(ev) == <<ev.proc, ev.process.image, ev.object>>

\* Mutant: the key is remembered although the channel was full.
EmitRememberingDropped(ev) ==
    LET seen == hasKey(ev) /\ contains(dedup, keyOf(ev))
        fits == Len(channel) < QueueSize
    IN  /\ stats' = [stats EXCEPT !.attempted = @ + 1,
                                  !.suppressed = IF seen THEN @ + 1 ELSE @,
                                  !.delivered = IF ~seen /\ fits THEN @ + 1 ELSE @,
                                  !.dropped = IF ~seen /\ ~fits THEN @ + 1 ELSE @]
        /\ channel' = IF ~seen /\ fits THEN Append(channel, ev) ELSE channel
        /\ dedup' = IF ~seen /\ hasKey(ev) THEN remember(dedup, keyOf(ev)) ELSE dedup

emitEventRecord(ev) ==
    LET seen == hasKey(ev) /\ contains(dedup, keyOf(ev))
        fits == Len(channel) < QueueSize
    IN  /\ stats' = [stats EXCEPT !.attempted = @ + 1,
                                  !.suppressed = IF seen THEN @ + 1 ELSE @,
                                  !.delivered = IF ~seen /\ fits THEN @ + 1 ELSE @,
                                  !.dropped = IF ~seen /\ ~fits THEN @ + 1 ELSE @]
        /\ channel' = IF ~seen /\ fits THEN Append(channel, ev) ELSE channel
        /\ dedup' = IF ~seen /\ fits /\ hasKey(ev)
                    THEN remember(dedup, keyOf(ev)) ELSE dedup

record(sample, process) ==
    [type |-> sample.type, proc |-> sample.proc, object |-> sample.object,
     process |-> process, truth |-> sample.truth, exact |-> sample.exact]

handleForkSample(sample) ==
    /\ sample.type = "fork"
    /\ nodes' = recordFork(nodes, sample.proc, sample.object)
    /\ UNCHANGED <<dedup, stats, channel>>

handleExecSample(sample) ==
    /\ sample.type = "process_exec"
    /\ nodes' = recordExec(nodes, sample.proc, sample.object)
    /\ emitEventRecord(record(sample, lookupProcessSummary(nodes', sample.proc)))

\* The record of any other sample carries the process as it is looked up.
emitWithContext(sample) ==
    /\ nodes' = backfill(nodes, sample.proc,
                         IF sample.proc \in alive THEN image[sample.proc] ELSE NoImage)
    /\ emitEventRecord(record(sample, lookupProcessSummary(nodes', sample.proc)))

handleFileOpenSample(sample) ==
    /\ sample.type = "file_open"
    /\ emitWithContext(sample)

handleDNSSample(sample) ==
    /\ sample.type = "domain"
    /\ IF sample.object \in Ignored THEN UNCHANGED trackerVars ELSE emitWithContext(sample)

handleEngineInput ==
    /\ ring # <<>>
    /\ ring' = Tail(ring)
    /\ \/ /\ state # "removed"
          /\ \/ handleForkSample(Head(ring))
             \/ handleExecSample(Head(ring))
             \/ handleFileOpenSample(Head(ring))
             \/ handleDNSSample(Head(ring))
       \/ state = "removed" /\ UNCHANGED trackerVars      \* jobForCgroup finds no Job
    /\ UNCHANGED <<alive, image, traced, budget, jobVars, history>>

\* Job.MarkClosing.
MarkClosing ==
    /\ state = "running"
    /\ state' = "closing"
    /\ UNCHANGED <<kernelVars, trackerVars, attached, scopes, history>>

\* RemoveJob: the channel is closed; what it holds is still read.
removeJob ==
    /\ state = "closing"
    /\ state' = "removed"
    /\ nodes' = [p \in {} |-> UnknownProcess]
    /\ dedup' = newFileOpenDedupState
    /\ UNCHANGED <<kernelVars, stats, channel, attached, scopes, history>>

-----------------------------------------------------------------------------
(* The Job.                                                                 *)

SetProjectScope ==
    /\ state = "running"
    /\ "project" \notin attached
    /\ attached' = attached \cup {"project"}
    /\ UNCHANGED <<kernelVars, trackerVars, state, scopes, history>>

\* The scopes after EvaluateEvent, with the rules each entry feeds: event
\* rules first, then correlations if any rule hit, then the observations.
fedTo(s, entries) == {e.rule : e \in {x \in entries : s \in x.feed}}

EvaluateEvent(ev) ==
    LET hit == matching(mergeEvaluationRules(attached), ev)
        first == [s \in Scopes |-> hitAll(scopes[s], fedTo(s, hit))]
        correlations == compileAndMergeEvaluationCorrelations(attached)
        fired == [s \in Scopes |->
                    IF hit = {} THEN {}
                    ELSE {c \in fedTo(s, correlations) : firing(first[s], c)}]
        terminates == {e.rule : e \in hit} \cup fired["host"] \cup fired["project"]
    IN  /\ scopes' = [s \in Scopes |->
                        IF s \in attached THEN RecordEvent(hitAll(first[s], fired[s]), ev)
                        ELSE scopes[s]]
        /\ alive' = IF \E r \in terminates : r.action = "terminate"
                    THEN alive \ {ev.proc} ELSE alive

\* Mutant: the events still queued when the Job ends are not evaluated.
StopAtClose ==
    /\ channel # <<>>
    /\ channel' = Tail(channel)
    /\ \/ state # "removed" /\ EvaluateEvent(Head(channel))
       \/ state = "removed" /\ UNCHANGED <<scopes, alive>>
    /\ UNCHANGED <<image, traced, budget, ring, nodes, dedup, stats, state, attached, history>>

processEvent ==
    /\ channel # <<>>
    /\ channel' = Tail(channel)
    /\ EvaluateEvent(Head(channel))
    /\ LET ev == Head(channel)
       IN  /\ evaluated' = IF hasKey(ev)
                           THEN evaluated \cup {<<keyOf(ev), s>> : s \in attached} ELSE evaluated
           /\ observed' = IF ev.type = "domain"
                          THEN observed \cup {<<s, ev.object, ev.proc>> : s \in attached}
                          ELSE observed
    /\ UNCHANGED <<image, traced, budget, ring, nodes, dedup, stats, state, attached>>

-----------------------------------------------------------------------------

Kernel ==
    \E p \in Procs :
        \/ \E c \in Young : Fork(p, c)
        \/ \E i \in Images : Exec(p, i)
        \/ \E a \in Acts : a[1] = p /\ Act(p, a[2], a[3])
        \/ Exit(p)

Next ==
    \/ Kernel
    \/ handleEngineInput
    \/ MarkClosing
    \/ removeJob
    \/ SetProjectScope
    \/ processEvent

Spec == Init /\ [][Next]_vars

-----------------------------------------------------------------------------
(* Properties.                                                              *)

Counts == 0 .. MaxSamples
ProcessSummary == [image : Images \cup {NoImage}, ancestors : Seq(Images \cup {NoImage})]
Key == Procs \X (Images \cup {NoImage}) \X Files

\* Types; no queue exceeds its capacity.
TypeOK ==
    /\ alive \subseteq Procs /\ traced \subseteq Procs
    /\ image \in [Procs -> Images \cup {NoImage}]
    /\ budget \in Counts
    /\ Len(ring) <= RingSize /\ Len(channel) <= QueueSize
    /\ DOMAIN nodes \subseteq Procs
    /\ \A p \in DOMAIN nodes : nodes[p] \in ProcessSummary
    /\ dedup.seen \subseteq Key
    /\ stats \in [attempted : Counts, delivered : Counts, dropped : Counts, suppressed : Counts]
    /\ state \in {"running", "closing", "removed"}
    /\ attached \subseteq Scopes
    /\ \A s \in Scopes : scopes[s].total \in Counts

\* The deduplication state stays bounded and consistent: the map answers
\* exactly for the keys in the ring, each of which is there once.
DedupConsistent == RingConsistent(dedup)

\* Keys leave in the order they came: the ring is a queue of the last
\* DedupLimit delivered keys, never a cache that a hot key can stay in.
DedupFIFO ==
    [][dedup' # dedup /\ state' # "removed" =>
        \E k \in Key : Ages(dedup') = Oldest(Ages(dedup), k)]_vars

\* engine_effect.go: "Remember only delivered records": a file_open that would
\* be suppressed now has had its like evaluated, or it waits in the channel.
SuppressibleWasDelivered ==
    \A k \in dedup.seen :
        \/ \E i \in 1 .. Len(channel) : hasKey(channel[i]) /\ keyOf(channel[i]) = k
        \/ \E s \in Scopes : <<k, s>> \in evaluated

\* The same for each scope that evaluates events now ("every suppressible key
\* has one visible EventRecord for rule evaluation").  It fails: a project
\* scope that joins a running Job never sees the keys delivered before.
SuppressibleVisibleToScopes ==
    \A k \in dedup.seen, s \in attached :
        \/ \E i \in 1 .. Len(channel) : hasKey(channel[i]) /\ keyOf(channel[i]) = k
        \/ <<k, s>> \in evaluated

\* Every attempt to deliver is counted once as delivered, dropped or
\* suppressed, and every record delivered to the channel reaches the scope the
\* Job started with, also when the Job is removed first.
DeliveredAreEvaluated ==
    /\ stats.attempted = stats.delivered + stats.dropped + stats.suppressed
    /\ \E s \in attached : stats.delivered = Len(channel) + scopes[s].total

\* A record names the image its process really ran, whatever was dropped,
\* provided the process has executed one since tracking began, or was forked
\* by such a process, and that very sample was not lost.  A process seen
\* first through /proc may be named by an image it ran only later.
AttributionExact ==
    \A i \in 1 .. Len(channel) :
        channel[i].exact => channel[i].process.image = channel[i].truth

\* max_alerts: the Detection Log has one entry per hit up to the cap, the last
\* of them alone marked as truncated, and the summary keeps as many alert
\* events; rules that terminate log every hit.
AlertsCapped ==
    \A s \in attached : \A r \in RulesOf(s) :
        LET st == scopes[s].rules[r.id]
            cap == IF r.maxAlerts > 0 /\ st.hits > r.maxAlerts THEN r.maxAlerts ELSE st.hits
        IN  /\ st.alerts = cap
            /\ st.logs = IF r.action = "terminate" THEN st.hits ELSE cap
            /\ st.marks = IF r.action # "terminate" /\ r.maxAlerts > 0
                             /\ st.hits >= r.maxAlerts THEN 1 ELSE 0

\* A correlation has fired in a scope exactly once if that scope's hits satisfy
\* its condition, and not at all otherwise; hits of the other scope, and hits
\* before the scope joined, do not count.
CorrelationsOneShot ==
    \A s \in attached : \A c \in compilable(s) :
        scopes[s].rules[c.id].hits =
            IF scopes[s].rules[c.needs.id].hits >= c.needs.count THEN 1 ELSE 0

\* What a scope that evaluated its own rules alone would make of an event.
EvaluateAlone(s, sc, ev) ==
    LET hit == {r \in EventRules(s) : /\ r.type = ev.type
                                      /\ ev.object \in r.match
                                      /\ ev.process.image \notin r.except}
        first == hitAll(sc, hit)
        fired == IF hit = {} THEN {} ELSE {c \in compilable(s) : firing(first, c)}
    IN  RecordEvent(hitAll(first, fired), ev)

\* Sharing compiled rules between the scopes is invisible to each of them: the
\* one pass over the merged rules leaves every scope as its own rules would.
ScopesIsolated ==
    [][scopes' # scopes =>
        \A s \in attached : scopes'[s] = EvaluateAlone(s, scopes[s], Head(channel))]_vars

\* An observation that is missing from a scope's summary is announced: the
\* table it belongs in is full and its overflow counter is not zero.
ObservationsAccounted ==
    \A o \in observed :
        LET sc == scopes[o[1]]
        IN  IF o[2] \notin DOMAIN sc.domains
            THEN sc.overflow > 0 /\ Cardinality(DOMAIN sc.domains) = DomainCap
            ELSE \/ o[3] \in DOMAIN sc.domains[o[2]].processes
                 \/ /\ sc.domains[o[2]].overflow > 0
                    /\ Cardinality(DOMAIN sc.domains[o[2]].processes) = ProcessCap
=============================================================================
