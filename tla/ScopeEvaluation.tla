-------------------------- MODULE ScopeEvaluation --------------------------
(***************************************************************************)
(* Rule evaluation of one event (internal/agent/evaluation) and what a     *)
(* scope keeps of it: rule hits, the Detection Log and the bounded         *)
(* observations (internal/agent/jobscope, internal/agent/observations).    *)
(*                                                                         *)
(* A rule is [id, type, match, except, action, maxAlerts, needs]: the CEL  *)
(* condition is the set `match` of objects it accepts, the exceptions the  *)
(* set `except` of images they exempt, and a correlation's condition asks  *)
(* for needs.count hits, at least one, of the rule needs.id.  Ids are      *)
(* unique in a scope (rule.Resolve), each entry touches only the counters  *)
(* of its own id, and no correlation may refer to another: hits of one     *)
(* event are therefore applied together.                                   *)
(***************************************************************************)
EXTENDS Integers, FiniteSets, ProcessTree

CONSTANTS
    HostRules, ProjectRules,   \* the rules each scope resolved
    DomainCap,                 \* observationCap
    ProcessCap                 \* observationProcessCap

Scopes == {"host", "project"}
RulesOf(s) == IF s = "host" THEN HostRules ELSE ProjectRules
RuleIds == {r.id : r \in HostRules \cup ProjectRules}
Correlations(s) == {r \in RulesOf(s) : r.type = "correlation"}
EventRules(s) == RulesOf(s) \ Correlations(s)

ASSUME RulesAssumption ==
    /\ \A s \in Scopes : \A q, r \in RulesOf(s) : q.id = r.id => q = r
    /\ \A r \in HostRules \cup ProjectRules : r.maxAlerts \in Int
    /\ \A s \in Scopes : \A c \in Correlations(s) : c.needs.count \in Nat \ {0}
    /\ {DomainCap, ProcessCap} \subseteq Nat

RuleState == [hits |-> 0, alerts |-> 0, logs |-> 0, marks |-> 0]
NewState == [rules |-> [i \in RuleIds |-> RuleState], total |-> 0,
             domains |-> [d \in {} |-> 0], overflow |-> 0]

\* Mutant: rules are taken for equivalent when their canonical ids agree.
MergeByCanonicalID(host, project) ==
    {[rule |-> r, feed |-> {"host"} \cup
        (IF \E q \in project : q.id = r.id THEN {"project"} ELSE {})] : r \in host}
    \cup {[rule |-> r, feed |-> {"project"}] :
            r \in {q \in project : \A h \in host : h.id # q.id}}

\* Equivalent host and project rules share one compiled entry.
merge(host, project) ==
    {[rule |-> r, feed |-> {"host"} \cup (IF r \in project THEN {"project"} ELSE {})] :
        r \in host}
    \cup {[rule |-> r, feed |-> {"project"}] : r \in project \ host}

mergeEvaluationRules(attached) ==
    merge(IF "host" \in attached THEN EventRules("host") ELSE {},
          IF "project" \in attached THEN EventRules("project") ELSE {})

\* A correlation compiles against the enabled rules of its own scope.
compilable(s) == {c \in Correlations(s) : \E r \in EventRules(s) : r.id = c.needs.id}

compileAndMergeEvaluationCorrelations(attached) ==
    merge(IF "host" \in attached THEN compilable("host") ELSE {},
          IF "project" \in attached THEN compilable("project") ELSE {})

-----------------------------------------------------------------------------

\* The entries that match and whose exceptions do not.
matching(entries, ev) ==
    {e \in entries : /\ e.rule.type = ev.type
                     /\ ev.object \in e.rule.match
                     /\ ev.process.image \notin e.rule.except}

FeedHit(st, r) ==
    [st EXCEPT !.hits = @ + 1,
               !.alerts = IF r.maxAlerts <= 0 \/ @ < r.maxAlerts THEN @ + 1 ELSE @]

\* Mutant: the comparison with the cap is off by one.
WriteOneTooMany(st, r) ==
    CASE r.action = "terminate" \/ r.maxAlerts <= 0 -> [st EXCEPT !.logs = @ + 1]
      [] r.action # "terminate" /\ r.maxAlerts > 0 /\ st.hits - 1 > r.maxAlerts -> st
      [] OTHER -> [st EXCEPT !.logs = @ + 1,
                             !.marks = IF st.hits = r.maxAlerts THEN @ + 1 ELSE @]

WriteDetectionLogForHit(st, r) ==
    CASE r.action = "terminate" \/ r.maxAlerts <= 0 -> [st EXCEPT !.logs = @ + 1]
      [] r.action # "terminate" /\ r.maxAlerts > 0 /\ st.hits > r.maxAlerts -> st
      [] OTHER -> [st EXCEPT !.logs = @ + 1,
                             !.marks = IF st.hits = r.maxAlerts THEN @ + 1 ELSE @]

\* recordHit, then the Detection Log, for each rule fed to the scope.
hitAll(sc, rules) ==
    [sc EXCEPT !.rules = [i \in RuleIds |->
        IF \E r \in rules : r.id = i
        THEN LET r == CHOOSE q \in rules : q.id = i
             IN  WriteDetectionLogForHit(FeedHit(sc.rules[i], r), r)
        ELSE sc.rules[i]]]

\* Mutant: the one-shot guard is missing.
FireAgain(sc, c) == TRUE

canFireCorrelation(sc, c) == sc.rules[c.id].hits = 0

firing(sc, c) ==
    /\ canFireCorrelation(sc, c)
    /\ sc.rules[c.needs.id].hits >= c.needs.count

-----------------------------------------------------------------------------

processContextFromSummary(process) ==
    [process EXCEPT !.ancestors = SelectSeq(@, LAMBDA a : a # NoImage)]

processHasContext(context) == context.image # NoImage \/ context.ancestors # <<>>

addProcessContext(ctx, p, process) ==
    LET context == processContextFromSummary(process)
    IN  IF p \in DOMAIN ctx.processes
        THEN IF processHasContext(context) THEN [ctx EXCEPT !.processes[p] = context] ELSE ctx
        ELSE IF Cardinality(DOMAIN ctx.processes) >= ProcessCap
        THEN [ctx EXCEPT !.overflow = @ + 1]
        ELSE [ctx EXCEPT !.processes = setNode(@, p, context)]

NoContexts == [processes |-> [p \in {} |-> 0], overflow |-> 0]

\* Mutant: an observation beyond the cap is dropped without being counted.
RecordDomainUncounted(sc, d, p, process) ==
    IF d \notin DOMAIN sc.domains /\ Cardinality(DOMAIN sc.domains) >= DomainCap
    THEN sc
    ELSE LET ctx == IF d \in DOMAIN sc.domains THEN sc.domains[d] ELSE NoContexts
         IN  [sc EXCEPT !.domains = setNode(@, d, addProcessContext(ctx, p, process))]

recordDomain(sc, d, p, process) ==
    IF d \notin DOMAIN sc.domains /\ Cardinality(DOMAIN sc.domains) >= DomainCap
    THEN [sc EXCEPT !.overflow = @ + 1]
    ELSE LET ctx == IF d \in DOMAIN sc.domains THEN sc.domains[d] ELSE NoContexts
         IN  [sc EXCEPT !.domains = setNode(@, d, addProcessContext(ctx, p, process))]

RecordEvent(sc, ev) ==
    LET counted == [sc EXCEPT !.total = @ + 1]
    IN  IF ev.type = "domain"
        THEN recordDomain(counted, ev.object, ev.proc, ev.process)
        ELSE counted
=============================================================================
