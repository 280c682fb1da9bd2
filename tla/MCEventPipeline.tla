-------------------------- MODULE MCEventPipeline --------------------------
(* Small instances of EventPipeline for TLC. *)
EXTENDS EventPipeline

EventRule(id, type, match, except, action, cap) ==
    [id |-> id, type |-> type, match |-> match, except |-> except,
     action |-> action, maxAlerts |-> cap, needs |-> [id |-> id, count |-> 0]]
Correlation(id, rule, count) ==
    [id |-> id, type |-> "correlation", match |-> {}, except |-> {},
     action |-> "detect", maxAlerts |-> 1, needs |-> [id |-> rule, count |-> count]]

\* p alone repeats itself over files; both look domains up.
MCActs == {<<"p", "file_open", "f1">>, <<"p", "file_open", "f2">>, <<"p", "file_open", "f3">>,
           <<"p", "domain", "d1">>, <<"q", "domain", "d1">>,
           <<"q", "domain", "d2">>, <<"p", "domain", "local">>}

\* A capped detection both scopes share; a rule the host lets terminate and a
\* monitored project only detects; a correlation on two hits.
Reads == EventRule("reads", "file_open", {"f1", "f3"}, {"b"}, "detect", 1)
MCHostRules ==
    {Reads, EventRule("runs", "process_exec", {"b"}, {}, "terminate", 1),
     Correlation("twice", "reads", 2)}
MCProjectRules ==
    {Reads, EventRule("runs", "process_exec", {"b"}, {}, "detect", 1),
     Correlation("twice", "reads", 2), Correlation("absent", "nowhere", 1)}
=============================================================================
