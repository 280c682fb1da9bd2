---------------------------- MODULE LogDelivery ----------------------------
(***************************************************************************)
(* A batch of log records on its way from the agent to the manager's       *)
(* storage: the retry loop of managerclient/collector_service_client.go,   *)
(* the credential of CachedTokenSource in its interceptor, a network that  *)
(* loses or delays requests and answers, and the manager's IngestLog with  *)
(* its router and object store.  One sender sends one batch; a refresher   *)
(* is a `project result' request that forces a new token.                  *)
(***************************************************************************)
EXTENDS CachedTokenSource, FiniteSets

CONSTANTS Senders, Refreshers,
          Budgets,         \* how much time the context of a send may have
          RequestTimeout,  \* collectorServiceRequestTimeout
          RetryBase, RetryMax, RetryAttempts   \* collectorServiceRetry*

ASSUME DeliveryAssumption ==
    /\ Callers = Senders \cup Refreshers /\ Senders \cap Refreshers = {}
    /\ Budgets \subseteq Nat
    /\ {RequestTimeout, RetryBase, RetryMax, RetryAttempts} \subseteq Nat \ {0}

VARIABLES send,      \* the state of sendIngestLogBatch
          network,   \* requests on their way; one never handled is lost
          objects    \* objects written, by batch and key suffix

vars == <<now, tokenVars, send, network, objects>>

Phases == {"idle", "token", "posted", "sleep", "sent", "failed"}
Idle == [phase |-> "idle", attempt |-> 0, delay |-> RetryBase, until |-> 0, deadline |-> 0]
Ended(s) == send[s].phase \in {"sent", "failed"}

TypeOK ==
    /\ TokenTypeOK
    /\ \A s \in Senders :
         /\ send[s].phase \in Phases
         /\ send[s].attempt \in 0 .. RetryAttempts
         /\ send[s].delay \in RetryBase .. RetryMax
    /\ \A m \in network : m.sender \in Senders /\ m.attempt \in 0 .. RetryAttempts
    /\ \A o \in objects : o.batch \in Senders

Init ==
    /\ TokenInit
    /\ send = [s \in Senders |-> Idle]
    /\ network = {} /\ objects = {}

Minimum(a, b) == IF a < b THEN a ELSE b

(* One turn of the loop: a request context, and a token for the header. *)
Attempt(s, st) ==
    /\ send' = [send EXCEPT ![s] =
         [st EXCEPT !.phase = "token", !.until = Minimum(now + RequestTimeout, st.deadline)]]
    /\ waitAcquire(s, "normal")

SendLogBatch(s) ==
    /\ send[s].phase = "idle"
    /\ \E b \in Budgets : Attempt(s, [Idle EXCEPT !.deadline = now + b])
    /\ UNCHANGED <<now, network, objects>>

ForceRefreshIDToken(r) ==
    /\ waiting[r] = "none"
    /\ waitAcquire(r, "force")
    /\ UNCHANGED <<now, send, network, objects>>

(* The `project result' request is given up. *)
Abandon(r) ==
    /\ waiting[r] = "force"
    /\ GiveUp(r)
    /\ UNCHANGED <<now, send, network, objects>>

isCollectorServiceRetryable(code) == code \in {"resource_exhausted", "unavailable", "deadline_exceeded"}

jitterHalf(d) == (d \div 2) .. (d \div 2) + d - 1

Stop(s, phase) == send' = [send EXCEPT ![s] = [Idle EXCEPT !.phase = phase]]

(* What the loop does with the error of an attempt. *)
Retry(s, code) ==
    LET st == send[s]
    IN IF \/ ~isCollectorServiceRetryable(code)
          \/ st.attempt >= RetryAttempts
          \/ st.deadline - now <= st.delay \div 2
       THEN Stop(s, "failed")
       ELSE \E d \in jitterHalf(st.delay) :
              send' = [send EXCEPT ![s] =
                [st EXCEPT !.phase = "sleep", !.attempt = @ + 1, !.until = now + d]]

(* The timer of the sleep: double the delay, take another turn. *)
Wake(s) ==
    /\ send[s].phase = "sleep" /\ now >= send[s].until
    /\ Attempt(s, [send[s] EXCEPT !.delay = Minimum(2 * @, RetryMax)])
    /\ UNCHANGED <<now, network, objects>>

(* withClientAuth: the token goes into the header, its absence is an error. *)
Authorize(s) ==
    /\ send[s].phase = "token" /\ waiting[s] = "none"
    /\ \/ /\ answer[s] = Failed
          /\ Retry(s, "unavailable") /\ UNCHANGED network
       \/ /\ answer[s] # Failed
          /\ send' = [send EXCEPT ![s] = [@ EXCEPT !.phase = "posted"]]
          /\ network' = network \cup {[sender |-> s, attempt |-> send[s].attempt, token |-> answer[s]]}
    /\ answer' = [answer EXCEPT ![s] = NoToken]
    /\ UNCHANGED <<now, flight, acquireMu, reuse, closed, cancelled, waiting, refreshed, objects>>

\* Mutant: the wait for a token does not look at the context.
DoneOnceThePostIsOut(s) ==
    \/ send[s].phase = "posted" /\ now >= send[s].until
    \/ send[s].phase = "sleep" /\ now >= send[s].deadline

(* The context of the wait in progress is done. *)
ContextDone(s) ==
    \/ send[s].phase = "token" /\ waiting[s] = "normal" /\ now >= send[s].until
    \/ send[s].phase = "posted" /\ now >= send[s].until
    \/ send[s].phase = "sleep" /\ now >= send[s].deadline

Expire(s) ==
    /\ ContextDone(s)
    /\ IF send[s].phase = "sleep" THEN Stop(s, "failed") ELSE Retry(s, "deadline_exceeded")
    /\ GiveUp(s)
    /\ UNCHANGED <<now, network, objects>>

(* The connection breaks; the request may still be on its way. *)
Disconnect(s) ==
    /\ send[s].phase = "posted"
    /\ Retry(s, "unavailable")
    /\ UNCHANGED <<now, tokenVars, network, objects>>

\* Mutant: a sink that throttled to the last attempt counts as written.
WriteForgettingTheError(s) ==
    {[code |-> "ok", stored |-> TRUE], [code |-> "ok", stored |-> FALSE],
     [code |-> "internal", stored |-> TRUE], [code |-> "internal", stored |-> FALSE]}

(* writeWithRetry: only throttling is tried again, in the end it is the    *)
(* answer; another error, after which the object may exist, ends it.       *)
writeWithRetry(s) ==
    {[code |-> "ok", stored |-> TRUE],
     [code |-> "internal", stored |-> TRUE], [code |-> "internal", stored |-> FALSE],
     [code |-> "resource_exhausted", stored |-> FALSE]}

(* objectKey: a fresh random suffix for every write. *)
objectKey(s) == [batch |-> s, suffix |-> Cardinality({o \in objects : o.batch = s})]

(* The client hears of an answer only if it still waits for that attempt. *)
Answer(m, code) ==
    IF send[m.sender].phase = "posted" /\ send[m.sender].attempt = m.attempt
    THEN IF code = "ok" THEN Stop(m.sender, "sent") ELSE Retry(m.sender, code)
    ELSE UNCHANGED send

(* The manager: authentication, which may lack the issuer's keys, then the *)
(* write; the answer may get lost.                                         *)
IngestLog(m) ==
    /\ network' = network \ {m}
    /\ \/ /\ UNCHANGED objects
          /\ Answer(m, "unavailable") \/ UNCHANGED send
       \/ /\ m.token.exp <= now
          /\ UNCHANGED objects
          /\ Answer(m, "unauthenticated")
       \/ /\ m.token.exp > now
          /\ \E w \in writeWithRetry(m.sender) :
               /\ objects' = IF w.stored THEN objects \cup {objectKey(m.sender)} ELSE objects
               /\ Answer(m, w.code) \/ UNCHANGED send
    /\ UNCHANGED <<now, tokenVars>>

(* Time passes when every goroutine waits. *)
Tick ==
    /\ now < MaxTime
    /\ TokenQuiet
    /\ \A s \in Senders :
         /\ ~ContextDone(s)
         /\ send[s].phase = "token" => waiting[s] # "none"
         /\ send[s].phase = "sleep" => now < send[s].until
    /\ now' = now + 1
    /\ UNCHANGED <<tokenVars, send, network, objects>>

Next ==
    \/ TokenStep /\ UNCHANGED <<send, network, objects>>
    \/ \E s \in Senders : SendLogBatch(s) \/ Wake(s) \/ Authorize(s) \/ Expire(s) \/ Disconnect(s)
    \/ \E r \in Refreshers : ForceRefreshIDToken(r) \/ Abandon(r)
    \/ \E m \in network : IngestLog(m)
    \/ Tick

Spec == Init /\ [][Next]_vars

(***************************************************************************)
(* Properties                                                              *)
(***************************************************************************)

(* A send never outlives its caller's context: the shared flight, a mint   *)
(* slower than the context, lost answers and the sleeps between attempts   *)
(* never keep sendIngestLogBatch past the deadline.                        *)
SendReturnsInTime ==
    \A s \in Senders : ~Ended(s) /\ send[s].phase # "idle" => now <= send[s].deadline

(* A send that reports success has its batch in storage: neither a retry   *)
(* nor a late answer of an earlier attempt is taken for the success of a   *)
(* batch that no sink has accepted.                                        *)
SentIsStored == \A s \in Senders : send[s].phase = "sent" => \E o \in objects : o.batch = s

(* What collector.proto asks of retries, and the object store does not     *)
(* give: all attempts for one batch write the same object.                 *)
RetryOverwrites == \A o, p \in objects : o.batch = p.batch => o = p
=============================================================================
