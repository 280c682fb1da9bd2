--------------------------- MODULE ManagerOutput ---------------------------
(***************************************************************************)
(* One log output to the manager (internal/agent/joblogs): Emit, Flush and *)
(* Close of managerOutput, called by several goroutines, and the worker    *)
(* that batches records and sends them.  Records are numbered in the order *)
(* in which they are emitted.                                              *)
(*                                                                         *)
(* The worker handles one request in one step.  Callers only meet it at    *)
(* the request channel and at their reply, so a slow send is a late step.  *)
(***************************************************************************)
EXTENDS Naturals, Sequences, Functions

CONSTANTS
    Flushers,     \* callers of Flush
    Closers,      \* the caller of Close or EmitAndClose, if there is one
    NumEmits,     \* bound: records given to Emit
    FinalRecord,  \* whether the closer brings a record (EmitAndClose)
    Size,         \* Size[r]: JSONL bytes of record r, newline included
    ChannelCap,   \* capacity of the request channel
    Threshold,    \* FlushThresholdBytes, 0 for none
    HasInterval,  \* whether FlushIntervalSeconds is set
    MaxFailures   \* bound: failing sends

Records == 1 .. NumEmits + 1
LastRecord == NumEmits + 1
Callers == Flushers \cup Closers

ASSUME OutputAssumption ==
    /\ Flushers \cap Closers = {} /\ \A c, d \in Closers : c = d
    /\ "emitter" \notin Callers
    /\ NumEmits \in Nat /\ MaxFailures \in Nat /\ Threshold \in Nat
    /\ ChannelCap \in Nat \ {0}
    /\ FinalRecord \in BOOLEAN /\ HasInterval \in BOOLEAN
    /\ Size \in [Records -> Nat \ {0}]

VARIABLES
    \* managerOutput
    closed,     \* the closed flag
    requests,   \* the request channel
    \* the worker
    buffer,     \* records that wait for a batch
    armed,      \* the flush timer runs
    exited,     \* the done channel is closed
    stored,     \* records the manager has
    failures,   \* sends that failed
    \* callers
    pc,
    reply,      \* what the worker sent to the reply channel
    result,     \* what the call returned
    before,     \* records accepted when the call began
    emitted,    \* calls of Emit so far
    accepted    \* records in the order in which they entered the channel

workerVars == <<buffer, armed, stored, failures>>
callVars   == <<pc, result, before>>
vars == <<closed, requests, workerVars, exited, callVars, reply, emitted, accepted>>

Request == [kind : {"emit", "flush", "close"}, record : Records \cup {0},
            from : Callers \cup {"emitter"}]

TypeOK ==
    /\ closed \in BOOLEAN /\ exited \in BOOLEAN /\ armed \in BOOLEAN
    /\ requests \in Seq(Request) /\ Len(requests) <= ChannelCap
    /\ buffer \in Seq(Records)
    /\ stored \subseteq Records
    /\ failures \in 0 .. MaxFailures
    /\ pc \in [Callers -> {"idle", "enqueue", "wait", "done"}]
    /\ reply \in [Callers -> {"none", "ok", "error"}]
    /\ result \in [Callers -> {"none", "ok", "error"}]
    /\ before \in [Callers -> SUBSET Records]
    /\ emitted \in 0 .. NumEmits
    /\ accepted \in Seq(Records)

Init ==
    /\ closed = FALSE /\ exited = FALSE /\ armed = FALSE
    /\ requests = <<>> /\ buffer = <<>> /\ accepted = <<>>
    /\ stored = {}
    /\ failures = 0 /\ emitted = 0
    /\ pc = [c \in Callers |-> "idle"]
    /\ reply = [c \in Callers |-> "none"]
    /\ result = [c \in Callers |-> "none"]
    /\ before = [c \in Callers |-> {}]

-----------------------------------------------------------------------------
(* Callers.                                                                 *)

\* Mutant: the record is queued without the check of the closed flag.
EmitUnchecked ==
    /\ emitted < NumEmits
    /\ emitted' = emitted + 1
    /\ \/ /\ Len(requests) < ChannelCap
          /\ requests' = Append(requests,
                                [kind |-> "emit", record |-> emitted + 1, from |-> "emitter"])
          /\ accepted' = Append(accepted, emitted + 1)
       \/ UNCHANGED <<requests, accepted>>
    /\ UNCHANGED <<closed, exited, workerVars, callVars, reply>>

\* Emit holds the mutex from the check of closed to the send.  The record is
\* not taken when the output is closed, the channel is full or the caller's
\* context has ended.
Emit ==
    /\ emitted < NumEmits
    /\ emitted' = emitted + 1
    /\ \/ /\ ~closed /\ Len(requests) < ChannelCap
          /\ requests' = Append(requests,
                                [kind |-> "emit", record |-> emitted + 1, from |-> "emitter"])
          /\ accepted' = Append(accepted, emitted + 1)
       \/ UNCHANGED <<requests, accepted>>
    /\ UNCHANGED <<closed, exited, workerVars, callVars, reply>>

Return(c, res) ==
    /\ pc' = [pc EXCEPT ![c] = "done"]
    /\ result' = [result EXCEPT ![c] = res]

\* Flush on a closed output reports success at once.
CallFlush(c) ==
    /\ c \in Flushers /\ pc[c] = "idle"
    /\ before' = [before EXCEPT ![c] = Range(accepted)]
    /\ \/ closed /\ Return(c, "ok")
       \/ ~closed /\ pc' = [pc EXCEPT ![c] = "enqueue"] /\ UNCHANGED result
    /\ UNCHANGED <<closed, requests, exited, workerVars, reply, emitted, accepted>>

\* close sets the flag first, so later records are refused.  An output is
\* closed once, so the early return of close is not reached.
CallClose(c) ==
    /\ c \in Closers /\ pc[c] = "idle"
    /\ closed' = TRUE
    /\ before' = [before EXCEPT ![c] = Range(accepted)]
    /\ pc' = [pc EXCEPT ![c] = "enqueue"]
    /\ UNCHANGED <<requests, exited, workerVars, result, reply, emitted, accepted>>

RequestOf(c) ==
    [kind   |-> IF c \in Closers THEN "close" ELSE "flush",
     record |-> IF c \in Closers /\ FinalRecord THEN LastRecord ELSE 0,
     from   |-> c]

\* enqueueRequest: the request is sent, or the worker has left.
Enqueue(c) ==
    /\ pc[c] = "enqueue"
    /\ pc' = [pc EXCEPT ![c] = "wait"]
    /\ \/ /\ Len(requests) < ChannelCap
          /\ requests' = Append(requests, RequestOf(c))
          /\ accepted' = IF RequestOf(c).record = 0 THEN accepted ELSE Append(accepted, LastRecord)
       \/ exited /\ UNCHANGED <<requests, accepted>>
    /\ UNCHANGED <<closed, exited, workerVars, result, before, reply, emitted>>

\* The caller's context ends first: a close takes its flag back.
EnqueueGivesUp(c) ==
    /\ pc[c] = "enqueue"
    /\ closed' = (closed /\ c \notin Closers)
    /\ Return(c, "error")
    /\ UNCHANGED <<requests, exited, workerVars, before, reply, emitted, accepted>>

\* Mutant: a caller whose request the worker never reads waits for its reply.
WaitForReply(c) ==
    /\ pc[c] = "wait"
    /\ reply[c] # "none" /\ Return(c, reply[c])
    /\ UNCHANGED <<closed, requests, exited, workerVars, before, reply, emitted, accepted>>

\* waitJobLogOutputClose: without a reply from a worker that left, success.
Wait(c) ==
    /\ pc[c] = "wait"
    /\ \/ reply[c] # "none" /\ Return(c, reply[c])
       \/ exited /\ reply[c] = "none" /\ Return(c, "ok")
    /\ UNCHANGED <<closed, requests, exited, workerVars, before, reply, emitted, accepted>>

WaitGivesUp(c) ==
    /\ pc[c] = "wait"
    /\ Return(c, "error")
    /\ UNCHANGED <<closed, requests, exited, workerVars, before, reply, emitted, accepted>>

-----------------------------------------------------------------------------
(* The worker.  Its state is passed through the local functions of run.     *)

Bytes(b) == FoldFunction(LAMBDA r, n : Size[r] + n, 0, b)

Worker == [buffer |-> buffer, armed |-> armed, stored |-> stored, failures |-> failures]

SetWorker(w) ==
    /\ buffer' = w.buffer /\ armed' = w.armed /\ stored' = w.stored
    /\ failures' = w.failures

StartTimer(w) == [w EXCEPT !.armed = @ \/ (HasInterval /\ w.buffer # <<>>)]

\* Mutant: the timer stays off after a failed send.
SendFailsUnarmed(w) ==
    {[w EXCEPT !.failures = @ + 1, !.stored = @ \cup got] : got \in {{}, Range(w.buffer)}}

\* Mutant: the buffer is given up with the batch.
SendFailsDropping(w) == {[w EXCEPT !.failures = @ + 1, !.buffer = <<>>]}

\* A send of the whole buffer that fails: the manager may have the batch though
\* the answer was lost.  The buffer is kept and the timer armed again.
SendFails(w) ==
    {StartTimer([w EXCEPT !.failures = @ + 1, !.stored = @ \cup got]) :
        got \in {{}, Range(w.buffer)}}

\* flush: the outcomes it can have in worker state w.
Flush(w) ==
    LET s == [w EXCEPT !.armed = FALSE]
    IN  IF w.buffer = <<>> THEN {[worker |-> s, res |-> "ok"]}
        ELSE {[worker |-> [s EXCEPT !.buffer = <<>>, !.stored = @ \cup Range(w.buffer)], res |-> "ok"]}
             \cup {[worker |-> f, res |-> "error"] :
                      f \in IF w.failures < MaxFailures THEN SendFails(s) ELSE {}}

\* Room is made for record r before it is appended; the result of that flush
\* matters only to a close.
MakeRoom(w, r) ==
    IF Threshold > 0 /\ w.buffer # <<>> /\ Bytes(w.buffer) + Size[r] > Threshold
    THEN Flush(w) ELSE {[worker |-> w, res |-> "ok"]}

AppendRecord(w, r) == [w EXCEPT !.buffer = Append(@, r)]

Receive(kind) ==
    /\ ~exited
    /\ requests # <<>> /\ Head(requests).kind = kind
    /\ requests' = Tail(requests)

HandleEmit ==
    LET r == Head(requests).record
    IN  /\ Receive("emit")
        /\ \E room \in MakeRoom(Worker, r) :
              LET w == AppendRecord(room.worker, r)
              IN  \/ /\ Threshold > 0 /\ Bytes(w.buffer) >= Threshold
                     /\ \E f \in Flush(w) : SetWorker(f.worker)
                  \/ /\ ~(Threshold > 0 /\ Bytes(w.buffer) >= Threshold)
                     /\ SetWorker(StartTimer(w))
        /\ UNCHANGED <<closed, exited, callVars, reply, emitted, accepted>>

\* Mutant: the reply does not tell that the send failed.
HandleFlushQuietly ==
    /\ Receive("flush")
    /\ \E f \in Flush(Worker) :
          SetWorker(f.worker) /\ reply' = [reply EXCEPT ![Head(requests).from] = "ok"]
    /\ UNCHANGED <<closed, exited, callVars, emitted, accepted>>

HandleFlush ==
    /\ Receive("flush")
    /\ \E f \in Flush(Worker) :
          SetWorker(f.worker) /\ reply' = [reply EXCEPT ![Head(requests).from] = f.res]
    /\ UNCHANGED <<closed, exited, callVars, emitted, accepted>>

\* The worker leaves whether or not its last sends succeed.
HandleClose ==
    LET r == Head(requests).record
        c == Head(requests).from
        last(w) == IF r = 0 THEN w ELSE AppendRecord(w, r)
    IN  /\ Receive("close")
        /\ exited' = TRUE
        /\ \E room \in IF r = 0 THEN {[worker |-> Worker, res |-> "ok"]} ELSE MakeRoom(Worker, r) :
              \/ /\ room.res = "error"
                 /\ SetWorker(room.worker)
                 /\ reply' = [reply EXCEPT ![c] = "error"]
              \/ /\ room.res = "ok"
                 /\ \E f \in Flush(last(room.worker)) :
                       SetWorker(f.worker) /\ reply' = [reply EXCEPT ![c] = f.res]
        /\ UNCHANGED <<closed, callVars, emitted, accepted>>

TimerFires ==
    /\ ~exited /\ armed
    /\ \E f \in Flush(Worker) : SetWorker(f.worker)
    /\ UNCHANGED <<closed, requests, exited, callVars, reply, emitted, accepted>>

-----------------------------------------------------------------------------
WorkerStep == HandleEmit \/ HandleFlush \/ HandleClose \/ TimerFires
CallerStep(c) == CallFlush(c) \/ CallClose(c) \/ Enqueue(c) \/ EnqueueGivesUp(c) \/ Wait(c) \/ WaitGivesUp(c)

\* All calls have returned and the worker has nothing to do.
AtRest ==
    /\ \A c \in Callers : pc[c] \in {"idle", "done"}
    /\ exited \/ (requests = <<>> /\ ~armed)

Next ==
    \/ Emit
    \/ \E c \in Callers : CallerStep(c)
    \/ WorkerStep
    \/ AtRest /\ UNCHANGED vars

Spec == Init /\ [][Next]_vars

\* The worker and the blocked callers run; nobody is forced to call or to give up.
FairSpec ==
    /\ Spec
    /\ WF_vars(HandleEmit \/ HandleFlush \/ HandleClose) /\ WF_vars(TimerFires)
    /\ \A c \in Callers : WF_vars(Enqueue(c)) /\ WF_vars(Wait(c))

-----------------------------------------------------------------------------
(* Properties.                                                              *)

\* Records reach the manager in the order of Emit with none skipped, whatever
\* sends failed or were stored twice: the output implements LogStream.
Stream == INSTANCE LogStream
InOrder == Stream!Spec

\* A close that reports success has delivered every record that was accepted,
\* also the ones of Emit calls that raced with it.
CloseDelivers == \A c \in Closers : result[c] = "ok" => Range(accepted) \subseteq stored

\* Comment on Flush: "A closed output reports success because the close path
\* already drained the buffer."  A Flush that reports success has delivered
\* what was accepted before the call.
FlushDelivers == \A c \in Flushers : result[c] = "ok" => before[c] \subseteq stored

\* A Flush that the worker answered with success has delivered what was accepted
\* before the call, whatever calls came in between or sends failed.
FlushAnswered == \A c \in Flushers : reply[c] = "ok" => before[c] \subseteq stored

\* A record that was accepted is delivered, or the output was closed with an error.
RecordsDelivered ==
    \A r \in Records : r \in Range(accepted) ~> r \in stored \/ exited

\* No caller of Flush or Close waits for ever, even when the channel is full or
\* the worker leaves before it reads the request.
CallersReturn == \A c \in Callers : pc[c] # "idle" ~> pc[c] = "done"
=============================================================================
