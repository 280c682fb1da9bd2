----------------------- MODULE ManagerOutput_proofs -----------------------
(***************************************************************************)
(* Proofs about ManagerOutput: for any callers, records and sizes, channel *)
(* capacity, threshold and number of failing sends.                        *)
(***************************************************************************)
EXTENDS ManagerOutput, TLAPS

-----------------------------------------------------------------------------
(* The inductive invariant.                                                *)

\* The first n records that were accepted.
First(n) == {accepted[k] : k \in 1 .. n}

\* The records of a queue of requests.
Queued(q) == {q[k].record : k \in 1 .. Len(q)} \ {0}

Increasing(s) == \A j, k \in 1 .. Len(s) : j < k => s[j] < s[k]

\* Records are accepted in the order of their numbers; the last one comes from
\* EmitAndClose, after which no Emit is accepted.
AcceptedInOrder ==
    /\ Increasing(accepted)
    /\ \A k \in 1 .. Len(accepted) : accepted[k] <= emitted \/ accepted[k] = LastRecord
    /\ LastRecord \in Range(accepted) =>
          closed /\ \A c \in Closers : pc[c] \in {"wait", "done"}

\* A closer that has sent its request keeps the output closed.
ClosedByCloser ==
    /\ \A c \in Closers : pc[c] \in {"enqueue", "wait"} => closed
    /\ \A k \in 1 .. Len(requests) : requests[k].kind = "close" => closed
    /\ exited => closed
    /\ \A c \in Closers : pc[c] \in {"idle", "enqueue"} => ~exited

\* Requests were sent by callers that wait for them, or gave up waiting, and
\* only a flush can be behind a close.
Waiting ==
    /\ \A k \in 1 .. Len(requests) :
          LET q == requests[k]
          IN  /\ q.kind = "emit" => q.record # 0
              /\ q.kind = "flush" => q.record = 0 /\ q.from \in Flushers
              /\ q.kind = "close" => q.from \in Closers
              /\ q.kind # "emit" => pc[q.from] \in {"wait", "done"}
    /\ \A j, k \in 1 .. Len(requests) :
          requests[k].kind = "close" /\ k < j => requests[j].kind = "flush"
    /\ \A c \in Callers : reply[c] # "none" => pc[c] \in {"wait", "done"}

\* For a buffer b, records s of the manager and a queue q: the accepted records
\* that the manager lacks are in the buffer or queued behind it, in order.
Held(b, s, q) ==
    /\ Increasing(b)
    /\ \A j, k \in 1 .. Len(q) :
          j < k /\ q[j].record # 0 /\ q[k].record # 0 => q[j].record < q[k].record
    /\ \A r \in Range(b), x \in Queued(q) : r < x
    /\ Range(b) \cup Queued(q) \subseteq Range(accepted)
    /\ Range(accepted) \subseteq s \cup Range(b) \cup Queued(q)

\* What a flush has to deliver is ahead of its request.
Ahead(b, s, q) ==
    \A k \in 1 .. Len(q) :
        q[k].kind = "flush" =>
            before[q[k].from] \subseteq
                s \cup Range(b) \cup ({q[j].record : j \in 1 .. k - 1} \ {0})

\* The manager has the first records, with no gap.
Gapless(s) == \E n \in 0 .. Len(accepted) : s = First(n)

Delivering ==
    /\ Gapless(stored)
    /\ ~exited => Held(buffer, stored, requests) /\ Ahead(buffer, stored, requests)
    /\ \A c \in Callers : before[c] \subseteq Range(accepted)

\* What callers were told is true.
Answers ==
    /\ FlushAnswered
    /\ \A c \in Closers :
          /\ exited <=> reply[c] # "none"
          /\ result[c] = "ok" => reply[c] = "ok"
          /\ reply[c] = "ok" => Range(accepted) \subseteq stored

IInv == TypeOK /\ AcceptedInOrder /\ ClosedByCloser /\ Waiting /\ Delivering /\ Answers

-----------------------------------------------------------------------------
(* Sequences of records and queues of requests.                            *)

LEMMA RecordNumbers == Records \subseteq Nat \ {0} /\ LastRecord \in Records
  BY OutputAssumption DEF Records, LastRecord

LEMMA RangeOf ==
    ASSUME NEW s \in Seq(Records)
    PROVE  /\ Range(s) = {s[k] : k \in 1 .. Len(s)}
           /\ Len(s) \in Nat
           /\ \A k \in 1 .. Len(s) : s[k] \in Range(s)
           /\ \A x \in Range(s) : x \in Records /\ \E k \in 1 .. Len(s) : s[k] = x
  <1>1. DOMAIN s = 1 .. Len(s) /\ Len(s) \in Nat
    OBVIOUS
  <1>2. \A k \in 1 .. Len(s) : s[k] \in Records
    OBVIOUS
  <1> QED
    BY <1>1, <1>2, Zenon DEF Range

LEMMA RangeEmpty == Range(<<>>) = {}
  BY DEF Range

LEMMA ImageUnion ==
    ASSUME NEW f, NEW S, NEW z
    PROVE  {f[k] : k \in S \cup {z}} = {f[k] : k \in S} \cup {f[z]}
  BY Zenon

\* Appending a record adds it to the records, and to every longer prefix.
LEMMA RangeAppend ==
    ASSUME NEW s \in Seq(Records), NEW x \in Records
    PROVE  Range(Append(s, x)) = Range(s) \cup {x}
  <1>1. Append(s, x) \in Seq(Records) /\ Len(Append(s, x)) = Len(s) + 1
    OBVIOUS
  <1>2. Append(s, x)[Len(s) + 1] = x /\ \A k \in 1 .. Len(s) : Append(s, x)[k] = s[k]
    OBVIOUS
  <1>3. Range(Append(s, x)) = {Append(s, x)[k] : k \in 1 .. Len(s) + 1}
    BY <1>1, RangeOf, Zenon
  <1>4. 1 .. Len(s) + 1 = (1 .. Len(s)) \cup {Len(s) + 1}
    OBVIOUS
  <1>5. Range(s) = {Append(s, x)[k] : k \in 1 .. Len(s)}
    BY <1>2, RangeOf, Zenon
  <1>6. {Append(s, x)[k] : k \in (1 .. Len(s)) \cup {Len(s) + 1}}
          = {Append(s, x)[k] : k \in 1 .. Len(s)} \cup {Append(s, x)[Len(s) + 1]}
    BY ImageUnion, Zenon
  <1>7. Append(s, x)[Len(s) + 1] = x
    BY <1>2, Zenon
  <1> QED
    BY <1>3, <1>4, <1>5, <1>6, <1>7

\* An appended record that exceeds the others keeps the order.
LEMMA IncreasingAppend ==
    ASSUME NEW s \in Seq(Records), NEW x \in Records, Increasing(s),
           \A r \in Range(s) : r < x
    PROVE  Increasing(Append(s, x))
  <1>1. \A k \in 1 .. Len(s) : s[k] < x
    BY RangeOf, Zenon
  <1>2. Append(s, x)[Len(s) + 1] = x /\ \A k \in 1 .. Len(s) : Append(s, x)[k] = s[k]
    OBVIOUS
  <1>3. Len(Append(s, x)) = Len(s) + 1 /\ Len(s) \in Nat
    OBVIOUS
  <1>4. ASSUME NEW j \in 1 .. Len(s) + 1, NEW k \in 1 .. Len(s) + 1, j < k
        PROVE  Append(s, x)[j] < Append(s, x)[k]
    <2>1. j \in 1 .. Len(s)
      BY <1>3, <1>4
    <2>2. k \in 1 .. Len(s) \/ k = Len(s) + 1
      BY <1>3
    <2> QED
      BY <1>1, <1>2, <1>4, <2>1, <2>2, Zenon DEF Increasing
  <1> QED
    BY <1>3, <1>4, Zenon DEF Increasing

\* What is in a queue after a request was sent, and before one is received.
LEMMA AppendedRequests ==
    ASSUME NEW q \in Seq(Request), NEW m \in Request
    PROVE  /\ Append(q, m) \in Seq(Request)
           /\ Len(q) \in Nat
           /\ Len(Append(q, m)) = Len(q) + 1
           /\ Append(q, m)[Len(q) + 1] = m
           /\ \A k \in 1 .. Len(q) : Append(q, m)[k] = q[k]
           /\ \A k \in 1 .. Len(q) + 1 : k \in 1 .. Len(q) \/ k = Len(q) + 1
           /\ \A j, k \in 1 .. Len(q) + 1 : j < k => j \in 1 .. Len(q)
           /\ \A k \in 1 .. Len(q) : k \in 1 .. Len(q) + 1 /\ k < Len(q) + 1
           /\ Len(q) + 1 \in 1 .. Len(q) + 1
  OBVIOUS

LEMMA QueuedAppend ==
    ASSUME NEW q \in Seq(Request), NEW m \in Request
    PROVE  Queued(Append(q, m)) = Queued(q) \cup ({m.record} \ {0})
  <1>1. 1 .. Len(q) + 1 = (1 .. Len(q)) \cup {Len(q) + 1}
    OBVIOUS
  <1>2. {Append(q, m)[k].record : k \in 1 .. Len(q) + 1}
          = {q[k].record : k \in 1 .. Len(q)} \cup {m.record}
    <2>1. \A k \in 1 .. Len(q) : Append(q, m)[k].record = q[k].record
      BY AppendedRequests, Zenon
    <2>2. Append(q, m)[Len(q) + 1].record = m.record
      BY AppendedRequests, Zenon
    <2> QED
      BY <1>1, <2>1, <2>2, Zenon
  <1> QED
    BY <1>2, AppendedRequests, Zenon DEF Queued

LEMMA ReceivedRequests ==
    ASSUME NEW q \in Seq(Request), q # <<>>
    PROVE  /\ Tail(q) \in Seq(Request)
           /\ Len(q) \in Nat \ {0}
           /\ Len(Tail(q)) = Len(q) - 1
           /\ Head(q) = q[1] /\ Head(q) \in Request
           /\ 1 \in 1 .. Len(q)
           /\ \A k \in 1 .. Len(q) - 1 : Tail(q)[k] = q[k + 1] /\ k + 1 \in 1 .. Len(q)
           /\ \A k \in 1 .. Len(q) - 1 : 1 < k + 1
           /\ \A j, k \in 1 .. Len(q) - 1 : j < k => j + 1 < k + 1
  OBVIOUS

LEMMA QueuedTail ==
    ASSUME NEW q \in Seq(Request), q # <<>>
    PROVE  Queued(q) = Queued(Tail(q)) \cup ({Head(q).record} \ {0})
  <1>1. \A k \in 1 .. Len(q) : k = 1 \/ \E j \in 1 .. Len(q) - 1 : k = j + 1
    <2> TAKE k \in 1 .. Len(q)
    <2>1. k # 1 => k - 1 \in 1 .. Len(q) - 1 /\ k = (k - 1) + 1
      BY ReceivedRequests
    <2> QED
      BY <2>1, Zenon
  <1>2. {q[k].record : k \in 1 .. Len(q)}
          = {Tail(q)[k].record : k \in 1 .. Len(q) - 1} \cup {Head(q).record}
    <2> DEFINE R == {q[k].record : k \in 1 .. Len(q)}
               T == {Tail(q)[k].record : k \in 1 .. Len(q) - 1}
    <2>1. \A k \in 1 .. Len(q) - 1 : Tail(q)[k].record = q[k + 1].record
      BY ReceivedRequests, Zenon
    <2>2. Head(q).record = q[1].record
      BY ReceivedRequests, Zenon
    <2>3. ASSUME NEW x \in R PROVE x \in T \cup {Head(q).record}
      <3>1. PICK k \in 1 .. Len(q) : x = q[k].record
        BY <2>3, Zenon
      <3> QED
        BY <1>1, <2>1, <2>2, <3>1, Zenon
    <2>4. ASSUME NEW x \in T PROVE x \in R
      <3>1. PICK k \in 1 .. Len(q) - 1 : x = Tail(q)[k].record
        BY <2>4, Zenon
      <3>2. k + 1 \in 1 .. Len(q)
        BY ReceivedRequests, Zenon
      <3> QED
        BY <2>1, <3>1, <3>2, Zenon
    <2>5. Head(q).record \in R
      BY <2>2, ReceivedRequests, Zenon
    <2> QED
      BY <2>3, <2>4, <2>5, Zenon
  <1> QED
    BY <1>2, ReceivedRequests, Zenon DEF Queued

-----------------------------------------------------------------------------
(* The worker's functions.                                                 *)

WorkerState ==
    [buffer : Seq(Records), armed : BOOLEAN, stored : SUBSET Records,
     failures : 0 .. MaxFailures]

\* What a send can do to buffer b and the manager's records s: it stores the
\* whole buffer or nothing, and the buffer is emptied only when it was stored.
Kept(b, s, b1, s1) ==
    /\ b1 \in {<<>>, b}
    /\ s1 \in {s, s \cup Range(b)}
    /\ b1 # b => s1 = s \cup Range(b)

\* Every outcome of flush keeps what was buffered; success means it was stored.
LEMMA FlushOutcomes ==
    ASSUME NEW w \in WorkerState, NEW f \in Flush(w)
    PROVE  /\ f.worker \in WorkerState
           /\ f.res \in {"ok", "error"}
           /\ Kept(w.buffer, w.stored, f.worker.buffer, f.worker.stored)
           /\ f.res = "ok" => f.worker.stored = w.stored \cup Range(w.buffer)
  <1> DEFINE s == [w EXCEPT !.armed = FALSE]
  <1>0. Range(w.buffer) \subseteq Records
    <2>1. w.buffer \in Seq(Records)
      BY DEF WorkerState
    <2> QED
      BY <2>1, RangeOf, Zenon
  <1>1. s \in WorkerState /\ s.buffer = w.buffer /\ s.stored = w.stored
          /\ s.failures = w.failures
    BY Zenon DEF WorkerState
  <1>2. CASE w.buffer = <<>>
    <2>1. f = [worker |-> s, res |-> "ok"]
      BY <1>2, Zenon DEF Flush
    <2> QED
      BY <1>1, <1>2, <2>1, RangeEmpty, Zenon DEF Kept
  <1>3. CASE w.buffer # <<>>
    <2> DEFINE t == [s EXCEPT !.buffer = <<>>, !.stored = @ \cup Range(w.buffer)]
    <2>1. CASE f = [worker |-> t, res |-> "ok"]
      <3>0. w.stored \cup Range(w.buffer) \in SUBSET Records /\ <<>> \in Seq(Records)
        BY <1>0 DEF WorkerState
      <3>1. t \in WorkerState /\ t.buffer = <<>> /\ t.stored = w.stored \cup Range(w.buffer)
        BY <1>1, <3>0, Zenon DEF WorkerState
      <3>2. f.worker = t /\ f.res = "ok"
        BY <2>1
      <3> QED
        BY <3>1, <3>2, Zenon DEF Kept
    <2>2. CASE w.failures < MaxFailures
               /\ \E g \in SendFails(s) : f = [worker |-> g, res |-> "error"]
      <3>1. PICK g \in SendFails(s) : f = [worker |-> g, res |-> "error"]
        BY <2>2
      <3>2. PICK got \in {{}, Range(s.buffer)} :
                g = StartTimer([s EXCEPT !.failures = @ + 1, !.stored = @ \cup got])
        BY <3>1, Zenon DEF SendFails
      <3> DEFINE u == [s EXCEPT !.failures = @ + 1, !.stored = @ \cup got]
      <3>3. w.failures + 1 \in 0 .. MaxFailures
        BY <2>2, OutputAssumption DEF WorkerState
      <3>4. w.stored \cup got \in SUBSET Records
        BY <1>0, <1>1, <3>2 DEF WorkerState
      <3>5. u \in WorkerState /\ u.buffer = w.buffer /\ u.stored = w.stored \cup got
        BY <1>1, <3>3, <3>4, Zenon DEF WorkerState
      <3>6. StartTimer(u) \in WorkerState /\ StartTimer(u).buffer = u.buffer
              /\ StartTimer(u).stored = u.stored
        BY <3>5, OutputAssumption, Zenon DEF WorkerState, StartTimer
      <3>7. f.worker = StartTimer(u) /\ f.res = "error"
        BY <3>1, <3>2
      <3>8. w.stored \cup got \in {w.stored, w.stored \cup Range(w.buffer)}
        BY <1>1, <3>2, Zenon
      <3> HIDE DEF u
      <3> QED
        BY <3>5, <3>6, <3>7, <3>8, Zenon DEF Kept
    <2>3. \/ f = [worker |-> t, res |-> "ok"]
          \/ /\ w.failures < MaxFailures
             /\ \E g \in SendFails(s) : f = [worker |-> g, res |-> "error"]
      BY <1>3, Zenon DEF Flush
    <2> QED
      BY <2>1, <2>2, <2>3, Zenon
  <1> QED
    BY <1>2, <1>3, Zenon

\* Making room for a record is a flush or nothing.
LEMMA RoomOutcomes ==
    ASSUME NEW w \in WorkerState, NEW r, NEW room \in MakeRoom(w, r)
    PROVE  /\ room.worker \in WorkerState
           /\ room.res \in {"ok", "error"}
           /\ Kept(w.buffer, w.stored, room.worker.buffer, room.worker.stored)
  <1>1. room \in Flush(w) \/ room = [worker |-> w, res |-> "ok"]
    BY Zenon DEF MakeRoom
  <1>2. CASE room = [worker |-> w, res |-> "ok"]
    <2>1. room.worker = w /\ room.res = "ok"
      BY <1>2
    <2> QED
      BY <2>1, Zenon DEF Kept
  <1> QED
    BY <1>1, <1>2, FlushOutcomes, Zenon

LEMMA RecordAppended ==
    ASSUME NEW w \in WorkerState, NEW r \in Records
    PROVE  /\ AppendRecord(w, r) \in WorkerState
           /\ AppendRecord(w, r).buffer = Append(w.buffer, r)
           /\ AppendRecord(w, r).stored = w.stored
  <1>1. Append(w.buffer, r) \in Seq(Records)
    BY DEF WorkerState
  <1> QED
    BY <1>1, SMTT(30) DEF AppendRecord, WorkerState

LEMMA TimerStarted ==
    ASSUME NEW w \in WorkerState
    PROVE  /\ StartTimer(w) \in WorkerState
           /\ StartTimer(w).buffer = w.buffer
           /\ StartTimer(w).stored = w.stored
  BY OutputAssumption, Zenon DEF StartTimer, WorkerState

-----------------------------------------------------------------------------
(* What the worker and the callers do to the records on their way.         *)

LEMMA KeptRecords ==
    ASSUME NEW b, NEW s, NEW b1, NEW s1, Kept(b, s, b1, s1)
    PROVE  /\ Range(b1) \subseteq Range(b)
           /\ s \cup Range(b) = s1 \cup Range(b1)
           /\ s \subseteq s1
  BY RangeEmpty, Zenon DEF Kept

\* The manager's records stay gapless when a buffer is stored.
LEMMA StoreGapless ==
    ASSUME NEW b \in Seq(Records), NEW s, NEW q,
           accepted \in Seq(Records), Increasing(accepted), Held(b, s, q), Gapless(s)
    PROVE  Gapless(s \cup Range(b))
  <1>1. CASE b = <<>>
    BY <1>1, RangeEmpty, Zenon
  <1>2. CASE b # <<>>
    <2>1. PICK n \in 0 .. Len(accepted) : s = First(n)
      BY Zenon DEF Gapless
    <2>2. Len(b) \in 1 .. Len(b) /\ b[Len(b)] \in Records
      BY <1>2
    <2>3. b[Len(b)] \in Range(accepted)
      BY <2>2, RangeOf, Zenon DEF Held
    <2>4. PICK m \in 1 .. Len(accepted) : accepted[m] = b[Len(b)]
      BY <2>3, RangeOf, Zenon
    <2>5. PICK l \in 0 .. Len(accepted) : (l = n \/ l = m) /\ n <= l /\ m <= l
      BY <2>1, <2>4
    <2>6. \A i \in 1 .. Len(accepted) : accepted[i] \in Nat /\ i \in Nat
      <3>1. \A i \in 1 .. Len(accepted) : i \in Nat
        OBVIOUS
      <3> QED
        BY <3>1, RangeOf, RecordNumbers, Zenon
    <2>7. \A i \in 1 .. Len(accepted) : accepted[i] <= accepted[m] => i <= m
      BY <2>4, <2>6 DEF Increasing
    <2>8. \A i \in 1 .. m : i \in 1 .. Len(accepted) /\ accepted[i] <= accepted[m]
      BY <2>4, <2>6 DEF Increasing
    <2>9. \A j \in 1 .. Len(b) : b[j] <= b[Len(b)] /\ b[j] \in Records
      <3>1. \A j \in 1 .. Len(b) : b[j] \in Records /\ j <= Len(b)
        OBVIOUS
      <3>2. \A j \in 1 .. Len(b) : j < Len(b) => b[j] < b[Len(b)]
        BY <2>2, Zenon DEF Held, Increasing
      <3> QED
        <4>1. \A j \in 1 .. Len(b) : b[j] \in Nat
          BY <3>1, RecordNumbers, Zenon
        <4>2. \A j \in 1 .. Len(b) : j < Len(b) \/ j = Len(b)
          OBVIOUS
        <4>3. \A j \in 1 .. Len(b) : b[j] <= b[Len(b)]
          BY <2>2, <3>2, <4>1, <4>2
        <4> QED
          BY <3>1, <4>3, Zenon
    <2>10. \A x \in Range(b) : x <= accepted[m]
      BY <2>4, <2>9, RangeOf, Zenon
    <2>11. Range(b) \subseteq First(m)
      <3> SUFFICES ASSUME NEW x \in Range(b) PROVE x \in First(m)
        BY Zenon
      <3>1. x \in Range(accepted)
        BY Zenon DEF Held
      <3>2. PICK i \in 1 .. Len(accepted) : accepted[i] = x
        BY <3>1, RangeOf, Zenon
      <3>3. i <= m
        BY <2>7, <2>10, <3>2, Zenon
      <3>4. i \in 1 .. m
        BY <2>4, <3>2, <3>3
      <3> QED
        BY <3>2, <3>4, Zenon DEF First
    <2>12. First(m) \subseteq s \cup Range(b)
      <3> SUFFICES ASSUME NEW i \in 1 .. m PROVE accepted[i] \in s \cup Range(b)
        BY Zenon DEF First
      <3>1. i \in 1 .. Len(accepted) /\ accepted[i] <= accepted[m]
        BY <2>8, Zenon
      <3>2. accepted[i] \in Range(accepted)
        BY <3>1, RangeOf, Zenon
      <3>3. b[Len(b)] \in Range(b)
        BY <2>2, RangeOf, Zenon
      <3>4. accepted[i] \in Queued(q) => accepted[m] < accepted[i]
        BY <2>4, <3>3, Zenon DEF Held
      <3>5. ~(accepted[m] < accepted[i])
        BY <2>4, <2>6, <3>1
      <3> QED
        BY <3>2, <3>4, <3>5, Zenon DEF Held
    <2>13. First(l) = First(n) \cup First(m)
      <3>1. 1 .. l = (1 .. n) \cup (1 .. m)
        BY <2>1, <2>4, <2>5
      <3> QED
        BY <3>1, Zenon DEF First
    <2>14. First(l) = s \cup Range(b)
      BY <2>1, <2>11, <2>12, <2>13, Zenon
    <2> QED
      BY <2>5, <2>14, Zenon DEF Gapless
  <1> QED
    BY <1>1, <1>2, Zenon

\* A send keeps the records in order, whether it succeeds or not.
LEMMA FlushKeeps ==
    ASSUME NEW b \in Seq(Records), NEW s, NEW q, NEW b1, NEW s1, Kept(b, s, b1, s1),
           accepted \in Seq(Records), Increasing(accepted),
           Held(b, s, q), Ahead(b, s, q), Gapless(s)
    PROVE  Held(b1, s1, q) /\ Ahead(b1, s1, q) /\ Gapless(s1)
  <1>1. Range(b1) \subseteq Range(b) /\ s \cup Range(b) = s1 \cup Range(b1)
    BY KeptRecords, Zenon
  <1>2. Increasing(b1)
    <2>1. Increasing(<<>>)
      BY DEF Increasing
    <2> QED
      BY <2>1, Zenon DEF Kept, Held
  <1>3. Held(b1, s1, q)
    BY <1>1, <1>2, Zenon DEF Held
  <1>4. Ahead(b1, s1, q)
    BY <1>1, Zenon DEF Ahead
  <1>5. Gapless(s1)
    BY StoreGapless, Zenon DEF Kept
  <1> QED
    BY <1>3, <1>4, <1>5, Zenon

\* The worker takes the first request, and its record, if it has one, is put
\* behind the buffer.
LEMMA ReceiveKeeps ==
    ASSUME NEW b \in Seq(Records), NEW s, NEW q \in Seq(Request), q # <<>>,
           NEW b1, b1 = IF Head(q).record = 0 THEN b ELSE Append(b, Head(q).record),
           Held(b, s, q), Ahead(b, s, q)
    PROVE  /\ Held(b1, s, Tail(q)) /\ Ahead(b1, s, Tail(q))
           /\ b1 \in Seq(Records)
           /\ Range(b1) = Range(b) \cup ({Head(q).record} \ {0})
  <1> DEFINE r == Head(q).record
  <1>1. r \in Records \cup {0} /\ r = q[1].record
    BY ReceivedRequests, Zenon DEF Request
  <1>2. Queued(q) = Queued(Tail(q)) \cup ({r} \ {0})
    BY QueuedTail, Zenon
  <1>3. r # 0 => r \in Records /\ b1 = Append(b, r)
    BY <1>1, Zenon
  <1>4. Range(b1) = Range(b) \cup ({r} \ {0})
    <2>1. r # 0 => Range(b1) = Range(b) \cup {r}
      BY <1>3, RangeAppend, Zenon
    <2>2. r = 0 => b1 = b
      BY Zenon
    <2> HIDE DEF r
    <2> QED
      BY <2>1, <2>2, Zenon
  <1>5. b1 \in Seq(Records)
    <2>1. r # 0 => Append(b, r) \in Seq(Records)
      BY <1>3
    <2> QED
      BY <1>3, <2>1, Zenon
  <1>6. Increasing(b1)
    <2>1. r # 0 => \A x \in Range(b) : x < r
      BY <1>2, Zenon DEF Held
    <2>2. r # 0 => Increasing(Append(b, r))
      BY <1>3, <2>1, IncreasingAppend, Zenon DEF Held
    <2> QED
      BY <1>3, <2>2, Zenon DEF Held
  <1>7. \A j, k \in 1 .. Len(Tail(q)) :
           j < k /\ Tail(q)[j].record # 0 /\ Tail(q)[k].record # 0
             => Tail(q)[j].record < Tail(q)[k].record
    <2>1. \A k \in 1 .. Len(Tail(q)) : Tail(q)[k] = q[k + 1] /\ k + 1 \in 1 .. Len(q)
      BY ReceivedRequests, Zenon
    <2>2. \A j, k \in 1 .. Len(Tail(q)) : j < k => j + 1 < k + 1
      BY ReceivedRequests, Zenon
    <2> QED
      BY <2>1, <2>2, Zenon DEF Held
  <1>8. \A x \in Queued(Tail(q)) : r # 0 => r < x
    <2> SUFFICES ASSUME NEW x \in Queued(Tail(q)), r # 0 PROVE r < x
      BY Zenon
    <2>1. PICK k \in 1 .. Len(Tail(q)) : x = Tail(q)[k].record /\ x # 0
      BY Zenon DEF Queued
    <2>2. k + 1 \in 1 .. Len(q) /\ 1 < k + 1 /\ x = q[k + 1].record /\ 1 \in 1 .. Len(q)
      BY <2>1, ReceivedRequests, Zenon
    <2> QED
      BY <1>1, <2>1, <2>2, Zenon DEF Held
  <1> HIDE DEF r
  <1>9. Held(b1, s, Tail(q))
    <2>1. \A x \in Range(b1), y \in Queued(Tail(q)) : x < y
      BY <1>2, <1>4, <1>8, Zenon DEF Held
    <2>2. Range(b1) \cup Queued(Tail(q)) = Range(b) \cup Queued(q)
      BY <1>2, <1>4, Zenon
    <2>3. s \cup Range(b1) \cup Queued(Tail(q)) = s \cup Range(b) \cup Queued(q)
      BY <1>2, <1>4, Zenon
    <2> QED
      BY <1>6, <1>7, <2>1, <2>2, <2>3, Zenon DEF Held
  <1>10. Ahead(b1, s, Tail(q))
    <2> SUFFICES ASSUME NEW k \in 1 .. Len(Tail(q)), Tail(q)[k].kind = "flush",
                        NEW x \in before[Tail(q)[k].from],
                        x \notin s, x \notin Range(b1)
                 PROVE  x \in {Tail(q)[j].record : j \in 1 .. k - 1} \ {0}
      BY Zenon DEF Ahead
    <2>1. Tail(q)[k] = q[k + 1] /\ k + 1 \in 1 .. Len(q)
      BY ReceivedRequests, Zenon
    <2>2. x \in {q[j].record : j \in 1 .. (k + 1) - 1} \ {0}
      BY <1>4, <2>1, Zenon DEF Ahead
    <2>3. PICK j \in 1 .. (k + 1) - 1 : x = q[j].record /\ x # 0
      BY <2>2, Zenon
    <2>4. j # 1
      BY <1>1, <1>4, <2>3, Zenon
    <2>5. j - 1 \in 1 .. k - 1 /\ j - 1 \in 1 .. Len(q) - 1 /\ (j - 1) + 1 = j
      BY <2>3, <2>4, ReceivedRequests
    <2>6. Tail(q)[j - 1] = q[j]
      BY <2>5, ReceivedRequests, Zenon
    <2> QED
      BY <2>3, <2>5, <2>6, Zenon
  <1> QED
    BY <1>4, <1>5, <1>9, <1>10, Zenon DEF r

\* Records and what flushes wait for do not change while the worker runs.
LEMMA Delivered ==
    ASSUME UNCHANGED <<accepted, before>>, Gapless(stored'),
           ~exited' => Held(buffer', stored', requests') /\ Ahead(buffer', stored', requests'),
           \A c \in Callers : before[c] \subseteq Range(accepted)
    PROVE  Delivering'
  <1>1. Gapless(stored)'
    BY Zenon DEF Gapless, First
  <1>2. ~exited' => Held(buffer, stored, requests)'
    BY Zenon DEF Held, Queued, Increasing
  <1>3. ~exited' => Ahead(buffer, stored, requests)'
    BY Zenon DEF Ahead
  <1> QED
    BY <1>1, <1>2, <1>3, Zenon DEF Delivering

\* A record that is accepted goes to the end of the queue.
LEMMA RecordSent ==
    ASSUME NEW m \in Request, m.record # 0, m.kind # "flush",
           TypeOK, Delivering, Increasing(accepted), ~exited,
           \A x \in Range(accepted) : x < m.record,
           requests' = Append(requests, m), accepted' = Append(accepted, m.record),
           UNCHANGED <<exited, buffer, stored, before>>
    PROVE  Delivering' /\ Increasing(accepted)' /\ accepted' \in Seq(Records)
           /\ Range(accepted') = Range(accepted) \cup {m.record}
  <1>1. accepted \in Seq(Records) /\ requests \in Seq(Request) /\ buffer \in Seq(Records)
    BY Zenon DEF TypeOK
  <1>0. /\ requests'[Len(requests) + 1] = m
        /\ \A k \in 1 .. Len(requests) : requests'[k] = requests[k]
        /\ \A k \in 1 .. Len(requests') : k \in 1 .. Len(requests) \/ k = Len(requests) + 1
        /\ \A j, k \in 1 .. Len(requests') : j < k => j \in 1 .. Len(requests)
    BY <1>1, AppendedRequests, Zenon
  <1>2. m.record \in Records
    BY DEF Request
  <1>3. Range(accepted') = Range(accepted) \cup {m.record}
    BY <1>1, <1>2, RangeAppend, Zenon
  <1>4. Increasing(accepted')
    BY <1>1, <1>2, IncreasingAppend, Zenon
  <1>5. accepted' \in Seq(Records) /\ Len(accepted') = Len(accepted) + 1
        /\ \A k \in 1 .. Len(accepted) : accepted'[k] = accepted[k]
    BY <1>1, <1>2
  <1>6. Held(buffer, stored, requests) /\ Ahead(buffer, stored, requests) /\ Gapless(stored)
    BY Zenon DEF Delivering
  <1>7. Gapless(stored)'
    <2>1. PICK n \in 0 .. Len(accepted) : stored = First(n)
      BY <1>6, Zenon DEF Gapless
    <2>2. n \in 0 .. Len(accepted') /\ \A k \in 1 .. n : k \in 1 .. Len(accepted)
      BY <1>1, <1>5
    <2>3. First(n)' = First(n)
      BY <1>5, <2>2, Zenon DEF First
    <2> QED
      BY <2>1, <2>2, <2>3, Zenon DEF Gapless
  <1>8. Queued(requests') = Queued(requests) \cup {m.record}
    BY <1>1, QueuedAppend, Zenon
  <1>9. Held(buffer, stored, requests)'
    <2>1. \A x \in Range(buffer) \cup Queued(requests) : x < m.record
      BY <1>6, Zenon DEF Held
    <2>2. \A k \in 1 .. Len(requests) :
             requests[k].record # 0 => requests[k].record < m.record
      BY <2>1, Zenon DEF Queued
    <2>3. \A j, k \in 1 .. Len(requests') :
             j < k /\ requests'[j].record # 0 /\ requests'[k].record # 0
               => requests'[j].record < requests'[k].record
      <3> SUFFICES ASSUME NEW j \in 1 .. Len(requests'), NEW k \in 1 .. Len(requests'),
                          j < k, requests'[j].record # 0, requests'[k].record # 0
                   PROVE  requests'[j].record < requests'[k].record
        BY Zenon
      <3>1. j \in 1 .. Len(requests) /\ requests'[j] = requests[j]
        BY <1>0, Zenon
      <3>2. CASE k \in 1 .. Len(requests)
        <4>1. requests'[k] = requests[k]
          BY <1>0, <3>2, Zenon
        <4> QED
          BY <1>6, <3>1, <3>2, <4>1, Zenon DEF Held
      <3>3. CASE k = Len(requests) + 1
        <4>1. requests'[k] = m
          BY <1>0, <3>3, Zenon
        <4> QED
          BY <2>2, <3>1, <4>1, Zenon
      <3> QED
        BY <1>0, <3>2, <3>3, Zenon
    <2>4. \A x \in Range(buffer), y \in Queued(requests') : x < y
      BY <1>6, <1>8, <2>1, Zenon DEF Held
    <2>5. /\ Range(buffer) \cup Queued(requests') \subseteq Range(accepted')
          /\ Range(accepted') \subseteq stored \cup Range(buffer) \cup Queued(requests')
      BY <1>3, <1>6, <1>8, Zenon DEF Held
    <2>6. Increasing(buffer)'
      BY <1>6, Zenon DEF Held, Increasing
    <2> QED
      BY <2>3, <2>4, <2>5, <2>6, Zenon DEF Held, Queued
  <1>10. Ahead(buffer, stored, requests)'
    <2> SUFFICES ASSUME NEW k \in 1 .. Len(requests'), requests'[k].kind = "flush"
                 PROVE  before[requests'[k].from] \subseteq
                            stored \cup Range(buffer)
                              \cup ({requests'[j].record : j \in 1 .. k - 1} \ {0})
      BY Zenon DEF Ahead
    <2>1. k # Len(requests) + 1
      BY <1>0, Zenon
    <2>2. k \in 1 .. Len(requests) /\ requests'[k] = requests[k]
      BY <1>0, <2>1, Zenon
    <2>3. \A j \in 1 .. k - 1 : j \in 1 .. Len(requests)
      BY <1>1, <2>2
    <2>4. \A j \in 1 .. k - 1 : requests'[j] = requests[j]
      BY <1>0, <2>3, Zenon
    <2>5. {requests'[j].record : j \in 1 .. k - 1} = {requests[j].record : j \in 1 .. k - 1}
      BY <2>4, Zenon
    <2> QED
      BY <1>6, <2>2, <2>5, Zenon DEF Ahead
  <1>11. \A c \in Callers : before'[c] \subseteq Range(accepted')
    BY <1>3, Zenon DEF Delivering
  <1>12. Delivering'
    BY <1>7, <1>9, <1>10, <1>11, Zenon DEF Delivering
  <1> QED
    BY <1>3, <1>4, <1>5, <1>12, Zenon DEF Increasing

\* A request without a record goes to the end of the queue; what a flush waits
\* for is ahead of it.
LEMMA CallSent ==
    ASSUME NEW m \in Request, m.record = 0, m.kind = "flush" => m.from \in Callers,
           TypeOK, Delivering,
           requests' = Append(requests, m),
           UNCHANGED <<exited, buffer, stored, before, accepted>>
    PROVE  Delivering'
  <1>1. requests \in Seq(Request) /\ exited \in BOOLEAN
    BY Zenon DEF TypeOK
  <1>0. /\ requests'[Len(requests) + 1] = m
        /\ \A k \in 1 .. Len(requests) : requests'[k] = requests[k]
        /\ \A k \in 1 .. Len(requests') : k \in 1 .. Len(requests) \/ k = Len(requests) + 1
        /\ \A j, k \in 1 .. Len(requests') : j < k => j \in 1 .. Len(requests)
    BY <1>1, AppendedRequests, Zenon
  <1>2. Queued(requests') = Queued(requests)
    <2>1. Queued(requests') = Queued(requests) \cup ({m.record} \ {0})
      BY <1>1, QueuedAppend, Zenon
    <2> QED
      BY <2>1, Zenon
  <1>3. ASSUME ~exited PROVE Held(buffer, stored, requests')
    <2>1. Held(buffer, stored, requests)
      BY <1>3, Zenon DEF Delivering
    <2>2. \A j, k \in 1 .. Len(requests') :
             j < k /\ requests'[j].record # 0 /\ requests'[k].record # 0
               => requests'[j].record < requests'[k].record
      <3> SUFFICES ASSUME NEW j \in 1 .. Len(requests'), NEW k \in 1 .. Len(requests'),
                          j < k, requests'[j].record # 0, requests'[k].record # 0
                   PROVE  requests'[j].record < requests'[k].record
        BY Zenon
      <3>1. k # Len(requests) + 1
        BY <1>0, Zenon
      <3>2. /\ j \in 1 .. Len(requests) /\ requests'[j] = requests[j]
            /\ k \in 1 .. Len(requests) /\ requests'[k] = requests[k]
        BY <1>0, <3>1, Zenon
      <3> QED
        BY <2>1, <3>2, Zenon DEF Held
    <2> QED
      BY <1>2, <2>1, <2>2, Zenon DEF Held
  <1>4. ASSUME ~exited PROVE Ahead(buffer, stored, requests')
    <2>1. Held(buffer, stored, requests) /\ Ahead(buffer, stored, requests)
      BY <1>4, Zenon DEF Delivering
    <2> SUFFICES ASSUME NEW k \in 1 .. Len(requests'), requests'[k].kind = "flush"
                 PROVE  before[requests'[k].from] \subseteq
                            stored \cup Range(buffer)
                              \cup ({requests'[j].record : j \in 1 .. k - 1} \ {0})
      BY Zenon DEF Ahead
    <2>2. \A j \in 1 .. k - 1 : j \in 1 .. Len(requests)
      BY <1>1
    <2>3. \A j \in 1 .. k - 1 : requests'[j] = requests[j]
      BY <1>0, <2>2, Zenon
    <2>4. CASE k \in 1 .. Len(requests)
      <3>1. requests'[k] = requests[k]
        BY <1>0, <2>4, Zenon
      <3>2. {requests'[j].record : j \in 1 .. k - 1} = {requests[j].record : j \in 1 .. k - 1}
        BY <2>3, Zenon
      <3> QED
        BY <2>1, <2>4, <3>1, <3>2, Zenon DEF Ahead
    <2>5. CASE k = Len(requests) + 1
      <3>1. requests'[k] = m
        BY <1>0, <2>5, Zenon
      <3>2. before[m.from] \subseteq stored \cup Range(buffer) \cup Queued(requests)
        BY <2>1, <3>1, Zenon DEF Held, Delivering
      <3>3. k - 1 = Len(requests)
        BY <1>1, <2>5
      <3>4. Queued(requests) = {requests'[j].record : j \in 1 .. k - 1} \ {0}
        BY <2>3, <3>3, Zenon DEF Queued
      <3> QED
        BY <3>1, <3>2, <3>4, Zenon
    <2> QED
      BY <1>0, <2>4, <2>5, Zenon
  <1> QED
    BY <1>3, <1>4, Delivered, Zenon DEF Delivering

-----------------------------------------------------------------------------
(* What keeps the parts of the invariant that a step does not touch.       *)

LEMMA StillDelivering ==
    ASSUME Delivering, UNCHANGED <<accepted, before, stored, buffer, requests, exited>>
    PROVE  Delivering'
  <1>1. Gapless(stored')
    BY Zenon DEF Delivering
  <1>2. ~exited' => Held(buffer', stored', requests') /\ Ahead(buffer', stored', requests')
    BY Zenon DEF Delivering
  <1> QED
    BY <1>1, <1>2, Delivered, Zenon DEF Delivering

\* A call that begins has no request in the channel yet.
LEMMA CallBegins ==
    ASSUME NEW c \in Callers, pc[c] = "idle", TypeOK, Waiting, Delivering,
           before' = [before EXCEPT ![c] = Range(accepted)],
           UNCHANGED <<accepted, stored, buffer, requests, exited>>
    PROVE  /\ Delivering'
           /\ \A d \in Callers : reply[d] # "none" => before'[d] = before[d]
  <1>1. \A d \in Callers : before'[d] = IF d = c THEN Range(accepted) ELSE before[d]
    BY Zenon DEF TypeOK
  <1>2. \A k \in 1 .. Len(requests) :
           requests[k].kind = "flush" =>
               requests[k].from \in Callers /\ requests[k].from # c
    BY Zenon DEF Waiting, Callers
  <1>3. Gapless(stored)'
    <2>1. accepted' = accepted /\ stored' = stored
      BY Zenon
    <2>2. PICK n \in 0 .. Len(accepted) : stored = First(n)
      BY Zenon DEF Delivering, Gapless
    <2>3. First(n)' = First(n)
      BY <2>1, Zenon DEF First
    <2> QED
      BY <2>1, <2>2, <2>3, Zenon DEF Gapless
  <1>4. ~exited' => Held(buffer, stored, requests)'
    BY Zenon DEF Held, Queued, Increasing, Delivering
  <1>5. ~exited' => Ahead(buffer, stored, requests)'
    <2>1. \A k \in 1 .. Len(requests) :
             requests[k].kind = "flush" => before'[requests[k].from] = before[requests[k].from]
      BY <1>1, <1>2, Zenon
    <2>2. ASSUME ~exited, NEW k \in 1 .. Len(requests), requests[k].kind = "flush"
          PROVE  before'[requests[k].from] \subseteq
                     stored \cup Range(buffer)
                       \cup ({requests[j].record : j \in 1 .. k - 1} \ {0})
      BY <2>1, <2>2, Zenon DEF Ahead, Delivering
    <2>3. stored' = stored /\ buffer' = buffer /\ requests' = requests /\ exited' = exited
      BY Zenon
    <2>4. ASSUME ~exited', NEW k \in 1 .. Len(requests'), requests'[k].kind = "flush"
          PROVE  before'[requests'[k].from] \subseteq
                     stored' \cup Range(buffer')
                       \cup ({requests'[j].record : j \in 1 .. k - 1} \ {0})
      BY <2>2, <2>3, <2>4
    <2> QED
      BY <2>4, Zenon DEF Ahead
  <1>6. \A d \in Callers : before'[d] \subseteq Range(accepted')
    BY <1>1, Zenon DEF Delivering
  <1>7. \A d \in Callers : reply[d] # "none" => before'[d] = before[d]
    BY <1>1, Zenon DEF Waiting
  <1> QED
    BY <1>3, <1>4, <1>5, <1>6, <1>7, Zenon DEF Delivering

\* Callers that wait or have returned do not leave.
LEMMA StillWaiting ==
    ASSUME TypeOK, Waiting, UNCHANGED <<requests, reply>>,
           \A d \in Callers : pc[d] \in {"wait", "done"} => pc'[d] \in {"wait", "done"}
    PROVE  Waiting'
  <1>0. \A k \in 1 .. Len(requests) : requests[k].kind \in {"emit", "flush", "close"}
    <2>1. \A k \in 1 .. Len(requests) : requests[k] \in Request
      BY DEF TypeOK
    <2>2. \A q \in Request : q.kind \in {"emit", "flush", "close"}
      BY DEF Request
    <2> QED
      BY <2>1, <2>2, Zenon
  <1>1. \A k \in 1 .. Len(requests) :
           requests[k].kind # "emit" => requests[k].from \in Callers
    BY <1>0, Zenon DEF Waiting, Callers
  <1>2. \A k \in 1 .. Len(requests) :
           requests[k].kind # "emit" => pc'[requests[k].from] \in {"wait", "done"}
    <2> SUFFICES ASSUME NEW k \in 1 .. Len(requests), requests[k].kind # "emit"
                 PROVE  pc'[requests[k].from] \in {"wait", "done"}
      BY Zenon
    <2>1. pc[requests[k].from] \in {"wait", "done"}
      BY Zenon DEF Waiting
    <2> QED
      BY <1>1, <2>1, Zenon
  <1> QED
    BY <1>2, Zenon DEF Waiting

-----------------------------------------------------------------------------
(* Callers.                                                                *)

LEMMA EmitInv ==
    ASSUME IInv, Emit
    PROVE  IInv'
  <1> DEFINE m == [kind |-> "emit", record |-> emitted + 1, from |-> "emitter"]
  <1>0. TypeOK /\ AcceptedInOrder /\ ClosedByCloser /\ Waiting /\ Delivering /\ Answers
    BY Zenon DEF IInv
  <1>1. emitted' = emitted + 1 /\ emitted' \in 0 .. NumEmits /\ emitted + 1 \in Records
        /\ emitted + 1 < LastRecord /\ emitted + 1 # 0
    BY <1>0, OutputAssumption DEF Emit, TypeOK, Records, LastRecord
  <1>2. UNCHANGED <<closed, exited, buffer, armed, stored, failures, pc, result, before, reply>>
    BY Zenon DEF Emit, workerVars, callVars
  <1>3. ASSUME NEW n \in Records, n <= emitted \/ n = LastRecord
        PROVE  n <= emitted' \/ n = LastRecord
    BY <1>0, <1>1, <1>3, RecordNumbers DEF TypeOK
  <1>4. \A k \in 1 .. Len(accepted) : accepted[k] \in Records
    BY <1>0, RangeOf, Zenon DEF TypeOK
  <1>5. CASE UNCHANGED <<requests, accepted>>
    <2>1. TypeOK'
      BY <1>0, <1>1, <1>2, <1>5, Zenon DEF TypeOK
    <2>2. AcceptedInOrder'
      <3>1. \A k \in 1 .. Len(accepted) : accepted[k] <= emitted' \/ accepted[k] = LastRecord
        BY <1>0, <1>3, <1>4, Zenon DEF AcceptedInOrder
      <3> QED
        BY <1>0, <1>2, <1>5, <3>1, Zenon DEF AcceptedInOrder, Increasing
    <2>3. ClosedByCloser'
      BY <1>0, <1>2, <1>5, Zenon DEF ClosedByCloser
    <2>4. Waiting'
      BY <1>0, <1>2, <1>5, StillWaiting, Zenon
    <2>5. Delivering'
      BY <1>0, <1>2, <1>5, StillDelivering, Zenon
    <2>6. Answers'
      BY <1>0, <1>2, <1>5, Zenon DEF Answers, FlushAnswered
    <2> QED
      BY <2>1, <2>2, <2>3, <2>4, <2>5, <2>6, Zenon DEF IInv
  <1>6. CASE /\ ~closed /\ Len(requests) < ChannelCap
             /\ requests' = Append(requests, m)
             /\ accepted' = Append(accepted, m.record)
    <2>1. m \in Request /\ m.record = emitted + 1 /\ m.kind = "emit" /\ m.from = "emitter"
      BY <1>1 DEF Request
    <2> HIDE DEF m
    <2>2. accepted \in Seq(Records) /\ requests \in Seq(Request) /\ exited \in BOOLEAN
      BY <1>0, Zenon DEF TypeOK
    <2>3. ~exited /\ LastRecord \notin Range(accepted)
      BY <1>0, <1>6, <2>2, Zenon DEF ClosedByCloser, AcceptedInOrder
    <2>4. \A k \in 1 .. Len(accepted) : accepted[k] <= emitted /\ accepted[k] \in Nat
      BY <1>0, <1>4, <2>2, <2>3, RangeOf, RecordNumbers, Zenon DEF AcceptedInOrder
    <2>5. \A k \in 1 .. Len(accepted) : accepted[k] < emitted + 1 /\ accepted[k] <= emitted + 1
      BY <1>0, <2>4 DEF TypeOK
    <2>6. \A x \in Range(accepted) : x < emitted + 1
      BY <2>2, <2>5, RangeOf, Zenon
    <2>7. Increasing(accepted)
      BY <1>0, Zenon DEF AcceptedInOrder
    <2>8. /\ Delivering' /\ Increasing(accepted)' /\ accepted' \in Seq(Records)
          /\ Range(accepted') = Range(accepted) \cup {emitted + 1}
      BY <1>0, <1>1, <1>2, <1>6, <2>1, <2>3, <2>6, <2>7, RecordSent, Zenon
    <2>9. /\ requests' \in Seq(Request) /\ Len(requests') = Len(requests) + 1
          /\ requests'[Len(requests) + 1] = m
          /\ \A k \in 1 .. Len(requests) : requests'[k] = requests[k]
          /\ \A k \in 1 .. Len(requests') : k \in 1 .. Len(requests) \/ k = Len(requests) + 1
          /\ \A j, k \in 1 .. Len(requests') : j < k => j \in 1 .. Len(requests)
      BY <1>6, <2>1, <2>2, AppendedRequests, Zenon
    <2>10. TypeOK'
      <3>1. Len(requests') <= ChannelCap
        BY <1>6, <2>2, <2>9, OutputAssumption
      <3> QED
        BY <1>0, <1>1, <1>2, <2>8, <2>9, <3>1, Zenon DEF TypeOK
    <2>11. AcceptedInOrder'
      <3>1. LastRecord \notin Range(accepted')
        <4>1. LastRecord # emitted + 1
          BY <1>0, <1>1, OutputAssumption DEF TypeOK, LastRecord
        <4> QED
          BY <2>3, <2>8, <4>1, Zenon
      <3>2. \A k \in 1 .. Len(accepted') : accepted'[k] <= emitted'
        <4>1. \A x \in Range(accepted') : x \in Nat /\ (x < emitted + 1 \/ x = emitted + 1)
          BY <2>6, <2>8, RangeOf, RecordNumbers, Zenon
        <4>2. \A x \in Range(accepted') : x <= emitted'
          BY <1>0, <1>1, <4>1 DEF TypeOK
        <4> QED
          BY <2>8, <4>2, RangeOf, Zenon
      <3> QED
        BY <2>8, <3>1, <3>2, Zenon DEF AcceptedInOrder
    <2>12. ClosedByCloser'
      <3>1. \A k \in 1 .. Len(requests') : requests'[k].kind # "close"
        BY <1>0, <1>6, <2>1, <2>9, Zenon DEF ClosedByCloser
      <3> QED
        BY <1>0, <1>2, <3>1, Zenon DEF ClosedByCloser
    <2>13. Waiting'
      <3>1. \A k \in 1 .. Len(requests') : requests'[k].kind # "close"
        BY <1>0, <1>6, <2>1, <2>9, Zenon DEF ClosedByCloser
      <3>2. ASSUME NEW k \in 1 .. Len(requests')
            PROVE  /\ requests'[k].kind = "emit" => requests'[k].record # 0
                   /\ requests'[k].kind = "flush" =>
                         requests'[k].record = 0 /\ requests'[k].from \in Flushers
                   /\ requests'[k].kind # "emit" => pc[requests'[k].from] \in {"wait", "done"}
        <4>1. CASE k \in 1 .. Len(requests)
          <5>1. requests'[k] = requests[k]
            BY <2>9, <4>1, Zenon
          <5> QED
            BY <1>0, <4>1, <5>1, Zenon DEF Waiting
        <4>2. CASE k = Len(requests) + 1
          <5>1. requests'[k] = m
            BY <2>9, <4>2, Zenon
          <5> QED
            BY <1>1, <2>1, <5>1, Zenon
        <4> QED
          BY <2>9, <4>1, <4>2, Zenon
      <3> QED
        BY <1>0, <1>2, <3>1, <3>2, Zenon DEF Waiting
    <2>14. Answers'
      <3>1. \A c \in Closers : reply[c] = "none"
        BY <1>0, <2>3, Zenon DEF Answers
      <3>2. \A c \in Closers : /\ exited' <=> reply'[c] # "none"
                               /\ result'[c] = "ok" => reply'[c] = "ok"
                               /\ reply'[c] = "ok" => Range(accepted') \subseteq stored'
        BY <1>0, <1>2, <2>3, <3>1, Zenon DEF Answers
      <3> QED
        BY <1>0, <1>2, <3>2, Zenon DEF Answers, FlushAnswered
    <2> QED
      BY <2>8, <2>10, <2>11, <2>12, <2>13, <2>14, Zenon DEF IInv
  <1>7. \/ UNCHANGED <<requests, accepted>>
        \/ /\ ~closed /\ Len(requests) < ChannelCap
           /\ requests' = Append(requests, m)
           /\ accepted' = Append(accepted, m.record)
    BY DEF Emit
  <1> QED
    BY <1>5, <1>6, <1>7, Zenon

LEMMA CallFlushInv ==
    ASSUME NEW c \in Callers, IInv, CallFlush(c)
    PROVE  IInv'
  <1>0. TypeOK /\ AcceptedInOrder /\ ClosedByCloser /\ Waiting /\ Delivering /\ Answers
    BY Zenon DEF IInv
  <1>1. /\ UNCHANGED <<closed, requests, exited, buffer, armed, stored, failures, reply,
                       emitted, accepted>>
        /\ c \in Flushers /\ pc[c] = "idle"
        /\ before' = [before EXCEPT ![c] = Range(accepted)]
    BY Zenon DEF CallFlush, workerVars
  <1>2. /\ pc' \in [Callers -> {"idle", "enqueue", "wait", "done"}]
        /\ result' \in [Callers -> {"none", "ok", "error"}]
        /\ \A d \in Callers : d # c => pc'[d] = pc[d] /\ result'[d] = result[d]
    BY <1>0 DEF CallFlush, Return, TypeOK
  <1>3. c \notin Closers
    BY <1>1, OutputAssumption, Zenon
  <1>4. \A d \in Closers : d \in Callers /\ pc'[d] = pc[d] /\ result'[d] = result[d]
    BY <1>2, <1>3, Zenon DEF Callers
  <1>5. Delivering' /\ \A d \in Callers : reply[d] # "none" => before'[d] = before[d]
    BY <1>0, <1>1, CallBegins, Zenon
  <1>6. TypeOK'
    <2>1. Range(accepted) \subseteq Records
      BY <1>0, RangeOf, Zenon DEF TypeOK
    <2>2. before' \in [Callers -> SUBSET Records]
      BY <1>0, <1>1, <2>1 DEF TypeOK
    <2> QED
      BY <1>0, <1>1, <1>2, <2>2, Zenon DEF TypeOK
  <1>7. AcceptedInOrder'
    BY <1>0, <1>1, <1>4, Zenon DEF AcceptedInOrder, Increasing
  <1>8. ClosedByCloser'
    BY <1>0, <1>1, <1>4, Zenon DEF ClosedByCloser
  <1>9. Waiting'
    <2>1. \A d \in Callers : pc[d] \in {"wait", "done"} => pc'[d] \in {"wait", "done"}
      BY <1>1, <1>2, Zenon
    <2> QED
      BY <1>0, <1>1, <2>1, StillWaiting, Zenon
  <1>10. Answers'
    BY <1>0, <1>1, <1>4, <1>5, Zenon DEF Answers, FlushAnswered, Callers
  <1> QED
    BY <1>5, <1>6, <1>7, <1>8, <1>9, <1>10, Zenon DEF IInv

LEMMA CallCloseInv ==
    ASSUME NEW c \in Callers, IInv, CallClose(c)
    PROVE  IInv'
  <1>0. TypeOK /\ AcceptedInOrder /\ ClosedByCloser /\ Waiting /\ Delivering /\ Answers
    BY Zenon DEF IInv
  <1>1. /\ UNCHANGED <<requests, exited, buffer, armed, stored, failures, result, reply,
                       emitted, accepted>>
        /\ c \in Closers /\ pc[c] = "idle" /\ closed' = TRUE
        /\ before' = [before EXCEPT ![c] = Range(accepted)]
        /\ pc' = [pc EXCEPT ![c] = "enqueue"]
    BY Zenon DEF CallClose, workerVars
  <1>2. /\ pc' \in [Callers -> {"idle", "enqueue", "wait", "done"}]
        /\ pc'[c] = "enqueue" /\ \A d \in Callers : d # c => pc'[d] = pc[d]
    BY <1>0, <1>1 DEF TypeOK
  <1>3. \A d \in Closers : d = c
    BY <1>1, OutputAssumption, Zenon
  <1>4. ~exited
    BY <1>0, <1>1, Zenon DEF ClosedByCloser
  <1>5. Delivering' /\ \A d \in Callers : reply[d] # "none" => before'[d] = before[d]
    BY <1>0, <1>1, CallBegins, Zenon
  <1>6. TypeOK'
    <2>1. Range(accepted) \subseteq Records
      BY <1>0, RangeOf, Zenon DEF TypeOK
    <2>2. before' \in [Callers -> SUBSET Records]
      BY <1>0, <1>1, <2>1 DEF TypeOK
    <2> QED
      BY <1>0, <1>1, <1>2, <2>2, Zenon DEF TypeOK
  <1>7. AcceptedInOrder'
    <2>1. LastRecord \notin Range(accepted)
      BY <1>0, <1>1, Zenon DEF AcceptedInOrder
    <2> QED
      BY <1>0, <1>1, <2>1, Zenon DEF AcceptedInOrder, Increasing
  <1>8. ClosedByCloser'
    BY <1>1, <1>4, Zenon DEF ClosedByCloser
  <1>9. Waiting'
    <2>1. \A d \in Callers : pc[d] \in {"wait", "done"} => pc'[d] \in {"wait", "done"}
      BY <1>1, <1>2, Zenon
    <2> QED
      BY <1>0, <1>1, <2>1, StillWaiting, Zenon
  <1>10. Answers'
    BY <1>0, <1>1, <1>5, Zenon DEF Answers, FlushAnswered, Callers
  <1> QED
    BY <1>5, <1>6, <1>7, <1>8, <1>9, <1>10, Zenon DEF IInv

\* A caller that gives up before it has sent its request.
LEMMA EnqueueGivesUpInv ==
    ASSUME NEW c \in Callers, IInv, EnqueueGivesUp(c)
    PROVE  IInv'
  <1>0. TypeOK /\ AcceptedInOrder /\ ClosedByCloser /\ Waiting /\ Delivering /\ Answers
    BY Zenon DEF IInv
  <1>1. /\ UNCHANGED <<requests, exited, buffer, armed, stored, failures, before, reply,
                       emitted, accepted>>
        /\ pc[c] = "enqueue" /\ closed' = (closed /\ c \notin Closers)
        /\ pc' = [pc EXCEPT ![c] = "done"] /\ result' = [result EXCEPT ![c] = "error"]
    BY Zenon DEF EnqueueGivesUp, Return, workerVars
  <1>2. /\ pc' \in [Callers -> {"idle", "enqueue", "wait", "done"}]
        /\ result' \in [Callers -> {"none", "ok", "error"}]
        /\ pc'[c] = "done" /\ result'[c] = "error"
        /\ \A d \in Callers : d # c => pc'[d] = pc[d] /\ result'[d] = result[d]
    BY <1>0, <1>1 DEF TypeOK
  <1>3. c \in Closers => \A d \in Closers : d = c
    BY OutputAssumption, Zenon
  <1>4. c \notin Closers => closed' = closed
    BY <1>0, <1>1, Zenon DEF TypeOK
  <1>5. \A d \in Closers : d \in Callers
    BY Zenon DEF Callers
  <1>6. TypeOK'
    <2>1. closed' \in BOOLEAN
      BY <1>1, Zenon
    <2> QED
      BY <1>0, <1>1, <1>2, <2>1, Zenon DEF TypeOK
  <1>7. AcceptedInOrder'
    <2>1. c \in Closers => LastRecord \notin Range(accepted)
      BY <1>0, <1>1, Zenon DEF AcceptedInOrder
    <2>2. \A d \in Closers : pc[d] \in {"wait", "done"} => pc'[d] \in {"wait", "done"}
      BY <1>2, <1>5, Zenon
    <2> QED
      BY <1>0, <1>1, <1>4, <2>1, <2>2, Zenon DEF AcceptedInOrder, Increasing
  <1>8. ClosedByCloser'
    <2>1. CASE c \in Closers
      <3>1. ~exited
        BY <1>0, <1>1, <2>1, Zenon DEF ClosedByCloser
      <3>2. \A k \in 1 .. Len(requests) : requests[k].kind # "close"
        <4> SUFFICES ASSUME NEW k \in 1 .. Len(requests), requests[k].kind = "close"
                     PROVE  FALSE
          BY Zenon
        <4>1. requests[k].from \in Closers /\ pc[requests[k].from] \in {"wait", "done"}
          BY <1>0, Zenon DEF Waiting
        <4> QED
          BY <1>1, <1>3, <2>1, <4>1, Zenon
      <3>3. \A d \in Closers : pc'[d] = "done"
        BY <1>2, <1>3, <2>1, Zenon
      <3> QED
        BY <1>1, <3>1, <3>2, <3>3, Zenon DEF ClosedByCloser
    <2>2. CASE c \notin Closers
      <3>1. \A d \in Closers : pc'[d] = pc[d]
        BY <1>2, <1>5, <2>2, Zenon
      <3> QED
        BY <1>0, <1>1, <1>4, <2>2, <3>1, Zenon DEF ClosedByCloser
    <2> QED
      BY <2>1, <2>2, Zenon
  <1>9. Waiting'
    <2>1. \A d \in Callers : pc[d] \in {"wait", "done"} => pc'[d] \in {"wait", "done"}
      BY <1>2, Zenon
    <2> QED
      BY <1>0, <1>1, <2>1, StillWaiting, Zenon
  <1>10. Delivering'
    BY <1>0, <1>1, StillDelivering, Zenon
  <1>11. Answers'
    <2>1. \A d \in Closers : result'[d] = "ok" => result[d] = "ok"
      BY <1>2, <1>5, Zenon
    <2> QED
      BY <1>0, <1>1, <2>1, Zenon DEF Answers, FlushAnswered
  <1> QED
    BY <1>6, <1>7, <1>8, <1>9, <1>10, <1>11, Zenon DEF IInv

\* A caller that waits returns with the reply, or without one.  A closer has a
\* reply whenever the worker has left.
LEMMA WaitInv ==
    ASSUME NEW c \in Callers, IInv, Wait(c) \/ WaitGivesUp(c)
    PROVE  IInv'
  <1>0. TypeOK /\ AcceptedInOrder /\ ClosedByCloser /\ Waiting /\ Delivering /\ Answers
    BY Zenon DEF IInv
  <1>1. PICK v : /\ Return(c, v)
                 /\ v = reply[c] \/ (exited /\ reply[c] = "none" /\ v = "ok") \/ v = "error"
    BY Zenon DEF Wait, WaitGivesUp
  <1>2. /\ UNCHANGED <<closed, requests, exited, buffer, armed, stored, failures, before,
                       reply, emitted, accepted>>
        /\ pc[c] = "wait"
    BY Zenon DEF Wait, WaitGivesUp, workerVars
  <1>3. v \in {"none", "ok", "error"} /\ (c \in Closers /\ v = "ok" => reply[c] = "ok")
    BY <1>0, <1>1 DEF TypeOK, Answers
  <1>4. /\ pc' \in [Callers -> {"idle", "enqueue", "wait", "done"}]
        /\ result' \in [Callers -> {"none", "ok", "error"}]
        /\ pc'[c] = "done" /\ result'[c] = v
        /\ \A d \in Callers : d # c => pc'[d] = pc[d] /\ result'[d] = result[d]
    BY <1>0, <1>1, <1>3 DEF TypeOK, Return
  <1>5. \A d \in Callers : pc[d] \in {"wait", "done"} => pc'[d] \in {"wait", "done"}
    BY <1>4, Zenon
  <1>6. \A d \in Closers : d \in Callers
    BY Zenon DEF Callers
  <1>7. TypeOK'
    BY <1>0, <1>2, <1>4, Zenon DEF TypeOK
  <1>8. AcceptedInOrder'
    BY <1>0, <1>2, <1>5, <1>6, Zenon DEF AcceptedInOrder, Increasing
  <1>9. ClosedByCloser'
    <2>1. \A d \in Closers : pc'[d] = pc[d] \/ pc'[d] = "done"
      BY <1>4, <1>6, Zenon
    <2> QED
      BY <1>0, <1>2, <2>1, Zenon DEF ClosedByCloser
  <1>10. Waiting'
    BY <1>0, <1>2, <1>5, StillWaiting, Zenon
  <1>11. Delivering'
    BY <1>0, <1>2, StillDelivering, Zenon
  <1>12. Answers'
    <2>1. \A d \in Closers : result'[d] = "ok" => reply[d] = "ok"
      BY <1>0, <1>3, <1>4, <1>6, Zenon DEF Answers
    <2> QED
      BY <1>0, <1>2, <2>1, Zenon DEF Answers, FlushAnswered
  <1> QED
    BY <1>7, <1>8, <1>9, <1>10, <1>11, <1>12, Zenon DEF IInv

\* A request is sent, or the worker has left and is not told.
LEMMA EnqueueInv ==
    ASSUME NEW c \in Callers, IInv, Enqueue(c)
    PROVE  IInv'
  <1> DEFINE m == RequestOf(c)
  <1>0. TypeOK /\ AcceptedInOrder /\ ClosedByCloser /\ Waiting /\ Delivering /\ Answers
    BY Zenon DEF IInv
  <1>1. /\ UNCHANGED <<closed, exited, buffer, armed, stored, failures, result, before,
                       reply, emitted>>
        /\ pc[c] = "enqueue" /\ pc' = [pc EXCEPT ![c] = "wait"]
    BY Zenon DEF Enqueue, workerVars
  <1>2. /\ pc' \in [Callers -> {"idle", "enqueue", "wait", "done"}]
        /\ pc'[c] = "wait" /\ \A d \in Callers : d # c => pc'[d] = pc[d]
    BY <1>0, <1>1 DEF TypeOK
  <1>3. \A d \in Callers : pc[d] \in {"wait", "done"} => pc'[d] \in {"wait", "done"}
    BY <1>2, Zenon
  <1>4. \A d \in Closers : d \in Callers /\ (pc'[d] = pc[d] \/ (d = c /\ pc'[d] = "wait"))
    BY <1>2, Zenon DEF Callers
  <1>5. c \in Closers => closed /\ ~exited /\ \A d \in Closers : d = c
    BY <1>0, <1>1, OutputAssumption, Zenon DEF ClosedByCloser
  <1>6. c \in Flushers \/ c \in Closers
    BY Zenon DEF Callers
  <1>7. CASE UNCHANGED <<requests, accepted>>
    <2>1. TypeOK'
      BY <1>0, <1>1, <1>2, <1>7, Zenon DEF TypeOK
    <2>2. AcceptedInOrder'
      BY <1>0, <1>1, <1>3, <1>4, <1>7, Zenon DEF AcceptedInOrder, Increasing
    <2>3. ClosedByCloser'
      BY <1>0, <1>1, <1>4, <1>5, <1>7, Zenon DEF ClosedByCloser
    <2>4. Waiting'
      BY <1>0, <1>1, <1>3, <1>7, StillWaiting, Zenon
    <2>5. Delivering'
      BY <1>0, <1>1, <1>7, StillDelivering, Zenon
    <2>6. Answers'
      BY <1>0, <1>1, <1>7, Zenon DEF Answers, FlushAnswered
    <2> QED
      BY <2>1, <2>2, <2>3, <2>4, <2>5, <2>6, Zenon DEF IInv
  <1>8. CASE /\ Len(requests) < ChannelCap
             /\ requests' = Append(requests, m)
             /\ accepted' = IF m.record = 0 THEN accepted ELSE Append(accepted, LastRecord)
    <2>1. /\ m \in Request /\ m.from = c
          /\ m.kind = IF c \in Closers THEN "close" ELSE "flush"
          /\ m.record = IF c \in Closers /\ FinalRecord THEN LastRecord ELSE 0
      BY RecordNumbers DEF RequestOf, Request
    <2> HIDE DEF m
    <2>2. /\ m.record # 0 => c \in Closers /\ m.record = LastRecord
          /\ c \in Closers => m.kind = "close"
          /\ c \notin Closers => m.kind = "flush" /\ m.record = 0
      BY <2>1, Zenon
    <2>3. accepted \in Seq(Records) /\ requests \in Seq(Request) /\ exited \in BOOLEAN
      BY <1>0, Zenon DEF TypeOK
    <2>4. /\ requests' \in Seq(Request) /\ Len(requests') = Len(requests) + 1
          /\ requests'[Len(requests) + 1] = m
          /\ \A k \in 1 .. Len(requests) : requests'[k] = requests[k]
          /\ \A k \in 1 .. Len(requests') : k \in 1 .. Len(requests) \/ k = Len(requests) + 1
          /\ \A j, k \in 1 .. Len(requests') : j < k => j \in 1 .. Len(requests)
      BY <1>8, <2>1, <2>3, AppendedRequests, Zenon
    <2>5. ASSUME m.record # 0 PROVE AcceptedInOrder' /\ Delivering' /\ Answers'
      <3>1. c \in Closers /\ m.record = LastRecord /\ m.kind = "close" /\ ~exited
        BY <1>5, <2>2, <2>5, Zenon
      <3>2. LastRecord \notin Range(accepted)
        BY <1>0, <1>1, <3>1, Zenon DEF AcceptedInOrder
      <3>3. \A x \in Range(accepted) : x < LastRecord
        <4>1. \A x \in Range(accepted) : x \in Nat /\ x <= emitted
          BY <1>0, <2>3, <3>2, RangeOf, RecordNumbers, Zenon DEF AcceptedInOrder
        <4> QED
          BY <1>0, <4>1, OutputAssumption DEF TypeOK, LastRecord
      <3>4. Increasing(accepted) /\ m.kind # "flush" /\ accepted' = Append(accepted, m.record)
        BY <1>0, <1>8, <2>5, <3>1, Zenon DEF AcceptedInOrder
      <3>5. /\ Delivering' /\ Increasing(accepted)' /\ accepted' \in Seq(Records)
            /\ Range(accepted') = Range(accepted) \cup {LastRecord}
        BY <1>0, <1>1, <1>8, <2>1, <2>5, <3>1, <3>3, <3>4, RecordSent, Zenon
      <3>6. \A k \in 1 .. Len(accepted') :
               accepted'[k] <= emitted' \/ accepted'[k] = LastRecord
        <4>1. \A x \in Range(accepted') : x <= emitted \/ x = LastRecord
          BY <1>0, <2>3, <3>5, RangeOf, Zenon DEF AcceptedInOrder
        <4> QED
          BY <1>1, <3>5, <4>1, RangeOf, Zenon
      <3>7. closed' /\ \A d \in Closers : pc'[d] \in {"wait", "done"}
        BY <1>1, <1>2, <1>5, <3>1, Zenon
      <3>8. AcceptedInOrder'
        BY <3>5, <3>6, <3>7, Zenon DEF AcceptedInOrder
      <3>9. Answers'
        <4>1. \A d \in Closers : reply[d] = "none"
          BY <1>0, <2>3, <3>1, Zenon DEF Answers
        <4>2. \A d \in Closers : /\ exited' <=> reply'[d] # "none"
                                 /\ result'[d] = "ok" => reply'[d] = "ok"
                                 /\ reply'[d] = "ok" => Range(accepted') \subseteq stored'
          BY <1>0, <1>1, <3>1, <4>1, Zenon DEF Answers
        <4> QED
          BY <1>0, <1>1, <4>2, Zenon DEF Answers, FlushAnswered
      <3> QED
        BY <3>5, <3>8, <3>9, Zenon
    <2>6. ASSUME m.record = 0 PROVE AcceptedInOrder' /\ Delivering' /\ Answers'
      <3>1. accepted' = accepted
        BY <1>8, <2>6, Zenon
      <3>2. Delivering'
        BY <1>0, <1>1, <1>8, <2>1, <2>6, <3>1, CallSent, Zenon
      <3>3. AcceptedInOrder'
        BY <1>0, <1>1, <1>3, <1>4, <3>1, Zenon DEF AcceptedInOrder, Increasing
      <3>4. Answers'
        BY <1>0, <1>1, <3>1, Zenon DEF Answers, FlushAnswered
      <3> QED
        BY <3>2, <3>3, <3>4, Zenon
    <2>7. accepted' \in Seq(Records) /\ AcceptedInOrder' /\ Delivering' /\ Answers'
      <3>1. m.record # 0 => accepted' \in Seq(Records)
        BY <1>8, <2>3, RecordNumbers
      <3>2. m.record = 0 => accepted' \in Seq(Records)
        BY <1>8, <2>3, Zenon
      <3> QED
        BY <2>5, <2>6, <3>1, <3>2, Zenon
    <2>8. TypeOK'
      <3>1. Len(requests') <= ChannelCap
        BY <1>8, <2>3, <2>4, OutputAssumption
      <3> QED
        BY <1>0, <1>1, <1>2, <2>4, <2>7, <3>1, Zenon DEF TypeOK
    <2>9. ClosedByCloser'
      <3>1. \A k \in 1 .. Len(requests') : requests'[k].kind = "close" => closed
        <4> SUFFICES ASSUME NEW k \in 1 .. Len(requests'), requests'[k].kind = "close"
                     PROVE  closed
          BY Zenon
        <4>1. CASE k \in 1 .. Len(requests)
          BY <1>0, <2>4, <4>1, Zenon DEF ClosedByCloser
        <4>2. CASE k = Len(requests) + 1
          BY <1>5, <2>2, <2>4, <4>2
        <4> QED
          BY <2>4, <4>1, <4>2, Zenon
      <3> QED
        BY <1>0, <1>1, <1>4, <1>5, <3>1, Zenon DEF ClosedByCloser
    <2>10. Waiting'
      <3>1. ASSUME NEW k \in 1 .. Len(requests')
            PROVE  /\ requests'[k].kind = "emit" => requests'[k].record # 0
                   /\ requests'[k].kind = "flush" =>
                         requests'[k].record = 0 /\ requests'[k].from \in Flushers
                   /\ requests'[k].kind = "close" => requests'[k].from \in Closers
                   /\ requests'[k].kind # "emit" => pc'[requests'[k].from] \in {"wait", "done"}
        <4>1. CASE k \in 1 .. Len(requests)
          <5>1. requests'[k] = requests[k] /\ requests[k].kind \in {"emit", "flush", "close"}
            <6>1. requests[k] \in Request
              BY <2>3, <4>1
            <6>2. \A q \in Request : q.kind \in {"emit", "flush", "close"}
              BY DEF Request
            <6> QED
              BY <2>4, <4>1, <6>1, <6>2, Zenon
          <5>2. requests[k].kind # "emit" =>
                  requests[k].from \in Callers /\ pc[requests[k].from] \in {"wait", "done"}
            BY <1>0, <4>1, <5>1, Zenon DEF Waiting, Callers
          <5>3. requests[k].kind # "emit" => pc'[requests[k].from] \in {"wait", "done"}
            BY <1>3, <5>2, Zenon
          <5> QED
            BY <1>0, <4>1, <5>1, <5>3, Zenon DEF Waiting
        <4>2. CASE k = Len(requests) + 1
          <5>1. requests'[k] = m
            BY <2>4, <4>2, Zenon
          <5>2. pc'[m.from] \in {"wait", "done"} /\ m.kind # "emit"
            BY <1>2, <2>1, <2>2, Zenon
          <5> QED
            BY <1>6, <2>1, <2>2, <5>1, <5>2
        <4> QED
          BY <2>4, <4>1, <4>2, Zenon
      <3>2. ASSUME NEW j \in 1 .. Len(requests'), NEW k \in 1 .. Len(requests'),
                   requests'[k].kind = "close", k < j
            PROVE  requests'[j].kind = "flush"
        <4>1. k \in 1 .. Len(requests) /\ requests[k].kind = "close"
          BY <2>4, <3>2, Zenon
        <4>2. requests[k].from \in Closers /\ pc[requests[k].from] \in {"wait", "done"}
          BY <1>0, <4>1, Zenon DEF Waiting
        <4>3. c \notin Closers
          BY <1>1, <1>5, <4>2, Zenon
        <4>4. CASE j \in 1 .. Len(requests)
          BY <1>0, <2>4, <3>2, <4>1, <4>4, Zenon DEF Waiting
        <4>5. CASE j = Len(requests) + 1
          BY <2>2, <2>4, <4>3, <4>5, Zenon
        <4> QED
          BY <2>4, <4>4, <4>5, Zenon
      <3>3. \A d \in Callers : reply'[d] # "none" => pc'[d] \in {"wait", "done"}
        BY <1>0, <1>1, <1>3, Zenon DEF Waiting
      <3> QED
        BY <3>1, <3>2, <3>3, Zenon DEF Waiting
    <2> QED
      BY <2>7, <2>8, <2>9, <2>10, Zenon DEF IInv
  <1>9. \/ UNCHANGED <<requests, accepted>>
        \/ /\ Len(requests) < ChannelCap
           /\ requests' = Append(requests, m)
           /\ accepted' = IF m.record = 0 THEN accepted ELSE Append(accepted, LastRecord)
    BY Zenon DEF Enqueue
  <1> QED
    BY <1>7, <1>8, <1>9, Zenon

-----------------------------------------------------------------------------
(* The worker.                                                             *)

LEMMA WorkerTyped ==
    ASSUME TypeOK
    PROVE  /\ Worker \in WorkerState
           /\ Worker.buffer = buffer /\ Worker.stored = stored
           /\ buffer \in Seq(Records) /\ accepted \in Seq(Records)
           /\ requests \in Seq(Request) /\ exited \in BOOLEAN
  BY DEF TypeOK, Worker, WorkerState

LEMMA WorkerSet ==
    ASSUME NEW w \in WorkerState, SetWorker(w)
    PROVE  /\ buffer' = w.buffer /\ stored' = w.stored
           /\ buffer' \in Seq(Records) /\ armed' \in BOOLEAN /\ stored' \subseteq Records
           /\ failures' \in 0 .. MaxFailures
  BY DEF SetWorker, WorkerState

LEMMA TypeSet ==
    ASSUME TypeOK, NEW w \in WorkerState, SetWorker(w),
           exited' \in BOOLEAN, requests' \in Seq(Request), Len(requests') <= ChannelCap,
           reply' \in [Callers -> {"none", "ok", "error"}],
           UNCHANGED <<closed, pc, result, before, emitted, accepted>>
    PROVE  TypeOK'
  BY WorkerSet, Zenon DEF TypeOK

LEMMA ReceiveTyped ==
    ASSUME TypeOK, requests # <<>>, requests' = Tail(requests)
    PROVE  /\ requests' \in Seq(Request) /\ Len(requests') <= ChannelCap
           /\ \A k \in 1 .. Len(requests') :
                 requests'[k] = requests[k + 1] /\ k + 1 \in 1 .. Len(requests) /\ 1 < k + 1
           /\ \A j, k \in 1 .. Len(requests') : j < k => j + 1 < k + 1
           /\ Head(requests) = requests[1] /\ 1 \in 1 .. Len(requests)
           /\ Head(requests) \in Request
  <1>1. requests \in Seq(Request)
    BY Zenon DEF TypeOK
  <1>2. Len(Tail(requests)) <= ChannelCap
    BY <1>1, OutputAssumption DEF TypeOK
  <1> QED
    BY <1>1, <1>2, ReceivedRequests, Zenon

\* The first request is taken, and its caller may get a reply.
LEMMA ReceiveWaiting ==
    ASSUME TypeOK, Waiting, requests # <<>>, requests' = Tail(requests), pc' = pc,
           \A c \in Callers : reply'[c] # "none" => reply[c] # "none" \/ c = Head(requests).from,
           Head(requests).kind = "emit" => reply' = reply
    PROVE  Waiting'
  <1>1. /\ \A k \in 1 .. Len(requests') :
              requests'[k] = requests[k + 1] /\ k + 1 \in 1 .. Len(requests)
        /\ \A j, k \in 1 .. Len(requests') : j < k => j + 1 < k + 1
        /\ Head(requests) = requests[1] /\ 1 \in 1 .. Len(requests)
    BY ReceiveTyped, Zenon
  <1>2. ASSUME NEW k \in 1 .. Len(requests')
        PROVE  /\ requests'[k].kind = "emit" => requests'[k].record # 0
               /\ requests'[k].kind = "flush" =>
                     requests'[k].record = 0 /\ requests'[k].from \in Flushers
               /\ requests'[k].kind = "close" => requests'[k].from \in Closers
               /\ requests'[k].kind # "emit" => pc'[requests'[k].from] \in {"wait", "done"}
    <2>1. requests'[k] = requests[k + 1] /\ k + 1 \in 1 .. Len(requests)
      BY <1>1, Zenon
    <2> QED
      BY <2>1, Zenon DEF Waiting
  <1>3. ASSUME NEW j \in 1 .. Len(requests'), NEW k \in 1 .. Len(requests'),
               requests'[k].kind = "close", k < j
        PROVE  requests'[j].kind = "flush"
    <2>1. /\ requests'[j] = requests[j + 1] /\ j + 1 \in 1 .. Len(requests)
          /\ requests'[k] = requests[k + 1] /\ k + 1 \in 1 .. Len(requests) /\ k + 1 < j + 1
      BY <1>1, <1>3, Zenon
    <2> QED
      BY <1>3, <2>1, Zenon DEF Waiting
  <1>4. ASSUME NEW c \in Callers, reply'[c] # "none"
        PROVE  pc[c] \in {"wait", "done"}
    <2>1. CASE reply[c] # "none"
      BY <2>1, Zenon DEF Waiting
    <2>2. CASE reply[c] = "none"
      <3>1. c = Head(requests).from /\ Head(requests).kind # "emit"
        BY <1>4, <2>2, Zenon
      <3> QED
        BY <1>1, <3>1, ZenonT(30) DEF Waiting
    <2> QED
      BY <2>1, <2>2, Zenon
  <1> QED
    BY <1>2, <1>3, <1>4, Zenon DEF Waiting

LEMMA ReceiveClosed ==
    ASSUME TypeOK, ClosedByCloser, requests # <<>>, requests' = Tail(requests),
           UNCHANGED <<closed, pc, exited>>
    PROVE  ClosedByCloser'
  <1>1. \A k \in 1 .. Len(requests') :
           requests'[k] = requests[k + 1] /\ k + 1 \in 1 .. Len(requests)
    BY ReceiveTyped, Zenon
  <1>2. \A k \in 1 .. Len(requests') : requests'[k].kind = "close" => closed
    BY <1>1, Zenon DEF ClosedByCloser
  <1> QED
    BY <1>2, Zenon DEF ClosedByCloser

LEMMA StillInOrder ==
    ASSUME AcceptedInOrder, UNCHANGED <<accepted, emitted, closed, pc>>
    PROVE  AcceptedInOrder'
  BY Zenon DEF AcceptedInOrder, Increasing

\* The manager's records only grow, and no close is answered.
LEMMA StillAnswered ==
    ASSUME Answers, ~exited, stored \subseteq stored',
           UNCHANGED <<exited, result, before, accepted>>,
           \A c \in Closers : reply'[c] = reply[c],
           \A c \in Flushers : reply'[c] = "ok" => reply[c] = "ok" \/ before[c] \subseteq stored'
    PROVE  Answers'
  <1>1. FlushAnswered'
    BY Zenon DEF Answers, FlushAnswered
  <1> QED
    BY <1>1, Zenon DEF Answers

LEMMA TimerFiresInv ==
    ASSUME IInv, TimerFires
    PROVE  IInv' /\ stored \subseteq stored'
  <1>0. TypeOK /\ AcceptedInOrder /\ ClosedByCloser /\ Waiting /\ Delivering /\ Answers
    BY Zenon DEF IInv
  <1>1. UNCHANGED <<closed, requests, exited, pc, result, before, reply, emitted, accepted>>
        /\ ~exited
    BY Zenon DEF TimerFires, callVars
  <1>2. PICK f \in Flush(Worker) : SetWorker(f.worker)
    BY Zenon DEF TimerFires
  <1>3. /\ f.worker \in WorkerState
        /\ Kept(buffer, stored, f.worker.buffer, f.worker.stored)
    BY <1>0, <1>2, WorkerTyped, FlushOutcomes, Zenon
  <1>4. buffer' = f.worker.buffer /\ stored' = f.worker.stored
    BY <1>2, <1>3, WorkerSet, Zenon
  <1>5. Kept(buffer, stored, buffer', stored')
    BY <1>3, <1>4, Zenon
  <1>6. /\ Held(buffer, stored, requests) /\ Ahead(buffer, stored, requests)
        /\ Gapless(stored) /\ Increasing(accepted)
        /\ buffer \in Seq(Records) /\ accepted \in Seq(Records)
    BY <1>0, <1>1, Zenon DEF Delivering, AcceptedInOrder, TypeOK
  <1>7. TypeOK'
    BY <1>0, <1>1, <1>2, <1>3, TypeSet, Zenon DEF TypeOK
  <1>8. Delivering'
    <2>1. Held(buffer', stored', requests) /\ Ahead(buffer', stored', requests)
          /\ Gapless(stored')
      BY <1>5, <1>6, FlushKeeps, Zenon
    <2> QED
      BY <1>0, <1>1, <2>1, Delivered, Zenon DEF Delivering
  <1>9. stored \subseteq stored'
    BY <1>5, KeptRecords, Zenon
  <1>10. Answers'
    BY <1>0, <1>1, <1>9, StillAnswered, Zenon
  <1>11. ClosedByCloser'
    BY <1>0, <1>1, Zenon DEF ClosedByCloser
  <1>12. Waiting' /\ AcceptedInOrder'
    BY <1>0, <1>1, StillWaiting, StillInOrder, Zenon
  <1> QED
    BY <1>7, <1>8, <1>9, <1>10, <1>11, <1>12, Zenon DEF IInv

\* The record goes to the buffer, which may be sent before and after.
LEMMA HandleEmitInv ==
    ASSUME IInv, HandleEmit
    PROVE  IInv' /\ stored \subseteq stored'
  <1> DEFINE r == Head(requests).record
  <1>0. TypeOK /\ AcceptedInOrder /\ ClosedByCloser /\ Waiting /\ Delivering /\ Answers
    BY Zenon DEF IInv
  <1>1. /\ UNCHANGED <<closed, exited, pc, result, before, reply, emitted, accepted>>
        /\ ~exited /\ requests # <<>> /\ requests' = Tail(requests)
        /\ Head(requests).kind = "emit"
    BY Zenon DEF HandleEmit, Receive, callVars
  <1>2. PICK room \in MakeRoom(Worker, r) :
           LET w == AppendRecord(room.worker, r)
           IN  \/ \E f \in Flush(w) : SetWorker(f.worker)
               \/ SetWorker(StartTimer(w))
    BY Zenon DEF HandleEmit
  <1>3. /\ Head(requests) = requests[1] /\ 1 \in 1 .. Len(requests) /\ Head(requests) \in Request
        /\ requests' \in Seq(Request) /\ Len(requests') <= ChannelCap
    BY <1>0, <1>1, ReceiveTyped, Zenon
  <1>4. r \in Records /\ r # 0
    <2>1. r # 0
      BY <1>0, <1>1, <1>3, Zenon DEF Waiting
    <2>2. r \in Records \cup {0}
      BY <1>3 DEF Request
    <2> QED
      BY <2>1, <2>2, Zenon
  <1>5. /\ Held(buffer, stored, requests) /\ Ahead(buffer, stored, requests)
        /\ Gapless(stored) /\ Increasing(accepted) /\ requests \in Seq(Request)
        /\ buffer \in Seq(Records) /\ accepted \in Seq(Records)
    BY <1>0, <1>1, Zenon DEF Delivering, AcceptedInOrder, TypeOK
  <1> DEFINE v == room.worker
             w == AppendRecord(v, r)
  <1>6. v \in WorkerState /\ Kept(buffer, stored, v.buffer, v.stored)
    BY <1>0, <1>2, WorkerTyped, RoomOutcomes, Zenon
  <1>7. v.buffer \in Seq(Records)
    BY <1>6 DEF WorkerState
  <1>8. /\ w \in WorkerState /\ w.buffer = Append(v.buffer, r) /\ w.stored = v.stored
    BY <1>4, <1>6, RecordAppended, Zenon
  <1>9. PICK u \in WorkerState : SetWorker(u) /\ Kept(w.buffer, w.stored, u.buffer, u.stored)
    <2>1. CASE \E f \in Flush(w) : SetWorker(f.worker)
      BY <1>8, <2>1, FlushOutcomes, Zenon
    <2>2. CASE SetWorker(StartTimer(w))
      BY <1>8, <2>2, TimerStarted, Zenon DEF Kept
    <2> QED
      BY <1>2, <2>1, <2>2, Zenon
  <1> HIDE DEF v, w
  <1>10. Held(v.buffer, v.stored, requests) /\ Ahead(v.buffer, v.stored, requests)
         /\ Gapless(v.stored)
    BY <1>5, <1>6, FlushKeeps, Zenon
  <1>11. w.buffer = IF Head(requests).record = 0 THEN v.buffer
                    ELSE Append(v.buffer, Head(requests).record)
    BY <1>4, <1>8, Zenon
  <1> HIDE DEF r
  <1>12. Held(w.buffer, w.stored, requests') /\ Ahead(w.buffer, w.stored, requests')
         /\ w.buffer \in Seq(Records) /\ Gapless(w.stored)
    <2>1. Held(w.buffer, v.stored, Tail(requests)) /\ Ahead(w.buffer, v.stored, Tail(requests))
          /\ w.buffer \in Seq(Records)
      BY <1>1, <1>5, <1>7, <1>10, <1>11, ReceiveKeeps, Zenon
    <2> QED
      BY <1>1, <1>8, <1>10, <2>1, Zenon
  <1>13. buffer' = u.buffer /\ stored' = u.stored
    BY <1>9, WorkerSet, Zenon
  <1>14. Held(buffer', stored', requests') /\ Ahead(buffer', stored', requests')
         /\ Gapless(stored')
    <2>1. Kept(w.buffer, w.stored, buffer', stored')
      BY <1>9, <1>13, Zenon
    <2> QED
      BY <1>5, <1>12, <2>1, FlushKeeps, Zenon
  <1>15. Delivering'
    BY <1>0, <1>1, <1>14, Delivered, Zenon DEF Delivering
  <1>16. TypeOK'
    BY <1>0, <1>1, <1>3, <1>9, TypeSet, Zenon DEF TypeOK
  <1>17. stored \subseteq stored'
    <2>1. stored \subseteq v.stored
      BY <1>6, KeptRecords, ZenonT(30)
    <2>2. w.stored \subseteq u.stored
      BY <1>9, KeptRecords, Zenon
    <2> QED
      BY <1>8, <1>13, <2>1, <2>2, Zenon
  <1>18. Answers'
    BY <1>0, <1>1, <1>17, StillAnswered, Zenon
  <1>19. ClosedByCloser' /\ AcceptedInOrder'
    BY <1>0, <1>1, ReceiveClosed, StillInOrder, Zenon
  <1>20. Waiting'
    BY <1>0, <1>1, ReceiveWaiting, Zenon
  <1> QED
    BY <1>15, <1>16, <1>17, <1>18, <1>19, <1>20, Zenon DEF IInv

\* The whole buffer is sent, and the caller hears whether that succeeded.
LEMMA HandleFlushInv ==
    ASSUME IInv, HandleFlush
    PROVE  IInv' /\ stored \subseteq stored'
  <1> DEFINE c == Head(requests).from
  <1>0. TypeOK /\ AcceptedInOrder /\ ClosedByCloser /\ Waiting /\ Delivering /\ Answers
    BY Zenon DEF IInv
  <1>1. /\ UNCHANGED <<closed, exited, pc, result, before, emitted, accepted>>
        /\ ~exited /\ requests # <<>> /\ requests' = Tail(requests)
        /\ Head(requests).kind = "flush"
    BY Zenon DEF HandleFlush, Receive, callVars
  <1>2. PICK f \in Flush(Worker) : SetWorker(f.worker) /\ reply' = [reply EXCEPT ![c] = f.res]
    BY Zenon DEF HandleFlush
  <1>3. /\ Head(requests) = requests[1] /\ 1 \in 1 .. Len(requests) /\ Head(requests) \in Request
        /\ requests' \in Seq(Request) /\ Len(requests') <= ChannelCap
    BY <1>0, <1>1, ReceiveTyped, Zenon
  <1>4. c \in Flushers /\ Head(requests).record = 0
    BY <1>0, <1>1, <1>3, Zenon DEF Waiting
  <1>5. c \in Callers /\ c \notin Closers
    BY <1>4, OutputAssumption, Zenon DEF Callers
  <1>6. /\ Held(buffer, stored, requests) /\ Ahead(buffer, stored, requests)
        /\ Gapless(stored) /\ Increasing(accepted) /\ requests \in Seq(Request)
        /\ buffer \in Seq(Records) /\ accepted \in Seq(Records)
    BY <1>0, <1>1, Zenon DEF Delivering, AcceptedInOrder, TypeOK
  <1>7. /\ f.worker \in WorkerState /\ f.res \in {"ok", "error"}
        /\ Kept(buffer, stored, f.worker.buffer, f.worker.stored)
        /\ f.res = "ok" => f.worker.stored = stored \cup Range(buffer)
    BY <1>0, <1>2, WorkerTyped, FlushOutcomes, Zenon
  <1>8. buffer' = f.worker.buffer /\ stored' = f.worker.stored /\ buffer' \in Seq(Records)
    BY <1>2, <1>7, WorkerSet, Zenon
  <1>9. Kept(buffer, stored, buffer', stored')
    BY <1>7, <1>8, Zenon
  <1>10. /\ reply' \in [Callers -> {"none", "ok", "error"}] /\ reply'[c] = f.res
         /\ \A d \in Callers : d # c => reply'[d] = reply[d]
    <2>1. reply \in [Callers -> {"none", "ok", "error"}]
      BY <1>0, Zenon DEF TypeOK
    <2> HIDE DEF c
    <2> QED
      BY <1>2, <1>5, <1>7, <2>1
  <1>11. Held(buffer', stored', requests) /\ Ahead(buffer', stored', requests)
         /\ Gapless(stored')
    BY <1>6, <1>9, FlushKeeps, Zenon
  <1>12. Held(buffer', stored', requests') /\ Ahead(buffer', stored', requests')
    <2>1. buffer' = IF Head(requests).record = 0 THEN buffer'
                    ELSE Append(buffer', Head(requests).record)
      BY <1>4, Zenon
    <2> QED
      BY <1>1, <1>6, <1>8, <1>11, <2>1, ReceiveKeeps, Zenon
  <1>13. Delivering'
    BY <1>0, <1>1, <1>11, <1>12, Delivered, Zenon DEF Delivering
  <1>14. TypeOK'
    BY <1>0, <1>1, <1>2, <1>3, <1>7, <1>10, TypeSet, Zenon DEF TypeOK
  <1>15. before[c] \subseteq stored \cup Range(buffer)
    <2>1. {requests[j].record : j \in 1 .. 1 - 1} = {}
      OBVIOUS
    <2> QED
      BY <1>1, <1>3, <1>6, <2>1, Zenon DEF Ahead
  <1>16. stored \subseteq stored'
    BY <1>9, KeptRecords, Zenon
  <1>17. Answers'
    <2>1. \A d \in Closers : reply'[d] = reply[d]
      BY <1>5, <1>10, Zenon DEF Callers
    <2>2. \A d \in Flushers : reply'[d] = "ok" => reply[d] = "ok" \/ before[d] \subseteq stored'
      BY <1>7, <1>8, <1>10, <1>15, Zenon DEF Callers
    <2> QED
      BY <1>0, <1>1, <1>16, <2>1, <2>2, StillAnswered, Zenon
  <1>18. ClosedByCloser' /\ AcceptedInOrder'
    BY <1>0, <1>1, ReceiveClosed, StillInOrder, Zenon
  <1>19. Waiting'
    <2>1. \A d \in Callers : reply'[d] # "none" => reply[d] # "none" \/ d = Head(requests).from
      BY <1>10, Zenon
    <2>2. Head(requests).kind = "emit" => reply' = reply
      BY <1>1, Zenon
    <2> QED
      BY <1>0, <1>1, <2>1, <2>2, ReceiveWaiting, Zenon
  <1> QED
    BY <1>13, <1>14, <1>16, <1>17, <1>18, <1>19, Zenon DEF IInv

\* The last sends: what is left, and the closer's record.  Behind the request
\* are only flushes, so a send that succeeds stores all that was accepted.
LEMMA HandleCloseInv ==
    ASSUME IInv, HandleClose
    PROVE  IInv' /\ stored \subseteq stored'
  <1> DEFINE r == Head(requests).record
             c == Head(requests).from
             last(w) == IF r = 0 THEN w ELSE AppendRecord(w, r)
  <1>0. TypeOK /\ AcceptedInOrder /\ ClosedByCloser /\ Waiting /\ Delivering /\ Answers
    BY Zenon DEF IInv
  <1>1. /\ UNCHANGED <<closed, pc, result, before, emitted, accepted>>
        /\ ~exited /\ exited' = TRUE /\ requests # <<>> /\ requests' = Tail(requests)
        /\ Head(requests).kind = "close"
    BY Zenon DEF HandleClose, Receive, callVars
  <1>2. PICK room \in IF r = 0 THEN {[worker |-> Worker, res |-> "ok"]}
                      ELSE MakeRoom(Worker, r) :
           \/ /\ SetWorker(room.worker)
              /\ reply' = [reply EXCEPT ![c] = "error"]
           \/ \E f \in Flush(last(room.worker)) :
                 SetWorker(f.worker) /\ reply' = [reply EXCEPT ![c] = f.res]
    BY Zenon DEF HandleClose
  <1>3. /\ Head(requests) = requests[1] /\ 1 \in 1 .. Len(requests) /\ Head(requests) \in Request
        /\ requests' \in Seq(Request) /\ Len(requests') <= ChannelCap
        /\ \A k \in 1 .. Len(requests') :
              requests'[k] = requests[k + 1] /\ k + 1 \in 1 .. Len(requests) /\ 1 < k + 1
    BY <1>0, <1>1, ReceiveTyped, Zenon
  <1>4. r # 0 => r \in Records
    BY <1>3 DEF Request
  <1>5. c \in Closers /\ pc[c] \in {"wait", "done"} /\ closed
    BY <1>0, <1>1, <1>3, Zenon DEF Waiting, ClosedByCloser
  <1>6. c \in Callers /\ c \notin Flushers /\ \A d \in Closers : d = c
    BY <1>5, OutputAssumption, Zenon DEF Callers
  <1>7. /\ Held(buffer, stored, requests) /\ Ahead(buffer, stored, requests)
        /\ Gapless(stored) /\ Increasing(accepted) /\ requests \in Seq(Request)
        /\ buffer \in Seq(Records) /\ accepted \in Seq(Records)
    BY <1>0, <1>1, Zenon DEF Delivering, AcceptedInOrder, TypeOK
  <1> DEFINE v == room.worker
             w == last(v)
  <1>8. v \in WorkerState /\ Kept(buffer, stored, v.buffer, v.stored)
    <2>1. CASE r = 0
      <3>1. v = Worker
        BY <1>2, <2>1
      <3> QED
        BY <1>0, <3>1, WorkerTyped, Zenon DEF Kept
    <2>2. CASE r # 0
      BY <1>0, <1>2, <2>2, WorkerTyped, RoomOutcomes, Zenon
    <2> QED
      BY <2>1, <2>2, Zenon
  <1>9. v.buffer \in Seq(Records)
    BY <1>8 DEF WorkerState
  <1>10. /\ w \in WorkerState /\ w.stored = v.stored
         /\ w.buffer = IF r = 0 THEN v.buffer ELSE Append(v.buffer, r)
    BY <1>4, <1>8, RecordAppended, Zenon
  <1>11. PICK u \in WorkerState, b \in {"ok", "error"} :
            /\ SetWorker(u) /\ reply' = [reply EXCEPT ![c] = b]
            /\ \/ u = v /\ b = "error"
               \/ /\ Kept(w.buffer, w.stored, u.buffer, u.stored)
                  /\ b = "ok" => u.stored = w.stored \cup Range(w.buffer)
    <2>1. CASE SetWorker(v) /\ reply' = [reply EXCEPT ![c] = "error"]
      BY <1>8, <2>1, Zenon
    <2>2. CASE \E f \in Flush(w) : SetWorker(f.worker) /\ reply' = [reply EXCEPT ![c] = f.res]
      <3>1. PICK f \in Flush(w) : SetWorker(f.worker) /\ reply' = [reply EXCEPT ![c] = f.res]
        BY <2>2, Zenon
      <3> HIDE DEF w, c
      <3> QED
        BY <1>10, <3>1, FlushOutcomes, Zenon
    <2> QED
      BY <1>2, <2>1, <2>2, Zenon
  <1>12. stored' = u.stored
    BY <1>11, WorkerSet, Zenon
  <1>13. /\ reply' \in [Callers -> {"none", "ok", "error"}] /\ reply'[c] = b
         /\ \A d \in Callers : d # c => reply'[d] = reply[d]
    <2>1. reply \in [Callers -> {"none", "ok", "error"}]
      BY <1>0, Zenon DEF TypeOK
    <2> HIDE DEF c
    <2> QED
      BY <1>6, <1>11, <2>1
  <1> HIDE DEF v, w, last
  <1>14. Held(v.buffer, v.stored, requests) /\ Ahead(v.buffer, v.stored, requests)
         /\ Gapless(v.stored)
    BY <1>7, <1>8, FlushKeeps, Zenon
  <1>15. Held(w.buffer, v.stored, Tail(requests)) /\ Ahead(w.buffer, v.stored, Tail(requests))
         /\ w.buffer \in Seq(Records)
    BY <1>1, <1>7, <1>9, <1>10, <1>14, ReceiveKeeps, Zenon
  <1>16. Held(w.buffer, w.stored, requests') /\ Ahead(w.buffer, w.stored, requests')
         /\ Gapless(w.stored)
    BY <1>1, <1>10, <1>14, <1>15, Zenon
  <1>17. Gapless(stored')
    <2>1. CASE u = v
      BY <1>12, <1>14, <2>1, Zenon
    <2>2. CASE Kept(w.buffer, w.stored, u.buffer, u.stored)
      <3>1. Gapless(u.stored)
        BY <1>7, <1>15, <1>16, <2>2, FlushKeeps, Zenon
      <3> QED
        BY <1>12, <3>1, Zenon
    <2> QED
      BY <1>11, <2>1, <2>2, Zenon
  <1>18. stored \subseteq stored'
    <2>1. stored \subseteq v.stored
      BY <1>8, KeptRecords, Zenon
    <2>2. u = v \/ w.stored \subseteq u.stored
      BY <1>11, KeptRecords, Zenon
    <2> QED
      BY <1>10, <1>12, <2>1, <2>2, Zenon
  <1>19. b = "ok" => Range(accepted) \subseteq stored'
    <2>1. \A k \in 1 .. Len(requests') : requests'[k].record = 0
      <3> SUFFICES ASSUME NEW k \in 1 .. Len(requests') PROVE requests'[k].record = 0
        BY Zenon
      <3>1. requests'[k] = requests[k + 1] /\ k + 1 \in 1 .. Len(requests) /\ 1 < k + 1
        BY <1>3, Zenon
      <3>2. requests[k + 1].kind = "flush"
        BY <1>0, <1>1, <1>3, <3>1, Zenon DEF Waiting
      <3> QED
        BY <1>0, <3>1, <3>2, Zenon DEF Waiting
    <2>2. Queued(requests') = {}
      BY <2>1, Zenon DEF Queued
    <2>3. Range(accepted) \subseteq w.stored \cup Range(w.buffer)
      BY <1>16, <2>2, Zenon DEF Held
    <2>4. b = "ok" => b # "error"
      OBVIOUS
    <2> QED
      BY <1>11, <1>12, <2>3, <2>4, Zenon
  <1>20. Delivering'
    BY <1>0, <1>1, <1>17, Delivered, Zenon DEF Delivering
  <1>21. TypeOK'
    BY <1>0, <1>1, <1>3, <1>11, <1>13, TypeSet, Zenon DEF TypeOK
  <1>22. Answers'
    <2>1. FlushAnswered'
      <3>1. \A d \in Flushers : d \in Callers /\ d # c
        BY <1>6, Zenon DEF Callers
      <3> QED
        BY <1>0, <1>1, <1>13, <1>18, <3>1, Zenon DEF Answers, FlushAnswered
    <2>2. reply[c] = "none" /\ result[c] # "ok"
      BY <1>0, <1>1, <1>5, Zenon DEF Answers
    <2>3. reply'[c] # "none" /\ (reply'[c] = "ok" => Range(accepted) \subseteq stored')
      BY <1>13, <1>19
    <2> QED
      BY <1>1, <1>6, <2>1, <2>2, <2>3, Zenon DEF Answers
  <1>23. AcceptedInOrder'
    BY <1>0, <1>1, StillInOrder, Zenon
  <1>24. ClosedByCloser'
    BY <1>1, <1>5, <1>6, Zenon DEF ClosedByCloser
  <1>25. Waiting'
    <2>1. \A d \in Callers : reply'[d] # "none" => reply[d] # "none" \/ d = Head(requests).from
      BY <1>13, Zenon
    <2>2. Head(requests).kind = "emit" => reply' = reply
      BY <1>1, Zenon
    <2> QED
      BY <1>0, <1>1, <2>1, <2>2, ReceiveWaiting, Zenon
  <1> QED
    BY <1>18, <1>20, <1>21, <1>22, <1>23, <1>24, <1>25, Zenon DEF IInv

-----------------------------------------------------------------------------
(* The specification.                                                      *)

LEMMA InitInv == Init => IInv
  <1> SUFFICES ASSUME Init PROVE IInv
    OBVIOUS
  <1>1. TypeOK
    <2>1. /\ requests \in Seq(Request) /\ Len(requests) <= ChannelCap
          /\ buffer \in Seq(Records) /\ accepted \in Seq(Records)
          /\ failures \in 0 .. MaxFailures /\ emitted \in 0 .. NumEmits
      BY OutputAssumption DEF Init
    <2>2. /\ pc \in [Callers -> {"idle", "enqueue", "wait", "done"}]
          /\ reply \in [Callers -> {"none", "ok", "error"}]
          /\ result \in [Callers -> {"none", "ok", "error"}]
          /\ before \in [Callers -> SUBSET Records]
      BY Zenon DEF Init
    <2> QED
      BY <2>1, <2>2, Zenon DEF Init, TypeOK
  <1>2. AcceptedInOrder
    BY RangeEmpty DEF Init, AcceptedInOrder, Increasing
  <1>3. ClosedByCloser
    BY DEF Init, ClosedByCloser, Callers
  <1>4. Waiting
    BY DEF Init, Waiting
  <1>5. Delivering
    <2>1. Held(buffer, stored, requests) /\ Ahead(buffer, stored, requests)
      BY RangeEmpty DEF Init, Held, Ahead, Increasing, Queued
    <2>2. Gapless(stored)
      BY DEF Init, Gapless, First
    <2> QED
      BY <2>1, <2>2 DEF Init, Delivering
  <1>6. Answers
    BY DEF Init, Answers, FlushAnswered, Callers
  <1> QED
    BY <1>1, <1>2, <1>3, <1>4, <1>5, <1>6 DEF IInv

\* What a step of the output may do to the records: take one more, or store more.
Moves ==
    \/ \E r \in Records : accepted' = Append(accepted, r) /\ stored' = stored
    \/ accepted' = accepted /\ stored \subseteq stored'

LEMMA NextInv ==
    ASSUME IInv, [Next]_vars
    PROVE  IInv' /\ Moves
  <1>1. CASE UNCHANGED vars
    <2>1. UNCHANGED <<closed, requests, buffer, armed, stored, failures, exited, pc, result,
                      before, reply, emitted, accepted>>
      BY <1>1, Zenon DEF vars, workerVars, callVars
    <2>2. TypeOK' /\ AcceptedInOrder' /\ ClosedByCloser' /\ Answers'
      BY <2>1, Zenon DEF IInv, TypeOK, AcceptedInOrder, Increasing, ClosedByCloser,
         Answers, FlushAnswered
    <2>3. Delivering' /\ Waiting'
      BY <2>1, StillDelivering, StillWaiting, Zenon DEF IInv
    <2> QED
      BY <2>1, <2>2, <2>3, Zenon DEF IInv, Moves
  <1>2. CASE Emit
    <2>1. emitted + 1 \in Records
      BY <1>2, OutputAssumption DEF Emit, IInv, TypeOK, Records
    <2>2. Moves
      BY <1>2, <2>1, Zenon DEF Emit, Moves, workerVars
    <2> QED
      BY <1>2, <2>2, EmitInv, Zenon
  <1>3. ASSUME NEW c \in Callers, CallerStep(c)
        PROVE  IInv' /\ Moves
    <2>1. CASE CallFlush(c)
      BY <2>1, CallFlushInv, Zenon DEF CallFlush, Moves, workerVars
    <2>2. CASE CallClose(c)
      BY <2>2, CallCloseInv, Zenon DEF CallClose, Moves, workerVars
    <2>3. CASE Enqueue(c)
      BY <2>3, EnqueueInv, RecordNumbers, Zenon DEF Enqueue, Moves, workerVars
    <2>4. CASE EnqueueGivesUp(c)
      BY <2>4, EnqueueGivesUpInv, Zenon DEF EnqueueGivesUp, Moves, workerVars
    <2>5. CASE Wait(c) \/ WaitGivesUp(c)
      BY <2>5, WaitInv, Zenon DEF Wait, WaitGivesUp, Moves, workerVars
    <2> QED
      BY <1>3, <2>1, <2>2, <2>3, <2>4, <2>5, Zenon DEF CallerStep
  <1>4. CASE WorkerStep
    <2>1. accepted' = accepted
      BY <1>4, Zenon DEF WorkerStep, HandleEmit, HandleFlush, HandleClose, TimerFires
    <2> QED
      BY <1>4, <2>1, HandleEmitInv, HandleFlushInv, HandleCloseInv, TimerFiresInv, Zenon
         DEF WorkerStep, Moves
  <1> QED
    BY <1>1, <1>2, <1>3, <1>4, Zenon DEF Next

\* What the output holds on the way is the whole of what was accepted, in order.
THEOREM Invariance == Spec => []IInv
  <1>1. Init => IInv
    BY InitInv
  <1>2. IInv /\ [Next]_vars => IInv'
    BY NextInv
  <1> QED
    BY <1>1, <1>2, PTL DEF Spec

\* A Close or EmitAndClose that returns success has delivered every record that
\* was accepted, also those of Emit calls that raced with it.
THEOREM CloseIsComplete == Spec => []CloseDelivers
  <1>1. IInv => CloseDelivers
    BY Zenon DEF IInv, Answers, CloseDelivers
  <1> QED
    BY <1>1, Invariance, PTL

\* A Flush that the worker answers with success has delivered what was accepted
\* before the call.
THEOREM FlushIsComplete == Spec => []FlushAnswered
  <1>1. IInv => FlushAnswered
    BY Zenon DEF IInv, Answers
  <1> QED
    BY <1>1, Invariance, PTL

\* The output implements LogStream: records reach the manager in the order in
\* which they were accepted and none is skipped, whatever sends fail, and the
\* manager loses none.
THEOREM ImplementsLogStream == Spec => InOrder
  <1>1. Init => Stream!Init
    BY Zenon DEF Init, Stream!Init
  <1>2. ASSUME IInv, IInv', [Next]_vars
        PROVE  [Stream!Accept \/ Stream!Deliver]_<<accepted, stored>>
    <2>1. CASE \E r \in Records : accepted' = Append(accepted, r) /\ stored' = stored
      BY <2>1, Zenon DEF Stream!Accept
    <2>2. CASE accepted' = accepted /\ stored \subseteq stored'
      <3>1. PICK n \in 0 .. Len(accepted') : stored' = {accepted'[k] : k \in 1 .. n}
        BY <1>2, Zenon DEF IInv, Delivering, Gapless, First
      <3>2. CASE n = 0
        <4>1. stored' = {}
          BY <3>1, <3>2
        <4> QED
          BY <2>2, <4>1, Zenon
      <3>3. CASE n # 0
        <4>1. n \in 1 .. Len(accepted)
          BY <2>2, <3>1, <3>3
        <4> QED
          BY <2>2, <3>1, <4>1, Zenon DEF Stream!Deliver
      <3> QED
        BY <3>2, <3>3, Zenon
    <2>3. Moves
      BY <1>2, NextInv, Zenon
    <2> QED
      BY <2>1, <2>2, <2>3, Zenon DEF Moves
  <1> QED
    BY <1>1, <1>2, Invariance, PTL DEF Spec, InOrder, Stream!Spec
=============================================================================
