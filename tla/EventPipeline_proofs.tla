------------------------ MODULE EventPipeline_proofs ------------------------
(***************************************************************************)
(* Theorems about EventPipeline, for any processes, images, files, rules,  *)
(* scopes, caps and queue sizes: the ring of keys that deduplicates        *)
(* file_open records and what it suppresses, the image that a record       *)
(* names, and what the scopes make of the records: each is evaluated once, *)
(* alerts are capped, correlations fire once, the scopes do not influence  *)
(* each other and every observation is accounted for.                      *)
(***************************************************************************)
EXTENDS EventPipeline, TLAPS

(***************************************************************************)
(* The ring                                                                *)
(***************************************************************************)

LEMMA Mod ==
  ASSUME NEW a \in Nat, NEW n \in Nat, n > 0, a < 2 * n
  PROVE  a % n = IF a < n THEN a ELSE a - n
OBVIOUS

LEMMA ModRange == ASSUME NEW a \in Nat, NEW n \in Nat, n > 0 PROVE a % n \in 0 .. n - 1
OBVIOUS

LEMMA NewRing == RingConsistent(newFileOpenDedupState)
BY DedupLimitAssumption DEF RingConsistent, newFileOpenDedupState

(* remember keeps map and ring in step, whatever the limit. *)
LEMMA RememberConsistent ==
  ASSUME NEW d, NEW key, RingConsistent(d)
  PROVE  RingConsistent(remember(d, key))
<1> USE DedupLimitAssumption
<1>1. CASE DedupLimit = 0 \/ key \in d.seen
  BY <1>1 DEF remember
<1>2. CASE ~(DedupLimit = 0 \/ key \in d.seen) /\ Len(d.order) < DedupLimit
  <2> DEFINE seen == d.seen \cup {key}
             order == Append(d.order, key)
  <2>1. remember(d, key) = [seen |-> seen, order |-> order, next |-> d.next]
    BY <1>2 DEF remember
  <2>2. order \in Seq(seen) /\ Len(order) = Len(d.order) + 1 /\ Len(d.order) \in Nat
    BY DEF RingConsistent
  <2>3. order[Len(d.order) + 1] = key /\ \A i \in 1 .. Len(d.order) : order[i] = d.order[i]
    BY DEF RingConsistent
  <2> DEFINE n == Len(d.order)
  <2>4. /\ \A i \in 1 .. n : d.order[i] \in d.seen
        /\ \A k \in d.seen : \E i \in 1 .. n : d.order[i] = k
        /\ \A i, j \in 1 .. n : d.order[i] = d.order[j] => i = j
        /\ d.next = 0 /\ n + 1 <= DedupLimit
    <3>1. \A i \in 1 .. n : d.order[i] \in d.seen
      BY SMTT(30) DEF RingConsistent
    <3>2. /\ \A k \in d.seen : \E i \in 1 .. n : d.order[i] = k
          /\ \A i, j \in 1 .. n : d.order[i] = d.order[j] => i = j
      BY Zenon DEF RingConsistent
    <3>3. d.next = 0 /\ n + 1 <= DedupLimit
      BY <1>2, <2>2 DEF RingConsistent
    <3> QED BY <3>1, <3>2, <3>3, Zenon
  <2> HIDE DEF seen, order, n
  <2>5. n \in Nat /\ Len(order) = n + 1 /\ order[n + 1] = key
        /\ \A i \in 1 .. n : order[i] = d.order[i]
    BY <2>2, <2>3 DEF n
  <2>6. \A k \in seen : \E i \in 1 .. n + 1 : order[i] = k
    <3>1. n + 1 \in 1 .. n + 1 /\ 1 .. n \subseteq 1 .. n + 1
      BY <2>5
    <3> QED BY <2>4, <2>5, <3>1, Zenon DEF seen
  <2>7. \A i, j \in 1 .. n + 1 : order[i] = order[j] => i = j
    <3>1. \A i \in 1 .. n + 1 : i \in 1 .. n \/ i = n + 1
      BY <2>5
    <3>2. key \notin d.seen
      BY <1>2
    <3>3. \A i \in 1 .. n : order[i] # key
      BY <2>4, <2>5, <3>2
    <3>4. \A i, j \in 1 .. n : order[i] = order[j] => i = j
      BY <2>4, <2>5
    <3> QED BY <2>5, <3>1, <3>3, <3>4
  <2> QED BY <2>1, <2>2, <2>4, <2>5, <2>6, <2>7 DEF RingConsistent
<1>3. CASE ~(DedupLimit = 0 \/ key \in d.seen) /\ ~(Len(d.order) < DedupLimit)
  <2> DEFINE slot == d.next + 1
             seen == (d.seen \ {d.order[slot]}) \cup {key}
             order == [d.order EXCEPT ![slot] = key]
  <2>1. remember(d, key) = [seen |-> seen, order |-> order, next |-> slot % DedupLimit]
    BY <1>3 DEF remember
  <2>2. /\ Len(d.order) = DedupLimit /\ slot \in 1 .. DedupLimit /\ DedupLimit > 0
        /\ d.order \in Seq(d.seen) /\ DOMAIN d.order = 1 .. DedupLimit
    BY <1>3 DEF RingConsistent
  <2>3. \A i \in 1 .. DedupLimit : order[i] = IF i = slot THEN key ELSE d.order[i]
    BY <2>2
  <2>4. \A i \in 1 .. DedupLimit : d.order[i] \in d.seen
    BY <2>2
  <2>5. \A i, j \in 1 .. DedupLimit : d.order[i] = d.order[j] => i = j
    BY <2>2 DEF RingConsistent
  <2>6. slot % DedupLimit \in Nat /\ slot % DedupLimit < DedupLimit
    BY <2>2
  <2>7. order \in [1 .. DedupLimit -> d.seen \cup {key}]
    BY <2>2, <2>3, <2>4
  <2> HIDE DEF seen, order, slot
  <2>8. \A i \in 1 .. DedupLimit : order[i] \in seen
    BY <2>2, <2>3, <2>4, <2>5 DEF seen
  <2>9. order \in [1 .. DedupLimit -> seen]
    BY <2>7, <2>8
  <2>10. order \in Seq(seen) /\ Len(order) = DedupLimit
    BY <2>9
  <2>11. \A k \in seen : \E i \in 1 .. DedupLimit : order[i] = k
    BY <2>2, <2>3, Zenon DEF RingConsistent, seen
  <2>12. \A i, j \in 1 .. DedupLimit : order[i] = order[j] => i = j
    BY <1>3, <2>3, <2>4, <2>5
  <2> QED BY <2>1, <2>2, <2>6, <2>10, <2>11, <2>12 DEF RingConsistent
<1> QED BY <1>1, <1>2, <1>3

(* Where the slot of an age is, without the remainder. *)
LEMMA Slot ==
  ASSUME NEW n \in Nat, n > 0, NEW next \in 0 .. n - 1, NEW i \in 1 .. n
  PROVE  (next + i - 1) % n = IF next + i <= n THEN next + i - 1 ELSE next + i - 1 - n
<1> DEFINE a == next + i - 1
<1>1. a \in Nat /\ a < 2 * n /\ (a < n <=> next + i <= n)
  OBVIOUS
<1> HIDE DEF a
<1>2. a % n = IF a < n THEN a ELSE a - n
  BY <1>1, Mod
<1> QED BY <1>1, <1>2 DEF a

(* Until the ring is full it is already in order. *)
LEMMA AgesAligned ==
  ASSUME NEW d, NEW S, d.order \in Seq(S), d.next = 0
  PROVE  Ages(d) = d.order
<1> DEFINE n == Len(d.order)
<1>1. n \in Nat /\ DOMAIN d.order = 1 .. n
  OBVIOUS
<1>2. ASSUME NEW i \in 1 .. n PROVE d.order[((d.next + i - 1) % n) + 1] = d.order[i]
  <2>1. n > 0 /\ 0 \in 0 .. n - 1 /\ 0 + i <= n
    BY <1>1
  <2>2. (0 + i - 1) % n = 0 + i - 1
    BY <1>1, <2>1, Slot, Zenon
  <2> QED BY <1>1, <2>2
<1>3. Ages(d) = [i \in 1 .. n |-> d.order[i]]
  BY <1>2, Zenon DEF Ages
<1> QED BY <1>1, <1>3, SMTT(30)

(* A full ring that remembers a new key: everybody moves up by one. *)
LEMMA AgesShift ==
  ASSUME NEW n \in Nat, n > 0, NEW order, NEW new, NEW key,
         NEW next \in 0 .. n - 1, NEW next2, next2 = (next + 1) % n,
         \A i \in 1 .. n : new[i] = IF i = next + 1 THEN key ELSE order[i],
         NEW i \in 1 .. n
  PROVE  new[((next2 + i - 1) % n) + 1] =
           IF i = n THEN key ELSE order[((next + (i + 1) - 1) % n) + 1]
<1>1. next2 = IF next + 1 < n THEN next + 1 ELSE 0
  <2>2. n = 1 => (next + 1) % n = 0
    OBVIOUS
  <2>3. n # 1 => next + 1 < 2 * n
    OBVIOUS
  <2> QED BY <2>2, <2>3, Mod
<1>2. next2 \in 0 .. n - 1
  BY <1>1
<1> DEFINE j == (next2 + i - 1) % n
<1>3. j = IF next2 + i <= n THEN next2 + i - 1 ELSE next2 + i - 1 - n
  BY <1>2, Slot
<1> HIDE DEF j
<1>4. CASE i = n
  <2>1. j = next
    BY <1>1, <1>3, <1>4
  <2> QED BY <1>4, <2>1 DEF j
<1>5. CASE i # n
  <2>1. (next + (i + 1) - 1) % n = IF next + i + 1 <= n THEN next + i ELSE next + i - n
    <3>1. i + 1 \in 1 .. n
      BY <1>5
    <3>2. (next + (i + 1) - 1) % n = IF next + (i + 1) <= n THEN next + (i + 1) - 1 ELSE next + (i + 1) - 1 - n
      BY <3>1, Slot
    <3> QED BY <3>2
  <2>2. j = (next + (i + 1) - 1) % n /\ j \in 0 .. n - 1 /\ j # next
    BY <1>1, <1>3, <1>5, <2>1
  <2>3. new[j + 1] = order[j + 1]
    BY <2>2
  <2> QED BY <1>5, <2>2, <2>3 DEF j
<1> QED BY <1>4, <1>5

LEMMA AgesSeq ==
  ASSUME NEW d, RingConsistent(d)
  PROVE  /\ Ages(d) \in Seq(d.seen) /\ Len(Ages(d)) = Len(d.order)
         /\ \A k : k \notin d.seen => ~\E i \in 1 .. Len(Ages(d)) : Ages(d)[i] = k
<1> DEFINE n == Len(d.order)
<1>1. n \in Nat /\ \A i \in 1 .. n : d.order[i] \in d.seen
  BY DEF RingConsistent
<1>2. ASSUME NEW i \in 1 .. n PROVE ((d.next + i - 1) % n) + 1 \in 1 .. n
  <2>1. d.next \in Nat /\ n > 0
    BY <1>1 DEF RingConsistent
  <2>2. d.next + i - 1 \in Nat
    BY <1>1, <2>1
  <2>3. (d.next + i - 1) % n \in 0 .. n - 1
    BY <1>1, <2>1, <2>2, ModRange
  <2> QED BY <1>1, <2>3
<1>3. Ages(d) = [i \in 1 .. n |-> d.order[((d.next + i - 1) % n) + 1]]
  BY DEF Ages
<1>4. Ages(d) \in [1 .. n -> d.seen]
  BY <1>1, <1>2, <1>3
<1> HIDE DEF n
<1>5. Ages(d) \in Seq(d.seen) /\ Len(Ages(d)) = n
  BY <1>1, <1>4
<1> QED BY <1>4, <1>5 DEF n

(* fileOpenDedupState is a bounded queue: from oldest to newest, its keys  *)
(* after remember are those of a queue whose oldest key makes room.        *)
THEOREM RememberIsFIFO ==
  ASSUME NEW d, NEW key, RingConsistent(d)
  PROVE  Ages(remember(d, key)) = Oldest(Ages(d), key)
<1> USE DedupLimitAssumption
<1>0. /\ Ages(d) \in Seq(d.seen) /\ Len(Ages(d)) = Len(d.order)
      /\ key \notin d.seen => ~\E i \in 1 .. Len(Ages(d)) : Ages(d)[i] = key
  BY AgesSeq
<1>1. CASE DedupLimit = 0
  BY <1>1 DEF remember, Oldest
<1>2. CASE DedupLimit # 0 /\ key \in d.seen
  <2>1. PICK j \in 1 .. Len(d.order) : d.order[j] = key
    BY <1>2 DEF RingConsistent
  <2> DEFINE n == Len(d.order)
  <2>2. n \in Nat /\ n > 0 /\ d.next \in 0 .. n - 1
    BY <1>2, <2>1 DEF RingConsistent
  <2> DEFINE i == IF j > d.next THEN j - d.next ELSE j - d.next + n
  <2>3. i \in 1 .. n /\ j \in 1 .. n
    BY <2>1, <2>2, SMTT(30)
  <2>4. (IF d.next + i <= n THEN d.next + i - 1 ELSE d.next + i - 1 - n) = j - 1
    <3>1. CASE j > d.next
      BY <2>2, <2>3, <3>1, SMTT(30)
    <3>2. CASE ~(j > d.next)
      BY <2>2, <2>3, <3>2, SMTT(30)
    <3> QED BY <3>1, <3>2
  <2> HIDE DEF i, n
  <2>5. ((d.next + i - 1) % n) + 1 = j
    <3>1. (d.next + i - 1) % n = j - 1
      BY <2>2, <2>3, <2>4, Slot, Zenon
    <3> QED BY <2>3, <3>1
  <2>6. Ages(d)[i] = key
    BY <2>1, <2>3, <2>5 DEF Ages, n
  <2>7. \E x \in 1 .. Len(Ages(d)) : Ages(d)[x] = key
    BY <1>0, <2>3, <2>6 DEF n
  <2> QED BY <1>2, <2>7 DEF remember, Oldest
<1>3. CASE DedupLimit # 0 /\ key \notin d.seen /\ Len(d.order) < DedupLimit
  <2>1. d.next = 0 /\ d.order \in Seq(d.seen)
    BY <1>3 DEF RingConsistent
  <2> DEFINE r == [seen |-> d.seen \cup {key}, order |-> Append(d.order, key), next |-> d.next]
  <2>2. remember(d, key) = r
    BY <1>3 DEF remember
  <2>3. r.next = 0 /\ r.order = Append(d.order, key) /\ r.order \in Seq(d.seen \cup {key})
    BY <2>1
  <2> HIDE DEF r
  <2>4. Ages(r) = Append(d.order, key) /\ Ages(d) = d.order
    BY <2>1, <2>3, AgesAligned, Zenon
  <2> QED BY <1>0, <1>3, <2>2, <2>4 DEF Oldest
<1>4. CASE DedupLimit # 0 /\ key \notin d.seen /\ ~(Len(d.order) < DedupLimit)
  <2> DEFINE n == DedupLimit
             new == [d.order EXCEPT ![d.next + 1] = key]
             next2 == (d.next + 1) % n
             r == [seen |-> (d.seen \ {d.order[d.next + 1]}) \cup {key},
                   order |-> new, next |-> next2]
             A == Ages(d)
  <2>1. remember(d, key) = r /\ r.order = new /\ r.next = next2
    BY <1>4 DEF remember
  <2>2. n \in Nat /\ n > 0 /\ Len(d.order) = n /\ d.next \in 0 .. n - 1 /\ DOMAIN d.order = 1 .. n
    BY <1>4 DEF RingConsistent
  <2>3. \A i \in 1 .. n : new[i] = IF i = d.next + 1 THEN key ELSE d.order[i]
    BY <2>2
  <2>4. RingConsistent(r) /\ Len(new) = n
    <3>1. RingConsistent(r)
      <4>1. RingConsistent(remember(d, key))
        BY RememberConsistent
      <4> QED BY <2>1, <4>1, Zenon
    <3>2. DOMAIN new = 1 .. n /\ new \in Seq(r.seen)
      BY <2>1, <2>2, <3>1 DEF RingConsistent
    <3> QED BY <2>2, <3>1, <3>2
  <2>5. A \in Seq(d.seen) /\ Len(A) = n
        /\ \A i \in 1 .. n : A[i] = d.order[((d.next + i - 1) % n) + 1]
    BY <1>0, <2>2 DEF Ages
  <2> HIDE DEF A, new, next2, n
  <2>6. \A i \in 1 .. n : new[((next2 + i - 1) % n) + 1] =
                             IF i = n THEN key ELSE d.order[((d.next + (i + 1) - 1) % n) + 1]
    <3> DEFINE order == d.order
               next == d.next
    <3>1. next2 = (next + 1) % n /\ next \in 0 .. n - 1
      BY <2>2 DEF next2
    <3>2. \A i \in 1 .. n : new[i] = IF i = next + 1 THEN key ELSE order[i]
      BY <2>3
    <3> HIDE DEF order, next
    <3>3. ASSUME NEW i \in 1 .. n
          PROVE  new[((next2 + i - 1) % n) + 1] =
                   IF i = n THEN key ELSE order[((next + (i + 1) - 1) % n) + 1]
      BY <2>2, <3>1, <3>2, AgesShift, SMTT(30)
    <3> QED BY <3>3 DEF order, next
  <2>7. Ages(r) = [i \in 1 .. n |-> new[((next2 + i - 1) % n) + 1]]
    BY <2>1, <2>4 DEF Ages
  <2>8. \A i \in 1 .. n : i # n => A[i + 1] = d.order[((d.next + (i + 1) - 1) % n) + 1]
    <3>1. \A i \in 1 .. n : i # n => i + 1 \in 1 .. n
      BY <2>2
    <3> QED BY <2>5, <3>1, Zenon
  <2>9. Ages(r) = [i \in 1 .. n |-> IF i = n THEN key ELSE A[i + 1]]
    BY <2>6, <2>7, <2>8, Zenon
  <2>10. Append(Tail(A), key) = [i \in 1 .. n |-> IF i = n THEN key ELSE A[i + 1]]
    <3>1. Tail(A) \in Seq(d.seen) /\ Len(Tail(A)) = n - 1
          /\ \A i \in 1 .. n - 1 : Tail(A)[i] = A[i + 1]
      BY <2>2, <2>5
    <3> DEFINE B == Append(Tail(A), key)
    <3>2. B \in Seq(d.seen \cup {key}) /\ Len(B) = n
      BY <2>2, <3>1
    <3>3. \A i \in 1 .. n : B[i] = IF i = n THEN key ELSE A[i + 1]
      BY <2>2, <3>1
    <3> HIDE DEF B
    <3>4. DOMAIN B = 1 .. n /\ B = [i \in DOMAIN B |-> B[i]]
      BY <3>2
    <3>5. B = [i \in 1 .. n |-> IF i = n THEN key ELSE A[i + 1]]
      BY <3>3, <3>4
    <3> QED BY <3>5 DEF B
  <2>11. Oldest(A, key) = Append(Tail(A), key)
    BY <1>0, <1>4, <2>2, <2>5 DEF Oldest, A, n
  <2> QED BY <2>1, <2>9, <2>10, <2>11, Zenon DEF A
<1> QED BY <1>1, <1>2, <1>3, <1>4

(***************************************************************************)
(* The pipeline                                                            *)
(***************************************************************************)

AnyImage == Images \cup {NoImage}
Samples ==
    {x \in [type : {"fork", "process_exec", "file_open", "domain"}, proc : Procs,
            object : Procs \cup Images \cup Files \cup Domains, truth : AnyImage, exact : BOOLEAN] :
       /\ x.type = "file_open" => x.object \in Files
       /\ x.type = "process_exec" => x.object \in Images}

IsSeq(q) == \E S : q \in Seq(S)
ImagesKnown(n) == \A p \in DOMAIN n : n[p].image \in AnyImage
KernelTypes == image \in [Procs -> AnyImage] /\ ring \in Seq(Samples)
ScopeTypes == attached \subseteq Scopes /\ attached # {}

(* What makes the two invariants of the deduplication inductive. *)
IInv ==
    /\ KernelTypes /\ ScopeTypes
    /\ ImagesKnown(nodes)
    /\ IsSeq(channel)
    /\ DedupConsistent
    /\ SuppressibleWasDelivered

LEMMA Appended ==
  ASSUME NEW q, NEW e, IsSeq(q)
  PROVE  /\ IsSeq(Append(q, e)) /\ Len(q) \in Nat /\ Len(Append(q, e)) = Len(q) + 1
         /\ \A i \in 1 .. Len(q) : Append(q, e)[i] = q[i]
         /\ Append(q, e)[Len(q) + 1] = e
<1>1. PICK S : q \in Seq(S)
  BY DEF IsSeq
<1>2. Append(q, e) \in Seq(S \cup {e})
  BY <1>1
<1>3. IsSeq(Append(q, e))
  BY <1>2, Zenon DEF IsSeq
<1> QED BY <1>1, <1>3

LEMMA Dequeued ==
  ASSUME NEW q, IsSeq(q), q # <<>>
  PROVE  /\ IsSeq(Tail(q)) /\ Len(q) \in Nat /\ Len(Tail(q)) = Len(q) - 1
         /\ \A i \in 1 .. Len(q) - 1 : Tail(q)[i] = q[i + 1]
         /\ Head(q) = q[1]
<1>1. PICK S : q \in Seq(S)
  BY DEF IsSeq
<1>2. Tail(q) \in Seq(S)
  BY <1>1
<1>3. IsSeq(Tail(q))
  BY <1>2, Zenon DEF IsSeq
<1> QED BY <1>1, <1>3

LEMMA InitIInv == ASSUME Init PROVE IInv
<1>1. KernelTypes
  BY PipelineAssumption DEF Init, KernelTypes, AnyImage
<1>2. ScopeTypes
  BY PipelineAssumption, Zenon DEF Init, ScopeTypes
<1>3. ImagesKnown(nodes)
  BY DEF Init, ImagesKnown
<1>4. channel \in Seq({})
  BY DEF Init
<1>5. IsSeq(channel)
  BY <1>4, Zenon DEF IsSeq
<1>6. DedupConsistent
  BY NewRing DEF Init, DedupConsistent
<1>7. SuppressibleWasDelivered
  BY DEF Init, newFileOpenDedupState, SuppressibleWasDelivered
<1> QED BY <1>1, <1>2, <1>3, <1>5, <1>6, <1>7 DEF IInv

(* remember adds no other key. *)
LEMMA RememberAdds == ASSUME NEW d, NEW key PROVE remember(d, key).seen \subseteq d.seen \cup {key}
BY DEF remember

(* What emitEventRecord makes of the deduplication state: nothing, or it   *)
(* remembers the key of a record that it has just delivered.               *)
LEMMA EmitInv ==
  ASSUME IInv, NEW ev, emitEventRecord(ev), UNCHANGED evaluated
  PROVE  /\ IsSeq(channel)' /\ DedupConsistent' /\ SuppressibleWasDelivered'
         /\ dedup' # dedup => hasKey(ev) /\ dedup' = remember(dedup, keyOf(ev))
<1> DEFINE seen == hasKey(ev) /\ contains(dedup, keyOf(ev))
           fits == Len(channel) < QueueSize
<1>1. /\ channel' = IF ~seen /\ fits THEN Append(channel, ev) ELSE channel
      /\ dedup' = IF ~seen /\ fits /\ hasKey(ev) THEN remember(dedup, keyOf(ev)) ELSE dedup
  BY DEF emitEventRecord
<1> HIDE DEF seen, fits
<1>2. channel' = channel \/ channel' = Append(channel, ev)
  BY <1>1
<1>3. IsSeq(channel)' /\ Len(channel) \in Nat /\ Len(channel)' \in Nat
      /\ Len(channel) <= Len(channel)' /\ \A i \in 1 .. Len(channel) : channel'[i] = channel[i]
  <2>1. IsSeq(channel)
    BY DEF IInv
  <2>2. Len(channel) \in Nat
    BY <2>1, Appended
  <2>3. CASE channel' = channel
    BY <2>1, <2>2, <2>3 DEF IsSeq
  <2>4. CASE channel' = Append(channel, ev)
    <3>1. IsSeq(Append(channel, ev))
      BY <2>1, Appended
    <3>2. IsSeq(channel)'
      BY <3>1, <2>4, Zenon DEF IsSeq
    <3> QED BY <2>1, <2>2, <2>4, <3>2, Appended
  <2> QED BY <1>2, <2>3, <2>4
<1>4. \A k \in dedup.seen :
        \/ \E i \in 1 .. Len(channel') : hasKey(channel'[i]) /\ keyOf(channel'[i]) = k
        \/ \E s \in Scopes : <<k, s>> \in evaluated'
  <2>1. 1 .. Len(channel) \subseteq 1 .. Len(channel')
    BY <1>3
  <2> QED BY <1>3, <2>1, Zenon DEF IInv, SuppressibleWasDelivered
<1>5. CASE dedup' = dedup
  <2>1. DedupConsistent'
    BY <1>5 DEF IInv, DedupConsistent
  <2>2. SuppressibleWasDelivered'
    BY <1>4, <1>5, Zenon DEF SuppressibleWasDelivered
  <2> QED BY <1>3, <1>5, <2>1, <2>2
<1>6. CASE hasKey(ev) /\ dedup' = remember(dedup, keyOf(ev)) /\ channel' = Append(channel, ev)
  <2>1. DedupConsistent'
    <3>1. RingConsistent(remember(dedup, keyOf(ev)))
      BY RememberConsistent DEF IInv, DedupConsistent
    <3> QED BY <1>6, <3>1, Zenon DEF DedupConsistent
  <2>2. \E i \in 1 .. Len(channel') : channel'[i] = ev
    <3>1. Len(channel') = Len(channel) + 1 /\ channel'[Len(channel) + 1] = ev
      BY <1>6, Appended DEF IInv
    <3> QED BY <1>3, <3>1
  <2>3. dedup'.seen \subseteq dedup.seen \cup {keyOf(ev)}
    BY <1>6, RememberAdds
  <2>4. SuppressibleWasDelivered'
    BY <1>4, <1>6, <2>2, <2>3, Zenon DEF SuppressibleWasDelivered
  <2> QED BY <1>3, <1>6, <2>1, <2>4
<1> QED BY <1>1, <1>5, <1>6

(* The kernel writes only the ring and its own state. *)
LEMMA Submitted ==
  ASSUME ring \in Seq(Samples), NEW x \in Samples, submit(x)
  PROVE  ring' \in Seq(Samples)
BY DEF submit

LEMMA SampleTyped ==
  ASSUME NEW type \in {"fork", "process_exec", "file_open", "domain"}, NEW q \in Procs,
         NEW object \in Procs \cup Images \cup Files \cup Domains, NEW i \in AnyImage,
         type = "file_open" => object \in Files,
         type = "process_exec" => object \in Images
  PROVE  \A b \in BOOLEAN : Sample(type, q, object, i, b) \in Samples
BY DEF Samples, Sample

LEMMA KernelInv == ASSUME IInv, Kernel PROVE KernelTypes'
<1>0. image \in [Procs -> AnyImage] /\ ring \in Seq(Samples)
  BY DEF IInv, KernelTypes
<1>2. ASSUME NEW p \in Procs, NEW c \in Young, Fork(p, c) PROVE KernelTypes'
  <2>1. c \in Procs /\ image[p] \in AnyImage /\ (p \in traced) \in BOOLEAN
    BY <1>0 DEF Procs
  <2>2. Sample("fork", c, p, image[p], p \in traced) \in Samples
    BY <2>1, SampleTyped, Zenon
  <2>3. ring' \in Seq(Samples)
    BY <1>0, <1>2, <2>2, Submitted DEF Fork
  <2>4. image' \in [Procs -> AnyImage]
    BY <1>0, <1>2, <2>1 DEF Fork
  <2> QED BY <2>3, <2>4 DEF KernelTypes
<1>3. ASSUME NEW p \in Procs, NEW i \in Images, Exec(p, i) PROVE KernelTypes'
  <2>1. i \in AnyImage
    BY DEF AnyImage
  <2>2. Sample("process_exec", p, i, i, TRUE) \in Samples
    BY <2>1, SampleTyped, Zenon
  <2>3. ring' \in Seq(Samples)
    BY <1>0, <1>3, <2>2, Submitted, Zenon DEF Exec
  <2>4. image' \in [Procs -> AnyImage]
    BY <1>0, <1>3, <2>1 DEF Exec
  <2> QED BY <2>3, <2>4 DEF KernelTypes
<1>4. ASSUME NEW a \in Acts, Act(a[1], a[2], a[3]) PROVE KernelTypes'
  <2>1. /\ a[1] \in Procs
        /\ \/ a[2] = "file_open" /\ a[3] \in Files
           \/ a[2] = "domain" /\ a[3] \in Domains
    <3>1. \/ a \in Procs \X {"file_open"} \X Files
          \/ a \in Procs \X {"domain"} \X Domains
      BY PipelineAssumption, Zenon
    <3> QED BY <3>1
  <2>2. image[a[1]] \in AnyImage /\ (a[1] \in traced) \in BOOLEAN
    BY <1>0, <2>1
  <2>3. Sample(a[2], a[1], a[3], image[a[1]], a[1] \in traced) \in Samples
    BY <2>1, <2>2, SampleTyped, Zenon
  <2>4. ring' \in Seq(Samples) /\ UNCHANGED image
    BY <1>0, <1>4, <2>3, Submitted DEF Act
  <2> QED BY <1>0, <2>4 DEF KernelTypes
<1>5. ASSUME NEW p \in Procs, Exit(p) PROVE KernelTypes'
  BY <1>0, <1>5 DEF Exit, KernelTypes
<1> QED BY <1>2, <1>3, <1>4, <1>5 DEF Kernel

LEMMA KernelFrame ==
  ASSUME Kernel
  PROVE  UNCHANGED <<nodes, dedup, channel, state, attached, evaluated>>
BY Zenon DEF Kernel, Fork, Exec, Act, Exit, trackerVars, jobVars, history

(* The tracker knows no image that is none. *)
LEMMA SetNodeKnown ==
  ASSUME NEW n, NEW q, NEW node, ImagesKnown(n), node.image \in AnyImage
  PROVE  ImagesKnown(setNode(n, q, node))
BY DEF ImagesKnown, setNode

LEMMA LookupKnown ==
  ASSUME NEW n, NEW q, ImagesKnown(n)
  PROVE  lookupProcessSummary(n, q).image \in AnyImage
BY DEF ImagesKnown, lookupProcessSummary, known, UnknownProcess, AnyImage

LEMMA ForkKnown ==
  ASSUME NEW n, NEW c, NEW q, ImagesKnown(n)
  PROVE  ImagesKnown(recordFork(n, c, q))
<1>1. CASE known(n, q)
  <2> DEFINE node == LET lineage == <<n[q].image>> \o n[q].ancestors
                     IN  [image |-> n[q].image,
                          ancestors |-> IF Len(lineage) > MaxAncestorDepth
                                        THEN SubSeq(lineage, 1, MaxAncestorDepth) ELSE lineage]
  <2>1. recordFork(n, c, q) = setNode(n, c, node)
    BY <1>1, Zenon DEF recordFork
  <2>2. node.image \in AnyImage
    BY <1>1 DEF known, ImagesKnown
  <2> HIDE DEF node
  <2> QED BY <2>1, <2>2, SetNodeKnown
<1>2. CASE ~known(n, q)
  <2>1. recordFork(n, c, q) = setNode(n, c, UnknownProcess)
    BY <1>2, Zenon DEF recordFork
  <2>2. UnknownProcess.image \in AnyImage
    BY DEF UnknownProcess, AnyImage
  <2> HIDE DEF UnknownProcess
  <2> QED BY <2>1, <2>2, SetNodeKnown
<1> QED BY <1>1, <1>2

LEMMA ExecKnown ==
  ASSUME NEW n, NEW q, NEW i \in AnyImage, ImagesKnown(n)
  PROVE  ImagesKnown(recordExec(n, q, i)) /\ ImagesKnown(backfill(n, q, i))
<1>1. \A a : [image |-> i, ancestors |-> a].image \in AnyImage
  OBVIOUS
<1>2. ImagesKnown(recordExec(n, q, i))
  BY <1>1, SetNodeKnown DEF recordExec
<1>3. ImagesKnown(backfill(n, q, i))
  BY <1>1, SetNodeKnown DEF backfill
<1> QED BY <1>2, <1>3

(* One sample handled: the record that is emitted, if any, carries a key.  *)
Handled ==
    /\ ImagesKnown(nodes)' /\ IsSeq(channel)' /\ DedupConsistent' /\ SuppressibleWasDelivered'
    /\ dedup' # dedup => \E k \in Key : dedup' = remember(dedup, k)

LEMMA EmitHandled ==
  ASSUME IInv, NEW x \in Samples, NEW process, process.image \in AnyImage,
         emitEventRecord(record(x, process)), ImagesKnown(nodes)', UNCHANGED evaluated
  PROVE  Handled
<1> DEFINE ev == record(x, process)
<1>1. hasKey(ev) => keyOf(ev) \in Key
  BY DEF hasKey, keyOf, record, Key, Samples, AnyImage
<1> HIDE DEF ev
<1>2. emitEventRecord(ev)
  BY DEF ev
<1> QED BY <1>1, <1>2, EmitInv DEF Handled

LEMMA InputInv ==
  ASSUME IInv, handleEngineInput
  PROVE  KernelTypes' /\ Handled
<1>0. ring # <<>> /\ ring \in Seq(Samples) /\ image \in [Procs -> AnyImage] /\ ImagesKnown(nodes)
      /\ UNCHANGED <<image, evaluated>> /\ ring' = Tail(ring)
  BY DEF handleEngineInput, IInv, KernelTypes, history
<1> DEFINE x == Head(ring)
<1>1. x \in Samples /\ ring' \in Seq(Samples)
  BY <1>0
<1>2. KernelTypes'
  BY <1>0, <1>1 DEF KernelTypes
<1> SUFFICES Handled
  BY <1>2
<1> HIDE DEF x
<1>3. x.proc \in Procs /\ (x.type = "process_exec" => x.object \in Images)
  BY <1>1 DEF Samples
<1>4. ASSUME UNCHANGED <<dedup, channel>>, ImagesKnown(nodes)' PROVE Handled
  <2>1. IsSeq(channel)' /\ DedupConsistent' /\ SuppressibleWasDelivered'
    BY <1>0, <1>4, Zenon DEF IInv, IsSeq, DedupConsistent, SuppressibleWasDelivered
  <2> QED BY <1>4, <2>1 DEF Handled
<1>5. ASSUME nodes' = nodes PROVE ImagesKnown(nodes)'
  BY <1>0, <1>5 DEF ImagesKnown
<1>6. ASSUME NEW n, ImagesKnown(n), nodes' = n PROVE ImagesKnown(nodes)'
  BY <1>6 DEF ImagesKnown
<1>7. CASE handleForkSample(x)
  <2>1. ImagesKnown(nodes)'
    BY <1>0, <1>6, <1>7, ForkKnown DEF handleForkSample
  <2>2. UNCHANGED <<dedup, channel>>
    BY <1>7 DEF handleForkSample
  <2> QED BY <1>4, <2>1, <2>2
<1>8. CASE handleExecSample(x)
  <2>1. x.object \in AnyImage
    BY <1>3, <1>8 DEF handleExecSample, AnyImage
  <2>2. ImagesKnown(nodes)' /\ ImagesKnown(nodes')
    BY <1>0, <1>6, <1>8, <2>1, ExecKnown DEF handleExecSample
  <2>3. lookupProcessSummary(nodes', x.proc).image \in AnyImage
    BY <2>2, LookupKnown
  <2> DEFINE process == lookupProcessSummary(nodes', x.proc)
  <2>4. emitEventRecord(record(x, process)) /\ UNCHANGED evaluated
    BY <1>0, <1>8 DEF handleExecSample
  <2> HIDE DEF process
  <2> QED BY <1>1, <2>2, <2>3, <2>4, EmitHandled DEF process
<1>9. CASE emitWithContext(x)
  <2> DEFINE exe == IF x.proc \in alive THEN image[x.proc] ELSE NoImage
  <2>1. exe \in AnyImage
    BY <1>0, <1>3 DEF AnyImage
  <2>2. nodes' = backfill(nodes, x.proc, exe)
    BY <1>9 DEF emitWithContext
  <2> HIDE DEF exe
  <2>3. ImagesKnown(nodes)' /\ ImagesKnown(nodes')
    BY <1>0, <1>6, <2>1, <2>2, ExecKnown
  <2>4. lookupProcessSummary(nodes', x.proc).image \in AnyImage
    BY <2>3, LookupKnown
  <2> DEFINE process == lookupProcessSummary(nodes', x.proc)
  <2>5. emitEventRecord(record(x, process)) /\ UNCHANGED evaluated
    BY <1>0, <1>9 DEF emitWithContext
  <2> HIDE DEF process
  <2> QED BY <1>1, <2>3, <2>4, <2>5, EmitHandled DEF process
<1>10. CASE UNCHANGED trackerVars
  <2>1. nodes' = nodes /\ UNCHANGED <<dedup, channel>>
    BY <1>10 DEF trackerVars
  <2> QED BY <1>4, <1>5, <2>1
<1>11. handleForkSample(x) \/ handleExecSample(x) \/ emitWithContext(x) \/ UNCHANGED trackerVars
  BY Zenon DEF handleEngineInput, handleFileOpenSample, handleDNSSample, x
<1> QED BY <1>7, <1>8, <1>9, <1>10, <1>11

(* The worker takes the oldest record: its key is evaluated from now on.   *)
LEMMA ProcessInv ==
  ASSUME IInv, processEvent
  PROVE  IsSeq(channel)' /\ SuppressibleWasDelivered'
<1> DEFINE n == Len(channel)
<1>1. channel # <<>> /\ channel' = Tail(channel) /\ UNCHANGED dedup /\ IsSeq(channel)
  BY DEF processEvent, IInv
<1>2. IsSeq(Tail(channel)) /\ n \in Nat /\ Len(channel') = n - 1 /\ Head(channel) = channel[1]
      /\ \A i \in 1 .. n - 1 : channel'[i] = channel[i + 1]
  BY <1>1, Dequeued
<1>3. IsSeq(channel)'
  BY <1>1, <1>2, Zenon DEF IsSeq
<1>4. PICK t : t \in attached /\ t \in Scopes
  BY DEF IInv, ScopeTypes
<1>5. /\ evaluated \subseteq evaluated'
      /\ hasKey(channel[1]) => <<keyOf(channel[1]), t>> \in evaluated'
  BY <1>2, <1>4 DEF processEvent
<1> HIDE DEF n
<1>6. ASSUME NEW k \in dedup.seen
      PROVE  \/ \E i \in 1 .. n - 1 : hasKey(channel'[i]) /\ keyOf(channel'[i]) = k
             \/ \E s \in Scopes : <<k, s>> \in evaluated'
  <2>1. \/ \E i \in 1 .. n : hasKey(channel[i]) /\ keyOf(channel[i]) = k
        \/ \E s \in Scopes : <<k, s>> \in evaluated
    BY <1>6, Zenon DEF IInv, SuppressibleWasDelivered, n
  <2>2. ASSUME NEW i \in 1 .. n, i # 1
        PROVE  i - 1 \in 1 .. n - 1 /\ channel'[i - 1] = channel[i]
    <3>1. i - 1 \in 1 .. n - 1 /\ (i - 1) + 1 = i
      BY <1>2, <2>2 DEF n
    <3> QED BY <1>2, <3>1 DEF n
  <2> QED BY <1>4, <1>5, <2>1, <2>2, Zenon
<1>7. SuppressibleWasDelivered'
  BY <1>1, <1>2, <1>6, Zenon DEF SuppressibleWasDelivered, n
<1> QED BY <1>3, <1>7

LEMMA StepIInv == ASSUME IInv, [Next]_vars PROVE IInv'
<1>0. KernelTypes /\ ScopeTypes /\ ImagesKnown(nodes) /\ IsSeq(channel)
      /\ DedupConsistent /\ SuppressibleWasDelivered
  BY DEF IInv
<1>1. ASSUME UNCHANGED attached PROVE ScopeTypes'
  BY <1>0, <1>1 DEF ScopeTypes
<1>2. ASSUME UNCHANGED <<image, ring>> PROVE KernelTypes'
  BY <1>0, <1>2 DEF KernelTypes
<1>3. ASSUME UNCHANGED nodes PROVE ImagesKnown(nodes)'
  BY <1>0, <1>3 DEF ImagesKnown
<1>4. ASSUME UNCHANGED channel PROVE IsSeq(channel)'
  BY <1>0, <1>4 DEF IsSeq
<1>5. ASSUME UNCHANGED dedup PROVE DedupConsistent'
  BY <1>0, <1>5 DEF DedupConsistent
<1>6. ASSUME UNCHANGED <<dedup, channel, evaluated>> PROVE SuppressibleWasDelivered'
  BY <1>0, <1>6, Zenon DEF SuppressibleWasDelivered
<1>7. CASE Kernel
  BY <1>1, <1>3, <1>4, <1>5, <1>6, <1>7, KernelInv, KernelFrame DEF IInv
<1>8. CASE handleEngineInput
  <2>1. UNCHANGED attached
    BY <1>8 DEF handleEngineInput, jobVars
  <2> QED BY <1>1, <1>8, <2>1, InputInv DEF IInv, Handled
<1>9. CASE MarkClosing \/ UNCHANGED vars
  <2>1. UNCHANGED <<image, ring, nodes, dedup, channel, attached, evaluated>>
    BY <1>9 DEF MarkClosing, vars, kernelVars, trackerVars, jobVars, history
  <2> QED BY <1>1, <1>2, <1>3, <1>4, <1>5, <1>6, <2>1 DEF IInv
<1>10. CASE removeJob
  <2>1. UNCHANGED <<image, ring, channel, attached>>
    BY <1>10 DEF removeJob, kernelVars
  <2>2. ImagesKnown(nodes)'
    BY <1>10 DEF removeJob, ImagesKnown
  <2>3. DedupConsistent'
    BY <1>10, NewRing DEF removeJob, DedupConsistent
  <2>4. SuppressibleWasDelivered'
    BY <1>10 DEF removeJob, newFileOpenDedupState, SuppressibleWasDelivered
  <2> QED BY <1>1, <1>2, <1>4, <2>1, <2>2, <2>3, <2>4 DEF IInv
<1>11. CASE SetProjectScope
  <2>1. UNCHANGED <<image, ring, nodes, dedup, channel, evaluated>>
    BY <1>11 DEF SetProjectScope, kernelVars, trackerVars, history
  <2>2. ScopeTypes'
    BY <1>0, <1>11 DEF SetProjectScope, ScopeTypes, Scopes
  <2> QED BY <1>2, <1>3, <1>4, <1>5, <1>6, <2>1, <2>2 DEF IInv
<1>12. CASE processEvent
  <2>1. UNCHANGED <<image, ring, nodes, dedup, attached>>
    BY <1>12 DEF processEvent
  <2> QED BY <1>1, <1>2, <1>3, <1>5, <1>12, <2>1, ProcessInv, SMTT(30) DEF IInv
<1> QED BY <1>7, <1>8, <1>9, <1>10, <1>11, <1>12 DEF Next

LEMMA AlwaysIInv == Spec => []IInv
<1> QED BY InitIInv, StepIInv, PTL DEF Spec

(***************************************************************************)
(* Attribution                                                             *)
(***************************************************************************)

(* A fork or an exec gives process q its image.  The image comes from the  *)
(* parent at a fork.                                                       *)
Origin(x, q) == x.type \in {"fork", "process_exec"} /\ x.proc = q
Source(x) == IF x.type = "fork" THEN x.object ELSE x.proc

(* Whoever has applied the first m samples of r to n knows that q runs v.  *)
Silent(r, q, i, j) == \A k \in i .. j : ~Origin(r[k], q)
NodeTells(n, q, v) == q \in DOMAIN n /\ n[q].image = v
SampleTells(r, q, i, v) == Origin(r[i], q) /\ r[i].exact /\ r[i].truth = v
Tells(r, n, q, m, v) ==
    \/ Silent(r, q, 1, m) /\ NodeTells(n, q, v)
    \/ \E i \in 1 .. m : SampleTells(r, q, i, v) /\ Silent(r, q, i + 1, m)

(* What is said to be exact is told by what comes before it.               *)
Running ==
    /\ alive \subseteq Procs /\ traced \subseteq Procs
    /\ \A p \in alive \cup traced : image[p] # NoImage
ExecsTold(r) == \A i \in 1 .. Len(r) : r[i].type = "process_exec" => r[i].truth = r[i].object
OthersTold(r, n) ==
    \A i \in 1 .. Len(r) :
        r[i].type # "process_exec" /\ r[i].exact => Tells(r, n, Source(r[i]), i - 1, r[i].truth)
TracedTold == \A p \in traced : Tells(ring, nodes, p, Len(ring), image[p])
AInv ==
    /\ Running /\ AttributionExact
    /\ state # "removed" => ExecsTold(ring) /\ OthersTold(ring, nodes) /\ TracedTold

LEMMA TellsPrefix ==
  ASSUME NEW r, NEW n, NEW q, NEW m, NEW v, NEW t, \A i \in 1 .. m : t[i] = r[i],
         m \in Nat, Tells(r, n, q, m, v)
  PROVE  Tells(t, n, q, m, v)
<1>1. \A i \in 1 .. m : i + 1 .. m \subseteq 1 .. m
  OBVIOUS
<1>2. ASSUME NEW i, i .. m \subseteq 1 .. m, Silent(r, q, i, m) PROVE Silent(t, q, i, m)
  BY <1>2, Zenon DEF Silent
<1>3. ASSUME NEW i \in 1 .. m, SampleTells(r, q, i, v) PROVE SampleTells(t, q, i, v)
  BY <1>3, Zenon DEF SampleTells
<1> QED BY <1>1, <1>2, <1>3, Zenon DEF Tells

LEMMA SilentMore ==
  ASSUME NEW r, NEW q, NEW i, NEW m \in Nat, Silent(r, q, i, m), ~Origin(r[m + 1], q), i \in Nat
  PROVE  Silent(r, q, i, m + 1)
<1>1. \A k \in i .. m + 1 : k \in i .. m \/ k = m + 1
  OBVIOUS
<1> QED BY <1>1, Zenon DEF Silent

(* A sample of another process changes nothing for q. *)
LEMMA TellsOther ==
  ASSUME NEW r, NEW n, NEW q, NEW m \in Nat, NEW v, Tells(r, n, q, m, v), ~Origin(r[m + 1], q)
  PROVE  Tells(r, n, q, m + 1, v)
<1>1. \A i \in 1 .. m : i \in 1 .. m + 1 /\ i + 1 \in Nat
  OBVIOUS
<1>2. 1 \in Nat
  OBVIOUS
<1> QED BY <1>1, <1>2, SilentMore, Zenon DEF Tells

(* A fork or exec of q that is exact tells its image. *)
LEMMA TellsNew ==
  ASSUME NEW r, NEW n, NEW q, NEW m \in Nat, NEW v, SampleTells(r, q, m + 1, v)
  PROVE  Tells(r, n, q, m + 1, v)
<1>1. m + 1 \in 1 .. m + 1 /\ (m + 1) + 1 .. m + 1 = {}
  OBVIOUS
<1>2. Silent(r, q, (m + 1) + 1, m + 1)
  BY <1>1, Zenon DEF Silent
<1> QED BY <1>1, <1>2, Zenon DEF Tells

(* Handling the first sample brings the nodes to where it led. *)
LEMMA TellsTail ==
  ASSUME NEW r \in Seq(Samples), r # <<>>, NEW n, NEW t, NEW q, NEW v, NEW m \in 1 .. Len(r),
         Tells(r, n, q, m, v),
         NodeTells(n, q, v) /\ ~Origin(r[1], q) => NodeTells(t, q, v),
         SampleTells(r, q, 1, v) => NodeTells(t, q, v)
  PROVE  Tells(Tail(r), t, q, m - 1, v)
<1>1. \A i \in 1 .. m - 1 : Tail(r)[i] = r[i + 1]
  OBVIOUS
<1>2. m - 1 \in Nat /\ 1 \in 1 .. m /\ \A k \in 1 .. m - 1 : k + 1 \in 1 .. m /\ k + 1 \in 2 .. m
  OBVIOUS
<1>3. CASE Silent(r, q, 1, m) /\ NodeTells(n, q, v)
  <2>1. ~Origin(r[1], q)
    BY <1>2, <1>3, Zenon DEF Silent
  <2>2. Silent(Tail(r), q, 1, m - 1)
    BY <1>1, <1>2, <1>3, Zenon DEF Silent
  <2> QED BY <1>3, <2>1, <2>2, Zenon DEF Tells
<1>4. CASE SampleTells(r, q, 1, v) /\ Silent(r, q, 1 + 1, m)
  <2>1. 1 + 1 .. m = 2 .. m
    OBVIOUS
  <2>2. Silent(Tail(r), q, 1, m - 1)
    BY <1>1, <1>2, <1>4, <2>1, Zenon DEF Silent
  <2> QED BY <1>4, <2>2, Zenon DEF Tells
<1>5. ASSUME NEW i \in 1 .. m, i # 1, SampleTells(r, q, i, v), Silent(r, q, i + 1, m)
      PROVE  Tells(Tail(r), t, q, m - 1, v)
  <2>1. /\ i - 1 \in 1 .. m - 1 /\ (i - 1) + 1 = i
        /\ \A k \in (i - 1) + 1 .. m - 1 : k + 1 \in i + 1 .. m /\ k \in 1 .. m - 1
    BY <1>5
  <2>2. Tail(r)[i - 1] = r[i]
    BY <1>1, <2>1, Zenon
  <2>3. SampleTells(Tail(r), q, i - 1, v)
    BY <1>5, <2>2, Zenon DEF SampleTells
  <2>4. Silent(Tail(r), q, (i - 1) + 1, m - 1)
    BY <1>1, <1>5, <2>1, Zenon DEF Silent
  <2> QED BY <2>1, <2>3, <2>4, Zenon DEF Tells
<1> QED BY <1>3, <1>4, <1>5, Zenon DEF Tells

(* The kernel adds a sample that is told, and what it traces stays told. *)
LEMMA KernelTold ==
  ASSUME ring \in Seq(Samples), ExecsTold(ring), OthersTold(ring, nodes), TracedTold,
         NEW x \in Samples, submit(x), UNCHANGED nodes,
         x.type = "process_exec" => x.truth = x.object,
         x.type # "process_exec" /\ x.exact => Source(x) \in traced /\ image[Source(x)] = x.truth,
         \A p \in traced' :
            \/ p \in traced /\ image'[p] = image[p] /\ ~Origin(x, p)
            \/ /\ Len(ring) < RingSize /\ image'[p] = x.truth
               /\ Origin(x, p) /\ x.exact
            \/ ~(Len(ring) < RingSize) /\ p \in traced /\ image'[p] = image[p]
  PROVE  ExecsTold(ring') /\ OthersTold(ring', nodes') /\ TracedTold'
<1> DEFINE m == Len(ring)
<1>1. m \in Nat
  OBVIOUS
<1>2. CASE ~(m < RingSize)
  <2>1. ring' = ring
    BY <1>2, Zenon DEF submit
  <2>2. \A p \in traced' : p \in traced /\ image'[p] = image[p]
    BY <1>2, Zenon
  <2>3. TracedTold'
    BY <2>1, <2>2, Zenon DEF TracedTold
  <2> QED BY <2>1, <2>3, Zenon
<1>3. CASE m < RingSize
  <2>1. ring' = Append(ring, x)
    BY <1>3, Zenon DEF submit
  <2>2. /\ Len(ring') = m + 1 /\ ring'[m + 1] = x
        /\ \A i \in 1 .. m : ring'[i] = ring[i]
    BY <2>1, SMTT(30)
  <2> HIDE DEF m
  <2>3. \A i \in 1 .. m + 1 : i = m + 1 \/ i \in 1 .. m
    BY <1>1, SMTT(30)
  <2>4. \A i \in 1 .. m : i - 1 \in Nat /\ 1 .. i - 1 \subseteq 1 .. m
    BY <1>1, SMTT(30)
  <2>5. (m + 1) - 1 = m
    BY <1>1
  <2>6. ExecsTold(ring')
    BY <2>2, <2>3, Zenon DEF ExecsTold, m
  <2>7. \A q, j, v : j \in Nat /\ 1 .. j \subseteq 1 .. m /\ Tells(ring, nodes, q, j, v)
                      => Tells(ring', nodes, q, j, v)
    BY <2>2, TellsPrefix, Zenon
  <2>8. 1 .. m \subseteq 1 .. m
    OBVIOUS
  <2>9. ASSUME NEW i \in 1 .. m + 1, ring'[i].type # "process_exec", ring'[i].exact
        PROVE  Tells(ring', nodes', Source(ring'[i]), i - 1, ring'[i].truth)
    <3>1. CASE i \in 1 .. m
      <4>1. Tells(ring, nodes, Source(ring[i]), i - 1, ring[i].truth)
        BY <2>2, <2>9, <3>1, Zenon DEF OthersTold, m
      <4> QED BY <2>2, <2>4, <2>7, <3>1, <4>1, Zenon
    <3>2. CASE i = m + 1
      <4>1. Source(x) \in traced /\ image[Source(x)] = x.truth
        BY <2>2, <2>9, <3>2, Zenon
      <4>2. Tells(ring, nodes, Source(x), m, x.truth)
        BY <4>1, Zenon DEF TracedTold, m
      <4> QED BY <1>1, <2>2, <2>5, <2>7, <2>8, <3>2, <4>2, Zenon
    <3> QED BY <2>3, <3>1, <3>2, Zenon
  <2>10. OthersTold(ring', nodes')
    BY <2>2, <2>9, Zenon DEF OthersTold
  <2>11. ASSUME NEW p \in traced' PROVE Tells(ring', nodes', p, m + 1, image'[p])
    <3>1. CASE p \in traced /\ image'[p] = image[p] /\ ~Origin(x, p)
      <4>1. Tells(ring, nodes, p, m, image[p])
        BY <3>1, Zenon DEF TracedTold, m
      <4>2. Tells(ring', nodes, p, m, image[p])
        BY <1>1, <2>7, <2>8, <4>1, Zenon
      <4> QED BY <1>1, <2>2, <3>1, <4>2, TellsOther, Zenon
    <3>2. CASE image'[p] = x.truth /\ Origin(x, p) /\ x.exact
      <4>1. SampleTells(ring', p, m + 1, image'[p])
        BY <2>2, <3>2, Zenon DEF SampleTells
      <4> QED BY <1>1, <4>1, TellsNew, Zenon
    <3> QED BY <1>3, <3>1, <3>2, Zenon DEF m
  <2>12. TracedTold'
    BY <2>2, <2>11, Zenon DEF TracedTold
  <2> QED BY <2>6, <2>10, <2>12, Zenon
<1> QED BY <1>2, <1>3, Zenon

(* Nothing that the kernel does makes what the samples tell wrong: a lost   *)
(* exec takes its process out of the traced ones, a lost fork adds none.   *)
LEMMA KernelTells ==
  ASSUME IInv, Running, ExecsTold(ring), OthersTold(ring, nodes), TracedTold, Kernel
  PROVE  Running' /\ ExecsTold(ring') /\ OthersTold(ring', nodes') /\ TracedTold'
<1>0. image \in [Procs -> AnyImage] /\ ring \in Seq(Samples)
  BY DEF IInv, KernelTypes
<1>1. /\ alive \subseteq Procs /\ traced \subseteq Procs /\ \A q \in alive \cup traced : image[q] # NoImage
  BY DEF Running
<1>2. UNCHANGED nodes
  BY KernelFrame
<1>4. ASSUME NEW p \in Procs, NEW c \in Young, Fork(p, c)
      PROVE  Running' /\ ExecsTold(ring') /\ OthersTold(ring', nodes') /\ TracedTold'
  <2> DEFINE x == Sample("fork", c, p, image[p], p \in traced)
  <2>1. /\ p \in alive /\ image[c] = NoImage /\ submit(x) /\ alive' = alive \cup {c}
        /\ image' = [image EXCEPT ![c] = image[p]]
        /\ traced' = IF p \in traced /\ Len(ring) < RingSize THEN traced \cup {c} ELSE traced
    BY <1>4, Zenon DEF Fork, Spend
  <2>2. c \in Procs /\ image[p] \in AnyImage /\ (p \in traced) \in BOOLEAN /\ image[p] # NoImage
    BY <1>0, <1>1, <2>1 DEF Procs
  <2>3. image'[c] = image[p] /\ \A q \in Procs : q # c => image'[q] = image[q]
    BY <1>0, <2>1, <2>2, Zenon
  <2>4. /\ x \in Samples /\ x.type = "fork" /\ x.proc = c /\ x.object = p /\ x.truth = image[p]
        /\ x.exact = (p \in traced)
    <3>1. x \in Samples
      BY <2>2, SampleTyped, Zenon
    <3> QED BY <3>1 DEF Sample
  <2> HIDE DEF x
  <2>5. Running'
    BY <1>1, <2>1, <2>2, <2>3, Zenon DEF Running
  <2>6. \A q \in traced : q \in Procs /\ q # c
    BY <1>1, <2>1, Zenon
  <2>7. Source(x) = p /\ ~(x.type = "process_exec")
    BY <2>4, Zenon DEF Source
  <2>8. \A q : Origin(x, q) <=> q = c
    BY <2>4, Zenon DEF Origin
  <2>9. \A q \in traced' :
            \/ q \in traced /\ image'[q] = image[q] /\ ~Origin(x, q)
            \/ Len(ring) < RingSize /\ image'[q] = x.truth /\ Origin(x, q) /\ x.exact
    BY <2>1, <2>3, <2>4, <2>6, <2>8, Zenon
  <2>10. ExecsTold(ring') /\ OthersTold(ring', nodes') /\ TracedTold'
    BY <1>0, <1>2, <2>1, <2>4, <2>7, <2>9, KernelTold, Zenon
  <2> QED BY <2>5, <2>10
<1>5. ASSUME NEW p \in Procs, NEW i \in Images, Exec(p, i)
      PROVE  Running' /\ ExecsTold(ring') /\ OthersTold(ring', nodes') /\ TracedTold'
  <2> DEFINE x == Sample("process_exec", p, i, i, TRUE)
  <2>1. /\ submit(x) /\ alive' = alive /\ p \in alive
        /\ image' = [image EXCEPT ![p] = i]
        /\ traced' = IF Len(ring) < RingSize THEN traced \cup {p} ELSE traced \ {p}
    BY <1>5, Zenon DEF Exec, Spend
  <2>2. i \in AnyImage /\ i # NoImage
    BY PipelineAssumption DEF AnyImage
  <2>3. image'[p] = i /\ \A q \in Procs : q # p => image'[q] = image[q]
    BY <1>0, <2>1
  <2>4. /\ x \in Samples /\ x.type = "process_exec" /\ x.proc = p /\ x.object = i /\ x.truth = i
        /\ x.exact = TRUE
    <3>1. x \in Samples
      BY <2>2, SampleTyped, Zenon
    <3> QED BY <3>1 DEF Sample
  <2> HIDE DEF x
  <2>5. Running'
    BY <1>1, <2>1, <2>2, <2>3, Zenon DEF Running
  <2>6. \A q : Origin(x, q) <=> q = p
    BY <2>4, Zenon DEF Origin
  <2>7. \A q \in traced' :
            \/ q \in traced /\ image'[q] = image[q] /\ ~Origin(x, q)
            \/ Len(ring) < RingSize /\ image'[q] = x.truth /\ Origin(x, q) /\ x.exact
    BY <1>1, <2>1, <2>3, <2>4, <2>6, Zenon
  <2>8. ExecsTold(ring') /\ OthersTold(ring', nodes') /\ TracedTold'
    BY <1>0, <1>2, <2>1, <2>4, <2>7, KernelTold, Zenon
  <2> QED BY <2>5, <2>8
<1>6. ASSUME NEW a \in Acts, Act(a[1], a[2], a[3])
      PROVE  Running' /\ ExecsTold(ring') /\ OthersTold(ring', nodes') /\ TracedTold'
  <2>1. PICK p, type, object : p = a[1] /\ type = a[2] /\ object = a[3]
    OBVIOUS
  <2>2. /\ p \in Procs
        /\ \/ type = "file_open" /\ object \in Files
           \/ type = "domain" /\ object \in Domains
    <3>1. \/ a \in Procs \X {"file_open"} \X Files
          \/ a \in Procs \X {"domain"} \X Domains
      BY PipelineAssumption, Zenon
    <3> QED BY <2>1, <3>1
  <2> DEFINE x == Sample(type, p, object, image[p], p \in traced)
  <2>3. submit(x) /\ UNCHANGED <<alive, image, traced>>
    BY <1>6, <2>1, Zenon DEF Act
  <2>4. image[p] \in AnyImage /\ (p \in traced) \in BOOLEAN
    <3>1. image[p] \in AnyImage
      BY <1>0, <2>2, Zenon
    <3> QED BY <3>1
  <2>5. /\ x \in Samples /\ x.type = type /\ x.proc = p /\ x.truth = image[p]
        /\ x.exact = (p \in traced)
    <3>1. x \in Samples
      BY <2>2, <2>4, SampleTyped, Zenon
    <3> QED BY <3>1, Zenon DEF Sample
  <2> HIDE DEF x
  <2>6. type # "process_exec" /\ type # "fork"
    BY <2>2
  <2>7. Source(x) = p /\ \A q : ~Origin(x, q)
    BY <2>5, <2>6, Zenon DEF Source, Origin
  <2>8. ExecsTold(ring') /\ OthersTold(ring', nodes') /\ TracedTold'
    BY <1>0, <1>2, <2>3, <2>5, <2>6, <2>7, KernelTold, Zenon
  <2>9. Running'
    BY <2>3, Zenon DEF Running
  <2> QED BY <2>8, <2>9
<1>7. ASSUME NEW p \in Procs, Exit(p)
      PROVE  Running' /\ ExecsTold(ring') /\ OthersTold(ring', nodes') /\ TracedTold'
  <2>1. alive' \subseteq alive /\ UNCHANGED <<image, traced, ring>>
    BY <1>7, Zenon DEF Exit
  <2>2. Running'
    BY <2>1, Zenon DEF Running
  <2>3. TracedTold'
    BY <1>2, <2>1, Zenon DEF TracedTold
  <2> QED BY <1>2, <2>1, <2>2, <2>3, Zenon
<1> QED BY <1>4, <1>5, <1>6, <1>7, Zenon DEF Kernel

LEMMA SetNodeIs ==
  ASSUME NEW n, NEW q, NEW node, NEW t, t = setNode(n, q, node)
  PROVE  q \in DOMAIN t /\ t[q] = node /\ \A p \in DOMAIN n : p \in DOMAIN t /\ (p # q => t[p] = n[p])
BY Zenon DEF setNode

(* What the three writers of the process tree leave alone and what they set. *)
LEMMA ForkTells ==
  ASSUME NEW n, NEW c, NEW q, NEW t, t = recordFork(n, c, q)
  PROVE  /\ \A p, v : NodeTells(n, p, v) /\ p # c => NodeTells(t, p, v)
         /\ \A v : NodeTells(n, q, v) => NodeTells(t, c, v)
<1>1. PICK node : t = setNode(n, c, node) /\ (known(n, q) => node.image = n[q].image)
  <2>1. CASE known(n, q)
    <3> DEFINE lineage == <<n[q].image>> \o n[q].ancestors
               node == [image |-> n[q].image,
                        ancestors |-> IF Len(lineage) > MaxAncestorDepth
                                      THEN SubSeq(lineage, 1, MaxAncestorDepth) ELSE lineage]
    <3>1. t = setNode(n, c, node)
      BY <2>1, Zenon DEF recordFork
    <3>2. node.image = n[q].image
      OBVIOUS
    <3> QED BY <3>1, <3>2, Zenon
  <2>2. CASE ~known(n, q)
    BY <2>2, Zenon DEF recordFork
  <2> QED BY <2>1, <2>2
<1>2. /\ c \in DOMAIN t /\ t[c] = node
      /\ \A p \in DOMAIN n : p \in DOMAIN t /\ (p # c => t[p] = n[p])
  BY <1>1, SetNodeIs
<1> QED BY <1>1, <1>2, Zenon DEF NodeTells, known

LEMMA ExecTells ==
  ASSUME NEW n, NEW q, NEW i, NEW t, t = recordExec(n, q, i)
  PROVE  /\ \A p, v : NodeTells(n, p, v) /\ p # q => NodeTells(t, p, v)
         /\ NodeTells(t, q, i)
<1>1. PICK a : t = setNode(n, q, [image |-> i, ancestors |-> a])
  BY Zenon DEF recordExec
<1>2. PICK node : node = [image |-> i, ancestors |-> a]
  BY Zenon
<1>3. node.image = i
  BY <1>2, SMTT(30)
<1>4. /\ q \in DOMAIN t /\ t[q] = node
      /\ \A p \in DOMAIN n : p \in DOMAIN t /\ (p # q => t[p] = n[p])
  BY <1>1, <1>2, SetNodeIs
<1> QED BY <1>3, <1>4, Zenon DEF NodeTells

LEMMA BackfillTells ==
  ASSUME NEW n, NEW q, NEW i, NEW t, t = backfill(n, q, i)
  PROVE  \A p, v : NodeTells(n, p, v) => NodeTells(t, p, v)
<1>1. CASE known(n, q) \/ i = NoImage
  BY <1>1, Zenon DEF backfill
<1>2. CASE ~(known(n, q) \/ i = NoImage)
  <2>1. PICK node : t = setNode(n, q, node)
    BY <1>2, Zenon DEF backfill
  <2>2. \A p \in DOMAIN n : p \in DOMAIN t /\ (p # q => t[p] = n[p])
    BY <2>1, SetNodeIs
  <2> QED BY <1>2, <2>2, Zenon DEF NodeTells, known
<1> QED BY <1>1, <1>2

LEMMA LookupTells ==
  ASSUME NEW n, NEW q, NEW v, NodeTells(n, q, v)
  PROVE  lookupProcessSummary(n, q).image = v
BY Zenon DEF NodeTells, lookupProcessSummary, known

LEMMA EmitExact ==
  ASSUME IsSeq(channel), AttributionExact, NEW ev, emitEventRecord(ev),
         ev.exact => ev.process.image = ev.truth
  PROVE  AttributionExact'
<1>1. channel' = channel \/ channel' = Append(channel, ev)
  BY Zenon DEF emitEventRecord
<1>2. CASE channel' = channel
  BY <1>2, Zenon DEF AttributionExact
<1>3. CASE channel' = Append(channel, ev)
  <2>1. /\ Len(channel) \in Nat /\ Len(channel') = Len(channel) + 1
        /\ \A i \in 1 .. Len(channel) : channel'[i] = channel[i]
        /\ channel'[Len(channel) + 1] = ev
    <3>1. /\ Len(channel) \in Nat /\ Len(Append(channel, ev)) = Len(channel) + 1
          /\ \A i \in 1 .. Len(channel) : Append(channel, ev)[i] = channel[i]
          /\ Append(channel, ev)[Len(channel) + 1] = ev
      BY Appended, ZenonT(30)
    <3> QED BY <1>3, <3>1
  <2>2. \A i \in 1 .. Len(channel') : i \in 1 .. Len(channel) \/ i = Len(channel) + 1
    BY <2>1
  <2> QED BY <2>1, <2>2, Zenon DEF AttributionExact
<1> QED BY <1>1, <1>2, <1>3

LEMMA RecordIs ==
  ASSUME NEW x, NEW process
  PROVE  /\ record(x, process).exact = x.exact /\ record(x, process).truth = x.truth
         /\ record(x, process).process = process
BY DEF record

(* The tracker handles a sample: the nodes are now as the sample left them, *)
(* and an exact record names the image that was told.                      *)
LEMMA SampleApplied ==
  ASSUME IInv, AttributionExact, ExecsTold(ring), OthersTold(ring, nodes), state # "removed",
         handleEngineInput, NEW x, x = ring[1]
  PROVE  /\ AttributionExact'
         /\ \A q, v : NodeTells(nodes, q, v) /\ ~Origin(x, q) => NodeTells(nodes', q, v)
         /\ \A q : Origin(x, q) /\ x.exact => NodeTells(nodes', q, x.truth)
<1>0. IsSeq(channel) /\ ring \in Seq(Samples) /\ ring # <<>>
  BY Zenon DEF IInv, KernelTypes, handleEngineInput
<1>1. Head(ring) = x /\ 1 \in 1 .. Len(ring) /\ 1 - 1 = 0 /\ 1 .. 0 = {} /\ x \in Samples
  BY <1>0
<1>2. x.type = "process_exec" => x.truth = x.object
  BY <1>1, Zenon DEF ExecsTold
<1>3. x.type # "process_exec" /\ x.exact => NodeTells(nodes, Source(x), x.truth)
  <2>1. x.type # "process_exec" /\ x.exact => Tells(ring, nodes, Source(x), 0, x.truth)
    BY <1>1, Zenon DEF OthersTold
  <2> QED BY <1>1, <2>1, Zenon DEF Tells
<1>4. CASE handleForkSample(x)
  <2>1. /\ x.type = "fork" /\ nodes' = recordFork(nodes, x.proc, x.object)
        /\ UNCHANGED channel
    BY <1>4, Zenon DEF handleForkSample
  <2>2. AttributionExact'
    BY <2>1, Zenon DEF AttributionExact
  <2>3. \A q : Origin(x, q) <=> q = x.proc
    BY <2>1, Zenon DEF Origin
  <2>4. x.exact => NodeTells(nodes, x.object, x.truth)
    BY <1>3, <2>1, Zenon DEF Source
  <2> QED BY <2>1, <2>2, <2>3, <2>4, ForkTells
<1>5. CASE handleExecSample(x)
  <2>1. /\ x.type = "process_exec" /\ nodes' = recordExec(nodes, x.proc, x.object)
        /\ emitEventRecord(record(x, lookupProcessSummary(nodes', x.proc)))
    BY <1>5, Zenon DEF handleExecSample
  <2>2. \A q : Origin(x, q) <=> q = x.proc
    BY <2>1, ZenonT(30) DEF Origin
  <2>3. /\ NodeTells(nodes', x.proc, x.truth)
        /\ \A q, v : NodeTells(nodes, q, v) /\ q # x.proc => NodeTells(nodes', q, v)
    BY <1>2, <2>1, ExecTells
  <2>4. lookupProcessSummary(nodes', x.proc).image = x.truth
    BY <2>3, LookupTells, Zenon
  <2>5. AttributionExact'
    BY <1>0, <2>1, <2>4, EmitExact, RecordIs
  <2> QED BY <2>2, <2>3, <2>5, Zenon
<1>6. CASE x.type \in {"file_open", "domain"} /\ (emitWithContext(x) \/ UNCHANGED trackerVars)
  <2>1. Source(x) = x.proc /\ x.type # "process_exec" /\ \A q : ~Origin(x, q)
    BY <1>6 DEF Source, Origin
  <2>2. CASE UNCHANGED trackerVars
    <3>1. UNCHANGED <<nodes, channel>>
      BY <2>2, Zenon DEF trackerVars
    <3> QED BY <2>1, <3>1, Zenon DEF AttributionExact
  <2>3. CASE emitWithContext(x)
    <3>1. PICK exe : nodes' = backfill(nodes, x.proc, exe)
      BY <2>3, Zenon DEF emitWithContext
    <3>2. \A q, v : NodeTells(nodes, q, v) => NodeTells(nodes', q, v)
      BY <3>1, BackfillTells
    <3>3. x.exact => lookupProcessSummary(nodes', x.proc).image = x.truth
      BY <1>3, <2>1, <3>2, LookupTells, Zenon
    <3>4. emitEventRecord(record(x, lookupProcessSummary(nodes', x.proc)))
      BY <2>3, Zenon DEF emitWithContext
    <3>5. AttributionExact'
      BY <1>0, <3>3, <3>4, EmitExact, RecordIs
    <3> QED BY <2>1, <3>2, <3>5, Zenon
  <2> QED BY <1>6, <2>2, <2>3, Zenon
<1> QED BY <1>1, <1>4, <1>5, <1>6, Zenon DEF handleEngineInput, handleFileOpenSample, handleDNSSample

LEMMA InputTells ==
  ASSUME IInv, AInv, state # "removed", handleEngineInput
  PROVE  AInv'
<1>0. /\ AttributionExact /\ ExecsTold(ring) /\ OthersTold(ring, nodes) /\ TracedTold
      /\ ring \in Seq(Samples) /\ ring # <<>> /\ ring' = Tail(ring)
      /\ UNCHANGED <<alive, image, traced, state>>
  BY Zenon DEF AInv, IInv, KernelTypes, handleEngineInput, jobVars
<1>1. PICK x : x = ring[1]
  OBVIOUS
<1>2. /\ AttributionExact'
      /\ \A q, v : NodeTells(nodes, q, v) /\ ~Origin(x, q) => NodeTells(nodes', q, v)
      /\ \A q : Origin(x, q) /\ x.exact => NodeTells(nodes', q, x.truth)
  BY <1>0, <1>1, SampleApplied, Zenon
<1>3. \A q, v : SampleTells(ring, q, 1, v) => NodeTells(nodes', q, v)
  BY <1>1, <1>2, Zenon DEF SampleTells
<1>4. ASSUME NEW q, NEW v, NEW m \in 1 .. Len(ring), Tells(ring, nodes, q, m, v)
      PROVE  Tells(ring', nodes', q, m - 1, v)
  BY <1>0, <1>1, <1>2, <1>3, <1>4, TellsTail, Zenon
<1>5. PICK l \in Nat : l = Len(ring) /\ l # 0
  BY <1>0
<1>6. /\ Len(ring') = l - 1 /\ l \in 1 .. l
      /\ \A i \in 1 .. l - 1 : ring'[i] = ring[i + 1]
      /\ \A i \in 1 .. l - 1 : i + 1 \in 1 .. l /\ (i + 1) - 1 = i /\ i \in 1 .. l
  BY <1>0, <1>5
<1>7. ExecsTold(ring')
  BY <1>0, <1>5, <1>6, SMTT(30) DEF ExecsTold
<1>8. OthersTold(ring', nodes')
  BY <1>0, <1>4, <1>5, <1>6, SMTT(30) DEF OthersTold
<1>9. TracedTold'
  BY <1>0, <1>4, <1>5, <1>6 DEF TracedTold
<1>10. Running'
  BY <1>0, Zenon DEF AInv, Running
<1> QED BY <1>2, <1>7, <1>8, <1>9, <1>10, Zenon DEF AInv

LEMMA InitAInv == ASSUME Init PROVE AInv
<1>1. /\ alive = Old /\ traced = {} /\ channel = <<>> /\ ring = <<>>
      /\ image = [p \in Procs |-> IF p \in Old THEN FirstImage ELSE NoImage]
  BY DEF Init
<1>2. 1 .. Len(channel) = {} /\ 1 .. Len(ring) = {}
  BY <1>1
<1>3. Running
  BY <1>1, PipelineAssumption DEF Running, Procs
<1> QED BY <1>1, <1>2, <1>3, Zenon DEF AInv, AttributionExact, ExecsTold, OthersTold, TracedTold

LEMMA StepAInv == ASSUME IInv, AInv, [Next]_vars PROVE AInv'
<1>1. CASE Kernel
  <2>1. state # "removed"
    BY <1>1, Zenon DEF Kernel, Fork, Exec, Act, Exit, Spend
  <2>2. UNCHANGED <<channel, state>>
    BY <1>1, KernelFrame
  <2>3. AttributionExact'
    BY <2>2, Zenon DEF AInv, AttributionExact
  <2> QED BY <1>1, <2>1, <2>3, KernelTells, Zenon DEF AInv
<1>2. CASE handleEngineInput
  <2>1. CASE state = "removed"
    <3>1. UNCHANGED <<channel, state, alive, image, traced>>
      BY <1>2, <2>1, Zenon DEF handleEngineInput, trackerVars, jobVars
    <3> QED BY <2>1, <3>1, Zenon DEF AInv, Running, AttributionExact
  <2> QED BY <1>2, <2>1, InputTells, Zenon
<1>3. CASE removeJob
  <2>1. state' = "removed" /\ UNCHANGED <<channel, alive, image, traced>>
    BY <1>3, Zenon DEF removeJob, kernelVars
  <2> QED BY <2>1, Zenon DEF AInv, Running, AttributionExact
<1>4. CASE MarkClosing \/ SetProjectScope \/ UNCHANGED vars
  <2>1. /\ UNCHANGED <<channel, alive, image, traced, ring, nodes>>
        /\ state = "removed" => state' = "removed"
    BY <1>4, Zenon DEF MarkClosing, SetProjectScope, vars, kernelVars, trackerVars, jobVars
  <2>2. Running' /\ AttributionExact' /\ (TracedTold => TracedTold')
    BY <2>1, Zenon DEF AInv, Running, AttributionExact, TracedTold
  <2> QED BY <2>1, <2>2, Zenon DEF AInv
<1>5. CASE processEvent
  <2>1. /\ UNCHANGED <<image, traced, ring, nodes, state>> /\ alive' \subseteq alive
        /\ channel # <<>> /\ channel' = Tail(channel)
    BY <1>5, Zenon DEF processEvent, EvaluateEvent
  <2>2. IsSeq(channel)
    BY Zenon DEF IInv
  <2>3. /\ Len(channel) \in Nat /\ Len(channel') = Len(channel) - 1
        /\ \A i \in 1 .. Len(channel) - 1 : channel'[i] = channel[i + 1]
    BY <2>1, <2>2, Dequeued, Zenon
  <2>4. \A i \in 1 .. Len(channel') : i \in 1 .. Len(channel) - 1 /\ i + 1 \in 1 .. Len(channel)
    BY <2>3
  <2>5. AttributionExact'
    BY <2>3, <2>4, Zenon DEF AInv, AttributionExact
  <2>6. Running'
    BY <2>1, Zenon DEF AInv, Running
  <2> QED BY <2>1, <2>5, <2>6, Zenon DEF AInv, TracedTold
<1> QED BY <1>1, <1>2, <1>3, <1>4, <1>5, Zenon DEF Next

(***************************************************************************)
(* The scopes                                                              *)
(***************************************************************************)

Counters == [hits : Nat, alerts : Nat, logs : Nat, marks : Nat]
IsScope(sc) ==
    /\ DOMAIN sc = {"rules", "total", "domains", "overflow"}
    /\ sc.rules \in [RuleIds -> Counters] /\ sc.total \in Nat

(* What AlertsCapped says of one rule, and CorrelationsOneShot of one      *)
(* correlation.                                                            *)
CapOf(st, r) == IF r.maxAlerts > 0 /\ st.hits > r.maxAlerts THEN r.maxAlerts ELSE st.hits
Capped(st, r) ==
    /\ st.alerts = CapOf(st, r)
    /\ st.logs = IF r.action = "terminate" THEN st.hits ELSE CapOf(st, r)
    /\ st.marks = IF r.action # "terminate" /\ r.maxAlerts > 0 /\ st.hits >= r.maxAlerts THEN 1 ELSE 0
OneShot(sc, c) ==
    sc.rules[c.id].hits = IF sc.rules[c.needs.id].hits >= c.needs.count THEN 1 ELSE 0

ScopeOK(s, sc) ==
    /\ IsScope(sc)
    /\ \A r \in RulesOf(s) : Capped(sc.rules[r.id], r)
    /\ \A c \in compilable(s) : OneShot(sc, c)

SInv == \A s \in Scopes : ScopeOK(s, scopes[s])

(* The rules of scope s that match an event. *)
Hits(s, ev) ==
    {r \in EventRules(s) : /\ r.type = ev.type
                           /\ ev.object \in r.match
                           /\ ev.process.image \notin r.except}
Firing(s, sc) == {c \in compilable(s) : firing(sc, c)}

LEMMA Assumed ==
  /\ \A s \in Scopes : \A q, r \in RulesOf(s) : q.id = r.id => q = r
  /\ \A s \in Scopes : \A r \in RulesOf(s) : r.id \in RuleIds /\ r.maxAlerts \in Int
  /\ \A s \in Scopes : \A c \in compilable(s) : c \in RulesOf(s) /\ c.needs.count \in Nat \ {0}
  /\ \A s \in Scopes : \A c \in compilable(s) :
        c \notin EventRules(s) /\ \E r \in EventRules(s) : r.id = c.needs.id
  /\ \A s \in Scopes : EventRules(s) \subseteq RulesOf(s)
BY RulesAssumption, Zenon DEF RuleIds, RulesOf, compilable, Correlations, EventRules, Scopes

(* One more hit of a rule keeps its alerts, log entries and mark in step   *)
(* with the cap.                                                           *)
LEMMA FeedIs ==
  ASSUME NEW st \in Counters, NEW r, r.maxAlerts \in Int, NEW f, f = FeedHit(st, r)
  PROVE  /\ f \in Counters /\ f.hits = st.hits + 1 /\ f.logs = st.logs /\ f.marks = st.marks
         /\ f.alerts = IF r.maxAlerts <= 0 \/ st.alerts < r.maxAlerts THEN st.alerts + 1 ELSE st.alerts
<1>1. PICK a : a = IF r.maxAlerts <= 0 \/ st.alerts < r.maxAlerts THEN st.alerts + 1 ELSE st.alerts
  OBVIOUS
<1>2. f = [st EXCEPT !.hits = st.hits + 1, !.alerts = a]
  BY <1>1 DEF FeedHit
<1>3. a \in Nat /\ st.hits + 1 \in Nat
  BY <1>1 DEF Counters
<1>4. f \in Counters /\ f.hits = st.hits + 1 /\ f.logs = st.logs /\ f.marks = st.marks /\ f.alerts = a
  BY <1>2, <1>3, Zenon DEF Counters
<1> QED BY <1>1, <1>4

LEMMA LogIs ==
  ASSUME NEW f \in Counters, NEW r, r.maxAlerts \in Int, NEW w, w = WriteDetectionLogForHit(f, r)
  PROVE  /\ w \in Counters /\ w.hits = f.hits /\ w.alerts = f.alerts
         /\ w.logs = IF r.action # "terminate" /\ r.maxAlerts > 0 /\ f.hits > r.maxAlerts
                     THEN f.logs ELSE f.logs + 1
         /\ w.marks = IF r.action # "terminate" /\ r.maxAlerts > 0 /\ f.hits = r.maxAlerts
                      THEN f.marks + 1 ELSE f.marks
<1>1. CASE r.action = "terminate" \/ r.maxAlerts <= 0
  <2>1. w = [f EXCEPT !.logs = @ + 1]
    BY <1>1 DEF WriteDetectionLogForHit
  <2> QED BY <1>1, <2>1 DEF Counters
<1>2. CASE r.action # "terminate" /\ r.maxAlerts > 0 /\ f.hits > r.maxAlerts
  <2>1. w = f
    BY <1>2 DEF WriteDetectionLogForHit
  <2> QED BY <1>2, <2>1 DEF Counters
<1>3. CASE r.action # "terminate" /\ r.maxAlerts > 0 /\ ~(f.hits > r.maxAlerts)
  <2>1. PICK a : a = IF f.hits = r.maxAlerts THEN f.marks + 1 ELSE f.marks
    OBVIOUS
  <2>2. w = [f EXCEPT !.logs = f.logs + 1, !.marks = a]
    BY <1>3, <2>1 DEF WriteDetectionLogForHit
  <2>3. a \in Nat /\ f.logs + 1 \in Nat
    BY <2>1 DEF Counters
  <2>4. /\ w \in Counters /\ w.hits = f.hits /\ w.alerts = f.alerts
        /\ w.logs = f.logs + 1 /\ w.marks = a
    BY <2>2, <2>3, Zenon DEF Counters
  <2> QED BY <1>3, <2>1, <2>4
<1>4. ~(r.maxAlerts <= 0) => r.maxAlerts > 0
  OBVIOUS
<1> QED BY <1>1, <1>2, <1>3, <1>4

LEMMA OneHit ==
  ASSUME NEW st \in Counters, NEW r, r.maxAlerts \in Int,
         NEW w, w = WriteDetectionLogForHit(FeedHit(st, r), r)
  PROVE  w \in Counters /\ w.hits = st.hits + 1 /\ (Capped(st, r) => Capped(w, r))
<1>1. PICK f : f = FeedHit(st, r)
  OBVIOUS
<1>2. /\ f \in Counters /\ f.hits = st.hits + 1 /\ f.logs = st.logs /\ f.marks = st.marks
      /\ f.alerts = IF r.maxAlerts <= 0 \/ st.alerts < r.maxAlerts THEN st.alerts + 1 ELSE st.alerts
  BY <1>1, FeedIs
<1>3. /\ w \in Counters /\ w.hits = f.hits /\ w.alerts = f.alerts
      /\ w.logs = IF r.action # "terminate" /\ r.maxAlerts > 0 /\ f.hits > r.maxAlerts
                  THEN f.logs ELSE f.logs + 1
      /\ w.marks = IF r.action # "terminate" /\ r.maxAlerts > 0 /\ f.hits = r.maxAlerts
                   THEN f.marks + 1 ELSE f.marks
  BY <1>1, <1>2, LogIs
<1>4. st.hits \in Nat /\ st.alerts \in Nat /\ st.logs \in Nat /\ st.marks \in Nat
  BY DEF Counters
<1>5. Capped(st, r) => Capped(w, r)
  BY <1>2, <1>3, <1>4 DEF Capped, CapOf
<1> QED BY <1>2, <1>3, <1>5

(* hitAll writes the counters of the rules that hit and nothing else. *)
LEMMA HitAllIs ==
  ASSUME NEW s \in Scopes, NEW sc, IsScope(sc), NEW rules, rules \subseteq RulesOf(s),
         NEW t, t = hitAll(sc, rules)
  PROVE  /\ IsScope(t) /\ t.total = sc.total /\ t.domains = sc.domains /\ t.overflow = sc.overflow
         /\ \A r \in rules :
               t.rules[r.id] = WriteDetectionLogForHit(FeedHit(sc.rules[r.id], r), r)
         /\ \A i \in RuleIds : (\A r \in rules : r.id # i) => t.rules[i] = sc.rules[i]
<1> DEFINE R == [i \in RuleIds |->
                   IF \E r \in rules : r.id = i
                   THEN LET r == CHOOSE q \in rules : q.id = i
                        IN  WriteDetectionLogForHit(FeedHit(sc.rules[i], r), r)
                   ELSE sc.rules[i]]
<1>1. t = [sc EXCEPT !.rules = R]
  BY Zenon DEF hitAll
<1>2. \A i \in RuleIds : (\A r \in rules : r.id # i) => R[i] = sc.rules[i]
  BY Zenon
<1>3. ASSUME NEW r \in rules
      PROVE  /\ r.id \in RuleIds /\ r.maxAlerts \in Int
             /\ R[r.id] = WriteDetectionLogForHit(FeedHit(sc.rules[r.id], r), r)
  <2>1. r \in RulesOf(s) /\ r.id \in RuleIds /\ r.maxAlerts \in Int
    BY Assumed, Zenon
  <2>2. (CHOOSE q \in rules : q.id = r.id) = r
    <3>1. \A q \in rules : q.id = r.id => q = r
      BY <2>1, Assumed, Zenon
    <3> QED BY <3>1, Zenon
  <2>3. R[r.id] = LET q0 == CHOOSE q \in rules : q.id = r.id
                  IN  WriteDetectionLogForHit(FeedHit(sc.rules[r.id], q0), q0)
    BY <2>1, Zenon
  <2> QED BY <2>1, <2>2, <2>3, Zenon
<1>4. sc.rules \in [RuleIds -> Counters]
  BY DEF IsScope
<1>5. ASSUME NEW i \in RuleIds PROVE R[i] \in Counters
  <2>1. sc.rules[i] \in Counters
    BY <1>4, Zenon
  <2>2. CASE \A r \in rules : r.id # i
    BY <1>2, <2>1, <2>2, Zenon
  <2>3. ASSUME NEW r \in rules, r.id = i PROVE R[i] \in Counters
    <3>1. R[i] = WriteDetectionLogForHit(FeedHit(sc.rules[i], r), r) /\ r.maxAlerts \in Int
      BY <1>3, <2>3, Zenon
    <3> QED BY <2>1, <3>1, OneHit
  <2> QED BY <2>2, <2>3, Zenon
<1>6. R \in [RuleIds -> Counters]
  BY <1>5, Zenon
<1> HIDE DEF R
<1>7. /\ DOMAIN t = DOMAIN sc /\ t.rules = R /\ t.total = sc.total
      /\ t.domains = sc.domains /\ t.overflow = sc.overflow
  BY <1>1 DEF IsScope
<1> QED BY <1>2, <1>3, <1>6, <1>7, Zenon DEF IsScope

LEMMA RecordDomainIs ==
  ASSUME NEW sc, IsScope(sc), NEW d, NEW p, NEW process, NEW t, t = recordDomain(sc, d, p, process)
  PROVE  IsScope(t) /\ t.total = sc.total /\ t.rules = sc.rules
<1>1. \/ t = [sc EXCEPT !.overflow = @ + 1]
      \/ \E table : t = [sc EXCEPT !.domains = table]
  BY Zenon DEF recordDomain
<1>2. DOMAIN t = DOMAIN sc /\ t.total = sc.total /\ t.rules = sc.rules
  BY <1>1 DEF IsScope
<1> QED BY <1>2, Zenon DEF IsScope

(* An event is counted, and the hits are left alone. *)
LEMMA RecordEventIs ==
  ASSUME NEW sc, IsScope(sc), NEW ev, NEW t, t = RecordEvent(sc, ev)
  PROVE  IsScope(t) /\ t.total = sc.total + 1 /\ t.rules = sc.rules
<1>1. PICK counted : counted = [sc EXCEPT !.total = @ + 1]
  BY Zenon
<1>2. /\ DOMAIN counted = DOMAIN sc /\ counted.total = sc.total + 1 /\ counted.rules = sc.rules
      /\ sc.total + 1 \in Nat
  BY <1>1 DEF IsScope
<1>3. IsScope(counted)
  BY <1>2, Zenon DEF IsScope
<1>4. t = IF ev.type = "domain" THEN recordDomain(counted, ev.object, ev.proc, ev.process) ELSE counted
  BY <1>1, Zenon DEF RecordEvent
<1>5. CASE ev.type = "domain"
  BY <1>2, <1>3, <1>4, <1>5, RecordDomainIs
<1> QED BY <1>2, <1>3, <1>4, <1>5

(* The entries of two merged rule sets feed each scope exactly its own. *)
LEMMA MergeFeeds ==
  ASSUME NEW H, NEW P
  PROVE  /\ \A e \in merge(H, P) : /\ "host" \in e.feed <=> e.rule \in H
                                   /\ "project" \in e.feed <=> e.rule \in P
         /\ \A r \in H \cup P : \E e \in merge(H, P) : e.rule = r
<1> DEFINE both(r) == {"host"} \cup (IF r \in P THEN {"project"} ELSE {})
           E1(r) == [rule |-> r, feed |-> both(r)]
           E2(r) == [rule |-> r, feed |-> {"project"}]
<1>1. merge(H, P) = {E1(r) : r \in H} \cup {E2(r) : r \in P \ H}
  BY Zenon DEF merge
<1>2. \A r : /\ E1(r).rule = r /\ E1(r).feed = both(r)
             /\ E2(r).rule = r /\ E2(r).feed = {"project"}
  OBVIOUS
<1>3. \A r : "host" \in both(r) /\ ("project" \in both(r) <=> r \in P)
  OBVIOUS
<1>4. "host" \notin {"project"} /\ "project" \in {"project"}
  OBVIOUS
<1> HIDE DEF both, E1, E2
<1>5. ASSUME NEW e \in merge(H, P)
      PROVE  ("host" \in e.feed <=> e.rule \in H) /\ ("project" \in e.feed <=> e.rule \in P)
  <2>1. CASE \E r \in H : e = E1(r)
    BY <1>2, <1>3, <2>1, Zenon
  <2>2. CASE \E r \in P \ H : e = E2(r)
    <3>1. PICK r : r \in P /\ r \notin H /\ e = E2(r)
      BY <2>2, Zenon
    <3>2. e.rule = r /\ e.feed = {"project"}
      BY <1>2, <3>1, Zenon
    <3> QED BY <1>4, <3>1, <3>2, Zenon
  <2> QED BY <1>1, <2>1, <2>2, Zenon
<1>6. ASSUME NEW r \in H \cup P PROVE \E e \in merge(H, P) : e.rule = r
  <2>1. r \in H => E1(r) \in merge(H, P)
    BY <1>1, Zenon
  <2>2. r \notin H => E2(r) \in merge(H, P)
    BY <1>1, Zenon
  <2> QED BY <1>2, <2>1, <2>2, Zenon
<1> QED BY <1>5, <1>6, Zenon

LEMMA FedIs ==
  ASSUME NEW H, NEW P
  PROVE  fedTo("host", merge(H, P)) = H /\ fedTo("project", merge(H, P)) = P
<1>1. PICK M : M = merge(H, P)
  OBVIOUS
<1>2. /\ \A e \in M : ("host" \in e.feed <=> e.rule \in H) /\ ("project" \in e.feed <=> e.rule \in P)
      /\ \A r \in H \cup P : \E e \in M : e.rule = r
  BY <1>1, MergeFeeds
<1>3. \A r : r \in fedTo("host", M) <=> r \in H
  BY <1>2, Zenon DEF fedTo
<1>4. \A r : r \in fedTo("project", M) <=> r \in P
  BY <1>2, Zenon DEF fedTo
<1> QED BY <1>1, <1>3, <1>4

LEMMA FedMatching ==
  ASSUME NEW H, NEW P, NEW ev
  PROVE  /\ fedTo("host", matching(merge(H, P), ev)) =
              {r \in H : r.type = ev.type /\ ev.object \in r.match /\ ev.process.image \notin r.except}
         /\ fedTo("project", matching(merge(H, P), ev)) =
              {r \in P : r.type = ev.type /\ ev.object \in r.match /\ ev.process.image \notin r.except}
<1> DEFINE Match(r) == r.type = ev.type /\ ev.object \in r.match /\ ev.process.image \notin r.except
<1>1. PICK M : M = merge(H, P)
  OBVIOUS
<1>2. PICK N : N = matching(M, ev)
  OBVIOUS
<1>3. /\ \A e \in M : ("host" \in e.feed <=> e.rule \in H) /\ ("project" \in e.feed <=> e.rule \in P)
      /\ \A r \in H \cup P : \E e \in M : e.rule = r
  BY <1>1, MergeFeeds
<1>4. \A e : e \in N <=> e \in M /\ Match(e.rule)
  BY <1>2, Zenon DEF matching
<1> HIDE DEF Match
<1>5. \A r : r \in fedTo("host", N) <=> r \in H /\ Match(r)
  BY <1>3, <1>4, Zenon DEF fedTo
<1>6. \A r : r \in fedTo("project", N) <=> r \in P /\ Match(r)
  BY <1>3, <1>4, Zenon DEF fedTo
<1>7. fedTo("host", N) = {r \in H : Match(r)} /\ fedTo("project", N) = {r \in P : Match(r)}
  BY <1>5, <1>6
<1> QED BY <1>1, <1>2, <1>7, Zenon DEF Match

LEMMA ScopeFed ==
  ASSUME NEW s \in Scopes, s \in attached, NEW ev
  PROVE  /\ fedTo(s, matching(mergeEvaluationRules(attached), ev)) = Hits(s, ev)
         /\ fedTo(s, compileAndMergeEvaluationCorrelations(attached)) = compilable(s)
<1>0. PICK H, P, C, D :
        /\ H = IF "host" \in attached THEN EventRules("host") ELSE {}
        /\ P = IF "project" \in attached THEN EventRules("project") ELSE {}
        /\ C = IF "host" \in attached THEN compilable("host") ELSE {}
        /\ D = IF "project" \in attached THEN compilable("project") ELSE {}
  BY Zenon
<1>1. /\ mergeEvaluationRules(attached) = merge(H, P)
      /\ compileAndMergeEvaluationCorrelations(attached) = merge(C, D)
  BY <1>0, Zenon DEF mergeEvaluationRules, compileAndMergeEvaluationCorrelations
<1>2. CASE s = "host"
  <2>1. H = EventRules(s) /\ C = compilable(s)
    BY <1>0, <1>2, Zenon
  <2>2. fedTo(s, merge(C, D)) = compilable(s)
    BY <1>2, <2>1, FedIs, SMTT(30)
  <2>3. fedTo(s, matching(merge(H, P), ev)) =
          {r \in H : r.type = ev.type /\ ev.object \in r.match /\ ev.process.image \notin r.except}
    BY <1>2, FedMatching
  <2>4. fedTo(s, matching(merge(H, P), ev)) = Hits(s, ev)
    BY <2>1, <2>3, Zenon DEF Hits
  <2> QED BY <1>1, <2>2, <2>4, Zenon
<1>3. CASE s = "project"
  <2>1. P = EventRules(s) /\ D = compilable(s)
    BY <1>0, <1>3, Zenon
  <2>2. fedTo(s, merge(C, D)) = compilable(s)
    BY <1>3, <2>1, FedIs, SMTT(30)
  <2>3. fedTo(s, matching(merge(H, P), ev)) =
          {r \in P : r.type = ev.type /\ ev.object \in r.match /\ ev.process.image \notin r.except}
    BY <1>3, FedMatching
  <2>4. fedTo(s, matching(merge(H, P), ev)) = Hits(s, ev)
    BY <2>1, <2>3, Zenon DEF Hits
  <2> QED BY <1>1, <2>2, <2>4, Zenon
<1> QED BY <1>2, <1>3, Zenon DEF Scopes

(* The ids of the event rules and of the correlations of a scope differ. *)
LEMMA ApartIds ==
  ASSUME NEW s \in Scopes, NEW c \in compilable(s), NEW r \in EventRules(s)
  PROVE  c.id # r.id
BY Assumed, Zenon

(* An event that hits no rule of a scope makes no correlation of it fire,  *)
(* whatever it hits in the other: those that could fire have fired.        *)
LEMMA NoHitNoFire ==
  ASSUME NEW s \in Scopes, NEW sc, ScopeOK(s, sc)
  PROVE  Firing(s, hitAll(sc, {})) = {}
<1>1. PICK t : t = hitAll(sc, {})
  OBVIOUS
<1>2. IsScope(sc) /\ \A i \in RuleIds : t.rules[i] = sc.rules[i]
  <2>1. IsScope(sc) /\ {} \subseteq RulesOf(s)
    BY Zenon DEF ScopeOK
  <2> QED BY <1>1, <2>1, HitAllIs
<1>3. ASSUME NEW c \in compilable(s) PROVE ~firing(t, c)
  <2>1. c.id \in RuleIds /\ c.needs.id \in RuleIds
    BY Assumed, Zenon
  <2>2. t.rules[c.id] = sc.rules[c.id] /\ t.rules[c.needs.id] = sc.rules[c.needs.id]
    BY <1>2, <2>1, Zenon
  <2>3. OneShot(sc, c)
    BY Zenon DEF ScopeOK
  <2>4. ~(1 = 0)
    OBVIOUS
  <2> QED BY <2>2, <2>3, <2>4, Zenon DEF OneShot, firing, canFireCorrelation
<1> QED BY <1>1, <1>3, Zenon DEF Firing

(* Each attached scope ends up as if its own rules alone were evaluated. *)
LEMMA EvaluatedAlone ==
  ASSUME ScopeTypes, SInv, NEW s \in attached, NEW ev, EvaluateEvent(ev)
  PROVE  scopes'[s] = EvaluateAlone(s, scopes[s], ev)
<1> DEFINE hit == matching(mergeEvaluationRules(attached), ev)
           first(q) == hitAll(scopes[q], fedTo(q, hit))
           fired(q) == IF hit = {} THEN {}
                       ELSE {c \in fedTo(q, compileAndMergeEvaluationCorrelations(attached)) :
                               firing(first(q), c)}
<1>0. s \in Scopes
  BY Zenon DEF ScopeTypes
<1>1. scopes'[s] = RecordEvent(hitAll(first(s), fired(s)), ev)
  BY <1>0, Zenon DEF EvaluateEvent
<1>2. first(s) = hitAll(scopes[s], Hits(s, ev))
  BY <1>0, ScopeFed, Zenon
<1>3. hit = {} => Hits(s, ev) = {}
  BY <1>0, ScopeFed, Zenon DEF fedTo
<1>4. Hits(s, ev) = {} => Firing(s, first(s)) = {}
  BY <1>0, <1>2, NoHitNoFire, Zenon DEF SInv
<1>5. hit # {} => fired(s) = Firing(s, first(s))
  BY <1>0, ScopeFed, Zenon DEF Firing
<1>6. hit = {} => fired(s) = {}
  BY Zenon
<1> HIDE DEF hit, first, fired
<1>7. fired(s) = IF Hits(s, ev) = {} THEN {} ELSE Firing(s, first(s))
  BY <1>3, <1>4, <1>5, <1>6, Zenon
<1>8. EvaluateAlone(s, scopes[s], ev) =
        RecordEvent(hitAll(first(s), IF Hits(s, ev) = {} THEN {} ELSE Firing(s, first(s))), ev)
  BY <1>2, Zenon DEF EvaluateAlone, Hits, Firing
<1> QED BY <1>1, <1>7, <1>8, Zenon

(* One evaluation keeps the cap on alerts and fires what is due, once. *)
LEMMA AloneKeeps ==
  ASSUME NEW s \in Scopes, NEW sc, ScopeOK(s, sc), NEW ev, NEW t, t = EvaluateAlone(s, sc, ev)
  PROVE  ScopeOK(s, t) /\ t.total = sc.total + 1
<1>0. IsScope(sc) /\ sc.rules \in [RuleIds -> Counters]
  BY Zenon DEF ScopeOK, IsScope
<1>1. PICK first : first = hitAll(sc, Hits(s, ev))
  OBVIOUS
<1>2. PICK fired : /\ fired = Firing(s, first)
                   /\ t = RecordEvent(hitAll(first, fired), ev)
  <2>1. Hits(s, ev) = {} => Firing(s, first) = {}
    BY <1>1, NoHitNoFire, Zenon
  <2>2. t = RecordEvent(hitAll(first, IF Hits(s, ev) = {} THEN {} ELSE Firing(s, first)), ev)
    BY <1>1, Zenon DEF EvaluateAlone, Hits, Firing
  <2> QED BY <2>1, <2>2, Zenon
<1>3. PICK last : last = hitAll(first, fired)
  OBVIOUS
<1>4. Hits(s, ev) \subseteq EventRules(s) /\ Hits(s, ev) \subseteq RulesOf(s)
  BY Assumed, Zenon DEF Hits
<1>5. fired \subseteq compilable(s) /\ fired \subseteq RulesOf(s)
  BY <1>2, Assumed, ZenonT(30) DEF Firing
<1>6. /\ IsScope(first) /\ first.total = sc.total
      /\ \A r \in Hits(s, ev) :
            first.rules[r.id] = WriteDetectionLogForHit(FeedHit(sc.rules[r.id], r), r)
      /\ \A i \in RuleIds : (\A r \in Hits(s, ev) : r.id # i) => first.rules[i] = sc.rules[i]
  BY <1>0, <1>1, <1>4, HitAllIs, SMTT(30)
<1>7. /\ IsScope(last) /\ last.total = sc.total
      /\ \A c \in fired :
            last.rules[c.id] = WriteDetectionLogForHit(FeedHit(first.rules[c.id], c), c)
      /\ \A i \in RuleIds : (\A c \in fired : c.id # i) => last.rules[i] = first.rules[i]
  <2>1. IsScope(first) /\ first.total = sc.total /\ fired \subseteq RulesOf(s)
    BY <1>5, <1>6
  <2> QED BY <1>3, <2>1, HitAllIs, SMTT(30)
<1>8. IsScope(t) /\ t.total = sc.total + 1 /\ t.rules = last.rules
  <2>1. t = RecordEvent(last, ev) /\ IsScope(last) /\ last.total = sc.total
    BY <1>2, <1>3, <1>7, Zenon
  <2> QED BY <2>1, RecordEventIs
<1>9. first.rules \in [RuleIds -> Counters]
  BY <1>6, ZenonT(30) DEF IsScope
<1>10. ASSUME NEW r \in EventRules(s)
       PROVE  /\ r.id \in RuleIds /\ last.rules[r.id] = first.rules[r.id]
              /\ Capped(first.rules[r.id], r)
              /\ \/ first.rules[r.id].hits = sc.rules[r.id].hits
                 \/ first.rules[r.id].hits = sc.rules[r.id].hits + 1
  <2>1. r \in RulesOf(s) /\ r.id \in RuleIds /\ r.maxAlerts \in Int
    BY Assumed, Zenon
  <2>2. last.rules[r.id] = first.rules[r.id]
    BY <1>5, <1>7, <2>1, ApartIds, Zenon
  <2>3. sc.rules[r.id] \in Counters /\ Capped(sc.rules[r.id], r)
    BY <1>0, <2>1, Zenon DEF ScopeOK
  <2>4. CASE r \in Hits(s, ev)
    <3>1. first.rules[r.id] = WriteDetectionLogForHit(FeedHit(sc.rules[r.id], r), r)
      BY <1>6, <2>4, Zenon
    <3>2. /\ first.rules[r.id].hits = sc.rules[r.id].hits + 1
          /\ Capped(first.rules[r.id], r)
      BY <2>1, <2>3, <3>1, OneHit
    <3> QED BY <2>1, <2>2, <3>2
  <2>5. CASE r \notin Hits(s, ev)
    <3>1. \A q \in Hits(s, ev) : q.id # r.id
      BY <1>4, <2>1, <2>5, Assumed, Zenon
    <3>2. first.rules[r.id] = sc.rules[r.id]
      BY <1>6, <2>1, <3>1, ZenonT(30)
    <3> QED BY <2>1, <2>2, <2>3, <3>2, Zenon
  <2> QED BY <2>4, <2>5
<1>11. ASSUME NEW c \in RulesOf(s), c \notin EventRules(s)
       PROVE  /\ c.id \in RuleIds /\ first.rules[c.id] = sc.rules[c.id]
              /\ c \in fired => last.rules[c.id].hits = sc.rules[c.id].hits + 1
              /\ c \notin fired => last.rules[c.id] = sc.rules[c.id]
              /\ Capped(last.rules[c.id], c)
  <2>1. c.id \in RuleIds /\ c.maxAlerts \in Int
    BY Assumed, Zenon
  <2>2. \A q \in Hits(s, ev) : q.id # c.id
    BY <1>4, <1>11, Assumed, ZenonT(30)
  <2>3. first.rules[c.id] = sc.rules[c.id]
    BY <1>6, <2>1, <2>2, Zenon
  <2>4. sc.rules[c.id] \in Counters /\ Capped(sc.rules[c.id], c)
    BY <1>0, <2>1, Zenon DEF ScopeOK
  <2>5. CASE c \in fired
    <3>1. last.rules[c.id] = WriteDetectionLogForHit(FeedHit(sc.rules[c.id], c), c)
      BY <1>7, <2>3, <2>5, Zenon
    <3>2. last.rules[c.id].hits = sc.rules[c.id].hits + 1 /\ Capped(last.rules[c.id], c)
      BY <2>1, <2>4, <3>1, OneHit
    <3> QED BY <2>1, <2>3, <2>5, <3>2, Zenon
  <2>6. CASE c \notin fired
    <3>1. \A q \in fired : q.id # c.id
      BY <1>5, <2>6, Assumed, Zenon
    <3>2. last.rules[c.id] = sc.rules[c.id]
      BY <1>7, <2>1, <2>3, <3>1, Zenon
    <3> QED BY <2>1, <2>3, <2>4, <2>6, <3>2, Zenon
  <2> QED BY <2>5, <2>6
<1>12. \A r \in RulesOf(s) : Capped(t.rules[r.id], r)
  BY <1>8, <1>10, <1>11, Zenon
<1>13. ASSUME NEW c \in compilable(s) PROVE OneShot(t, c)
  <2>1. c \in RulesOf(s) /\ c \notin EventRules(s) /\ c.needs.count \in Nat
    BY Assumed, Zenon
  <2>2. PICK r \in EventRules(s) : r.id = c.needs.id
    BY Assumed, Zenon
  <2>3. /\ r.id \in RuleIds /\ c.id \in RuleIds
        /\ t.rules[c.needs.id].hits = first.rules[c.needs.id].hits
        /\ \/ first.rules[c.needs.id].hits = sc.rules[c.needs.id].hits
           \/ first.rules[c.needs.id].hits = sc.rules[c.needs.id].hits + 1
    BY <1>8, <1>10, <1>11, <2>1, <2>2, Zenon
  <2>4. sc.rules[c.needs.id] \in Counters /\ sc.rules[c.id] \in Counters
    BY <1>0, <2>2, <2>3, Zenon
  <2>5. sc.rules[c.needs.id].hits \in Nat /\ sc.rules[c.id].hits \in Nat
    BY <2>4 DEF Counters
  <2>6. OneShot(sc, c)
    BY Zenon DEF ScopeOK
  <2>7. /\ first.rules[c.id].hits = sc.rules[c.id].hits
        /\ c \in fired => t.rules[c.id].hits = sc.rules[c.id].hits + 1
        /\ c \notin fired => t.rules[c.id].hits = sc.rules[c.id].hits
    BY <1>8, <1>11, <2>1, Zenon
  <2>8. c \in fired <=> /\ first.rules[c.id].hits = 0
                        /\ first.rules[c.needs.id].hits >= c.needs.count
    BY <1>2, Zenon DEF Firing, firing, canFireCorrelation
  <2> DEFINE a == sc.rules[c.id].hits
             b == t.rules[c.id].hits
             n == sc.rules[c.needs.id].hits
             m == first.rules[c.needs.id].hits
             k == c.needs.count
  <2>9. a = IF n >= k THEN 1 ELSE 0
    BY <2>6, Zenon DEF OneShot
  <2>10. c \in fired <=> a = 0 /\ m >= k
    BY <2>7, <2>8, Zenon
  <2>11. n \in Nat /\ k \in Nat /\ (m = n \/ m = n + 1)
    BY <2>1, <2>3, <2>5, Zenon
  <2>12. (c \in fired => b = a + 1) /\ (c \notin fired => b = a)
    BY <2>7, Zenon
  <2> HIDE DEF a, b, n, m, k
  <2>13. b = IF m >= k THEN 1 ELSE 0
    BY <2>9, <2>10, <2>11, <2>12
  <2> QED BY <2>3, <2>13, Zenon DEF OneShot, b, m, k
<1> QED BY <1>8, <1>12, <1>13, Zenon DEF ScopeOK

LEMMA NewScopeOK == ASSUME NEW s \in Scopes PROVE ScopeOK(s, NewState)
<1>1. PICK sc : sc = NewState
  OBVIOUS
<1>2. PICK st : st = RuleState
  OBVIOUS
<1>3. /\ st \in Counters /\ st.hits = 0 /\ st.alerts = 0 /\ st.logs = 0 /\ st.marks = 0
  BY <1>2, SMTT(30) DEF RuleState, Counters
<1>4. /\ DOMAIN sc = {"rules", "total", "domains", "overflow"}
      /\ sc.rules = [i \in RuleIds |-> st] /\ sc.total = 0
  BY <1>1, <1>2 DEF NewState
<1>5. IsScope(sc)
  BY <1>3, <1>4 DEF IsScope
<1>6. ASSUME NEW r \in RulesOf(s) PROVE Capped(sc.rules[r.id], r)
  <2>1. r.maxAlerts \in Int /\ sc.rules[r.id] = st
    BY <1>4, Assumed, Zenon
  <2>2. Capped(st, r)
    BY <1>3, <2>1 DEF Capped, CapOf
  <2> QED BY <2>1, <2>2, Zenon
<1>7. ASSUME NEW c \in compilable(s) PROVE OneShot(sc, c)
  <2>1. c.id \in RuleIds /\ c.needs.id \in RuleIds /\ c.needs.count \in Nat \ {0}
    BY Assumed, Zenon
  <2>2. sc.rules[c.id].hits = 0 /\ sc.rules[c.needs.id].hits = 0
    BY <1>3, <1>4, <2>1, Zenon
  <2>3. ~(0 >= c.needs.count)
    BY <2>1
  <2> QED BY <2>2, <2>3, Zenon DEF OneShot
<1> QED BY <1>1, <1>5, <1>6, <1>7, Zenon DEF ScopeOK

(* Only the worker writes the scopes. *)
LEMMA ScopesFrame ==
  ASSUME [Next]_vars, ~processEvent
  PROVE  UNCHANGED scopes
<1>1. CASE Kernel
  BY <1>1, Zenon DEF Kernel, Fork, Exec, Act, Exit, jobVars
<1>2. CASE handleEngineInput
  BY <1>2, Zenon DEF handleEngineInput, jobVars
<1>3. CASE MarkClosing \/ removeJob \/ SetProjectScope \/ UNCHANGED vars
  BY <1>3, Zenon DEF MarkClosing, removeJob, SetProjectScope, vars, jobVars
<1> QED BY <1>1, <1>2, <1>3, Zenon DEF Next

LEMMA StepSInv == ASSUME IInv, SInv, [Next]_vars PROVE SInv'
<1>1. CASE processEvent
  <2>1. PICK ev : EvaluateEvent(ev)
    BY <1>1, Zenon DEF processEvent
  <2>2. ScopeTypes
    BY Zenon DEF IInv
  <2>3. ASSUME NEW s \in Scopes PROVE ScopeOK(s, scopes'[s])
    <3>1. CASE s \in attached
      <4>1. scopes'[s] = EvaluateAlone(s, scopes[s], ev)
        BY <2>1, <2>2, <3>1, EvaluatedAlone, Zenon
      <4>2. ScopeOK(s, scopes[s])
        BY Zenon DEF SInv
      <4> QED BY <4>1, <4>2, AloneKeeps, Zenon
    <3>2. CASE s \notin attached
      <4>1. scopes'[s] = scopes[s]
        BY <2>1, <3>2, Zenon DEF EvaluateEvent
      <4> QED BY <4>1, Zenon DEF SInv
    <3> QED BY <3>1, <3>2
  <2> QED BY <2>3, Zenon DEF SInv
<1>2. CASE ~processEvent
  BY <1>2, ScopesFrame, Zenon DEF SInv
<1> QED BY <1>1, <1>2

LEMMA InitSInv == ASSUME Init PROVE SInv
<1>1. \A s \in Scopes : scopes[s] = NewState
  BY Zenon DEF Init
<1> QED BY <1>1, NewScopeOK, Zenon DEF SInv

LEMMA AlwaysSInv == Spec => []SInv
<1> QED BY InitSInv, StepSInv, AlwaysIInv, PTL DEF Spec

(***************************************************************************)
(* Delivery                                                                *)
(***************************************************************************)

StatsTyped == stats \in [attempted : Nat, delivered : Nat, dropped : Nat, suppressed : Nat]
Balanced == stats.attempted = stats.delivered + stats.dropped + stats.suppressed
Settled == \E s \in attached : stats.delivered = Len(channel) + scopes[s].total
DInv == StatsTyped /\ Balanced /\ Settled

(* A record is counted once, and as delivered only if the channel has it. *)
LEMMA EmitCounts ==
  ASSUME StatsTyped, Balanced, IsSeq(channel), NEW ev, emitEventRecord(ev)
  PROVE  /\ StatsTyped' /\ Balanced' /\ Len(channel) \in Nat
         /\ \/ stats'.delivered = stats.delivered + 1 /\ Len(channel') = Len(channel) + 1
            \/ stats'.delivered = stats.delivered /\ Len(channel') = Len(channel)
<1>1. PICK seen : seen = (hasKey(ev) /\ contains(dedup, keyOf(ev)))
  OBVIOUS
<1>2. PICK fits : fits = (Len(channel) < QueueSize)
  OBVIOUS
<1>3. PICK a, s, d, o : /\ a = stats.attempted + 1
                        /\ s = IF seen THEN stats.suppressed + 1 ELSE stats.suppressed
                        /\ d = IF ~seen /\ fits THEN stats.delivered + 1 ELSE stats.delivered
                        /\ o = IF ~seen /\ ~fits THEN stats.dropped + 1 ELSE stats.dropped
  BY Zenon
<1>4. stats' = [stats EXCEPT !.attempted = a, !.suppressed = s, !.delivered = d, !.dropped = o]
  BY <1>1, <1>2, <1>3, Zenon DEF emitEventRecord
<1>5. channel' = IF ~seen /\ fits THEN Append(channel, ev) ELSE channel
  BY <1>1, <1>2, Zenon DEF emitEventRecord
<1>6. /\ stats.attempted \in Nat /\ stats.delivered \in Nat
      /\ stats.dropped \in Nat /\ stats.suppressed \in Nat
  BY DEF StatsTyped
<1>7. a \in Nat /\ s \in Nat /\ d \in Nat /\ o \in Nat
  BY <1>3, <1>6
<1>8. /\ StatsTyped' /\ stats'.attempted = a /\ stats'.suppressed = s
      /\ stats'.delivered = d /\ stats'.dropped = o
  BY <1>4, <1>7, Zenon DEF StatsTyped
<1>9. a = d + o + s
  <2>0. stats.attempted = stats.delivered + stats.dropped + stats.suppressed
    BY Zenon DEF Balanced
  <2>1. \/ s = stats.suppressed + 1 /\ d = stats.delivered /\ o = stats.dropped
        \/ s = stats.suppressed /\ d = stats.delivered + 1 /\ o = stats.dropped
        \/ s = stats.suppressed /\ d = stats.delivered /\ o = stats.dropped + 1
    BY <1>3, Zenon
  <2> QED BY <1>3, <1>6, <2>0, <2>1
<1>10. Balanced'
  BY <1>8, <1>9, Zenon DEF Balanced
<1>11. Len(channel) \in Nat /\ Len(Append(channel, ev)) = Len(channel) + 1
  BY Appended, Zenon
<1> QED BY <1>3, <1>5, <1>8, <1>10, <1>11, Zenon

LEMMA InputDelivers == ASSUME IInv, SInv, DInv, handleEngineInput PROVE DInv'
<1>0. IsSeq(channel) /\ StatsTyped /\ Balanced /\ UNCHANGED <<attached, scopes>>
  BY Zenon DEF IInv, DInv, handleEngineInput, jobVars
<1>1. PICK t \in attached : stats.delivered = Len(channel) + scopes[t].total
  BY Zenon DEF DInv, Settled
<1>2. scopes[t].total \in Nat
  BY Zenon DEF SInv, ScopeOK, IsScope, IInv, ScopeTypes
<1>3. CASE UNCHANGED <<stats, channel>>
  <2>1. StatsTyped' /\ Balanced' /\ Settled'
    BY <1>0, <1>1, <1>3, Zenon DEF StatsTyped, Balanced, Settled
  <2> QED BY <2>1, Zenon DEF DInv
<1>4. ASSUME NEW ev, emitEventRecord(ev) PROVE DInv'
  <2>1. /\ StatsTyped' /\ Balanced' /\ Len(channel) \in Nat
        /\ \/ stats'.delivered = stats.delivered + 1 /\ Len(channel') = Len(channel) + 1
           \/ stats'.delivered = stats.delivered /\ Len(channel') = Len(channel)
    BY <1>0, <1>4, EmitCounts, Zenon
  <2>2. stats'.delivered = Len(channel') + scopes[t].total
    BY <1>1, <1>2, <2>1, SMTT(30)
  <2> QED BY <1>0, <2>1, <2>2, Zenon DEF DInv, Settled
<1>5. UNCHANGED <<stats, channel>> \/ \E ev : emitEventRecord(ev)
  BY Zenon DEF handleEngineInput, handleForkSample, handleExecSample, handleFileOpenSample,
     handleDNSSample, emitWithContext, trackerVars
<1> QED BY <1>3, <1>4, <1>5, Zenon

LEMMA StepDInv == ASSUME IInv, SInv, DInv, [Next]_vars PROVE DInv'
<1>0. StatsTyped /\ Balanced /\ Settled
  BY Zenon DEF DInv
<1>1. CASE processEvent
  <2>1. /\ channel # <<>> /\ channel' = Tail(channel) /\ UNCHANGED <<stats, attached>>
        /\ EvaluateEvent(Head(channel))
    BY <1>1, Zenon DEF processEvent
  <2>2. PICK t \in attached : stats.delivered = Len(channel) + scopes[t].total
    BY <1>0, Zenon DEF Settled
  <2>3. t \in Scopes /\ ScopeOK(t, scopes[t]) /\ ScopeTypes
    BY Zenon DEF SInv, IInv, ScopeTypes
  <2>4. scopes'[t] = EvaluateAlone(t, scopes[t], Head(channel))
    BY <2>1, <2>3, EvaluatedAlone, Zenon
  <2>5. scopes'[t].total = scopes[t].total + 1
    BY <2>3, <2>4, AloneKeeps
  <2>6. scopes[t].total \in Nat
    BY <2>3, Zenon DEF ScopeOK, IsScope
  <2>7. Len(channel) \in Nat /\ Len(channel') = Len(channel) - 1
    BY <2>1, Dequeued DEF IInv
  <2>8. Len(channel) + scopes[t].total = Len(channel') + scopes'[t].total
    BY <2>5, <2>6, <2>7
  <2>9. Settled'
    BY <2>1, <2>2, <2>8, Zenon DEF Settled
  <2>10. StatsTyped' /\ Balanced'
    BY <1>0, <2>1, Zenon DEF StatsTyped, Balanced
  <2> QED BY <2>9, <2>10, Zenon DEF DInv
<1>2. CASE handleEngineInput
  BY <1>2, InputDelivers, Zenon
<1>3. CASE ~processEvent /\ ~handleEngineInput
  <2>1. UNCHANGED <<stats, channel, scopes>> /\ attached \subseteq attached'
    <3>1. CASE Kernel
      BY <3>1, KernelFrame, ScopesFrame, <1>3, Zenon
         DEF Kernel, Fork, Exec, Act, Exit, trackerVars
    <3>2. CASE ~Kernel
      BY <1>3, <3>2, Zenon
         DEF Next, MarkClosing, removeJob, SetProjectScope, vars, kernelVars, trackerVars, jobVars
    <3> QED BY <3>1, <3>2
  <2>2. StatsTyped' /\ Balanced'
    BY <1>0, <2>1, Zenon DEF StatsTyped, Balanced
  <2>3. Settled'
    BY <1>0, <2>1, Zenon DEF Settled
  <2> QED BY <2>2, <2>3, Zenon DEF DInv
<1> QED BY <1>1, <1>2, <1>3

LEMMA InitDInv == ASSUME Init PROVE DInv
<1>1. stats = NoStats /\ channel = <<>>
  BY Zenon DEF Init
<1>2. PICK t : t \in Scopes /\ attached = {t}
  BY PipelineAssumption, Zenon DEF Init
<1>3. scopes[t].total = 0
  <2>1. scopes[t] = NewState
    BY <1>2, Zenon DEF Init
  <2> QED BY <2>1 DEF NewState
<1>4. StatsTyped /\ Balanced /\ stats.delivered = 0
  BY <1>1 DEF NoStats, StatsTyped, Balanced
<1>5. stats.delivered = Len(channel) + scopes[t].total
  BY <1>1, <1>3, <1>4
<1> QED BY <1>2, <1>4, <1>5, Zenon DEF DInv, Settled

(***************************************************************************)
(* Theorems                                                                *)
(***************************************************************************)

(* The map and the ring of fileOpenDedupState hold the same keys, each     *)
(* once, and never more than the limit.                                    *)
THEOREM ConsistentAlways == Spec => []DedupConsistent
<1>1. IInv => DedupConsistent
  BY DEF IInv
<1> QED BY <1>1, AlwaysIInv, PTL

(* A file_open is suppressed only if its like was evaluated or waits for   *)
(* the worker: a record that the full channel refused suppresses nothing.  *)
THEOREM SuppressedWasDelivered == Spec => []SuppressibleWasDelivered
<1>1. IInv => SuppressibleWasDelivered
  BY DEF IInv
<1> QED BY <1>1, AlwaysIInv, PTL

(* A record names the image its process ran when the sample was taken, for *)
(* any forks, execs and exits, any samples lost at the ring buffer and any *)
(* records lost at the channel, provided that the process executed an      *)
(* image since tracking began, or was forked by one that did, and that     *)
(* sample was not lost.                                                    *)
THEOREM AttributedExactly == Spec => []AttributionExact
<1>1. AInv => AttributionExact
  BY DEF AInv
<1> QED BY <1>1, InitAInv, StepAInv, AlwaysIInv, PTL DEF Spec

(* Keys leave the deduplication state in the order they came. *)
THEOREM FIFOAlways == Spec => DedupFIFO
<1> DEFINE Move == dedup' # dedup /\ state' # "removed" =>
                     \E k \in Key : Ages(dedup') = Oldest(Ages(dedup), k)
<1>1. ASSUME IInv, [Next]_vars PROVE [Move]_vars
  <2>1. CASE dedup' = dedup \/ state' = "removed"
    BY <2>1
  <2>2. CASE dedup' # dedup /\ state' # "removed"
    <3>1. handleEngineInput
      BY <1>1, <2>2, KernelFrame, SMTT(30)
         DEF Next, MarkClosing, removeJob, SetProjectScope, processEvent, vars, trackerVars
    <3>2. PICK k \in Key : dedup' = remember(dedup, k)
      BY <1>1, <2>2, <3>1, InputInv DEF Handled
    <3>3. Ages(remember(dedup, k)) = Oldest(Ages(dedup), k)
      BY <1>1, RememberIsFIFO DEF IInv, DedupConsistent
    <3> QED BY <3>2, <3>3, SMTT(30)
  <2> QED BY <2>1, <2>2
<1> QED BY <1>1, AlwaysIInv, PTL DEF Spec, DedupFIFO

(* Every attempt to deliver is counted once, and every record that the     *)
(* channel took is evaluated or waits for the worker, whenever the Job     *)
(* ends.                                                                   *)
THEOREM DeliveredIsEvaluated == Spec => []DeliveredAreEvaluated
<1>1. DInv => DeliveredAreEvaluated
  BY Zenon DEF DInv, Balanced, Settled, DeliveredAreEvaluated
<1> QED BY <1>1, InitDInv, StepDInv, AlwaysIInv, AlwaysSInv, PTL DEF Spec

(* max_alerts holds for any rules, caps and numbers of hits: alerts, log   *)
(* entries and the one truncation mark stay in step.                       *)
THEOREM AlertsStayCapped == Spec => []AlertsCapped
<1>1. ASSUME IInv, SInv PROVE AlertsCapped
  <2>1. ASSUME NEW s \in attached, NEW r \in RulesOf(s) PROVE Capped(scopes[s].rules[r.id], r)
    BY <1>1, Zenon DEF SInv, ScopeOK, IInv, ScopeTypes
  <2> QED BY <2>1, Zenon DEF AlertsCapped, Capped, CapOf
<1> QED BY <1>1, AlwaysIInv, AlwaysSInv, PTL

(* A correlation has fired in a scope once if the hits of that scope meet  *)
(* its condition and not at all otherwise, for any rules and thresholds.   *)
THEOREM CorrelationsFireOnce == Spec => []CorrelationsOneShot
<1>1. ASSUME IInv, SInv PROVE CorrelationsOneShot
  <2>1. ASSUME NEW s \in attached, NEW c \in compilable(s) PROVE OneShot(scopes[s], c)
    BY <1>1, Zenon DEF SInv, ScopeOK, IInv, ScopeTypes
  <2> QED BY <2>1, Zenon DEF CorrelationsOneShot, OneShot
<1> QED BY <1>1, AlwaysIInv, AlwaysSInv, PTL

(* The rules that two scopes share, and a hit that only one of them has,   *)
(* are invisible to the other, for any two sets of rules.                  *)
THEOREM ScopesStayIsolated == Spec => ScopesIsolated
<1> DEFINE Alone == scopes' # scopes =>
              \A s \in attached : scopes'[s] = EvaluateAlone(s, scopes[s], Head(channel))
<1>1. ASSUME IInv, SInv, [Next]_vars, scopes' # scopes, NEW s \in attached
      PROVE  scopes'[s] = EvaluateAlone(s, scopes[s], Head(channel))
  <2>1. processEvent
    BY <1>1, ScopesFrame, Zenon
  <2>2. EvaluateEvent(Head(channel)) /\ ScopeTypes
    BY <1>1, <2>1, Zenon DEF processEvent, IInv
  <2> QED BY <1>1, <2>2, EvaluatedAlone, Zenon
<1>2. IInv /\ SInv /\ [Next]_vars => [Alone]_vars
  BY <1>1, Zenon
<1> QED BY <1>2, AlwaysIInv, AlwaysSInv, PTL DEF Spec, ScopesIsolated

(***************************************************************************)
(* The observations                                                        *)
(***************************************************************************)

FS == INSTANCE FiniteSetTheorems

LEMMA FiniteEmpty == IsFiniteSet({}) /\ Cardinality({}) = 0
<1>1. \A T : FS!IsFiniteSet(T) = IsFiniteSet(T)
  BY Zenon DEF FS!IsFiniteSet, IsFiniteSet
<1>2. \A T : FS!Cardinality(T) = Cardinality(T)
  BY Zenon DEF FS!Cardinality, Cardinality
<1> QED BY <1>1, <1>2, FS!FS_EmptySet, Zenon

LEMMA Finite ==
  ASSUME NEW S, IsFiniteSet(S), NEW x
  PROVE  /\ IsFiniteSet(S \cup {x}) /\ Cardinality(S) \in Nat
         /\ x \notin S => Cardinality(S \cup {x}) = Cardinality(S) + 1
<1>1. \A T : FS!IsFiniteSet(T) = IsFiniteSet(T)
  BY Zenon DEF FS!IsFiniteSet, IsFiniteSet
<1>2. \A T : FS!Cardinality(T) = Cardinality(T)
  BY Zenon DEF FS!Cardinality, Cardinality
<1>3. FS!IsFiniteSet(S)
  BY <1>1, Zenon
<1>4. FS!IsFiniteSet(S \cup {x})
  BY <1>3, FS!FS_AddElement, Zenon
<1>5. x \notin S => FS!Cardinality(S \cup {x}) = FS!Cardinality(S) + 1
  BY <1>3, FS!FS_AddElement, Zenon
<1>6. FS!Cardinality(S) \in Nat
  BY <1>3, FS!FS_CardinalityType, Zenon
<1> QED BY <1>1, <1>2, <1>4, <1>5, <1>6, Zenon

(* A table of bounded size; a process context list and a scope's tables.   *)
Bounded(f, cap) == IsFiniteSet(DOMAIN f) /\ Cardinality(DOMAIN f) <= cap
Contexts(ctx) ==
    /\ DOMAIN ctx = {"processes", "overflow"} /\ ctx.overflow \in Nat
    /\ Bounded(ctx.processes, ProcessCap)
Tables(sc) ==
    /\ sc.overflow \in Nat /\ Bounded(sc.domains, DomainCap)
    /\ \A d \in DOMAIN sc.domains : Contexts(sc.domains[d])

(* Process p is among the contexts, or they overflowed; the same for the   *)
(* observation of domain d by process p.                                   *)
Listed(ctx, p) ==
    \/ p \in DOMAIN ctx.processes
    \/ ctx.overflow > 0 /\ Cardinality(DOMAIN ctx.processes) = ProcessCap
Accounted(sc, d, p) ==
    IF d \notin DOMAIN sc.domains
    THEN sc.overflow > 0 /\ Cardinality(DOMAIN sc.domains) = DomainCap
    ELSE Listed(sc.domains[d], p)

OInv ==
    /\ \A s \in Scopes : Tables(scopes[s])
    /\ \A o \in observed : o[1] \in Scopes /\ Accounted(scopes[o[1]], o[2], o[3])

LEMMA BoundedSize ==
  ASSUME NEW f, NEW cap \in Nat, Bounded(f, cap)
  PROVE  /\ Cardinality(DOMAIN f) \in Nat
         /\ Cardinality(DOMAIN f) >= cap => Cardinality(DOMAIN f) = cap
         /\ Cardinality(DOMAIN f) = cap => Cardinality(DOMAIN f) >= cap
<1>1. Cardinality(DOMAIN f) \in Nat /\ Cardinality(DOMAIN f) <= cap
  BY Finite, Zenon DEF Bounded
<1> QED BY <1>1

(* An entry is set in a table that has it or has room for it. *)
LEMMA SetBounded ==
  ASSUME NEW f, NEW cap \in Nat, Bounded(f, cap), NEW p, NEW v,
         p \in DOMAIN f \/ ~(Cardinality(DOMAIN f) >= cap)
  PROVE  Bounded(setNode(f, p, v), cap) /\ DOMAIN setNode(f, p, v) = DOMAIN f \cup {p}
<1>1. PICK t : t = setNode(f, p, v)
  BY Zenon
<1>2. DOMAIN t = DOMAIN f \cup {p}
  BY <1>1 DEF setNode
<1>3. CASE p \in DOMAIN f
  <2>1. DOMAIN t = DOMAIN f
    BY <1>2, <1>3, Zenon
  <2> QED BY <1>1, <1>2, <2>1, Zenon DEF Bounded
<1>4. CASE p \notin DOMAIN f
  <2>1. /\ IsFiniteSet(DOMAIN t) /\ Cardinality(DOMAIN f) \in Nat
        /\ Cardinality(DOMAIN t) = Cardinality(DOMAIN f) + 1
    BY <1>2, <1>4, Finite, Zenon DEF Bounded
  <2>2. ~(Cardinality(DOMAIN f) >= cap)
    BY <1>4, Zenon
  <2>3. Cardinality(DOMAIN t) <= cap
    BY <2>1, <2>2, SMTT(30)
  <2> QED BY <1>1, <1>2, <2>1, <2>3, Zenon DEF Bounded
<1> QED BY <1>3, <1>4

(* addProcessContext lists the process or counts it, and forgets nobody. *)
LEMMA AddContext ==
  ASSUME NEW ctx, Contexts(ctx), NEW p, NEW process, NEW t, t = addProcessContext(ctx, p, process)
  PROVE  Contexts(t) /\ Listed(t, p) /\ \A q : Listed(ctx, q) => Listed(t, q)
<1>0. /\ DOMAIN ctx = {"processes", "overflow"} /\ ctx.overflow \in Nat
      /\ Bounded(ctx.processes, ProcessCap) /\ ProcessCap \in Nat
  BY RulesAssumption, Zenon DEF Contexts
<1>1. /\ Cardinality(DOMAIN ctx.processes) >= ProcessCap => Cardinality(DOMAIN ctx.processes) = ProcessCap
      /\ Cardinality(DOMAIN ctx.processes) = ProcessCap => Cardinality(DOMAIN ctx.processes) >= ProcessCap
  BY <1>0, BoundedSize, Zenon
<1>2. CASE p \in DOMAIN ctx.processes
  <2>1. t = ctx \/ \E c : t = [ctx EXCEPT !.processes[p] = c]
    BY <1>2, Zenon DEF addProcessContext
  <2>2. CASE t = ctx
    BY <1>2, <2>2, Zenon DEF Listed
  <2>3. ASSUME NEW c, t = [ctx EXCEPT !.processes[p] = c]
        PROVE  Contexts(t) /\ Listed(t, p) /\ \A q : Listed(ctx, q) => Listed(t, q)
    <3>1. /\ DOMAIN t = {"processes", "overflow"} /\ t.overflow = ctx.overflow
          /\ DOMAIN t.processes = DOMAIN ctx.processes
      BY <1>0, <2>3, SMTT(30)
    <3> QED BY <1>0, <1>2, <3>1, Zenon DEF Contexts, Listed, Bounded
  <2> QED BY <2>1, <2>2, <2>3, Zenon
<1>3. CASE p \notin DOMAIN ctx.processes /\ Cardinality(DOMAIN ctx.processes) >= ProcessCap
  <2>1. t = [ctx EXCEPT !.overflow = ctx.overflow + 1]
    BY <1>3, Zenon DEF addProcessContext
  <2>2. /\ DOMAIN t = {"processes", "overflow"} /\ t.overflow = ctx.overflow + 1
        /\ t.processes = ctx.processes
    BY <1>0, <2>1, SMTT(30)
  <2>3. t.overflow \in Nat /\ t.overflow > 0
    BY <1>0, <2>2, SMTT(30)
  <2> QED BY <1>0, <1>1, <1>3, <2>2, <2>3, Zenon DEF Contexts, Listed
<1>4. CASE p \notin DOMAIN ctx.processes /\ ~(Cardinality(DOMAIN ctx.processes) >= ProcessCap)
  <2>1. PICK u, v : u = setNode(ctx.processes, p, v) /\ t = [ctx EXCEPT !.processes = u]
    BY <1>4, Zenon DEF addProcessContext
  <2>2. Bounded(u, ProcessCap) /\ DOMAIN u = DOMAIN ctx.processes \cup {p}
    <3>1. PICK f : f = ctx.processes
      BY Zenon
    <3>2. /\ Bounded(f, ProcessCap) /\ ProcessCap \in Nat /\ u = setNode(f, p, v)
          /\ p \in DOMAIN f \/ ~(Cardinality(DOMAIN f) >= ProcessCap)
      BY <1>0, <1>4, <2>1, <3>1, Zenon
    <3>3. Bounded(u, ProcessCap) /\ DOMAIN u = DOMAIN f \cup {p}
      BY <3>2, SetBounded, Zenon
    <3> QED BY <3>1, <3>3, Zenon
  <2>3. /\ DOMAIN t = {"processes", "overflow"} /\ t.overflow = ctx.overflow
        /\ t.processes = u
    BY <1>0, <2>1, SMTT(30)
  <2>4. \A q : Listed(ctx, q) => q \in DOMAIN ctx.processes
    BY <1>1, <1>4, ZenonT(30) DEF Listed
  <2> QED BY <1>0, <2>2, <2>3, <2>4, Zenon DEF Contexts, Listed
<1> QED BY <1>2, <1>3, <1>4, SMTT(30)

(* recordDomain accounts for its observation and for all that were before. *)
LEMMA RecordAccounts ==
  ASSUME NEW sc, IsScope(sc), Tables(sc), NEW d, NEW p, NEW process,
         NEW t, t = recordDomain(sc, d, p, process)
  PROVE  Tables(t) /\ Accounted(t, d, p) /\ \A e, q : Accounted(sc, e, q) => Accounted(t, e, q)
<1>0. /\ sc.overflow \in Nat /\ Bounded(sc.domains, DomainCap) /\ DomainCap \in Nat
      /\ \A e \in DOMAIN sc.domains : Contexts(sc.domains[e])
  BY RulesAssumption, Zenon DEF Tables
<1>1. /\ Cardinality(DOMAIN sc.domains) >= DomainCap => Cardinality(DOMAIN sc.domains) = DomainCap
      /\ Cardinality(DOMAIN sc.domains) = DomainCap => Cardinality(DOMAIN sc.domains) >= DomainCap
  BY <1>0, BoundedSize, Zenon
<1>2. CASE d \notin DOMAIN sc.domains /\ Cardinality(DOMAIN sc.domains) >= DomainCap
  <2>1. t = [sc EXCEPT !.overflow = sc.overflow + 1]
    BY <1>2, Zenon DEF recordDomain
  <2>2. t.overflow = sc.overflow + 1 /\ t.domains = sc.domains
    BY <2>1, SMTT(30) DEF IsScope
  <2>3. t.overflow \in Nat /\ t.overflow > 0
    BY <1>0, <2>2, SMTT(30)
  <2> QED BY <1>0, <1>1, <1>2, <2>2, <2>3, Zenon DEF Tables, Accounted
<1>3. CASE d \in DOMAIN sc.domains \/ ~(Cardinality(DOMAIN sc.domains) >= DomainCap)
  <2>1. PICK ctx : ctx = IF d \in DOMAIN sc.domains THEN sc.domains[d] ELSE NoContexts
    OBVIOUS
  <2>2. PICK v : v = addProcessContext(ctx, p, process)
    OBVIOUS
  <2>3. PICK u : u = setNode(sc.domains, d, v)
    OBVIOUS
  <2>4. t = [sc EXCEPT !.domains = u]
    BY <1>3, <2>1, <2>2, <2>3, Zenon DEF recordDomain
  <2>5. t.overflow = sc.overflow /\ t.domains = u
    BY <2>4 DEF IsScope
  <2>6. /\ Bounded(u, DomainCap) /\ DOMAIN u = DOMAIN sc.domains \cup {d} /\ u[d] = v
        /\ \A e \in DOMAIN sc.domains : e # d => u[e] = sc.domains[e]
    <3>1. PICK f : f = sc.domains
      BY Zenon
    <3>2. /\ Bounded(f, DomainCap) /\ DomainCap \in Nat /\ u = setNode(f, d, v)
          /\ d \in DOMAIN f \/ ~(Cardinality(DOMAIN f) >= DomainCap)
      BY <1>0, <1>3, <2>3, <3>1, Zenon
    <3>3. /\ Bounded(u, DomainCap) /\ DOMAIN u = DOMAIN f \cup {d} /\ u[d] = v
          /\ \A e \in DOMAIN f : e # d => u[e] = f[e]
      <4>1. Bounded(u, DomainCap) /\ DOMAIN u = DOMAIN f \cup {d}
        BY <3>2, SetBounded, Zenon
      <4>2. u[d] = v /\ \A e \in DOMAIN f : e # d => u[e] = f[e]
        BY <3>2 DEF setNode
      <4> QED BY <4>1, <4>2, Zenon
    <3> QED BY <3>1, <3>3, Zenon
  <2>7. Contexts(ctx)
    <3>1. Contexts(NoContexts)
      <4>1. PICK c : c = NoContexts
        BY Zenon
      <4>2. /\ DOMAIN c = {"processes", "overflow"} /\ c.overflow = 0
            /\ DOMAIN c.processes = {}
        BY <4>1 DEF NoContexts
      <4>3. IsFiniteSet({}) /\ Cardinality({}) = 0 /\ ProcessCap \in Nat
        BY FiniteEmpty, RulesAssumption, Zenon
      <4>4. 0 \in Nat /\ 0 <= ProcessCap
        BY <4>3, SMTT(30)
      <4> QED BY <4>1, <4>2, <4>3, <4>4, Zenon DEF Contexts, Bounded
    <3> QED BY <1>0, <2>1, <3>1, Zenon
  <2>8. Contexts(v) /\ Listed(v, p) /\ \A q : Listed(ctx, q) => Listed(v, q)
    BY <2>2, <2>7, AddContext, SMTT(30)
  <2>9. Tables(t)
    BY <1>0, <2>5, <2>6, <2>8, Zenon DEF Tables
  <2>10. Accounted(t, d, p)
    BY <2>5, <2>6, <2>8, Zenon DEF Accounted
  <2>11. ASSUME NEW e, NEW q, Accounted(sc, e, q) PROVE Accounted(t, e, q)
    <3>1. CASE e \notin DOMAIN sc.domains
      <4>1. d \in DOMAIN sc.domains
        BY <1>1, <1>3, <2>11, <3>1, Zenon DEF Accounted
      <4>2. DOMAIN u = DOMAIN sc.domains
        BY <2>6, <4>1, Zenon
      <4> QED BY <2>5, <2>11, <3>1, <4>2, Zenon DEF Accounted
    <3>2. CASE e \in DOMAIN sc.domains
      <4>1. Listed(sc.domains[e], q)
        BY <2>11, <3>2, Zenon DEF Accounted
      <4>2. Listed(u[e], q)
        BY <2>1, <2>6, <2>8, <3>2, <4>1, ZenonT(30)
      <4> QED BY <2>5, <2>6, <3>2, <4>2, Zenon DEF Accounted
    <3> QED BY <3>1, <3>2, SMTT(30)
  <2> QED BY <2>9, <2>10, <2>11, Zenon
<1> QED BY <1>2, <1>3, SMTT(30)

(* The worker's step does so for the event it evaluates. *)
LEMMA AloneAccounts ==
  ASSUME NEW s \in Scopes, NEW sc, ScopeOK(s, sc), Tables(sc), NEW ev,
         NEW t, t = EvaluateAlone(s, sc, ev)
  PROVE  /\ Tables(t) /\ \A e, q : Accounted(sc, e, q) => Accounted(t, e, q)
         /\ ev.type = "domain" => Accounted(t, ev.object, ev.proc)
<1>0. IsScope(sc)
  BY Zenon DEF ScopeOK
<1>1. PICK first : first = hitAll(sc, Hits(s, ev))
  OBVIOUS
<1>2. PICK fired : fired \subseteq compilable(s) /\ t = RecordEvent(hitAll(first, fired), ev)
  <2>1. t = RecordEvent(hitAll(first, IF Hits(s, ev) = {} THEN {} ELSE Firing(s, first)), ev)
    BY <1>1, Zenon DEF EvaluateAlone, Hits, Firing
  <2>2. (IF Hits(s, ev) = {} THEN {} ELSE Firing(s, first)) \subseteq compilable(s)
    BY Zenon DEF Firing
  <2> QED BY <2>1, <2>2, Zenon
<1>3. PICK last : last = hitAll(first, fired)
  OBVIOUS
<1>4. Hits(s, ev) \subseteq RulesOf(s) /\ fired \subseteq RulesOf(s)
  BY <1>2, Assumed, ZenonT(30) DEF Hits
<1>5. IsScope(first) /\ first.domains = sc.domains /\ first.overflow = sc.overflow
  BY <1>0, <1>1, <1>4, HitAllIs, SMTT(30)
<1>6. IsScope(last) /\ last.domains = sc.domains /\ last.overflow = sc.overflow
  <2>1. IsScope(last) /\ last.domains = first.domains /\ last.overflow = first.overflow
    BY <1>3, <1>4, <1>5, HitAllIs, SMTT(30)
  <2> QED BY <1>5, <2>1, ZenonT(30)
<1>7. PICK counted : counted = [last EXCEPT !.total = @ + 1]
  BY Zenon
<1>8. /\ DOMAIN counted = DOMAIN last /\ counted.total = last.total + 1 /\ counted.rules = last.rules
      /\ counted.domains = last.domains /\ counted.overflow = last.overflow
      /\ last.total + 1 \in Nat
  BY <1>6, <1>7, SMTT(30) DEF IsScope
<1>9. IsScope(counted)
  BY <1>6, <1>8, Zenon DEF IsScope
<1>10. Tables(counted) /\ \A e, q : Accounted(sc, e, q) => Accounted(counted, e, q)
  BY <1>6, <1>8, Zenon DEF Tables, Accounted
<1>11. t = IF ev.type = "domain" THEN recordDomain(counted, ev.object, ev.proc, ev.process) ELSE counted
  BY <1>2, <1>3, <1>7, Zenon DEF RecordEvent
<1>12. CASE ev.type = "domain"
  <2>1. t = recordDomain(counted, ev.object, ev.proc, ev.process)
    BY <1>11, <1>12, Zenon
  <2>2. /\ Tables(t) /\ Accounted(t, ev.object, ev.proc)
        /\ \A e, q : Accounted(counted, e, q) => Accounted(t, e, q)
    BY <1>9, <1>10, <2>1, RecordAccounts, SMTT(30)
  <2> QED BY <1>10, <2>2, Zenon
<1>13. CASE ev.type # "domain"
  BY <1>10, <1>11, <1>13, Zenon
<1> QED BY <1>12, <1>13, SMTT(30)

LEMMA StepOInv == ASSUME IInv, SInv, OInv, [Next]_vars PROVE OInv'
<1>1. CASE processEvent
  <2>1. PICK ev : /\ EvaluateEvent(ev)
                  /\ observed' = IF ev.type = "domain"
                                 THEN observed \cup {<<s, ev.object, ev.proc>> : s \in attached}
                                 ELSE observed
    BY <1>1, Zenon DEF processEvent
  <2>2. ScopeTypes
    BY ZenonT(30) DEF IInv
  <2>3. ASSUME NEW s \in Scopes
        PROVE  /\ Tables(scopes'[s])
               /\ \A e, q : Accounted(scopes[s], e, q) => Accounted(scopes'[s], e, q)
               /\ s \in attached /\ ev.type = "domain" => Accounted(scopes'[s], ev.object, ev.proc)
    <3>0. Tables(scopes[s]) /\ ScopeOK(s, scopes[s])
      BY Zenon DEF OInv, SInv
    <3>1. CASE s \in attached
      <4>1. scopes'[s] = EvaluateAlone(s, scopes[s], ev)
        BY <2>1, <2>2, <3>1, EvaluatedAlone, Zenon
      <4> QED BY <3>0, <4>1, AloneAccounts, Zenon
    <3>2. CASE s \notin attached
      <4>1. scopes'[s] = scopes[s]
        BY <2>1, <3>2, Zenon DEF EvaluateEvent
      <4> QED BY <3>0, <3>2, <4>1, Zenon
    <3> QED BY <3>1, <3>2, SMTT(30)
  <2>4. ASSUME NEW o \in observed' PROVE o[1] \in Scopes /\ Accounted(scopes'[o[1]], o[2], o[3])
    <3>1. CASE o \in observed
      BY <2>3, <3>1, Zenon DEF OInv
    <3>2. CASE o \notin observed
      <4>1. PICK s \in attached : o = <<s, ev.object, ev.proc>> /\ ev.type = "domain"
        BY <2>1, <2>4, <3>2, Zenon
      <4>2. o[1] = s /\ o[2] = ev.object /\ o[3] = ev.proc
        BY <4>1
      <4>3. s \in Scopes
        BY <2>2, Zenon DEF ScopeTypes
      <4> QED BY <2>3, <4>1, <4>2, <4>3, Zenon
    <3> QED BY <3>1, <3>2
  <2> QED BY <2>3, <2>4, Zenon DEF OInv
<1>2. CASE ~processEvent
  <2>1. UNCHANGED scopes
    BY <1>2, ScopesFrame, Zenon
  <2>2. UNCHANGED observed
    <3>1. CASE Kernel
      BY <3>1, Zenon DEF Kernel, Fork, Exec, Act, Exit, history
    <3>2. CASE handleEngineInput
      BY <3>2, Zenon DEF handleEngineInput, history
    <3>3. CASE MarkClosing \/ removeJob \/ SetProjectScope \/ UNCHANGED vars
      BY <3>3, Zenon DEF MarkClosing, removeJob, SetProjectScope, vars, history
    <3> QED BY <1>2, <3>1, <3>2, <3>3, Zenon DEF Next
  <2> QED BY <2>1, <2>2, Zenon DEF OInv
<1> QED BY <1>1, <1>2

LEMMA InitOInv == ASSUME Init PROVE OInv
<1>1. PICK sc : sc = NewState
  OBVIOUS
<1>2. sc.overflow = 0 /\ DOMAIN sc.domains = {}
  BY <1>1 DEF NewState
<1>3. IsFiniteSet({}) /\ Cardinality({}) = 0 /\ DomainCap \in Nat
  BY FiniteEmpty, RulesAssumption, Zenon
<1>4. 0 \in Nat /\ 0 <= DomainCap
  BY <1>3
<1>5. Tables(sc)
  BY <1>2, <1>3, <1>4, Zenon DEF Tables, Bounded
<1>6. observed = {} /\ \A s \in Scopes : scopes[s] = NewState
  BY Zenon DEF Init
<1> QED BY <1>1, <1>5, <1>6, Zenon DEF OInv

(* Every observation a scope was shown is in its summary, or the table it  *)
(* belongs in is full and its overflow is counted, for any caps.           *)
THEOREM ObservationsAreAccounted == Spec => []ObservationsAccounted
<1>1. OInv => ObservationsAccounted
  BY Zenon DEF OInv, Accounted, Listed, ObservationsAccounted
<1> QED BY <1>1, InitOInv, StepOInv, AlwaysIInv, AlwaysSInv, PTL DEF Spec
=============================================================================
