--------------------------- MODULE FileOpenDedup ---------------------------
(***************************************************************************)
(* fileOpenDedupState (kerneltracker/job_tracking_file_open_dedup.go): the *)
(* file_open keys a Job's tracker has delivered lately, as a membership    *)
(* map and a ring of the same keys in the order they came.  The operators  *)
(* act on the record [seen, order, next]; `next` counts from 0, as the     *)
(* slice index does.                                                       *)
(***************************************************************************)
EXTENDS Integers, Sequences

CONSTANT DedupLimit     \* defaultFileOpenDedupKeyLimit

ASSUME DedupLimitAssumption == DedupLimit \in Nat

newFileOpenDedupState == [seen |-> {}, order |-> <<>>, next |-> 0]

contains(d, key) == key \in d.seen

\* Mutant: a full ring replaces its newest slot.
RememberEvictingNewest(d, key) ==
    IF DedupLimit = 0 \/ key \in d.seen
    THEN d
    ELSE IF Len(d.order) < DedupLimit
    THEN [seen |-> d.seen \cup {key}, order |-> Append(d.order, key), next |-> d.next]
    ELSE [seen |-> (d.seen \ {d.order[Len(d.order)]}) \cup {key},
          order |-> [d.order EXCEPT ![Len(d.order)] = key],
          next |-> d.next]

remember(d, key) ==
    IF DedupLimit = 0 \/ key \in d.seen
    THEN d
    ELSE IF Len(d.order) < DedupLimit
    THEN [seen |-> d.seen \cup {key}, order |-> Append(d.order, key), next |-> d.next]
    ELSE [seen |-> (d.seen \ {d.order[d.next + 1]}) \cup {key},
          order |-> [d.order EXCEPT ![d.next + 1] = key],
          next |-> (d.next + 1) % DedupLimit]

\* The keys from oldest to newest.
Ages(d) == [i \in 1 .. Len(d.order) |-> d.order[((d.next + i - 1) % Len(d.order)) + 1]]

\* The promise: a queue of at most DedupLimit keys, oldest out first.
Oldest(fifo, key) ==
    IF DedupLimit = 0 \/ \E i \in 1 .. Len(fifo) : fifo[i] = key THEN fifo
    ELSE IF Len(fifo) < DedupLimit THEN Append(fifo, key)
    ELSE Append(Tail(fifo), key)

\* Map and ring hold the same keys, each once, and no more than the limit.
RingConsistent(d) ==
    /\ d.order \in Seq(d.seen)
    /\ Len(d.order) <= DedupLimit
    /\ \A k \in d.seen : \E i \in 1 .. Len(d.order) : d.order[i] = k
    /\ \A i, j \in 1 .. Len(d.order) : d.order[i] = d.order[j] => i = j
    /\ d.next \in Nat
    /\ d.next < DedupLimit \/ d.next = 0
    /\ Len(d.order) < DedupLimit => d.next = 0
=============================================================================
