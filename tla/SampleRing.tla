----------------------------- MODULE SampleRing -----------------------------
(***************************************************************************)
(* The ring buffer the eBPF programs of one CPU write to, and the memory   *)
(* of its records (bpf/common_helpers.bpf.h, bpf/maps.bpf.h).  Memory is a *)
(* sequence of units; a reserved record holds what an earlier record left  *)
(* there, written "old", until the program stores to it.  Zeroed memory is *)
(* the empty sequence: userspace reads the fields as C strings.            *)
(***************************************************************************)
EXTENDS Integers, Sequences, FiniteSetsExt

CONSTANTS Units,      \* what text is made of
          Room,       \* records the ring holds
          FieldLen,   \* units in a text field of a record
          MaxEvents   \* bound: hooks that run

ASSUME RingAssumption ==
    /\ {Room, FieldLen, MaxEvents} \subseteq Nat \ {0}
    /\ {"NUL", "old", "over", "x", "M", "/"} \subseteq Units

Text == Seq(Units)

VARIABLES ring,    \* submitted samples, oldest first
          drops,   \* ringbuf_drop_count
          events   \* hooks that ran

ringVars == <<ring, drops, events>>

RingInit == ring = <<>> /\ drops = 0 /\ events = 0

First(S, otherwise) == IF S = {} THEN otherwise ELSE Min(S)
Least(a, b) == IF a < b THEN a ELSE b

reserved == [i \in 1 .. FieldLen |-> "old"]

\* Mutant: the record is not zeroed before partial writes.
leftAsItIs == reserved

zeroed == <<>>

(* Store text at the start of dst; what dst held behind it stays. *)
copy(dst, text) == text \o SubSeq(dst, Len(text) + 1, Len(dst))

(* What userspace sees of a field: up to the first NUL. *)
cString(field) ==
    SubSeq(field, 1, First({i \in DOMAIN field : field[i] = "NUL"}, Len(field) + 1) - 1)

Run == events' = events + 1

(* The program returns before it reserves a record. *)
skip == Run /\ UNCHANGED <<ring, drops>>

(* RESERVE_SAMPLE: without room, note_ringbuf_drop and return. *)
reserve_fails == Len(ring) = Room /\ drops' = drops + 1 /\ UNCHANGED ring

submit(sample) ==
    /\ Run
    /\ \/ reserve_fails
       \/ Len(ring) < Room /\ ring' = Append(ring, sample) /\ UNCHANGED drops

(* The record is given back when a read into it fails. *)
discard ==
    /\ Run
    /\ \/ reserve_fails
       \/ Len(ring) < Room /\ UNCHANGED <<ring, drops>>

(* Userspace reads a record and releases its memory. *)
Consume == ring # <<>> /\ ring' = Tail(ring) /\ UNCHANGED <<drops, events>>
=============================================================================
