------------------------ MODULE CaptureHooks_proofs ------------------------
(***************************************************************************)
(* What the samples of the capture programs hold, for every size of the    *)
(* fields and every input: each program appends at most one sample to the  *)
(* ring, and the sample it appends is good.  The programs search, cut and  *)
(* copy text, so the first lemmas are about least elements, induction over *)
(* positions and parts of sequences.                                       *)
(***************************************************************************)
EXTENDS CaptureHooks, TLAPS, WellFoundedInduction

(***************************************************************************)
(* Least elements and induction                                            *)
(***************************************************************************)

(* A nonempty set of positions has a first one. *)
LEMMA WellOrdered ==
  ASSUME NEW T, T \subseteq Nat, T # {}
  PROVE  \E x \in T : \A y \in T : x <= y
<1>1. IsWellFoundedOn(OpToRel(<, Nat), Nat)
  BY NatLessThanWellFounded
<1>2. PICK x \in T : \A y \in T : ~ (<<y, x>> \in OpToRel(<, Nat))
  BY <1>1, WFMin
<1>3. \A y \in T : ~ (y < x)
  BY <1>2, Zenon DEF OpToRel
<1> QED
  BY <1>3

(* First is the least element of a set of positions. *)
LEMMA FirstIs ==
  ASSUME NEW T, T \subseteq Nat, T # {}, NEW o
  PROVE  First(T, o) \in T /\ \A y \in T : First(T, o) <= y
<1>1. \E x \in T : \A y \in T : x <= y
  BY WellOrdered, Zenon
<1> QED
  BY <1>1, Zenon DEF First, Min

(* First of no position is the alternative. *)
LEMMA FirstOfNone ==
  ASSUME NEW o
  PROVE  First({}, o) = o
  BY DEF First

(* What is a least element is First. *)
LEMMA FirstUnique ==
  ASSUME NEW T, T \subseteq Nat, NEW n \in T, \A y \in T : n <= y, NEW o
  PROVE  First(T, o) = n
<1>1. PICK f : f = First(T, o)
  BY Zenon
<1>2. f \in T /\ f <= n
  BY <1>1, FirstIs, Zenon
<1>3. n <= f /\ f \in Nat /\ n \in Nat
  BY <1>2
<1> QED
  BY <1>1, <1>2, <1>3

(* A nonempty set of positions up to k has a last one. *)
LEMMA MaxIs ==
  ASSUME NEW k \in Nat, NEW T, T \subseteq 0 .. k, T # {}
  PROVE  Max(T) \in T
<1> DEFINE D == {k - m : m \in T}
<1>0. \A j \in T : j \in Nat /\ k - j \in Nat
  OBVIOUS
<1>1. D \subseteq Nat /\ D # {}
  BY <1>0, Zenon
<1>2. PICK x \in D : \A y \in D : x <= y
  BY <1>1, WellOrdered, Zenon
<1>3. PICK m \in T : x = k - m
  BY <1>2
<1>4. \A j \in T : k - j \in D
  OBVIOUS
<1>5. ASSUME NEW j \in T
      PROVE  m >= j
  <2>1. k - m <= k - j
    BY <1>2, <1>3, <1>4, Zenon
  <2> QED
    BY <1>0, <1>3, <2>1
<1>6. \E a \in T : \A j \in T : a >= j
  BY <1>5, Zenon
<1> QED
  BY <1>6, Zenon DEF Max

(* Induction over an interval, as closure of a set under the step. *)
LEMMA Induction ==
  ASSUME NEW m \in Int, NEW n \in Int, NEW T, m \in T,
         \A k \in m .. n - 1 : k \in T => k + 1 \in T
  PROVE  m .. n \subseteq T
<1> SUFFICES ASSUME NEW j \in m .. n, j \notin T
             PROVE  FALSE
  OBVIOUS
<1> DEFINE D == {d \in Nat : m + d \in m .. n /\ m + d \notin T}
<1>1. j - m \in D
  OBVIOUS
<1>2. PICK x \in D : \A y \in D : x <= y
  BY <1>1, WellOrdered, Zenon
<1>3. x # 0
  BY <1>2
<1>4. x - 1 \notin D
  BY <1>2
<1>5. m + (x - 1) \in T
  BY <1>2, <1>3, <1>4
<1>6. (m + (x - 1)) + 1 \in T
  BY <1>2, <1>3, <1>5
<1>7. (m + (x - 1)) + 1 = m + x
  BY <1>2
<1> QED
  BY <1>2, <1>6, <1>7

(* The steps F lead from V to V, and g is what they make of c. *)
StepsWithin(F, V, m, n) == \A i \in m + 1 .. n : \A v \in V : F[i][v] \in V
Iterates(g, F, c, V, m, n) ==
    g \in [m .. n -> V] /\ \A i \in m .. n : g[i] = IF i = m THEN c ELSE F[i][g[i - 1]]

(* A function defined by recursion over an interval exists. *)
LEMMA Recursion ==
  ASSUME NEW m \in Int, NEW n \in Int, m <= n, NEW V, NEW c \in V, NEW F, StepsWithin(F, V, m, n)
  PROVE  \E g : Iterates(g, F, c, V, m, n)
<1>0. \A i \in m + 1 .. n : \A v \in V : F[i][v] \in V
  BY Zenon DEF StepsWithin
<1> DEFINE Up(g, k) == \A i \in m .. k : g[i] = IF i = m THEN c ELSE F[i][g[i - 1]]
           T == {k \in m .. n : \E g \in [m .. k -> V] : Up(g, k)}
<1>1. m \in T
  <2> DEFINE g == [i \in m .. m |-> c]
  <2>1. g \in [m .. m -> V]
    OBVIOUS
  <2>2. Up(g, m)
    OBVIOUS
  <2>3. m \in m .. n
    OBVIOUS
  <2> QED
    BY <2>1, <2>2, <2>3, Zenon
<1>2. ASSUME NEW k \in m .. n - 1, k \in T
      PROVE  k + 1 \in T
  <2>1. PICK g \in [m .. k -> V] : Up(g, k)
    BY <1>2, Zenon
  <2> DEFINE h == [i \in m .. k + 1 |-> IF i = k + 1 THEN F[k + 1][g[k]] ELSE g[i]]
  <2>2. g[k] \in V /\ F[k + 1][g[k]] \in V /\ k + 1 \in m + 1 .. n
    BY <1>0
  <2>3. h \in [m .. k + 1 -> V]
    BY <2>2
  <2>4. h[k + 1] = F[k + 1][h[(k + 1) - 1]] /\ k + 1 # m
    BY <2>2
  <2>5. ASSUME NEW i \in m .. k
        PROVE  h[i] = IF i = m THEN c ELSE F[i][h[i - 1]]
    <3>1. h[i] = g[i]
      OBVIOUS
    <3>2. g[i] = IF i = m THEN c ELSE F[i][g[i - 1]]
      BY <2>1, Zenon
    <3>3. i # m => h[i - 1] = g[i - 1]
      OBVIOUS
    <3> HIDE DEF h
    <3> QED
      BY <3>1, <3>2, <3>3, Zenon
  <2>6. \A i \in m .. k + 1 : i = k + 1 \/ i \in m .. k
    OBVIOUS
  <2> HIDE DEF h
  <2>7. Up(h, k + 1)
    BY <2>4, <2>5, <2>6, Zenon
  <2>8. k + 1 \in m .. n
    OBVIOUS
  <2> QED
    BY <2>3, <2>7, <2>8, Zenon
<1>3. n \in m .. n
  OBVIOUS
<1> HIDE DEF Up
<1>4. \A k \in m .. n - 1 : k \in T => k + 1 \in T
  BY <1>2, Zenon
<1> HIDE DEF T
<1>5. n \in T
  BY <1>1, <1>4, <1>3, Induction, Zenon
<1> QED
  BY <1>5, Zenon DEF T, Up, Iterates

(***************************************************************************)
(* Parts of sequences                                                      *)
(***************************************************************************)

(* The length and the elements of a part of a text. *)
LEMMA SubSeqIs ==
  ASSUME NEW V, NEW t \in Seq(V), NEW a \in Nat \ {0}, NEW b \in Int, b <= Len(t)
  PROVE  /\ SubSeq(t, a, b) \in Seq(V)
         /\ Len(SubSeq(t, a, b)) = IF b >= a THEN b - a + 1 ELSE 0
         /\ \A i \in 1 .. b - a + 1 : SubSeq(t, a, b)[i] = t[i + a - 1]
  OBVIOUS

(* The elements of a sequence. *)
LEMMA ElementIs ==
  ASSUME NEW V, NEW s \in Seq(V), NEW i \in 1 .. Len(s)
  PROVE  s[i] \in V
  OBVIOUS

(* Two texts with the same elements are the same. *)
LEMMA SameSeq ==
  ASSUME NEW V, NEW W, NEW s \in Seq(V), NEW t \in Seq(W), Len(s) = Len(t),
         \A i \in 1 .. Len(s) : s[i] = t[i]
  PROVE  s = t
  OBVIOUS

(* One text after another. *)
Joins(r, s, t) ==
    /\ Len(r) = Len(s) + Len(t) /\ DOMAIN r = 1 .. Len(s) + Len(t)
    /\ \A i \in 1 .. Len(s) : r[i] = s[i]
    /\ \A i \in 1 .. Len(t) : r[Len(s) + i] = t[i]

LEMMA ConcatIs ==
  ASSUME NEW V, NEW s \in Seq(V), NEW t \in Seq(V), NEW r, r = s \o t
  PROVE  r \in Seq(V) /\ Joins(r, s, t)
<1>1. r \in Seq(V) /\ Len(r) = Len(s) + Len(t) /\ Len(s) \in Nat /\ Len(t) \in Nat
  OBVIOUS
<1>2. DOMAIN r = 1 .. Len(s) + Len(t)
  BY <1>1
<1>3. \A i \in 1 .. Len(s) : r[i] = s[i]
  OBVIOUS
<1>4. \A i \in 1 .. Len(t) : r[Len(s) + i] = t[i]
  OBVIOUS
<1> QED
  BY <1>1, <1>2, <1>3, <1>4, Zenon DEF Joins

(* A part that is the whole. *)
LEMMA WholeSubSeq ==
  ASSUME NEW V, NEW t \in Seq(V)
  PROVE  SubSeq(t, 1, Len(t)) = t
<1>1. SubSeq(t, 1, Len(t)) \in Seq(V) /\ Len(SubSeq(t, 1, Len(t))) = Len(t)
  BY SubSeqIs
<1>2. \A i \in 1 .. Len(t) : SubSeq(t, 1, Len(t))[i] = t[i]
  OBVIOUS
<1> QED
  BY <1>1, <1>2, SameSeq

(* What is written over a field starts with the text. *)
LEMMA CopyIs ==
  ASSUME NEW V, NEW dst \in Seq(V), NEW t \in Seq(V)
  PROVE  /\ copy(dst, t) \in Seq(V)
         /\ Len(copy(dst, t)) = IF Len(dst) >= Len(t) THEN Len(dst) ELSE Len(t)
         /\ \A i \in 1 .. Len(t) : copy(dst, t)[i] = t[i]
<1> DEFINE r == SubSeq(dst, Len(t) + 1, Len(dst))
<1>1. /\ r \in Seq(V)
      /\ Len(r) = IF Len(dst) >= Len(t) + 1 THEN Len(dst) - Len(t) ELSE 0
  BY SubSeqIs
<1> HIDE DEF r
<1>2. t \o r \in Seq(V) /\ Len(t \o r) = Len(t) + Len(r) /\ \A i \in 1 .. Len(t) : (t \o r)[i] = t[i]
  BY <1>1, SMTT(30)
<1>3. copy(dst, t) = t \o r
  BY DEF copy, r
<1>4. Len(t \o r) = IF Len(dst) >= Len(t) THEN Len(dst) ELSE Len(t)
  BY <1>1, <1>2
<1> QED
  BY <1>2, <1>3, <1>4, Zenon

(* A text written to zeroed memory is what userspace reads. *)
LEMMA CopyToZeroed ==
  ASSUME NEW V, NEW t \in Seq(V)
  PROVE  copy(zeroed, t) = t
<1>1. zeroed \in Seq(V) /\ Len(zeroed) = 0
  BY DEF zeroed
<1>2. PICK d : d = copy(zeroed, t)
  BY Zenon
<1>3. /\ d \in Seq(V) /\ Len(d) = IF Len(zeroed) >= Len(t) THEN Len(zeroed) ELSE Len(t)
      /\ \A i \in 1 .. Len(t) : d[i] = t[i]
  BY <1>1, <1>2, CopyIs, Zenon
<1>4. Len(d) = Len(t)
  BY <1>1, <1>3
<1>5. d = t
  BY <1>3, <1>4, SameSeq, Zenon
<1> QED
  BY <1>2, <1>5

(***************************************************************************)
(* The ring                                                                *)
(***************************************************************************)

(* What the properties ask of one sample. *)
Good(s) ==
    /\ s.kind = "http" => <<s.method, s.path, s.host>> = ExpectedFields(s.tap, s.of)
    /\ s.kind \notin {"http", "dns"} =>
         \A j \in DOMAIN s.parts : CompletePart(s.parts[j]) \/ (s.kind \in {"symlink", "exec"} /\ j = 2)
    /\ s.kind = "dns" => LogicalPayload(s.payload, s.of.segs)
    /\ Visible(s) \cap Private = {}

RingTyped == (\E V : ring \in Seq(V)) /\ drops \in Nat /\ events \in Nat
RingGood == \A i \in DOMAIN ring : Good(ring[i])
RingBounded == Len(ring) <= Room /\ Len(ring) + drops <= events
RingInv == RingTyped /\ RingGood /\ RingBounded

(* A program that returns early leaves the ring as it is. *)
LEMMA SkipKeeps ==
  ASSUME RingInv, skip
  PROVE  RingInv'
<1>1. UNCHANGED <<ring, drops>> /\ events' = events + 1
  BY Zenon DEF skip, Run
<1>2. PICK V : ring \in Seq(V)
  BY Zenon DEF RingInv, RingTyped
<1>3. drops \in Nat /\ events \in Nat /\ Len(ring) + drops <= events
  BY Zenon DEF RingInv, RingTyped, RingBounded
<1>4. events' \in Nat /\ Len(ring) + drops <= events'
  BY <1>1, <1>2, <1>3
<1>5. RingTyped'
  BY <1>1, <1>2, <1>3, <1>4, Zenon DEF RingTyped
<1>6. RingGood'
  BY <1>1 DEF RingInv, RingGood
<1>7. RingBounded'
  BY <1>1, <1>4 DEF RingInv, RingBounded
<1> QED
  BY <1>5, <1>6, <1>7, Zenon DEF RingInv

(* A program without room counts a drop. *)
LEMMA DropKeeps ==
  ASSUME RingInv, Run, reserve_fails
  PROVE  RingInv'
<1>1. ring' = ring /\ drops' = drops + 1 /\ events' = events + 1
  BY Zenon DEF reserve_fails, Run
<1>2. PICK V : ring \in Seq(V)
  BY Zenon DEF RingInv, RingTyped
<1>3. drops \in Nat /\ events \in Nat /\ Len(ring) + drops <= events
  BY Zenon DEF RingInv, RingTyped, RingBounded
<1>4. events' \in Nat /\ drops' \in Nat /\ Len(ring) + drops' <= events'
  BY <1>1, <1>2, <1>3
<1>5. RingTyped'
  BY <1>1, <1>2, <1>4, Zenon DEF RingTyped
<1>6. RingGood'
  BY <1>1 DEF RingInv, RingGood
<1>7. RingBounded'
  BY <1>1, <1>4 DEF RingInv, RingBounded
<1> QED
  BY <1>5, <1>6, <1>7, Zenon DEF RingInv

(* A record that is given back is no record, and no drop. *)
LEMMA DiscardKeeps ==
  ASSUME RingInv, discard
  PROVE  RingInv'
<1>1. Run /\ (reserve_fails \/ UNCHANGED <<ring, drops>>)
  BY Zenon DEF discard
<1>2. CASE reserve_fails
  BY <1>1, <1>2, DropKeeps, Zenon
<1>3. CASE UNCHANGED <<ring, drops>>
  <2>1. skip
    BY <1>1, <1>3, Zenon DEF skip
  <2> QED
    BY <2>1, SkipKeeps, Zenon
<1> QED
  BY <1>1, <1>2, <1>3, Zenon

(* A good sample keeps the ring good, and in its bounds. *)
LEMMA SubmitKeeps ==
  ASSUME RingInv, NEW s, Good(s), submit(s)
  PROVE  RingInv'
<1>1. Run /\ (reserve_fails \/ (Len(ring) < Room /\ ring' = Append(ring, s) /\ UNCHANGED drops))
  BY Zenon DEF submit
<1>2. CASE reserve_fails
  BY <1>1, <1>2, DropKeeps, Zenon
<1>3. CASE Len(ring) < Room /\ ring' = Append(ring, s) /\ UNCHANGED drops
  <2>1. PICK V : ring \in Seq(V)
    BY Zenon DEF RingInv, RingTyped
  <2>2. drops \in Nat /\ events \in Nat /\ Len(ring) + drops <= events
    BY Zenon DEF RingInv, RingTyped, RingBounded
  <2>3. ring \in Seq(V \cup {s})
    BY <2>1
  <2>4. /\ ring' \in Seq(V \cup {s}) /\ Len(ring') = Len(ring) + 1
        /\ \A i \in 1 .. Len(ring) : ring'[i] = ring[i]
        /\ ring'[Len(ring) + 1] = s
        /\ DOMAIN ring' = 1 .. Len(ring) + 1 /\ DOMAIN ring = 1 .. Len(ring)
    BY <1>3, <2>3
  <2>5. events' \in Nat /\ drops' \in Nat /\ Len(ring') + drops' <= events' /\ Len(ring') <= Room
    BY <1>1, <1>3, <2>1, <2>2, <2>4, RingAssumption DEF Run
  <2>6. RingTyped'
    BY <2>4, <2>5, Zenon DEF RingTyped
  <2>7. \A i \in 1 .. Len(ring) + 1 : i \in 1 .. Len(ring) \/ i = Len(ring) + 1
    BY <2>1
  <2>8. \A i \in DOMAIN ring : Good(ring[i])
    BY Zenon DEF RingInv, RingGood
  <2>9. \A i \in DOMAIN ring' : Good(ring'[i])
    BY <2>4, <2>7, <2>8, Zenon
  <2>10. RingBounded'
    BY <2>5 DEF RingBounded
  <2>11. RingGood'
    BY <2>9 DEF RingGood, Good, CompletePart, Visible
  <2> QED
    BY <2>6, <2>10, <2>11, Zenon DEF RingInv
<1> QED
  BY <1>1, <1>2, <1>3, Zenon

(* Userspace only takes samples away. *)
LEMMA ConsumeKeeps ==
  ASSUME RingInv, Consume
  PROVE  RingInv'
<1>1. PICK V : ring \in Seq(V)
  BY Zenon DEF RingInv, RingTyped
<1>2. ring # <<>> /\ ring' = Tail(ring) /\ drops' = drops /\ events' = events
  BY Zenon DEF Consume
<1>3. drops \in Nat /\ events \in Nat /\ Len(ring) + drops <= events /\ Len(ring) <= Room
  BY Zenon DEF RingInv, RingTyped, RingBounded
<1>4. /\ ring' \in Seq(V) /\ Len(ring') = Len(ring) - 1
      /\ DOMAIN ring' = 1 .. Len(ring) - 1 /\ DOMAIN ring = 1 .. Len(ring)
      /\ \A i \in 1 .. Len(ring) - 1 : ring'[i] = ring[i + 1] /\ i + 1 \in 1 .. Len(ring)
  BY <1>1, <1>2
<1>5. RingTyped'
  BY <1>2, <1>3, <1>4, Zenon DEF RingTyped
<1>6. \A i \in DOMAIN ring : Good(ring[i])
  BY Zenon DEF RingInv, RingGood
<1>7. \A i \in DOMAIN ring' : Good(ring'[i])
  BY <1>4, <1>6, Zenon
<1>8. RingGood'
  BY <1>7 DEF RingGood, Good, CompletePart, Visible
<1>9. Len(ring') <= Room /\ Len(ring') + drops' <= events'
  BY <1>1, <1>2, <1>3, <1>4, RingAssumption
<1>10. RingBounded'
  BY <1>9 DEF RingBounded
<1> QED
  BY <1>5, <1>8, <1>10, Zenon DEF RingInv

(***************************************************************************)
(* The HTTP/1 parse                                                        *)
(***************************************************************************)

Scratch == [prefix : Seq(Units), data_len : Nat, line_end : Nat, path_n : Nat,
            have_host : BOOLEAN, host_val : Nat, host_n : Nat]

(* The scratch map between two programs: the offsets of the last parse are *)
(* inside the prefix.                                                      *)
ScratchFits(s) ==
    /\ s \in Scratch /\ Len(s.prefix) = PrefixLen
    /\ s.data_len <= PrefixLen /\ s.path_n <= PrefixLen
    /\ s.have_host => s.host_val > 0 /\ s.host_val + s.host_n <= s.data_len

(* The text t is what the scratch map s holds. *)
Holds(s, t) ==
    /\ t \in Seq(Units) /\ s \in Scratch /\ s.data_len = Len(t)
    /\ Len(t) <= PrefixLen /\ Len(s.prefix) = PrefixLen
    /\ \A i \in 1 .. Len(t) : s.prefix[i] = t[i]

(* The request target of t ends before e: at the first space, with no      *)
(* control character or line break before it, or at the end of the data.   *)
TargetEnds(t, e) ==
    /\ Len(t) \in Nat /\ Len(t) > 2 /\ t[1] = "M" /\ t[2] = "/" /\ e \in 3 .. Len(t) + 1
    /\ \A i \in 2 .. e - 1 : t[i] \notin {"SP", "CTL", "CRLF", "LF", "NUL"}
    /\ e <= Len(t) => t[e] = "SP"

(* A line that starts with Host:, and the end of the headers. *)
HostLine(t, h) == t[h - 1] = "CRLF" /\ t[h] = "H"
HeadersEnd(t, i) == t[i] = "CRLF" /\ t[i + 1] = "CRLF"

HostsAreBehind(t) == \A h \in 2 .. Len(t) : HostLine(t, h) => \E i \in 1 .. h - 2 : HeadersEnd(t, i)

FirstHostLine(t, h) ==
    /\ h \in 2 .. Len(t) /\ HostLine(t, h)
    /\ \A k \in 2 .. Len(t) : HostLine(t, k) => h <= k
    /\ \A i \in 1 .. h - 2 : ~HeadersEnd(t, i)

(* The host the scratch map points at is that of the text. *)
HostParsed(s, t) ==
    \/ s.have_host = FALSE /\ CompleteHost(t) = <<>>
    \/ /\ s.have_host = TRUE /\ s.host_val > 0 /\ s.host_val + s.host_n <= Len(t)
       /\ CompleteHost(t) = SubSeq(t, s.host_val, s.host_val + s.host_n - 1)

(* The smaller of two lengths. *)
LEMMA LeastIs ==
  ASSUME NEW a \in Nat, NEW b \in Nat
  PROVE  Least(a, b) \in Nat /\ Least(a, b) <= a /\ Least(a, b) <= b /\ Least(a, b) \in {a, b}
  BY DEF Least

(* Sizes, from the assumptions. *)
LEMMA Sizes ==
  /\ PrefixLen \in Nat /\ FieldLen \in Nat /\ MinRequestLine \in Nat
  /\ PrefixLen <= FieldLen /\ MinRequestLine > 2 /\ FieldLen > 0
  BY RingAssumption, HttpAssumption

(* The part of a text that is captured. *)
LEMMA CutIs ==
  ASSUME NEW text \in Seq(Units)
  PROVE  /\ Least(Len(text), PrefixLen) \in Nat
         /\ Least(Len(text), PrefixLen) <= Len(text) /\ Least(Len(text), PrefixLen) <= PrefixLen
         /\ SubSeq(text, 1, Least(Len(text), PrefixLen)) \in Seq(Units)
         /\ Len(SubSeq(text, 1, Least(Len(text), PrefixLen))) = Least(Len(text), PrefixLen)
         /\ \A i \in 1 .. Least(Len(text), PrefixLen) :
              SubSeq(text, 1, Least(Len(text), PrefixLen))[i] = text[i]
<1>1. PICK n : n = Least(Len(text), PrefixLen)
  BY Zenon
<1>2. Len(text) \in Nat
  OBVIOUS
<1>3. n \in Nat /\ n <= Len(text) /\ n <= PrefixLen
  BY <1>1, <1>2, Sizes, LeastIs
<1>4. /\ SubSeq(text, 1, n) \in Seq(Units) /\ Len(SubSeq(text, 1, n)) = n
      /\ \A i \in 1 .. n : SubSeq(text, 1, n)[i] = text[i]
  BY <1>3
<1> QED
  BY <1>1, <1>3, <1>4, Zenon

(* The capture leaves its own text in the scratch map, and no host. *)
LEMMA CaptureHolds ==
  ASSUME NEW s, ScratchFits(s), NEW text \in Seq(Units)
  PROVE  /\ Holds(http_capture_user_buffer(s, text), SubSeq(text, 1, Least(Len(text), PrefixLen)))
         /\ ScratchFits(http_capture_user_buffer(s, text))
         /\ http_capture_user_buffer(s, text).have_host = FALSE
<1>1. PICK t : t = SubSeq(text, 1, Least(Len(text), PrefixLen))
  BY Zenon
<1>2. t \in Seq(Units) /\ Len(t) = Least(Len(text), PrefixLen) /\ Len(t) \in Nat /\ Len(t) <= PrefixLen
  BY <1>1, CutIs
<1>3. s \in Scratch /\ s.prefix \in Seq(Units) /\ Len(s.prefix) = PrefixLen
  BY DEF ScratchFits, Scratch
<1>4. PICK p : p = copy(s.prefix, t)
  BY Zenon
<1>5. /\ p \in Seq(Units) /\ \A i \in 1 .. Len(t) : p[i] = t[i]
      /\ Len(p) = IF Len(s.prefix) >= Len(t) THEN Len(s.prefix) ELSE Len(t)
  BY <1>2, <1>3, <1>4, CopyIs, Zenon
<1>6. Len(p) = PrefixLen
  BY <1>2, <1>3, <1>5, Sizes
<1>7. PICK c : c = http_capture_user_buffer(s, text)
  BY Zenon
<1>8. c = [s EXCEPT !.prefix = p, !.data_len = Len(t), !.have_host = FALSE, !.host_val = 0, !.host_n = 0]
  BY <1>1, <1>2, <1>4, <1>7, Zenon DEF http_capture_user_buffer
<1>9. /\ c \in Scratch /\ c.prefix = p /\ c.data_len = Len(t) /\ c.have_host = FALSE
      /\ c.path_n = s.path_n
  BY <1>2, <1>3, <1>5, <1>8, Zenon DEF Scratch
<1>10. Holds(c, t)
  BY <1>2, <1>5, <1>6, <1>9, Zenon DEF Holds
<1>11. ScratchFits(c)
  BY <1>2, <1>6, <1>9 DEF ScratchFits
<1> QED
  BY <1>1, <1>7, <1>9, <1>10, <1>11, Zenon

(* A capture that faults clears part of the prefix, and no offset. *)
LEMMA FaultFits ==
  ASSUME NEW s, ScratchFits(s), NEW text \in Seq(Units)
  PROVE  ScratchFits(captureFaults(s, text))
<1>0. PICK n : n = Least(Len(text), PrefixLen)
  BY Zenon
<1>1. PICK t : t = [i \in 1 .. n |-> "NUL"]
  BY Zenon
<1>2. n \in Nat /\ n <= PrefixLen
  BY <1>0, CutIs, Zenon
<1>3. t \in Seq(Units) /\ Len(t) <= PrefixLen /\ Len(t) \in Nat
  <2>0. "NUL" \in Units
    BY RingAssumption
  <2>1. t \in [1 .. n -> Units]
    BY <1>1, <2>0, Zenon
  <2>2. t \in Seq(Units) /\ Len(t) = n
    BY <1>2, <2>1
  <2> QED
    BY <1>2, <2>2
<1>4. s \in Scratch /\ s.prefix \in Seq(Units) /\ Len(s.prefix) = PrefixLen
  BY DEF ScratchFits, Scratch
<1>5. PICK p : p = copy(s.prefix, t)
  BY Zenon
<1>6. p \in Seq(Units) /\ Len(p) = IF Len(s.prefix) >= Len(t) THEN Len(s.prefix) ELSE Len(t)
  BY <1>3, <1>4, <1>5, CopyIs, Zenon
<1>7. Len(p) = PrefixLen
  BY <1>3, <1>4, <1>6, Sizes
<1>8. PICK c : c = captureFaults(s, text)
  BY Zenon
<1>9. c = [s EXCEPT !.prefix = p]
  BY <1>0, <1>1, <1>5, <1>8, Zenon DEF captureFaults
<1>10. /\ c \in Scratch /\ c.prefix = p /\ c.data_len = s.data_len /\ c.path_n = s.path_n
       /\ c.have_host = s.have_host /\ c.host_val = s.host_val /\ c.host_n = s.host_n
  BY <1>4, <1>6, <1>9, Zenon DEF Scratch
<1>11. ScratchFits(c)
  BY <1>7, <1>10, Zenon DEF ScratchFits
<1> QED
  BY <1>8, <1>11, Zenon

(* The scan of the request line finds the end of the target. *)
LEMMA LineEnd ==
  ASSUME NEW s, NEW t, Holds(s, t), http_step_reqline_ok(s)
  PROVE  TargetEnds(t, http_line_end(s))
<1>1. PICK e : e = http_line_end(s)
  BY Zenon
<1>2. /\ t \in Seq(Units) /\ s.data_len = Len(t)
      /\ \A i \in 1 .. Len(t) : s.prefix[i] = t[i]
  BY Zenon DEF Holds
<1>3. Len(t) \in Nat
  BY <1>2
<1>4. /\ Len(t) >= MinRequestLine /\ http_method_len(s.prefix) > 0 /\ s.prefix[2] = "/"
      /\ e <= Len(t) => s.prefix[e] = "SP"
  BY <1>1, <1>2, Zenon DEF http_step_reqline_ok
<1>5. Len(t) > 2
  BY <1>3, <1>4, Sizes
<1>6. s.prefix[1] = "M"
  BY <1>4 DEF http_method_len
<1>7. t[1] = "M" /\ t[2] = "/"
  BY <1>2, <1>3, <1>4, <1>5, <1>6
<1> DEFINE T == {i \in 2 .. Len(t) : t[i] \in {"SP", "CTL", "CRLF", "LF", "NUL"}}
<1>8. T = {i \in 2 .. s.data_len : s.prefix[i] \in {"SP", "CTL", "CRLF", "LF", "NUL"}}
  BY <1>2, <1>3
<1>9. e = First(T, Len(t) + 1)
  BY <1>1, <1>2, <1>8, Zenon DEF http_line_end
<1>10. T \subseteq Nat
  OBVIOUS
<1>11. CASE T = {}
  <2>1. e = Len(t) + 1
    BY <1>9, <1>11, FirstOfNone, Zenon
  <2>2. \A i \in 2 .. e - 1 : t[i] \notin {"SP", "CTL", "CRLF", "LF", "NUL"}
    BY <1>3, <1>11, <2>1
  <2>3. e \in 3 .. Len(t) + 1 /\ ~(e <= Len(t))
    BY <1>3, <1>5, <2>1
  <2> QED
    BY <1>1, <1>3, <1>5, <1>7, <2>2, <2>3, Zenon DEF TargetEnds
<1>12. CASE T # {}
  <2>1. e \in T /\ \A y \in T : e <= y
    BY <1>9, <1>10, <1>12, FirstIs, Zenon
  <2>2. e # 2
    BY <1>7, <2>1
  <2>3. e \in 3 .. Len(t) + 1 /\ e \in 1 .. Len(t)
    BY <1>3, <2>1, <2>2
  <2>4. \A i \in 2 .. e - 1 : i \in 2 .. Len(t) /\ i \notin T
    BY <1>3, <2>1, <2>3
  <2>5. \A i \in 2 .. e - 1 : t[i] \notin {"SP", "CTL", "CRLF", "LF", "NUL"}
    BY <2>4, Zenon
  <2>6. e <= Len(t) => t[e] = "SP"
    BY <1>2, <1>4, <2>3, Zenon
  <2> QED
    BY <1>1, <1>3, <1>5, <1>7, <2>3, <2>5, <2>6, Zenon DEF TargetEnds
<1> QED
  BY <1>11, <1>12, Zenon

(* The text up to the first of some units. *)
LEMMA UntilIs ==
  ASSUME NEW t \in Seq(Units), NEW from \in Nat \ {0}, NEW stops, NEW u \in from .. Len(t) + 1,
         \A i \in from .. u - 1 : t[i] \notin stops, u <= Len(t) => t[u] \in stops
  PROVE  Until(t, from, stops) = SubSeq(t, from, u - 1)
<1> DEFINE T == {i \in from .. Len(t) : t[i] \in stops}
<1>1. Until(t, from, stops) = SubSeq(t, from, First(T, Len(t) + 1) - 1)
  BY Zenon DEF Until
<1>2. Len(t) \in Nat /\ T \subseteq Nat
  OBVIOUS
<1>3. \A y \in T : ~(y \in from .. u - 1)
  BY Zenon
<1>4. \A y \in T : u <= y
  BY <1>2, <1>3
<1>5. CASE u <= Len(t)
  <2>1. u \in T
    BY <1>5
  <2>2. First(T, Len(t) + 1) = u
    BY <1>2, <1>4, <2>1, FirstUnique, Zenon
  <2> QED
    BY <1>1, <2>2, Zenon
<1>6. CASE ~(u <= Len(t))
  <2>1. u = Len(t) + 1
    BY <1>2, <1>6
  <2>2. T = {}
    BY <1>2, <1>4, <2>1
  <2>3. First(T, Len(t) + 1) = u
    BY <2>1, <2>2, FirstOfNone, Zenon
  <2> QED
    BY <1>1, <2>3, Zenon
<1> QED
  BY <1>5, <1>6, Zenon

(* A field copied out of the scratch map is a part of the text it holds. *)
LEMMA FieldIs ==
  ASSUME NEW s, NEW t, Holds(s, t), NEW a \in Nat \ {0}, NEW b \in Nat, b <= Len(t)
  PROVE  SubSeq(s.prefix, a, b) = SubSeq(t, a, b)
<1>1. /\ t \in Seq(Units) /\ Len(t) <= PrefixLen /\ Len(s.prefix) = PrefixLen /\ s \in Scratch
      /\ \A i \in 1 .. Len(t) : s.prefix[i] = t[i]
  BY Zenon DEF Holds
<1>2. PICK p : p = s.prefix
  BY Zenon
<1>3. p \in Seq(Units)
  BY <1>1, <1>2 DEF Scratch
<1>4. b <= Len(p)
  BY <1>1, <1>2, <1>3, Sizes
<1>5. /\ SubSeq(p, a, b) \in Seq(Units)
      /\ Len(SubSeq(p, a, b)) = IF b >= a THEN b - a + 1 ELSE 0
      /\ \A i \in 1 .. b - a + 1 : SubSeq(p, a, b)[i] = p[i + a - 1]
  BY <1>3, <1>4, SubSeqIs
<1>6. /\ SubSeq(t, a, b) \in Seq(Units)
      /\ Len(SubSeq(t, a, b)) = IF b >= a THEN b - a + 1 ELSE 0
      /\ \A i \in 1 .. b - a + 1 : SubSeq(t, a, b)[i] = t[i + a - 1]
  BY <1>1, SubSeqIs
<1>7. PICK x, y : x = SubSeq(p, a, b) /\ y = SubSeq(t, a, b)
  BY Zenon
<1>8. Len(x) = Len(y)
  BY <1>5, <1>6, <1>7, Zenon
<1>9. \A i \in 1 .. Len(x) : i \in 1 .. b - a + 1 /\ i + a - 1 \in 1 .. Len(t)
  BY <1>1, <1>5, <1>7
<1>10. \A i \in 1 .. Len(x) : x[i] = y[i]
  BY <1>1, <1>2, <1>5, <1>6, <1>7, <1>9, Zenon
<1>11. x = y
  BY <1>5, <1>6, <1>7, <1>8, <1>10, SameSeq, Zenon
<1> QED
  BY <1>2, <1>7, <1>11, Zenon

(* The path of the sample is the target up to the query. *)
LEMMA PathIs ==
  ASSUME NEW s, NEW t, Holds(s, t), NEW e, TargetEnds(t, e), s.line_end = e
  PROVE  \E q \in 2 .. Len(t) + 1 :
           /\ http_step_path(s) = [s EXCEPT !.path_n = q - 2]
           /\ Until(t, 2, {"?", "SP"}) = SubSeq(t, 2, q - 1)
<1>1. /\ t \in Seq(Units) /\ s.data_len = Len(t) /\ Len(t) <= PrefixLen
      /\ \A i \in 1 .. Len(t) : s.prefix[i] = t[i]
  BY Zenon DEF Holds
<1>2. /\ Len(t) \in Nat /\ e \in 3 .. Len(t) + 1
      /\ \A i \in 2 .. e - 1 : t[i] \notin {"SP", "CTL", "CRLF", "LF", "NUL"}
      /\ e <= Len(t) => t[e] = "SP"
  BY Zenon DEF TargetEnds
<1> DEFINE T == {i \in 2 .. e - 1 : t[i] = "?"}
<1>3. T = {i \in 2 .. s.line_end - 1 : s.prefix[i] = "?"}
  BY <1>1, <1>2
<1>4. PICK q : q = First(T, e)
  BY Zenon
<1>5. T \subseteq Nat
  BY <1>2
<1>6. q \in 2 .. e /\ (\A i \in 2 .. q - 1 : t[i] # "?") /\ (q # e => t[q] = "?")
  <2>1. CASE T = {}
    <3>1. q = e
      BY <1>4, <2>1, FirstOfNone, Zenon
    <3>2. \A i \in 2 .. e - 1 : t[i] # "?"
      BY <2>1, Zenon
    <3>3. e \in 2 .. e
      BY <1>2
    <3> QED
      BY <3>1, <3>2, <3>3, Zenon
  <2>2. CASE T # {}
    <3>1. q \in T /\ \A y \in T : q <= y
      BY <1>4, <1>5, <2>2, FirstIs, Zenon
    <3>2. q \in 2 .. e - 1 /\ t[q] = "?"
      BY <3>1, Zenon
    <3>3. \A i \in 2 .. q - 1 : i \in 2 .. e - 1 /\ i \notin T
      BY <1>2, <3>1, <3>2
    <3>4. \A i \in 2 .. q - 1 : t[i] # "?"
      BY <3>3, Zenon
    <3>5. q \in 2 .. e
      BY <1>2, <3>2
    <3> QED
      BY <3>2, <3>4, <3>5, Zenon
  <2> QED
    BY <2>1, <2>2, Zenon
<1>7. q \in 2 .. Len(t) + 1
  BY <1>2, <1>6
<1>8. Least(q - 2, FieldLen - 1) = q - 2
  BY <1>1, <1>2, <1>7, Sizes DEF Least
<1>9. http_step_path(s) = [s EXCEPT !.path_n = q - 2]
  BY <1>3, <1>4, <1>8, Zenon DEF http_step_path
<1>10. \A i \in 2 .. q - 1 : i \in 2 .. e - 1
  BY <1>2, <1>6
<1>11. \A i \in 2 .. q - 1 : t[i] \notin {"?", "SP"}
  BY <1>2, <1>6, <1>10, Zenon
<1>12. q <= Len(t) => t[q] \in {"?", "SP"}
  BY <1>2, <1>6, Zenon
<1> HIDE DEF T
<1>13. Until(t, 2, {"?", "SP"}) = SubSeq(t, 2, q - 1)
  <2>1. PICK two, stops : two = 2 /\ stops = {"?", "SP"}
    BY Zenon
  <2>2. two \in Nat \ {0} /\ q \in two .. Len(t) + 1
    BY <1>7, <2>1
  <2>3. (\A i \in two .. q - 1 : t[i] \notin stops) /\ (q <= Len(t) => t[q] \in stops)
    BY <1>11, <1>12, <2>1, Zenon
  <2>4. Until(t, two, stops) = SubSeq(t, two, q - 1)
    BY <1>1, <2>2, <2>3, UntilIs, Zenon
  <2> QED
    BY <2>1, <2>4, Zenon
<1> QED
  BY <1>7, <1>9, <1>13, Zenon

(* The search for the host finds the first host line, if it is before the  *)
(* end of the headers.                                                     *)
LEMMA HostFindIs ==
  ASSUME NEW s, NEW t, Holds(s, t), NEW e, TargetEnds(t, e), s.line_end = e
  PROVE  \/ http_step_hostfind(s) = s /\ HostsAreBehind(t)
         \/ \E h : /\ FirstHostLine(t, h)
                   /\ http_step_hostfind(s) = [s EXCEPT !.host_val = h + 1, !.have_host = TRUE]
<1>1. /\ t \in Seq(Units) /\ s.data_len = Len(t)
      /\ \A i \in 1 .. Len(t) : s.prefix[i] = t[i]
  BY Zenon DEF Holds
<1>2. /\ Len(t) \in Nat /\ Len(t) > 2 /\ t[1] = "M" /\ e \in 3 .. Len(t) + 1
      /\ \A i \in 2 .. e - 1 : t[i] \notin {"SP", "CTL", "CRLF", "LF", "NUL"}
      /\ e <= Len(t) => t[e] = "SP"
  BY Zenon DEF TargetEnds
<1>3. PICK from : from = Least(e, Len(t)) + 1
  BY Zenon
<1>4. from \in Nat /\ from > 0 /\ from = IF e < Len(t) THEN e + 1 ELSE Len(t) + 1
  BY <1>2, <1>3 DEF Least
<1>5. ASSUME NEW i \in 1 .. Len(t) - 1, t[i] = "CRLF"
      PROVE  i \in from .. Len(t) - 1
  <2>1. i # 1
    BY <1>2, <1>5
  <2>2. ~(i \in 2 .. e - 1)
    BY <1>2, <1>5, Zenon
  <2>3. ~(e <= Len(t) /\ i = e)
    BY <1>2, <1>5
  <2> QED
    BY <1>2, <1>4, <2>1, <2>2, <2>3
<1> DEFINE P == {i \in from .. Len(t) - 1 : t[i] = "CRLF" /\ t[i + 1] \in {"CRLF", "H"}}
<1>6. P = {i \in from .. s.data_len - 1 : s.prefix[i] = "CRLF" /\ s.prefix[i + 1] \in {"CRLF", "H"}}
  <2>1. \A i \in from .. Len(t) - 1 : i \in 1 .. Len(t) /\ i + 1 \in 1 .. Len(t)
    BY <1>2, <1>4
  <2>2. \A i \in from .. Len(t) - 1 : s.prefix[i] = t[i] /\ s.prefix[i + 1] = t[i + 1]
    BY <1>1, <2>1, Zenon
  <2> QED
    BY <1>1, <2>2
<1>7. P \subseteq Nat
  BY <1>4
<1>8. \A i \in P : i \in 1 .. Len(t) - 1 /\ i > 0 /\ t[i] = "CRLF" /\ t[i + 1] \in {"CRLF", "H"}
  BY <1>4
<1>9. \A i \in 1 .. Len(t) - 1 : t[i] = "CRLF" /\ t[i + 1] \in {"CRLF", "H"} => i \in P
  BY <1>5, Zenon
<1>10. PICK p : p = First(P, 0)
  BY Zenon
<1>11. http_step_hostfind(s) = IF p > 0 /\ s.prefix[p + 1] = "H"
                               THEN [s EXCEPT !.host_val = p + 2, !.have_host = TRUE] ELSE s
  <2>1. Least(s.line_end, s.data_len) + 1 = from
    BY <1>1, <1>3, Zenon
  <2>2. PICK Q : Q = {i \in from .. s.data_len - 1 :
                        s.prefix[i] = "CRLF" /\ s.prefix[i + 1] \in {"CRLF", "H"}}
    BY Zenon
  <2>3. p = First(Q, 0)
    BY <1>6, <1>10, <2>2, Zenon
  <2> HIDE DEF P
  <2> QED
    BY <2>1, <2>2, <2>3, Zenon DEF http_step_hostfind
<1> HIDE DEF P
<1>12. ASSUME NEW h \in 2 .. Len(t), HostLine(t, h)
       PROVE  h - 1 \in P
  <2>1. t[h - 1] = "CRLF" /\ t[(h - 1) + 1] \in {"CRLF", "H"} /\ h - 1 \in 1 .. Len(t) - 1
    BY <1>2, <1>12 DEF HostLine
  <2> QED
    BY <1>9, <2>1, Zenon
<1>13. CASE P = {}
  <2>1. p = 0
    BY <1>10, <1>13, FirstOfNone, Zenon
  <2>2. http_step_hostfind(s) = s
    BY <1>11, <2>1
  <2>3. \A h \in 2 .. Len(t) : ~HostLine(t, h)
    BY <1>12, <1>13, Zenon
  <2> QED
    BY <2>2, <2>3, Zenon DEF HostsAreBehind
<1>14. CASE P # {}
  <2>1. p \in P /\ \A y \in P : p <= y
    BY <1>7, <1>10, <1>14, FirstIs, Zenon
  <2>2. p \in 1 .. Len(t) - 1 /\ p > 0 /\ t[p] = "CRLF" /\ t[p + 1] \in {"CRLF", "H"}
    BY <1>8, <2>1, Zenon
  <2>3. p + 1 \in 1 .. Len(t) /\ p + 1 \in 2 .. Len(t)
    BY <1>2, <2>2
  <2>4. s.prefix[p + 1] = t[p + 1]
    BY <1>1, <2>3, Zenon
  <2>5. \A h \in 2 .. Len(t) : HostLine(t, h) => p <= h - 1
    BY <1>12, <2>1, Zenon
  <2>6. CASE t[p + 1] = "CRLF"
    <3>1. http_step_hostfind(s) = s
      BY <1>11, <2>4, <2>6
    <3>2. ASSUME NEW h \in 2 .. Len(t), HostLine(t, h)
          PROVE  \E i \in 1 .. h - 2 : HeadersEnd(t, i)
      <4>1. p # h - 1
        BY <2>2, <2>6, <3>2 DEF HostLine
      <4>2. p <= h - 1
        BY <2>5, <3>2, Zenon
      <4>3. p \in 1 .. h - 2
        BY <2>2, <4>1, <4>2
      <4> QED
        BY <2>2, <2>6, <4>3, Zenon DEF HeadersEnd
    <3> QED
      BY <3>1, <3>2, Zenon DEF HostsAreBehind
  <2>7. CASE t[p + 1] = "H"
    <3>1. http_step_hostfind(s) = [s EXCEPT !.host_val = p + 2, !.have_host = TRUE]
      BY <1>11, <2>2, <2>4, <2>7, Zenon
    <3>2. PICK h : h = p + 1
      BY Zenon
    <3>3. h \in 2 .. Len(t) /\ h - 1 = p /\ p + 2 = h + 1
      BY <2>3, <3>2, <2>2
    <3>4. HostLine(t, h)
      BY <2>2, <2>7, <3>2, <3>3, Zenon DEF HostLine
    <3>5. \A k \in 2 .. Len(t) : HostLine(t, k) => h <= k
      BY <2>2, <2>5, <3>2
    <3>6. ASSUME NEW i \in 1 .. h - 2, HeadersEnd(t, i)
          PROVE  FALSE
      <4>1. i \in 1 .. Len(t) - 1 /\ i < p
        BY <1>2, <2>2, <2>3, <3>2, <3>3
      <4>2. i \in P
        BY <1>9, <3>6, <4>1, Zenon DEF HeadersEnd
      <4>3. p <= i
        BY <2>1, <4>2, Zenon
      <4> QED
        BY <2>2, <4>1, <4>3
    <3> QED
      BY <3>1, <3>3, <3>4, <3>5, <3>6, Zenon DEF FirstHostLine
  <2> QED
    BY <2>2, <2>6, <2>7, Zenon
<1> QED
  BY <1>13, <1>14, Zenon

(* There is no host when every host line is behind the end of the headers. *)
LEMMA NoHost ==
  ASSUME NEW t \in Seq(Units), HostsAreBehind(t)
  PROVE  CompleteHost(t) = <<>>
<1> DEFINE Q == {i \in 2 .. Len(t) : t[i - 1] = "CRLF" /\ t[i] = "H"}
           Done(h) == /\ ~\E i \in 1 .. h - 2 : t[i] = "CRLF" /\ t[i + 1] = "CRLF"
                      /\ \E i \in h + 1 .. Len(t) : t[i] \in {"CRLF", "LF"}
<1>1. PICK h : h = First(Q, Len(t) + 1)
  BY Zenon
<1>2. CompleteHost(t) = IF Done(h) THEN Until(t, h + 1, {"CRLF", "LF"}) ELSE <<>>
  BY <1>1, Zenon DEF CompleteHost
<1>3. Q \subseteq Nat /\ Len(t) \in Nat
  OBVIOUS
<1>4. CASE Q = {}
  <2>1. h = Len(t) + 1
    BY <1>1, <1>4, FirstOfNone, Zenon
  <2>2. ~\E i \in h + 1 .. Len(t) : TRUE
    BY <1>3, <2>1
  <2>3. ~Done(h)
    BY <2>2, Zenon
  <2> HIDE DEF Done
  <2> QED
    BY <1>2, <2>3, Zenon
<1>5. CASE Q # {}
  <2>1. h \in Q
    BY <1>1, <1>3, <1>5, FirstIs, Zenon
  <2>2. h \in 2 .. Len(t) /\ HostLine(t, h)
    BY <2>1, Zenon DEF HostLine
  <2>3. \E i \in 1 .. h - 2 : t[i] = "CRLF" /\ t[i + 1] = "CRLF"
    BY <2>2, Zenon DEF HeadersEnd, HostsAreBehind
  <2>4. ~Done(h)
    BY <2>3, Zenon
  <2> HIDE DEF Done
  <2> QED
    BY <1>2, <2>4, Zenon
<1> QED
  BY <1>4, <1>5, Zenon

(* The host is the rest of the first host line, if that line ends. *)
LEMMA HostAt ==
  ASSUME NEW t \in Seq(Units), NEW h, FirstHostLine(t, h)
  PROVE  CompleteHost(t) = IF \E i \in h + 1 .. Len(t) : t[i] \in {"CRLF", "LF"}
                           THEN Until(t, h + 1, {"CRLF", "LF"}) ELSE <<>>
<1> DEFINE Q == {i \in 2 .. Len(t) : t[i - 1] = "CRLF" /\ t[i] = "H"}
           Done(k) == /\ ~\E i \in 1 .. k - 2 : t[i] = "CRLF" /\ t[i + 1] = "CRLF"
                      /\ \E i \in k + 1 .. Len(t) : t[i] \in {"CRLF", "LF"}
<1>1. PICK k : k = First(Q, Len(t) + 1)
  BY Zenon
<1>2. CompleteHost(t) = IF Done(k) THEN Until(t, k + 1, {"CRLF", "LF"}) ELSE <<>>
  BY <1>1, Zenon DEF CompleteHost
<1>3. Q \subseteq Nat
  OBVIOUS
<1>4. h \in Q /\ \A y \in Q : h <= y
  BY Zenon DEF HostLine, FirstHostLine
<1>5. k = h
  BY <1>1, <1>3, <1>4, FirstUnique, Zenon
<1>6. Done(h) = (\E i \in h + 1 .. Len(t) : t[i] \in {"CRLF", "LF"})
  BY Zenon DEF HeadersEnd, FirstHostLine
<1> HIDE DEF Done
<1> QED
  BY <1>2, <1>5, <1>6

(* A host that is found is kept when its line ends in the data. *)
LEMMA HostLenIs ==
  ASSUME NEW s, NEW t, Holds(s, t), s.have_host = TRUE, NEW v \in 1 .. Len(t) + 1, s.host_val = v
  PROVE  \/ /\ http_step_hostlen(s) = [s EXCEPT !.have_host = FALSE]
            /\ ~\E i \in v .. Len(t) : t[i] \in {"CRLF", "LF"}
         \/ \E n \in Nat :
              /\ http_step_hostlen(s) = [s EXCEPT !.host_n = n]
              /\ v + n <= Len(t)
              /\ \E i \in v .. Len(t) : t[i] \in {"CRLF", "LF"}
              /\ Until(t, v, {"CRLF", "LF"}) = SubSeq(t, v, v + n - 1)
<1>1. /\ t \in Seq(Units) /\ s.data_len = Len(t) /\ Len(t) <= PrefixLen
      /\ \A i \in 1 .. Len(t) : s.prefix[i] = t[i]
  BY Zenon DEF Holds
<1>2. Len(t) \in Nat
  BY <1>1
<1> DEFINE E == {i \in v .. Len(t) : t[i] \in {"CRLF", "LF"}}
<1>3. E = {i \in s.host_val .. s.data_len : s.prefix[i] \in {"CRLF", "LF"}}
  <2>1. \A i \in v .. Len(t) : i \in 1 .. Len(t)
    BY <1>2
  <2>2. \A i \in v .. Len(t) : s.prefix[i] = t[i]
    BY <1>1, <2>1, Zenon
  <2> QED
    BY <1>1, <2>2
<1>4. PICK e : e = First(E, 0)
  BY Zenon
<1>5. http_step_hostlen(s) = CASE ~s.have_host -> s
         [] s.have_host /\ (e = 0 \/ e - v >= FieldLen) -> [s EXCEPT !.have_host = FALSE]
         [] s.have_host /\ e > 0 /\ e - v < FieldLen -> [s EXCEPT !.host_n = e - v]
  BY <1>3, <1>4, Zenon DEF http_step_hostlen
<1>6. E \subseteq Nat
  OBVIOUS
<1>7. CASE E = {}
  <2>1. e = 0
    BY <1>4, <1>7, FirstOfNone, Zenon
  <2>2. ~\E i \in v .. Len(t) : t[i] \in {"CRLF", "LF"}
    BY <1>7, Zenon
  <2> HIDE DEF E
  <2>3. http_step_hostlen(s) = [s EXCEPT !.have_host = FALSE]
    BY <1>5, <2>1
  <2> QED
    BY <2>2, <2>3, Zenon
<1>8. CASE E # {}
  <2>1. e \in E /\ \A y \in E : e <= y
    BY <1>4, <1>6, <1>8, FirstIs, Zenon
  <2>2. e \in v .. Len(t) /\ t[e] \in {"CRLF", "LF"}
    BY <2>1, Zenon
  <2>3. \A i \in v .. e - 1 : i \in v .. Len(t) /\ i \notin E
    BY <1>2, <2>1, <2>2
  <2>4. \A i \in v .. e - 1 : t[i] \notin {"CRLF", "LF"}
    BY <2>3, Zenon
  <2> HIDE DEF E
  <2>5. e - v \in Nat /\ e > 0 /\ e - v < FieldLen /\ v + (e - v) <= Len(t) /\ v + (e - v) - 1 = e - 1
    BY <1>1, <1>2, <2>2, Sizes
  <2>6. ~(e = 0 \/ e - v >= FieldLen)
    BY <2>5, Sizes
  <2>7. http_step_hostlen(s) = [s EXCEPT !.host_n = e - v]
    BY <1>5, <2>5, <2>6, Zenon
  <2>8. PICK stops : stops = {"CRLF", "LF"}
    BY Zenon
  <2>9. e \in v .. Len(t) + 1 /\ v \in Nat \ {0}
    BY <1>2, <2>2
  <2>10. Until(t, v, stops) = SubSeq(t, v, e - 1)
    BY <1>1, <2>2, <2>4, <2>8, <2>9, UntilIs, Zenon
  <2> QED
    BY <2>2, <2>5, <2>7, <2>8, <2>10, Zenon
<1> QED
  BY <1>7, <1>8, Zenon

(* Setting an offset leaves the text as it is. *)
LEMMA OffsetHolds ==
  ASSUME NEW s, NEW t, Holds(s, t), NEW n \in Nat, NEW b \in BOOLEAN, NEW k \in Nat
  PROVE  /\ Holds([s EXCEPT !.line_end = n], t)
         /\ Holds([s EXCEPT !.path_n = n], t)
         /\ Holds([s EXCEPT !.host_val = n, !.have_host = b], t)
         /\ Holds([s EXCEPT !.have_host = b], t)
         /\ Holds([s EXCEPT !.host_n = n], t)
<1>1. /\ t \in Seq(Units) /\ s \in Scratch /\ s.data_len = Len(t)
      /\ Len(t) <= PrefixLen /\ Len(s.prefix) = PrefixLen
      /\ \A i \in 1 .. Len(t) : s.prefix[i] = t[i]
  BY Zenon DEF Holds
<1>2. ASSUME NEW r, r \in Scratch, r.prefix = s.prefix, r.data_len = s.data_len
      PROVE  Holds(r, t)
  BY <1>1, <1>2, Zenon DEF Holds
<1>3. PICK r : r = [s EXCEPT !.line_end = n]
  BY Zenon
<1>4. r \in Scratch /\ r.prefix = s.prefix /\ r.data_len = s.data_len
  BY <1>1, <1>3, Zenon DEF Scratch
<1>5. PICK r2 : r2 = [s EXCEPT !.path_n = n]
  BY Zenon
<1>6. r2 \in Scratch /\ r2.prefix = s.prefix /\ r2.data_len = s.data_len
  BY <1>1, <1>5, Zenon DEF Scratch
<1>7. PICK r3 : r3 = [s EXCEPT !.host_val = n, !.have_host = b]
  BY Zenon
<1>8. r3 \in Scratch /\ r3.prefix = s.prefix /\ r3.data_len = s.data_len
  BY <1>1, <1>7, Zenon DEF Scratch
<1>9. PICK r4 : r4 = [s EXCEPT !.have_host = b]
  BY Zenon
<1>10. r4 \in Scratch /\ r4.prefix = s.prefix /\ r4.data_len = s.data_len
  BY <1>1, <1>9, Zenon DEF Scratch
<1>11. PICK r5 : r5 = [s EXCEPT !.host_n = n]
  BY Zenon
<1>12. r5 \in Scratch /\ r5.prefix = s.prefix /\ r5.data_len = s.data_len
  BY <1>1, <1>11, Zenon DEF Scratch
<1> QED
  BY <1>2, <1>3, <1>4, <1>5, <1>6, <1>7, <1>8, <1>9, <1>10, <1>11, <1>12, Zenon

(* The host steps: the host is that of the text, or there is none. *)
LEMMA HostIs ==
  ASSUME NEW s, NEW t, Holds(s, t), s.have_host = FALSE, NEW e, TargetEnds(t, e), s.line_end = e
  PROVE  LET r == http_step_hostlen(http_step_hostfind(s))
         IN  Holds(r, t) /\ r.path_n = s.path_n /\ HostParsed(r, t)
<1>1. t \in Seq(Units) /\ s \in Scratch
  BY Zenon DEF Holds
<1>2. PICK r : r = http_step_hostlen(http_step_hostfind(s))
  BY Zenon
<1>3. CASE http_step_hostfind(s) = s /\ HostsAreBehind(t)
  <2>1. CompleteHost(t) = <<>>
    BY <1>1, <1>3, NoHost, Zenon
  <2>2. http_step_hostlen(s) = s
    BY DEF http_step_hostlen
  <2>3. r = s
    BY <1>2, <1>3, <2>2, Zenon
  <2> QED
    BY <1>2, <2>1, <2>3, Zenon DEF HostParsed
<1>4. ASSUME NEW h, FirstHostLine(t, h),
             http_step_hostfind(s) = [s EXCEPT !.host_val = h + 1, !.have_host = TRUE]
      PROVE  Holds(r, t) /\ r.path_n = s.path_n /\ HostParsed(r, t)
  <2>1. PICK v, s2 : v = h + 1 /\ s2 = [s EXCEPT !.host_val = v, !.have_host = TRUE]
    BY Zenon
  <2>2. v \in 1 .. Len(t) + 1 /\ v \in Nat /\ v > 0
    BY <1>1, <1>4, <2>1 DEF FirstHostLine
  <2>3. Holds(s2, t)
    BY <2>1, <2>2, OffsetHolds, Zenon
  <2>4. s2.have_host = TRUE /\ s2.host_val = v /\ s2.path_n = s.path_n /\ s2 \in Scratch
    BY <1>1, <2>1, <2>2, Zenon DEF Scratch
  <2>5. CompleteHost(t) = IF \E i \in v .. Len(t) : t[i] \in {"CRLF", "LF"}
                          THEN Until(t, v, {"CRLF", "LF"}) ELSE <<>>
    BY <1>1, <1>4, <2>1, HostAt, Zenon
  <2>6. r = http_step_hostlen(s2)
    BY <1>2, <1>4, <2>1, Zenon
  <2>7. CASE /\ r = [s2 EXCEPT !.have_host = FALSE]
             /\ ~\E i \in v .. Len(t) : t[i] \in {"CRLF", "LF"}
    <3>1. Holds(r, t)
      BY <2>2, <2>3, <2>7, OffsetHolds, Zenon
    <3>2. r.have_host = FALSE /\ r.path_n = s.path_n
      BY <2>4, <2>7, Zenon DEF Scratch
    <3>3. CompleteHost(t) = <<>>
      BY <2>5, <2>7, Zenon
    <3> QED
      BY <3>1, <3>2, <3>3, Zenon DEF HostParsed
  <2>8. ASSUME NEW n \in Nat, r = [s2 EXCEPT !.host_n = n], v + n <= Len(t),
               \E i \in v .. Len(t) : t[i] \in {"CRLF", "LF"},
               Until(t, v, {"CRLF", "LF"}) = SubSeq(t, v, v + n - 1)
        PROVE  Holds(r, t) /\ r.path_n = s.path_n /\ HostParsed(r, t)
    <3>1. Holds(r, t)
      BY <2>2, <2>3, <2>8, OffsetHolds, Zenon
    <3>2. r.have_host = TRUE /\ r.path_n = s.path_n /\ r.host_val = v /\ r.host_n = n
      BY <2>4, <2>8, Zenon DEF Scratch
    <3>3. CompleteHost(t) = SubSeq(t, v, v + n - 1)
      BY <2>5, <2>8, Zenon
    <3>4. HostParsed(r, t)
      BY <2>2, <2>8, <3>2, <3>3, Zenon DEF HostParsed
    <3> QED
      BY <3>1, <3>2, <3>4, Zenon
  <2> QED
    BY <2>2, <2>3, <2>4, <2>6, <2>7, <2>8, HostLenIs, Zenon
<1>5. Holds(r, t) /\ r.path_n = s.path_n /\ HostParsed(r, t)
  BY <1>2, <1>3, <1>4, HostFindIs, Zenon
<1> QED
  BY <1>2, <1>5, Zenon

(* The whole parse of a request that is in the scratch map. *)
LEMMA ParseIs ==
  ASSUME NEW s, NEW t, Holds(s, t), s.have_host = FALSE, http_step_reqline_ok(s)
  PROVE  \E r : /\ r = http_step_hostlen(http_step_hostfind(http_step_path(http_step_reqline(s))))
                /\ ScratchFits(r)
                /\ http_copy_field(r, 1, 1) = <<"M">>
                /\ http_copy_field(r, 2, r.path_n) = Until(t, 2, {"?", "SP"})
                /\ (IF r.have_host THEN http_copy_field(r, r.host_val, r.host_n) ELSE <<>>) = CompleteHost(t)
<1>1. PICK e : e = http_line_end(s)
  BY Zenon
<1>0. TargetEnds(t, e)
  BY <1>1, LineEnd, Zenon
<1>2. Len(t) \in Nat /\ Len(t) > 2 /\ t[1] = "M" /\ e \in 3 .. Len(t) + 1
  BY <1>0, Zenon DEF TargetEnds
<1>3. PICK s1 : s1 = [s EXCEPT !.line_end = e]
  BY Zenon
<1>4. s1 = http_step_reqline(s)
  BY <1>1, <1>3, Zenon DEF http_step_reqline
<1>5. e \in Nat
  BY <1>2
<1>6. Holds(s1, t)
  BY <1>3, <1>5, OffsetHolds, Zenon
<1>7. s1.line_end = e /\ s1.have_host = FALSE
  BY <1>3, Zenon DEF Holds, Scratch
<1>8. PICK q \in 2 .. Len(t) + 1 :
        /\ http_step_path(s1) = [s1 EXCEPT !.path_n = q - 2]
        /\ Until(t, 2, {"?", "SP"}) = SubSeq(t, 2, q - 1)
  BY <1>0, <1>6, <1>7, PathIs, Zenon
<1>9. PICK n : n = q - 2
  BY Zenon
<1>10. n \in Nat /\ 2 + n - 1 = q - 1 /\ q - 1 <= Len(t) /\ n <= Len(t) /\ q - 1 \in Nat
  BY <1>2, <1>9
<1>11. PICK s2 : s2 = [s1 EXCEPT !.path_n = n]
  BY Zenon
<1>12. Holds(s2, t)
  BY <1>6, <1>10, <1>11, OffsetHolds, Zenon
<1>13. s2.line_end = e /\ s2.have_host = FALSE /\ s2.path_n = n
  BY <1>6, <1>7, <1>11, Zenon DEF Holds, Scratch
<1>14. PICK r : /\ r = http_step_hostlen(http_step_hostfind(s2))
                /\ Holds(r, t) /\ r.path_n = s2.path_n /\ HostParsed(r, t)
  BY <1>0, <1>12, <1>13, HostIs, Zenon
<1>15. r = http_step_hostlen(http_step_hostfind(http_step_path(http_step_reqline(s))))
  BY <1>4, <1>8, <1>9, <1>11, <1>14, Zenon
<1>16. /\ r \in Scratch /\ Len(r.prefix) = PrefixLen /\ r.data_len = Len(t) /\ Len(t) <= PrefixLen
       /\ t \in Seq(Units)
  BY <1>14, Zenon DEF Holds
<1>17. r.path_n <= PrefixLen
  BY <1>2, <1>10, <1>13, <1>14, <1>16, Sizes
<1>18. ScratchFits(r)
  BY <1>14, <1>16, <1>17, Zenon DEF ScratchFits, HostParsed
<1>19. http_copy_field(r, 1, 1) = <<"M">>
  <2>1. 1 + 1 - 1 = 1 /\ 1 \in Nat \ {0} /\ 1 <= Len(t)
    BY <1>2
  <2>2. http_copy_field(r, 1, 1) = SubSeq(r.prefix, 1, 1)
    BY <2>1 DEF http_copy_field
  <2>3. SubSeq(r.prefix, 1, 1) = SubSeq(t, 1, 1)
    BY <1>14, <2>1, FieldIs
  <2>4. SubSeq(t, 1, 1) = <<"M">>
    <3>1. SubSeq(t, 1, 1) \in Seq(Units) /\ Len(SubSeq(t, 1, 1)) = 1 /\ SubSeq(t, 1, 1)[1] = t[1]
      BY <1>2, <1>16
    <3>2. PICK u : u = t[1]
      BY Zenon
    <3>3. u \in Units
      BY <1>2, <1>16, <3>2
    <3>4. <<u>> \in Seq(Units) /\ Len(<<u>>) = 1 /\ <<u>>[1] = u
      BY <3>3
    <3>5. \A i \in 1 .. Len(SubSeq(t, 1, 1)) : SubSeq(t, 1, 1)[i] = <<u>>[i]
      BY <3>1, <3>2, <3>4
    <3>6. SubSeq(t, 1, 1) = <<u>>
      BY <3>1, <3>4, <3>5, SameSeq, Zenon
    <3> QED
      BY <1>2, <3>2, <3>6, Zenon
  <2> QED
    BY <2>2, <2>3, <2>4, Zenon
<1>20. http_copy_field(r, 2, r.path_n) = Until(t, 2, {"?", "SP"})
  <2>1. http_copy_field(r, 2, r.path_n) = SubSeq(r.prefix, 2, q - 1)
    BY <1>10, <1>13, <1>14, Zenon DEF http_copy_field
  <2>2. SubSeq(r.prefix, 2, q - 1) = SubSeq(t, 2, q - 1)
    BY <1>10, <1>14, FieldIs
  <2> QED
    BY <1>8, <2>1, <2>2, Zenon
<1>21. (IF r.have_host THEN http_copy_field(r, r.host_val, r.host_n) ELSE <<>>) = CompleteHost(t)
  <2>1. CASE r.have_host = FALSE /\ CompleteHost(t) = <<>>
    BY <2>1, Zenon
  <2>2. CASE /\ r.have_host = TRUE /\ r.host_val > 0 /\ r.host_val + r.host_n <= Len(t)
             /\ CompleteHost(t) = SubSeq(t, r.host_val, r.host_val + r.host_n - 1)
    <3>1. PICK v, k : v = r.host_val /\ k = r.host_n
      BY Zenon
    <3>2. v \in Nat /\ k \in Nat
      BY <1>16, <3>1, Zenon DEF Scratch
    <3>a. v > 0 /\ v + k <= Len(t)
      BY <2>2, <3>1, Zenon
    <3>3. v \in Nat \ {0} /\ v + k - 1 \in Nat /\ v + k - 1 <= Len(t)
      BY <1>2, <3>2, <3>a
    <3>4. SubSeq(r.prefix, v, v + k - 1) = SubSeq(t, v, v + k - 1)
      BY <1>14, <3>3, FieldIs, ZenonT(30)
    <3> QED
      BY <2>2, <3>1, <3>4, Zenon DEF http_copy_field
  <2> QED
    BY <1>14, <2>1, <2>2, Zenon DEF HostParsed
<1> QED
  BY <1>15, <1>18, <1>19, <1>20, <1>21, Zenon

(***************************************************************************)
(* What an HTTP/1 sample shows                                             *)
(***************************************************************************)

(* The text up to a stop, as a part. *)
LEMMA UntilPart ==
  ASSUME NEW t \in Seq(Units), NEW from \in 1 .. Len(t) + 1, NEW stops
  PROVE  \E u \in from .. Len(t) + 1 :
           /\ Until(t, from, stops) = SubSeq(t, from, u - 1)
           /\ \A i \in from .. u - 1 : t[i] \notin stops
           /\ u <= Len(t) => t[u] \in stops
<1> DEFINE T == {i \in from .. Len(t) : t[i] \in stops}
<1>1. PICK u : u = First(T, Len(t) + 1)
  BY Zenon
<1>2. Until(t, from, stops) = SubSeq(t, from, u - 1)
  BY <1>1, Zenon DEF Until
<1>3. Len(t) \in Nat /\ from \in Nat
  OBVIOUS
<1>4. CASE T = {}
  <2>1. u = Len(t) + 1
    BY <1>1, <1>4, FirstOfNone, Zenon
  <2>2. u \in from .. Len(t) + 1 /\ ~(u <= Len(t))
    BY <1>3, <2>1
  <2>3. \A i \in from .. u - 1 : i \in from .. Len(t)
    BY <1>3, <2>1
  <2> QED
    BY <1>2, <1>4, <2>2, <2>3, Zenon
<1>5. CASE T # {}
  <2>1. T \subseteq Nat
    BY <1>3
  <2>2. u \in T /\ \A y \in T : u <= y
    BY <1>1, <1>5, <2>1, FirstIs, Zenon
  <2>3. u \in from .. Len(t) + 1 /\ t[u] \in stops
    BY <1>3, <2>2
  <2>4. \A i \in from .. u - 1 : i \in from .. Len(t) /\ ~(u <= i)
    BY <1>3, <2>3
  <2>5. \A i \in from .. u - 1 : t[i] \notin stops
    BY <2>2, <2>4, Zenon
  <2> QED
    BY <1>2, <2>3, <2>5, Zenon
<1> QED
  BY <1>4, <1>5, Zenon

(* A text is clean when each of its units is. *)
LEMMA CleanIs ==
  ASSUME NEW t \in Seq(Units)
  PROVE  Clean(t) <=> \A i \in 1 .. Len(t) : t[i] \notin Private
<1>1. DOMAIN t = 1 .. Len(t)
  OBVIOUS
<1> QED
  BY <1>1, Zenon DEF Clean, Range

(* A part of a text is clean when its units are. *)
LEMMA CleanPart ==
  ASSUME NEW t \in Seq(Units), NEW a \in Nat \ {0}, NEW b \in Int, b <= Len(t),
         \A i \in a .. b : t[i] \notin Private
  PROVE  Clean(SubSeq(t, a, b)) /\ SubSeq(t, a, b) \in Seq(Units)
<1>1. PICK p : p = SubSeq(t, a, b)
  BY Zenon
<1>2. /\ p \in Seq(Units) /\ Len(p) = (IF b >= a THEN b - a + 1 ELSE 0)
      /\ \A i \in 1 .. b - a + 1 : p[i] = t[i + a - 1]
  BY <1>1, SubSeqIs
<1>3. \A i \in 1 .. Len(p) : i \in 1 .. b - a + 1 /\ i + a - 1 \in a .. b
  BY <1>2
<1>4. \A i \in 1 .. Len(p) : p[i] \notin Private
  BY <1>2, <1>3, Zenon
<1> QED
  BY <1>1, <1>2, <1>4, CleanIs, Zenon

(* The text up to a stop is clean when every private unit is behind one. *)
LEMMA UntilClean ==
  ASSUME NEW t \in Seq(Units), NEW from \in 1 .. Len(t) + 1, NEW stops,
         \A i \in from .. Len(t) : t[i] \in Private => \E j \in from .. i - 1 : t[j] \in stops
  PROVE  Clean(Until(t, from, stops)) /\ Until(t, from, stops) \in Seq(Units)
<1>1. PICK u \in from .. Len(t) + 1 :
           /\ Until(t, from, stops) = SubSeq(t, from, u - 1)
           /\ \A i \in from .. u - 1 : t[i] \notin stops
  BY UntilPart, Zenon
<1>2. PICK b : b = u - 1
  BY Zenon
<1>3. b \in Int /\ b <= Len(t) /\ from \in Nat \ {0}
  BY <1>2
<1>4. \A i \in from .. b : i \in from .. Len(t) /\ \A j \in from .. i - 1 : j \in from .. b
  BY <1>3
<1>5. \A i \in from .. b : t[i] \notin Private
  BY <1>1, <1>2, <1>4, Zenon
<1> QED
  BY <1>1, <1>2, <1>3, <1>5, CleanPart, Zenon

(* In a labelled request the path and the host are clean. *)
LEMMA PathClean ==
  ASSUME NEW t \in Seq(Units), Labelled(t), Len(t) > 2, t[1] = "M", t[2] = "/"
  PROVE  Clean(Until(t, 2, {"?", "SP"})) /\ Until(t, 2, {"?", "SP"}) \in Seq(Units)
<1>1. PICK two, stops : two = 2 /\ stops = {"?", "SP"}
  BY Zenon
<1>2. Len(t) >= 2 /\ two \in 1 .. Len(t) + 1 /\ DOMAIN t = 1 .. Len(t)
  BY <1>1
<1>3. \A i \in 1 .. Len(t) : t[i] \in Private => \E j \in two .. i - 1 : t[j] \in stops
  BY <1>1, <1>2, Zenon DEF Labelled
<1>4. \A i \in two .. Len(t) : i \in 1 .. Len(t)
  BY <1>1
<1>5. \A i \in two .. Len(t) : t[i] \in Private => \E j \in two .. i - 1 : t[j] \in stops
  BY <1>3, <1>4, Zenon
<1>6. Clean(Until(t, two, stops)) /\ Until(t, two, stops) \in Seq(Units)
  BY <1>2, <1>5, UntilClean, Zenon
<1> QED
  BY <1>1, <1>6, Zenon

(* A complete host is that of the first line that starts with Host:. *)
LEMMA HostOrNone ==
  ASSUME NEW t \in Seq(Units)
  PROVE  \/ CompleteHost(t) = <<>>
         \/ \E h : FirstHostLine(t, h) /\ CompleteHost(t) = Until(t, h + 1, {"CRLF", "LF"})
<1> DEFINE Q == {i \in 2 .. Len(t) : HostLine(t, i)}
<1>1. CASE HostsAreBehind(t)
  BY <1>1, NoHost, Zenon
<1>2. CASE ~HostsAreBehind(t)
  <2>1. PICK g \in 2 .. Len(t) : HostLine(t, g) /\ ~\E i \in 1 .. g - 2 : HeadersEnd(t, i)
    BY <1>2, Zenon DEF HostsAreBehind
  <2>2. Q \subseteq Nat /\ g \in Q
    BY <2>1
  <2>3. PICK h \in Q : \A y \in Q : h <= y
    BY <2>2, WellOrdered, Zenon
  <2>4. \A i \in 1 .. h - 2 : i \in 1 .. g - 2
    BY <2>2, <2>3
  <2>5. FirstHostLine(t, h)
    BY <2>1, <2>3, <2>4, Zenon DEF FirstHostLine
  <2>6. CompleteHost(t) = IF \E i \in h + 1 .. Len(t) : t[i] \in {"CRLF", "LF"}
                           THEN Until(t, h + 1, {"CRLF", "LF"}) ELSE <<>>
    BY <2>5, HostAt, Zenon
  <2> QED
    BY <2>5, <2>6, Zenon
<1> QED
  BY <1>1, <1>2, Zenon

LEMMA HostClean ==
  ASSUME NEW t \in Seq(Units), Labelled(t), Len(t) > 2, t[1] = "M", t[2] = "/"
  PROVE  Clean(CompleteHost(t)) /\ CompleteHost(t) \in Seq(Units)
<1>1. CASE CompleteHost(t) = <<>>
  <2>1. PICK e : e = <<>>
    BY Zenon
  <2>2. e \in Seq(Units) /\ \A i \in 1 .. Len(e) : FALSE
    BY <2>1
  <2> QED
    BY <1>1, <2>1, <2>2, CleanIs, Zenon
<1>2. ASSUME NEW h, FirstHostLine(t, h), CompleteHost(t) = Until(t, h + 1, {"CRLF", "LF"})
      PROVE  Clean(CompleteHost(t)) /\ CompleteHost(t) \in Seq(Units)
  <2>1. PICK v, stops : v = h + 1 /\ stops = {"CRLF", "LF"}
    BY Zenon
  <2>2. h \in 2 .. Len(t) /\ HostLine(t, h) /\ \A i \in 1 .. h - 2 : ~HeadersEnd(t, i)
    BY <1>2, Zenon DEF FirstHostLine
  <2>3. v \in 1 .. Len(t) + 1 /\ DOMAIN t = 1 .. Len(t) /\ Len(t) >= 2
    BY <2>1, <2>2
  <2>4. \A i \in v .. Len(t) : i \in 1 .. Len(t) /\ h \in 2 .. i - 1
    BY <2>1, <2>2
  <2>5. ASSUME NEW i \in v .. Len(t), t[i] \in Private
        PROVE  \E j \in v .. i - 1 : t[j] \in stops
    <3>1. \A k \in 2 .. i - 1 : t[k - 1] = "CRLF" /\ t[k] = "H" =>
             \/ \E j \in k + 1 .. i - 1 : t[j] \in {"CRLF", "LF"}
             \/ \E j \in 1 .. k - 2 : t[j] = "CRLF" /\ t[j + 1] = "CRLF"
      BY <2>3, <2>4, <2>5, Zenon DEF Labelled
    <3>2. \/ \E j \in h + 1 .. i - 1 : t[j] \in {"CRLF", "LF"}
          \/ \E j \in 1 .. h - 2 : t[j] = "CRLF" /\ t[j + 1] = "CRLF"
      BY <2>2, <2>4, <3>1, Zenon DEF HostLine
    <3> QED
      BY <2>1, <2>2, <3>2, Zenon DEF HeadersEnd
  <2>6. Clean(Until(t, v, stops)) /\ Until(t, v, stops) \in Seq(Units)
    BY <2>3, <2>5, UntilClean, Zenon
  <2> QED
    BY <1>2, <2>1, <2>6, Zenon
<1> QED
  BY <1>1, <1>2, HostOrNone, Zenon

(* The captured part of a labelled request is labelled. *)
LEMMA LabelledCut ==
  ASSUME NEW text \in Seq(Units), Labelled(text), NEW n \in Nat, n <= Len(text)
  PROVE  Labelled(SubSeq(text, 1, n))
<1>1. PICK t : t = SubSeq(text, 1, n)
  BY Zenon
<1>2. t \in Seq(Units) /\ Len(t) = n /\ \A i \in 1 .. n : t[i] = text[i]
  BY <1>1
<1>3. DOMAIN t = 1 .. n /\ DOMAIN text = 1 .. Len(text)
  BY <1>2
<1> SUFFICES ASSUME Len(t) >= 2, t[1] = "M", t[2] = "/", NEW i \in 1 .. n, t[i] \in Private
             PROVE  /\ \E j \in 2 .. i - 1 : t[j] \in {"?", "SP"}
                    /\ \A h \in 2 .. i - 1 : t[h - 1] = "CRLF" /\ t[h] = "H" =>
                         \/ \E j \in h + 1 .. i - 1 : t[j] \in {"CRLF", "LF"}
                         \/ \E j \in 1 .. h - 2 : t[j] = "CRLF" /\ t[j + 1] = "CRLF"
  BY <1>1, <1>3, SMTT(30) DEF Labelled
<1>4. Len(text) >= 2 /\ text[1] = "M" /\ text[2] = "/" /\ i \in 1 .. Len(text) /\ text[i] \in Private
  BY <1>2
<1>5. /\ \E j \in 2 .. i - 1 : text[j] \in {"?", "SP"}
      /\ \A h \in 2 .. i - 1 : text[h - 1] = "CRLF" /\ text[h] = "H" =>
           \/ \E j \in h + 1 .. i - 1 : text[j] \in {"CRLF", "LF"}
           \/ \E j \in 1 .. h - 2 : text[j] = "CRLF" /\ text[j + 1] = "CRLF"
  BY <1>3, <1>4, Zenon DEF Labelled
<1>6. \A j \in 2 .. i - 1 : /\ j \in 1 .. n /\ j - 1 \in 1 .. n
                            /\ \A k \in j + 1 .. i - 1 : k \in 1 .. n
                            /\ \A k \in 1 .. j - 2 : k \in 1 .. n /\ k + 1 \in 1 .. n
  OBVIOUS
<1>7. \E j \in 2 .. i - 1 : t[j] \in {"?", "SP"}
  BY <1>2, <1>5, <1>6, Zenon
<1>8. ASSUME NEW h \in 2 .. i - 1, t[h - 1] = "CRLF", t[h] = "H"
      PROVE  \/ \E j \in h + 1 .. i - 1 : t[j] \in {"CRLF", "LF"}
             \/ \E j \in 1 .. h - 2 : t[j] = "CRLF" /\ t[j + 1] = "CRLF"
  <2>1. text[h - 1] = "CRLF" /\ text[h] = "H"
    BY <1>2, <1>6, <1>8, Zenon
  <2>2. \/ \E j \in h + 1 .. i - 1 : text[j] \in {"CRLF", "LF"}
        \/ \E j \in 1 .. h - 2 : text[j] = "CRLF" /\ text[j + 1] = "CRLF"
    BY <1>5, <2>1, Zenon
  <2> QED
    BY <1>2, <1>6, <2>2, Zenon
<1> QED
  BY <1>7, <1>8, Zenon

(* A sample with the fields of its request, and nothing private in them. *)
LEMMA HttpGood ==
  ASSUME NEW tap, NEW of, NEW m \in Seq(Units), NEW p \in Seq(Units), NEW h \in Seq(Units),
         <<m, p, h>> = ExpectedFields(tap, of), Clean(m), Clean(p), Clean(h)
  PROVE  Good(HttpSample(tap, of, m, p, h))
<1>1. copy(zeroed, m) = m /\ copy(zeroed, p) = p /\ copy(zeroed, h) = h
  BY CopyToZeroed, Zenon
<1>2. PICK s : s = HttpSample(tap, of, m, p, h)
  BY Zenon
<1>3. s = [kind |-> "http", tap |-> tap, of |-> of, method |-> m, path |-> p, host |-> h]
  BY <1>1, <1>2, Zenon DEF HttpSample
<1>4. s.kind = "http" /\ s.tap = tap /\ s.of = of /\ s.method = m /\ s.path = p /\ s.host = h
  BY <1>3
<1>5. Visible(s) = Range(m) \cup Range(p) \cup Range(h)
  BY <1>4 DEF Visible
<1>6. Visible(s) \cap Private = {}
  BY <1>5, Zenon DEF Clean
<1>7. Good(s)
  BY <1>4, <1>6 DEF Good
<1> QED
  BY <1>2, <1>7, Zenon

(* One unit that is not private. *)
LEMMA CleanUnit ==
  ASSUME NEW u \in {"M", "/", "NUL"}
  PROVE  <<u>> \in Seq(Units) /\ Clean(<<u>>)
<1>1. u \in Units
  BY RingAssumption
<1>2. u \notin Private
  BY DEF Private
<1>3. PICK t : t = <<u>>
  BY Zenon
<1>4. t \in Seq(Units) /\ Len(t) = 1 /\ t[1] = u
  BY <1>1, <1>3
<1>5. \A i \in 1 .. Len(t) : t[i] = u
  BY <1>4
<1>6. \A i \in 1 .. Len(t) : t[i] \notin Private
  BY <1>2, <1>5, Zenon
<1> QED
  BY <1>3, <1>4, <1>6, CleanIs, Zenon

(* No text at all. *)
LEMMA CleanEmpty == <<>> \in Seq(Units) /\ Clean(<<>>) /\ Labelled(<<>>)
<1>1. PICK e : e = <<>>
  BY Zenon
<1>2. e \in Seq(Units) /\ (\A i \in 1 .. Len(e) : FALSE) /\ ~(Len(e) >= 2)
  BY <1>1
<1>3. Clean(e)
  BY <1>2, CleanIs, Zenon
<1>4. Labelled(e)
  BY <1>2, Zenon DEF Labelled
<1> QED
  BY <1>1, <1>2, <1>3, <1>4, Zenon

(* The second read of a buffer that another thread wrote to is no request. *)
LEMMA RewrittenIsNoRequest ==
  ASSUME NEW s, ScratchFits(s), NEW text \in Seq(Units), NEW again,
         again = [i \in DOMAIN text |-> "x"]
  PROVE  again \in Seq(Units) /\ ~http_step_reqline_ok(http_capture_user_buffer(s, again))
<1>1. "x" \in Units
  BY RingAssumption
<1>2. /\ again \in Seq(Units) /\ Len(again) = Len(text) /\ Len(text) \in Nat
      /\ \A i \in 1 .. Len(again) : again[i] = "x"
  BY <1>1
<1>3. PICK t, c : /\ t = SubSeq(again, 1, Least(Len(again), PrefixLen))
                  /\ c = http_capture_user_buffer(s, again)
  BY Zenon
<1>4. Holds(c, t)
  BY <1>2, <1>3, CaptureHolds, Zenon
<1>5. CASE http_step_reqline_ok(c)
  <2>1. TargetEnds(t, http_line_end(c))
    BY <1>4, <1>5, LineEnd, Zenon
  <2>2. t[1] = "M" /\ Len(t) > 2
    BY <2>1, Zenon DEF TargetEnds
  <2>3. PICK n : n = Least(Len(again), PrefixLen)
    BY Zenon
  <2>4. /\ n \in Nat /\ n <= Len(again) /\ Len(t) = n
        /\ \A i \in 1 .. n : t[i] = again[i]
    BY <1>2, <1>3, <2>3, CutIs, Zenon
  <2>5. 1 \in 1 .. n /\ 1 \in 1 .. Len(again)
    BY <1>2, <2>2, <2>4
  <2>6. t[1] = "x"
    BY <1>2, <2>4, <2>5, Zenon
  <2> QED
    BY <2>2, <2>6
<1> QED
  BY <1>2, <1>3, <1>5, Zenon

(* The sample of a request is good, and the parse leaves the map in order. *)
LEMMA ParsedIsGood ==
  ASSUME NEW s, ScratchFits(s), NEW text \in Seq(Units), Labelled(text), NEW c,
         c = http_capture_user_buffer(s, text), http_step_reqline_ok(c), NEW r,
         r = http_step_hostlen(http_step_hostfind(http_step_path(http_step_reqline(c))))
  PROVE  /\ ScratchFits(r)
         /\ Good(HttpSample("http1", text, http_copy_field(r, 1, 1), http_copy_field(r, 2, r.path_n),
                   IF r.have_host THEN http_copy_field(r, r.host_val, r.host_n) ELSE <<>>))
<1>1. PICK t : t = SubSeq(text, 1, Least(Len(text), PrefixLen))
  BY Zenon
<1>2. Holds(c, t) /\ c.have_host = FALSE
  BY <1>1, CaptureHolds, Zenon
<1>3. PICK m, p, h : m = <<"M">> /\ p = Until(t, 2, {"?", "SP"}) /\ h = CompleteHost(t)
  BY Zenon
<1>4. /\ ScratchFits(r) /\ http_copy_field(r, 1, 1) = m /\ http_copy_field(r, 2, r.path_n) = p
      /\ (IF r.have_host THEN http_copy_field(r, r.host_val, r.host_n) ELSE <<>>) = h
  BY <1>2, <1>3, ParseIs, Zenon
<1>5. Len(t) > 2 /\ t[1] = "M" /\ t[2] = "/"
  <2>1. TargetEnds(t, http_line_end(c))
    BY <1>2, LineEnd, Zenon
  <2> QED
    BY <2>1, Zenon DEF TargetEnds
<1>6. t \in Seq(Units)
  BY <1>2, Zenon DEF Holds
<1>7. Labelled(t)
  <2>1. PICK n : n = Least(Len(text), PrefixLen)
    BY Zenon
  <2>2. n \in Nat /\ n <= Len(text)
    BY <2>1, CutIs, Zenon
  <2> QED
    BY <1>1, <2>1, <2>2, LabelledCut, Zenon
<1>8. /\ m \in Seq(Units) /\ p \in Seq(Units) /\ h \in Seq(Units)
      /\ Clean(m) /\ Clean(p) /\ Clean(h)
  BY <1>3, <1>5, <1>6, <1>7, CleanUnit, PathClean, HostClean, Zenon
<1>9. <<m, p, h>> = ExpectedFields("http1", text)
  BY <1>1, <1>3, Zenon DEF ExpectedFields
<1>10. Good(HttpSample("http1", text, m, p, h))
  BY <1>8, <1>9, HttpGood, Zenon
<1> QED
  BY <1>4, <1>10, Zenon

LEMMA Http1Keeps ==
  ASSUME RingInv, ScratchFits(http_scratch), NEW text \in Seq(Units), Labelled(text), handle_http1(text)
  PROVE  RingInv' /\ ScratchFits(http_scratch')
<1>1. CASE skip /\ UNCHANGED http_scratch
  BY <1>1, SkipKeeps, Zenon
<1>2. CASE skip /\ http_scratch' = captureFaults(http_scratch, text)
  BY <1>2, SkipKeeps, FaultFits, Zenon
<1>3. ASSUME NEW again \in {text, [i \in DOMAIN text |-> "x"]}, NEW c,
             c = http_capture_user_buffer(http_scratch, again), http_scratch' = c, skip
      PROVE  RingInv' /\ ScratchFits(http_scratch')
  <2>1. again \in Seq(Units)
    BY <1>3, RewrittenIsNoRequest, Zenon
  <2> QED
    BY <1>3, <2>1, SkipKeeps, CaptureHolds, Zenon
<1>4. ASSUME NEW again \in {text, [i \in DOMAIN text |-> "x"]}, NEW c,
             c = http_capture_user_buffer(http_scratch, again), http_step_reqline_ok(c),
             handle_http1_parse(http_step_reqline(c), again)
      PROVE  RingInv' /\ ScratchFits(http_scratch')
  <2>1. again = text
    BY <1>4, RewrittenIsNoRequest, Zenon
  <2>2. PICK r : r = http_step_hostlen(http_step_hostfind(http_step_path(http_step_reqline(c))))
    BY Zenon
  <2>3. http_scratch' = r /\ http_step_emit(r, text)
    BY <1>4, <2>1, <2>2, Zenon DEF handle_http1_parse
  <2>4. PICK sample :
          sample = HttpSample("http1", text, http_copy_field(r, 1, 1), http_copy_field(r, 2, r.path_n),
                     IF r.have_host THEN http_copy_field(r, r.host_val, r.host_n) ELSE <<>>)
    BY Zenon
  <2>5. submit(sample)
    BY <2>3, <2>4, Zenon DEF http_step_emit
  <2>6. ScratchFits(r) /\ Good(sample)
    BY <1>4, <2>1, <2>2, <2>4, ParsedIsGood, Zenon
  <2> QED
    BY <2>3, <2>5, <2>6, SubmitKeeps, Zenon
<1> QED
  BY <1>1, <1>2, <1>3, <1>4, Zenon DEF handle_http1

(***************************************************************************)
(* The nghttp2 and Go taps                                                 *)
(***************************************************************************)

Readable(t) == \A i \in 1 .. Len(t) : t[i] \notin {"CTL", "fault"}

(* A value that was validated has nothing unreadable left in it. *)
LEMMA ReadableClean ==
  ASSUME NEW t \in Seq(Units), CleanIfReadable(t), Readable(t)
  PROVE  Clean(t)
<1>1. DOMAIN t = 1 .. Len(t)
  OBVIOUS
<1>2. \A i \in 1 .. Len(t) : t[i] \notin Private \ {"fault"}
  BY <1>1, Zenon DEF CleanIfReadable, Range
<1>3. \A i \in 1 .. Len(t) : t[i] # "fault"
  BY Zenon DEF Readable
<1> QED
  BY <1>2, <1>3, CleanIs, Zenon

LEMMA CleanIsReadable ==
  ASSUME NEW t, Clean(t)
  PROVE  CleanIfReadable(t)
  BY Zenon DEF Clean, CleanIfReadable

(* The length of a value that may hold no query. *)
LEMMA WholeLength ==
  ASSUME NEW t \in Seq(Units), NEW k
  PROVE  http_user_field_length(t, k, FALSE) =
           IF Len(t) \in 1 .. k - 1 /\ Readable(t) THEN Len(t) ELSE -1
<1>1. {i \in DOMAIN t : FALSE /\ t[i] = "?"} = {}
  BY Zenon
<1>2. First({i \in DOMAIN t : FALSE /\ t[i] = "?"}, Len(t) + 1) = Len(t) + 1
  BY <1>1, FirstOfNone, Zenon
<1>3. (Len(t) + 1) - 1 = Len(t)
  OBVIOUS
<1> QED
  BY <1>2, <1>3, Zenon DEF http_user_field_length, Readable

(* A value that was accepted whole is copied whole. *)
LEMMA AcceptedWhole ==
  ASSUME NEW t \in Seq(Units), NEW k, NEW n, n = http_user_field_length(t, k, FALSE), n > 0
  PROVE  http_copy_user_value(t, n) = t /\ Readable(t) /\ n = Len(t)
<1>1. ~(-1 > 0)
  OBVIOUS
<1>2. n = Len(t) /\ Readable(t)
  BY <1>1, WholeLength, Zenon
<1>3. http_copy_user_value(t, n) = t
  BY <1>2, WholeSubSeq, Zenon DEF http_copy_user_value
<1> QED
  BY <1>2, <1>3, Zenon

(* The host is copied whole, or left empty. *)
LEMMA HostWhole ==
  ASSUME NEW t \in Seq(Units), NEW n, n = http_user_field_length(t, FieldLen, FALSE), CleanIfReadable(t)
  PROVE  /\ (IF n < 0 THEN <<>> ELSE http_copy_user_value(t, n)) = WholeOrEmpty(t)
         /\ WholeOrEmpty(t) \in Seq(Units) /\ Clean(WholeOrEmpty(t))
<1>1. DOMAIN t = 1 .. Len(t) /\ Len(t) \in Nat
  OBVIOUS
<1>2. WholeOrEmpty(t) = IF Len(t) < FieldLen /\ Readable(t) THEN t ELSE <<>>
  BY <1>1, Zenon DEF WholeOrEmpty, Readable
<1>3. WholeOrEmpty(t) \in Seq(Units) /\ Clean(WholeOrEmpty(t))
  BY <1>2, ReadableClean, CleanEmpty, Zenon
<1>4. CASE Len(t) \in 1 .. FieldLen - 1 /\ Readable(t)
  <2>1. n = Len(t)
    BY <1>4, WholeLength, Zenon
  <2>a. Len(t) > 0 /\ ~(Len(t) < 0) /\ Len(t) < FieldLen
    BY <1>1, <1>4, Sizes
  <2>2. n > 0 /\ ~(n < 0) /\ Len(t) < FieldLen
    BY <2>1, <2>a, Zenon
  <2>3. http_copy_user_value(t, n) = t
    BY <2>2, AcceptedWhole, Zenon
  <2> QED
    BY <1>2, <1>3, <1>4, <2>2, <2>3, Zenon
<1>5. CASE ~(Len(t) \in 1 .. FieldLen - 1 /\ Readable(t))
  <2>1. n = -1
    BY <1>5, WholeLength, Zenon
  <2>a. -1 < 0
    OBVIOUS
  <2>2. n < 0
    BY <2>1, <2>a, Zenon
  <2>3. CASE Len(t) < FieldLen /\ Readable(t)
    <3>1. Len(t) \notin 1 .. FieldLen - 1
      BY <1>5, <2>3, Zenon
    <3>2. Len(t) = 0
      BY <1>1, <2>3, <3>1, Sizes
    <3>3. t = <<>>
      BY <3>2
    <3> QED
      BY <1>2, <1>3, <2>2, <2>3, <3>3, Zenon
  <2>4. CASE ~(Len(t) < FieldLen /\ Readable(t))
    BY <1>2, <1>3, <2>2, <2>4, Zenon
  <2> QED
    BY <2>3, <2>4, Zenon
<1> QED
  BY <1>4, <1>5, Zenon

(* A path is copied up to its query. *)
LEMMA AcceptedPath ==
  ASSUME NEW t \in Seq(Units), NEW k \in Nat, NEW n, n = http_user_field_length(t, k, TRUE), n > 0,
         CleanIfReadable(Until(t, 1, {"?"}))
  PROVE  /\ http_copy_user_value(t, n) = Until(t, 1, {"?"})
         /\ Until(t, 1, {"?"}) \in Seq(Units) /\ Clean(Until(t, 1, {"?"}))
<1>1. DOMAIN t = 1 .. Len(t) /\ Len(t) \in Nat
  OBVIOUS
<1>2. PICK Q : Q = {i \in 1 .. Len(t) : t[i] = "?"}
  BY Zenon
<1>3. {i \in DOMAIN t : TRUE /\ t[i] = "?"} = Q /\ {i \in 1 .. Len(t) : t[i] \in {"?"}} = Q
  BY <1>1, <1>2, Zenon
<1>4. PICK q : q = First(Q, Len(t) + 1) - 1
  BY Zenon
<1>5. Until(t, 1, {"?"}) = SubSeq(t, 1, q)
  BY <1>3, <1>4, Zenon DEF Until
<1>6. n = IF q \in 1 .. k - 1 /\ \A i \in 1 .. q : t[i] \notin {"CTL", "fault"} THEN q ELSE -1
  BY <1>3, <1>4, Zenon DEF http_user_field_length
<1>7. ~(-1 > 0)
  OBVIOUS
<1>8. n = q /\ q \in 1 .. k - 1 /\ \A i \in 1 .. q : t[i] \notin {"CTL", "fault"}
  BY <1>6, <1>7, Zenon
<1>9. q <= Len(t) /\ q \in Nat
  <2>1. CASE Q = {}
    <3>1. q = (Len(t) + 1) - 1
      BY <1>4, <2>1, FirstOfNone, Zenon
    <3> QED
      BY <1>1, <3>1
  <2>2. CASE Q # {}
    <3>1. Q \subseteq Nat
      BY <1>2
    <3>2. PICK f : f = First(Q, Len(t) + 1)
      BY Zenon
    <3>3. f \in Q
      BY <2>2, <3>1, <3>2, FirstIs, Zenon
    <3>4. f \in 1 .. Len(t) /\ q = f - 1
      BY <1>2, <1>4, <3>2, <3>3, Zenon
    <3> QED
      BY <1>1, <3>4
  <2> QED
    BY <2>1, <2>2, Zenon
<1>10. PICK p : p = SubSeq(t, 1, q)
  BY Zenon
<1>11. p \in Seq(Units) /\ Len(p) = q /\ \A i \in 1 .. q : p[i] = t[i]
  BY <1>9, <1>10
<1>12. Readable(p)
  BY <1>8, <1>11, Zenon DEF Readable
<1>13. Clean(p)
  BY <1>5, <1>10, <1>11, <1>12, ReadableClean, Zenon
<1> QED
  BY <1>5, <1>8, <1>10, <1>11, <1>13, Zenon DEF http_copy_user_value

(* The scan of the leading headers finds the first of a name. *)
LEMMA PseudoHeaderIs ==
  ASSUME NEW nva \in Seq([name : STRING, value : Text]), NEW name
  PROVE  /\ nghttp2_pseudo_header(nghttp2_pseudo_headers(nva), name) = FirstValue(nva, name)
         /\ FirstValue(nva, name) \in Seq(Units)
<1>1. DOMAIN nva = 1 .. Len(nva) /\ Len(nva) \in Nat /\ MaxHeaders \in Nat \ {0}
  BY HttpAssumption
<1> DEFINE O == {i \in DOMAIN nva : nva[i].name = "ordinary"}
           J == {j \in DOMAIN nva : nva[j].name = name /\ \A k \in 1 .. j : nva[k].name # "ordinary"}
<1>2. PICK o : o = First(O, Len(nva) + 1)
  BY Zenon
<1>3. /\ o \in 1 .. Len(nva) + 1
      /\ \A j \in 1 .. Len(nva) : j < o <=> \A k \in 1 .. j : nva[k].name # "ordinary"
  <2>1. CASE O = {}
    <3>1. o = Len(nva) + 1
      BY <1>2, <2>1, FirstOfNone, Zenon
    <3>2. o \in 1 .. Len(nva) + 1 /\ \A j \in 1 .. Len(nva) : j < o
      BY <1>1, <3>1
    <3>3. \A j \in 1 .. Len(nva) : \A k \in 1 .. j : k \in DOMAIN nva
      BY <1>1
    <3> QED
      BY <2>1, <3>2, <3>3, Zenon
  <2>2. CASE O # {}
    <3>1. O \subseteq Nat
      BY <1>1
    <3>2. o \in O /\ \A y \in O : o <= y
      BY <1>2, <2>2, <3>1, FirstIs, Zenon
    <3>3. o \in 1 .. Len(nva) /\ o \in 1 .. Len(nva) + 1 /\ nva[o].name = "ordinary"
      BY <1>1, <3>2
    <3>4. ASSUME NEW j \in 1 .. Len(nva), j < o, NEW k \in 1 .. j, nva[k].name = "ordinary"
          PROVE  FALSE
      <4>1. k \in DOMAIN nva /\ ~(o <= k)
        BY <1>1, <3>3, <3>4
      <4> QED
        BY <3>2, <3>4, <4>1, Zenon
    <3>5. \A j \in 1 .. Len(nva) : ~(j < o) => o \in 1 .. j
      BY <3>3
    <3> QED
      BY <3>3, <3>4, <3>5, Zenon
  <2> QED
    BY <2>1, <2>2, Zenon
<1>4. PICK m : m = o - 1
  BY Zenon
<1>5. PICK k : k = Least(MaxHeaders, m)
  BY Zenon
<1>6. /\ k \in Nat /\ k <= Len(nva) /\ \A j \in 1 .. Len(nva) : j \in 1 .. k <=> (j < o /\ j <= MaxHeaders)
  BY <1>1, <1>3, <1>4, <1>5, SMTT(30) DEF Least
<1>7. PICK lead : lead = SubSeq(nva, 1, k)
  BY Zenon
<1>8. lead = nghttp2_pseudo_headers(nva)
  BY <1>2, <1>4, <1>5, <1>7, Zenon DEF nghttp2_pseudo_headers
<1>9. DOMAIN lead = 1 .. k /\ \A i \in 1 .. k : lead[i] = nva[i]
  BY <1>6, <1>7
<1> DEFINE N == {i \in DOMAIN lead : lead[i].name = name}
<1>10. \A j \in 1 .. k : j \in 1 .. Len(nva)
  BY <1>6
<1>11. \A j : j \in N <=> j \in J /\ j <= MaxHeaders
  BY <1>1, <1>3, <1>6, <1>9, <1>10, Zenon
<1>12. PICK i : i = First(J, 0)
  BY Zenon
<1>13. FirstValue(nva, name) = IF i \in 1 .. MaxHeaders THEN nva[i].value ELSE <<>>
  BY <1>12, Zenon DEF FirstValue
<1>14. nghttp2_pseudo_header(lead, name) = IF N = {} THEN <<>> ELSE lead[Min(N)].value
  BY Zenon DEF nghttp2_pseudo_header
<1>15. J \subseteq Nat /\ N \subseteq Nat /\ J \subseteq 1 .. Len(nva)
  BY <1>1, <1>9
<1>16. CASE J = {}
  <2>1. i = 0
    BY <1>12, <1>16, FirstOfNone, Zenon
  <2>2. i \notin 1 .. MaxHeaders
    BY <1>1, <2>1
  <2>3. N = {}
    BY <1>11, <1>16, Zenon
  <2> QED
    BY <1>8, <1>13, <1>14, <2>2, <2>3, CleanEmpty, Zenon
<1>17. CASE J # {}
  <2>1. i \in J /\ \A y \in J : i <= y
    BY <1>12, <1>15, <1>17, FirstIs, Zenon
  <2>2. i \in 1 .. Len(nva)
    BY <1>15, <2>1, Zenon
  <2>a. nva[i] \in [name : STRING, value : Text]
    BY <2>2, ElementIs, Zenon
  <2>3. nva[i].value \in Seq(Units)
    BY <2>a, Zenon DEF Text
  <2>4. CASE i <= MaxHeaders
    <3>1. i \in N /\ \A y \in N : i <= y
      BY <1>11, <2>1, <2>4, Zenon
    <3>2. First(N, 0) = i
      BY <1>15, <3>1, FirstUnique, Zenon
    <3>3. N # {} /\ Min(N) = i
      BY <3>1, <3>2, Zenon DEF First
    <3>4. i \in 1 .. MaxHeaders /\ lead[i] = nva[i]
      BY <1>1, <1>9, <2>2, <2>4, <3>1, SMTT(30)
    <3> QED
      BY <1>8, <1>13, <1>14, <2>3, <3>3, <3>4, Zenon
  <2>5. CASE ~(i <= MaxHeaders)
    <3>1. i \notin 1 .. MaxHeaders
      BY <1>1, <2>5, SMTT(30)
    <3>2. \A j \in J : ~(j <= MaxHeaders)
      BY <1>1, <1>15, <2>1, <2>2, <2>5, SMTT(30)
    <3>3. N = {}
      BY <1>11, <3>2, Zenon
    <3> QED
      BY <1>8, <1>13, <1>14, <3>1, <3>3, CleanEmpty, Zenon
  <2> QED
    BY <2>4, <2>5, Zenon
<1> QED
  BY <1>16, <1>17, Zenon

(* The sample of an nghttp2 request. *)
LEMMA Nghttp2Keeps ==
  ASSUME RingInv, handle_nghttp2_submit_request
  PROVE  RingInv' /\ UNCHANGED http_scratch
<1>1. PICK nva \in HeaderArrays :
        LET lead == nghttp2_pseudo_headers(nva)
        IN \/ nghttp2_unreadable(lead) /\ skip
           \/ /\ ~nghttp2_unreadable(lead)
              /\ handle_nghttp2_required(nva, nghttp2_pseudo_header(lead, ":method"),
                   nghttp2_pseudo_header(lead, ":path"), nghttp2_pseudo_header(lead, ":authority"))
  BY Zenon DEF handle_nghttp2_submit_request
<1>2. nva \in Seq([name : STRING, value : Text])
  BY HttpInputs, Zenon
<1>3. PICK method, path, authority : /\ method = FirstValue(nva, ":method") /\ path = FirstValue(nva, ":path")
                                     /\ authority = FirstValue(nva, ":authority")
  BY Zenon
<1>4. method \in Seq(Units) /\ path \in Seq(Units) /\ authority \in Seq(Units)
  BY <1>2, <1>3, PseudoHeaderIs, Zenon
<1>5. skip \/ handle_nghttp2_required(nva, method, path, authority)
  BY <1>1, <1>2, <1>3, PseudoHeaderIs, Zenon
<1>6. CleanIfReadable(method) /\ CleanIfReadable(authority) /\ CleanIfReadable(Until(path, 1, {"?"}))
  BY <1>3, Labelling, Zenon
<1>7. CASE skip
  BY <1>7, SkipKeeps, Zenon DEF handle_nghttp2_submit_request
<1>8. CASE handle_nghttp2_required(nva, method, path, authority) /\ ~skip
  <2>1. PICK m, p, n : /\ m = http_user_field_length(method, MethodLen, FALSE)
                       /\ p = http_user_field_length(path, FieldLen, TRUE)
                       /\ n = http_user_field_length(authority, FieldLen, FALSE)
    BY Zenon
  <2>2. /\ m > 0 /\ p > 0
        /\ handle_nghttp2_emit(nva, http_copy_user_value(method, m), http_copy_user_value(path, p), authority)
    BY <1>8, <2>1, Zenon DEF handle_nghttp2_required
  <2>3. http_copy_user_value(method, m) = method /\ Clean(method)
    BY <1>4, <1>6, <2>1, <2>2, AcceptedWhole, ReadableClean, Zenon
  <2>4. PICK target : target = Until(path, 1, {"?"})
    BY Zenon
  <2>5. http_copy_user_value(path, p) = target /\ target \in Seq(Units) /\ Clean(target)
    BY <1>4, <1>6, <2>1, <2>2, <2>4, AcceptedPath, Sizes, Zenon
  <2>6. PICK host : host = WholeOrEmpty(authority)
    BY Zenon
  <2>7. /\ host = IF n < 0 THEN <<>> ELSE http_copy_user_value(authority, n)
        /\ host \in Seq(Units) /\ Clean(host)
    BY <1>4, <1>6, <2>1, <2>6, HostWhole, Zenon
  <2>8. submit(HttpSample("nghttp2", nva, method, target, host)) \/ discard
    BY <2>1, <2>2, <2>3, <2>5, <2>7, Zenon DEF handle_nghttp2_emit
  <2>9. <<method, target, host>> = ExpectedFields("nghttp2", nva)
    BY <1>3, <2>4, <2>6, Zenon DEF ExpectedFields
  <2>10. Good(HttpSample("nghttp2", nva, method, target, host))
    BY <1>4, <2>3, <2>5, <2>7, <2>9, HttpGood, Zenon
  <2> QED
    BY <2>8, <2>10, SubmitKeeps, DiscardKeeps, Zenon DEF handle_nghttp2_submit_request
<1> QED
  BY <1>5, <1>7, <1>8, Zenon DEF handle_nghttp2_submit_request

(* The sample of a Go request. *)
LEMMA GoKeeps ==
  ASSUME RingInv, handle_go_net_http_round_trip
  PROVE  RingInv' /\ UNCHANGED http_scratch
<1>1. PICK req \in Requests : skip \/ handle_go_net_http_required(req)
  BY Zenon DEF handle_go_net_http_round_trip
<1>2. req \in [https : BOOLEAN, method : Text, path : Text, host : Text, urlHost : Text]
  BY HttpInputs, Zenon
<1>3. /\ req.method \in Seq(Units) /\ req.path \in Seq(Units)
      /\ req.host \in Seq(Units) /\ req.urlHost \in Seq(Units)
  BY <1>2, Zenon DEF Text
<1>4. /\ CleanIfReadable(req.method) /\ CleanIfReadable(req.path)
      /\ CleanIfReadable(req.host) /\ CleanIfReadable(req.urlHost)
  BY Labelling, Zenon
<1>5. PICK method, path, value : /\ method = defaulted(req.method, <<"M">>)
                                 /\ path = defaulted(req.path, <<"/">>)
                                 /\ value = defaulted(req.host, req.urlHost)
  BY Zenon
<1>6. /\ method \in Seq(Units) /\ path \in Seq(Units) /\ value \in Seq(Units)
      /\ CleanIfReadable(method) /\ CleanIfReadable(path) /\ CleanIfReadable(value)
  BY <1>3, <1>4, <1>5, CleanUnit, CleanIsReadable, Zenon DEF defaulted
<1>7. CASE skip
  BY <1>7, SkipKeeps, Zenon DEF handle_go_net_http_round_trip
<1>8. CASE handle_go_net_http_required(req) /\ ~skip
  <2>1. PICK m, p, n : /\ m = http_user_field_length(method, MethodLen, FALSE)
                       /\ p = http_user_field_length(path, FieldLen, FALSE)
                       /\ n = http_user_field_length(value, FieldLen, FALSE)
    BY Zenon
  <2>2. m > 0 /\ p > 0 /\ handle_go_net_http_emit(req, method, path)
    BY <1>5, <1>8, <2>1, Zenon DEF handle_go_net_http_required, defaulted
  <2>3. Clean(method) /\ Clean(path)
    BY <1>6, <2>1, <2>2, AcceptedWhole, ReadableClean, Zenon
  <2>4. PICK host : host = WholeOrEmpty(value)
    BY Zenon
  <2>5. /\ host = IF n < 0 THEN <<>> ELSE http_copy_user_value(value, n)
        /\ host \in Seq(Units) /\ Clean(host)
    BY <1>6, <2>1, <2>4, HostWhole, Zenon
  <2>6. submit(HttpSample("go", req, method, path, host)) \/ discard
    BY <1>5, <2>1, <2>2, <2>5, Zenon DEF handle_go_net_http_emit, defaulted
  <2>7. <<method, path, host>> = ExpectedFields("go", req)
    BY <1>5, <2>4, Zenon DEF ExpectedFields
  <2>8. Good(HttpSample("go", req, method, path, host))
    BY <1>6, <2>3, <2>5, <2>7, HttpGood, Zenon
  <2> QED
    BY <2>6, <2>8, SubmitKeeps, DiscardKeeps, Zenon DEF handle_go_net_http_round_trip
<1> QED
  BY <1>1, <1>7, <1>8, Zenon DEF handle_go_net_http_round_trip

(* All HTTP taps. *)
LEMMA HttpKeeps ==
  ASSUME RingInv, ScratchFits(http_scratch), HttpNext
  PROVE  RingInv' /\ ScratchFits(http_scratch')
<1>1. CASE handle_tcp_sendmsg_http
  <2>1. PICK msg \in Messages : handle_http1(http_first_segment(msg))
    BY <1>1, Zenon DEF handle_tcp_sendmsg_http
  <2>2. PICK text : text = http_first_segment(msg)
    BY Zenon
  <2>3. text \in {msg.segs[1].data, <<>>}
    BY <2>2 DEF http_first_segment
  <2>4. text \in Seq(Units) /\ Labelled(text)
    BY <2>3, HttpInputs, Labelling, CleanEmpty, Zenon DEF Text
  <2> QED
    BY <2>1, <2>2, <2>4, Http1Keeps, Zenon
<1>2. CASE handle_ssl_write
  <2>1. PICK text \in Buffers : handle_http1(text)
    BY <1>2, Zenon DEF handle_ssl_write
  <2>2. text \in Seq(Units) /\ Labelled(text)
    BY HttpInputs, Labelling, Zenon DEF Text
  <2> QED
    BY <2>1, <2>2, Http1Keeps, Zenon
<1>3. CASE handle_nghttp2_submit_request
  BY <1>3, Nghttp2Keeps, Zenon
<1>4. CASE handle_go_net_http_round_trip
  BY <1>4, GoKeeps, Zenon
<1> QED
  BY <1>1, <1>2, <1>3, <1>4, Zenon DEF HttpNext

(***************************************************************************)
(* Samples made of parts                                                   *)
(***************************************************************************)

(* What userspace reads of a part is not private. *)
ShowsClean(part) == Clean(cString(part.memory))
GoodPart(part) == CompletePart(part) /\ ShowsClean(part)

(* A field shows nothing private when what is private is behind a NUL. *)
LEMMA CStringClean ==
  ASSUME NEW t \in Seq(Units),
         \A i \in 1 .. Len(t) : t[i] \in Private => \E j \in 1 .. i - 1 : t[j] = "NUL"
  PROVE  Clean(cString(t))
<1>1. DOMAIN t = 1 .. Len(t) /\ Len(t) \in Nat
  OBVIOUS
<1>2. {i \in DOMAIN t : t[i] = "NUL"} = {i \in 1 .. Len(t) : t[i] \in {"NUL"}}
  BY <1>1, Zenon
<1>3. cString(t) = Until(t, 1, {"NUL"})
  BY <1>2, Zenon DEF cString, Until
<1>4. PICK one, stops : one = 1 /\ stops = {"NUL"}
  BY Zenon
<1>5. one \in 1 .. Len(t) + 1
  BY <1>1, <1>4
<1>6. \A i \in one .. Len(t) : t[i] \in Private => \E j \in one .. i - 1 : t[j] \in stops
  BY <1>4, Zenon
<1>7. Clean(Until(t, one, stops))
  BY <1>5, <1>6, UntilClean, Zenon
<1> QED
  BY <1>3, <1>4, <1>7, Zenon

LEMMA MemoryClean ==
  ASSUME NEW t \in Seq(Units), Clean(t)
  PROVE  Clean(cString(t))
  BY CleanIs, CStringClean, Zenon

(* A part of clean memory that is flagged, or whole. *)
LEMMA PartGood ==
  ASSUME NEW memory \in Seq(Units), Clean(memory), NEW flagged, NEW real, flagged \/ memory = real
  PROVE  GoodPart(Part(memory, flagged, real))
<1>1. PICK p : p = Part(memory, flagged, real)
  BY Zenon
<1>2. p.memory = memory /\ p.flagged = flagged /\ p.real = real
  BY <1>1 DEF Part
<1>3. CompletePart(p)
  BY <1>2, Zenon DEF CompletePart
<1>4. ShowsClean(p)
  BY <1>2, MemoryClean, Zenon DEF ShowsClean
<1> QED
  BY <1>1, <1>3, <1>4, Zenon DEF GoodPart

(* A sample whose parts are complete or flagged, and show nothing private. *)
LEMMA PartsGood ==
  ASSUME NEW kind, kind \notin {"http", "dns"}, NEW parts,
         \A j \in DOMAIN parts : /\ ShowsClean(parts[j])
                                 /\ CompletePart(parts[j]) \/ (kind \in {"symlink", "exec"} /\ j = 2)
  PROVE  Good(Sample(kind, parts))
<1>1. PICK s : s = Sample(kind, parts)
  BY Zenon
<1>2. s.kind = kind /\ s.parts = parts
  BY <1>1 DEF Sample
<1>3. Visible(s) = UNION {Range(cString(parts[j].memory)) : j \in DOMAIN parts}
  BY <1>2 DEF Visible
<1>4. Visible(s) \cap Private = {}
  BY <1>3, Zenon DEF ShowsClean, Clean
<1>5. Good(s)
  BY <1>2, <1>4, Zenon DEF Good
<1> QED
  BY <1>1, <1>5, Zenon

LEMMA NoPartsGood ==
  ASSUME NEW kind, kind \notin {"http", "dns"}
  PROVE  Good(Sample(kind, <<>>))
<1>1. DOMAIN <<>> = {}
  OBVIOUS
<1>2. \A j \in DOMAIN <<>> : FALSE
  BY <1>1, Zenon
<1> QED
  BY <1>2, PartsGood, Zenon

LEMMA OnePartGood ==
  ASSUME NEW kind, kind \notin {"http", "dns"}, NEW p, GoodPart(p)
  PROVE  Good(Sample(kind, <<p>>))
<1>1. PICK parts : parts = <<p>>
  BY Zenon
<1>2. DOMAIN parts = {1} /\ parts[1] = p
  BY <1>1
<1>3. \A j \in DOMAIN parts : ShowsClean(parts[j]) /\ CompletePart(parts[j])
  BY <1>2, Zenon DEF GoodPart
<1> QED
  BY <1>1, <1>3, PartsGood, Zenon

LEMMA TwoPartsGood ==
  ASSUME NEW kind, kind \notin {"http", "dns"}, NEW p, GoodPart(p), NEW q, ShowsClean(q),
         CompletePart(q) \/ kind \in {"symlink", "exec"}
  PROVE  Good(Sample(kind, <<p, q>>))
<1>1. PICK parts : parts = <<p, q>>
  BY Zenon
<1>2. DOMAIN parts = {1, 2} /\ parts[1] = p /\ parts[2] = q
  BY <1>1
<1>3. \A j \in DOMAIN parts : ShowsClean(parts[j]) /\ (CompletePart(parts[j]) \/ (kind \in {"symlink", "exec"} /\ j = 2))
  BY <1>2, Zenon DEF GoodPart
<1> QED
  BY <1>1, <1>3, PartsGood, Zenon

(* The start of a text, as long as the field. *)
LEMMA StartIs ==
  ASSUME NEW t \in Seq(Units), NEW k \in Nat
  PROVE  /\ Least(Len(t), k) \in Nat /\ Least(Len(t), k) <= Len(t)
         /\ SubSeq(t, 1, Least(Len(t), k)) \in Seq(Units)
         /\ Clean(t) => Clean(SubSeq(t, 1, Least(Len(t), k)))
         /\ Len(t) <= k => SubSeq(t, 1, Least(Len(t), k)) = t
<1>1. PICK n : n = Least(Len(t), k)
  BY Zenon
<1>2. Len(t) \in Nat
  OBVIOUS
<1>3. n \in Nat /\ n <= Len(t) /\ (Len(t) <= k => n = Len(t)) /\ n \in Int
  BY <1>1, <1>2 DEF Least
<1>4. SubSeq(t, 1, n) \in Seq(Units)
  BY <1>3
<1>5. ASSUME Clean(t)
      PROVE  Clean(SubSeq(t, 1, n))
  <2>1. \A i \in 1 .. n : i \in 1 .. Len(t)
    BY <1>2, <1>3
  <2>2. \A i \in 1 .. n : t[i] \notin Private
    BY <1>5, <2>1, CleanIs, Zenon
  <2>3. 1 \in Nat \ {0}
    OBVIOUS
  <2> QED
    BY <1>3, <2>2, <2>3, CleanPart, Zenon
<1>6. ASSUME Len(t) <= k
      PROVE  SubSeq(t, 1, n) = t
  BY <1>3, <1>6, WholeSubSeq, Zenon
<1> QED
  BY <1>1, <1>3, <1>4, <1>5, <1>6, Zenon

(* The start of a text that could be read. *)
LEMMA StartClean ==
  ASSUME NEW t \in Seq(Units), CleanIfReadable(t), NEW k \in Nat,
         "fault" \notin Range(SubSeq(t, 1, Least(Len(t), k)))
  PROVE  Clean(SubSeq(t, 1, Least(Len(t), k)))
<1>1. PICK p, n : n = Least(Len(t), k) /\ p = SubSeq(t, 1, n)
  BY Zenon
<1>2. n \in Nat /\ n <= Len(t)
  BY <1>1, StartIs, Zenon
<1>3. /\ p \in Seq(Units) /\ DOMAIN p = 1 .. Len(p) /\ DOMAIN t = 1 .. Len(t)
      /\ \A i \in 1 .. Len(p) : p[i] = t[i] /\ i \in 1 .. Len(t)
  BY <1>1, <1>2
<1>4. \A i \in 1 .. Len(t) : t[i] \notin Private \ {"fault"}
  BY <1>3, Zenon DEF CleanIfReadable, Range
<1>5. \A i \in 1 .. Len(p) : p[i] # "fault"
  BY <1>1, <1>3, Zenon DEF Range
<1>6. \A i \in 1 .. Len(p) : p[i] \notin Private
  BY <1>3, <1>4, <1>5, Zenon
<1> QED
  BY <1>1, <1>3, <1>6, CleanIs, Zenon

(***************************************************************************)
(* The DNS payload                                                         *)
(***************************************************************************)

Segment == [data : Text, ok : BOOLEAN, described : BOOLEAN]

(* Nothing is a part of everything. *)
LEMMA SubsequenceEmpty ==
  ASSUME NEW t
  PROVE  IsSubsequence(<<>>, t)
<1>1. PICK e : e = <<>>
  BY Zenon
<1>2. DOMAIN e = {} /\ e \in [DOMAIN e -> DOMAIN t]
  BY <1>1
<1>3. IsSubsequence(e, t)
  BY <1>2, Zenon DEF IsSubsequence
<1> QED
  BY <1>1, <1>3, Zenon

(* The start of what follows may be appended, or nothing of it. *)
LEMMA SubsequenceExtends ==
  ASSUME NEW V, NEW s \in Seq(V), NEW t \in Seq(V), NEW u \in Seq(V), IsSubsequence(s, t),
         NEW n \in Nat, n <= Len(u)
  PROVE  IsSubsequence(s \o SubSeq(u, 1, n), t \o u)
<1>1. /\ DOMAIN s = 1 .. Len(s) /\ DOMAIN t = 1 .. Len(t)
      /\ Len(s) \in Nat /\ Len(t) \in Nat /\ Len(u) \in Nat
  OBVIOUS
<1>2. PICK at \in [1 .. Len(s) -> 1 .. Len(t)] :
        /\ \A m \in 1 .. Len(s) : s[m] = t[at[m]]
        /\ \A k, m \in 1 .. Len(s) : k < m => at[k] < at[m]
  BY <1>1, Zenon DEF IsSubsequence
<1>3. PICK w : w = SubSeq(u, 1, n)
  BY Zenon
<1>4. w \in Seq(V) /\ Len(w) = n /\ \A i \in 1 .. n : w[i] = u[i]
  BY <1>3
<1>5. PICK sw, tu : sw = s \o w /\ tu = t \o u
  BY Zenon
<1>a. Joins(sw, s, w) /\ Joins(tu, t, u)
  BY <1>4, <1>5, ConcatIs, Zenon
<1>6. /\ DOMAIN sw = 1 .. Len(s) + n
      /\ \A i \in 1 .. Len(s) : sw[i] = s[i]
      /\ \A i \in 1 .. n : sw[Len(s) + i] = w[i]
  BY <1>4, <1>a, Zenon DEF Joins
<1>7. /\ DOMAIN tu = 1 .. Len(t) + Len(u)
      /\ \A i \in 1 .. Len(t) : tu[i] = t[i]
      /\ \A i \in 1 .. Len(u) : tu[Len(t) + i] = u[i]
  BY <1>a, Zenon DEF Joins
<1> DEFINE to == [m \in 1 .. Len(s) + n |-> IF m <= Len(s) THEN at[m] ELSE Len(t) + (m - Len(s))]
<1>8. \A m \in 1 .. Len(s) + n :
        \/ m \in 1 .. Len(s) /\ to[m] = at[m] /\ at[m] \in 1 .. Len(t)
        \/ /\ ~(m <= Len(s)) /\ m - Len(s) \in 1 .. n /\ m = Len(s) + (m - Len(s)) /\ m - Len(s) \in 1 .. Len(u)
           /\ to[m] = Len(t) + (m - Len(s))
  BY <1>1
<1>9. \A m \in 1 .. Len(s) + n : to[m] \in 1 .. Len(t) + Len(u)
  BY <1>1, <1>8
<1>10. to \in [1 .. Len(s) + n -> 1 .. Len(t) + Len(u)]
  BY <1>9
<1> HIDE DEF to
<1>11. ASSUME NEW m \in 1 .. Len(s) + n
       PROVE  sw[m] = tu[to[m]]
  <2>1. CASE m \in 1 .. Len(s) /\ to[m] = at[m] /\ at[m] \in 1 .. Len(t)
    <3>1. sw[m] = s[m] /\ s[m] = t[at[m]]
      BY <1>2, <1>6, <2>1, Zenon
    <3>2. tu[at[m]] = t[at[m]] /\ tu[to[m]] = tu[at[m]]
      BY <1>7, <2>1, Zenon
    <3> QED
      BY <3>1, <3>2, Zenon
  <2>2. CASE /\ ~(m <= Len(s)) /\ m - Len(s) \in 1 .. n /\ m = Len(s) + (m - Len(s)) /\ m - Len(s) \in 1 .. Len(u)
             /\ to[m] = Len(t) + (m - Len(s))
    <3>1. PICK i : i = m - Len(s)
      BY Zenon
    <3>2. i \in 1 .. n /\ m = Len(s) + i /\ i \in 1 .. Len(u) /\ to[m] = Len(t) + i
      BY <2>2, <3>1, Zenon
    <3>3. sw[Len(s) + i] = w[i] /\ w[i] = u[i]
      BY <1>4, <1>6, <3>2, Zenon
    <3>4. tu[Len(t) + i] = u[i]
      BY <1>7, <3>2, Zenon
    <3>5. sw[m] = sw[Len(s) + i] /\ tu[to[m]] = tu[Len(t) + i]
      BY <3>2, Zenon
    <3> QED
      BY <3>3, <3>4, <3>5, Zenon
  <2> QED
    BY <1>8, <2>1, <2>2, Zenon
<1>12. ASSUME NEW k \in 1 .. Len(s) + n, NEW m \in 1 .. Len(s) + n, k < m
       PROVE  to[k] < to[m]
  <2>1. CASE m <= Len(s)
    <3>1. k \in 1 .. Len(s) /\ m \in 1 .. Len(s) /\ k <= Len(s)
      BY <1>1, <1>12, <2>1
    <3>2. to[k] = at[k] /\ to[m] = at[m]
      BY <1>8, <2>1, <3>1, Zenon
    <3> QED
      BY <1>2, <1>12, <3>1, <3>2, Zenon
  <2>2. CASE ~(m <= Len(s))
    <3>1. to[m] = Len(t) + (m - Len(s))
      BY <1>1, <1>8, <2>2
    <3>2. CASE k <= Len(s)
      <4>1. to[k] = at[k] /\ at[k] \in 1 .. Len(t)
        BY <1>8, <3>2, Zenon
      <4>2. \A a \in 1 .. Len(t) : a < Len(t) + (m - Len(s))
        BY <1>1, <2>2
      <4> QED
        BY <3>1, <4>1, <4>2, Zenon
    <3>3. CASE ~(k <= Len(s))
      <4>1. to[k] = Len(t) + (k - Len(s))
        BY <1>1, <1>8, <3>3, SMTT(30)
      <4>2. Len(t) + (k - Len(s)) < Len(t) + (m - Len(s))
        BY <1>1, <1>12
      <4> QED
        BY <3>1, <4>1, <4>2, Zenon
    <3> QED
      BY <3>2, <3>3, Zenon
  <2> QED
    BY <2>1, <2>2, Zenon
<1>13. IsSubsequence(sw, tu)
  BY <1>6, <1>7, <1>10, <1>11, <1>12, ZenonT(30) DEF IsSubsequence
<1> QED
  BY <1>3, <1>5, <1>13, Zenon

LEMMA SubsequenceOfLonger ==
  ASSUME NEW V, NEW s \in Seq(V), NEW t \in Seq(V), NEW u \in Seq(V), IsSubsequence(s, t)
  PROVE  IsSubsequence(s, t \o u)
<1>1. 0 \in Nat /\ 0 <= Len(u)
  OBVIOUS
<1>2. IsSubsequence(s \o SubSeq(u, 1, 0), t \o u)
  BY <1>1, SubsequenceExtends, Zenon
<1>3. s \o SubSeq(u, 1, 0) = s
  <2>1. SubSeq(u, 1, 0) = <<>>
    OBVIOUS
  <2>2. s \o <<>> = s
    OBVIOUS
  <2> QED
    BY <2>1, <2>2, Zenon
<1> QED
  BY <1>2, <1>3, Zenon

(* A part of a clean text is clean. *)
LEMMA SubsequenceClean ==
  ASSUME NEW s, NEW t, IsSubsequence(s, t), Clean(t)
  PROVE  Clean(s)
<1>1. PICK at \in [DOMAIN s -> DOMAIN t] : \A m \in DOMAIN s : s[m] = t[at[m]]
  BY Zenon DEF IsSubsequence
<1>2. \A m \in DOMAIN s : at[m] \in DOMAIN t
  BY <1>1, Zenon
<1> QED
  BY <1>1, <1>2, Zenon DEF Clean, Range

(* The bytes of the first segments, one segment after the other. *)
LEMMA LogicalIs ==
  ASSUME NEW segs \in Seq(Segment)
  PROVE  /\ LogicalUpTo(segs) \in [0 .. Len(segs) -> Seq(Units)]
         /\ LogicalUpTo(segs)[0] = <<>>
         /\ \A k \in 1 .. Len(segs) :
              /\ LogicalUpTo(segs)[k] = LogicalUpTo(segs)[k - 1] \o segs[k].data
              /\ segs[k].data \in Seq(Units) /\ k - 1 \in 0 .. Len(segs)
<1>1. PICK n, e, V : n = Len(segs) /\ e = <<>> /\ V = Seq(Units)
  BY Zenon
<1>2. n \in Nat /\ e \in V
  BY <1>1
<1>a. \A k \in 1 .. n : segs[k] \in Segment
  BY <1>1, ElementIs, Zenon
<1>3. \A k \in 1 .. n : segs[k].data \in Seq(Units)
  BY <1>a, Zenon DEF Segment, Text
<1>4. PICK F : F = [i \in 1 .. n |-> [v \in V |-> v \o segs[i].data]]
  BY Zenon
<1>5. \A i \in 1 .. n : \A v \in V : F[i][v] = v \o segs[i].data
  BY <1>4, Zenon
<1>6. \A i \in 1 .. n : \A v \in V : v \o segs[i].data \in V
  BY <1>1, <1>3
<1>b. PICK z : z = 0
  BY Zenon
<1>7. StepsWithin(F, V, z, n)
  <2>1. z + 1 = 1
    BY <1>b
  <2> QED
    BY <1>5, <1>6, <2>1, Zenon DEF StepsWithin
<1>8. z \in Int /\ n \in Int /\ z <= n
  BY <1>2, <1>b
<1>c. PICK g : Iterates(g, F, e, V, z, n)
  BY <1>2, <1>7, <1>8, Recursion, Zenon
<1>9. g \in [0 .. n -> V] /\ \A i \in 0 .. n : g[i] = IF i = 0 THEN e ELSE F[i][g[i - 1]]
  BY <1>b, <1>c, Zenon DEF Iterates
<1>10. \A i \in 0 .. n : i = 0 \/ (i \in 1 .. n /\ i - 1 \in 0 .. n)
  BY <1>2
<1>11. \A i \in 0 .. n : g[i] = IF i = 0 THEN e ELSE g[i - 1] \o segs[i].data
  BY <1>5, <1>9, <1>10, Zenon
<1> DEFINE Rec(f) == f = [k \in 0 .. n |-> IF k = 0 THEN e ELSE f[k - 1] \o segs[k].data]
<1>12. Rec(g)
  BY <1>9, <1>11, Zenon
<1>13. LogicalUpTo(segs) = CHOOSE f : Rec(f)
  BY <1>1, Zenon DEF LogicalUpTo
<1>14. PICK f : f = LogicalUpTo(segs)
  BY Zenon
<1>15. Rec(f)
  BY <1>12, <1>13, <1>14, Zenon
<1>16. f = [k \in 0 .. n |-> IF k = 0 THEN e ELSE f[k - 1] \o segs[k].data]
  BY <1>15, Zenon
<1> HIDE DEF Rec
<1>17. \A k \in 0 .. n : f[k] = IF k = 0 THEN e ELSE f[k - 1] \o segs[k].data
  BY <1>16, Zenon
<1>18. 0 \in 0 .. n /\ \A k \in 1 .. n : k # 0 /\ k \in 0 .. n /\ k - 1 \in 0 .. n
  BY <1>2
<1>19. f[0] = e /\ \A k \in 1 .. n : f[k] = f[k - 1] \o segs[k].data
  BY <1>17, <1>18, Zenon
<1> DEFINE T == {k \in 0 .. n : f[k] \in V}
<1>20. 0 \in T
  BY <1>2, <1>18, <1>19, Zenon
<1>21. ASSUME NEW k \in 0 .. n - 1, k \in T
       PROVE  k + 1 \in T
  <2>1. k + 1 \in 1 .. n /\ k + 1 \in 0 .. n /\ (k + 1) - 1 = k
    BY <1>2
  <2>2. f[k + 1] = f[k] \o segs[k + 1].data
    BY <1>19, <2>1, Zenon
  <2> QED
    BY <1>6, <1>21, <2>1, <2>2, Zenon
<1> HIDE DEF T
<1>22. 0 .. n \subseteq T
  BY <1>8, <1>b, <1>20, <1>21, Induction, Zenon
<1>23. \A k \in 0 .. n : f[k] \in V
  BY <1>22, Zenon DEF T
<1>24. f \in [0 .. n -> V]
  BY <1>16, <1>23, Zenon
<1> QED
  BY <1>1, <1>3, <1>14, <1>18, <1>19, <1>24, Zenon

(* The state of the loop over the segments, and what it has written. *)
Loop == {v \in [payload : Seq(Units), written : Nat, done : BOOLEAN] :
           Len(v.payload) = PayloadLen /\ v.written <= PayloadLen}
Filled(v) == SubSeq(v.payload, 1, v.written)

LEMMA LoopIs ==
  ASSUME NEW v \in Loop
  PROVE  /\ v.payload \in Seq(Units) /\ Len(v.payload) = PayloadLen
         /\ v.written \in Nat /\ v.written <= PayloadLen /\ v.done \in BOOLEAN
         /\ v = [payload |-> v.payload, written |-> v.written, done |-> v.done]
  BY DEF Loop

LEMMA PayloadSizes == /\ PayloadLen \in Nat /\ PerIov \in Nat /\ PerIov > 0 /\ MaxIov \in Nat
                      /\ PayloadLen >= 2 * PerIov
  BY HooksAssumption

(* A read at the base of a segment starts with the bytes it counts for. *)
LEMMA LiteralReadIs ==
  ASSUME NEW data \in Seq(Units), NEW seg \in Segment, seg.data = data
  PROVE  /\ literalRead(seg) \in Seq(Units) /\ Len(literalRead(seg)) = PerIov
         /\ credit(seg) \in Nat /\ credit(seg) <= Len(data) /\ credit(seg) <= PerIov
         /\ Len(data) <= PerIov => credit(seg) = Len(data)
         /\ \A i \in 1 .. credit(seg) : literalRead(seg)[i] = data[i]
<1>1. Len(data) \in Nat /\ PerIov \in Nat
  BY PayloadSizes
<1>2. PICK n, l : /\ n = Least(Len(data), PerIov)
                  /\ l = [i \in 1 .. PerIov |-> IF i <= Len(data) THEN data[i] ELSE "over"]
  BY Zenon
<1>3. credit(seg) = n /\ literalRead(seg) = l
  BY <1>2, Zenon DEF credit, literalRead
<1>4. n \in Nat /\ n <= Len(data) /\ n <= PerIov /\ (Len(data) <= PerIov => n = Len(data))
  BY <1>1, <1>2 DEF Least
<1>5. "over" \in Units
  BY RingAssumption
<1>6. \A i \in 1 .. PerIov : i <= Len(data) => data[i] \in Units
  BY <1>1
<1>7. l \in [1 .. PerIov -> Units]
  BY <1>2, <1>5, <1>6, Zenon
<1>8. l \in Seq(Units) /\ Len(l) = PerIov
  BY <1>1, <1>7
<1>9. \A i \in 1 .. n : i \in 1 .. PerIov /\ i <= Len(data)
  BY <1>1, <1>4
<1>10. \A i \in 1 .. n : l[i] = data[i]
  BY <1>2, <1>9, Zenon
<1> QED
  BY <1>3, <1>4, <1>8, <1>10, Zenon

(* Appending a segment adds the bytes it counts for, and no others. *)
LEMMA AppendedIs ==
  ASSUME NEW st \in Loop, NEW seg \in Segment, st.written <= PayloadLen - PerIov, NEW r,
         r = [st EXCEPT !.payload = SubSeq(st.payload, 1, st.written)
                                      \o copy(SubSeq(st.payload, st.written + 1, Len(st.payload)), literalRead(seg)),
                        !.written = @ + credit(seg)]
  PROVE  /\ r \in Loop /\ r.done = st.done
         /\ Filled(r) = Filled(st) \o SubSeq(seg.data, 1, credit(seg))
<1>1. PICK P, w, data, n, l : /\ P = st.payload /\ w = st.written /\ data = seg.data
                              /\ n = credit(seg) /\ l = literalRead(seg)
  BY Zenon
<1>2. P \in Seq(Units) /\ Len(P) = PayloadLen /\ w \in Nat /\ w <= PayloadLen - PerIov
  BY <1>1, LoopIs, Zenon
<1>3. data \in Seq(Units)
  BY <1>1, Zenon DEF Segment, Text
<1>4. /\ l \in Seq(Units) /\ Len(l) = PerIov /\ n \in Nat /\ n <= Len(data) /\ n <= PerIov
      /\ \A i \in 1 .. n : l[i] = data[i]
  BY <1>1, <1>3, LiteralReadIs, Zenon
<1>5. PICK before, behind : before = SubSeq(P, 1, w) /\ behind = SubSeq(P, w + 1, Len(P))
  BY Zenon
<1>6. before \in Seq(Units) /\ Len(before) = w
  BY <1>2, <1>5, PayloadSizes
<1>7. behind \in Seq(Units) /\ Len(behind) = PayloadLen - w /\ Len(behind) >= PerIov
  BY <1>2, <1>5, PayloadSizes
<1>8. PICK c : c = copy(behind, l)
  BY Zenon
<1>9. /\ c \in Seq(Units) /\ Len(c) = (IF Len(behind) >= Len(l) THEN Len(behind) ELSE Len(l))
      /\ \A i \in 1 .. Len(l) : c[i] = l[i]
  BY <1>4, <1>7, <1>8, CopyIs, Zenon
<1>10. Len(c) = PayloadLen - w
  BY <1>4, <1>7, <1>9, Zenon
<1>11. PICK p : p = before \o c
  BY Zenon
<1>12. p \in Seq(Units) /\ Joins(p, before, c)
  BY <1>6, <1>9, <1>11, ConcatIs, Zenon
<1>13. Len(p) = w + (PayloadLen - w)
  BY <1>6, <1>10, <1>12, Zenon DEF Joins
<1>14. Len(p) = PayloadLen /\ w + n \in Nat /\ w + n <= PayloadLen
  BY <1>2, <1>4, <1>13, PayloadSizes, SMTT(30)
<1>15. r = [st EXCEPT !.payload = p, !.written = w + n]
  BY <1>1, <1>5, <1>8, <1>11, SMTT(30)
<1>16. r \in Loop /\ r.payload = p /\ r.written = w + n /\ r.done = st.done
  BY <1>12, <1>14, <1>15, Zenon DEF Loop
<1>17. PICK a, d : a = SubSeq(p, 1, w + n) /\ d = SubSeq(data, 1, n)
  BY Zenon
<1>18. a \in Seq(Units) /\ Len(a) = w + n /\ \A i \in 1 .. w + n : a[i] = p[i]
  BY <1>12, <1>14, <1>17
<1>19. d \in Seq(Units) /\ Len(d) = n /\ \A i \in 1 .. n : d[i] = data[i]
  BY <1>3, <1>4, <1>17, SMTT(30)
<1>20. PICK b : b = before \o d
  BY Zenon
<1>21. b \in Seq(Units) /\ Joins(b, before, d)
  BY <1>6, <1>19, <1>20, ConcatIs, Zenon
<1>22. Len(b) = w + n
  BY <1>6, <1>19, <1>21, Zenon DEF Joins
<1>23. ASSUME NEW i \in 1 .. w
       PROVE  p[i] = b[i]
  <2>1. p[i] = before[i] /\ b[i] = before[i]
    BY <1>6, <1>12, <1>21, Zenon DEF Joins
  <2> QED
    BY <2>1, Zenon
<1>24. ASSUME NEW i \in 1 .. n
       PROVE  p[w + i] = b[w + i]
  <2>1. i \in 1 .. Len(l) /\ i \in 1 .. Len(c)
    BY <1>2, <1>4, <1>10, PayloadSizes, SMTT(30)
  <2>2. p[w + i] = c[i] /\ b[w + i] = d[i]
    BY <1>6, <1>12, <1>19, <1>21, <2>1, Zenon DEF Joins
  <2>3. c[i] = l[i] /\ l[i] = data[i] /\ d[i] = data[i]
    BY <1>4, <1>9, <1>19, <2>1, Zenon
  <2> QED
    BY <2>2, <2>3, Zenon
<1>25. \A i \in 1 .. w + n : i \in 1 .. w \/ \E j \in 1 .. n : i = w + j
  <2> TAKE i \in 1 .. w + n
  <2>1. i \notin 1 .. w => i - w \in 1 .. n /\ i = w + (i - w)
    BY <1>2, <1>4
  <2> QED
    BY <2>1, Zenon
<1>26. \A i \in 1 .. Len(a) : a[i] = b[i]
  BY <1>18, <1>23, <1>24, <1>25, Zenon
<1>27. a = b
  BY <1>18, <1>21, <1>22, <1>26, SameSeq, Zenon
<1>28. Filled(r) = a /\ Filled(st) = before
  BY <1>1, <1>5, <1>16, <1>17, Zenon DEF Filled
<1> QED
  BY <1>1, <1>16, <1>17, <1>20, <1>27, <1>28, Zenon

(* One step of the loop: the start of the segment, or nothing, is added. *)
LEMMA StepIs ==
  ASSUME NEW st \in Loop, NEW seg \in Segment, NEW r, r = appendSegment(st, seg)
  PROVE  /\ r \in Loop
         /\ \E n \in Nat : n <= Len(seg.data) /\ Filled(r) = Filled(st) \o SubSeq(seg.data, 1, n)
<1>1. PICK P, w, data : P = st.payload /\ w = st.written /\ data = seg.data
  BY Zenon
<1>2. P \in Seq(Units) /\ Len(P) = PayloadLen /\ w \in Nat /\ w <= PayloadLen
  BY <1>1, LoopIs, Zenon
<1>3. data \in Seq(Units)
  BY <1>1, Zenon DEF Segment, Text
<1>4. \/ r = [st EXCEPT !.done = TRUE]
      \/ r = st
      \/ /\ data # <<>> /\ ~(data # <<>> /\ w > PayloadLen - PerIov)
         /\ r = [st EXCEPT !.payload = SubSeq(st.payload, 1, st.written)
                                      \o copy(SubSeq(st.payload, st.written + 1, Len(st.payload)), literalRead(seg)),
                           !.written = @ + credit(seg)]
  BY <1>1, Zenon DEF appendSegment
<1>5. CASE r \in Loop /\ Filled(r) = Filled(st)
  <2>1. PICK f : f = Filled(st)
    BY Zenon
  <2>2. f \in Seq(Units)
    BY <1>1, <1>2, <2>1 DEF Filled
  <2>3. f \o SubSeq(data, 1, 0) = f
    <3>1. SubSeq(data, 1, 0) = <<>>
      BY <1>3
    <3>2. f \o <<>> = f
      BY <2>2
    <3> QED
      BY <3>1, <3>2, Zenon
  <2>4. 0 \in Nat /\ 0 <= Len(data)
    BY <1>3
  <2> QED
    BY <1>1, <1>5, <2>1, <2>3, <2>4, Zenon
<1>6. CASE r = [st EXCEPT !.done = TRUE]
  <2>1. r \in Loop /\ r.payload = st.payload /\ r.written = st.written
    BY <1>6, Zenon DEF Loop
  <2> QED
    BY <1>5, <2>1, Zenon DEF Filled
<1>7. CASE r = st
  BY <1>5, <1>7, Zenon
<1>8. CASE /\ data # <<>> /\ ~(data # <<>> /\ w > PayloadLen - PerIov)
           /\ r = [st EXCEPT !.payload = SubSeq(st.payload, 1, st.written)
                                      \o copy(SubSeq(st.payload, st.written + 1, Len(st.payload)), literalRead(seg)),
                             !.written = @ + credit(seg)]
  <2>1. ~(w > PayloadLen - PerIov)
    BY <1>8, Zenon
  <2>2. w <= PayloadLen - PerIov
    BY <1>2, <2>1, PayloadSizes
  <2>3. r \in Loop /\ Filled(r) = Filled(st) \o SubSeq(seg.data, 1, credit(seg))
    BY <1>1, <1>8, <2>2, AppendedIs, Zenon
  <2>4. credit(seg) \in Nat /\ credit(seg) <= Len(seg.data)
    BY <1>1, <1>3, LiteralReadIs, Zenon
  <2> QED
    BY <2>3, <2>4, Zenon
<1> QED
  BY <1>4, <1>6, <1>7, <1>8, Zenon

(* A readable segment that fits the chunk is added whole. *)
LEMMA StepFits ==
  ASSUME NEW st \in Loop, NEW seg \in Segment, NEW r, r = appendSegment(st, seg),
         st.done = FALSE, seg.ok, seg.described, st.written + Len(seg.data) <= PerIov
  PROVE  r.done = FALSE /\ Filled(r) = Filled(st) \o seg.data
<1>1. PICK P, w, data : P = st.payload /\ w = st.written /\ data = seg.data
  BY Zenon
<1>2. P \in Seq(Units) /\ Len(P) = PayloadLen /\ w \in Nat
  BY <1>1, LoopIs, Zenon
<1>3. data \in Seq(Units)
  BY <1>1, Zenon DEF Segment, Text
<1>4. Len(data) \in Nat /\ w + Len(data) <= PerIov
  BY <1>1, <1>3
<1>5. ~(w >= PayloadLen) /\ ~(w > PayloadLen - PerIov) /\ w <= PayloadLen - PerIov /\ Len(data) <= PerIov
  BY <1>2, <1>4, PayloadSizes
<1>6. \/ data = <<>> /\ r = st
      \/ r = [st EXCEPT !.payload = SubSeq(st.payload, 1, st.written)
                                      \o copy(SubSeq(st.payload, st.written + 1, Len(st.payload)), literalRead(seg)),
                        !.written = @ + credit(seg)]
  BY <1>1, <1>5, Zenon DEF appendSegment
<1>7. CASE data = <<>> /\ r = st
  <2>1. PICK f : f = Filled(st)
    BY Zenon
  <2>2. f \in Seq(Units)
    BY <1>1, <1>2, <1>5, <2>1, PayloadSizes, SMTT(30) DEF Filled
  <2>3. f \o <<>> = f
    BY <2>2
  <2> QED
    BY <1>1, <1>7, <2>1, <2>3, Zenon
<1>8. CASE r = [st EXCEPT !.payload = SubSeq(st.payload, 1, st.written)
                                      \o copy(SubSeq(st.payload, st.written + 1, Len(st.payload)), literalRead(seg)),
                          !.written = @ + credit(seg)]
  <2>1. r.done = FALSE /\ Filled(r) = Filled(st) \o SubSeq(seg.data, 1, credit(seg))
    BY <1>1, <1>5, <1>8, AppendedIs, Zenon
  <2>2. credit(seg) = Len(data)
    BY <1>1, <1>3, <1>5, LiteralReadIs, Zenon
  <2>3. SubSeq(data, 1, Len(data)) = data
    BY <1>3, WholeSubSeq, Zenon
  <2> QED
    BY <1>1, <2>1, <2>2, <2>3, Zenon
<1> QED
  BY <1>6, <1>7, <1>8, Zenon

(* The loop, one segment after the other. *)
LEMMA IterationsAre ==
  ASSUME NEW segs \in Seq(Segment), NEW n, n = Least(Len(segs), MaxIov), NEW it, it = iterations(segs)
  PROVE  /\ n \in Nat /\ n <= Len(segs) /\ (Len(segs) <= MaxIov => n = Len(segs))
         /\ \A k \in 0 .. n : it[k] \in Loop
         /\ it[0].written = 0 /\ it[0].done = FALSE
         /\ \A k \in 1 .. n : it[k] = appendSegment(it[k - 1], segs[k]) /\ segs[k] \in Segment
<1>1. n \in Nat /\ n <= Len(segs) /\ (Len(segs) <= MaxIov => n = Len(segs))
  BY PayloadSizes DEF Least
<1>2. PICK old, c : old = [i \in 1 .. PayloadLen |-> "old"] /\ c = [payload |-> old, written |-> 0, done |-> FALSE]
  BY Zenon
<1>3. c \in Loop /\ c.written = 0 /\ c.done = FALSE
  <2>1. "old" \in Units
    BY RingAssumption
  <2>2. old \in [1 .. PayloadLen -> Units]
    BY <1>2, <2>1, Zenon
  <2>3. old \in Seq(Units) /\ Len(old) = PayloadLen
    BY <2>2, PayloadSizes
  <2>4. c.payload = old /\ c.written = 0 /\ c.done = FALSE
    BY <1>2
  <2>5. 0 \in Nat /\ 0 <= PayloadLen
    BY PayloadSizes
  <2> QED
    BY <1>2, <2>3, <2>4, <2>5, Zenon DEF Loop
<1>4. \A k \in 1 .. n : k \in 1 .. Len(segs)
  BY <1>1
<1>5. \A k \in 1 .. n : segs[k] \in Segment
  BY <1>4, ElementIs, Zenon
<1>6. PICK F : F = [i \in 1 .. n |-> [v \in Loop |-> appendSegment(v, segs[i])]]
  BY Zenon
<1>7. \A i \in 1 .. n : \A v \in Loop : F[i][v] = appendSegment(v, segs[i])
  BY <1>6, Zenon
<1>8. \A i \in 1 .. n : \A v \in Loop : appendSegment(v, segs[i]) \in Loop
  BY <1>5, StepIs, Zenon
<1>9. PICK z : z = 0
  BY Zenon
<1>10. StepsWithin(F, Loop, z, n)
  <2>1. z + 1 = 1
    BY <1>9
  <2>2. \A i \in 1 .. n : \A v \in Loop : F[i][v] \in Loop
    BY <1>7, <1>8, Zenon
  <2> QED
    BY <2>1, <2>2, Zenon DEF StepsWithin
<1>11. z \in Int /\ n \in Int /\ z <= n
  BY <1>1, <1>9
<1>12. PICK g : Iterates(g, F, c, Loop, z, n)
  BY <1>3, <1>10, <1>11, Recursion, Zenon
<1>13. g \in [0 .. n -> Loop] /\ \A i \in 0 .. n : g[i] = IF i = 0 THEN c ELSE F[i][g[i - 1]]
  BY <1>9, <1>12, Zenon DEF Iterates
<1>14. \A i \in 0 .. n : i = 0 \/ (i \in 1 .. n /\ i - 1 \in 0 .. n)
  BY <1>1
<1>15. \A i \in 0 .. n : g[i] = IF i = 0 THEN c ELSE appendSegment(g[i - 1], segs[i])
  BY <1>7, <1>13, <1>14, Zenon
<1> DEFINE Rec(f) == f = [k \in 0 .. n |-> IF k = 0 THEN c ELSE appendSegment(f[k - 1], segs[k])]
<1>16. Rec(g)
  BY <1>13, <1>15, Zenon
<1>17. it = CHOOSE f : Rec(f)
  BY <1>2, Zenon DEF iterations
<1>18. Rec(it)
  BY <1>16, <1>17, Zenon
<1>19. it = [k \in 0 .. n |-> IF k = 0 THEN c ELSE appendSegment(it[k - 1], segs[k])]
  BY <1>18, Zenon
<1> HIDE DEF Rec
<1>20. \A k \in 0 .. n : it[k] = IF k = 0 THEN c ELSE appendSegment(it[k - 1], segs[k])
  BY <1>19, Zenon
<1>21. 0 \in 0 .. n /\ \A k \in 1 .. n : k # 0 /\ k \in 0 .. n
  BY <1>1
<1>22. it[0] = c /\ \A k \in 1 .. n : it[k] = appendSegment(it[k - 1], segs[k])
  BY <1>20, <1>21, Zenon
<1> DEFINE T == {k \in 0 .. n : it[k] \in Loop}
<1>23. 0 \in T
  BY <1>3, <1>21, <1>22, Zenon
<1>24. ASSUME NEW k \in 0 .. n - 1, k \in T
       PROVE  k + 1 \in T
  <2>1. k + 1 \in 1 .. n /\ k + 1 \in 0 .. n /\ (k + 1) - 1 = k
    BY <1>1
  <2>2. it[k + 1] = appendSegment(it[k], segs[k + 1])
    BY <1>22, <2>1, Zenon
  <2> QED
    BY <1>8, <1>24, <2>1, <2>2, Zenon
<1> HIDE DEF T
<1>25. 0 .. n \subseteq T
  BY <1>9, <1>11, <1>23, <1>24, Induction, Zenon
<1>26. \A k \in 0 .. n : it[k] \in Loop
  BY <1>25, Zenon DEF T
<1> QED
  BY <1>1, <1>3, <1>5, <1>22, <1>26, Zenon

(* The loop writes a part of the message, *)
LEMMA FilledIsPart ==
  ASSUME NEW segs \in Seq(Segment), NEW n, n = Least(Len(segs), MaxIov), NEW it, it = iterations(segs)
  PROVE  IsSubsequence(Filled(it[n]), Logical(segs))
<1>1. /\ n \in Nat /\ n <= Len(segs)
      /\ \A k \in 0 .. n : it[k] \in Loop
      /\ it[0].written = 0
      /\ \A k \in 1 .. n : it[k] = appendSegment(it[k - 1], segs[k]) /\ segs[k] \in Segment
  BY IterationsAre, ZenonT(30)
<1>2. PICK text, m : text = LogicalUpTo(segs) /\ m = Len(segs)
  BY Zenon
<1>3. /\ text \in [0 .. m -> Seq(Units)] /\ text[0] = <<>>
      /\ \A k \in 1 .. m : text[k] = text[k - 1] \o segs[k].data /\ segs[k].data \in Seq(Units)
  BY <1>2, LogicalIs, Zenon
<1>4. m \in Nat /\ n <= m
  BY <1>1, <1>2
<1>5. \A v \in Loop : Filled(v) \in Seq(Units)
  <2> TAKE v \in Loop
  <2>1. PICK P, w : P = v.payload /\ w = v.written
    BY Zenon
  <2>2. P \in Seq(Units) /\ Len(P) = PayloadLen /\ w \in Nat /\ w <= PayloadLen
    BY <2>1, LoopIs, Zenon
  <2>3. SubSeq(P, 1, w) \in Seq(Units)
    BY <2>2
  <2> QED
    BY <2>1, <2>3, Zenon DEF Filled
<1>6. \A k \in 0 .. m : text[k] \in Seq(Units)
  BY <1>3, Zenon
<1> DEFINE T == {k \in 0 .. n : IsSubsequence(Filled(it[k]), text[k])}
<1>7. 0 \in T
  <2>1. 0 \in 0 .. n
    BY <1>1
  <2>2. PICK P : P = it[0].payload
    BY Zenon
  <2>3. P \in Seq(Units)
    BY <1>1, <2>1, <2>2, LoopIs, Zenon
  <2>4. SubSeq(P, 1, 0) = <<>>
    BY <2>3
  <2>5. Filled(it[0]) = <<>>
    BY <1>1, <2>2, <2>4, Zenon DEF Filled
  <2> QED
    BY <2>1, <2>5, SubsequenceEmpty, Zenon
<1>8. ASSUME NEW k \in 0 .. n - 1, k \in T
      PROVE  k + 1 \in T
  <2>1. k + 1 \in 1 .. n /\ k + 1 \in 1 .. m /\ k + 1 \in 0 .. n /\ (k + 1) - 1 = k /\ k \in 0 .. n /\ k \in 0 .. m
    BY <1>1, <1>4
  <2>2. PICK a, b, seg, data : /\ a = Filled(it[k]) /\ b = Filled(it[k + 1])
                               /\ seg = segs[k + 1] /\ data = seg.data
    BY Zenon
  <2>3. it[k + 1] = appendSegment(it[k], seg) /\ seg \in Segment /\ it[k] \in Loop
    BY <1>1, <2>1, <2>2, Zenon
  <2>4. PICK j \in Nat : j <= Len(data) /\ b = a \o SubSeq(data, 1, j)
    BY <2>2, <2>3, StepIs, ZenonT(40)
  <2>5. text[k + 1] = text[k] \o data /\ data \in Seq(Units)
    BY <1>3, <2>1, <2>2, Zenon
  <2>6. a \in Seq(Units) /\ text[k] \in Seq(Units) /\ IsSubsequence(a, text[k])
    BY <1>5, <1>6, <1>8, <2>1, <2>2, <2>3, Zenon
  <2>7. IsSubsequence(b, text[k + 1])
    BY <2>4, <2>5, <2>6, SubsequenceExtends, Zenon
  <2> QED
    BY <2>1, <2>2, <2>7, Zenon
<1>9. n \in T
  <2> HIDE DEF T
  <2>1. PICK z : z = 0
    BY Zenon
  <2>2. z \in Int /\ n \in Int /\ n \in z .. n
    BY <1>1, <2>1
  <2> QED
    BY <1>7, <1>8, <2>1, <2>2, Induction, Zenon
<1>10. PICK a : a = Filled(it[n])
  BY Zenon
<1>11. n \in 0 .. n /\ n \in n .. m /\ m \in n .. m /\ n \in Int /\ m \in Int
  BY <1>1, <1>4
<1>12. a \in Seq(Units) /\ IsSubsequence(a, text[n])
  BY <1>1, <1>5, <1>9, <1>10, <1>11, Zenon
<1> DEFINE U == {k \in n .. m : IsSubsequence(a, text[k])}
<1>13. n \in U
  BY <1>11, <1>12, Zenon
<1>14. ASSUME NEW k \in n .. m - 1, k \in U
       PROVE  k + 1 \in U
  <2>1. k + 1 \in 1 .. m /\ k + 1 \in n .. m /\ (k + 1) - 1 = k /\ k \in 0 .. m
    BY <1>1, <1>4
  <2>2. PICK data : data = segs[k + 1].data
    BY Zenon
  <2>3. text[k + 1] = text[k] \o data /\ data \in Seq(Units) /\ text[k] \in Seq(Units)
    BY <1>3, <1>6, <2>1, <2>2, Zenon
  <2>4. IsSubsequence(a, text[k + 1])
    BY <1>12, <1>14, <2>3, SubsequenceOfLonger, Zenon
  <2> QED
    BY <2>1, <2>4, Zenon
<1>15. m \in U
  <2> HIDE DEF U
  <2> QED
    BY <1>11, <1>13, <1>14, Induction, Zenon
<1> QED
  BY <1>2, <1>10, <1>15, Zenon DEF Logical

(* and all of a message that fits one chunk. *)
LEMMA FilledIsWhole ==
  ASSUME NEW segs \in Seq(Segment), NEW n, n = Least(Len(segs), MaxIov), NEW it, it = iterations(segs),
         FitsOneChunk(segs)
  PROVE  Filled(it[n]) = Logical(segs)
<1>1. PICK text, m : text = LogicalUpTo(segs) /\ m = Len(segs)
  BY Zenon
<1>2. /\ text \in [0 .. m -> Seq(Units)] /\ text[0] = <<>>
      /\ \A k \in 1 .. m : text[k] = text[k - 1] \o segs[k].data /\ segs[k].data \in Seq(Units)
  BY <1>1, LogicalIs, Zenon
<1>3. /\ Len(text[m]) <= PerIov /\ Len(segs) <= MaxIov
      /\ \A j \in DOMAIN segs : segs[j].ok /\ segs[j].described
  BY <1>1, Zenon DEF FitsOneChunk, Logical
<1>4. DOMAIN segs = 1 .. m /\ m \in Nat
  BY <1>1
<1>a. n = m
  BY <1>1, <1>3, IterationsAre, Zenon
<1>b. /\ \A k \in 0 .. n : it[k] \in Loop
      /\ it[0].written = 0 /\ it[0].done = FALSE
      /\ \A k \in 1 .. n : it[k] = appendSegment(it[k - 1], segs[k]) /\ segs[k] \in Segment
  BY IterationsAre, ZenonT(40)
<1>5. /\ n = m
      /\ \A k \in 0 .. n : it[k] \in Loop
      /\ it[0].written = 0 /\ it[0].done = FALSE
      /\ \A k \in 1 .. n : it[k] = appendSegment(it[k - 1], segs[k]) /\ segs[k] \in Segment
  BY <1>a, <1>b, Zenon
<1>6. \A k \in 0 .. m : text[k] \in Seq(Units)
  BY <1>2, Zenon
<1>7. ASSUME NEW j \in 0 .. m
      PROVE  Len(text[j]) <= PerIov
  <2> DEFINE U == {k \in j .. m : Len(text[j]) <= Len(text[k])}
  <2>1. j \in U
    BY <1>4, <1>6
  <2>2. ASSUME NEW k \in j .. m - 1, k \in U
        PROVE  k + 1 \in U
    <3>1. k + 1 \in 1 .. m /\ k + 1 \in j .. m /\ (k + 1) - 1 = k /\ k \in 0 .. m
      BY <1>4
    <3>2. PICK a, b, c, d : a = text[j] /\ b = text[k] /\ c = text[k + 1] /\ d = segs[k + 1].data
      BY Zenon
    <3>3. c = b \o d /\ d \in Seq(Units) /\ a \in Seq(Units) /\ b \in Seq(Units) /\ Len(a) <= Len(b)
      BY <1>2, <1>6, <2>2, <3>1, <3>2, Zenon
    <3>4. Len(a) <= Len(c)
      BY <3>3
    <3> QED
      BY <3>1, <3>2, <3>4, Zenon
  <2>3. j \in Int /\ m \in Int /\ m \in j .. m
    BY <1>4
  <2>4. m \in U
    <3> HIDE DEF U
    <3> QED
      BY <2>1, <2>2, <2>3, Induction, Zenon
  <2>5. PICK a, b : a = text[j] /\ b = text[m]
    BY Zenon
  <2>6. m \in 0 .. m
    BY <1>4
  <2>7. a \in Seq(Units) /\ b \in Seq(Units) /\ Len(a) <= Len(b) /\ Len(b) <= PerIov
    BY <1>3, <1>6, <2>4, <2>5, <2>6, Zenon
  <2>8. Len(a) <= PerIov
    BY <2>7, PayloadSizes
  <2> QED
    BY <2>5, <2>8, Zenon
<1> DEFINE T == {k \in 0 .. m : it[k].done = FALSE /\ Filled(it[k]) = text[k]}
<1>8. 0 \in T
  <2>1. 0 \in 0 .. n /\ 0 \in 0 .. m
    BY <1>4, <1>5
  <2>2. PICK P : P = it[0].payload
    BY Zenon
  <2>3. P \in Seq(Units)
    BY <1>5, <2>1, <2>2, LoopIs, Zenon
  <2>4. SubSeq(P, 1, 0) = <<>>
    BY <2>3
  <2>5. Filled(it[0]) = <<>>
    BY <1>5, <2>2, <2>4, Zenon DEF Filled
  <2> QED
    BY <1>2, <1>5, <2>1, <2>5, Zenon
<1>9. ASSUME NEW k \in 0 .. m - 1, k \in T
      PROVE  k + 1 \in T
  <2>1. k + 1 \in 1 .. m /\ k + 1 \in 0 .. m /\ (k + 1) - 1 = k /\ k \in 0 .. m
    BY <1>4
  <2>2. PICK st, r, seg, data, a, b : /\ st = it[k] /\ r = it[k + 1] /\ seg = segs[k + 1]
                                      /\ data = seg.data /\ a = text[k] /\ b = text[k + 1]
    BY Zenon
  <2>3. /\ r = appendSegment(st, seg) /\ seg \in Segment /\ st \in Loop /\ seg.ok /\ seg.described
        /\ st.done = FALSE /\ Filled(st) = a
    BY <1>3, <1>4, <1>5, <1>9, <2>1, <2>2, Zenon
  <2>4. b = a \o data /\ data \in Seq(Units) /\ a \in Seq(Units) /\ Len(b) <= PerIov
    BY <1>2, <1>6, <1>7, <2>1, <2>2, Zenon
  <2>5. PICK P, w : P = st.payload /\ w = st.written
    BY Zenon
  <2>6. P \in Seq(Units) /\ Len(P) = PayloadLen /\ w \in Nat /\ w <= PayloadLen
    BY <2>3, <2>5, LoopIs, Zenon
  <2>7. a = SubSeq(P, 1, w)
    BY <2>3, <2>5, Zenon DEF Filled
  <2>8. w + Len(data) <= PerIov
    BY <2>4, <2>6, <2>7, PayloadSizes, SMTT(30)
  <2>9. st.written + Len(seg.data) <= PerIov
    BY <2>2, <2>5, <2>8, Zenon
  <2>10. r.done = FALSE /\ Filled(r) = Filled(st) \o seg.data
    BY <2>3, <2>9, StepFits, Zenon
  <2> QED
    BY <2>1, <2>2, <2>3, <2>4, <2>10, Zenon
<1>10. m \in T
  <2> HIDE DEF T
  <2>1. PICK z : z = 0
    BY Zenon
  <2>2. z \in Int /\ m \in Int /\ m \in z .. m
    BY <1>4, <2>1
  <2> QED
    BY <1>8, <1>9, <2>1, <2>2, Induction, Zenon
<1> QED
  BY <1>1, <1>5, <1>10, Zenon DEF Logical

(* A message of clean segments is clean. *)
LEMMA LogicalClean ==
  ASSUME NEW segs \in Seq(Segment), \A j \in DOMAIN segs : Clean(segs[j].data)
  PROVE  Clean(Logical(segs)) /\ Logical(segs) \in Seq(Units)
<1>1. PICK text, m : text = LogicalUpTo(segs) /\ m = Len(segs)
  BY Zenon
<1>2. /\ text \in [0 .. m -> Seq(Units)] /\ text[0] = <<>>
      /\ \A k \in 1 .. m : text[k] = text[k - 1] \o segs[k].data /\ segs[k].data \in Seq(Units)
  BY <1>1, LogicalIs, Zenon
<1>3. DOMAIN segs = 1 .. m /\ m \in Nat
  BY <1>1
<1> DEFINE T == {k \in 0 .. m : Clean(text[k])}
<1>4. 0 \in T
  <2>1. 0 \in 0 .. m
    BY <1>3
  <2> QED
    BY <1>2, <2>1, CleanEmpty, Zenon
<1>5. ASSUME NEW k \in 0 .. m - 1, k \in T
      PROVE  k + 1 \in T
  <2>1. k + 1 \in 1 .. m /\ k + 1 \in 0 .. m /\ (k + 1) - 1 = k /\ k \in 0 .. m
    BY <1>3
  <2>2. PICK a, b, d : a = text[k] /\ b = text[k + 1] /\ d = segs[k + 1].data
    BY Zenon
  <2>3. b = a \o d /\ a \in Seq(Units) /\ d \in Seq(Units) /\ Clean(a) /\ Clean(d)
    BY <1>2, <1>3, <1>5, <2>1, <2>2, Zenon
  <2>4. b \in Seq(Units) /\ Joins(b, a, d)
    BY <2>3, ConcatIs, Zenon
  <2>5. /\ \A i \in 1 .. Len(a) : b[i] \notin Private
        /\ \A i \in 1 .. Len(d) : b[Len(a) + i] \notin Private
    BY <2>3, <2>4, CleanIs, Zenon DEF Joins
  <2>6. Len(b) = Len(a) + Len(d) /\ Len(a) \in Nat /\ Len(d) \in Nat
    BY <2>3, <2>4 DEF Joins
  <2>7. ASSUME NEW i \in 1 .. Len(b)
        PROVE  b[i] \notin Private
    <3>1. i \notin 1 .. Len(a) => i - Len(a) \in 1 .. Len(d) /\ i = Len(a) + (i - Len(a))
      BY <2>6
    <3> QED
      BY <2>5, <3>1, Zenon
  <2>8. Clean(b)
    BY <2>4, <2>7, CleanIs, Zenon
  <2> QED
    BY <2>1, <2>2, <2>8, Zenon
<1>6. PICK z : z = 0
  BY Zenon
<1>7. z \in Int /\ m \in Int /\ m \in z .. m /\ m \in 0 .. m
  BY <1>3, <1>6
<1>8. m \in T
  <2> HIDE DEF T
  <2> QED
    BY <1>4, <1>5, <1>6, <1>7, Induction, Zenon
<1> QED
  BY <1>1, <1>2, <1>7, <1>8, Zenon DEF Logical

(* The payload of a send is a part of the message. *)
LEMMA PayloadLogical ==
  ASSUME NEW msg \in Sends
  PROVE  LogicalPayload(fill_dns_payload(msg), msg.segs) /\ Clean(fill_dns_payload(msg))
<1>1. PICK segs, payload : segs = msg.segs /\ payload = fill_dns_payload(msg)
  BY Zenon
<1>2. segs \in Seq(Segment) /\ (msg.iter = "ubuf" => Len(segs) = 1) /\ \A j \in DOMAIN segs : Clean(segs[j].data)
  BY <1>1, HookInputs, Labelling, Zenon DEF Segment
<1>3. CASE msg.iter # "ubuf"
  <2>1. PICK it, n : it = iterations(segs) /\ n = Least(Len(segs), MaxIov)
    BY Zenon
  <2>2. payload = Filled(it[n])
    BY <1>1, <1>3, <2>1, Zenon DEF fill_dns_payload, fill_dns_payload_from_iov_array, Filled
  <2>3. IsSubsequence(payload, Logical(segs))
    BY <1>2, <2>1, <2>2, FilledIsPart, Zenon
  <2>4. FitsOneChunk(segs) => payload = Logical(segs)
    BY <1>2, <2>1, <2>2, FilledIsWhole, Zenon
  <2>5. Clean(payload)
    BY <1>2, <2>3, LogicalClean, SubsequenceClean, Zenon
  <2> QED
    BY <1>1, <2>3, <2>4, <2>5, Zenon DEF LogicalPayload
<1>4. CASE msg.iter = "ubuf"
  <2>1. PICK seg, data : seg = segs[1] /\ data = seg.data
    BY Zenon
  <2>a. Len(segs) = 1 /\ segs \in Seq(Segment)
    BY <1>2, <1>4, Zenon
  <2>2. 1 \in 1 .. Len(segs) /\ DOMAIN segs = 1 .. Len(segs) /\ 1 - 1 = 0 /\ Len(segs) = 1
    BY <2>a, SMTT(30)
  <2>3. /\ data \in Seq(Units) /\ Clean(data)
        /\ Logical(segs) = <<>> \o data
    BY <1>2, <2>1, <2>2, LogicalIs, ZenonT(30) DEF Logical
  <2>4. <<>> \o data = data
    BY <2>3
  <2>5. payload = IF data = <<>> \/ ~seg.ok THEN <<>> ELSE SubSeq(data, 1, Least(Len(data), PayloadLen))
    BY <1>1, <1>4, <2>1, Zenon DEF fill_dns_payload, fill_dns_payload_from_ubuf
  <2>6. Logical(segs) = data
    BY <2>3, <2>4, Zenon
  <2>7. CASE payload = <<>>
    <3>1. FitsOneChunk(segs) => data = <<>>
      <4>1. SUFFICES ASSUME FitsOneChunk(segs), data # <<>>
                     PROVE  FALSE
        BY Zenon
      <4>2. seg.ok /\ Len(data) <= PerIov
        BY <2>1, <2>2, <2>6, <4>1, Zenon DEF FitsOneChunk
      <4>3. Len(data) <= PayloadLen
        BY <2>3, <4>2, PayloadSizes, SMTT(30)
      <4>4. payload = data
        BY <2>3, <2>5, <4>1, <4>2, <4>3, StartIs, PayloadSizes, Zenon
      <4> QED
        BY <2>7, <4>1, <4>4, Zenon
    <3> QED
      BY <1>1, <2>6, <2>7, <3>1, SubsequenceEmpty, CleanEmpty, Zenon DEF LogicalPayload
  <2>8. CASE payload # <<>>
    <3>1. PICK k : k = Least(Len(data), PayloadLen)
      BY Zenon
    <3>2. payload = SubSeq(data, 1, k)
      BY <2>5, <2>8, <3>1, Zenon
    <3>3. k \in Nat /\ k <= Len(data) /\ payload \in Seq(Units) /\ Clean(payload)
      BY <2>3, <3>1, <3>2, StartIs, PayloadSizes, Zenon
    <3>4. IsSubsequence(<<>> \o SubSeq(data, 1, k), <<>> \o data)
      BY <2>3, <3>3, CleanEmpty, SubsequenceEmpty, SubsequenceExtends, Zenon
    <3>5. <<>> \o payload = payload
      BY <3>3
    <3>6. IsSubsequence(payload, data)
      BY <2>4, <3>2, <3>4, <3>5, Zenon
    <3>7. ASSUME FitsOneChunk(segs)
          PROVE  payload = data
      <4>1. Len(data) <= PerIov
        BY <2>6, <3>7, Zenon DEF FitsOneChunk
      <4>2. Len(data) <= PayloadLen
        BY <2>3, <4>1, PayloadSizes, SMTT(30)
      <4> QED
        BY <2>3, <3>1, <3>2, <4>2, StartIs, PayloadSizes, Zenon
    <3> QED
      BY <1>1, <2>6, <3>3, <3>6, <3>7, Zenon DEF LogicalPayload
  <2> QED
    BY <2>7, <2>8, Zenon
<1> QED
  BY <1>3, <1>4, Zenon

(* All sends. *)
LEMMA SendKeeps ==
  ASSUME RingInv, handle_sendmsg
  PROVE  RingInv'
<1>1. PICK msg \in Sends : skip \/ submit_dns_query(msg)
  BY Zenon DEF handle_sendmsg
<1>2. PICK s : s = [kind |-> "dns", of |-> msg, payload |-> fill_dns_payload(msg)]
  BY Zenon
<1>3. skip \/ discard \/ submit(s)
  BY <1>1, <1>2, Zenon DEF submit_dns_query
<1>4. s.kind = "dns" /\ s.of = msg /\ s.payload = fill_dns_payload(msg)
  BY <1>2
<1>5. Visible(s) = Range(s.payload)
  BY <1>4 DEF Visible
<1>6. LogicalPayload(s.payload, s.of.segs) /\ Visible(s) \cap Private = {}
  BY <1>4, <1>5, PayloadLogical, Zenon DEF Clean
<1>7. Good(s)
  BY <1>4, <1>6 DEF Good
<1> QED
  BY <1>3, <1>7, SkipKeeps, DiscardKeeps, SubmitKeeps, Zenon

(***************************************************************************)
(* Paths and strings                                                       *)
(***************************************************************************)

FS == INSTANCE FiniteSetTheorems

LEMMA NoMembers == Cardinality({}) = 0
<1>1. \A T : FS!Cardinality(T) = Cardinality(T)
  BY Zenon DEF FS!Cardinality, Cardinality
<1> QED
  BY <1>1, FS!FS_EmptySet, Zenon

(* The walk takes some of the last names of a dentry, maybe none. *)
LEMMA WalkedIs ==
  ASSUME NEW d, d.names \in Seq(Units)
  PROVE  walked(d) \in 0 .. Len(d.names)
<1>1. PICK names, n, k : names = d.names /\ n = Len(names) /\ k = Least(n, WalkDepth)
  BY Zenon
<1>2. names \in Seq(Units) /\ n \in Nat /\ WalkDepth \in Nat /\ PathLen \in Nat \ {0}
  BY <1>1, HooksAssumption, SMTT(30)
<1>3. k \in Nat /\ k <= n
  BY <1>1, <1>2, SMTT(30) DEF Least
<1> DEFINE T == {m \in 0 .. k : Width(lastNames(names, m)) < PathLen /\ ~(d.broken \in n - m + 1 .. n)}
<1>4. walked(d) = Max(T)
  BY <1>1, Zenon DEF walked
<1>5. Width(lastNames(names, 0)) < PathLen
  <2>1. lastNames(names, 0) = <<>>
    BY <1>1, <1>2, SMTT(30) DEF lastNames
  <2>2. {i \in DOMAIN <<>> : <<>>[i] = "w"} = {}
    OBVIOUS
  <2>3. Len(<<>>) = 0
    OBVIOUS
  <2>4. Width(<<>>) = 0 + 0
    BY <2>2, <2>3, NoMembers, Zenon DEF Width
  <2>5. 0 + 0 < PathLen
    BY <1>2, SMTT(30)
  <2> QED
    BY <2>1, <2>4, <2>5, Zenon
<1>6. n - 0 + 1 .. n = {}
  BY <1>2, SMTT(30)
<1>7. 0 \in 0 .. k
  BY <1>3
<1>8. 0 \in T
  BY <1>5, <1>6, <1>7, Zenon
<1>9. T \subseteq 0 .. k
  BY Zenon
<1> HIDE DEF T
<1>10. Max(T) \in T
  BY <1>3, <1>8, <1>9, MaxIs, ZenonT(30)
<1>11. \A m \in 0 .. k : m \in 0 .. n
  BY <1>2, <1>3, SMTT(30)
<1> QED
  BY <1>1, <1>4, <1>9, <1>10, <1>11, ZenonT(30)

LEMMA DentryIs ==
  ASSUME NEW d \in Dentries
  PROVE  d.names \in Seq(Units) /\ Clean(d.names)
<1>1. d \in [names : Text, broken : Int]
  BY HookInputs, Zenon
<1>2. d.names \in Text
  BY <1>1, Zenon
<1> QED
  BY <1>2, Labelling, Zenon DEF Text

(* The last names of a clean path are clean; all of them are the path. *)
LEMMA LastNamesAre ==
  ASSUME NEW names \in Seq(Units), Clean(names), NEW m \in 0 .. Len(names)
  PROVE  /\ lastNames(names, m) \in Seq(Units) /\ Clean(lastNames(names, m))
         /\ m = Len(names) => lastNames(names, m) = names
<1>1. PICK n, a : n = Len(names) /\ a = n - m + 1
  BY Zenon
<1>2. n \in Nat /\ n \in Int /\ a \in Nat \ {0} /\ n <= Len(names) /\ (m = n => a = 1)
  BY <1>1, SMTT(30)
<1>3. lastNames(names, m) = SubSeq(names, a, n)
  BY <1>1, Zenon DEF lastNames
<1>4. \A i \in a .. n : i \in 1 .. Len(names)
  BY <1>1, <1>2, SMTT(30)
<1>5. \A i \in a .. n : names[i] \notin Private
  BY <1>4, CleanIs, Zenon
<1>6. Clean(SubSeq(names, a, n)) /\ SubSeq(names, a, n) \in Seq(Units)
  BY <1>2, <1>5, CleanPart, ZenonT(30)
<1>7. ASSUME m = n
      PROVE  SubSeq(names, a, n) = names
  BY <1>1, <1>2, <1>7, WholeSubSeq, ZenonT(30)
<1> QED
  BY <1>1, <1>3, <1>6, <1>7, ZenonT(30)

(* A path that was walked is complete or flagged. *)
LEMMA FallbackGood ==
  ASSUME NEW d \in Dentries
  PROVE  GoodPart(copy_dentry_fallback_path_to_sample(d))
<1>1. PICK names, m : names = d.names /\ m = walked(d)
  BY Zenon
<1>2. names \in Seq(Units) /\ Clean(names)
  BY <1>1, DentryIs, Zenon
<1>3. m \in 0 .. Len(names)
  BY <1>1, <1>2, WalkedIs, ZenonT(30)
<1>4. CASE d = NoDentry
  <2>1. PICK nul, old, t : nul = <<"NUL">> /\ old = reserved /\ t = copy(old, nul)
    BY Zenon
  <2>2. "old" \in Units /\ FieldLen \in Nat
    BY RingAssumption, SMTT(30)
  <2>3. old \in [1 .. FieldLen -> Units]
    BY <2>1, <2>2, Zenon DEF reserved
  <2>4. old \in Seq(Units)
    BY <2>2, <2>3, SMTT(30)
  <2>5. nul \in Seq(Units)
    BY <2>1, CleanUnit, Zenon
  <2>6. Len(nul) = 1 /\ nul[1] = "NUL" /\ 1 \in 1 .. Len(nul)
    BY <2>1, SMTT(30)
  <2>b. t = copy(old, nul)
    BY <2>1, Zenon
  <2>a. /\ t \in Seq(Units) /\ Len(t) = (IF Len(old) >= Len(nul) THEN Len(old) ELSE Len(nul))
        /\ \A i \in 1 .. Len(nul) : t[i] = nul[i]
    BY <2>4, <2>5, <2>b, CopyIs, ZenonT(30)
  <2>7. t \in Seq(Units) /\ t[1] = nul[1]
    BY <2>6, <2>a, Zenon
  <2>8. t[1] = "NUL"
    BY <2>6, <2>7, Zenon
  <2>9. ASSUME NEW i \in 1 .. Len(t), t[i] \in Private
        PROVE  \E j \in 1 .. i - 1 : t[j] = "NUL"
    <3>1. i # 1
      BY <2>8, <2>9, SMTT(30) DEF Private
    <3>2. 1 \in 1 .. i - 1
      BY <2>7, <3>1, SMTT(30)
    <3> QED
      BY <2>8, <3>2, Zenon
  <2>10. Clean(cString(t))
    BY <2>7, <2>9, CStringClean, ZenonT(30)
  <2>11. PICK p : p = copy_dentry_fallback_path_to_sample(d)
    BY Zenon
  <2>12. p = Part(t, TRUE, names)
    BY <1>1, <1>4, <2>1, <2>11, ZenonT(30) DEF copy_dentry_fallback_path_to_sample
  <2>13. p.memory = t /\ p.flagged = TRUE
    BY <2>12, SMTT(30) DEF Part
  <2> QED
    BY <2>10, <2>11, <2>13, Zenon DEF GoodPart, CompletePart, ShowsClean
<1>5. CASE d # NoDentry
  <2>1. PICK path, truncated : /\ path = lastNames(names, m)
                               /\ truncated = ~(m = Len(names) /\ Len(names) < WalkDepth)
    BY Zenon
  <2>2. PICK r : r = resolve_dentry_fallback_path_to_scratch(d)
    BY Zenon
  <2>3. r.path = path /\ r.truncated = truncated
    BY <1>1, <2>1, <2>2, SMTT(30) DEF resolve_dentry_fallback_path_to_scratch
  <2>4. copy_dentry_fallback_path_to_sample(d) = Part(path, truncated, names)
    BY <1>1, <1>5, <2>2, <2>3, ZenonT(30) DEF copy_dentry_fallback_path_to_sample
  <2>5. path \in Seq(Units) /\ Clean(path) /\ (truncated \/ path = names)
    BY <1>2, <1>3, <2>1, LastNamesAre, ZenonT(30)
  <2> QED
    BY <2>4, <2>5, PartGood, Zenon
<1> QED
  BY <1>4, <1>5, Zenon

(* A string of the kernel that is read into a zeroed field. *)
LEMMA StringClean ==
  ASSUME NEW text \in Strings, NEW size \in Nat \ {0}, NEW r, r = read_kernel_str(text, size)
  PROVE  /\ copy(zeroed, r.text) = r.text /\ r.text \in Seq(Units) /\ Clean(r.text)
         /\ r.n <= 0 \/ r.n = size \/ r.text = text
<1>1. text \in Seq(Units)
  BY HookInputs, Zenon DEF Text
<1>2. CASE text = Unreadable
  <2>1. r = [n |-> -1, text |-> <<>>]
    BY <1>2, Zenon DEF read_kernel_str
  <2>2. r.text = <<>> /\ r.n = -1
    BY <2>1, SMTT(30)
  <2>3. r.n <= 0
    BY <2>2, SMTT(30)
  <2> QED
    BY <2>2, <2>3, CleanEmpty, CopyToZeroed, ZenonT(30)
<1>3. CASE text # Unreadable
  <2>1. PICK n, k, t : n = Least(Len(text) + 1, size) /\ k = size - 1 /\ t = SubSeq(text, 1, Least(Len(text), k))
    BY Zenon
  <2>2. r = [n |-> n, text |-> t]
    BY <1>3, <2>1, Zenon DEF read_kernel_str
  <2>3. r.n = n /\ r.text = t
    BY <2>2
  <2>4. Clean(text)
    BY <1>3, Labelling, Zenon
  <2>5. k \in Nat /\ Len(text) \in Nat
    BY <1>1, <2>1, SMTT(30)
  <2>6. t \in Seq(Units) /\ Clean(t) /\ (Len(text) <= k => t = text)
    BY <1>1, <2>1, <2>4, <2>5, StartIs, ZenonT(30)
  <2>7. n = size \/ Len(text) <= k
    BY <2>1, <2>5, SMTT(30) DEF Least
  <2> QED
    BY <2>3, <2>6, <2>7, CopyToZeroed, Zenon
<1> QED
  BY <1>2, <1>3, Zenon

LEMMA PathSizes == {PathLen, ExecPathLen} \subseteq Nat \ {0} /\ SunPathLen \in Nat /\ ArgvLen \in Nat
  BY HooksAssumption

LEMMA OpenKeeps ==
  ASSUME RingInv, handle_security_file_open
  PROVE  RingInv'
<1>1. PICK d \in Dentries : LET r == copy_bpf_d_path_to_scratch(d)
                            IN submit(Sample("file_open", <<IF r.ok THEN Part(r.path, FALSE, d.names)
                                                                   ELSE Part(zeroed, TRUE, d.names)>>))
  BY Zenon DEF handle_security_file_open
<1>2. PICK names, r : names = d.names /\ r = copy_bpf_d_path_to_scratch(d)
  BY Zenon
<1>3. r.path = names
  BY <1>2 DEF copy_bpf_d_path_to_scratch
<1>4. PICK p : p = IF r.ok THEN Part(names, FALSE, names) ELSE Part(zeroed, TRUE, names)
  BY Zenon
<1>5. submit(Sample("file_open", <<p>>))
  BY <1>1, <1>2, <1>3, <1>4, Zenon
<1>6. names \in Seq(Units) /\ Clean(names) /\ zeroed \in Seq(Units) /\ Clean(zeroed)
  BY <1>2, DentryIs, CleanEmpty, Zenon DEF zeroed
<1>7. GoodPart(Part(names, FALSE, names)) /\ GoodPart(Part(zeroed, TRUE, names))
  BY <1>6, PartGood, Zenon
<1>8. GoodPart(p)
  BY <1>4, <1>7, Zenon
<1>9. "file_open" \notin {"http", "dns"}
  OBVIOUS
<1> QED
  BY <1>5, <1>8, <1>9, OnePartGood, SubmitKeeps, ZenonT(30)

(* Removals, renames and links show only paths that were walked. *)
LEMMA RemoveKeeps ==
  ASSUME RingInv, submit_file_remove
  PROVE  RingInv'
<1>1. PICK d \in Dentries : submit(Sample("file_remove", <<copy_dentry_fallback_path_to_sample(d)>>))
  BY Zenon DEF submit_file_remove
<1>2. "file_remove" \notin {"http", "dns"}
  OBVIOUS
<1> QED
  BY <1>1, <1>2, FallbackGood, OnePartGood, SubmitKeeps, Zenon

LEMMA TwoPathsGood ==
  ASSUME NEW kind, kind \in {"file_move", "file_link", "mount"}, NEW d \in Dentries, NEW e \in Dentries
  PROVE  Good(Sample(kind, <<copy_dentry_fallback_path_to_sample(d), copy_dentry_fallback_path_to_sample(e)>>))
<1>1. kind \notin {"http", "dns"}
  OBVIOUS
<1>2. PICK p, q : p = copy_dentry_fallback_path_to_sample(d) /\ q = copy_dentry_fallback_path_to_sample(e)
  BY Zenon
<1>3. GoodPart(p) /\ GoodPart(q)
  BY <1>2, FallbackGood, Zenon
<1>4. ShowsClean(q) /\ CompletePart(q)
  BY <1>3, Zenon DEF GoodPart
<1>5. Good(Sample(kind, <<p, q>>))
  BY <1>1, <1>3, <1>4, TwoPartsGood, Zenon
<1> QED
  BY <1>2, <1>5, Zenon

LEMMA TwoPathsKeep ==
  ASSUME RingInv,
         handle_security_inode_rename \/ handle_security_inode_link \/ handle_security_move_mount
  PROVE  RingInv'
<1>1. PICK kind \in {"file_move", "file_link", "mount"}, d \in Dentries, e \in Dentries :
        submit(Sample(kind, <<copy_dentry_fallback_path_to_sample(d), copy_dentry_fallback_path_to_sample(e)>>))
  BY Zenon DEF handle_security_inode_rename, handle_security_inode_link, handle_security_move_mount
<1> QED
  BY <1>1, TwoPathsGood, SubmitKeeps, Zenon

(* The target of a symbolic link is cut, and shows nothing private. *)
LEMMA SymlinkKeeps ==
  ASSUME RingInv, handle_security_inode_symlink
  PROVE  RingInv'
<1>1. PICK d \in Dentries, old_name \in Strings :
        LET r == read_kernel_str(old_name, PathLen)
        IN submit(Sample("symlink", <<copy_dentry_fallback_path_to_sample(d),
                                      Part(copy(zeroed, r.text), r.n <= 0, old_name)>>))
  BY Zenon DEF handle_security_inode_symlink
<1>2. PICK r, p, q : /\ r = read_kernel_str(old_name, PathLen)
                     /\ p = copy_dentry_fallback_path_to_sample(d)
                     /\ q = Part(copy(zeroed, r.text), r.n <= 0, old_name)
  BY Zenon
<1>3. submit(Sample("symlink", <<p, q>>))
  BY <1>1, <1>2, Zenon
<1>4. copy(zeroed, r.text) = r.text /\ r.text \in Seq(Units) /\ Clean(r.text)
  BY <1>2, PathSizes, StringClean, ZenonT(30)
<1>5. q.memory = copy(zeroed, r.text)
  BY <1>2, SMTT(30) DEF Part
<1>6. ShowsClean(q)
  BY <1>4, <1>5, MemoryClean, Zenon DEF ShowsClean
<1>7. GoodPart(p)
  BY <1>2, FallbackGood, Zenon
<1>8. "symlink" \notin {"http", "dns"} /\ "symlink" \in {"symlink", "exec"}
  OBVIOUS
<1>9. Good(Sample("symlink", <<p, q>>))
  BY <1>6, <1>7, <1>8, TwoPartsGood, Zenon
<1> QED
  BY <1>3, <1>9, SubmitKeeps, Zenon

(* A mount source that is cut is flagged. *)
LEMMA MountStringGood ==
  ASSUME NEW src \in Strings
  PROVE  GoodPart(copy_raw_mount_string_to_sample(src))
<1>1. PICK r, t, flagged : /\ r = read_kernel_str(src, PathLen) /\ t = copy(zeroed, r.text)
                           /\ flagged = (r.n <= 0 \/ r.n = PathLen)
  BY Zenon
<1>a. /\ copy(zeroed, r.text) = r.text /\ r.text \in Seq(Units) /\ Clean(r.text)
      /\ r.n <= 0 \/ r.n = PathLen \/ r.text = src
  <2>1. PICK size : size = PathLen
    BY Zenon
  <2>2. size \in Nat \ {0} /\ r = read_kernel_str(src, size)
    BY <1>1, <2>1, PathSizes, ZenonT(30)
  <2>3. copy(zeroed, r.text) = r.text /\ r.text \in Seq(Units) /\ Clean(r.text)
    BY <2>2, StringClean, Zenon
  <2>4. r.n <= 0 \/ r.n = size \/ r.text = src
    BY <2>2, StringClean, SMTT(30)
  <2> QED
    BY <2>1, <2>3, <2>4, ZenonT(30)
<1>2. t = r.text /\ t \in Seq(Units) /\ Clean(t)
  BY <1>1, <1>a, Zenon
<1>3. flagged \/ t = src
  BY <1>1, <1>2, <1>a, ZenonT(30)
<1>4. GoodPart(Part(t, flagged, src))
  BY <1>2, <1>3, PartGood, Zenon
<1> QED
  BY <1>1, <1>4, Zenon DEF copy_raw_mount_string_to_sample

LEMMA MountKeeps ==
  ASSUME RingInv, handle_security_sb_mount
  PROVE  RingInv'
<1>1. CASE skip
  BY <1>1, SkipKeeps, Zenon
<1>2. ASSUME NEW dev_name \in Strings, NEW d \in Dentries,
             submit(Sample("mount", <<copy_raw_mount_string_to_sample(dev_name),
                                      copy_dentry_fallback_path_to_sample(d)>>))
      PROVE  RingInv'
  <2>1. PICK p, q : p = copy_raw_mount_string_to_sample(dev_name) /\ q = copy_dentry_fallback_path_to_sample(d)
    BY Zenon
  <2>2. GoodPart(p) /\ GoodPart(q)
    BY <2>1, MountStringGood, FallbackGood, Zenon
  <2>3. ShowsClean(q) /\ CompletePart(q)
    BY <2>2, Zenon DEF GoodPart
  <2>4. "mount" \notin {"http", "dns"}
    OBVIOUS
  <2>5. Good(Sample("mount", <<p, q>>))
    BY <2>2, <2>3, <2>4, TwoPartsGood, ZenonT(30)
  <2> QED
    BY <1>2, <2>1, <2>5, SubmitKeeps, ZenonT(30)
<1> QED
  BY <1>1, <1>2, Zenon DEF handle_security_sb_mount

(* A socket path is whole or flagged, and shown only if it was readable. *)
LEMMA UnixKeeps ==
  ASSUME RingInv, submit_unix_socket_connect
  PROVE  RingInv'
<1>1. PICK a \in Addresses, cwd \in Dentries :
        LET sun_path == Part(copy(zeroed, SubSeq(a, 1, Least(Len(a), SunPathLen))), Len(a) > SunPathLen, a)
            readable == a # <<>> /\ "fault" \notin Range(sun_path.memory)
        IN \/ skip
           \/ discard
           \/ readable /\ submit(Sample("unix", <<sun_path>>))
           \/ readable /\ submit(Sample("unix", <<sun_path, copy_current_cwd_fallback_path_to_sample(cwd)>>))
  BY Zenon DEF submit_unix_socket_connect
<1>2. PICK t, flagged, p, q : /\ t = SubSeq(a, 1, Least(Len(a), SunPathLen))
                              /\ flagged = (Len(a) > SunPathLen)
                              /\ p = Part(copy(zeroed, t), flagged, a)
                              /\ q = copy_current_cwd_fallback_path_to_sample(cwd)
  BY Zenon
<1>3. \/ skip
      \/ discard
      \/ "fault" \notin Range(p.memory) /\ (submit(Sample("unix", <<p>>)) \/ submit(Sample("unix", <<p, q>>)))
  BY <1>1, <1>2, Zenon
<1>4. a \in Seq(Units) /\ CleanIfReadable(a)
  BY HookInputs, Labelling, Zenon DEF Text
<1>5. t \in Seq(Units) /\ (Len(a) <= SunPathLen => t = a)
  BY <1>2, <1>4, StartIs, PathSizes, ZenonT(30)
<1>6. copy(zeroed, t) = t
  BY <1>5, CopyToZeroed, Zenon
<1>7. p = Part(t, flagged, a)
  BY <1>2, <1>6, ZenonT(30)
<1>8. p.memory = t
  BY <1>7, SMTT(30) DEF Part
<1>9. flagged \/ Len(a) <= SunPathLen
  <2>1. Len(a) > SunPathLen \/ Len(a) <= SunPathLen
    BY <1>4, PathSizes, SMTT(30)
  <2> QED
    BY <1>2, <2>1, ZenonT(30)
<1>10. GoodPart(q)
  <2>1. CASE cwd = NoDentry
    <3>1. q = Part(zeroed, TRUE, cwd.names)
      BY <1>2, <2>1, Zenon DEF copy_current_cwd_fallback_path_to_sample
    <3>2. zeroed \in Seq(Units) /\ Clean(zeroed)
      BY CleanEmpty, Zenon DEF zeroed
    <3> QED
      BY <3>1, <3>2, PartGood, ZenonT(30)
  <2>2. CASE cwd # NoDentry
    BY <1>2, <2>2, FallbackGood, ZenonT(30) DEF copy_current_cwd_fallback_path_to_sample
  <2> QED
    BY <2>1, <2>2, Zenon
<1>11. ASSUME "fault" \notin Range(p.memory)
       PROVE  Good(Sample("unix", <<p>>)) /\ Good(Sample("unix", <<p, q>>))
  <2>1. Clean(t)
    BY <1>2, <1>4, <1>8, <1>11, StartClean, PathSizes, ZenonT(30)
  <2>2. GoodPart(p)
    BY <1>5, <1>7, <1>9, <2>1, PartGood, ZenonT(30)
  <2>3. "unix" \notin {"http", "dns"}
    OBVIOUS
  <2>4. ShowsClean(q) /\ CompletePart(q)
    BY <1>10, Zenon DEF GoodPart
  <2> QED
    BY <2>2, <2>3, <2>4, OnePartGood, TwoPartsGood, ZenonT(30)
<1> QED
  BY <1>3, <1>11, SkipKeeps, DiscardKeeps, SubmitKeeps, ZenonT(30)

(* An argument vector is whole, or flagged, and not shown if it faults. *)
LEMMA ArgvGood ==
  ASSUME NEW argv \in Argvs
  PROVE  GoodPart(fill_exec_argv(argv))
<1>1. argv \in Seq(Units) /\ CleanIfReadable(argv)
  BY HookInputs, Labelling, Zenon DEF Text
<1>2. PICK blob, faulted, t, flagged : /\ blob = SubSeq(argv, 1, Least(Len(argv), ArgvLen))
                                       /\ faulted = ("fault" \in Range(blob))
                                       /\ t = (IF faulted THEN <<>> ELSE blob)
                                       /\ flagged = (faulted \/ Len(argv) > ArgvLen)
  BY Zenon
<1>3. fill_exec_argv(argv) = Part(copy(zeroed, t), flagged, argv)
  BY <1>2, Zenon DEF fill_exec_argv
<1>4. blob \in Seq(Units) /\ (Len(argv) <= ArgvLen => blob = argv)
  BY <1>1, <1>2, StartIs, PathSizes, ZenonT(30)
<1>5. ~faulted => Clean(blob)
  BY <1>1, <1>2, StartClean, PathSizes, ZenonT(30)
<1>6. t \in Seq(Units) /\ Clean(t)
  BY <1>2, <1>4, <1>5, CleanEmpty, ZenonT(30)
<1>7. Len(argv) > ArgvLen \/ Len(argv) <= ArgvLen
  BY <1>1, PathSizes, SMTT(30)
<1>8. flagged \/ t = argv
  BY <1>2, <1>4, <1>7, Zenon
<1>9. copy(zeroed, t) = t
  BY <1>6, CopyToZeroed, Zenon
<1>10. GoodPart(Part(t, flagged, argv))
  BY <1>6, <1>8, PartGood, ZenonT(30)
<1> QED
  BY <1>3, <1>9, <1>10, Zenon

LEMMA ExecKeeps ==
  ASSUME RingInv, handle_sched_process_exec
  PROVE  RingInv'
<1>1. PICK argv \in Argvs, filename \in Strings :
        LET r == read_kernel_str(filename, ExecPathLen)
        IN submit(Sample("exec", <<fill_exec_argv(argv), Part(copy(zeroed, r.text), FALSE, filename)>>))
  BY Zenon DEF handle_sched_process_exec
<1>2. PICK r, p, q : /\ r = read_kernel_str(filename, ExecPathLen) /\ p = fill_exec_argv(argv)
                     /\ q = Part(copy(zeroed, r.text), FALSE, filename)
  BY Zenon
<1>3. submit(Sample("exec", <<p, q>>))
  BY <1>1, <1>2, Zenon
<1>4. copy(zeroed, r.text) = r.text /\ r.text \in Seq(Units) /\ Clean(r.text)
  BY <1>2, PathSizes, StringClean, Zenon
<1>5. q.memory = copy(zeroed, r.text)
  BY <1>2, SMTT(30) DEF Part
<1>6. ShowsClean(q)
  BY <1>4, <1>5, MemoryClean, Zenon DEF ShowsClean
<1>7. GoodPart(p)
  BY <1>2, ArgvGood, Zenon
<1>8. "exec" \notin {"http", "dns"} /\ "exec" \in {"symlink", "exec"}
  OBVIOUS
<1>9. Good(Sample("exec", <<p, q>>))
  BY <1>6, <1>7, <1>8, TwoPartsGood, ZenonT(30)
<1> QED
  BY <1>3, <1>9, SubmitKeeps, Zenon

(* Forks and connects carry no text. *)
LEMMA BareKeeps ==
  ASSUME RingInv, handle_sched_process_fork \/ handle_cgroup_connect
  PROVE  RingInv'
<1>1. skip \/ submit(Sample("fork", <<>>)) \/ submit(Sample("connect", <<>>))
  BY Zenon DEF handle_sched_process_fork, handle_cgroup_connect
<1>2. "fork" \notin {"http", "dns"} /\ "connect" \notin {"http", "dns"}
  OBVIOUS
<1>3. Good(Sample("fork", <<>>)) /\ Good(Sample("connect", <<>>))
  BY <1>2, NoPartsGood, Zenon
<1> QED
  BY <1>1, <1>3, SkipKeeps, SubmitKeeps, ZenonT(30)

(* All other hooks. *)
LEMMA HooksKeep ==
  ASSUME RingInv, HooksNext
  PROVE  RingInv'
  BY OpenKeeps, RemoveKeeps, TwoPathsKeep, SymlinkKeeps, MountKeeps, UnixKeeps, ExecKeeps, BareKeeps,
     SendKeeps, ZenonT(30) DEF HooksNext

(***************************************************************************)
(* The invariant                                                           *)
(***************************************************************************)

(* Every sample in the ring is good, and the scratch map between programs  *)
(* holds offsets inside the prefix.                                        *)
IInv == RingInv /\ ScratchFits(http_scratch)

LEMMA InitInvariant == Init => IInv
<1> SUFFICES ASSUME Init
             PROVE  IInv
  OBVIOUS
<1>1. ring = <<>> /\ drops = 0 /\ events = 0
  BY Zenon DEF Init, RingInit
<1>2. ring \in Seq({}) /\ Len(ring) = 0 /\ DOMAIN ring = {}
  BY <1>1, SMTT(30)
<1>3. RingTyped
  <2>1. drops \in Nat /\ events \in Nat
    BY <1>1, SMTT(30)
  <2> QED
    BY <1>2, <2>1, Zenon DEF RingTyped
<1>4. RingGood
  BY <1>2, Zenon DEF RingGood
<1>5. RingBounded
  BY <1>1, <1>2, RingAssumption, SMTT(30) DEF RingBounded
<1>6. PICK p : p = [i \in 1 .. PrefixLen |-> "NUL"]
  BY Zenon
<1>7. p \in Seq(Units) /\ Len(p) = PrefixLen
  <2>1. "NUL" \in Units
    BY RingAssumption, SMTT(30)
  <2>2. p \in [1 .. PrefixLen -> Units]
    BY <1>6, <2>1, Zenon
  <2> QED
    BY <2>2, Sizes, SMTT(30)
<1>8. PICK s : s = http_scratch
  BY Zenon
<1>9. s = [prefix |-> p, data_len |-> 0, line_end |-> 0, path_n |-> 0, have_host |-> FALSE,
           host_val |-> 0, host_n |-> 0]
  BY <1>6, <1>8, ZenonT(30) DEF Init, HttpInit
<1>10. s \in Scratch /\ s.prefix = p /\ s.data_len = 0 /\ s.path_n = 0 /\ s.have_host = FALSE
  BY <1>7, <1>9, SMTT(30) DEF Scratch
<1>11. 0 <= PrefixLen
  BY Sizes, SMTT(30)
<1>12. ScratchFits(s)
  BY <1>7, <1>10, <1>11, ZenonT(30) DEF ScratchFits
<1> QED
  BY <1>3, <1>4, <1>5, <1>8, <1>12, ZenonT(30) DEF IInv, RingInv

LEMMA NextInvariant == IInv /\ [Next]_vars => IInv'
<1> SUFFICES ASSUME IInv, [Next]_vars
             PROVE  IInv'
  OBVIOUS
<1>1. RingInv /\ ScratchFits(http_scratch)
  BY Zenon DEF IInv
<1>2. CASE HttpNext
  <2>1. RingInv' /\ ScratchFits(http_scratch')
    BY <1>1, <1>2, HttpKeeps, ZenonT(30)
  <2> QED
    BY <2>1, Zenon DEF IInv, ScratchFits
<1>3. CASE HooksNext /\ UNCHANGED http_scratch
  <2>1. RingInv'
    BY <1>1, <1>3, HooksKeep, Zenon
  <2> QED
    BY <1>1, <1>3, <2>1, ZenonT(30) DEF IInv, ScratchFits
<1>4. CASE Consume /\ UNCHANGED http_scratch
  <2>1. RingInv'
    BY <1>1, <1>4, ConsumeKeeps, ZenonT(30)
  <2> QED
    BY <1>1, <1>4, <2>1, Zenon DEF IInv, ScratchFits
<1>5. CASE UNCHANGED vars
  <2>1. UNCHANGED <<ring, drops, events, http_scratch>>
    BY <1>5, SMTT(30) DEF vars, ringVars
  <2>2. RingTyped' /\ RingBounded' /\ RingGood'
    BY <1>1, <2>1, SMTT(30) DEF RingInv, RingTyped, RingBounded, RingGood, Good, CompletePart, Visible
  <2> QED
    BY <1>1, <2>1, <2>2, ZenonT(30) DEF IInv, ScratchFits, RingInv
<1> QED
  BY <1>2, <1>3, <1>4, <1>5, ZenonT(30) DEF Next

LEMMA Invariance == Spec => []IInv
<1>1. Init => IInv
  BY InitInvariant, SMTT(30)
<1>2. IInv /\ [Next]_vars => IInv'
  BY NextInvariant, SMTT(30)
<1> QED
  BY <1>1, <1>2, PTL DEF Spec

LEMMA InvariantImplies ==
  IInv => HttpSampleExact /\ CompleteOrFlagged /\ DnsPayloadLogical /\ OnlySelectedText /\ TypeOK
<1> SUFFICES ASSUME IInv
             PROVE  HttpSampleExact /\ CompleteOrFlagged /\ DnsPayloadLogical /\ OnlySelectedText /\ TypeOK
  OBVIOUS
<1>1. \A i \in DOMAIN ring : Good(ring[i])
  BY Zenon DEF IInv, RingInv, RingGood
<1>2. HttpSampleExact
  BY <1>1, Zenon DEF HttpSampleExact, Good
<1>3. CompleteOrFlagged
  BY <1>1, Zenon DEF CompleteOrFlagged, Good
<1>4. DnsPayloadLogical
  BY <1>1, Zenon DEF DnsPayloadLogical, Good
<1>5. OnlySelectedText
  BY <1>1, Zenon DEF OnlySelectedText, Good
<1>6. TypeOK
  <2>1. PICK s : s = http_scratch
    BY Zenon
  <2>2. ScratchFits(s)
    BY <2>1, Zenon DEF IInv
  <2>3. s.data_len \in Nat /\ s.path_n \in Nat
    BY <2>2, Zenon DEF ScratchFits, Scratch
  <2>4. s.data_len <= PrefixLen /\ s.path_n <= PrefixLen
    BY <2>2, Zenon DEF ScratchFits
  <2>5. s.data_len \in 0 .. PrefixLen /\ s.path_n \in 0 .. PrefixLen
    BY <2>3, <2>4, Sizes, SMTT(30)
  <2>6. RingBounded
    BY Zenon DEF IInv, RingInv
  <2> QED
    BY <2>1, <2>2, <2>5, <2>6, ZenonT(30) DEF TypeOK, ScratchFits, RingBounded
<1> QED
  BY <1>2, <1>3, <1>4, <1>5, <1>6, ZenonT(30)

(* An HTTP sample is the parse of its own request, whatever the requests   *)
(* parsed before on the CPU left in the scratch map, for every prefix and  *)
(* field length and every request.                                         *)
THEOREM HttpSamplesAreExact == Spec => []HttpSampleExact
<1>1. IInv => HttpSampleExact
  BY InvariantImplies, ZenonT(30)
<1> QED
  BY <1>1, Invariance, PTL

(* What a field shows is all there is of it, or the sample flags it: the   *)
(* paths, mount sources, socket paths and argument vectors of every hook,  *)
(* for every depth of the walk and every buffer size.                      *)
THEOREM FieldsAreCompleteOrFlagged == Spec => []CompleteOrFlagged
<1>1. IInv => CompleteOrFlagged
  BY InvariantImplies, ZenonT(30)
<1> QED
  BY <1>1, Invariance, PTL

(* A DNS payload is made of bytes of its message in their order, and a     *)
(* message of at most one chunk is captured whole, for every number, size  *)
(* and readability of segments.                                            *)
THEOREM DnsPayloadsAreLogical == Spec => []DnsPayloadLogical
<1>1. IInv => DnsPayloadLogical
  BY InvariantImplies, Zenon
<1> QED
  BY <1>1, Invariance, PTL

(* No sample shows a query, another header, a body, bytes behind a short   *)
(* segment, an earlier record or an earlier request.                       *)
THEOREM SamplesShowOnlySelectedText == Spec => []OnlySelectedText
<1>1. IInv => OnlySelectedText
  BY InvariantImplies, ZenonT(30)
<1> QED
  BY <1>1, Invariance, PTL

(* The offsets of the parse stay inside the prefix, and every hook that    *)
(* ran left at most one record or one drop (RESERVE_SAMPLE and             *)
(* note_ringbuf_drop).                                                     *)
THEOREM CaptureStaysInBounds == Spec => []TypeOK
<1>1. IInv => TypeOK
  BY InvariantImplies, Zenon
<1> QED
  BY <1>1, Invariance, PTL
=============================================================================
