----------------------------- MODULE LogStream -----------------------------
(***************************************************************************)
(* What a manager log output promises: records reach the manager in the    *)
(* order in which they were accepted, none is skipped, and what the        *)
(* manager holds it keeps.  One may arrive more than once; whether it      *)
(* arrives at all is a matter of liveness.                                 *)
(***************************************************************************)
EXTENDS Naturals, Sequences

CONSTANT Records

VARIABLES
    accepted,  \* sequence of the records the output took
    stored     \* set of the records the manager holds

Init ==
    /\ accepted = <<>>
    /\ stored = {}

Accept == \E r \in Records : accepted' = Append(accepted, r) /\ UNCHANGED stored

Deliver ==
    /\ \E n \in 1 .. Len(accepted) : stored' = {accepted[k] : k \in 1 .. n}
    /\ stored \subseteq stored'
    /\ UNCHANGED accepted

Spec == Init /\ [][Accept \/ Deliver]_<<accepted, stored>>
=============================================================================
