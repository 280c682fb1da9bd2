-------------------------- MODULE MCKernelTracker --------------------------
(* Small instances of KernelTracker: a runner cgroup and the cgroup of a    *)
(* container below it.  A container whose name may be staged is tracked     *)
(* because of its parent or because of its name, whichever comes first.     *)
EXTENDS KernelTracker, TLC

CONSTANTS j1, j2, runner, container, staged

MCParent == [c \in Cgroups |-> IF c = container THEN runner ELSE Root]
MCBaseOf == [c \in Cgroups |->
                IF c = container /\ staged \in Basenames THEN staged ELSE OtherName]

\* A process of the runner enters the container (docker exec is such a move).
MCMoves == {<<runner, container>>}
Symmetry == Permutations(Jobs)
=============================================================================
