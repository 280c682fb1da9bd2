-------------------------- MODULE CgroupOwnership --------------------------
(***************************************************************************)
(* What cgroup tracking promises about attribution, without maps, samples, *)
(* queues or scans.  A cgroup has at most one owner; ownership is never    *)
(* handed from one job to another; an existing cgroup loses its owner only *)
(* together with every other cgroup of that job.                           *)
(***************************************************************************)
CONSTANTS Jobs, NoJob, Cgroups

VARIABLES live, owner

ownerVars == <<live, owner>>

OwnershipInit ==
    /\ live \in SUBSET Cgroups
    /\ owner = [c \in Cgroups |-> NoJob]

Appear(c) == live' = live \cup {c} /\ UNCHANGED owner

Vanish(c) == live' = live \ {c} /\ UNCHANGED owner

Claim(c, j) ==
    /\ owner[c] = NoJob
    /\ owner' = [owner EXCEPT ![c] = j]
    /\ UNCHANGED live

\* Cgroups that are gone may be forgotten, any number at a time.
Forget(S) ==
    /\ S \cap live = {}
    /\ owner' = [c \in Cgroups |-> IF c \in S THEN NoJob ELSE owner[c]]
    /\ UNCHANGED live

\* A job ends and releases all that it owns.
Release(j) ==
    /\ owner' = [c \in Cgroups |-> IF owner[c] = j THEN NoJob ELSE owner[c]]
    /\ UNCHANGED live

OwnershipNext ==
    \/ \E c \in Cgroups : Appear(c) \/ Vanish(c)
    \/ \E c \in Cgroups, j \in Jobs : Claim(c, j)
    \/ \E S \in SUBSET Cgroups : Forget(S)
    \/ \E j \in Jobs : Release(j)

Ownership == OwnershipInit /\ [][OwnershipNext]_ownerVars
=============================================================================
