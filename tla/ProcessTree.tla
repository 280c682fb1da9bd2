---------------------------- MODULE ProcessTree ----------------------------
(***************************************************************************)
(* jobProcessState (kerneltracker/job_tracking_process.go): what a Job's   *)
(* tracker knows of its processes.  `nodes` is nodesByIdentity; a node     *)
(* keeps the image it runs and the images of its ancestors as they were    *)
(* when it was forked, nearest first.  argv travels with the image.        *)
(*                                                                         *)
(* No exit sample exists (bpf/process_hooks.bpf.h has no exit program and  *)
(* decodeKernelSample no exit kind), so recordExit and the purge of        *)
(* exitedQueue have no input, and a node stays until the Job is removed.   *)
(***************************************************************************)
EXTENDS Integers, Sequences

CONSTANTS MaxAncestorDepth, NoImage    \* NoImage: the empty exec path

\* processSummaryFromIdentity: nothing but the identity is known.
UnknownProcess == [image |-> NoImage, ancestors |-> <<>>]

known(nodes, p) == p \in DOMAIN nodes

setNode(nodes, p, node) ==
    [q \in DOMAIN nodes \cup {p} |-> IF q = p THEN node ELSE nodes[q]]

recordFork(nodes, child, parent) ==
    setNode(nodes, child,
        IF known(nodes, parent)
        THEN LET lineage == <<nodes[parent].image>> \o nodes[parent].ancestors
             IN  [image |-> nodes[parent].image,
                  ancestors |-> IF Len(lineage) > MaxAncestorDepth
                                THEN SubSeq(lineage, 1, MaxAncestorDepth) ELSE lineage]
        ELSE UnknownProcess)

\* Mutant: a node that has an image keeps it.
RecordFirstExec(nodes, p, image) ==
    IF known(nodes, p) THEN nodes
    ELSE setNode(nodes, p, [image |-> image, ancestors |-> <<>>])

recordExec(nodes, p, image) ==
    setNode(nodes, p, [image |-> image,
                       ancestors |-> IF known(nodes, p) THEN nodes[p].ancestors ELSE <<>>])

\* lookupProcessSummary: a miss is filled from /proc and cached, where `exe` is
\* what /proc/<pid>/exe shows now, NoImage if the process has gone.
backfill(nodes, p, exe) ==
    IF known(nodes, p) \/ exe = NoImage
    THEN nodes
    ELSE setNode(nodes, p, [image |-> exe, ancestors |-> <<>>])

lookupProcessSummary(nodes, p) ==
    IF known(nodes, p) THEN nodes[p] ELSE UnknownProcess
=============================================================================
