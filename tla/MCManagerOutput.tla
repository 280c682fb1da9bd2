-------------------------- MODULE MCManagerOutput --------------------------
(***************************************************************************)
(* Instances of ManagerOutput for TLC.  Records 1 and 2 fill a batch of    *)
(* Threshold 3 together, record 2 and a later one exceed it.               *)
(***************************************************************************)
EXTENDS ManagerOutput

SizeMC == [r \in Records |-> IF r = 1 THEN 1 ELSE 2]

=============================================================================
