--------------------------- MODULE MCLogDelivery ---------------------------
(***************************************************************************)
(* One sender and two interchangeable refreshers share a token source.  A  *)
(* time unit is half of the base delay of the retry loop.                  *)
(***************************************************************************)
EXTENDS LogDelivery, TLC

Interchangeable == Permutations(Refreshers)
=============================================================================
