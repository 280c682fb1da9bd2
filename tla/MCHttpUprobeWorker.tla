------------------------- MODULE MCHttpUprobeWorker -------------------------
(***************************************************************************)
(* Instances of HttpUprobeWorker for TLC.  The first version of a file has *)
(* the selected symbols, the second is a Go program.                       *)
(***************************************************************************)
EXTENDS HttpUprobeWorker, TLC

OneCgroup == [p \in Procs |-> CHOOSE c \in Cgroups : TRUE]
SymbolThenGo == [k \in Keys |-> IF k[2] = 1 THEN "symbol" ELSE "go"]
SSLSymbols == <<"SSL_write", "SSL_write_ex">>
ProcSymmetry == Permutations(Procs)

=============================================================================
