----------------------------- MODULE MCPsxIngest -----------------------------
(* Instances of PsxIngest for TLC. *)
EXTENDS PsxIngest, TLC

(* Neither the accepted CSVs nor the processes are told apart by the code. *)
Symmetric == Permutations(ValidCsvs) \cup Permutations(Procs)

=============================================================================
