---------------------------- MODULE MCBasicBytes ----------------------------
(* The instance of BasicBytes that TLC checks. *)
EXTENDS BasicBytes, TLC

Interchangeable == Permutations(Objects) \cup Permutations(Allocs)
=============================================================================
