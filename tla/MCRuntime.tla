----------------------------- MODULE MCRuntime ------------------------------
(***************************************************************************)
(* TLC instances of Runtime: the callers are interchangeable.              *)
(***************************************************************************)
EXTENDS Runtime, TLC

Symmetry == Permutations(Callers)

=============================================================================
