---------------------------- MODULE MCTunHandler ----------------------------
(***************************************************************************)
(* TLC instances of TunHandler.  The threads and the handlers are model    *)
(* values; permuting the callers, the handlers or the dialers that are not *)
(* appliers changes nothing, so safety runs may use them as symmetry sets. *)
(***************************************************************************)
EXTENDS TunHandler, TLC

Symmetry ==
  Permutations(Callers) \cup Permutations(Handlers) \cup Permutations(Dialers \ Appliers)

=============================================================================
