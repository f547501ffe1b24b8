---------------------------- MODULE MCMomentAdmin ----------------------------
(* Values for the constants of MomentAdmin. *)
EXTENDS MomentAdmin, TLC

Symmetry == Permutations(Requests) \union Permutations(Files)
=============================================================================
