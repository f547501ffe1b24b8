--------------------------- MODULE MCAdminSession ---------------------------
(* Values for the constants of AdminSession. *)
EXTENDS AdminSession, TLC

SessionSymmetry ==
  Permutations(Requests) \union Permutations(Sessions)
=============================================================================
