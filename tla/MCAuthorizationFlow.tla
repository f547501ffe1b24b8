------------------------- MODULE MCAuthorizationFlow -------------------------
(* Values for the constants of AuthorizationFlow. *)
EXTENDS AuthorizationFlow, TLC

CONSTANTS c1, c2

CodesOfFirst == [k \in Codes |-> c1]
FlowSymmetry ==
  Permutations(Visits) \union Permutations(Browsers)
    \union Permutations(Codes) \union Permutations(Grants)
=============================================================================
