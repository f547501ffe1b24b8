--------------------------- MODULE MCTokenEndpoint ---------------------------
(* Values for the constants of TokenEndpoint.  Half a second is one tick. *)
EXTENDS TokenEndpoint, TLC

CONSTANTS c1, c2, k1, k2

OneClient == {c1}
TwoClients == {c1, c2}
OneCode == {k1}
CodesOfFirst == [k \in Codes |-> c1]
RequestSymmetry == Permutations(Requests)
=============================================================================
