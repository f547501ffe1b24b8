--------------------------- MODULE GrantLifecycle ---------------------------
(***************************************************************************)
(* What the token endpoint promises about a grant, one login handed to one *)
(* MCP client: it opens at generation 0, moves one generation at a time,   *)
(* hands out refresh tokens of generations it has reached and of no other, *)
(* and once it has ended it never comes back.                              *)
(***************************************************************************)
EXTENDS Naturals

CONSTANT Grants

VARIABLES
  status,   \* status[g].phase, and the generation while the grant is live
  handed    \* handed[g]: generations whose refresh token was handed out

lifecycleVars == <<status, handed>>

Unborn == [phase |-> "unborn", generation |-> 0]
Ended == [phase |-> "ended", generation |-> 0]
Live(n) == [phase |-> "live", generation |-> n]

LifecycleInit ==
  /\ status = [g \in Grants |-> Unborn]
  /\ handed = [g \in Grants |-> {}]

Open(g) ==
  /\ status[g] = Unborn
  /\ status' = [status EXCEPT ![g] = Live(0)]
  /\ UNCHANGED handed

HandOut(g) ==
  /\ status[g].phase # "unborn"
  /\ handed' = [handed EXCEPT ![g] = @ \union {status[g].generation}]
  /\ UNCHANGED status

\* The successor token is handed out by the step that makes it current, or by
\* a later HandOut when that step's own answer is lost.
Rotate(g) ==
  /\ status[g].phase = "live"
  /\ status' = [status EXCEPT ![g] = Live(status[g].generation + 1)]
  /\ \/ handed' = [handed EXCEPT ![g] = @ \union {status[g].generation + 1}]
     \/ UNCHANGED handed

End(g) ==
  /\ status' = [status EXCEPT ![g] = Ended]
  /\ UNCHANGED handed

LifecycleNext == \E g \in Grants : Open(g) \/ HandOut(g) \/ Rotate(g) \/ End(g)

LifecycleSpec == LifecycleInit /\ [][LifecycleNext]_lifecycleVars
=============================================================================
