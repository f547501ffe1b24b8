------------------------- MODULE TokenEndpointProofs -------------------------
(***************************************************************************)
(* Proofs about TokenEndpoint for any clients, codes, grants, requests and *)
(* durations.                                                              *)
(***************************************************************************)
EXTENDS TokenEndpoint, TLAPS

-----------------------------------------------------------------------------
(* Rounding to seconds *)

\* Rounding down loses less than a second.
LEMMA FloorBounds ==
  ASSUME NEW t \in Int
  PROVE  /\ FloorSecond(t) \in Int
         /\ FloorSecond(t) <= t
         /\ t < FloorSecond(t) + TicksPerSecond
BY TicksAssumption DEF FloorSecond

\* Rounding up adds less than a second.
LEMMA CeilBounds ==
  ASSUME NEW t \in Int
  PROVE  /\ CeilSecond(t) \in Int
         /\ t <= CeilSecond(t)
         /\ CeilSecond(t) < t + TicksPerSecond
<1> DEFINE u == t + (TicksPerSecond - 1)
<1>1. u \in Int
  BY TicksAssumption
<1>2. /\ FloorSecond(u) \in Int
      /\ FloorSecond(u) <= u
      /\ u < FloorSecond(u) + TicksPerSecond
  BY <1>1, FloorBounds
<1> QED
  BY <1>2, TicksAssumption DEF CeilSecond

\* A ttl lies at or after the instant it was computed for, by under a second.
LEMMA TtlBounds ==
  ASSUME NEW now \in Nat, NEW seconds \in Nat
  PROVE  /\ TtlOf(now, seconds) \in Nat
         /\ now + seconds <= TtlOf(now, seconds)
         /\ TtlOf(now, seconds) < now + seconds + TicksPerSecond
BY CeilBounds, TicksAssumption DEF TtlOf

-----------------------------------------------------------------------------
(* Type correctness *)

RequestKinds == ExchangeJob \union RefreshJob

\* What a request carries at each of its calls.
RequestShape(r) ==
  /\ pc[r] \in {"getClient", "ok"} => job[r] \in RequestKinds
  /\ pc[r] \in ExchangeCalls => job[r] \in ExchangeJob
  /\ pc[r] \in {"putGrant", "putClient"} =>
       /\ job[r].grant \in Grants
       /\ item[r] \in GrantItem
       /\ item[r].value.generation = 0
  /\ pc[r] \in RefreshCalls \union {"reused"} => job[r] \in RefreshJob
  /\ pc[r] \in RefreshCalls => job[r].generation <= MaxGeneration
  /\ pc[r] \in {"cognito", "replaceGrant"} =>
       /\ seen[r] \in GrantValue
       /\ seen[r].generation = job[r].generation
  /\ pc[r] = "replaceGrant" =>
       /\ item[r] \in GrantItem
       /\ item[r].value.generation = job[r].generation + 1

TypeInv == TypeOK /\ \A r \in Requests : RequestShape(r)

\* The successor of a grant value is a grant value of the next generation.
LEMMA SuccessorTyped ==
  ASSUME clock \in Nat, NEW value \in GrantValue, NEW token \in Nat
  PROVE  /\ Successor(value, token) \in GrantValue
         /\ Successor(value, token).generation = value.generation + 1
         /\ Successor(value, token).expiresAt = value.expiresAt
         /\ Successor(value, token).client = value.client
<1> DEFINE v1 == [value EXCEPT !.generation = @ + 1]
           v2 == [v1 EXCEPT !.rotatedAt = clock]
           v3 == [v2 EXCEPT !.upstream = token]
<1>1. /\ v1 \in GrantValue
      /\ v1.generation = value.generation + 1
      /\ v1.expiresAt = value.expiresAt
      /\ v1.client = value.client
  BY DEF GrantValue
<1>2. v3 = Successor(value, token)
  BY DEF Successor
<1> HIDE DEF v1
<1>3. /\ v2 \in GrantValue
      /\ v2.generation = v1.generation
      /\ v2.expiresAt = v1.expiresAt
      /\ v2.client = v1.client
  BY <1>1 DEF GrantValue
<1> HIDE DEF v2
<1>4. /\ v3 \in GrantValue
      /\ v3.generation = v2.generation
      /\ v3.expiresAt = v2.expiresAt
      /\ v3.client = v2.client
  BY <1>3 DEF GrantValue
<1> HIDE DEF v3
<1> QED
  BY <1>1, <1>2, <1>3, <1>4

LEMMA TypeInit == Init => TypeInv
<1> SUFFICES ASSUME Init PROVE TypeInv
  OBVIOUS
<1>1. /\ TtlOf(0, UnusedClientTtl) \in Nat
      /\ TtlOf(0, CodeTtl) \in Nat
  BY TtlBounds, ConstantsAssumption
<1>2. TypeOK
  BY <1>1, ConstantsAssumption
  DEF Init, TypeOK, Settled, Generation
<1>3. \A r \in Requests : RequestShape(r)
  BY DEF Init, RequestShape, ExchangeCalls, RefreshCalls
<1> QED
  BY <1>2, <1>3 DEF TypeInv

\* A token response leaves the request and the histories well typed.
LEMMA RespondTyped ==
  ASSUME TypeInv,
         NEW r \in Requests, NEW g \in Grants, NEW value \in GrantValue,
         value.generation \in Generation,
         job[r] \in RequestKinds,
         Respond(r, g, value)
  PROVE  /\ pc' \in [Requests -> Settled \union {"getClient"}
                       \union ExchangeCalls \union RefreshCalls]
         /\ job' = job
         /\ seen' \in [Requests -> GrantValue \union {Null}]
         /\ item' \in [Requests -> GrantItem \union {Null}]
         /\ answer' \in [Requests -> Generation]
         /\ handed' \in [Grants -> SUBSET Generation]
         /\ accessUntil' \in [Grants -> Nat]
         /\ \A q \in Requests : RequestShape(q)'
<1> USE DEF TypeInv, TypeOK, Respond, Settle, Goto
<1>1. AccessExp(value) \in Int
  BY FloorBounds, ConstantsAssumption DEF AccessExp, GrantValue
<1>2. /\ answer' \in [Requests -> Generation]
      /\ handed' \in [Grants -> SUBSET Generation]
      /\ accessUntil' \in [Grants -> Nat]
  BY <1>1 DEF IssueTokens
<1>3. RequestShape(r)'
  BY DEF RequestShape, ExchangeCalls, RefreshCalls
<1>4. ASSUME NEW q \in Requests, q # r PROVE RequestShape(q)'
  BY <1>4 DEF RequestShape, ExchangeCalls, RefreshCalls
<1> QED
  BY <1>2, <1>3, <1>4 DEF Settled

LEMMA TypeNext == TypeInv /\ [Next]_vars => TypeInv'
<1> SUFFICES ASSUME TypeInv, [Next]_vars
             PROVE  TypeInv'
  OBVIOUS
<1> USE DEF TypeInv, TypeOK, RequestShape, RequestKinds, Settled,
            ExchangeCalls, RefreshCalls, ExchangeJob, RefreshJob,
            Goto, Settle, Refuse, Continue
<1>1. ASSUME NEW r \in Requests, NEW j \in RequestKinds, Arrive(r, j)
      PROVE  TypeInv'
  BY <1>1, ConstantsAssumption DEF Arrive, store, history, Generation
<1>2. ASSUME NEW r \in Requests, GetClient(r)
      PROVE  TypeInv'
  <2>1. CASE Refuse(r)
    BY <1>2, <2>1 DEF GetClient, store
  <2>2. CASE job[r].kind = "authorization_code" /\ Continue(r, "takeCode")
    <3>1. job[r] \in ExchangeJob
      BY <1>2, <2>2 DEF GetClient
    <3> QED
      BY <1>2, <2>2, <3>1 DEF GetClient, store
  <2>3. CASE /\ job[r].kind # "authorization_code"
             /\ ParseRefreshToken(job[r].generation)
             /\ Continue(r, "getGrant")
    <3>1. job[r] \in RefreshJob
      BY <1>2, <2>3 DEF GetClient
    <3> QED
      BY <1>2, <2>3, <3>1 DEF GetClient, store, ParseRefreshToken
  <2> QED
    BY <1>2, <2>1, <2>2, <2>3 DEF GetClient
<1>3. ASSUME NEW r \in Requests, TakeCode(r)
      PROVE  TypeInv'
  <2>1. job[r] \in ExchangeJob
    BY <1>3 DEF TakeCode
  <2>2. /\ codeTtl' \in [Codes -> Nat]
        /\ takes' \in [Codes -> Nat]
    BY <1>3, <2>1 DEF TakeCode, AfterTake
  <2>3. CASE Refuse(r) /\ UNCHANGED origin
    BY <1>3, <2>2, <2>3 DEF TakeCode
  <2>4. ASSUME NEW g \in Grants,
               origin' = [origin EXCEPT ![g] =
                 [code |-> job[r].code, expiresAt |-> clock + SessionTtl]],
               job' = [job EXCEPT ![r].grant = g],
               item' = [item EXCEPT ![r] =
                 [value |-> [client |-> job[r].client, generation |-> 0,
                             rotatedAt |-> clock,
                             expiresAt |-> clock + SessionTtl,
                             upstream |-> session[g].token],
                  ttl |-> TtlOf(clock, SessionTtl)]],
               Goto(r, "putGrant"),
               UNCHANGED <<seen, answer, handed, accessUntil>>
        PROVE  TypeInv'
    <3>1. /\ item'[r] \in GrantItem
          /\ item'[r].value.generation = 0
      BY <2>1, <2>4, TtlBounds, ConstantsAssumption DEF GrantItem, GrantValue
    <3>2. item' \in [Requests -> GrantItem \union {Null}]
      BY <2>4, <3>1
    <3>3. /\ job'[r] \in ExchangeJob
          /\ job'[r].grant \in Grants
      BY <2>1, <2>4
    <3>4. job' \in [Requests -> RequestKinds \union {Null}]
      BY <2>4, <3>3
    <3>5. origin' \in [Grants -> Origin \union {Null}]
      BY <2>1, <2>4, ConstantsAssumption DEF Origin
    <3>6. TypeOK'
      BY <1>3, <2>2, <2>4, <3>2, <3>4, <3>5 DEF TakeCode
    <3>7. RequestShape(r)'
      BY <2>4, <3>1, <3>3
    <3>8. ASSUME NEW q \in Requests, q # r PROVE RequestShape(q)'
      BY <2>4, <3>8
    <3> QED
      BY <3>6, <3>7, <3>8
  <2> QED
    BY <1>3, <2>3, <2>4 DEF TakeCode
<1>4. ASSUME NEW r \in Requests, PutGrant(r)
      PROVE  TypeInv'
  BY <1>4, TtlBounds, ConstantsAssumption DEF PutGrant, history, GrantItem
<1>5. ASSUME NEW r \in Requests, PutClient(r)
      PROVE  TypeInv'
  <2>1. /\ job[r] \in ExchangeJob
        /\ job[r].grant \in Grants
        /\ item[r] \in GrantItem
        /\ item[r].value \in GrantValue
        /\ item[r].value.generation \in Generation
    BY <1>5, ConstantsAssumption DEF PutClient, GrantItem, Generation
  <2>2. clientTtl' \in [Clients -> Nat]
    BY <1>5, <2>1 DEF PutClient, GrantItem
  <2> QED
    BY <1>5, <2>1, <2>2, RespondTyped DEF PutClient
<1>6. ASSUME NEW r \in Requests, GetGrant(r)
      PROVE  TypeInv'
  <2>1. job[r] \in RefreshJob /\ job[r].generation <= MaxGeneration
    BY <1>6 DEF GetGrant
  <2> DEFINE g == job[r].grant
  <2>2. CASE Refuse(r)
    BY <1>6, <2>2 DEF GetGrant, store
  <2>3. ASSUME grants[g] # Null, IsRetry(job[r].generation, grants[g].value),
               Respond(r, g, grants[g].value)
        PROVE  TypeInv'
    <3>1. grants[g] \in GrantItem /\ grants[g].value \in GrantValue
      BY <2>1, <2>3 DEF GrantItem
    <3>2. grants[g].value.generation \in Generation
      BY <2>1, <2>3, <3>1, ConstantsAssumption DEF IsRetry, GrantValue, Generation
    <3> HIDE DEF g
    <3> QED
      BY <1>6, <2>1, <2>3, <3>1, <3>2, RespondTyped DEF GetGrant, store, g
  <2>4. CASE Continue(r, "deleteReused")
    BY <1>6, <2>1, <2>4 DEF GetGrant, store
  <2>5. ASSUME grants[g] # Null,
               job[r].generation = grants[g].value.generation,
               seen' = [seen EXCEPT ![r] = grants[g].value],
               Goto(r, "cognito"),
               UNCHANGED <<job, item, answer, handed, accessUntil>>
        PROVE  TypeInv'
    <3>1. grants[g].value \in GrantValue
      BY <2>1, <2>5 DEF GrantItem
    <3>2. seen' \in [Requests -> GrantValue \union {Null}]
      BY <2>5, <3>1
    <3>3. TypeOK'
      BY <1>6, <2>5, <3>2 DEF GetGrant, store
    <3>4. RequestShape(r)'
      BY <2>1, <2>5, <3>1
    <3>5. ASSUME NEW q \in Requests, q # r PROVE RequestShape(q)'
      BY <2>5, <3>5
    <3> QED
      BY <3>3, <3>4, <3>5
  <2> QED
    BY <1>6, <2>2, <2>3, <2>4, <2>5 DEF GetGrant, Visible
<1>7. ASSUME NEW r \in Requests, DeleteReused(r)
      PROVE  TypeInv'
  BY <1>7 DEF DeleteReused, history
<1>8. ASSUME NEW r \in Requests, CognitoRefreshes(r)
      PROVE  TypeInv'
  <2>1. /\ job[r] \in RefreshJob
        /\ job[r].generation <= MaxGeneration
        /\ seen[r] \in GrantValue
        /\ seen[r].generation = job[r].generation
    BY <1>8 DEF CognitoRefreshes
  <2> DEFINE g == job[r].grant
  <2>2. Rotated(g) \in Nat
    BY <2>1 DEF Rotated
  <2>3. session' \in [Grants -> [active: BOOLEAN, token: Nat]]
    <3>1. session' = [session EXCEPT ![g].token = Rotated(g)]
      BY <1>8 DEF CognitoRefreshes
    <3>2. g \in Grants
      BY <2>1
    <3> HIDE DEF g
    <3> QED
      BY <2>2, <3>1, <3>2
  <2>4. CASE Refuse(r)
    BY <1>8, <2>3, <2>4 DEF CognitoRefreshes, store
  <2>5. ASSUME ~(RemainingSeconds(seen[r].expiresAt) <= 0),
               item' = [item EXCEPT ![r] =
                 [value |-> Successor(seen[r], Rotated(g)),
                  ttl |-> TtlOf(clock, RemainingSeconds(seen[r].expiresAt))]],
               Goto(r, "replaceGrant"),
               UNCHANGED <<job, seen, answer, handed, accessUntil>>
        PROVE  TypeInv'
    <3>1. RemainingSeconds(seen[r].expiresAt) \in Nat
      BY <2>1, <2>5, CeilBounds DEF RemainingSeconds, GrantValue
    <3>2. TtlOf(clock, RemainingSeconds(seen[r].expiresAt)) \in Nat
      BY <3>1, TtlBounds
    <3>3. /\ item'[r] \in GrantItem
          /\ item'[r].value.generation = job[r].generation + 1
      <4> DEFINE next == Successor(seen[r], Rotated(g))
      <4>1. item'[r] = [value |-> next, ttl |->
                TtlOf(clock, RemainingSeconds(seen[r].expiresAt))]
        BY <2>5
      <4>2. clock \in Nat
        OBVIOUS
      <4>3. /\ next \in GrantValue
            /\ next.generation = job[r].generation + 1
        <5>1. seen[r] \in GrantValue
          BY <2>1
        <5>2. Rotated(g) \in Nat
          BY <2>2
        <5>3. seen[r].generation = job[r].generation
          BY <2>1
        <5>4. next \in GrantValue
          BY <5>1, <5>2, <4>2, SuccessorTyped
        <5> QED
          BY <5>1, <5>2, <5>3, <4>2, SuccessorTyped
      <4> HIDE DEF next
      <4>4. [value |-> next, ttl |->
               TtlOf(clock, RemainingSeconds(seen[r].expiresAt))] \in GrantItem
        BY <3>2, <4>3 DEF GrantItem
      <4> QED
        BY <4>1, <4>3, <4>4
    <3>4. item' \in [Requests -> GrantItem \union {Null}]
      BY <2>5, <3>3
    <3>5. TypeOK'
      BY <1>8, <2>3, <2>5, <3>4 DEF CognitoRefreshes, store
    <3>6. RequestShape(r)'
      BY <2>1, <2>5, <3>3
    <3>7. ASSUME NEW q \in Requests, q # r PROVE RequestShape(q)'
      BY <2>5, <3>7
    <3> QED
      BY <3>5, <3>6, <3>7
  <2> QED
    BY <1>8, <2>4, <2>5 DEF CognitoRefreshes
<1>9. ASSUME NEW r \in Requests, CognitoRejects(r)
      PROVE  TypeInv'
  BY <1>9 DEF CognitoRejects, store
<1>10. ASSUME NEW r \in Requests, CognitoUnavailable(r)
       PROVE  TypeInv'
  <2>1. job[r] \in RefreshJob
    BY <1>10 DEF CognitoUnavailable
  <2>2. session' \in [Grants -> [active: BOOLEAN, token: Nat]]
    BY <1>10, <2>1 DEF CognitoUnavailable, Rotated
  <2> QED
    BY <1>10, <2>2 DEF CognitoUnavailable, store
<1>11. ASSUME NEW r \in Requests, DeleteRejected(r)
       PROVE  TypeInv'
  BY <1>11 DEF DeleteRejected
<1>12. ASSUME NEW r \in Requests, ReplaceGrant(r)
       PROVE  TypeInv'
  <2>1. /\ job[r] \in RefreshJob
        /\ job[r].generation <= MaxGeneration
        /\ item[r] \in GrantItem
        /\ item[r].value.generation = job[r].generation + 1
    BY <1>12 DEF ReplaceGrant
  <2> DEFINE g == job[r].grant
  <2>2. CASE Continue(r, "rereadGrant") /\ UNCHANGED grants
    BY <1>12, <2>1, <2>2 DEF ReplaceGrant
  <2>3. CASE /\ grants' = [grants EXCEPT ![g] = item[r]]
             /\ Respond(r, g, item[r].value)
    <3>1. /\ g \in Grants
          /\ item[r].value \in GrantValue
          /\ item[r].value.generation \in Generation
      BY <2>1, ConstantsAssumption DEF GrantItem, Generation
    <3>2. grants' \in [Grants -> GrantItem \union {Null}]
      BY <2>1, <2>3, <3>1
    <3> QED
      BY <1>12, <2>1, <2>3, <3>1, <3>2, RespondTyped DEF ReplaceGrant
  <2>4. CASE /\ grants' = [grants EXCEPT ![g] = item[r]]
             /\ Continue(r, "rereadGrant")
    <3>1. grants' \in [Grants -> GrantItem \union {Null}]
      BY <2>1, <2>4
    <3> QED
      BY <1>12, <2>1, <2>4, <3>1 DEF ReplaceGrant
  <2> QED
    BY <1>12, <2>2, <2>3, <2>4 DEF ReplaceGrant
<1>13. ASSUME NEW r \in Requests, RereadGrant(r)
       PROVE  TypeInv'
  <2>1. job[r] \in RefreshJob /\ job[r].generation <= MaxGeneration
    BY <1>13 DEF RereadGrant
  <2> DEFINE g == job[r].grant
  <2>2. CASE Refuse(r)
    BY <1>13, <2>2 DEF RereadGrant, store
  <2>3. ASSUME grants[g] # Null, IsRetry(job[r].generation, grants[g].value),
               Respond(r, g, grants[g].value)
        PROVE  TypeInv'
    <3>1. grants[g] \in GrantItem /\ grants[g].value \in GrantValue
      BY <2>1, <2>3 DEF GrantItem
    <3>2. grants[g].value.generation \in Generation
      BY <2>1, <2>3, <3>1, ConstantsAssumption DEF IsRetry, GrantValue, Generation
    <3> HIDE DEF g
    <3> QED
      BY <1>13, <2>1, <2>3, <3>1, <3>2, RespondTyped DEF RereadGrant, store, g
  <2> QED
    BY <1>13, <2>2, <2>3 DEF RereadGrant, Visible
<1>14. ASSUME NEW r \in Requests, Crash(r)
       PROVE  TypeInv'
  BY <1>14 DEF Crash, store
<1>15. ASSUME NEW g \in Grants, SignOut(g) \/ Reap(g)
       PROVE  TypeInv'
  <2>1. CASE SignOut(g)
    <3>1. session' \in [Grants -> [active: BOOLEAN, token: Nat]]
      <4>1. session \in [Grants -> [active: BOOLEAN, token: Nat]]
        OBVIOUS
      <4>2. session' = [session EXCEPT ![g].active = FALSE]
        BY <2>1 DEF SignOut
      <4> HIDE DEF TypeInv, TypeOK, RequestShape
      <4> QED
        BY <4>1, <4>2
    <3> QED
      BY <2>1, <3>1 DEF SignOut, store, request, history
  <2>2. CASE Reap(g)
    <3>1. grants' \in [Grants -> GrantItem \union {Null}]
      BY <2>2 DEF Reap
    <3> QED
      BY <2>2, <3>1 DEF Reap, store, request, history
  <2> QED
    BY <1>15, <2>1, <2>2
<1>16. ASSUME Tick \/ UNCHANGED vars
       PROVE  TypeInv'
  BY <1>16 DEF Tick, vars, store, request, history
<1>17. ASSUME NEW r \in Requests, ArriveExchange(r) \/ ArriveRefresh(r)
       PROVE  TypeInv'
  <2>1. CASE ArriveExchange(r)
    BY <1>1, <2>1 DEF ArriveExchange
  <2>2. CASE ArriveRefresh(r)
    <3>1. PICK client \in Clients, g \in Grants :
            \E n \in handed[g] :
              Arrive(r, [kind |-> "refresh_token", client |-> client,
                         grant |-> g, generation |-> n, arrived |-> clock])
      BY <2>2 DEF ArriveRefresh
    <3>2. PICK n \in handed[g] :
            Arrive(r, [kind |-> "refresh_token", client |-> client,
                       grant |-> g, generation |-> n, arrived |-> clock])
      BY <3>1
    <3>3. n \in Generation
      OBVIOUS
    <3> QED
      BY <1>1, <3>2, <3>3
  <2> QED
    BY <1>17, <2>1, <2>2
<1> QED
  BY <1>2, <1>3, <1>4, <1>5, <1>6, <1>7, <1>8, <1>9, <1>10, <1>11, <1>12,
     <1>13, <1>14, <1>15, <1>16, <1>17
  DEF Next, Exchange, Refresh

\* Every variable keeps its type, and every request carries what its next
\* call needs, in every reachable state (index.ts:340-455).
THEOREM TypeCorrect == Spec => []TypeOK
<1>1. Init => TypeInv
  BY TypeInit
<1>2. TypeInv /\ [Next]_vars => TypeInv'
  BY TypeNext
<1>3. TypeInv => TypeOK
  BY DEF TypeInv
<1> QED
  BY <1>1, <1>2, <1>3, PTL DEF Spec

LEMMA TypeInvariant == Spec => []TypeInv
BY TypeInit, TypeNext, PTL DEF Spec

-----------------------------------------------------------------------------
(* Safety.  None of the properties is inductive.  Inv adds what makes them *)
(* so: an exchange owns its grant until it has answered, a refresh         *)
(* presents a token that was handed out, and everything stored for a grant *)
(* stays within its login session up to the rounding of the ttl.           *)

(* The inductive invariant *)

\* A code that was found is gone, and every grant was drawn for a found code.
CodeInv ==
  /\ CodeSpentOnce
  /\ \A c \in Codes : takes[c] # 0 => codeTtl[c] = 0
  /\ \A g \in Grants : origin[g] # Null => takes[origin[g].code] # 0

\* What is stored and handed out for g stays within its login session, and
\* the store is never behind the tokens that were handed out.
GrantInv(g) ==
  /\ origin[g] = Null =>
       grants[g] = Null /\ handed[g] = {} /\ accessUntil[g] = 0
  /\ origin[g] # Null => accessUntil[g] <= origin[g].expiresAt
  /\ grants[g] # Null =>
       /\ grants[g].value.expiresAt = origin[g].expiresAt
       /\ grants[g].ttl < origin[g].expiresAt + 2 * TicksPerSecond
       /\ \A n \in handed[g] : n <= grants[g].value.generation

\* A refresh presented a token that was handed out, for a grant that therefore
\* has an origin, and carries what it read of that grant.
RefreshInv(r) ==
  job[r] \in RefreshJob =>
    LET g == job[r].grant IN
    /\ job[r].generation \in handed[g]
    /\ job[r].arrived <= clock
    /\ pc[r] \in {"cognito", "replaceGrant", "rereadGrant", "ok"} =>
         job[r].arrived < origin[g].expiresAt + 2 * TicksPerSecond
    /\ pc[r] \in {"cognito", "replaceGrant"} =>
         seen[r].expiresAt = origin[g].expiresAt
    /\ pc[r] = "replaceGrant" =>
         /\ item[r].value.expiresAt = origin[g].expiresAt
         /\ item[r].ttl < origin[g].expiresAt + 2 * TicksPerSecond
    /\ pc[r] = "ok" => answer[r] = job[r].generation + 1
    /\ pc[r] = "reused" => grants[g] = Null

Writing == {"putGrant", "putClient"}

\* Until an exchange has answered, its grant is its own: nobody holds a token
\* of it, so no refresh can touch it.
ExchangeInv(r) ==
  pc[r] \in Writing =>
    LET g == job[r].grant IN
    /\ origin[g] # Null
    /\ handed[g] = {}
    /\ item[r].value.expiresAt = origin[g].expiresAt
    /\ pc[r] = "putGrant" =>
         /\ grants[g] = Null
         /\ item[r].ttl < origin[g].expiresAt + 2 * TicksPerSecond
    /\ pc[r] = "putClient" /\ grants[g] # Null => grants[g].value.generation = 0
    /\ \A q \in Requests \ {r} : pc[q] \in Writing => job[q].grant # g

Inv ==
  /\ TypeInv
  /\ CodeInv
  /\ \A g \in Grants : GrantInv(g)
  /\ \A r \in Requests : RefreshInv(r) /\ ExchangeInv(r)

LEMMA JobKinds ==
  /\ \A j \in RefreshJob : j.grant \in Grants /\ j.arrived \in Nat
  /\ \A j \in RefreshJob : j.kind = "refresh_token"
  /\ \A j \in ExchangeJob : j.kind = "authorization_code"
  /\ RefreshJob \intersect ExchangeJob = {}
  /\ \A j \in RequestKinds : j.kind = "refresh_token" => j \in RefreshJob
BY DEF RefreshJob, ExchangeJob, RequestKinds

LEMMA InvInit == Init => Inv
<1> SUFFICES ASSUME Init PROVE Inv
  OBVIOUS
<1>1. TypeInv
  BY TypeInit
<1>2. CodeInv
  BY DEF Init, CodeInv, CodeSpentOnce
<1>3. \A g \in Grants : GrantInv(g)
  BY DEF Init, GrantInv
<1>4. \A r \in Requests : RefreshInv(r) /\ ExchangeInv(r)
  BY NullAssumption DEF Init, RefreshInv, ExchangeInv, Writing
<1> QED
  BY <1>1, <1>2, <1>3, <1>4 DEF Inv

-----------------------------------------------------------------------------
(* Steps that hand nothing out *)

\* The step is not one of request q.
Same(q) ==
  /\ pc'[q] = pc[q]
  /\ job'[q] = job[q]
  /\ seen'[q] = seen[q]
  /\ item'[q] = item[q]
  /\ answer'[q] = answer[q]

\* A step that hands out no token, and changes grants by removing them or by
\* renewing one whose tokens are in use, keeps the invariant if the request it
\* belongs to keeps its own part.
LEMMA QuietStep ==
  ASSUME Inv, TypeInv', clock <= clock',
         UNCHANGED <<codeTtl, takes, origin, handed, accessUntil>>,
         \A g \in Grants :
           \/ grants'[g] \in {grants[g], Null}
           \/ GrantInv(g)' /\ grants[g] # Null /\ handed[g] # {},
         \A q \in Requests :
           Same(q) \/ (pc'[q] \notin Writing /\ RefreshInv(q)')
  PROVE  Inv'
<1>1. CodeInv'
  BY DEF Inv, CodeInv, CodeSpentOnce
<1>2. ASSUME NEW g \in Grants PROVE GrantInv(g)'
  BY <1>2 DEF Inv, GrantInv
<1>3. ASSUME NEW q \in Requests, Same(q) PROVE RefreshInv(q)'
  <2> SUFFICES ASSUME job[q] \in RefreshJob PROVE RefreshInv(q)'
    BY <1>3 DEF Same, RefreshInv
  <2>1. job[q].grant \in Grants /\ job[q].arrived \in Nat
    BY JobKinds
  <2>2. RefreshInv(q)
    BY DEF Inv
  <2>3. clock \in Nat /\ clock' \in Nat
    BY DEF Inv, TypeInv, TypeOK
  <2> QED
    BY <1>3, <2>1, <2>2, <2>3 DEF Same, RefreshInv
<1>4. ASSUME NEW q \in Requests PROVE ExchangeInv(q)'
  <2> SUFFICES ASSUME pc'[q] \in Writing PROVE ExchangeInv(q)'
    BY DEF ExchangeInv
  <2>1. Same(q)
    OBVIOUS
  <2>2. job[q].grant \in Grants
    BY <2>1 DEF Inv, TypeInv, RequestShape, Same, Writing
  <2>3. ExchangeInv(q)
    BY DEF Inv
  <2>4. ASSUME NEW p \in Requests \ {q}, pc'[p] \in Writing
        PROVE  job'[p].grant # job'[q].grant
    <3>1. Same(p)
      BY <2>4
    <3> QED
      BY <2>1, <2>3, <2>4, <3>1 DEF Same, ExchangeInv
  <2> QED
    BY <2>1, <2>2, <2>3, <2>4 DEF Same, ExchangeInv
<1> QED
  BY <1>1, <1>2, <1>3, <1>4 DEF Inv

-----------------------------------------------------------------------------
(* Steps that answer with tokens *)

\* An access token ends within the login session of its grant.
LEMMA AccessExpBound ==
  ASSUME TypeInv, NEW value \in GrantValue
  PROVE  AccessExp(value) \in Int /\ AccessExp(value) <= value.expiresAt
BY FloorBounds, ConstantsAssumption
DEF TypeInv, TypeOK, AccessExp, GrantValue

\* What a token response changes.
LEMMA RespondEffect ==
  ASSUME TypeInv, NEW r \in Requests, NEW g \in Grants, NEW value \in GrantValue,
         Respond(r, g, value)
  PROVE  /\ \A q \in Requests \ {r} : Same(q)
         /\ pc'[r] = "ok" /\ job'[r] = job[r] /\ answer'[r] = value.generation
         /\ \A h \in Grants \ {g} :
              handed'[h] = handed[h] /\ accessUntil'[h] = accessUntil[h]
         /\ handed'[g] = handed[g] \union {value.generation}
         /\ accessUntil'[g] = accessUntil[g] \/ accessUntil'[g] <= value.expiresAt
<1> USE DEF TypeInv, TypeOK, Respond, Settle, Goto, IssueTokens
<1>1. \A q \in Requests \ {r} : Same(q)
  BY DEF Same
<1>2. pc'[r] = "ok" /\ job'[r] = job[r] /\ answer'[r] = value.generation
  OBVIOUS
<1>3. /\ \A h \in Grants \ {g} :
           handed'[h] = handed[h] /\ accessUntil'[h] = accessUntil[h]
      /\ handed'[g] = handed[g] \union {value.generation}
  OBVIOUS
<1>4. accessUntil'[g] = accessUntil[g] \/ accessUntil'[g] <= value.expiresAt
  BY AccessExpBound
<1> QED
  BY <1>1, <1>2, <1>3, <1>4

\* A response for the grant g keeps the invariant when the tokens are of the
\* stored generation, or of one the same step stores, and no exchange still
\* owns g.
LEMMA AnsweredStep ==
  ASSUME Inv, TypeInv', NEW r \in Requests, NEW g \in Grants,
         NEW value \in GrantValue,
         Respond(r, g, value),
         UNCHANGED <<clock, codeTtl, takes, origin>>,
         origin[g] # Null,
         value.expiresAt = origin[g].expiresAt,
         \A h \in Grants \ {g} : grants'[h] = grants[h],
         grants[g] = Null => grants'[g] = Null,
         grants'[g] # Null =>
           /\ grants'[g].value.expiresAt = origin[g].expiresAt
           /\ grants'[g].ttl < origin[g].expiresAt + 2 * TicksPerSecond
           /\ value.generation <= grants'[g].value.generation
           /\ \A n \in handed[g] : n <= grants'[g].value.generation,
         \A q \in Requests \ {r} : pc[q] \in Writing => job[q].grant # g,
         job[r] \in RefreshJob =>
           /\ job[r].grant = g
           /\ job[r].arrived < origin[g].expiresAt + 2 * TicksPerSecond
           /\ value.generation = job[r].generation + 1
  PROVE  Inv'
<1>1. /\ \A q \in Requests \ {r} : Same(q)
      /\ pc'[r] = "ok" /\ job'[r] = job[r] /\ answer'[r] = value.generation
      /\ \A h \in Grants \ {g} :
           handed'[h] = handed[h] /\ accessUntil'[h] = accessUntil[h]
      /\ handed'[g] = handed[g] \union {value.generation}
      /\ accessUntil'[g] = accessUntil[g] \/ accessUntil'[g] <= value.expiresAt
  BY RespondEffect DEF Inv
<1>2. CodeInv'
  BY DEF Inv, CodeInv, CodeSpentOnce
<1>3. ASSUME NEW h \in Grants PROVE GrantInv(h)'
  <2>1. GrantInv(h)
    BY DEF Inv
  <2>2. CASE h # g
    BY <1>1, <2>1, <2>2 DEF GrantInv
  <2>3. CASE h = g
    BY <1>1, <2>1, <2>3 DEF GrantInv
  <2> QED
    BY <2>2, <2>3
<1>4. RefreshInv(r)'
  BY <1>1 DEF Inv, RefreshInv
<1>5. ASSUME NEW q \in Requests \ {r} PROVE RefreshInv(q)'
  <2> SUFFICES ASSUME job[q] \in RefreshJob PROVE RefreshInv(q)'
    BY <1>1 DEF Same, RefreshInv
  <2>1. job[q].grant \in Grants
    BY JobKinds
  <2>2. RefreshInv(q) /\ Same(q)
    BY <1>1 DEF Inv
  <2>3. handed[job[q].grant] \subseteq handed'[job[q].grant]
    BY <1>1, <2>1
  <2>4. grants[job[q].grant] = Null => grants'[job[q].grant] = Null
    BY <2>1
  <2> QED
    BY <2>2, <2>3, <2>4 DEF Same, RefreshInv
<1>6. ASSUME NEW q \in Requests PROVE ExchangeInv(q)'
  <2> SUFFICES ASSUME pc'[q] \in Writing PROVE ExchangeInv(q)'
    BY DEF ExchangeInv
  <2>1. q # r
    BY <1>1 DEF Writing
  <2>2. Same(q) /\ ExchangeInv(q)
    BY <1>1, <2>1 DEF Inv
  <2>3. job[q].grant \in Grants \ {g}
    BY <2>1, <2>2 DEF Inv, TypeInv, RequestShape, Same, Writing
  <2>4. ASSUME NEW p \in Requests \ {q}, pc'[p] \in Writing
        PROVE  job'[p].grant # job'[q].grant
    <3>1. p # r
      BY <1>1, <2>4 DEF Writing
    <3> QED
      BY <1>1, <2>2, <2>4, <3>1 DEF Same, ExchangeInv
  <2> QED
    BY <1>1, <2>2, <2>3, <2>4 DEF Same, ExchangeInv
<1> QED
  BY <1>2, <1>3, <1>4, <1>5, <1>6 DEF Inv

-----------------------------------------------------------------------------
(* The steps *)

\* A request that stops leaves nothing of itself in the invariant.
LEMMA RefuseStep ==
  ASSUME Inv, TypeInv', NEW r \in Requests, Refuse(r),
         UNCHANGED <<clock, codeTtl, takes, origin>>,
         \A g \in Grants : grants'[g] \in {grants[g], Null}
  PROVE  Inv'
<1>1. /\ \A q \in Requests \ {r} : Same(q)
      /\ UNCHANGED <<handed, accessUntil>>
      /\ pc'[r] = "idle" /\ job'[r] = Null
  BY DEF Inv, TypeInv, TypeOK, Refuse, Settle, Goto, Same
<1>2. RefreshInv(r)'
  BY <1>1, NullAssumption DEF RefreshInv
<1>3. clock <= clock'
  BY DEF Inv, TypeInv, TypeOK
<1> QED
  BY <1>1, <1>2, <1>3, QuietStep DEF Writing

\* A refresh that goes on to a call that needs no more than it has.
LEMMA ContinueStep ==
  ASSUME Inv, TypeInv', NEW r \in Requests, NEW call, Continue(r, call),
         UNCHANGED <<clock, grants, codeTtl, takes, origin>>,
         \/ call \in {"takeCode", "getGrant", "deleteReused", "deleteRejected"}
         \/ call = "rereadGrant" /\ pc[r] = "replaceGrant"
  PROVE  Inv'
<1>1. /\ \A q \in Requests \ {r} : Same(q)
      /\ pc'[r] = call
      /\ UNCHANGED <<job, handed, accessUntil>>
  BY DEF Inv, TypeInv, TypeOK, Continue, Goto, Same
<1>2. RefreshInv(r)'
  BY <1>1 DEF Inv, RefreshInv
<1>3. clock <= clock'
  BY DEF Inv, TypeInv, TypeOK
<1> QED
  BY <1>1, <1>2, <1>3, QuietStep DEF Writing

LEMMA ArriveKeepsInv ==
  ASSUME Inv, TypeInv', NEW r \in Requests, ArriveExchange(r) \/ ArriveRefresh(r)
  PROVE  Inv'
<1>1. ASSUME NEW j, Arrive(r, j),
             j \in RefreshJob =>
               j.generation \in handed[j.grant] /\ j.arrived = clock
      PROVE  Inv'
  <2>1. /\ \A q \in Requests \ {r} : Same(q)
        /\ pc'[r] = "getClient" /\ job'[r] = j
        /\ UNCHANGED <<clock, grants, codeTtl, takes, origin, handed, accessUntil>>
    BY <1>1 DEF Arrive, Inv, TypeInv, TypeOK, Goto, Same, store, history
  <2>2. clock \in Nat
    BY DEF Inv, TypeInv, TypeOK
  <2>3. RefreshInv(r)'
    BY <1>1, <2>1, <2>2 DEF RefreshInv
  <2> QED
    BY <2>1, <2>2, <2>3, QuietStep DEF Writing
<1>2. CASE ArriveExchange(r)
  <2>1. PICK client \in Clients, code \in Codes, valid \in BOOLEAN :
          Arrive(r, [kind |-> "authorization_code", client |-> client,
                     code |-> code, valid |-> valid, grant |-> Null])
    BY <1>2 DEF ArriveExchange
  <2> DEFINE j == [kind |-> "authorization_code", client |-> client,
                   code |-> code, valid |-> valid, grant |-> Null]
  <2>2. j \notin RefreshJob
    BY DEF RefreshJob
  <2> QED
    BY <1>1, <2>1, <2>2
<1>3. CASE ArriveRefresh(r)
  <2>1. PICK client \in Clients, g \in Grants : \E n \in handed[g] :
          Arrive(r, [kind |-> "refresh_token", client |-> client, grant |-> g,
                     generation |-> n, arrived |-> clock])
    BY <1>3 DEF ArriveRefresh
  <2>2. PICK n \in handed[g] :
          Arrive(r, [kind |-> "refresh_token", client |-> client, grant |-> g,
                     generation |-> n, arrived |-> clock])
    BY <2>1
  <2> QED
    BY <1>1, <2>2
<1> QED
  BY <1>2, <1>3

LEMMA GetClientKeepsInv ==
  ASSUME Inv, TypeInv', NEW r \in Requests, GetClient(r)
  PROVE  Inv'
<1>1. UNCHANGED <<clock, grants, codeTtl, takes, origin>>
  BY DEF GetClient, store
<1>2. CASE Refuse(r)
  BY <1>1, <1>2, RefuseStep
<1>3. ASSUME NEW call \in {"takeCode", "getGrant"}, Continue(r, call)
      PROVE  Inv'
  BY <1>1, <1>3, ContinueStep
<1> QED
  BY <1>2, <1>3 DEF GetClient

LEMMA TakeCodeKeepsInv ==
  ASSUME Inv, TypeInv', NEW r \in Requests, TakeCode(r)
  PROVE  Inv'
<1> DEFINE j == job[r]
           found == Readable(codeTtl[j.code], clock)
<1>1. j \in ExchangeJob /\ j.code \in Codes
  BY DEF Inv, TypeInv, RequestShape, TakeCode, ExchangeCalls, ExchangeJob
<1>2. /\ codeTtl' = [codeTtl EXCEPT ![j.code] = 0]
      /\ takes' = IF found THEN [takes EXCEPT ![j.code] = @ + 1] ELSE takes
      /\ UNCHANGED <<clock, grants>>
  BY DEF TakeCode, AfterTake
<1>3. /\ codeTtl \in [Codes -> Nat] /\ takes \in [Codes -> Nat] /\ clock \in Nat
      /\ origin \in [Grants -> Origin \union {Null}]
  BY DEF Inv, TypeInv, TypeOK
<1>4. found => takes[j.code] = 0
  BY <1>1, <1>3 DEF Inv, CodeInv, Readable
<1>5. /\ \A c \in Codes : takes'[c] <= 1
      /\ \A c \in Codes : takes'[c] # 0 => codeTtl'[c] = 0
      /\ \A c \in Codes : takes[c] # 0 => takes'[c] # 0
      /\ found => takes'[j.code] # 0
  BY <1>1, <1>2, <1>3, <1>4 DEF Inv, CodeInv, CodeSpentOnce
<1> HIDE DEF found
<1>6. CASE Refuse(r) /\ UNCHANGED origin
  <2>1. /\ \A q \in Requests \ {r} : Same(q)
        /\ UNCHANGED <<handed, accessUntil>>
        /\ pc'[r] = "idle" /\ job'[r] = Null
    BY <1>6 DEF Inv, TypeInv, TypeOK, Refuse, Settle, Goto, Same
  <2>2. CodeInv'
    BY <1>3, <1>5, <1>6 DEF Inv, CodeInv, CodeSpentOnce, Origin
  <2>3. \A g \in Grants : GrantInv(g)'
    BY <1>2, <1>6, <2>1 DEF Inv, GrantInv
  <2>4. ASSUME NEW q \in Requests PROVE RefreshInv(q)' /\ ExchangeInv(q)'
    <3>1. CASE q = r
      BY <2>1, <3>1, NullAssumption DEF RefreshInv, ExchangeInv, Writing
    <3>2. CASE q # r
      <4>1. Same(q) /\ RefreshInv(q) /\ ExchangeInv(q)
        BY <2>1, <3>2 DEF Inv
      <4>2. RefreshInv(q)'
        BY <1>2, <1>6, <2>1, <4>1 DEF Same, RefreshInv
      <4>3. \A p \in Requests \ {q} :
              pc'[p] \in Writing => pc[p] \in Writing /\ job'[p] = job[p]
        BY <2>1 DEF Same, Writing
      <4> QED
        BY <1>2, <1>6, <2>1, <4>1, <4>2, <4>3 DEF Same, ExchangeInv
    <3> QED
      BY <3>1, <3>2
  <2> QED
    BY <2>2, <2>3, <2>4 DEF Inv
<1>7. ASSUME found,
             NEW g \in Grants, origin[g] = Null,
             origin' = [origin EXCEPT ![g] =
               [code |-> j.code, expiresAt |-> clock + SessionTtl]],
             job' = [job EXCEPT ![r].grant = g],
             item' = [item EXCEPT ![r] =
               [value |-> [client |-> j.client, generation |-> 0,
                           rotatedAt |-> clock,
                           expiresAt |-> clock + SessionTtl,
                           upstream |-> session[g].token],
                ttl |-> TtlOf(clock, SessionTtl)]],
             Goto(r, "putGrant"),
             UNCHANGED <<seen, answer, handed, accessUntil>>
      PROVE  Inv'
  <2>1. /\ \A q \in Requests \ {r} : Same(q)
        /\ pc'[r] = "putGrant" /\ job'[r].grant = g
        /\ item'[r].value.expiresAt = clock + SessionTtl
        /\ item'[r].ttl = TtlOf(clock, SessionTtl)
    BY <1>1, <1>7 DEF Inv, TypeInv, TypeOK, Goto, Same, ExchangeJob
  <2>2. /\ origin'[g] # Null
        /\ origin'[g].code = j.code
        /\ origin'[g].expiresAt = clock + SessionTtl
        /\ \A h \in Grants \ {g} : origin'[h] = origin[h]
    <3>1. [code |-> j.code, expiresAt |-> clock + SessionTtl] # Null
      BY <1>1, <1>3, NullAssumption, ConstantsAssumption DEF Origin
    <3> QED
      BY <1>3, <1>7, <3>1
  <2>3. grants[g] = Null /\ handed[g] = {} /\ accessUntil[g] = 0
    BY <1>7 DEF Inv, GrantInv
  <2>4. CodeInv'
    <3>1. ASSUME NEW h \in Grants \ {g}, origin[h] # Null
          PROVE  /\ origin[h].code \in Codes
                 /\ origin[h].code # j.code
                 /\ takes'[origin[h].code] # 0
      BY <1>3, <1>4, <1>5, <1>7, <3>1 DEF Inv, CodeInv, Origin
    <3>2. ASSUME NEW h \in Grants, NEW i \in Grants,
                 origin'[h] # Null, origin'[i] # Null,
                 origin'[h].code = origin'[i].code
          PROVE  h = i
      BY <2>2, <3>1, <3>2 DEF Inv, CodeInv, CodeSpentOnce
    <3>3. \A h \in Grants : origin'[h] # Null => takes'[origin'[h].code] # 0
      BY <1>5, <1>7, <2>2, <3>1
    <3> QED
      BY <1>5, <3>2, <3>3 DEF CodeInv, CodeSpentOnce
  <2>5. ASSUME NEW h \in Grants PROVE GrantInv(h)'
    <3>1. CASE h = g
      BY <1>2, <1>3, <1>7, <2>2, <2>3, <3>1, ConstantsAssumption DEF GrantInv
    <3>2. CASE h # g
      BY <1>2, <1>7, <2>2, <3>2 DEF Inv, GrantInv
    <3> QED
      BY <3>1, <3>2
  <2>6. ASSUME NEW q \in Requests PROVE RefreshInv(q)'
    <3>1. CASE q = r
      <4>1. job'[r] \in ExchangeJob
        BY <2>1 DEF TypeInv, RequestShape, ExchangeCalls
      <4> QED
        BY <3>1, <4>1, JobKinds DEF RefreshInv
    <3>2. CASE q # r /\ job[q] \in RefreshJob
      <4>1. Same(q) /\ RefreshInv(q) /\ job[q].grant \in Grants
        BY <2>1, <3>2, JobKinds DEF Inv
      <4>2. job[q].grant # g
        BY <2>3, <3>2, <4>1 DEF RefreshInv
      <4> QED
        BY <1>2, <1>7, <2>2, <4>1, <4>2 DEF Same, RefreshInv
    <3>3. CASE q # r /\ job[q] \notin RefreshJob
      BY <2>1, <3>3 DEF Same, RefreshInv
    <3> QED
      BY <3>1, <3>2, <3>3
  <2>7. \A q \in Requests \ {r} : pc[q] \in Writing =>
          job[q].grant \in Grants \ {g}
    BY <1>7 DEF Inv, TypeInv, RequestShape, ExchangeInv, Writing
  <2>8. ASSUME NEW q \in Requests PROVE ExchangeInv(q)'
    <3> SUFFICES ASSUME pc'[q] \in Writing PROVE ExchangeInv(q)'
      BY DEF ExchangeInv
    <3>1. CASE q = r
      <4>1. TtlOf(clock, SessionTtl) < clock + SessionTtl + 2 * TicksPerSecond
        BY <1>3, TtlBounds, ConstantsAssumption, TicksAssumption
      <4>2. \A p \in Requests \ {r} : pc'[p] \in Writing => job'[p].grant # g
        BY <2>1, <2>7 DEF Same
      <4> QED
        BY <1>2, <1>7, <2>1, <2>2, <2>3, <3>1, <4>1, <4>2 DEF ExchangeInv
    <3>2. CASE q # r
      <4>1. Same(q) /\ ExchangeInv(q) /\ job[q].grant \in Grants \ {g}
        BY <2>1, <2>7, <3>2 DEF Inv, Same
      <4>2. \A p \in Requests \ {q} :
              pc'[p] \in Writing => job'[p].grant # job[q].grant
        BY <2>1, <4>1 DEF Same, ExchangeInv
      <4> QED
        BY <1>2, <1>7, <2>2, <4>1, <4>2 DEF Same, ExchangeInv
    <3> QED
      BY <3>1, <3>2
  <2> QED
    BY <2>4, <2>5, <2>6, <2>8 DEF Inv
<1> QED
  BY <1>6, <1>7 DEF TakeCode, found

LEMMA PutGrantKeepsInv ==
  ASSUME Inv, TypeInv', NEW r \in Requests, PutGrant(r)
  PROVE  Inv'
<1> DEFINE g == job[r].grant
<1>1. /\ g \in Grants
      /\ item[r] \in GrantItem
      /\ item[r].value.generation = 0
      /\ ExchangeInv(r) /\ GrantInv(g)
      /\ pc[r] = "putGrant"
  BY DEF PutGrant, Inv, TypeInv, RequestShape
<1>2. /\ \A q \in Requests \ {r} : Same(q)
      /\ pc'[r] = "putClient" /\ job' = job
      /\ item'[r].value = item[r].value
      /\ grants' = [grants EXCEPT ![g] = item[r]]
      /\ UNCHANGED <<clock, codeTtl, origin, takes, handed, accessUntil>>
  BY <1>1 DEF PutGrant, Inv, TypeInv, TypeOK, Goto, Same, history, GrantItem
<1>3. /\ origin[g] # Null /\ handed[g] = {} /\ grants[g] = Null
      /\ item[r].value.expiresAt = origin[g].expiresAt
      /\ item[r].ttl < origin[g].expiresAt + 2 * TicksPerSecond
      /\ \A q \in Requests \ {r} : pc[q] \in Writing => job[q].grant # g
  BY <1>1 DEF ExchangeInv, Writing
<1>4. grants \in [Grants -> GrantItem \union {Null}]
  BY DEF Inv, TypeInv, TypeOK
<1> HIDE DEF g
<1>5. CodeInv'
  BY <1>2 DEF Inv, CodeInv, CodeSpentOnce
<1>6. ASSUME NEW h \in Grants PROVE GrantInv(h)'
  <2>1. CASE h = g
    BY <1>1, <1>2, <1>3, <1>4, <2>1 DEF GrantInv
  <2>2. CASE h # g
    BY <1>2, <1>4, <2>2 DEF Inv, GrantInv
  <2> QED
    BY <2>1, <2>2
<1>7. ASSUME NEW q \in Requests PROVE RefreshInv(q)'
  <2> SUFFICES ASSUME job[q] \in RefreshJob PROVE RefreshInv(q)'
    BY <1>2 DEF RefreshInv
  <2>1. q # r
    BY <1>1, JobKinds DEF Inv, TypeInv, RequestShape, ExchangeCalls
  <2>2. Same(q) /\ RefreshInv(q) /\ job[q].grant \in Grants
    BY <1>2, <2>1, JobKinds DEF Inv
  <2>3. job[q].grant # g
    BY <1>3, <2>2 DEF RefreshInv
  <2> QED
    BY <1>2, <1>4, <2>2, <2>3 DEF Same, RefreshInv
<1>8. ASSUME NEW q \in Requests PROVE ExchangeInv(q)'
  <2> SUFFICES ASSUME pc'[q] \in Writing PROVE ExchangeInv(q)'
    BY DEF ExchangeInv
  <2>1. \A p \in Requests : pc'[p] \in Writing => pc[p] \in Writing
    BY <1>1, <1>2 DEF Same, Writing
  <2>2. ExchangeInv(q) /\ job[q].grant \in Grants
    BY <2>1 DEF Inv, TypeInv, RequestShape, Writing
  <2>3. \A p \in Requests \ {q} :
          pc'[p] \in Writing => job'[p].grant # job[q].grant
    BY <1>2, <2>1, <2>2 DEF ExchangeInv
  <2>4. CASE q = r
    BY <1>1, <1>2, <1>3, <1>4, <2>3, <2>4 DEF ExchangeInv, g
  <2>5. CASE q # r
    <3>1. job[q].grant # g
      BY <1>3, <2>1, <2>5
    <3> QED
      BY <1>2, <1>4, <2>2, <2>3, <2>5, <3>1 DEF Same, ExchangeInv
  <2> QED
    BY <2>4, <2>5
<1> QED
  BY <1>5, <1>6, <1>7, <1>8 DEF Inv

LEMMA PutClientKeepsInv ==
  ASSUME Inv, TypeInv', NEW r \in Requests, PutClient(r)
  PROVE  Inv'
<1> DEFINE g == job[r].grant
<1>1. /\ g \in Grants
      /\ item[r].value \in GrantValue
      /\ item[r].value.generation = 0
      /\ ExchangeInv(r) /\ GrantInv(g)
      /\ job[r] \notin RefreshJob
  BY JobKinds DEF PutClient, Inv, TypeInv, RequestShape, ExchangeCalls, GrantItem
<1>2. /\ pc[r] = "putClient"
      /\ Respond(r, g, item[r].value)
      /\ UNCHANGED <<clock, codeTtl, grants, takes, origin>>
  BY DEF PutClient
<1>3. /\ origin[g] # Null /\ handed[g] = {}
      /\ item[r].value.expiresAt = origin[g].expiresAt
      /\ grants[g] # Null => grants[g].value.generation = 0
      /\ \A q \in Requests \ {r} : pc[q] \in Writing => job[q].grant # g
  BY <1>1, <1>2 DEF ExchangeInv, Writing
<1> HIDE DEF g
<1>4. grants[g] # Null =>
        /\ grants[g].value.expiresAt = origin[g].expiresAt
        /\ grants[g].ttl < origin[g].expiresAt + 2 * TicksPerSecond
  BY <1>1 DEF GrantInv
<1> QED
  BY <1>1, <1>2, <1>3, <1>4, AnsweredStep

\* What holds of a refresh at any of its calls.
LEMMA RefreshFacts ==
  ASSUME Inv, NEW r \in Requests, pc[r] \in RefreshCalls
  PROVE  LET g == job[r].grant IN
         /\ job[r] \in RefreshJob /\ g \in Grants
         /\ job[r].generation \in Nat /\ job[r].arrived \in Nat
         /\ RefreshInv(r) /\ GrantInv(g)
         /\ origin[g] \in Origin
         /\ origin[g] # Null
         /\ grants[g] # Null =>
              /\ grants[g].value \in GrantValue
              /\ grants[g].value.generation \in Nat
              /\ grants[g].ttl \in Nat
         /\ \A q \in Requests \ {r} : pc[q] \in Writing => job[q].grant # g
<1> DEFINE g == job[r].grant
<1>1. /\ job[r] \in RefreshJob /\ g \in Grants
      /\ job[r].generation \in Nat /\ job[r].arrived \in Nat
  BY ConstantsAssumption DEF Inv, TypeInv, RequestShape, RefreshJob, Generation
<1>2. RefreshInv(r) /\ GrantInv(g)
  BY <1>1 DEF Inv
<1>3. handed[g] # {}
  BY <1>1, <1>2 DEF RefreshInv
<1>4. origin[g] # Null /\ origin[g] \in Origin
  BY <1>1, <1>2, <1>3 DEF GrantInv, Inv, TypeInv, TypeOK
<1>5. grants[g] # Null =>
        /\ grants[g].value \in GrantValue
        /\ grants[g].value.generation \in Nat
        /\ grants[g].ttl \in Nat
  BY <1>1 DEF Inv, TypeInv, TypeOK, GrantItem, GrantValue
<1>6. \A q \in Requests \ {r} : pc[q] \in Writing => job[q].grant # g
  BY <1>3 DEF Inv, ExchangeInv
<1> QED
  BY <1>1, <1>2, <1>4, <1>5, <1>6

\* A retry is answered with the generation after the one it presented, and
\* only while the grant can be read (index.ts:391-404, 449-453).
LEMMA RetryKeepsInv ==
  ASSUME Inv, TypeInv', NEW r \in Requests, pc[r] \in {"getGrant", "rereadGrant"},
         LET g == job[r].grant IN
           /\ Visible(grants[g], clock)
           /\ IsRetry(job[r].generation, grants[g].value)
           /\ Respond(r, g, grants[g].value),
         UNCHANGED <<clock, store, takes, origin>>
  PROVE  Inv'
<1> DEFINE g == job[r].grant
<1>1. /\ job[r] \in RefreshJob /\ g \in Grants
      /\ job[r].generation \in Nat /\ job[r].arrived \in Nat
      /\ RefreshInv(r) /\ GrantInv(g)
      /\ origin[g] \in Origin /\ origin[g] # Null
      /\ \A q \in Requests \ {r} : pc[q] \in Writing => job[q].grant # g
  BY RefreshFacts DEF RefreshCalls
<1>2. /\ grants[g] # Null
      /\ grants[g].value \in GrantValue
      /\ grants[g].value.generation \in Nat
      /\ grants[g].ttl \in Nat
      /\ clock < grants[g].ttl
      /\ job[r].generation = grants[g].value.generation - 1
  BY RefreshFacts DEF RefreshCalls, Visible, Readable, IsRetry
<1>3. UNCHANGED <<clock, codeTtl, grants, takes, origin>>
  BY DEF store
<1>4. Respond(r, g, grants[g].value)
  OBVIOUS
<1> HIDE DEF g
<1>5. /\ grants[g].value.expiresAt = origin[g].expiresAt
      /\ grants[g].ttl < origin[g].expiresAt + 2 * TicksPerSecond
      /\ \A n \in handed[g] : n <= grants[g].value.generation
  BY <1>1, <1>2 DEF GrantInv
<1>6. job[r].arrived < origin[g].expiresAt + 2 * TicksPerSecond
  <2>1. job[r].arrived <= clock
    BY <1>1 DEF RefreshInv
  <2>2. clock \in Nat /\ origin[g].expiresAt \in Nat
    BY <1>1 DEF Inv, TypeInv, TypeOK, Origin
  <2> QED
    BY <1>1, <1>2, <1>5, <2>1, <2>2, TicksAssumption
<1>7. job[r].grant = g
  BY DEF g
<1>8. job[r] \in RefreshJob =>
        /\ job[r].grant = g
        /\ job[r].arrived < origin[g].expiresAt + 2 * TicksPerSecond
        /\ grants[g].value.generation = job[r].generation + 1
  BY <1>1, <1>2, <1>6, <1>7
<1>9. /\ \A h \in Grants \ {g} : grants'[h] = grants[h]
      /\ grants'[g] = grants[g]
  BY <1>3
<1> QED
  BY <1>1, <1>2, <1>3, <1>4, <1>5, <1>8, <1>9, AnsweredStep

LEMMA GetGrantKeepsInv ==
  ASSUME Inv, TypeInv', NEW r \in Requests, GetGrant(r)
  PROVE  Inv'
<1> DEFINE g == job[r].grant
<1>1. pc[r] = "getGrant" /\ UNCHANGED <<clock, store, takes, origin>>
  BY DEF GetGrant
<1>2. CASE Refuse(r)
  BY <1>1, <1>2, RefuseStep DEF store
<1>3. CASE Continue(r, "deleteReused")
  BY <1>1, <1>3, ContinueStep DEF store
<1>4. CASE /\ Visible(grants[g], clock)
           /\ IsRetry(job[r].generation, grants[g].value)
           /\ Respond(r, g, grants[g].value)
  BY <1>1, <1>4, RetryKeepsInv
<1>5. CASE /\ Visible(grants[g], clock)
           /\ seen' = [seen EXCEPT ![r] = grants[g].value]
           /\ Goto(r, "cognito")
           /\ UNCHANGED <<job, item, answer, handed, accessUntil>>
  <2>1. /\ \A q \in Requests \ {r} : Same(q)
        /\ pc'[r] = "cognito" /\ seen'[r] = grants[g].value
    BY <1>5 DEF Inv, TypeInv, TypeOK, Goto, Same
  <2>2. /\ job[r] \in RefreshJob /\ g \in Grants /\ job[r].arrived \in Nat
        /\ RefreshInv(r) /\ GrantInv(g)
        /\ origin[g] \in Origin
        /\ grants[g] # Null => grants[g].ttl \in Nat
    BY <1>1, RefreshFacts DEF RefreshCalls
  <2>3. grants[g] # Null /\ clock < grants[g].ttl
    BY <1>5 DEF Visible, Readable
  <2>4. /\ grants[g].value.expiresAt = origin[g].expiresAt
        /\ grants[g].ttl < origin[g].expiresAt + 2 * TicksPerSecond
    BY <2>2, <2>3 DEF GrantInv
  <2>5. job[r].generation \in handed[g] /\ job[r].arrived <= clock
    BY <2>2 DEF RefreshInv
  <2>6. job[r].arrived < origin[g].expiresAt + 2 * TicksPerSecond
    <3>1. clock \in Nat /\ origin[g].expiresAt \in Nat
      BY <2>2 DEF Inv, TypeInv, TypeOK, Origin
    <3> QED
      BY <2>2, <2>3, <2>4, <2>5, <3>1, TicksAssumption
  <2>7. RefreshInv(r)'
    BY <1>1, <1>5, <2>1, <2>4, <2>5, <2>6 DEF RefreshInv, store
  <2>8. clock <= clock'
    BY <1>1 DEF Inv, TypeInv, TypeOK
  <2> QED
    BY <1>1, <1>5, <2>1, <2>7, <2>8, QuietStep DEF store, Writing
<1> QED
  BY <1>2, <1>3, <1>4, <1>5 DEF GetGrant

LEMMA DeleteReusedKeepsInv ==
  ASSUME Inv, TypeInv', NEW r \in Requests, DeleteReused(r)
  PROVE  Inv'
<1> DEFINE g == job[r].grant
<1>1. /\ grants' = [grants EXCEPT ![g] = Null]
      /\ Settle(r, "reused")
      /\ UNCHANGED <<clock, codeTtl, takes, origin, answer, handed, accessUntil>>
  BY DEF DeleteReused, history
<1>2. /\ job[r] \in RefreshJob /\ g \in Grants /\ RefreshInv(r)
  BY RefreshFacts DEF RefreshCalls, DeleteReused
<1>3. /\ \A q \in Requests \ {r} : Same(q)
      /\ pc'[r] = "reused" /\ job'[r] = job[r]
      /\ grants'[g] = Null
      /\ \A h \in Grants : grants'[h] \in {grants[h], Null}
  BY <1>1, <1>2 DEF Inv, TypeInv, TypeOK, Settle, Goto, Same
<1>4. RefreshInv(r)'
  BY <1>1, <1>2, <1>3 DEF RefreshInv
<1>5. clock <= clock'
  BY <1>1 DEF Inv, TypeInv, TypeOK
<1> QED
  BY <1>1, <1>3, <1>4, <1>5, QuietStep DEF Writing

\* The ttl of the replacement: remaining seconds and ttl are each rounded up.
LEMMA RenewedTtlBound ==
  ASSUME clock \in Nat, NEW expiresAt \in Nat,
         RemainingSeconds(expiresAt) > 0
  PROVE  TtlOf(clock, RemainingSeconds(expiresAt)) < expiresAt + 2 * TicksPerSecond
<1>1. /\ RemainingSeconds(expiresAt) \in Nat
      /\ RemainingSeconds(expiresAt) < expiresAt - clock + TicksPerSecond
  BY CeilBounds DEF RemainingSeconds
<1>2. /\ TtlOf(clock, RemainingSeconds(expiresAt)) \in Nat
      /\ TtlOf(clock, RemainingSeconds(expiresAt))
           < clock + RemainingSeconds(expiresAt) + TicksPerSecond
  BY <1>1, TtlBounds
<1> QED
  BY <1>1, <1>2, TicksAssumption

LEMMA CognitoRefreshesKeepsInv ==
  ASSUME Inv, TypeInv', NEW r \in Requests, CognitoRefreshes(r)
  PROVE  Inv'
<1> DEFINE g == job[r].grant
<1>1. pc[r] = "cognito" /\ UNCHANGED <<clock, store, takes, origin>>
  BY DEF CognitoRefreshes
<1>2. CASE Refuse(r)
  BY <1>1, <1>2, RefuseStep DEF store
<1>3. CASE /\ ~(RemainingSeconds(seen[r].expiresAt) <= 0)
           /\ item' = [item EXCEPT ![r] =
                [value |-> Successor(seen[r], Rotated(g)),
                 ttl |-> TtlOf(clock, RemainingSeconds(seen[r].expiresAt))]]
           /\ Goto(r, "replaceGrant")
           /\ UNCHANGED <<job, seen, answer, handed, accessUntil>>
  <2>1. /\ job[r] \in RefreshJob /\ g \in Grants /\ RefreshInv(r)
        /\ seen[r] \in GrantValue /\ clock \in Nat
        /\ session[g].token \in Nat
    <3>1. job[r] \in RefreshJob /\ g \in Grants /\ RefreshInv(r)
      BY <1>1, RefreshFacts DEF RefreshCalls
    <3>2. seen[r] \in GrantValue /\ clock \in Nat /\ session[g].token \in Nat
      BY <1>1, <3>1 DEF Inv, TypeInv, TypeOK, RequestShape
    <3> QED
      BY <3>1, <3>2
  <2>2. Rotated(g) \in Nat
    BY <2>1 DEF Rotated
  <2>3. /\ \A q \in Requests \ {r} : Same(q)
        /\ pc'[r] = "replaceGrant"
        /\ item'[r].value = Successor(seen[r], Rotated(g))
        /\ item'[r].ttl = TtlOf(clock, RemainingSeconds(seen[r].expiresAt))
    BY <1>3 DEF Inv, TypeInv, TypeOK, Goto, Same
  <2>4. seen[r].expiresAt \in Nat
    BY <2>1 DEF GrantValue
  <2>5. RemainingSeconds(seen[r].expiresAt) > 0
    <3>1. RemainingSeconds(seen[r].expiresAt) \in Int
      BY <2>1, <2>4, CeilBounds DEF RemainingSeconds
    <3> QED
      BY <1>3, <3>1
  <2>6. item'[r].ttl < seen[r].expiresAt + 2 * TicksPerSecond
    BY <2>1, <2>3, <2>4, <2>5, RenewedTtlBound
  <2>7. item'[r].value.expiresAt = seen[r].expiresAt
    <3>1. seen[r] \in GrantValue /\ clock \in Nat
      BY <2>1
    <3>2. Successor(seen[r], Rotated(g)).expiresAt = seen[r].expiresAt
      BY <2>2, <3>1, SuccessorTyped
    <3> QED
      BY <2>3, <3>2
  <2>8. RefreshInv(r)'
    BY <1>1, <1>3, <2>1, <2>3, <2>6, <2>7 DEF RefreshInv, store
  <2>9. clock <= clock'
    BY <1>1, <2>1
  <2> QED
    BY <1>1, <1>3, <2>3, <2>8, <2>9, QuietStep DEF store, Writing
<1> QED
  BY <1>2, <1>3 DEF CognitoRefreshes

LEMMA ReplaceGrantKeepsInv ==
  ASSUME Inv, TypeInv', NEW r \in Requests, ReplaceGrant(r)
  PROVE  Inv'
<1> DEFINE g == job[r].grant
<1>1. pc[r] = "replaceGrant" /\ UNCHANGED <<clock, codeTtl, takes, origin>>
  BY DEF ReplaceGrant
<1>2. CASE Continue(r, "rereadGrant") /\ UNCHANGED grants
  BY <1>1, <1>2, ContinueStep
<1>3. CASE /\ Replaceable(grants[g], seen[r])
           /\ grants' = [grants EXCEPT ![g] = item[r]]
           /\ Respond(r, g, item[r].value) \/ Continue(r, "rereadGrant")
  <2>1. /\ job[r] \in RefreshJob /\ g \in Grants
        /\ job[r].generation \in Nat
        /\ RefreshInv(r) /\ GrantInv(g)
        /\ origin[g] # Null
        /\ \A q \in Requests \ {r} : pc[q] \in Writing => job[q].grant # g
    BY <1>1, RefreshFacts DEF RefreshCalls
  <2>2. /\ seen[r].generation = job[r].generation
        /\ item[r] \in GrantItem
        /\ item[r].value \in GrantValue
        /\ item[r].value.generation = job[r].generation + 1
    BY <1>1 DEF Inv, TypeInv, RequestShape, GrantItem
  <2>3. grants[g] # Null /\ grants[g].value = seen[r]
    BY <1>3 DEF Replaceable
  <2>4. /\ grants'[g] = item[r]
        /\ \A h \in Grants \ {g} : grants'[h] = grants[h]
    BY <1>3, <2>1 DEF Inv, TypeInv, TypeOK
  <2>5. /\ item[r].value.expiresAt = origin[g].expiresAt
        /\ item[r].ttl < origin[g].expiresAt + 2 * TicksPerSecond
        /\ job[r].arrived < origin[g].expiresAt + 2 * TicksPerSecond
        /\ job[r].generation \in handed[g] /\ job[r].arrived <= clock
    BY <1>1, <2>1 DEF RefreshInv
  <2>6. \A n \in handed[g] : n <= item[r].value.generation
    <3>1. \A n \in handed[g] : n \in Int /\ n <= job[r].generation
      BY <2>1, <2>2, <2>3, ConstantsAssumption
      DEF GrantInv, Inv, TypeInv, TypeOK, Generation
    <3> QED
      BY <2>1, <2>2, <3>1
  <2>7. item[r].value.generation \in Nat
    BY <2>1, <2>2
  <2>8. CASE Respond(r, g, item[r].value)
    <3> HIDE DEF g
    <3> QED
      BY <1>1, <2>1, <2>2, <2>3, <2>4, <2>5, <2>6, <2>7, <2>8, AnsweredStep
      DEF g
  <2>9. CASE Continue(r, "rereadGrant")
    <3>0. PICK h \in Grants : h = g
      BY <2>1
    <3>1. /\ \A q \in Requests \ {r} : Same(q)
          /\ pc'[r] = "rereadGrant"
          /\ UNCHANGED <<job, handed, accessUntil>>
      BY <2>9 DEF Inv, TypeInv, TypeOK, Continue, Goto, Same
    <3>2. GrantInv(h)'
      BY <1>1, <2>1, <2>4, <2>5, <2>6, <3>0, <3>1 DEF GrantInv
    <3>3. RefreshInv(r)'
      BY <1>1, <2>5, <3>1 DEF RefreshInv
    <3>4. clock <= clock'
      BY <1>1 DEF Inv, TypeInv, TypeOK
    <3>5. \A k \in Grants :
            \/ grants'[k] \in {grants[k], Null}
            \/ GrantInv(k)' /\ grants[k] # Null /\ handed[k] # {}
      BY <2>3, <2>4, <2>5, <3>0, <3>2
    <3> QED
      BY <1>1, <3>1, <3>3, <3>4, <3>5, QuietStep DEF Writing
  <2> QED
    BY <1>3, <2>8, <2>9
<1> QED
  BY <1>2, <1>3 DEF ReplaceGrant

LEMMA RereadGrantKeepsInv ==
  ASSUME Inv, TypeInv', NEW r \in Requests, RereadGrant(r)
  PROVE  Inv'
<1>1. pc[r] = "rereadGrant" /\ UNCHANGED <<clock, store, takes, origin>>
  BY DEF RereadGrant
<1>2. CASE Refuse(r)
  BY <1>1, <1>2, RefuseStep DEF store
<1>3. CASE LET g == job[r].grant IN
             /\ Visible(grants[g], clock)
             /\ IsRetry(job[r].generation, grants[g].value)
             /\ Respond(r, g, grants[g].value)
  BY <1>1, <1>3, RetryKeepsInv
<1> QED
  BY <1>2, <1>3 DEF RereadGrant

\* Rejection, outage, deletion after a rejection and loss of the environment.
LEMMA FailureKeepsInv ==
  ASSUME Inv, TypeInv', NEW r \in Requests,
         \/ CognitoRejects(r) \/ CognitoUnavailable(r)
         \/ DeleteRejected(r) \/ Crash(r)
  PROVE  Inv'
<1>1. CASE CognitoRejects(r)
  BY <1>1, ContinueStep DEF CognitoRejects, store
<1>2. CASE CognitoUnavailable(r) \/ Crash(r)
  BY <1>2, RefuseStep DEF CognitoUnavailable, Crash, store
<1>3. CASE DeleteRejected(r)
  <2>1. \A g \in Grants : grants'[g] \in {grants[g], Null}
    BY <1>3 DEF DeleteRejected, Inv, TypeInv, TypeOK
  <2> QED
    BY <1>3, <2>1, RefuseStep DEF DeleteRejected
<1> QED
  BY <1>1, <1>2, <1>3

LEMMA EnvironmentKeepsInv ==
  ASSUME Inv, TypeInv',
         \/ \E g \in Grants : SignOut(g) \/ Reap(g)
         \/ Tick
         \/ UNCHANGED vars
  PROVE  Inv'
<1>1. clock \in Nat /\ grants \in [Grants -> GrantItem \union {Null}]
  BY DEF Inv, TypeInv, TypeOK
<1>2. /\ clock <= clock'
      /\ \A g \in Grants : grants'[g] \in {grants[g], Null}
      /\ UNCHANGED <<codeTtl, takes, origin, handed, accessUntil, request>>
  BY <1>1 DEF SignOut, Reap, Tick, vars, store, history, request
<1>3. \A q \in Requests : Same(q)
  BY <1>2 DEF Same, request
<1> QED
  BY <1>2, <1>3, QuietStep

LEMMA InvNext == Inv /\ [Next]_vars => Inv'
<1> SUFFICES ASSUME Inv, [Next]_vars PROVE Inv'
  OBVIOUS
<1>1. TypeInv'
  BY TypeNext DEF Inv
<1>2. CASE \E g \in Grants : SignOut(g) \/ Reap(g)
  BY <1>1, <1>2, EnvironmentKeepsInv
<1>3. CASE Tick \/ UNCHANGED vars
  BY <1>1, <1>3, EnvironmentKeepsInv
<1>4. ASSUME NEW r \in Requests, GetClient(r) \/ Crash(r)
      PROVE  Inv'
  BY <1>1, <1>4, GetClientKeepsInv, FailureKeepsInv
<1>5. ASSUME NEW r \in Requests, Exchange(r)
      PROVE  Inv'
  BY <1>1, <1>5, ArriveKeepsInv, TakeCodeKeepsInv, PutGrantKeepsInv,
     PutClientKeepsInv DEF Exchange
<1>6. ASSUME NEW r \in Requests, Refresh(r)
      PROVE  Inv'
  BY <1>1, <1>6, ArriveKeepsInv, GetGrantKeepsInv, DeleteReusedKeepsInv,
     CognitoRefreshesKeepsInv, FailureKeepsInv, ReplaceGrantKeepsInv,
     RereadGrantKeepsInv DEF Refresh
<1> QED
  BY <1>2, <1>3, <1>4, <1>5, <1>6 DEF Next

LEMMA Invariance == Spec => []Inv
BY InvInit, InvNext, PTL DEF Spec

-----------------------------------------------------------------------------
(* The safety properties *)

\* An authorization code is found by one exchange and gives rise to one grant
\* at most (index.ts:349-353, dynamodb-store.ts:67-77).
THEOREM CodeSpentOnceHolds == Spec => []CodeSpentOnce
<1>1. Inv => CodeSpentOnce
  BY DEF Inv, CodeInv
<1> QED
  BY <1>1, Invariance, PTL

\* The stored generation never falls behind a refresh token that was handed
\* out (index.ts:446, dynamodb-store.ts:42-65).
THEOREM NeverAheadOfStoreHolds == Spec => []NeverAheadOfStore
<1>1. Inv => NeverAheadOfStore
  BY DEF Inv, GrantInv, NeverAheadOfStore
<1> QED
  BY <1>1, Invariance, PTL

\* A refresh that is answered gets the token of exactly the next generation,
\* retried or simultaneous (index.ts:391-404, 446-453).
THEOREM SameSuccessorHolds == Spec => []SameSuccessor
<1>1. Inv => SameSuccessor
  BY JobKinds DEF Inv, TypeInv, RequestShape, RefreshInv, SameSuccessor
<1> QED
  BY <1>1, Invariance, PTL

\* A grant deleted for a superseded token stays deleted (index.ts:407-411).
THEOREM ReuseEndsGrantHolds == Spec => []ReuseEndsGrant
<1>1. Inv => ReuseEndsGrant
  BY DEF Inv, TypeInv, RequestShape, RefreshInv, ReuseEndsGrant
<1> QED
  BY <1>1, Invariance, PTL

\* A refresh that is answered arrived less than two seconds after the end of
\* its login session, whatever the durations (index.ts:223, 433-446).
THEOREM SessionOverrunBoundedHolds == Spec => []SessionOverrunBounded
<1>1. Inv => SessionOverrunBounded
  BY JobKinds DEF Inv, TypeInv, RequestShape, RefreshInv, SessionOverrunBounded
<1> QED
  BY <1>1, Invariance, PTL

\* No access token is accepted after the login session (index.ts:301-304,
\* 457-478).
THEOREM BearerNeverPastSessionHolds == Spec => []BearerNeverPastSession
<1>1. ASSUME Inv PROVE BearerNeverPastSession
  <2> SUFFICES ASSUME NEW g \in Grants, BearerAccepted(g)
               PROVE  clock < grants[g].value.expiresAt
    BY DEF BearerNeverPastSession
  <2>1. clock < accessUntil[g] /\ grants[g] # Null
    BY DEF BearerAccepted, Readable, Visible
  <2>2. GrantInv(g)
    BY <1>1 DEF Inv
  <2>3. origin[g] # Null
    BY <2>1, <2>2 DEF GrantInv
  <2>4. /\ accessUntil[g] <= origin[g].expiresAt
        /\ grants[g].value.expiresAt = origin[g].expiresAt
    BY <2>1, <2>2, <2>3 DEF GrantInv
  <2>5. /\ clock \in Nat /\ accessUntil[g] \in Nat
        /\ origin[g].expiresAt \in Nat
    BY <1>1, <2>3 DEF Inv, TypeInv, TypeOK, Origin
  <2> QED
    BY <2>1, <2>4, <2>5
<1> QED
  BY <1>1, Invariance, PTL

\* A login that has ended does not come back.
LEMMA SignedOutForGood ==
  ASSUME TypeInv, [Next]_vars, NEW g \in Grants, ~session[g].active
  PROVE  ~session'[g].active
<1> USE DEF TypeInv, TypeOK
<1>1. ASSUME NEW r \in Requests, CognitoRefreshes(r)
      PROVE  ~session'[g].active
  BY <1>1 DEF CognitoRefreshes
<1>2. ASSUME NEW h \in Grants, SignOut(h)
      PROVE  ~session'[g].active
  BY <1>2 DEF SignOut
<1>3. CASE UNCHANGED session
  BY <1>3
<1>4. ASSUME NEW r \in Requests,
             GetClient(r) \/ Exchange(r) \/ Refresh(r) \/ Crash(r)
      PROVE  CognitoRefreshes(r) \/ CognitoUnavailable(r) \/ UNCHANGED session
  <2>1. ASSUME NEW j, Arrive(r, j) PROVE UNCHANGED session
    BY <2>1 DEF Arrive
  <2> QED
    BY <1>4, <2>1
    DEF GetClient, Exchange, Refresh, Crash, ArriveExchange, ArriveRefresh,
        TakeCode, PutGrant, PutClient, GetGrant, DeleteReused, CognitoRejects,
        DeleteRejected, ReplaceGrant, RereadGrant
<1>5. ASSUME NEW h \in Grants, Reap(h) PROVE UNCHANGED session
  BY <1>5 DEF Reap
<1>6. CASE Tick \/ UNCHANGED vars
  BY <1>3, <1>6 DEF Tick, vars
<1>7. ASSUME NEW r \in Requests, CognitoUnavailable(r)
      PROVE  ~session'[g].active
  BY <1>7 DEF CognitoUnavailable
<1> QED
  BY <1>1, <1>2, <1>3, <1>4, <1>5, <1>6, <1>7 DEF Next

\* A request is about to delete a grant as rejected because Cognito has just
\* rejected it, or already was.
RejectedBy(r) ==
  \/ pc[r] = "deleteRejected" /\ job'[r] = job[r]
  \/ CognitoRejects(r)

LEMMA RejectedOrigin ==
  ASSUME TypeInv, [Next]_vars, NEW r \in Requests, pc'[r] = "deleteRejected"
  PROVE  RejectedBy(r)
<1> USE DEF TypeInv, TypeOK, RejectedBy
<1>1. ASSUME NEW q \in Requests, NEW j, Arrive(q, j) PROVE RejectedBy(r)
  BY <1>1 DEF Arrive, Goto
<1>2. ASSUME NEW q \in Requests, Refuse(q) PROVE RejectedBy(r)
  BY <1>2 DEF Refuse, Settle, Goto
<1>3. ASSUME NEW q \in Requests, NEW call, Continue(q, call),
             call # "deleteRejected"
      PROVE  RejectedBy(r)
  BY <1>3 DEF Continue, Goto
<1>4. ASSUME NEW q \in Requests, NEW g, NEW value, Respond(q, g, value)
      PROVE  RejectedBy(r)
  BY <1>4 DEF Respond, Settle, Goto
<1>5. ASSUME NEW q \in Requests, GetClient(q) PROVE RejectedBy(r)
  BY <1>2, <1>3, <1>5 DEF GetClient
<1>6. ASSUME NEW q \in Requests, TakeCode(q) PROVE RejectedBy(r)
  <2>1. CASE Refuse(q)
    BY <1>2, <2>1
  <2>2. ASSUME NEW g \in Grants, job' = [job EXCEPT ![q].grant = g],
               Goto(q, "putGrant")
        PROVE  RejectedBy(r)
    BY <2>2 DEF Goto
  <2> QED
    BY <1>6, <2>1, <2>2 DEF TakeCode
<1>7. ASSUME NEW q \in Requests, PutGrant(q) PROVE RejectedBy(r)
  BY <1>7 DEF PutGrant, Goto
<1>8. ASSUME NEW q \in Requests, PutClient(q) PROVE RejectedBy(r)
  BY <1>4, <1>8 DEF PutClient
<1>9. ASSUME NEW q \in Requests, GetGrant(q) PROVE RejectedBy(r)
  <2>1. CASE Goto(q, "cognito") /\ UNCHANGED job
    BY <2>1 DEF Goto
  <2> QED
    BY <1>2, <1>3, <1>4, <1>9, <2>1 DEF GetGrant
<1>10. ASSUME NEW q \in Requests, DeleteReused(q) PROVE RejectedBy(r)
  BY <1>10 DEF DeleteReused, Settle, Goto
<1>11. ASSUME NEW q \in Requests, CognitoRefreshes(q) PROVE RejectedBy(r)
  <2>1. CASE Goto(q, "replaceGrant") /\ UNCHANGED job
    BY <2>1 DEF Goto
  <2> QED
    BY <1>2, <1>11, <2>1 DEF CognitoRefreshes
<1>12. ASSUME NEW q \in Requests, CognitoRejects(q) PROVE RejectedBy(r)
  <2>1. CASE q = r
    BY <1>12, <2>1
  <2>2. CASE q # r
    BY <1>12, <2>2 DEF CognitoRejects, Continue, Goto
  <2> QED
    BY <2>1, <2>2
<1>13. ASSUME NEW q \in Requests,
              CognitoUnavailable(q) \/ DeleteRejected(q) \/ Crash(q)
       PROVE  RejectedBy(r)
  BY <1>2, <1>13 DEF CognitoUnavailable, DeleteRejected, Crash
<1>14. ASSUME NEW q \in Requests, ReplaceGrant(q) PROVE RejectedBy(r)
  BY <1>3, <1>4, <1>14 DEF ReplaceGrant
<1>15. ASSUME NEW q \in Requests, RereadGrant(q) PROVE RejectedBy(r)
  BY <1>2, <1>4, <1>15 DEF RereadGrant
<1>16. ASSUME NEW g \in Grants, SignOut(g) \/ Reap(g) PROVE RejectedBy(r)
  BY <1>16 DEF SignOut, Reap, request
<1>17. CASE Tick \/ UNCHANGED vars
  BY <1>17 DEF Tick, vars, request
<1> HIDE DEF RejectedBy, TypeInv, TypeOK
<1>18. ASSUME NEW q \in Requests, ArriveExchange(q) \/ ArriveRefresh(q)
       PROVE  RejectedBy(r)
  <2>1. PICK j : Arrive(q, j)
    BY <1>18, Zenon DEF ArriveExchange, ArriveRefresh
  <2> QED
    BY <1>1, <2>1
<1>19. ASSUME NEW q \in Requests, Exchange(q) PROVE RejectedBy(r)
  BY <1>6, <1>7, <1>8, <1>18, <1>19 DEF Exchange
<1>20. ASSUME NEW q \in Requests, Refresh(q) PROVE RejectedBy(r)
  BY <1>9, <1>10, <1>11, <1>12, <1>13, <1>14, <1>15, <1>18, <1>20 DEF Refresh
<1> QED
  BY <1>5, <1>13, <1>16, <1>17, <1>19, <1>20 DEF Next

\* A grant is marked for deletion as rejected only when its login has ended.
RejectedInv == TypeInv /\ RejectedMeansSignedOut

\* While Cognito does not rotate refresh tokens, the endpoint deletes a grant
\* on Cognito's word only for a login that has ended (index.ts:413-424).
THEOREM RejectedMeansSignedOutHolds ==
  ASSUME UpstreamRotates = FALSE
  PROVE  Spec => []RejectedMeansSignedOut
<1>1. Init => RejectedInv
  BY TypeInit DEF Init, RejectedInv, RejectedMeansSignedOut
<1>2. RejectedInv /\ [Next]_vars => RejectedInv'
  <2> SUFFICES ASSUME RejectedInv, [Next]_vars, TypeInv',
                      NEW r \in Requests, pc'[r] = "deleteRejected"
               PROVE  ~session'[job'[r].grant].active
    BY TypeNext DEF RejectedInv, RejectedMeansSignedOut
  <2>1. \/ pc[r] = "deleteRejected" /\ job'[r] = job[r]
        \/ CognitoRejects(r)
    BY RejectedOrigin DEF RejectedInv, RejectedBy
  <2>2. job[r] \in RefreshJob /\ job[r].grant \in Grants /\ job'[r] = job[r]
    BY <2>1, JobKinds DEF RejectedInv, TypeInv, RequestShape, RefreshCalls,
       CognitoRejects, Continue
  <2>3. ~session[job[r].grant].active
    BY <2>1 DEF RejectedInv, RejectedMeansSignedOut, CognitoRejects, Accepts
  <2> QED
    BY <2>2, <2>3, SignedOutForGood DEF RejectedInv
<1>3. RejectedInv => RejectedMeansSignedOut
  BY DEF RejectedInv
<1> QED
  BY <1>1, <1>2, <1>3, PTL DEF Spec

-----------------------------------------------------------------------------
(* The refinement.  Every step of the endpoint is a step of the life of    *)
(* one grant, as GrantLifecycle has it, or leaves all of them alone.       *)

\* The refinement mapping at one grant, in the words of GrantLifecycle.
StatusOf(g) ==
  IF grants[g] # Null THEN Lifecycle!Live(grants[g].value.generation)
  ELSE IF Unwritten(g) THEN Lifecycle!Unborn ELSE Lifecycle!Ended

LEMMA MappingIsStatusOf ==
  /\ \A g \in Grants : grantStatus[g] = StatusOf(g)
  /\ \A g \in Grants : grantStatus'[g] = StatusOf(g)'
BY DEF grantStatus, StatusOf, Lifecycle!Live, Lifecycle!Unborn, Lifecycle!Ended

\* A step that changes the status of g only.
LEMMA StatusChangesAt ==
  ASSUME NEW g \in Grants,
         \A h \in Grants \ {g} : StatusOf(h)' = StatusOf(h)
  PROVE  grantStatus' = [grantStatus EXCEPT ![g] = StatusOf(g)']
<1>1. \A h \in Grants : grantStatus[h] = StatusOf(h)
                        /\ grantStatus'[h] = StatusOf(h)'
  BY MappingIsStatusOf
<1>2. /\ grantStatus = [h \in Grants |-> grantStatus[h]]
      /\ grantStatus' = [h \in Grants |-> grantStatus'[h]]
  BY DEF grantStatus
<1>3. \A h \in Grants : grantStatus'[h] =
        IF h = g THEN StatusOf(g)' ELSE grantStatus[h]
  BY <1>1
<1> QED
  BY <1>2, <1>3, Zenon

LEMMA StatusUnchanged ==
  ASSUME \A h \in Grants : StatusOf(h)' = StatusOf(h)
  PROVE  grantStatus' = grantStatus
<1>1. \A h \in Grants : grantStatus'[h] = grantStatus[h]
  BY MappingIsStatusOf
<1> QED
  BY <1>1 DEF grantStatus

\* Whether a grant is still to be written depends on putGrant alone.
LEMMA UnwrittenUnchanged ==
  ASSUME UNCHANGED origin,
         \A q \in Requests :
           Same(q) \/ (pc[q] # "putGrant" /\ pc'[q] # "putGrant"),
         NEW h \in Grants
  PROVE  Unwritten(h)' <=> Unwritten(h)
BY DEF Unwritten, Same

\* A step that touches neither the store nor a putGrant is a stutter.
LEMMA QuietIsStutter ==
  ASSUME UNCHANGED <<grants, origin, handed>>,
         \A q \in Requests :
           Same(q) \/ (pc[q] # "putGrant" /\ pc'[q] # "putGrant")
  PROVE  UNCHANGED Lifecycle!lifecycleVars
<1>1. \A h \in Grants : StatusOf(h)' = StatusOf(h)
  BY UnwrittenUnchanged DEF StatusOf
<1> QED
  BY <1>1, StatusUnchanged DEF Lifecycle!lifecycleVars

\* A step that removes the item of g ends g, or finds it ended.
LEMMA RemovalIsEnd ==
  ASSUME Inv, NEW g \in Grants, grants' = [grants EXCEPT ![g] = Null],
         UNCHANGED <<origin, handed>>,
         \A q \in Requests :
           Same(q) \/ (pc[q] # "putGrant" /\ pc'[q] # "putGrant")
  PROVE  Lifecycle!End(g) \/ UNCHANGED Lifecycle!lifecycleVars
<1>1. grants \in [Grants -> GrantItem \union {Null}]
  BY DEF Inv, TypeInv, TypeOK
<1>2. \A h \in Grants : Unwritten(h)' <=> Unwritten(h)
  BY UnwrittenUnchanged
<1>3. \A h \in Grants \ {g} : StatusOf(h)' = StatusOf(h)
  BY <1>1, <1>2 DEF StatusOf
<1>4. CASE grants[g] = Null
  <2>1. \A h \in Grants : StatusOf(h)' = StatusOf(h)
    BY <1>1, <1>2, <1>3, <1>4 DEF StatusOf
  <2> QED
    BY <2>1, StatusUnchanged DEF Lifecycle!lifecycleVars
<1>5. CASE grants[g] # Null
  <2>1. ~Unwritten(g)
    BY <1>5 DEF Inv, GrantInv, ExchangeInv, Unwritten, Writing
  <2>2. StatusOf(g)' = Lifecycle!Ended
    BY <1>1, <1>2, <2>1 DEF StatusOf
  <2>3. grantStatus' = [grantStatus EXCEPT ![g] = Lifecycle!Ended]
    BY <1>3, <2>2, StatusChangesAt
  <2> QED
    BY <2>3 DEF Lifecycle!End
<1> QED
  BY <1>4, <1>5

\* A response that leaves the store alone hands out the current token.
LEMMA AnswerIsHandOut ==
  ASSUME Inv, NEW r \in Requests, NEW g \in Grants, NEW value \in GrantValue,
         Respond(r, g, value), pc[r] # "putGrant",
         UNCHANGED <<grants, origin>>,
         origin[g] # Null,
         \A q \in Requests \ {r} : pc[q] \in Writing => job[q].grant # g,
         IF grants[g] # Null THEN value.generation = grants[g].value.generation
         ELSE value.generation = 0
  PROVE  Lifecycle!HandOut(g)
<1>1. /\ \A q \in Requests \ {r} : Same(q)
      /\ pc'[r] = "ok"
  BY RespondEffect DEF Inv
<1>2. \A h \in Grants : StatusOf(h)' = StatusOf(h)
  BY <1>1, UnwrittenUnchanged DEF StatusOf
<1>3. grantStatus' = grantStatus
  BY <1>2, StatusUnchanged
<1>4. ~Unwritten(g)
  BY DEF Unwritten, Writing
<1>5. /\ grantStatus[g].phase # "unborn"
      /\ grantStatus[g].generation = value.generation
  BY <1>4 DEF grantStatus
<1>6. handed' = [handed EXCEPT ![g] = @ \union {value.generation}]
  BY DEF Respond, IssueTokens
<1> QED
  BY <1>3, <1>5, <1>6 DEF Lifecycle!HandOut

LEMMA InitIsLifecycleInit == Init => Lifecycle!LifecycleInit
<1> SUFFICES ASSUME Init PROVE Lifecycle!LifecycleInit
  OBVIOUS
<1>1. \A g \in Grants : grants[g] = Null /\ Unwritten(g)
  BY DEF Init, Unwritten
<1>2. grantStatus = [g \in Grants |-> Lifecycle!Unborn]
  BY <1>1 DEF grantStatus, Lifecycle!Unborn
<1> QED
  BY <1>2 DEF Init, Lifecycle!LifecycleInit

-----------------------------------------------------------------------------
(* Each action is a step of the lifecycle *)

GrantStep == [Lifecycle!LifecycleNext]_(Lifecycle!lifecycleVars)

\* A request that stops, or goes on, without touching the store.
LEMMA MovingIsStutter ==
  ASSUME Inv, NEW r \in Requests, NEW call, pc[r] # "putGrant",
         Refuse(r) \/ (Continue(r, call) /\ call # "putGrant"),
         UNCHANGED <<grants, origin>>
  PROVE  UNCHANGED Lifecycle!lifecycleVars
<1>1. /\ \A q \in Requests \ {r} : Same(q)
      /\ pc'[r] # "putGrant"
      /\ UNCHANGED handed
  BY DEF Inv, TypeInv, TypeOK, Refuse, Continue, Settle, Goto, Same
<1> QED
  BY <1>1, QuietIsStutter

LEMMA ArriveIsStutter ==
  ASSUME Inv, NEW r \in Requests, ArriveExchange(r) \/ ArriveRefresh(r)
  PROVE  UNCHANGED Lifecycle!lifecycleVars
<1>1. PICK j : Arrive(r, j)
  BY Zenon DEF ArriveExchange, ArriveRefresh
<1>2. /\ \A q \in Requests \ {r} : Same(q)
      /\ pc[r] # "putGrant" /\ pc'[r] # "putGrant"
      /\ UNCHANGED <<grants, origin, handed>>
  BY <1>1 DEF Inv, TypeInv, TypeOK, Arrive, Goto, Same, store, history, Settled
<1> QED
  BY <1>2, QuietIsStutter

\* The grant id is drawn, its item is yet to be written.
LEMMA TakeCodeIsStutter ==
  ASSUME Inv, NEW r \in Requests, TakeCode(r)
  PROVE  UNCHANGED Lifecycle!lifecycleVars
<1>1. pc[r] = "takeCode" /\ UNCHANGED grants
  BY DEF TakeCode
<1>2. CASE Refuse(r) /\ UNCHANGED origin
  BY <1>1, <1>2, MovingIsStutter
<1>3. ASSUME NEW g \in Grants, origin[g] = Null,
             origin' = [origin EXCEPT ![g] =
               [code |-> job[r].code, expiresAt |-> clock + SessionTtl]],
             job' = [job EXCEPT ![r].grant = g],
             item' = [item EXCEPT ![r] = item'[r]],
             Goto(r, "putGrant"),
             UNCHANGED <<seen, answer, handed, accessUntil>>
      PROVE  UNCHANGED Lifecycle!lifecycleVars
  <2>1. /\ \A q \in Requests \ {r} : Same(q)
        /\ pc'[r] = "putGrant" /\ job'[r].grant = g
    <3>1. job[r] \in ExchangeJob
      BY <1>1 DEF Inv, TypeInv, RequestShape, ExchangeCalls
    <3> QED
      BY <1>3, <3>1 DEF Inv, TypeInv, TypeOK, Goto, Same, ExchangeJob
  <2>2. ASSUME NEW h \in Grants PROVE Unwritten(h)' <=> Unwritten(h)
    <3>1. CASE h = g
      BY <1>3, <2>1, <3>1 DEF Unwritten
    <3>2. CASE h # g
      <4>1. origin'[h] = origin[h]
        BY <1>3, <3>2 DEF Inv, TypeInv, TypeOK
      <4>2. \A q \in Requests : (pc'[q] = "putGrant" /\ job'[q].grant = h)
                                <=> (pc[q] = "putGrant" /\ job[q].grant = h)
        BY <1>1, <2>1, <3>2 DEF Same
      <4> QED
        BY <4>1, <4>2 DEF Unwritten
    <3> QED
      BY <3>1, <3>2
  <2>3. \A h \in Grants : StatusOf(h)' = StatusOf(h)
    BY <1>1, <2>2 DEF StatusOf
  <2> QED
    BY <1>3, <2>3, StatusUnchanged DEF Lifecycle!lifecycleVars
<1>4. \/ Refuse(r) /\ UNCHANGED origin
      \/ \E g \in Grants :
           /\ origin[g] = Null
           /\ origin' = [origin EXCEPT ![g] =
                [code |-> job[r].code, expiresAt |-> clock + SessionTtl]]
           /\ job' = [job EXCEPT ![r].grant = g]
           /\ item' = [item EXCEPT ![r] = item'[r]]
           /\ Goto(r, "putGrant")
           /\ UNCHANGED <<seen, answer, handed, accessUntil>>
  BY DEF TakeCode, Inv, TypeInv, TypeOK
<1> QED
  BY <1>2, <1>3, <1>4

LEMMA PutGrantIsOpen ==
  ASSUME Inv, NEW r \in Requests, PutGrant(r)
  PROVE  \E g \in Grants : Lifecycle!Open(g)
<1>0. PICK g \in Grants : g = job[r].grant
  BY DEF PutGrant, Inv, TypeInv, RequestShape
<1>1. /\ item[r] \in GrantItem
      /\ item[r].value.generation = 0
      /\ pc[r] = "putGrant" /\ ExchangeInv(r)
  BY DEF PutGrant, Inv, TypeInv, RequestShape
<1>2. /\ origin[g] # Null /\ grants[g] = Null
      /\ \A q \in Requests \ {r} : pc[q] \in Writing => job[q].grant # g
  BY <1>0, <1>1 DEF ExchangeInv, Writing
<1>3. /\ \A q \in Requests \ {r} : Same(q)
      /\ pc'[r] = "putClient" /\ job'[r] = job[r]
      /\ grants' = [grants EXCEPT ![g] = item[r]]
      /\ UNCHANGED <<origin, handed>>
  BY <1>0 DEF PutGrant, Inv, TypeInv, TypeOK, Goto, Same, history
<1>4. grants \in [Grants -> GrantItem \union {Null}]
  BY DEF Inv, TypeInv, TypeOK
<1>5. Unwritten(g)
  BY <1>0, <1>1 DEF Unwritten
<1>6. ASSUME NEW h \in Grants \ {g} PROVE StatusOf(h)' = StatusOf(h)
  <2>1. Unwritten(h)' <=> Unwritten(h)
    <3>1. \A q \in Requests : (pc'[q] = "putGrant" /\ job'[q].grant = h)
                              <=> (pc[q] = "putGrant" /\ job[q].grant = h)
      BY <1>0, <1>3 DEF Same
    <3> QED
      BY <1>3, <3>1 DEF Unwritten
  <2> QED
    BY <1>3, <1>4, <2>1 DEF StatusOf
<1>7. grantStatus[g] = Lifecycle!Unborn
  BY <1>1, <1>2, <1>5, MappingIsStatusOf DEF StatusOf
<1>8. StatusOf(g)' = Lifecycle!Live(0)
  BY <1>1, <1>3, <1>4, NullAssumption DEF StatusOf
<1>9. grantStatus' = [grantStatus EXCEPT ![g] = Lifecycle!Live(0)]
  BY <1>1, <1>6, <1>8, StatusChangesAt
<1> QED
  BY <1>1, <1>3, <1>7, <1>9 DEF Lifecycle!Open

LEMMA PutClientIsHandOut ==
  ASSUME Inv, NEW r \in Requests, PutClient(r)
  PROVE  \E g \in Grants : Lifecycle!HandOut(g)
<1> DEFINE g == job[r].grant
<1>1. /\ g \in Grants
      /\ item[r].value \in GrantValue
      /\ item[r].value.generation = 0
      /\ pc[r] = "putClient" /\ ExchangeInv(r)
      /\ Respond(r, g, item[r].value)
      /\ UNCHANGED <<grants, origin>>
  BY DEF PutClient, Inv, TypeInv, RequestShape, GrantItem
<1>2. /\ origin[g] # Null
      /\ grants[g] # Null => grants[g].value.generation = 0
      /\ \A q \in Requests \ {r} : pc[q] \in Writing => job[q].grant # g
  BY <1>1 DEF ExchangeInv, Writing
<1> HIDE DEF g
<1> QED
  BY <1>1, <1>2, AnswerIsHandOut

LEMMA RetryIsHandOut ==
  ASSUME Inv, NEW r \in Requests, pc[r] \in {"getGrant", "rereadGrant"},
         Visible(grants[job[r].grant], clock),
         Respond(r, job[r].grant, grants[job[r].grant].value),
         UNCHANGED <<grants, origin>>
  PROVE  \E g \in Grants : Lifecycle!HandOut(g)
<1> DEFINE g == job[r].grant
<1>1. /\ g \in Grants /\ origin[g] # Null
      /\ grants[g] # Null => grants[g].value \in GrantValue
      /\ \A q \in Requests \ {r} : pc[q] \in Writing => job[q].grant # g
  BY RefreshFacts DEF RefreshCalls
<1>2. grants[g] # Null /\ Respond(r, g, grants[g].value)
  BY DEF Visible
<1> HIDE DEF g
<1> QED
  BY <1>1, <1>2, AnswerIsHandOut

\* A replacement is never the item it replaces.
LEMMA ReplaceChangesGrant ==
  ASSUME Inv, NEW r \in Requests, ReplaceGrant(r), UNCHANGED grants
  PROVE  Continue(r, "rereadGrant")
<1> DEFINE g == job[r].grant
<1>1. SUFFICES ASSUME Replaceable(grants[g], seen[r]),
                      grants' = [grants EXCEPT ![g] = item[r]]
               PROVE  FALSE
  BY DEF ReplaceGrant
<1>2. /\ g \in Grants
      /\ seen[r] \in GrantValue
      /\ item[r].value.generation = seen[r].generation + 1
      /\ grants \in [Grants -> GrantItem \union {Null}]
  BY RefreshFacts
  DEF ReplaceGrant, RefreshCalls, Inv, TypeInv, TypeOK, RequestShape
<1>3. item[r].value = seen[r]
  BY <1>1, <1>2 DEF Replaceable
<1>4. seen[r].generation \in Nat
  BY <1>2 DEF GrantValue
<1> QED
  BY <1>2, <1>3, <1>4

LEMMA ReplaceIsRotate ==
  ASSUME Inv, NEW r \in Requests, ReplaceGrant(r), ~UNCHANGED grants
  PROVE  \E g \in Grants : Lifecycle!Rotate(g)
<1>0. PICK g \in Grants : g = job[r].grant
  <2>1. pc[r] \in RefreshCalls
    BY DEF ReplaceGrant, RefreshCalls
  <2> QED
    BY <2>1, RefreshFacts
<1>1. /\ Replaceable(grants[g], seen[r])
      /\ grants' = [grants EXCEPT ![g] = item[r]]
      /\ Respond(r, g, item[r].value) \/ Continue(r, "rereadGrant")
      /\ pc[r] = "replaceGrant"
      /\ UNCHANGED origin
  BY <1>0 DEF ReplaceGrant, Continue, Goto, Inv, TypeInv, TypeOK
<1>2. /\ origin[g] # Null
      /\ \A q \in Requests \ {r} : pc[q] \in Writing => job[q].grant # g
  BY <1>0, <1>1, RefreshFacts DEF RefreshCalls
<1>3. /\ item[r] \in GrantItem /\ item[r].value \in GrantValue
      /\ item[r].value.generation = seen[r].generation + 1
      /\ grants[g] # Null /\ grants[g].value.generation = seen[r].generation
  BY <1>0, <1>1 DEF Inv, TypeInv, RequestShape, GrantItem, Replaceable
<1>4. grants \in [Grants -> GrantItem \union {Null}]
  BY DEF Inv, TypeInv, TypeOK
<1>5. /\ \A q \in Requests \ {r} : Same(q)
      /\ \/ handed' = [handed EXCEPT ![g] = @ \union {seen[r].generation + 1}]
         \/ UNCHANGED handed
      /\ pc'[r] # "putGrant"
  <2>1. CASE Respond(r, g, item[r].value)
    BY <1>1, <1>2, <1>3, <2>1, RespondEffect DEF Inv, Respond, IssueTokens
  <2>2. CASE Continue(r, "rereadGrant")
    BY <2>2 DEF Inv, TypeInv, TypeOK, Continue, Goto, Same
  <2> QED
    BY <1>1, <2>1, <2>2
<1>6. \A h \in Grants : Unwritten(h)' <=> Unwritten(h)
  BY <1>1, <1>5, UnwrittenUnchanged
<1>7. \A h \in Grants \ {g} : StatusOf(h)' = StatusOf(h)
  BY <1>1, <1>4, <1>6 DEF StatusOf
<1>8. grantStatus[g] = Lifecycle!Live(seen[r].generation)
  BY <1>2, <1>3, MappingIsStatusOf DEF StatusOf
<1>9. StatusOf(g)' = Lifecycle!Live(seen[r].generation + 1)
  BY <1>1, <1>2, <1>3, <1>4, NullAssumption DEF StatusOf
<1>10. grantStatus' =
         [grantStatus EXCEPT ![g] = Lifecycle!Live(seen[r].generation + 1)]
  BY <1>2, <1>7, <1>9, StatusChangesAt
<1>11. /\ grantStatus[g].phase = "live"
       /\ grantStatus[g].generation = seen[r].generation
  BY <1>8 DEF Lifecycle!Live
<1> QED
  BY <1>2, <1>5, <1>10, <1>11 DEF Lifecycle!Rotate

\* An exchange that is lost before its grant was written leaves it ended.
LEMMA CrashIsEnd ==
  ASSUME Inv, NEW r \in Requests, Crash(r)
  PROVE  \/ \E g \in Grants : Lifecycle!End(g)
         \/ UNCHANGED Lifecycle!lifecycleVars
<1>1. Refuse(r) /\ UNCHANGED <<grants, origin>>
  BY DEF Crash, store
<1>2. CASE pc[r] # "putGrant"
  BY <1>1, <1>2, MovingIsStutter
<1>3. CASE pc[r] = "putGrant"
    <2>0. PICK g \in Grants : g = job[r].grant
    BY <1>3 DEF Inv, TypeInv, RequestShape
  <2>1. ExchangeInv(r)
    BY DEF Inv
  <2>2. /\ origin[g] # Null /\ grants[g] = Null
        /\ \A q \in Requests \ {r} : pc[q] \in Writing => job[q].grant # g
    BY <1>3, <2>0, <2>1 DEF ExchangeInv, Writing
  <2>3. /\ \A q \in Requests \ {r} : Same(q)
        /\ pc'[r] = "idle" /\ UNCHANGED handed
    BY <1>1 DEF Inv, TypeInv, TypeOK, Refuse, Settle, Goto, Same
    <2>4. ASSUME NEW h \in Grants \ {g} PROVE StatusOf(h)' = StatusOf(h)
    <3>1. \A q \in Requests : (pc'[q] = "putGrant" /\ job'[q].grant = h)
                              <=> (pc[q] = "putGrant" /\ job[q].grant = h)
      BY <1>3, <2>0, <2>3 DEF Same
    <3> QED
      BY <1>1, <3>1 DEF StatusOf, Unwritten
  <2>5. ~Unwritten(g)'
    BY <1>1, <2>2, <2>3 DEF Unwritten, Same, Writing
  <2>6. StatusOf(g)' = Lifecycle!Ended
    BY <1>1, <2>2, <2>5 DEF StatusOf
  <2>7. grantStatus' = [grantStatus EXCEPT ![g] = Lifecycle!Ended]
    BY <2>4, <2>6, StatusChangesAt
  <2> QED
    BY <2>3, <2>7 DEF Lifecycle!End
<1> QED
  BY <1>2, <1>3

LEMMA DeleteIsEnd ==
  ASSUME Inv, NEW r \in Requests, DeleteReused(r) \/ DeleteRejected(r)
  PROVE  \/ \E g \in Grants : Lifecycle!End(g)
         \/ UNCHANGED Lifecycle!lifecycleVars
<1>1. /\ grants' = [grants EXCEPT ![job[r].grant] = Null]
      /\ UNCHANGED <<origin, handed>>
      /\ pc[r] \in RefreshCalls /\ pc[r] # "putGrant"
      /\ (Settle(r, "reused") /\ UNCHANGED answer) \/ Refuse(r)
  BY DEF DeleteReused, DeleteRejected, Refuse, history, RefreshCalls
<1>2. job[r].grant \in Grants
  BY <1>1, RefreshFacts
<1>3. /\ \A q \in Requests \ {r} : Same(q)
      /\ pc'[r] # "putGrant"
  BY <1>1 DEF Inv, TypeInv, TypeOK, Refuse, Settle, Goto, Same
<1> QED
  BY <1>1, <1>2, <1>3, RemovalIsEnd

LEMMA EnvironmentIsEnd ==
  ASSUME Inv,
         \/ \E g \in Grants : SignOut(g) \/ Reap(g)
         \/ Tick \/ UNCHANGED vars
  PROVE  \/ \E g \in Grants : Lifecycle!End(g)
         \/ UNCHANGED Lifecycle!lifecycleVars
<1>1. /\ UNCHANGED <<request, origin, handed>>
      /\ \/ UNCHANGED grants
         \/ \E g \in Grants : grants' = [grants EXCEPT ![g] = Null]
  BY DEF SignOut, Reap, Tick, vars, store, history
<1>2. \A q \in Requests : Same(q)
  BY <1>1 DEF Same, request
<1>3. CASE UNCHANGED grants
  BY <1>1, <1>2, <1>3, QuietIsStutter
<1>4. CASE \E g \in Grants : grants' = [grants EXCEPT ![g] = Null]
  BY <1>1, <1>2, <1>4, RemovalIsEnd
<1> QED
  BY <1>1, <1>3, <1>4

LEMMA RefreshIsGrantStep ==
  ASSUME Inv, NEW r \in Requests, Refresh(r)
  PROVE  GrantStep
<1> USE DEF GrantStep, Lifecycle!LifecycleNext
<1>1. CASE ArriveRefresh(r)
  BY <1>1, ArriveIsStutter
<1>2. CASE GetGrant(r)
  <2>1. pc[r] = "getGrant" /\ UNCHANGED <<grants, origin>>
    BY <1>2 DEF GetGrant, store
  <2>2. CASE Refuse(r) \/ Continue(r, "deleteReused")
    BY <2>1, <2>2, MovingIsStutter
  <2>3. CASE /\ Visible(grants[job[r].grant], clock)
             /\ Respond(r, job[r].grant, grants[job[r].grant].value)
    BY <2>1, <2>3, RetryIsHandOut
  <2>4. CASE Goto(r, "cognito") /\ UNCHANGED <<job, item, answer, handed>>
              /\ seen' = [seen EXCEPT ![r] = seen'[r]]
    <3>1. /\ \A q \in Requests \ {r} : Same(q)
          /\ pc'[r] # "putGrant"
      BY <2>4 DEF Inv, TypeInv, TypeOK, Goto, Same
    <3> QED
      BY <2>1, <2>4, <3>1, QuietIsStutter
  <2>5. \/ Refuse(r) \/ Continue(r, "deleteReused")
        \/ /\ Visible(grants[job[r].grant], clock)
           /\ Respond(r, job[r].grant, grants[job[r].grant].value)
        \/ /\ Goto(r, "cognito") /\ UNCHANGED <<job, item, answer, handed>>
           /\ seen' = [seen EXCEPT ![r] = seen'[r]]
    BY <1>2 DEF GetGrant, Inv, TypeInv, TypeOK
  <2> QED
    BY <2>2, <2>3, <2>4, <2>5
<1>3. CASE DeleteReused(r) \/ DeleteRejected(r)
  BY <1>3, DeleteIsEnd
<1>4. CASE CognitoRefreshes(r)
  <2>1. pc[r] = "cognito" /\ UNCHANGED <<grants, origin>>
    BY <1>4 DEF CognitoRefreshes, store
  <2>2. CASE Refuse(r)
    BY <2>1, <2>2, MovingIsStutter
  <2>3. CASE Goto(r, "replaceGrant") /\ UNCHANGED <<job, seen, answer, handed>>
              /\ item' = [item EXCEPT ![r] = item'[r]]
    <3>1. /\ \A q \in Requests \ {r} : Same(q)
          /\ pc'[r] # "putGrant"
      BY <2>3 DEF Inv, TypeInv, TypeOK, Goto, Same
    <3> QED
      BY <2>1, <2>3, <3>1, QuietIsStutter
  <2>4. \/ Refuse(r)
        \/ /\ Goto(r, "replaceGrant") /\ UNCHANGED <<job, seen, answer, handed>>
           /\ item' = [item EXCEPT ![r] = item'[r]]
    BY <1>4 DEF CognitoRefreshes, Inv, TypeInv, TypeOK
  <2> QED
    BY <2>2, <2>3, <2>4
<1>5. CASE CognitoRejects(r) \/ CognitoUnavailable(r)
  BY <1>5, MovingIsStutter DEF CognitoRejects, CognitoUnavailable, store
<1>6. CASE ReplaceGrant(r)
  <2>1. CASE Continue(r, "rereadGrant") /\ UNCHANGED grants
    BY <1>6, <2>1, MovingIsStutter DEF ReplaceGrant
  <2>2. CASE ~UNCHANGED grants
    BY <1>6, <2>2, ReplaceIsRotate
  <2>3. CASE UNCHANGED grants /\ ~Continue(r, "rereadGrant")
    <3>1. FALSE
      BY <1>6, <2>3, ReplaceChangesGrant
    <3> QED
      BY <3>1
  <2> QED
    BY <2>1, <2>2, <2>3
<1>7. CASE RereadGrant(r)
  <2>1. pc[r] = "rereadGrant" /\ UNCHANGED <<grants, origin>>
    BY <1>7 DEF RereadGrant, store
  <2>2. CASE Refuse(r)
    BY <2>1, <2>2, MovingIsStutter
  <2>3. CASE /\ Visible(grants[job[r].grant], clock)
             /\ Respond(r, job[r].grant, grants[job[r].grant].value)
    BY <2>1, <2>3, RetryIsHandOut
  <2> QED
    BY <1>7, <2>2, <2>3 DEF RereadGrant
<1> QED
  BY <1>1, <1>2, <1>3, <1>4, <1>5, <1>6, <1>7 DEF Refresh

LEMMA NextIsGrantStep == Inv /\ [Next]_vars => GrantStep
<1> SUFFICES ASSUME Inv, [Next]_vars PROVE GrantStep
  OBVIOUS
<1>1. ASSUME NEW r \in Requests, GetClient(r) PROVE GrantStep
  BY <1>1, MovingIsStutter DEF GetClient, store, GrantStep
<1>2. ASSUME NEW r \in Requests, Exchange(r) PROVE GrantStep
  BY <1>2, ArriveIsStutter, TakeCodeIsStutter, PutGrantIsOpen,
     PutClientIsHandOut DEF Exchange, GrantStep, Lifecycle!LifecycleNext
<1>3. ASSUME NEW r \in Requests, Refresh(r) PROVE GrantStep
  BY <1>3, RefreshIsGrantStep
<1>4. ASSUME NEW r \in Requests, Crash(r) PROVE GrantStep
  BY <1>4, CrashIsEnd DEF GrantStep, Lifecycle!LifecycleNext
<1>5. CASE \/ \E g \in Grants : SignOut(g) \/ Reap(g)
           \/ Tick \/ UNCHANGED vars
  BY <1>5, EnvironmentIsEnd DEF GrantStep, Lifecycle!LifecycleNext
<1> QED
  BY <1>1, <1>2, <1>3, <1>4, <1>5 DEF Next

\* The token endpoint implements the life of a grant: a grant opens once,
\* moves one generation at a time, only its current token is handed out, and
\* a grant that has ended never comes back, whatever requests are in flight
\* (index.ts:340-455, dynamodb-store.ts:42-77).
THEOREM EndpointImplementsLifecycle == Spec => ImplementsLifecycle
<1>1. Init => Lifecycle!LifecycleInit
  BY InitIsLifecycleInit
<1>2. Inv /\ [Next]_vars
        => [Lifecycle!LifecycleNext]_(Lifecycle!lifecycleVars)
  BY NextIsGrantStep DEF GrantStep
<1> QED
  BY <1>1, <1>2, Invariance, PTL
  DEF Spec, ImplementsLifecycle, Lifecycle!LifecycleSpec
=============================================================================
