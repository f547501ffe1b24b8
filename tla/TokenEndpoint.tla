---------------------------- MODULE TokenEndpoint ----------------------------
(***************************************************************************)
(* POST /oauth/token of the MCP authorization server                       *)
(* (apps/mcp-server/src/oauth/index.ts) and the bearer check of the MCP    *)
(* endpoint.  Requests run concurrently in separate Lambda environments    *)
(* and meet only in the store and in Cognito.  One action is one call to   *)
(* the store or to Cognito together with the code that runs on its answer  *)
(* up to the next call, so anything may happen between two calls of a      *)
(* request: other requests, time, a sign-out, the loss of the environment. *)
(*                                                                         *)
(* A presented refresh token is any token ever handed out.  That covers    *)
(* responses that were lost, retried requests and clients that kept an old *)
(* token.  A token whose MAC does not verify is refused before the store   *)
(* is read and changes nothing, so it is not modelled.                     *)
(***************************************************************************)
EXTENDS OAuthStore, FiniteSets

CONSTANTS
  Clients,            \* registered client ids
  Codes,              \* authorization codes the callback has stored
  CodeClient,         \* CodeClient[c]: the client a code was issued to
  Grants,             \* grant ids randomToken() may draw
  Requests,           \* concurrent token requests
  \* Durations in ticks, whole seconds each.
  UnusedClientTtl,    \* UNUSED_CLIENT_TTL_SECONDS
  CodeTtl,            \* AUTHORIZATION_CODE_TTL_SECONDS
  SessionTtl,         \* options.sessionTtlSeconds
  AccessTtl,          \* options.accessTokenTtlSeconds
  RetryGrace,         \* REFRESH_RETRY_GRACE_SECONDS
  MaxGeneration,      \* largest generation parseRefreshToken accepts
  UpstreamRotates,    \* whether the Cognito app client rotates refresh tokens
  MaxClock            \* bound of the model: the last instant

ASSUME ConstantsAssumption ==
  /\ CodeClient \in [Codes -> Clients]
  /\ {UnusedClientTtl, CodeTtl, SessionTtl, AccessTtl, RetryGrace} \subseteq Nat
  /\ \A d \in {UnusedClientTtl, CodeTtl, SessionTtl, AccessTtl, RetryGrace} :
       d % TicksPerSecond = 0
  /\ MaxGeneration \in Nat
  /\ MaxClock \in Nat
  /\ UpstreamRotates \in BOOLEAN

VARIABLES
  clock,          \* now()
  clientTtl,      \* ttl of the item client#<id>; 0 when absent
  codeTtl,        \* ttl of the item code#<hash>; 0 when absent
  grants,         \* item grant#<id>, or Null
  session,        \* Cognito: the login behind a grant, and its refresh token
  pc,             \* the call a request makes next
  job,            \* what the request presented
  seen,           \* the grant value a refresh read
  item,           \* the grant item a request is about to write
  answer,         \* generation of the refresh token in the last response
  takes,          \* history: how many exchanges found the code in the store
  origin,         \* history: the code a grant id was drawn for, session end
  handed,         \* history: generations handed out per grant
  accessUntil     \* history: latest exp of the access tokens of a grant

store == <<clientTtl, codeTtl, grants>>
request == <<pc, job, seen, item, answer>>
history == <<takes, origin, handed, accessUntil>>
vars == <<clock, store, session, request, history>>

-----------------------------------------------------------------------------
(* Types *)

Generation == 0 .. MaxGeneration + 1

GrantValue == [client: Clients, generation: Nat, rotatedAt: Nat,
               expiresAt: Nat, upstream: Nat]
GrantItem == [value: GrantValue, ttl: Nat]

ExchangeJob == [kind: {"authorization_code"}, client: Clients, code: Codes,
                valid: BOOLEAN, grant: Grants \union {Null}]
RefreshJob == [kind: {"refresh_token"}, client: Clients, grant: Grants,
               generation: Generation, arrived: Nat]

Origin == [code: Codes, expiresAt: Nat]

\* Null is none of the values it stands in for.
ASSUME NullAssumption ==
  /\ Null \notin GrantValue /\ Null \notin GrantItem
  /\ Null \notin ExchangeJob /\ Null \notin RefreshJob
  /\ Null \notin Origin /\ Null \notin Grants

ExchangeCalls == {"takeCode", "putGrant", "putClient"}
RefreshCalls == {"getGrant", "cognito", "deleteReused", "deleteRejected",
                 "replaceGrant", "rereadGrant"}

\* "ok": a token response was sent.  "reused": invalid_grant after the grant
\* was deleted for a superseded token.  Any other refusal ends in "idle".
Settled == {"idle", "ok", "reused"}

-----------------------------------------------------------------------------
(* Pure parts of the handlers.  A definition whose comment starts with     *)
(* "Slip" is a plausible mistake in the definition after it; no action     *)
(* uses it, it shows that a property would notice.                         *)

ParseRefreshToken(generation) == generation <= MaxGeneration

\* Slip: any older generation is taken for a retry.
IsRetryOfAny(generation, grant) ==
  /\ generation < grant.generation
  /\ clock - grant.rotatedAt <= RetryGrace

IsRetry(generation, grant) ==
  /\ generation = grant.generation - 1
  /\ clock - grant.rotatedAt <= RetryGrace

\* Slip: every refresh renews the whole session.
RenewedSeconds(expiresAt) == SessionTtl

RemainingSeconds(expiresAt) == CeilSecond(expiresAt - clock)

\* Slip: the access token is not cut at the end of the session.
AccessExpUncut(grant) == FloorSecond(clock + AccessTtl)

AccessExp(grant) ==
  FloorSecond(IF clock + AccessTtl < grant.expiresAt
              THEN clock + AccessTtl ELSE grant.expiresAt)

\* The grant a refresh wants to store; client, sub and expiresAt are kept.
Successor(grant, upstream) ==
  [grant EXCEPT !.generation = @ + 1, !.rotatedAt = clock, !.upstream = upstream]

\* issueTokens, reached with the grant `value` of g.
IssueTokens(r, g, value) ==
  /\ handed' = [handed EXCEPT ![g] = @ \union {value.generation}]
  /\ accessUntil' = [accessUntil EXCEPT
       ![g] = IF AccessExp(value) > @ THEN AccessExp(value) ELSE @]
  /\ answer' = [answer EXCEPT ![r] = value.generation]

Goto(r, call) == pc' = [pc EXCEPT ![r] = call]

\* The request is over; an error response leaves nothing to remember.
Settle(r, outcome) ==
  /\ Goto(r, outcome)
  /\ job' = IF outcome = "idle" THEN [job EXCEPT ![r] = Null] ELSE job
  /\ seen' = [seen EXCEPT ![r] = Null]
  /\ item' = [item EXCEPT ![r] = Null]

\* The response carries tokens for g, whose value is `value`.
Respond(r, g, value) ==
  /\ Settle(r, "ok")
  /\ IssueTokens(r, g, value)

Refuse(r) ==
  /\ Settle(r, "idle")
  /\ UNCHANGED <<answer, handed, accessUntil>>

Continue(r, call) ==
  /\ Goto(r, call)
  /\ UNCHANGED <<job, seen, item, answer, handed, accessUntil>>

-----------------------------------------------------------------------------
(* Initial states: clients have registered and codes have been stored by   *)
(* the callback at instant 0; nobody holds a token yet.                    *)

Init ==
  /\ clock = 0
  /\ clientTtl = [c \in Clients |-> TtlOf(0, UnusedClientTtl)]
  /\ codeTtl = [c \in Codes |-> TtlOf(0, CodeTtl)]
  /\ grants = [g \in Grants |-> Null]
  /\ session = [g \in Grants |-> [active |-> TRUE, token |-> 0]]
  /\ pc = [r \in Requests |-> "idle"]
  /\ job = [r \in Requests |-> Null]
  /\ seen = [r \in Requests |-> Null]
  /\ item = [r \in Requests |-> Null]
  /\ answer = [r \in Requests |-> 0]
  /\ takes = [c \in Codes |-> 0]
  /\ origin = [g \in Grants |-> Null]
  /\ handed = [g \in Grants |-> {}]
  /\ accessUntil = [g \in Grants |-> 0]

-----------------------------------------------------------------------------
(* Arrival of a request *)

Arrive(r, j) ==
  /\ pc[r] \in Settled
  /\ Goto(r, "getClient")
  /\ job' = [job EXCEPT ![r] = j]
  /\ answer' = [answer EXCEPT ![r] = 0]
  /\ UNCHANGED <<clock, store, session, seen, item, history>>

\* `valid`: redirect_uri and code_verifier match the code.
ArriveExchange(r) ==
  \E client \in Clients, code \in Codes, valid \in BOOLEAN :
    Arrive(r, [kind |-> "authorization_code", client |-> client,
               code |-> code, valid |-> valid, grant |-> Null])

ArriveRefresh(r) ==
  \E client \in Clients, g \in Grants : \E n \in handed[g] :
    Arrive(r, [kind |-> "refresh_token", client |-> client, grant |-> g,
               generation |-> n, arrived |-> clock])

\* authenticateClient: the client item must be readable.
GetClient(r) ==
  /\ pc[r] = "getClient"
  /\ IF ~Readable(clientTtl[job[r].client], clock)
     THEN Refuse(r)
     ELSE IF job[r].kind = "authorization_code"
     THEN Continue(r, "takeCode")
     ELSE IF ParseRefreshToken(job[r].generation)
     THEN Continue(r, "getGrant")
     ELSE Refuse(r)
  /\ UNCHANGED <<clock, store, session, takes, origin>>

-----------------------------------------------------------------------------
(* exchangeAuthorizationCode *)

\* take reads and deletes the code in one call: a failed exchange spends it.
TakeCode(r) ==
  LET j == job[r]
      found == Readable(codeTtl[j.code], clock)
  IN
  /\ pc[r] = "takeCode"
  /\ codeTtl' = [codeTtl EXCEPT ![j.code] = AfterTake(@)]
  /\ takes' = IF found THEN [takes EXCEPT ![j.code] = @ + 1] ELSE takes
  /\ IF found /\ CodeClient[j.code] = j.client /\ j.valid
     THEN \E g \in Grants :
            /\ origin[g] = Null
            /\ origin' = [origin EXCEPT
                 ![g] = [code |-> j.code, expiresAt |-> clock + SessionTtl]]
            /\ job' = [job EXCEPT ![r].grant = g]
            /\ item' = [item EXCEPT ![r] =
                 [value |-> [client |-> j.client, generation |-> 0,
                             rotatedAt |-> clock,
                             expiresAt |-> clock + SessionTtl,
                             upstream |-> session[g].token],
                  ttl |-> TtlOf(clock, SessionTtl)]]
            /\ Goto(r, "putGrant")
            /\ UNCHANGED <<seen, answer, handed, accessUntil>>
     ELSE Refuse(r) /\ UNCHANGED origin
  /\ UNCHANGED <<clock, clientTtl, grants, session>>

\* The ttl of the client item is fixed when its put is sent, after this one.
PutGrant(r) ==
  /\ pc[r] = "putGrant"
  /\ grants' = [grants EXCEPT ![job[r].grant] = item[r]]
  /\ item' = [item EXCEPT ![r].ttl = TtlOf(clock, SessionTtl)]
  /\ Goto(r, "putClient")
  /\ UNCHANGED <<clock, clientTtl, codeTtl, session, job, seen, answer, history>>

PutClient(r) ==
  /\ pc[r] = "putClient"
  /\ clientTtl' = [clientTtl EXCEPT ![job[r].client] = item[r].ttl]
  /\ Respond(r, job[r].grant, item[r].value)
  /\ UNCHANGED <<clock, codeTtl, grants, session, takes, origin>>

-----------------------------------------------------------------------------
(* exchangeRefreshToken *)

GetGrant(r) ==
  LET j == job[r]
      found == grants[j.grant]
  IN
  /\ pc[r] = "getGrant"
  /\ IF ~Visible(found, clock) \/ found.value.client # j.client
     THEN Refuse(r)
     ELSE IF IsRetry(j.generation, found.value)
     THEN Respond(r, j.grant, found.value)
     ELSE IF j.generation # found.value.generation
     THEN Continue(r, "deleteReused")
     ELSE /\ seen' = [seen EXCEPT ![r] = found.value]
          /\ Goto(r, "cognito")
          /\ UNCHANGED <<job, item, answer, handed, accessUntil>>
  /\ UNCHANGED <<clock, store, session, takes, origin>>

\* Slip: the reuse is logged, the grant is kept.
LogReused(r) ==
  /\ pc[r] = "deleteReused"
  /\ Settle(r, "reused")
  /\ UNCHANGED <<clock, store, session, answer, history>>

DeleteReused(r) ==
  /\ pc[r] = "deleteReused"
  /\ grants' = [grants EXCEPT ![job[r].grant] = Null]
  /\ Settle(r, "reused")
  /\ UNCHANGED <<clock, clientTtl, codeTtl, session, answer, history>>

\* Cognito accepts a refresh token while the login is active and, when it
\* rotates, only the latest one.
Accepts(g, token) ==
  /\ session[g].active
  /\ UpstreamRotates => token = session[g].token

\* The refresh token that is valid once Cognito has used the current one.
Rotated(g) == session[g].token + (IF UpstreamRotates THEN 1 ELSE 0)

CognitoRefreshes(r) ==
  LET g == job[r].grant IN
  /\ pc[r] = "cognito"
  /\ Accepts(g, seen[r].upstream)
  /\ session' = [session EXCEPT ![g].token = Rotated(g)]
  /\ IF RemainingSeconds(seen[r].expiresAt) <= 0
     THEN Refuse(r)
     ELSE /\ item' = [item EXCEPT ![r] =
               [value |-> Successor(seen[r], Rotated(g)),
                ttl |-> TtlOf(clock, RemainingSeconds(seen[r].expiresAt))]]
          /\ Goto(r, "replaceGrant")
          /\ UNCHANGED <<job, seen, answer, handed, accessUntil>>
  /\ UNCHANGED <<clock, store, takes, origin>>

\* 400 invalid_grant; also stands for an id_token of another subject.
CognitoRejects(r) ==
  /\ pc[r] = "cognito"
  /\ ~Accepts(job[r].grant, seen[r].upstream)
  /\ Continue(r, "deleteRejected")
  /\ UNCHANGED <<clock, store, session, takes, origin>>

\* Slip: every error of Cognito counts as a rejection.
CognitoUnavailableRejects(r) ==
  /\ pc[r] = "cognito"
  /\ Continue(r, "deleteRejected")
  /\ UNCHANGED <<clock, store, session, takes, origin>>

\* Timeout, network failure or any other status: 503, the store is left as it
\* is.  When the answer was lost, Cognito may have refreshed all the same.
CognitoUnavailable(r) ==
  LET g == job[r].grant IN
  /\ pc[r] = "cognito"
  /\ \/ UNCHANGED session
     \/ /\ Accepts(g, seen[r].upstream)
        /\ session' = [session EXCEPT ![g].token = Rotated(g)]
  /\ Refuse(r)
  /\ UNCHANGED <<clock, store, takes, origin>>

DeleteRejected(r) ==
  /\ pc[r] = "deleteRejected"
  /\ grants' = [grants EXCEPT ![job[r].grant] = Null]
  /\ Refuse(r)
  /\ UNCHANGED <<clock, clientTtl, codeTtl, session, takes, origin>>

\* The AWS SDK sends a request again when its answer is lost: the condition of
\* the second put fails on the item the first one has written.
ReplaceGrant(r) ==
  LET g == job[r].grant IN
  /\ pc[r] = "replaceGrant"
  /\ IF Replaceable(grants[g], seen[r])
     THEN /\ grants' = [grants EXCEPT ![g] = item[r]]
          /\ Respond(r, g, item[r].value) \/ Continue(r, "rereadGrant")
     ELSE /\ Continue(r, "rereadGrant")
          /\ UNCHANGED grants
  /\ UNCHANGED <<clock, clientTtl, codeTtl, session, takes, origin>>

\* Slip: the loser tries the same replacement again.
RetryReplace(r) ==
  /\ pc[r] = "rereadGrant"
  /\ Continue(r, "replaceGrant")
  /\ UNCHANGED <<clock, store, session, takes, origin>>

RereadGrant(r) ==
  LET j == job[r]
      latest == grants[j.grant]
  IN
  /\ pc[r] = "rereadGrant"
  /\ IF /\ Visible(latest, clock)
        /\ latest.value.client = j.client
        /\ IsRetry(j.generation, latest.value)
     THEN Respond(r, j.grant, latest.value)
     ELSE Refuse(r)
  /\ UNCHANGED <<clock, store, session, takes, origin>>

-----------------------------------------------------------------------------
(* The environment *)

\* The Lambda environment is lost, or the request times out, between calls.
Crash(r) ==
  /\ pc[r] \notin Settled
  /\ Refuse(r)
  /\ UNCHANGED <<clock, store, session, takes, origin>>

\* Sign-out, disabled user or expired login in Cognito.
SignOut(g) ==
  /\ origin[g] # Null
  /\ session[g].active
  /\ session' = [session EXCEPT ![g].active = FALSE]
  /\ UNCHANGED <<clock, store, request, history>>

\* DynamoDB removes an expired item some time after its ttl.
Reap(g) ==
  /\ grants[g] # Null
  /\ ~Readable(grants[g].ttl, clock)
  /\ grants' = [grants EXCEPT ![g] = Null]
  /\ UNCHANGED <<clock, clientTtl, codeTtl, session, request, history>>

Tick ==
  /\ clock < MaxClock
  /\ clock' = clock + 1
  /\ UNCHANGED <<store, session, request, history>>

Exchange(r) == ArriveExchange(r) \/ TakeCode(r) \/ PutGrant(r) \/ PutClient(r)

Refresh(r) ==
  \/ ArriveRefresh(r) \/ GetGrant(r) \/ DeleteReused(r)
  \/ CognitoRefreshes(r) \/ CognitoRejects(r) \/ CognitoUnavailable(r)
  \/ DeleteRejected(r) \/ ReplaceGrant(r) \/ RereadGrant(r)

Next ==
  \/ \E r \in Requests : GetClient(r) \/ Exchange(r) \/ Refresh(r) \/ Crash(r)
  \/ \E g \in Grants : SignOut(g) \/ Reap(g)
  \/ Tick

Spec == Init /\ [][Next]_vars

\* Every call of a request is answered or times out.  Nothing obliges a
\* client to send a request, the clock to reach an instant or a user to sign
\* out, and an environment may always be lost instead (Crash).
Step(r) ==
  \/ GetClient(r) \/ TakeCode(r) \/ PutGrant(r) \/ PutClient(r)
  \/ GetGrant(r) \/ DeleteReused(r) \/ CognitoRefreshes(r)
  \/ CognitoRejects(r) \/ CognitoUnavailable(r) \/ DeleteRejected(r)
  \/ ReplaceGrant(r) \/ RereadGrant(r)

FairSpec == Spec /\ \A r \in Requests : WF_vars(Step(r))

-----------------------------------------------------------------------------
(* Properties *)

\* The type invariant, with the shape of a job at every call of a request.
TypeOK ==
  /\ clock \in Nat
  /\ clientTtl \in [Clients -> Nat]
  /\ codeTtl \in [Codes -> Nat]
  /\ grants \in [Grants -> GrantItem \union {Null}]
  /\ session \in [Grants -> [active: BOOLEAN, token: Nat]]
  /\ pc \in [Requests -> Settled \union {"getClient"} \union ExchangeCalls
                         \union RefreshCalls]
  /\ job \in [Requests -> ExchangeJob \union RefreshJob \union {Null}]
  /\ seen \in [Requests -> GrantValue \union {Null}]
  /\ item \in [Requests -> GrantItem \union {Null}]
  /\ answer \in [Requests -> Generation]
  /\ takes \in [Codes -> Nat]
  /\ origin \in [Grants -> Origin \union {Null}]
  /\ handed \in [Grants -> SUBSET Generation]
  /\ accessUntil \in [Grants -> Nat]

\* The store never falls behind what clients hold: while a grant is stored,
\* every refresh token handed out for it is of the stored generation or an
\* older one.  A refresh that finishes late must not put an older generation
\* back, or the token of an honest client would look superseded
\* (store.replace at index.ts:446, dynamodb-store.ts:42-65).
NeverAheadOfStore ==
  \A g \in Grants : grants[g] # Null =>
    \A n \in handed[g] : n <= grants[g].value.generation

\* Retried and simultaneous refreshes that succeed get the same successor:
\* the token of exactly the next generation (index.ts:324-325, 391-404,
\* 446-453), whatever other requests did while Cognito was answering.
SameSuccessor ==
  \A r \in Requests : pc[r] = "ok" /\ job[r].kind = "refresh_token" =>
    answer[r] = job[r].generation + 1

\* Once a superseded token has been answered with "already used", no refresh
\* that was in flight brings the grant back (index.ts:407-411).
ReuseEndsGrant ==
  \A r \in Requests : pc[r] = "reused" => grants[job[r].grant] = Null

\* A code is found by one exchange only, also when that exchange fails, and
\* gives rise to one grant at most (index.ts:349-353, dynamodb-store.ts:67-77).
CodeSpentOnce ==
  /\ \A c \in Codes : takes[c] <= 1
  /\ \A g, h \in Grants :
       origin[g] # Null /\ origin[h] # Null /\ origin[g].code = origin[h].code
         => g = h

\* A refresh that arrives two seconds or more after the end of the login
\* session gets no tokens.  The slack is the rounding of the ttl attribute,
\* once in remainingSeconds and once in encode (index.ts:223, 433-446,
\* dynamodb-store.ts:89-90).
SessionOverrunBounded ==
  \A r \in Requests : pc[r] = "ok" /\ job[r].kind = "refresh_token" =>
    job[r].arrived < origin[job[r].grant].expiresAt + 2 * TicksPerSecond

\* authenticate: a bearer request for g is let through.
BearerAccepted(g) ==
  Readable(accessUntil[g], clock) /\ Visible(grants[g], clock)

\* No access token opens the MCP endpoint after the login session, although
\* the grant item may stay readable a little longer (index.ts:301-304, 457-478).
BearerNeverPastSession ==
  \A g \in Grants : BearerAccepted(g) => clock < grants[g].value.expiresAt

\* The endpoint deletes a grant on Cognito's word only for a login that has
\* ended (index.ts:413-424, cognito.ts:13): not for an outage of Cognito and
\* not because a simultaneous refresh used the upstream token.
RejectedMeansSignedOut ==
  \A r \in Requests :
    pc[r] = "deleteRejected" => ~session[job[r].grant].active

\* Refinement mapping: a stored grant is live, a grant id whose item has not
\* been written yet is unborn, a deleted, expired or abandoned one has ended.
Unwritten(g) ==
  \/ origin[g] = Null
  \/ \E r \in Requests : pc[r] = "putGrant" /\ job[r].grant = g

grantStatus ==
  [g \in Grants |->
     IF grants[g] # Null
     THEN [phase |-> "live", generation |-> grants[g].value.generation]
     ELSE [phase |-> IF Unwritten(g) THEN "unborn" ELSE "ended",
           generation |-> 0]]

Lifecycle == INSTANCE GrantLifecycle WITH status <- grantStatus

\* The endpoint implements the lifecycle: a grant moves one generation at a
\* time, hands out only the current token, and never comes back once it has
\* ended, whatever requests are still in flight.
ImplementsLifecycle == Lifecycle!LifecycleSpec

\* Every request is answered: in particular a refresh that loses the race for
\* a generation does not run after the grant for ever (index.ts:449-454).
RequestsSettle ==
  \A r \in Requests : pc[r] \notin Settled ~> pc[r] \in Settled
=============================================================================
