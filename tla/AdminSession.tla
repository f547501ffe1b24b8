---------------------------- MODULE AdminSession ----------------------------
(***************************************************************************)
(* The login session of the admin pages: the middleware, the session store *)
(* and the auth routes of apps/admin-api, with the login form, the logout  *)
(* button and the guard of apps/admin-web.                                 *)
(*                                                                         *)
(* A session row keeps the Cognito tokens; the browser holds a sealed      *)
(* cookie with the row's sid.  Any protected request may find the access   *)
(* token about to expire and refresh it on the way.  Requests run in       *)
(* separate Lambda environments; an action is one call to the database or  *)
(* to Cognito with the code that runs on its answer.                       *)
(*                                                                         *)
(* The form asks Cognito anew for every submission, so a session id also   *)
(* names the Cognito login its row was made from.                          *)
(***************************************************************************)
EXTENDS Integers

CONSTANTS
  Sessions,       \* sids, and the Cognito logins behind them
  Browsers,
  Requests,       \* concurrent requests
  AccessTtl,      \* lifetime of an access token
  Margin,         \* REFRESH_MARGIN_MS
  SessionTtl,     \* SESSION_TTL_MS
  MaxClock,       \* bound of the model: the last instant
  Null

ASSUME SessionAssumption ==
  /\ AccessTtl \in Nat /\ Margin \in Nat /\ SessionTtl \in Nat
  /\ MaxClock \in Nat
  /\ Null \notin Sessions \union Nat

VARIABLES
  clock,
  login,      \* Cognito: the login of a session, or Null before it
  sessions,   \* the admin_sessions row of a sid, or Null
  cookie,     \* the session cookie of a browser, or Null
  page,       \* what a browser shows: the login form or the admin pages
  at,         \* the call a request makes next, or how it ended
  job,        \* the request and what it has learnt
  closed      \* history: the row of a sid was deleted

vars == <<clock, login, sessions, cookie, page, at, job, closed>>

Row == [exp: Nat, expiresAt: Nat]
Login == [active: BOOLEAN, opened: Nat \union {Null}, ended: Nat \union {Null}]
Cookie == [sid: Sessions, until: Nat]
Kinds == {"login", "me", "api", "logout"}

\* exp: the access token it has received.  found: when it read the row.
\* checked: when the tokens were last found good.  fault: Cognito, its key set or the database failed it.
Job == [kind: Kinds, browser: Browsers, sid: Sessions, exp: Nat \union {Null},
        found: Nat, checked: Nat, fault: BOOLEAN]

Calls == {"verifyLogin", "sweep", "create", "find", "refresh", "update",
          "delete", "findLogout", "deleteLogout", "revoke"}

ASSUME SessionNullAssumption ==
  Null \notin Row /\ Null \notin Login /\ Null \notin Cookie /\ Null \notin Job

Init ==
  /\ clock = 0
  /\ login = [s \in Sessions |-> Null]
  /\ sessions = [s \in Sessions |-> Null]
  /\ cookie = [b \in Browsers |-> Null]
  /\ page = [b \in Browsers |-> "login"]
  /\ at = [r \in Requests |-> "idle"]
  /\ job = [r \in Requests |-> Null]
  /\ closed = [s \in Sessions |-> FALSE]

-----------------------------------------------------------------------------
(* Helpers *)

Settled == {"idle", "served"}

Goto(r, call) == at' = [at EXCEPT ![r] = call]

Send(r, kind, b, s, exp, call) ==
  /\ at[r] \in Settled
  /\ Goto(r, call)
  /\ job' = [job EXCEPT ![r] =
       [kind |-> kind, browser |-> b, sid |-> s, exp |-> exp,
        found |-> 0, checked |-> 0, fault |-> FALSE]]

\* readSessionSid: the cookie is gone, or its seal has expired, after maxAge.
HasSession(b) == cookie[b] # Null /\ cookie[b].until > clock

Finish(r) ==
  /\ Goto(r, "idle")
  /\ job' = [job EXCEPT ![r] = Null]

Shows(b, p) == page' = [page EXCEPT ![b] = p]

\* A refusal: only the guard's own query leads to the login form.
Unauthorized(r) ==
  /\ Finish(r)
  /\ IF job[r].kind = "me" THEN Shows(job[r].browser, "login") ELSE UNCHANGED page

Serve(r) ==
  /\ Goto(r, "served")
  /\ job' = [job EXCEPT ![r] = Null]
  /\ IF job[r].kind = "me" THEN Shows(job[r].browser, "app") ELSE UNCHANGED page

-----------------------------------------------------------------------------
(* POST /auth/login, sent by the form with the tokens of a new login       *)

SubmitLogin(r) ==
  \E b \in Browsers, s \in Sessions :
    /\ page[b] = "login"
    /\ login[s] = Null
    /\ login' = [login EXCEPT ![s] =
         [active |-> TRUE, opened |-> Null, ended |-> Null]]
    /\ Send(r, "login", b, s, clock + AccessTtl, "verifyLogin")
    /\ UNCHANGED <<clock, sessions, cookie, page, closed>>

\* Refused when the token has expired, the keys cannot be fetched or the user
\* is unknown.
VerifyLogin(r) ==
  /\ at[r] = "verifyLogin"
  /\ \/ Finish(r)
     \/ job[r].exp > clock /\ Goto(r, "sweep") /\ UNCHANGED job
  /\ UNCHANGED <<clock, login, sessions, cookie, page, closed>>

Expired(s) == sessions[s] # Null /\ sessions[s].expiresAt < clock

DeleteExpiredSessions(r) ==
  /\ at[r] = "sweep"
  /\ sessions' = [s \in Sessions |-> IF Expired(s) THEN Null ELSE sessions[s]]
  /\ closed' = [s \in Sessions |-> closed[s] \/ Expired(s)]
  /\ Goto(r, "create")
  /\ UNCHANGED <<clock, login, cookie, page, job>>

\* The answer sets the cookie and leads to the admin pages; it may get lost.
CreateSession(r) ==
  LET s == job[r].sid
      b == job[r].browser
  IN
  /\ at[r] = "create"
  /\ sessions' = [sessions EXCEPT ![s] =
       [exp |-> job[r].exp, expiresAt |-> clock + SessionTtl]]
  /\ login' = [login EXCEPT ![s].opened = clock]
  /\ Finish(r)
  /\ \/ /\ cookie' = [cookie EXCEPT ![b] =
             [sid |-> s, until |-> clock + SessionTtl]]
        /\ Shows(b, "app")
     \/ UNCHANGED <<cookie, page>>
  /\ UNCHANGED <<clock, closed>>

-----------------------------------------------------------------------------
(* A protected request: "me" is the guard's query, "api" any other         *)

Call(r) ==
  /\ \E b \in Browsers, kind \in {"me", "api"} :
       HasSession(b) /\ Send(r, kind, b, cookie[b].sid, Null, "find")
  /\ UNCHANGED <<clock, login, sessions, cookie, page, closed>>

\* Without a cookie the guard's query is refused at once.
CallWithoutCookie(b) ==
  /\ page[b] = "app" /\ ~HasSession(b)
  /\ Shows(b, "login")
  /\ UNCHANGED <<clock, login, sessions, cookie, at, job, closed>>

\* Slip: a token is used until it expires.
FreshUntilExpiry(exp) == exp > clock

Fresh(exp) == exp - clock > Margin

\* Slip: a token that does not verify is an error and not a reason to refresh.
NoFallback(exp) == IF exp > clock THEN "refresh" ELSE "delete"

WhenNotFresh(exp) == "refresh"

\* The row is read; a token that is not fresh, and one that cannot be verified
\* because the keys are out of reach, is refreshed.
FindSession(r) ==
  LET row == sessions[job[r].sid] IN
  /\ at[r] = "find"
  /\ IF row = Null \/ Expired(job[r].sid)
     THEN Unauthorized(r)
     ELSE \/ /\ Fresh(row.exp)
             /\ Serve(r)
          \/ /\ Goto(r, WhenNotFresh(row.exp))
             /\ job' = [job EXCEPT ![r].found = clock]
             /\ UNCHANGED page
  /\ UNCHANGED <<clock, login, sessions, cookie, closed>>

Receive(r) == clock + AccessTtl

\* Cognito refreshes while the login is active; the refresh token stays.
Refresh(r) ==
  /\ at[r] = "refresh"
  /\ login[job[r].sid].active
  /\ job' = [job EXCEPT ![r].exp = Receive(r), ![r].checked = clock]
  /\ Goto(r, "update")
  /\ UNCHANGED <<clock, login, sessions, cookie, page, closed>>

\* Cognito refuses or cannot be reached, or the new token cannot be verified:
\* all one to verifyOrRefresh.
RefreshFails(r) ==
  /\ at[r] = "refresh"
  /\ job' = [job EXCEPT ![r].fault = login[job[r].sid].active]
  /\ Goto(r, "delete")
  /\ UNCHANGED <<clock, login, sessions, cookie, page, closed>>

\* Slip: the row is written whether or not it is still there.
UpsertTokens(s, exp) ==
  [sessions EXCEPT ![s] =
     [exp |-> exp, expiresAt |-> login[s].opened + SessionTtl]]

\* UPDATE ... WHERE sid: no row, no effect.
UpdateTokens(s, exp) ==
  IF sessions[s] = Null THEN sessions ELSE [sessions EXCEPT ![s].exp = exp]

UpdateSessionTokens(r) ==
  /\ at[r] = "update"
  /\ \/ /\ sessions' = UpdateTokens(job[r].sid, job[r].exp)
        /\ Serve(r)
     \/ /\ Goto(r, "delete")        \* the database fails the update
        /\ job' = [job EXCEPT ![r].fault = TRUE]
        /\ UNCHANGED <<sessions, page>>
  /\ UNCHANGED <<clock, login, cookie, closed>>

DeleteRow(s) ==
  /\ sessions' = [sessions EXCEPT ![s] = Null]
  /\ closed' = [closed EXCEPT ![s] = TRUE]

\* The cookie stays in the browser.
DeleteSession(r) ==
  /\ at[r] = "delete"
  /\ DeleteRow(job[r].sid)
  /\ Unauthorized(r)
  /\ UNCHANGED <<clock, login, cookie>>

-----------------------------------------------------------------------------
(* POST /auth/logout                                                       *)

SubmitLogout(r) ==
  /\ \E b \in Browsers :
       /\ page[b] = "app" /\ HasSession(b)
       /\ Send(r, "logout", b, cookie[b].sid, Null, "findLogout")
  /\ UNCHANGED <<clock, login, sessions, cookie, page, closed>>

\* The answer clears the cookie; the button shows the form however it went.
LogoutAnswered(r) ==
  /\ Finish(r)
  /\ Shows(job[r].browser, "login")
  /\ cookie' = [cookie EXCEPT ![job[r].browser] = Null]

FindForLogout(r) ==
  /\ at[r] = "findLogout"
  /\ IF sessions[job[r].sid] = Null
     THEN LogoutAnswered(r)
     ELSE Goto(r, "deleteLogout") /\ UNCHANGED <<job, page, cookie>>
  /\ UNCHANGED <<clock, login, sessions, closed>>

DeleteForLogout(r) ==
  /\ at[r] = "deleteLogout"
  /\ DeleteRow(job[r].sid)
  /\ Goto(r, "revoke")
  /\ UNCHANGED <<clock, login, cookie, page, job>>

EndLogin(s) ==
  login' = [login EXCEPT ![s].active = FALSE,
              ![s].ended = IF @ = Null THEN clock ELSE @]

\* Best effort: a failure is swallowed.
Revoke(r) ==
  /\ at[r] = "revoke"
  /\ EndLogin(job[r].sid) \/ UNCHANGED login
  /\ LogoutAnswered(r)
  /\ UNCHANGED <<clock, sessions, closed>>

-----------------------------------------------------------------------------
(* The environment *)

\* A statement fails, or the environment or the connection is lost: after a
\* logout the button shows the form all the same, with the cookie still in
\* place.  The guard takes any answer to its query that is not 200, also one of
\* a failure, for a refusal; without an answer the page stays what it was.
Crash(r) ==
  /\ at[r] \notin Settled
  /\ Finish(r)
  /\ \/ /\ job[r].kind \in {"me", "logout"}
        /\ Shows(job[r].browser, "login")
     \/ job[r].kind # "logout" /\ UNCHANGED page
  /\ UNCHANGED <<clock, login, sessions, cookie, closed>>

\* Cognito ends the login: its refresh token expires or is revoked.
LoginEnds(s) ==
  /\ login[s] # Null /\ login[s].active
  /\ EndLogin(s)
  /\ UNCHANGED <<clock, sessions, cookie, page, at, job, closed>>

Tick ==
  /\ clock < MaxClock
  /\ clock' = clock + 1
  /\ UNCHANGED <<login, sessions, cookie, page, at, job, closed>>

Next ==
  \/ \E r \in Requests :
       \/ SubmitLogin(r) \/ VerifyLogin(r) \/ DeleteExpiredSessions(r)
       \/ CreateSession(r)
       \/ Call(r) \/ FindSession(r) \/ Refresh(r) \/ RefreshFails(r)
       \/ UpdateSessionTokens(r) \/ DeleteSession(r)
       \/ SubmitLogout(r) \/ FindForLogout(r) \/ DeleteForLogout(r) \/ Revoke(r)
       \/ Crash(r)
  \/ \E b \in Browsers : CallWithoutCookie(b)
  \/ \E s \in Sessions : LoginEnds(s)
  \/ Tick

Spec == Init /\ [][Next]_vars

-----------------------------------------------------------------------------
(* Properties *)

\* The type invariant; a request about to store a token has one.
TypeOK ==
  /\ clock \in Nat
  /\ login \in [Sessions -> Login \union {Null}]
  /\ sessions \in [Sessions -> Row \union {Null}]
  /\ cookie \in [Browsers -> Cookie \union {Null}]
  /\ page \in [Browsers -> {"login", "app"}]
  /\ at \in [Requests -> Settled \union Calls]
  /\ job \in [Requests -> Job \union {Null}]
  /\ closed \in [Sessions -> BOOLEAN]
  /\ \A r \in Requests : at[r] \in {"verifyLogin", "sweep", "create", "update"}
       => job[r].exp # Null

\* A session that logout, the middleware or the sweep has deleted stays deleted:
\* a request that was refreshing meanwhile does not bring it back
\* (middleware.ts:75, session-store.ts:31-44, routes/auth.ts:81-96).
LogoutIsFinal == \A s \in Sessions : closed[s] => sessions[s] = Null

\* How long a session serves: it is looked up no later than SESSION_TTL_MS after
\* the login, refreshes or not, and once Cognito has ended the login the tokens
\* it holds last less than a token's lifetime without the margin, also when a
\* concurrent refresh stores its token late (middleware.ts:44-48, 65-77).
ServedWithinBounds ==
  [][\A r \in Requests : at[r] # "served" /\ at'[r] = "served" =>
       LET of == login[job[r].sid]
           found == IF at[r] = "find" THEN clock ELSE job[r].found
           checked == IF at[r] = "find" THEN clock ELSE job[r].checked
       IN
       /\ found <= of.opened + SessionTtl
       /\ of.ended # Null /\ of.ended < checked
            => checked < of.ended + AccessTtl - Margin]_vars

\* The middleware signs a user out only when Cognito has ended the login or
\* Cognito, its keys or the database failed this very request: requests that
\* refresh at the same time, or expired access tokens, are no reason
\* (middleware.ts:49-52, 65-79).
SignedOutForCause ==
  \A r \in Requests : at[r] = "delete" =>
    ~login[job[r].sid].active \/ job[r].fault
=============================================================================
