------------------------- MODULE AdminSessionProofs -------------------------
(***************************************************************************)
(* Proofs about AdminSession for any browsers, logins, requests, lifetimes *)
(* and length of time.                                                     *)
(***************************************************************************)
EXTENDS AdminSession, TLAPS

-----------------------------------------------------------------------------
(* The inductive invariant.  A login is opened when its row is inserted;   *)
(* only the one request that brought it can do so, and whatever else knows *)
(* its sid came later.                                                     *)

Opening == {"verifyLogin", "sweep", "create"}

\* Cognito has issued token t for the login of s, and none after its end.
IssuedFor(s, t) ==
  /\ t <= clock + AccessTtl
  /\ login[s].ended # Null => t <= login[s].ended + AccessTtl

LoginInv ==
  \A s \in Sessions : login[s] # Null =>
    /\ login[s].active <=> login[s].ended = Null
    /\ login[s].ended # Null => login[s].ended <= clock

RowInv ==
  \A s \in Sessions : sessions[s] # Null =>
    /\ login[s] # Null
    /\ login[s].opened # Null
    /\ sessions[s].expiresAt = login[s].opened + SessionTtl
    /\ IssuedFor(s, sessions[s].exp)

ClosedInv ==
  \A s \in Sessions : closed[s] =>
    login[s] # Null /\ login[s].opened # Null /\ sessions[s] = Null

CookieInv ==
  \A b \in Browsers : cookie[b] # Null =>
    login[cookie[b].sid] # Null /\ login[cookie[b].sid].opened # Null

\* What a request knows at each of its calls.
RequestInv(r) ==
  LET j == job[r]
      of == login[job[r].sid]
  IN
  /\ at[r] \in Calls =>
       /\ j \in Job
       /\ of # Null
       /\ at[r] \in Opening <=> of.opened = Null
       /\ j.exp # Null => IssuedFor(j.sid, j.exp)
  /\ at[r] \in {"refresh", "update"} => j.found <= of.opened + SessionTtl
  /\ at[r] = "update" =>
       /\ j.checked <= clock
       /\ of.ended # Null => j.checked <= of.ended
  /\ at[r] = "delete" => ~of.active \/ j.fault

OneOpener ==
  \A q, r \in Requests :
    at[q] \in Opening /\ at[r] \in Opening /\ job[q].sid = job[r].sid => q = r

Inv ==
  /\ TypeOK
  /\ LoginInv /\ RowInv /\ ClosedInv /\ CookieInv
  /\ \A r \in Requests : RequestInv(r)
  /\ OneOpener

StoreInv == LoginInv /\ RowInv /\ ClosedInv /\ CookieInv

-----------------------------------------------------------------------------
(* What a step leaves alone *)

\* A request that has not moved keeps what it knows while clock and logins
\* stand still.
LEMMA RestingRequest ==
  ASSUME NEW q \in Requests, RequestInv(q),
         at'[q] = at[q], job'[q] = job[q], UNCHANGED <<clock, login>>
  PROVE  RequestInv(q)'
BY DEF RequestInv, IssuedFor

\* Nor do the tables, the cookies and Cognito mind a step they take no part in.
LEMMA RestingStore ==
  ASSUME StoreInv, UNCHANGED <<clock, login, sessions, cookie, closed>>
  PROVE  StoreInv'
BY DEF StoreInv, LoginInv, RowInv, ClosedInv, CookieInv, IssuedFor

\* No second request takes up a login.
LEMMA SameOpeners ==
  ASSUME OneOpener, NEW r \in Requests,
         \A q \in Requests \ {r} : at'[q] = at[q] /\ job'[q] = job[q],
         at'[r] \in Opening => at[r] \in Opening /\ job'[r].sid = job[r].sid
  PROVE  OneOpener'
BY DEF OneOpener

\* A request sent with the session of a cookie.
LEMMA SendKeeps ==
  ASSUME Inv, NEW r \in Requests, NEW b \in Browsers, NEW kind \in Kinds,
         NEW call \in {"find", "findLogout"}, cookie[b] # Null,
         Send(r, kind, b, cookie[b].sid, Null, call),
         UNCHANGED <<clock, login, sessions, cookie, page, closed>>
  PROVE  Inv'
<1> DEFINE s == cookie[b].sid
           j == [kind |-> kind, browser |-> b, sid |-> s, exp |-> Null,
                 found |-> 0, checked |-> 0, fault |-> FALSE]
<1>1. /\ s \in Sessions /\ login[s] # Null /\ login[s].opened # Null
  BY DEF Inv, TypeOK, CookieInv, Cookie
<1>2. /\ at' = [at EXCEPT ![r] = call]
      /\ job' = [job EXCEPT ![r] = j]
  BY DEF Send, Goto
<1>3. j \in Job
  BY <1>1 DEF Job
<1>4. /\ at'[r] = call /\ job'[r] = j
      /\ \A q \in Requests \ {r} : at'[q] = at[q] /\ job'[q] = job[q]
  BY <1>2 DEF Inv, TypeOK
<1>5. TypeOK'
  <2>1. /\ at' \in [Requests -> Settled \union Calls]
        /\ job' \in [Requests -> Job \union {Null}]
    BY <1>2, <1>3 DEF Inv, TypeOK, Calls
  <2> QED
    BY <1>4, <2>1 DEF Inv, TypeOK
<1>6. StoreInv'
  BY RestingStore DEF Inv, StoreInv
<1>7. RequestInv(r)'
  BY <1>1, <1>3, <1>4 DEF RequestInv, Opening, Calls
<1>8. \A q \in Requests \ {r} : RequestInv(q)'
  BY <1>4, RestingRequest DEF Inv
<1>9. OneOpener'
  BY <1>4, SameOpeners DEF Inv, Opening
<1> QED
  BY <1>5, <1>6, <1>7, <1>8, <1>9 DEF Inv, StoreInv

-----------------------------------------------------------------------------
(* Initially *)

LEMMA InitInv == Init => Inv
<1> SUFFICES ASSUME Init PROVE Inv
  OBVIOUS
<1>1. TypeOK
  BY SessionAssumption DEF Init, TypeOK, Settled
<1>2. StoreInv
  BY DEF Init, StoreInv, LoginInv, RowInv, ClosedInv, CookieInv
<1>3. \A r \in Requests : at[r] = "idle"
  BY DEF Init
<1> QED
  BY <1>1, <1>2, <1>3 DEF Inv, StoreInv, RequestInv, OneOpener, Calls, Opening

-----------------------------------------------------------------------------
(* The login *)

LEMMA SubmitLoginKeeps ==
  ASSUME Inv, NEW r \in Requests, SubmitLogin(r)
  PROVE  Inv'
<1>1. PICK b \in Browsers, s \in Sessions :
        /\ login[s] = Null
        /\ login' = [login EXCEPT ![s] =
             [active |-> TRUE, opened |-> Null, ended |-> Null]]
        /\ Send(r, "login", b, s, clock + AccessTtl, "verifyLogin")
        /\ UNCHANGED <<clock, sessions, cookie, page, closed>>
  BY DEF SubmitLogin
<1> DEFINE j == [kind |-> "login", browser |-> b, sid |-> s,
                 exp |-> clock + AccessTtl, found |-> 0, checked |-> 0,
                 fault |-> FALSE]
           l == [active |-> TRUE, opened |-> Null, ended |-> Null]
<1>2. /\ at' = [at EXCEPT ![r] = "verifyLogin"]
      /\ job' = [job EXCEPT ![r] = j]
      /\ at[r] \in Settled
  BY <1>1 DEF Send, Goto
<1>3. j \in Job /\ j # Null /\ l \in Login /\ l # Null /\ j.exp \in Nat
  <2>1. clock + AccessTtl \in Nat /\ 0 \in Nat
    BY SessionAssumption DEF Inv, TypeOK
  <2>2. j \in Job
    BY <2>1 DEF Job, Kinds
  <2>3. l \in Login
    BY DEF Login
  <2> QED
    BY <2>1, <2>2, <2>3, SessionNullAssumption
<1>4. /\ login' \in [Sessions -> Login \union {Null}]
      /\ login'[s] = l
      /\ \A t \in Sessions \ {s} : login'[t] = login[t]
  BY <1>1, <1>3 DEF Inv, TypeOK
<1>5. /\ at'[r] = "verifyLogin" /\ job'[r] = j
      /\ \A q \in Requests \ {r} : at'[q] = at[q] /\ job'[q] = job[q]
  BY <1>2 DEF Inv, TypeOK
<1>6. TypeOK'
  <2>1. at' \in [Requests -> Settled \union Calls]
    BY <1>2 DEF Inv, TypeOK, Calls
  <2>2. job' \in [Requests -> Job \union {Null}]
    BY <1>2, <1>3 DEF Inv, TypeOK
  <2>3. \A q \in Requests : at'[q] \in {"verifyLogin", "sweep", "create", "update"}
          => job'[q].exp # Null
    BY <1>3, <1>5, SessionAssumption DEF Inv, TypeOK
  <2> QED
    BY <1>1, <1>4, <2>1, <2>2, <2>3 DEF Inv, TypeOK
<1>7. StoreInv'
  BY <1>1, <1>3, <1>4
  DEF Inv, StoreInv, LoginInv, RowInv, ClosedInv, CookieInv, IssuedFor, TypeOK, Cookie
<1>8. RequestInv(r)'
  BY <1>1, <1>3, <1>4, <1>5, SessionAssumption
  DEF RequestInv, IssuedFor, Opening, Calls, Inv, TypeOK
<1>9. \A q \in Requests \ {r} : RequestInv(q)'
  <2> SUFFICES ASSUME NEW q \in Requests, q # r PROVE RequestInv(q)'
    OBVIOUS
  <2>1. CASE at[q] \in Calls
    <3>1. job[q] \in Job /\ login'[job[q].sid] = login[job[q].sid]
      BY <1>1, <1>4, <2>1 DEF Inv, RequestInv, Job
    <3> QED
      BY <1>1, <1>5, <3>1 DEF Inv, RequestInv, IssuedFor
  <2>2. CASE at[q] \notin Calls
    BY <1>5, <2>2 DEF RequestInv, Calls
  <2> QED
    BY <2>1, <2>2
<1>10. OneOpener'
  BY <1>1, <1>5 DEF Inv, OneOpener, RequestInv, Opening, Calls
<1> QED
  BY <1>6, <1>7, <1>8, <1>9, <1>10 DEF Inv, StoreInv

LEMMA VerifyLoginKeeps ==
  ASSUME Inv, NEW r \in Requests, VerifyLogin(r)
  PROVE  Inv'
<1>1. /\ \A q \in Requests \ {r} : at'[q] = at[q] /\ job'[q] = job[q]
      /\ at[r] = "verifyLogin"
      /\ \/ at'[r] = "idle"
         \/ at'[r] = "sweep" /\ job'[r] = job[r]
  BY DEF VerifyLogin, Finish, Goto, Inv, TypeOK
<1>2. TypeOK'
  BY DEF VerifyLogin, Finish, Goto, Inv, TypeOK, Calls, Settled
<1>3. StoreInv'
  BY RestingStore DEF VerifyLogin, Inv, StoreInv
<1>4. RequestInv(r)'
  BY <1>1 DEF VerifyLogin, Inv, RequestInv, IssuedFor, Opening, Calls
<1>5. \A q \in Requests \ {r} : RequestInv(q)'
  BY <1>1, RestingRequest DEF VerifyLogin, Inv
<1>6. OneOpener'
  BY <1>1, SameOpeners DEF Inv, Opening
<1> QED
  BY <1>2, <1>3, <1>4, <1>5, <1>6 DEF Inv, StoreInv

LEMMA DeleteExpiredSessionsKeeps ==
  ASSUME Inv, NEW r \in Requests, DeleteExpiredSessions(r)
  PROVE  Inv'
<1>1. /\ \A q \in Requests \ {r} : at'[q] = at[q] /\ job'[q] = job[q]
      /\ at[r] = "sweep" /\ at'[r] = "create" /\ job'[r] = job[r]
  BY DEF DeleteExpiredSessions, Goto, Inv, TypeOK
<1>2. \A s \in Sessions :
        /\ sessions'[s] = IF Expired(s) THEN Null ELSE sessions[s]
        /\ closed'[s] <=> closed[s] \/ Expired(s)
  BY DEF DeleteExpiredSessions
<1>3. TypeOK'
  <2>1. sessions' \in [Sessions -> Row \union {Null}]
    BY <1>2 DEF DeleteExpiredSessions, Inv, TypeOK
  <2>2. closed' \in [Sessions -> BOOLEAN]
    <3>1. \A s \in Sessions : (closed[s] \/ Expired(s)) \in BOOLEAN
      BY DEF Expired
    <3> QED
      BY <3>1 DEF DeleteExpiredSessions
  <2>3. at' \in [Requests -> Settled \union Calls]
    BY DEF DeleteExpiredSessions, Goto, Inv, TypeOK, Calls
  <2> QED
    BY <1>1, <2>1, <2>2, <2>3 DEF DeleteExpiredSessions, Inv, TypeOK
<1>4. StoreInv'
  BY <1>2
  DEF DeleteExpiredSessions, Expired, Inv, StoreInv, LoginInv, RowInv, ClosedInv,
      CookieInv, IssuedFor
<1>5. RequestInv(r)'
  BY <1>1 DEF DeleteExpiredSessions, Inv, RequestInv, IssuedFor, Opening, Calls
<1>6. \A q \in Requests \ {r} : RequestInv(q)'
  BY <1>1, RestingRequest DEF DeleteExpiredSessions, Inv
<1>7. OneOpener'
  BY <1>1, SameOpeners DEF Inv, Opening
<1> QED
  BY <1>3, <1>4, <1>5, <1>6, <1>7 DEF Inv, StoreInv

LEMMA CreateSessionKeeps ==
  ASSUME Inv, NEW r \in Requests, CreateSession(r)
  PROVE  Inv'
<1> DEFINE s == job[r].sid
           b == job[r].browser
           row == [exp |-> job[r].exp, expiresAt |-> clock + SessionTtl]
           c == [sid |-> s, until |-> clock + SessionTtl]
<1>1. /\ at[r] = "create" /\ at[r] \in Calls
      /\ job[r] \in Job /\ s \in Sessions /\ b \in Browsers
      /\ login[s] # Null /\ login[s] \in Login /\ login[s].opened = Null
      /\ job[r].exp \in Nat /\ IssuedFor(s, job[r].exp)
  BY DEF CreateSession, Inv, TypeOK, RequestInv, Opening, Calls, Job
<1>2. /\ clock \in Nat /\ clock # Null /\ clock + SessionTtl \in Nat
      /\ row \in Row /\ row # Null /\ c \in Cookie /\ c # Null
  <2>1. clock \in Nat /\ clock # Null /\ clock + SessionTtl \in Nat
    BY SessionAssumption DEF Inv, TypeOK
  <2>2. row \in Row /\ c \in Cookie
    BY <1>1, <2>1 DEF Row, Cookie
  <2> QED
    BY <2>1, <2>2, SessionNullAssumption
<1> DEFINE l == [login[s] EXCEPT !.opened = clock]
<1>3. /\ l \in Login /\ l # Null
      /\ l.opened = clock /\ l.active = login[s].active /\ l.ended = login[s].ended
  <2>1. l \in Login
    BY <1>1, <1>2 DEF Login
  <2>2. l.opened = clock /\ l.active = login[s].active /\ l.ended = login[s].ended
    BY <1>1 DEF Login
  <2> QED
    BY <2>1, <2>2, SessionNullAssumption
<1>4. /\ login' = [login EXCEPT ![s] = l]
      /\ sessions' = [sessions EXCEPT ![s] = row]
      /\ at' = [at EXCEPT ![r] = "idle"]
      /\ job' = [job EXCEPT ![r] = Null]
      /\ \/ cookie' = [cookie EXCEPT ![b] = c] /\ page' = [page EXCEPT ![b] = "app"]
         \/ cookie' = cookie /\ page' = page
      /\ UNCHANGED <<clock, closed>>
  BY DEF CreateSession, Finish, Goto, Shows
<1>5. /\ login'[s] = l /\ sessions'[s] = row
      /\ \A t \in Sessions \ {s} : login'[t] = login[t] /\ sessions'[t] = sessions[t]
      /\ at'[r] = "idle"
      /\ \A q \in Requests \ {r} : at'[q] = at[q] /\ job'[q] = job[q]
      /\ \A d \in Browsers : cookie'[d] = c \/ cookie'[d] = cookie[d]
  BY <1>1, <1>4 DEF Inv, TypeOK
<1>6. TypeOK'
  <2>1. /\ login' \in [Sessions -> Login \union {Null}]
        /\ sessions' \in [Sessions -> Row \union {Null}]
    BY <1>1, <1>2, <1>3, <1>4 DEF Inv, TypeOK
  <2>2. /\ cookie' \in [Browsers -> Cookie \union {Null}]
        /\ page' \in [Browsers -> {"login", "app"}]
    BY <1>1, <1>2, <1>4 DEF Inv, TypeOK
  <2>3. /\ at' \in [Requests -> Settled \union Calls]
        /\ job' \in [Requests -> Job \union {Null}]
    BY <1>4 DEF Inv, TypeOK, Settled
  <2> QED
    BY <1>4, <1>5, <2>1, <2>2, <2>3 DEF Inv, TypeOK
<1>now. clock' = clock
  BY <1>4
<1>7. ~closed[s]
  BY <1>1 DEF Inv, ClosedInv
<1>8. StoreInv'
  <2>1. LoginInv'
    BY <1>1, <1>3, <1>4, <1>5 DEF Inv, LoginInv
  <2>2. RowInv'
    <3> SUFFICES ASSUME NEW t \in Sessions, sessions'[t] # Null
                 PROVE  /\ login'[t] # Null /\ login'[t].opened # Null
                        /\ sessions'[t].expiresAt = login'[t].opened + SessionTtl
                        /\ IssuedFor(t, sessions[t].exp)'
      BY DEF RowInv
    <3>1. CASE t = s
      <4>1. row.exp = job[r].exp /\ row.expiresAt = clock + SessionTtl
        OBVIOUS
      <4> QED
        BY <1>1, <1>2, <1>3, <1>5, <1>now, <3>1, <4>1 DEF IssuedFor
    <3>2. CASE t # s
      BY <1>5, <1>now, <3>2 DEF Inv, RowInv, IssuedFor
    <3> QED
      BY <3>1, <3>2
  <2>3. ClosedInv'
    BY <1>1, <1>4, <1>5, <1>7 DEF Inv, ClosedInv
  <2>4. CookieInv'
    <3>1. c.sid = s
      OBVIOUS
    <3>2. \A d \in Browsers : cookie[d] # Null => cookie[d].sid \in Sessions
      BY DEF Inv, TypeOK, Cookie
    <3> HIDE DEF c, l
    <3> QED
      BY <1>1, <1>2, <1>3, <1>5, <3>1, <3>2 DEF Inv, CookieInv
  <2> QED
    BY <2>1, <2>2, <2>3, <2>4 DEF StoreInv
<1>9. RequestInv(r)'
  BY <1>5 DEF RequestInv, Calls
<1>10. \A q \in Requests \ {r} : RequestInv(q)'
  <2> SUFFICES ASSUME NEW q \in Requests, q # r PROVE RequestInv(q)'
    OBVIOUS
  <2>1. CASE at[q] \in Calls
    <3>1. job[q] \in Job /\ job[q].sid # s
      BY <1>1, <2>1 DEF Inv, RequestInv, OneOpener, Opening
    <3>2. login'[job[q].sid] = login[job[q].sid]
      BY <1>5, <3>1 DEF Job
    <3> QED
      <4>1. at'[q] = at[q] /\ job'[q] = job[q] /\ clock' = clock /\ RequestInv(q)
        BY <1>5, <1>now DEF Inv
      <4> HIDE DEF s, b, row, c, l
      <4> QED
        BY <3>2, <4>1 DEF RequestInv, IssuedFor
  <2>2. CASE at[q] \notin Calls
    BY <1>5, <2>2 DEF RequestInv, Calls
  <2> QED
    BY <2>1, <2>2
<1>11. OneOpener'
  BY <1>5, SameOpeners DEF Inv, Opening
<1> QED
  BY <1>6, <1>8, <1>9, <1>10, <1>11 DEF Inv, StoreInv

-----------------------------------------------------------------------------
(* Protected requests *)

LEMMA CallKeeps ==
  ASSUME Inv, NEW r \in Requests, Call(r)
  PROVE  Inv'
<1>1. PICK b \in Browsers, kind \in {"me", "api"} :
        HasSession(b) /\ Send(r, kind, b, cookie[b].sid, Null, "find")
  BY DEF Call
<1>2. UNCHANGED <<clock, login, sessions, cookie, page, closed>>
  BY DEF Call
<1> QED
  BY <1>1, <1>2, SendKeeps, SessionNullAssumption DEF HasSession, Kinds

LEMMA CallWithoutCookieKeeps ==
  ASSUME Inv, NEW b \in Browsers, CallWithoutCookie(b)
  PROVE  Inv'
<1>1. TypeOK'
  BY DEF CallWithoutCookie, Shows, Inv, TypeOK
<1>2. StoreInv'
  BY RestingStore DEF CallWithoutCookie, Inv, StoreInv
<1>3. \A q \in Requests : RequestInv(q)'
  BY RestingRequest DEF CallWithoutCookie, Inv
<1>4. OneOpener'
  BY DEF CallWithoutCookie, Inv, OneOpener
<1> QED
  BY <1>1, <1>2, <1>3, <1>4 DEF Inv, StoreInv

LEMMA FindSessionKeeps ==
  ASSUME Inv, NEW r \in Requests, FindSession(r)
  PROVE  Inv'
<1> DEFINE s == job[r].sid
           found == [job[r] EXCEPT !.found = clock]
<1>1. /\ at[r] = "find" /\ at[r] \in Calls /\ job[r] \in Job /\ s \in Sessions
      /\ login[s] # Null /\ login[s].opened # Null
      /\ job[r].exp # Null => IssuedFor(s, job[r].exp)
      /\ job[r].browser \in Browsers
  BY DEF FindSession, Inv, RequestInv, Opening, Calls, Job
<1>2. /\ found \in Job /\ found.sid = s /\ found.exp = job[r].exp
      /\ found.found = clock
  BY <1>1 DEF Inv, TypeOK, Job
<1>3. /\ at' = [at EXCEPT ![r] = at'[r]]
      /\ \/ at'[r] \in Settled /\ job' = [job EXCEPT ![r] = Null]
         \/ at'[r] = "refresh" /\ job' = [job EXCEPT ![r] = found]
  BY DEF FindSession, Unauthorized, Serve, Finish, Goto, WhenNotFresh, Inv, TypeOK,
         Settled
<1>4. \A q \in Requests \ {r} : at'[q] = at[q] /\ job'[q] = job[q]
  BY <1>3 DEF Inv, TypeOK
<1>5. TypeOK'
  <2>1. at' \in [Requests -> Settled \union Calls]
    BY <1>3 DEF Inv, TypeOK, Calls
  <2>2. job' \in [Requests -> Job \union {Null}]
    BY <1>2, <1>3 DEF Inv, TypeOK
  <2>3. page' \in [Browsers -> {"login", "app"}]
    BY <1>1 DEF FindSession, Unauthorized, Serve, Shows, Inv, TypeOK
  <2>4. \A q \in Requests : at'[q] \in {"verifyLogin", "sweep", "create", "update"}
          => job'[q].exp # Null
    BY <1>3, <1>4 DEF Inv, TypeOK, Settled
  <2> QED
    BY <2>1, <2>2, <2>3, <2>4 DEF FindSession, Inv, TypeOK
<1>6. StoreInv'
  BY RestingStore DEF FindSession, Inv, StoreInv
<1>7. RequestInv(r)'
  <2>1. CASE at'[r] \in Settled
    BY <2>1 DEF RequestInv, Settled, Calls
  <2>2. CASE at'[r] = "refresh" /\ job' = [job EXCEPT ![r] = found]
    <3>1. sessions[s] # Null /\ ~Expired(s)
      BY <2>2 DEF FindSession, Unauthorized, Finish, Goto, Inv, TypeOK
    <3>2. clock <= login[s].opened + SessionTtl
      <4>1. /\ sessions[s].expiresAt = login[s].opened + SessionTtl
            /\ sessions[s] \in Row
        BY <1>1, <3>1 DEF Inv, RowInv, TypeOK
      <4>2. ~(sessions[s].expiresAt < clock)
        BY <3>1 DEF Expired
      <4> QED
        BY <4>1, <4>2 DEF Row, Inv, TypeOK
    <3>3. job'[r] = found
      BY <2>2 DEF Inv, TypeOK
    <3> QED
      BY <1>1, <1>2, <2>2, <3>2, <3>3
      DEF FindSession, RequestInv, IssuedFor, Opening, Calls
  <2> QED
    BY <1>3, <2>1, <2>2
<1>8. \A q \in Requests \ {r} : RequestInv(q)'
  BY <1>4, RestingRequest DEF FindSession, Inv
<1>9. OneOpener'
  BY <1>3, <1>4, SameOpeners DEF Inv, Opening, Settled
<1> QED
  BY <1>5, <1>6, <1>7, <1>8, <1>9 DEF Inv, StoreInv

LEMMA RefreshKeeps ==
  ASSUME Inv, NEW r \in Requests, Refresh(r)
  PROVE  Inv'
<1> DEFINE s == job[r].sid
           j == [job[r] EXCEPT !.exp = clock + AccessTtl, !.checked = clock]
<1>1. /\ at[r] = "refresh" /\ at[r] \in Calls /\ job[r] \in Job /\ s \in Sessions
      /\ login[s] # Null /\ login[s].opened # Null /\ login[s].active
      /\ job[r].found <= login[s].opened + SessionTtl
  BY DEF Refresh, Inv, RequestInv, Opening, Calls, Job
<1>2. /\ clock \in Nat /\ clock + AccessTtl \in Nat /\ clock + AccessTtl # Null
  BY SessionAssumption DEF Inv, TypeOK
<1>3. /\ j \in Job /\ j.sid = s /\ j.found = job[r].found
      /\ j.exp = clock + AccessTtl /\ j.checked = clock
  BY <1>1, <1>2 DEF Job
<1>4. login[s].ended = Null
  BY <1>1 DEF Inv, LoginInv
<1>5. /\ at' = [at EXCEPT ![r] = "update"]
      /\ job' = [job EXCEPT ![r] = j]
  BY DEF Refresh, Receive, Goto
<1>6. /\ at'[r] = "update" /\ job'[r] = j
      /\ \A q \in Requests \ {r} : at'[q] = at[q] /\ job'[q] = job[q]
  BY <1>5 DEF Inv, TypeOK
<1>7. TypeOK'
  <2>1. /\ at' \in [Requests -> Settled \union Calls]
        /\ job' \in [Requests -> Job \union {Null}]
    BY <1>3, <1>5 DEF Inv, TypeOK, Calls
  <2> QED
    BY <1>2, <1>3, <1>6, <2>1 DEF Refresh, Inv, TypeOK
<1>8. StoreInv'
  BY RestingStore DEF Refresh, Inv, StoreInv
<1>9. RequestInv(r)'
  <2> HIDE DEF j
  <2>1. clock' = clock /\ login' = login
    BY DEF Refresh
  <2>2. IssuedFor(s, clock + AccessTtl)'
    BY <1>2, <1>3, <1>4, <1>6, <2>1 DEF IssuedFor
  <2>3. at'[r] \in Calls \ Opening
    BY <1>6 DEF Calls, Opening
  <2> QED
    BY <1>1, <1>2, <1>3, <1>4, <1>6, <2>1, <2>2, <2>3 DEF RequestInv, IssuedFor
<1>10. \A q \in Requests \ {r} : RequestInv(q)'
  BY <1>6, RestingRequest DEF Refresh, Inv
<1>11. OneOpener'
  BY <1>6, SameOpeners DEF Inv, Opening
<1> QED
  BY <1>7, <1>8, <1>9, <1>10, <1>11 DEF Inv, StoreInv

\* A request that gives up its session, because of a fault or of Cognito.
LEMMA GivingUp ==
  ASSUME Inv, NEW r \in Requests, NEW fault \in BOOLEAN,
         at[r] \in {"refresh", "update"},
         at' = [at EXCEPT ![r] = "delete"],
         job' = [job EXCEPT ![r].fault = fault],
         fault \/ ~login[job[r].sid].active,
         UNCHANGED <<clock, login, sessions, cookie, page, closed>>
  PROVE  Inv'
<1> DEFINE j == [job[r] EXCEPT !.fault = fault]
<1>1. /\ at[r] \in Calls /\ job[r] \in Job
      /\ login[job[r].sid] # Null /\ login[job[r].sid].opened # Null
      /\ job[r].exp # Null => IssuedFor(job[r].sid, job[r].exp)
  BY DEF Inv, RequestInv, Opening, Calls
<1>2. /\ j \in Job /\ j.sid = job[r].sid /\ j.exp = job[r].exp /\ j.fault = fault
  BY <1>1 DEF Job
<1>3. /\ at'[r] = "delete" /\ job'[r] = j
      /\ \A q \in Requests \ {r} : at'[q] = at[q] /\ job'[q] = job[q]
  BY DEF Inv, TypeOK
<1>4. TypeOK'
  <2>1. /\ at' \in [Requests -> Settled \union Calls]
        /\ job' \in [Requests -> Job \union {Null}]
    BY <1>2 DEF Inv, TypeOK, Calls
  <2> QED
    BY <1>3, <2>1 DEF Inv, TypeOK
<1>5. StoreInv'
  BY RestingStore DEF Inv, StoreInv
<1>6. RequestInv(r)'
  <2> HIDE DEF j
  <2> QED
    BY <1>1, <1>2, <1>3 DEF RequestInv, IssuedFor, Opening, Calls
<1>7. \A q \in Requests \ {r} : RequestInv(q)'
  BY <1>3, RestingRequest DEF Inv
<1>8. OneOpener'
  BY <1>3, SameOpeners DEF Inv, Opening
<1> QED
  BY <1>4, <1>5, <1>6, <1>7, <1>8 DEF Inv, StoreInv

LEMMA RefreshFailsKeeps ==
  ASSUME Inv, NEW r \in Requests, RefreshFails(r)
  PROVE  Inv'
<1>1. login[job[r].sid].active \in BOOLEAN
  BY DEF RefreshFails, Inv, TypeOK, RequestInv, Calls, Job, Login
<1> QED
  BY <1>1, GivingUp DEF RefreshFails, Goto

\* A request that ends, or only its page, while store and Cognito rest.
LEMMA Ending ==
  ASSUME Inv, NEW r \in Requests,
         at' \in [Requests -> Settled \union Calls],
         \A q \in Requests \ {r} : at'[q] = at[q],
         at'[r] \in Settled,
         job' = [job EXCEPT ![r] = Null],
         page' \in [Browsers -> {"login", "app"}],
         clock' = clock, TypeOK',
         StoreInv',
         \A q \in Requests \ {r} : at[q] \in Calls =>
           login'[job[q].sid] = login[job[q].sid]
  PROVE  Inv'
<1>1. \A q \in Requests \ {r} : at'[q] = at[q] /\ job'[q] = job[q]
  BY DEF Inv, TypeOK
<1>2. RequestInv(r)'
  BY DEF RequestInv, Settled, Calls
<1>3. \A q \in Requests \ {r} : RequestInv(q)'
  <2> SUFFICES ASSUME NEW q \in Requests, q # r PROVE RequestInv(q)'
    OBVIOUS
  <2>1. CASE at[q] \in Calls
    BY <1>1, <2>1 DEF Inv, RequestInv, IssuedFor
  <2>2. CASE at[q] \notin Calls
    BY <1>1, <2>2 DEF RequestInv, Calls
  <2> QED
    BY <2>1, <2>2
<1>4. OneOpener'
  BY <1>1, SameOpeners DEF Inv, Opening, Settled
<1> QED
  BY <1>2, <1>3, <1>4 DEF Inv, StoreInv

LEMMA UpdateSessionTokensKeeps ==
  ASSUME Inv, NEW r \in Requests, UpdateSessionTokens(r)
  PROVE  Inv'
<1> DEFINE s == job[r].sid
<1>1. /\ at[r] = "update" /\ at[r] \in Calls /\ job[r] \in Job /\ s \in Sessions
      /\ job[r].browser \in Browsers
      /\ job[r].exp \in Nat /\ IssuedFor(s, job[r].exp)
  BY DEF UpdateSessionTokens, Inv, TypeOK, RequestInv, Calls, Job
<1>2. ASSUME sessions' = UpdateTokens(s, job[r].exp), Serve(r),
             UNCHANGED <<clock, login, cookie, closed>>
      PROVE  Inv'
  <2>1. /\ at' = [at EXCEPT ![r] = "served"] /\ job' = [job EXCEPT ![r] = Null]
        /\ page' \in [Browsers -> {"login", "app"}]
    BY <1>1, <1>2 DEF Serve, Goto, Shows, Inv, TypeOK
  <2>2. \A t \in Sessions :
          \/ sessions'[t] = sessions[t]
          \/ /\ t = s /\ sessions[t] # Null
             /\ sessions'[t] = [sessions[t] EXCEPT !.exp = job[r].exp]
    BY <1>1, <1>2 DEF UpdateTokens, Inv, TypeOK
  <2>3. \A t \in Sessions : sessions[t] # Null =>
          LET row == [sessions[t] EXCEPT !.exp = job[r].exp] IN
          /\ row \in Row /\ row # Null
          /\ row.exp = job[r].exp /\ row.expiresAt = sessions[t].expiresAt
    BY <1>1, SessionNullAssumption DEF Inv, TypeOK, Row
  <2>4. sessions' \in [Sessions -> Row \union {Null}]
    <3>1. \A t \in Sessions : sessions'[t] \in Row \union {Null}
      BY <2>2, <2>3 DEF Inv, TypeOK
    <3>2. sessions' = [t \in Sessions |-> sessions'[t]]
      BY <1>2 DEF UpdateTokens, Inv, TypeOK
    <3> QED
      BY <3>1, <3>2
  <2>5. TypeOK'
    BY <1>2, <2>1, <2>4 DEF Inv, TypeOK, Settled
  <2>6. RowInv'
    <3> SUFFICES ASSUME NEW t \in Sessions, sessions'[t] # Null
                 PROVE  /\ login[t] # Null /\ login[t].opened # Null
                        /\ sessions'[t].expiresAt = login[t].opened + SessionTtl
                        /\ IssuedFor(t, sessions'[t].exp)
      BY <1>2 DEF RowInv, IssuedFor
    <3> QED
      BY <1>1, <2>2, <2>3 DEF Inv, RowInv
  <2>8. ClosedInv'
    BY <1>2, <2>2 DEF Inv, ClosedInv
  <2>7. StoreInv'
    BY <1>2, <2>6, <2>8 DEF Inv, StoreInv, LoginInv, CookieInv
  <2> QED
    BY <1>2, <2>1, <2>5, <2>7, Ending DEF Inv, TypeOK, Settled
<1>3. ASSUME Goto(r, "delete"), job' = [job EXCEPT ![r].fault = TRUE],
             UNCHANGED <<clock, login, sessions, cookie, page, closed>>
      PROVE  Inv'
  BY <1>1, <1>3, GivingUp DEF Goto
<1> QED
  BY <1>2, <1>3 DEF UpdateSessionTokens

\* Deleting a row leaves the store in order.
LEMMA DeletingRow ==
  ASSUME Inv, NEW s \in Sessions, DeleteRow(s),
         login[s] # Null, login[s].opened # Null,
         UNCHANGED <<clock, login, cookie>>
  PROVE  /\ StoreInv'
         /\ sessions' \in [Sessions -> Row \union {Null}]
         /\ closed' \in [Sessions -> BOOLEAN]
BY DEF DeleteRow, Inv, TypeOK, StoreInv, LoginInv, RowInv, ClosedInv, CookieInv, IssuedFor

LEMMA DeleteSessionKeeps ==
  ASSUME Inv, NEW r \in Requests, DeleteSession(r)
  PROVE  Inv'
<1>1. /\ at[r] = "delete" /\ at[r] \in Calls /\ job[r] \in Job
      /\ job[r].sid \in Sessions /\ job[r].browser \in Browsers
      /\ login[job[r].sid] # Null /\ login[job[r].sid].opened # Null
  BY DEF DeleteSession, Inv, RequestInv, Opening, Calls, Job
<1>2. /\ StoreInv'
      /\ sessions' \in [Sessions -> Row \union {Null}]
      /\ closed' \in [Sessions -> BOOLEAN]
  BY <1>1, DeletingRow DEF DeleteSession
<1>3. /\ at' = [at EXCEPT ![r] = "idle"] /\ job' = [job EXCEPT ![r] = Null]
      /\ page' \in [Browsers -> {"login", "app"}]
      /\ UNCHANGED <<clock, login, cookie>>
  BY <1>1 DEF DeleteSession, Unauthorized, Finish, Goto, Shows, Inv, TypeOK
<1>4. TypeOK'
  BY <1>2, <1>3 DEF Inv, TypeOK, Settled
<1> QED
  BY <1>2, <1>3, <1>4, Ending DEF Inv, TypeOK, Settled

-----------------------------------------------------------------------------
(* The logout *)

LEMMA SubmitLogoutKeeps ==
  ASSUME Inv, NEW r \in Requests, SubmitLogout(r)
  PROVE  Inv'
<1>1. PICK b \in Browsers :
        HasSession(b) /\ Send(r, "logout", b, cookie[b].sid, Null, "findLogout")
  BY DEF SubmitLogout
<1>2. UNCHANGED <<clock, login, sessions, cookie, page, closed>>
  BY DEF SubmitLogout
<1> QED
  BY <1>1, <1>2, SendKeeps DEF HasSession, Kinds

\* The answer clears a cookie and shows a page.
LEMMA Answered ==
  ASSUME Inv, NEW r \in Requests, at[r] \in Calls, LogoutAnswered(r)
  PROVE  /\ at' = [at EXCEPT ![r] = "idle"] /\ job' = [job EXCEPT ![r] = Null]
         /\ page' \in [Browsers -> {"login", "app"}]
         /\ cookie' \in [Browsers -> Cookie \union {Null}]
         /\ \A b \in Browsers : cookie'[b] = cookie[b] \/ cookie'[b] = Null
<1>1. job[r].browser \in Browsers
  BY DEF Inv, RequestInv, Job
<1> QED
  BY <1>1 DEF LogoutAnswered, Finish, Goto, Shows, Inv, TypeOK

LEMMA FindForLogoutKeeps ==
  ASSUME Inv, NEW r \in Requests, FindForLogout(r)
  PROVE  Inv'
<1>1. at[r] = "findLogout" /\ at[r] \in Calls
  BY DEF FindForLogout, Calls
<1>2. CASE LogoutAnswered(r)
  <2>1. TypeOK'
    BY <1>1, <1>2, Answered DEF FindForLogout, Inv, TypeOK, Settled
  <2>2. StoreInv'
    BY <1>1, <1>2, Answered
    DEF FindForLogout, Inv, StoreInv, LoginInv, RowInv, ClosedInv, CookieInv, IssuedFor
  <2> QED
    BY <1>1, <1>2, <2>1, <2>2, Answered, Ending
    DEF FindForLogout, Inv, TypeOK, Settled
<1>3. CASE Goto(r, "deleteLogout") /\ UNCHANGED <<job, page, cookie>>
  <2>1. /\ at'[r] = "deleteLogout" /\ job'[r] = job[r]
        /\ \A q \in Requests \ {r} : at'[q] = at[q] /\ job'[q] = job[q]
    BY <1>3 DEF Goto, Inv, TypeOK
  <2>2. TypeOK'
    BY <1>3, <2>1 DEF FindForLogout, Goto, Inv, TypeOK, Calls
  <2>3. StoreInv'
    BY <1>3, RestingStore DEF FindForLogout, Inv, StoreInv
  <2>4. RequestInv(r)'
    BY <1>1, <2>1 DEF FindForLogout, Inv, RequestInv, IssuedFor, Opening, Calls
  <2>5. \A q \in Requests \ {r} : RequestInv(q)'
    BY <2>1, RestingRequest DEF FindForLogout, Inv
  <2>6. OneOpener'
    BY <2>1, SameOpeners DEF Inv, Opening
  <2> QED
    BY <2>2, <2>3, <2>4, <2>5, <2>6 DEF Inv, StoreInv
<1> QED
  BY <1>2, <1>3 DEF FindForLogout

LEMMA DeleteForLogoutKeeps ==
  ASSUME Inv, NEW r \in Requests, DeleteForLogout(r)
  PROVE  Inv'
<1>1. /\ at[r] = "deleteLogout" /\ at[r] \in Calls /\ job[r] \in Job
      /\ job[r].sid \in Sessions
      /\ login[job[r].sid] # Null /\ login[job[r].sid].opened # Null
      /\ job[r].exp # Null => IssuedFor(job[r].sid, job[r].exp)
  BY DEF DeleteForLogout, Inv, RequestInv, Opening, Calls, Job
<1>2. /\ StoreInv'
      /\ sessions' \in [Sessions -> Row \union {Null}]
      /\ closed' \in [Sessions -> BOOLEAN]
  BY <1>1, DeletingRow DEF DeleteForLogout
<1>3. /\ at'[r] = "revoke" /\ job'[r] = job[r]
      /\ \A q \in Requests \ {r} : at'[q] = at[q] /\ job'[q] = job[q]
  BY DEF DeleteForLogout, Goto, Inv, TypeOK
<1>4. TypeOK'
  BY <1>2, <1>3 DEF DeleteForLogout, Goto, Inv, TypeOK, Calls
<1>5. RequestInv(r)'
  BY <1>1, <1>3 DEF DeleteForLogout, RequestInv, IssuedFor, Opening, Calls
<1>6. \A q \in Requests \ {r} : RequestInv(q)'
  BY <1>3, RestingRequest DEF DeleteForLogout, Inv
<1>7. OneOpener'
  BY <1>3, SameOpeners DEF Inv, Opening
<1> QED
  BY <1>2, <1>4, <1>5, <1>6, <1>7 DEF Inv, StoreInv

\* Cognito forgets a login; the instant of its end is the first one.
LEMMA EndingLogin ==
  ASSUME Inv, NEW s \in Sessions, login[s] # Null, EndLogin(s)
  PROVE  /\ login' \in [Sessions -> Login \union {Null}]
         /\ \A t \in Sessions : login[t] # Null =>
              /\ login'[t] # Null
              /\ login'[t].opened = login[t].opened
              /\ login'[t].active => login[t].active
              /\ login'[t].active <=> login'[t].ended = Null
              /\ login'[t].ended # Null => login'[t].ended <= clock
              /\ \/ login'[t].ended = login[t].ended
                 \/ login[t].ended = Null /\ login'[t].ended = clock
         /\ \A t \in Sessions : login[t] = Null => login'[t] = Null
<1> DEFINE ended == IF login[s].ended = Null THEN clock ELSE login[s].ended
           l == [login[s] EXCEPT !.active = FALSE, !.ended = ended]
<1>1. /\ login[s] \in Login /\ clock \in Nat /\ clock # Null
      /\ login[s].active <=> login[s].ended = Null
      /\ login[s].ended # Null => login[s].ended <= clock
  BY SessionAssumption DEF Inv, TypeOK, LoginInv
<1>2. l \in Login /\ l # Null
  BY <1>1, SessionNullAssumption DEF Login
<1>3. l.opened = login[s].opened /\ l.active = FALSE /\ l.ended = ended
  BY <1>1 DEF Login
<1>4. login' = [login EXCEPT ![s] = l]
  BY DEF EndLogin
<1>5. /\ login'[s] = l
      /\ \A t \in Sessions \ {s} : login'[t] = login[t]
      /\ login' \in [Sessions -> Login \union {Null}]
  BY <1>2, <1>4 DEF Inv, TypeOK
<1>6. ended # Null /\ ended <= clock
  BY <1>1
<1>7. \A t \in Sessions : login[t] # Null =>
        /\ login[t].active <=> login[t].ended = Null
        /\ login[t].ended # Null => login[t].ended <= clock
  BY DEF Inv, LoginInv
<1> HIDE DEF l
<1> QED
  BY <1>1, <1>2, <1>3, <1>5, <1>6, <1>7

\* What the end of a login does to the rest: nothing becomes invalid.
LEMMA EndedLoginKeeps ==
  ASSUME Inv, NEW s \in Sessions, login[s] # Null, EndLogin(s),
         UNCHANGED <<clock, sessions, closed>>,
         \A b \in Browsers : cookie'[b] = cookie[b] \/ cookie'[b] = Null
  PROVE  /\ StoreInv'
         /\ \A q \in Requests :
              at'[q] = at[q] /\ job'[q] = job[q] => RequestInv(q)'
<1>1. \A t \in Sessions, e \in Nat :
        login[t] # Null /\ IssuedFor(t, e) => IssuedFor(t, e)'
  BY EndingLogin DEF IssuedFor
<1>2. LoginInv'
  BY EndingLogin DEF LoginInv
<1>3. RowInv'
  <2>1. \A t \in Sessions : sessions[t] # Null => sessions[t].exp \in Nat
    BY DEF Inv, TypeOK, Row
  <2> QED
    BY <1>1, <2>1, EndingLogin DEF Inv, RowInv
<1>4. ClosedInv'
  BY EndingLogin DEF Inv, ClosedInv
<1>5. CookieInv'
  <2>1. \A b \in Browsers : cookie[b] # Null => cookie[b].sid \in Sessions
    BY DEF Inv, TypeOK, Cookie
  <2> QED
    BY <2>1, EndingLogin DEF Inv, CookieInv
<1>6. ASSUME NEW q \in Requests, at'[q] = at[q], job'[q] = job[q]
      PROVE  RequestInv(q)'
  <2>1. CASE at[q] \in Calls
    <3> DEFINE t == job[q].sid
    <3>1. /\ job[q] \in Job /\ t \in Sessions /\ login[t] # Null
          /\ job[q].exp \in Nat \union {Null} /\ job[q].checked \in Nat
          /\ job[q].found \in Nat
          /\ at[q] \in Opening <=> login[t].opened = Null
          /\ job[q].exp # Null => IssuedFor(t, job[q].exp)
          /\ at[q] \in {"refresh", "update"} =>
               job[q].found <= login[t].opened + SessionTtl
          /\ at[q] = "update" =>
               /\ job[q].checked <= clock
               /\ login[t].ended # Null => job[q].checked <= login[t].ended
          /\ at[q] = "delete" => ~login[t].active \/ job[q].fault
      BY <2>1 DEF Inv, RequestInv, Job
    <3>2. job[q].exp # Null => IssuedFor(t, job[q].exp)'
      BY <1>1, <1>6, <3>1
    <3>3. /\ login'[t] # Null /\ login'[t].opened = login[t].opened
          /\ login'[t].active => login[t].active
          /\ \/ login'[t].ended = login[t].ended
             \/ login[t].ended = Null /\ login'[t].ended = clock
      BY <3>1, EndingLogin
    <3> QED
      BY <1>6, <3>1, <3>2, <3>3 DEF RequestInv
  <2>2. CASE at[q] \notin Calls
    BY <1>6, <2>2 DEF RequestInv, Calls
  <2> QED
    BY <2>1, <2>2
<1> QED
  BY <1>2, <1>3, <1>4, <1>5, <1>6 DEF StoreInv

LEMMA RevokeKeeps ==
  ASSUME Inv, NEW r \in Requests, Revoke(r)
  PROVE  Inv'
<1>1. /\ at[r] = "revoke" /\ at[r] \in Calls
      /\ job[r].sid \in Sessions /\ login[job[r].sid] # Null
  BY DEF Revoke, Inv, RequestInv, Calls, Job
<1>2. /\ at' = [at EXCEPT ![r] = "idle"] /\ job' = [job EXCEPT ![r] = Null]
      /\ page' \in [Browsers -> {"login", "app"}]
      /\ cookie' \in [Browsers -> Cookie \union {Null}]
      /\ \A b \in Browsers : cookie'[b] = cookie[b] \/ cookie'[b] = Null
      /\ UNCHANGED <<clock, sessions, closed>>
  BY <1>1, Answered DEF Revoke
<1>3. \A q \in Requests \ {r} : at'[q] = at[q] /\ job'[q] = job[q]
  BY <1>2 DEF Inv, TypeOK
<1>4. /\ login' \in [Sessions -> Login \union {Null}]
      /\ StoreInv'
      /\ \A q \in Requests \ {r} : RequestInv(q)'
  <2>1. CASE EndLogin(job[r].sid)
    BY <1>1, <1>2, <1>3, <2>1, EndingLogin, EndedLoginKeeps
  <2>2. CASE UNCHANGED login
    <3>1. StoreInv'
      BY <1>2, <2>2
      DEF Inv, StoreInv, LoginInv, RowInv, ClosedInv, CookieInv, IssuedFor
    <3>2. \A q \in Requests \ {r} : RequestInv(q)'
      BY <1>2, <1>3, <2>2, RestingRequest DEF Inv
    <3> QED
      BY <2>2, <3>1, <3>2 DEF Inv, TypeOK
  <2> QED
    BY <2>1, <2>2 DEF Revoke
<1>5. TypeOK'
  BY <1>2, <1>4 DEF Inv, TypeOK, Settled
<1>6. RequestInv(r)'
  BY <1>2 DEF RequestInv, Calls, Inv, TypeOK
<1>7. OneOpener'
  BY <1>2, <1>3, SameOpeners DEF Inv, TypeOK, Opening
<1> QED
  BY <1>4, <1>5, <1>6, <1>7 DEF Inv, StoreInv

-----------------------------------------------------------------------------
(* The environment *)

LEMMA CrashKeeps ==
  ASSUME Inv, NEW r \in Requests, Crash(r)
  PROVE  Inv'
<1>1. at[r] \in Calls /\ job[r].browser \in Browsers
  BY DEF Crash, Inv, TypeOK, RequestInv, Job
<1>2. /\ at' = [at EXCEPT ![r] = "idle"] /\ job' = [job EXCEPT ![r] = Null]
      /\ page' \in [Browsers -> {"login", "app"}]
  BY <1>1 DEF Crash, Finish, Goto, Shows, Inv, TypeOK
<1>3. TypeOK'
  BY <1>2 DEF Crash, Inv, TypeOK, Settled
<1>4. StoreInv'
  BY RestingStore DEF Crash, Inv, StoreInv
<1> QED
  BY <1>2, <1>3, <1>4, Ending DEF Crash, Inv, TypeOK, Settled

LEMMA LoginEndsKeeps ==
  ASSUME Inv, NEW s \in Sessions, LoginEnds(s)
  PROVE  Inv'
<1>1. /\ StoreInv' /\ \A q \in Requests : RequestInv(q)'
      /\ login' \in [Sessions -> Login \union {Null}]
  BY EndingLogin, EndedLoginKeeps DEF LoginEnds
<1>2. TypeOK'
  BY <1>1 DEF LoginEnds, Inv, TypeOK
<1>3. OneOpener'
  BY DEF LoginEnds, Inv, OneOpener
<1> QED
  BY <1>1, <1>2, <1>3 DEF Inv, StoreInv

LEMMA TickKeeps ==
  ASSUME Inv, Tick
  PROVE  Inv'
<1>1. clock \in Nat /\ clock' = clock + 1
  BY DEF Tick, Inv, TypeOK
<1>2. \A s \in Sessions, e \in Nat : IssuedFor(s, e) => IssuedFor(s, e)'
  BY <1>1, SessionAssumption DEF Tick, IssuedFor
<1>3. TypeOK'
  BY <1>1 DEF Tick, Inv, TypeOK
<1>4. LoginInv'
  <2>1. \A s \in Sessions : login[s] # Null => login[s].ended \in Nat \union {Null}
    BY DEF Inv, TypeOK, Login
  <2> QED
    BY <1>1, <2>1 DEF Tick, Inv, LoginInv
<1>5. RowInv'
  <2>1. \A s \in Sessions : sessions[s] # Null => sessions[s].exp \in Nat
    BY DEF Inv, TypeOK, Row
  <2> QED
    BY <1>2, <2>1 DEF Tick, Inv, RowInv
<1>6. ClosedInv' /\ CookieInv' /\ OneOpener'
  BY DEF Tick, Inv, ClosedInv, CookieInv, OneOpener
<1>7. ASSUME NEW q \in Requests PROVE RequestInv(q)'
  <2>1. at[q] \in Calls => /\ job[q].exp \in Nat \union {Null}
                           /\ job[q].checked \in Nat /\ job[q].sid \in Sessions
    BY DEF Inv, RequestInv, Job
  <2>2. at[q] \in Calls /\ job[q].exp # Null => IssuedFor(job[q].sid, job[q].exp)'
    BY <1>2, <2>1 DEF Tick, Inv, RequestInv
  <2> QED
    BY <1>1, <2>1, <2>2 DEF Tick, Inv, RequestInv, Calls
<1> QED
  BY <1>3, <1>4, <1>5, <1>6, <1>7 DEF Inv

-----------------------------------------------------------------------------
(* Theorems *)

LEMMA StepKeeps == Inv /\ [Next]_vars => Inv'
<1> SUFFICES ASSUME Inv, [Next]_vars PROVE Inv'
  OBVIOUS
<1>1. CASE UNCHANGED vars
  <2>1. TypeOK'
    BY <1>1 DEF vars, Inv, TypeOK
  <2>2. StoreInv'
    BY <1>1, RestingStore DEF vars, Inv, StoreInv
  <2>3. \A q \in Requests : RequestInv(q)'
    BY <1>1, RestingRequest DEF vars, Inv
  <2>4. OneOpener'
    BY <1>1 DEF vars, Inv, OneOpener
  <2> QED
    BY <2>1, <2>2, <2>3, <2>4 DEF Inv, StoreInv
<1>2. ASSUME NEW r \in Requests,
             \/ SubmitLogin(r) \/ VerifyLogin(r) \/ DeleteExpiredSessions(r)
             \/ CreateSession(r)
      PROVE  Inv'
  BY <1>2, SubmitLoginKeeps, VerifyLoginKeeps, DeleteExpiredSessionsKeeps,
     CreateSessionKeeps
<1>3. ASSUME NEW r \in Requests,
             \/ Call(r) \/ FindSession(r) \/ Refresh(r) \/ RefreshFails(r)
             \/ UpdateSessionTokens(r) \/ DeleteSession(r)
      PROVE  Inv'
  BY <1>3, CallKeeps, FindSessionKeeps, RefreshKeeps, RefreshFailsKeeps,
     UpdateSessionTokensKeeps, DeleteSessionKeeps
<1>4. ASSUME NEW r \in Requests,
             \/ SubmitLogout(r) \/ FindForLogout(r) \/ DeleteForLogout(r)
             \/ Revoke(r) \/ Crash(r)
      PROVE  Inv'
  BY <1>4, SubmitLogoutKeeps, FindForLogoutKeeps, DeleteForLogoutKeeps,
     RevokeKeeps, CrashKeeps
<1> QED
  BY <1>1, <1>2, <1>3, <1>4, CallWithoutCookieKeeps, LoginEndsKeeps, TickKeeps
  DEF Next

LEMMA Invariant == Spec => []Inv
BY InitInv, StepKeeps, PTL DEF Spec

\* Every variable keeps its type; in particular whoever stores a token has one.
THEOREM SessionTypeCorrect == Spec => []TypeOK
<1>1. Inv => TypeOK
  BY DEF Inv
<1> QED
  BY <1>1, Invariant, PTL

\* A session that a logout, the middleware or the sweep has deleted stays
\* deleted, however many refreshes and logins are under way.
THEOREM LogoutIsFinalHolds == Spec => []LogoutIsFinal
<1>1. Inv => LogoutIsFinal
  BY DEF Inv, ClosedInv, LogoutIsFinal
<1> QED
  BY <1>1, Invariant, PTL

\* The middleware signs out only for a cause of this very request.
THEOREM SignedOutForCauseHolds == Spec => []SignedOutForCause
<1>1. Inv => SignedOutForCause
  BY DEF Inv, RequestInv, SignedOutForCause
<1> QED
  BY <1>1, Invariant, PTL

\* A request is served by what it finds or by its own update.
LEMMA ServedFrom ==
  ASSUME Inv, Next, NEW r \in Requests, at[r] # "served", at'[r] = "served"
  PROVE  \/ FindSession(r) /\ Serve(r) /\ sessions[job[r].sid] # Null
            /\ ~Expired(job[r].sid) /\ Fresh(sessions[job[r].sid].exp)
         \/ at[r] = "update"
<1>1. ASSUME NEW q \in Requests, NEW call \in Calls \union {"idle"}, Goto(q, call)
      PROVE  FALSE
  BY <1>1 DEF Goto, Inv, TypeOK, Calls
<1>2. ASSUME NEW q \in Requests, Serve(q) PROVE q = r
  BY <1>2 DEF Serve, Goto, Inv, TypeOK
<1>3. ASSUME NEW q \in Requests,
             \/ SubmitLogin(q) \/ VerifyLogin(q) \/ DeleteExpiredSessions(q)
             \/ CreateSession(q) \/ Call(q)
      PROVE  FALSE
  BY <1>1, <1>3 DEF SubmitLogin, VerifyLogin, DeleteExpiredSessions, CreateSession,
                    Call, Send, Finish, Calls
<1>4. ASSUME NEW q \in Requests, Refresh(q) \/ RefreshFails(q) \/ DeleteSession(q)
      PROVE  FALSE
  BY <1>1, <1>4 DEF Refresh, RefreshFails, DeleteSession, Unauthorized, Finish, Calls
<1>5. ASSUME NEW q \in Requests,
             \/ SubmitLogout(q) \/ FindForLogout(q) \/ DeleteForLogout(q)
             \/ Revoke(q) \/ Crash(q)
      PROVE  FALSE
  BY <1>1, <1>5 DEF SubmitLogout, FindForLogout, DeleteForLogout, Revoke, Crash,
                    LogoutAnswered, Send, Finish, Calls
<1>6. ASSUME NEW q \in Requests, FindSession(q)
      PROVE  FindSession(r) /\ Serve(r) /\ sessions[job[r].sid] # Null
             /\ ~Expired(job[r].sid) /\ Fresh(sessions[job[r].sid].exp)
  BY <1>1, <1>2, <1>6 DEF FindSession, Unauthorized, Finish, WhenNotFresh, Calls
<1>7. ASSUME NEW q \in Requests, UpdateSessionTokens(q) PROVE at[r] = "update"
  BY <1>1, <1>2, <1>7 DEF UpdateSessionTokens, Calls
<1> QED
  BY <1>3, <1>4, <1>5, <1>6, <1>7 DEF Next, CallWithoutCookie, LoginEnds, Tick

\* A session is looked up within its lifetime, and after the end of its login
\* it serves for less than the lifetime of a token without the margin.
THEOREM ServedWithinBoundsHolds == Spec => ServedWithinBounds
<1> DEFINE Of(r) == login[job[r].sid]
           Found(r) == IF at[r] = "find" THEN clock ELSE job[r].found
           Checked(r) == IF at[r] = "find" THEN clock ELSE job[r].checked
           Served(r) == at[r] # "served" /\ at'[r] = "served"
           Bounded(r) ==
             /\ Found(r) <= Of(r).opened + SessionTtl
             /\ Of(r).ended # Null /\ Of(r).ended < Checked(r)
                  => Checked(r) < Of(r).ended + AccessTtl - Margin
           Bounds == \A r \in Requests : Served(r) => Bounded(r)
<1>1. Inv /\ [Next]_vars => [Bounds]_vars
  <2> SUFFICES ASSUME Inv, Next, NEW r \in Requests, Served(r)
               PROVE  Bounded(r)
    OBVIOUS
  <2>1. \/ FindSession(r) /\ Serve(r) /\ sessions[job[r].sid] # Null
           /\ ~Expired(job[r].sid) /\ Fresh(sessions[job[r].sid].exp)
        \/ at[r] = "update"
    BY ServedFrom
  <2>2. CASE at[r] = "update"
    BY <2>2 DEF Inv, RequestInv, Calls, TypeOK, Job, Login
  <2>3. CASE /\ FindSession(r) /\ sessions[job[r].sid] # Null
             /\ ~Expired(job[r].sid) /\ Fresh(sessions[job[r].sid].exp)
    <3> DEFINE s == job[r].sid
    <3>1. /\ at[r] = "find" /\ s \in Sessions /\ sessions[s] \in Row
          /\ clock \in Nat /\ login[s] \in Login
          /\ sessions[s].expiresAt = login[s].opened + SessionTtl
          /\ login[s].ended # Null => sessions[s].exp <= login[s].ended + AccessTtl
      BY <2>3 DEF FindSession, Inv, TypeOK, RequestInv, Calls, Job, RowInv, IssuedFor
    <3>2. /\ clock <= sessions[s].expiresAt
          /\ sessions[s].exp - clock > Margin
      BY <2>3, <3>1 DEF Expired, Fresh, Row
    <3> QED
      BY <3>1, <3>2, SessionAssumption DEF Row, Login
  <2> QED
    BY <2>1, <2>2, <2>3
<1> QED
  BY <1>1, Invariant, PTL DEF Spec, ServedWithinBounds
=============================================================================
