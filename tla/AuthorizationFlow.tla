-------------------------- MODULE AuthorizationFlow --------------------------
(***************************************************************************)
(* The browser half of the MCP authorization server: /oauth/register,      *)
(* /oauth/authorize, /oauth/consent and /oauth/callback                    *)
(* (apps/mcp-server/src/oauth/index.ts), composed with the code exchange   *)
(* of TokenEndpoint.  Clients exist once they register and codes once the  *)
(* callback stores them; both halves share the store and the clock.        *)
(*                                                                         *)
(* A visit is one browser request.  Any browser may send any of them for   *)
(* any transaction: pages are reloaded, forms are sent twice, links are    *)
(* opened elsewhere.  A fresh cookie value is drawn while a transaction is *)
(* begun, so the transaction's id stands for the value.                    *)
(*                                                                         *)
(* Refreshes touch neither codes nor transactions; TokenEndpoint has them. *)
(***************************************************************************)
EXTENDS TokenEndpoint

CONSTANTS
  Browsers,
  Transactions,       \* ids randomToken() may draw
  Visits,             \* concurrent browser requests
  TransactionTtl,     \* TRANSACTION_TTL_SECONDS, in ticks
  MaxApprovals        \* bound of the model: approvals per transaction

ASSUME FlowAssumption ==
  /\ TransactionTtl \in Nat /\ TransactionTtl % TicksPerSecond = 0
  /\ MaxApprovals \in Nat
  /\ Null \notin Browsers \union Transactions

VARIABLES
  cookie,         \* the browser-binding cookie of each browser, or Null
  transactions,   \* item txn#<hash>, or Null
  at,             \* the call a visit makes next
  visit,          \* what the browser asked for
  held,           \* the transaction item the visit has read or will write
  registered,     \* history: the clients that registered
  began,          \* history: browser and client of a transaction, or Null
  approvals,      \* history: approvals stored per transaction
  approvers,      \* history: the browsers they came from
  issued,         \* history: transaction and browser a code was issued for
  denied          \* history: denied with no other visit under way

browserState == <<cookie, transactions, at, visit, held>>
trail == <<registered, began, approvals, approvers, issued, denied>>
flow == <<browserState, trail>>

TransactionValue == [client: Clients, browser: Transactions,
                     consented: BOOLEAN, expiresAt: Nat]
TransactionItem == [value: TransactionValue, ttl: Nat]

\* `sent` is the cookie value the browser sent with the request, or Null.
Visit == [page: {"authorize", "approve", "deny", "callback"}, browser: Browsers,
          sent: Transactions \union {Null}, client: Clients \union {Null},
          txn: Transactions \union {Null}, code: Codes \union {Null}]

VisitCalls == {"idle", "getClient", "putTransaction", "getTransaction",
               "deleteTransaction", "putConsent", "takeTransaction",
               "exchangeCode", "putCode"}

Cookie == [value: Transactions, until: Nat]
Beginning == [browser: Browsers, client: Clients]
Issue == [txn: Transactions, browser: Browsers]

ASSUME FlowNullAssumption ==
  /\ Null \notin TransactionValue /\ Null \notin TransactionItem
  /\ Null \notin Visit /\ Null \notin Clients \union Codes
  /\ Null \notin Beginning /\ Null \notin Issue

FlowInit ==
  /\ clock = 0
  /\ clientTtl = [c \in Clients |-> 0]
  /\ codeTtl = [k \in Codes |-> 0]
  /\ grants = [g \in Grants |-> Null]
  /\ session = [g \in Grants |-> [active |-> TRUE, token |-> 0]]
  /\ pc = [r \in Requests |-> "idle"]
  /\ job = [r \in Requests |-> Null]
  /\ seen = [r \in Requests |-> Null]
  /\ item = [r \in Requests |-> Null]
  /\ answer = [r \in Requests |-> 0]
  /\ takes = [k \in Codes |-> 0]
  /\ origin = [g \in Grants |-> Null]
  /\ handed = [g \in Grants |-> {}]
  /\ accessUntil = [g \in Grants |-> 0]
  /\ cookie = [b \in Browsers |-> Null]
  /\ transactions = [t \in Transactions |-> Null]
  /\ at = [v \in Visits |-> "idle"]
  /\ visit = [v \in Visits |-> Null]
  /\ held = [v \in Visits |-> Null]
  /\ registered = {}
  /\ began = [t \in Transactions |-> Null]
  /\ approvals = [t \in Transactions |-> 0]
  /\ approvers = [t \in Transactions |-> {}]
  /\ issued = [k \in Codes |-> Null]
  /\ denied = [t \in Transactions |-> FALSE]

-----------------------------------------------------------------------------
(* Visits                                                                  *)

\* The cookie a browser sends: absent once its maxAge has passed.
LiveCookie(b) ==
  IF cookie[b] # Null /\ cookie[b].until > clock THEN cookie[b].value ELSE Null

Open(v, page, b, c, t, call) ==
  /\ at[v] = "idle"
  /\ at' = [at EXCEPT ![v] = call]
  /\ visit' = [visit EXCEPT ![v] =
       [page |-> page, browser |-> b, sent |-> LiveCookie(b), client |-> c,
        txn |-> t, code |-> Null]]
  /\ UNCHANGED <<held, cookie, transactions, codeTtl, clientTtl>>

\* The response is sent, or the environment is lost.
Leave(v) ==
  /\ at' = [at EXCEPT ![v] = "idle"]
  /\ visit' = [visit EXCEPT ![v] = Null]
  /\ held' = [held EXCEPT ![v] = Null]

GoOn(v, call) == at' = [at EXCEPT ![v] = call]

\* Slip: any browser will do.
AnyBrowser(v, value) == TRUE

IsSameBrowser(v, value) == visit[v].sent # Null /\ visit[v].sent = value.browser

-----------------------------------------------------------------------------
(* /oauth/register and /oauth/authorize                                    *)

Register(c) ==
  /\ c \notin registered
  /\ clientTtl' = [clientTtl EXCEPT ![c] = TtlOf(clock, UnusedClientTtl)]
  /\ registered' = registered \union {c}
  /\ UNCHANGED <<codeTtl, browserState, began, approvals, approvers,
                 issued, denied>>

OpenAuthorize(v) ==
  /\ \E b \in Browsers, c \in registered :
       Open(v, "authorize", b, c, Null, "getClient")
  /\ UNCHANGED trail

\* A request whose redirect_uri, response_type, resource or code_challenge is
\* refused ends here, as does one of an unknown client.
BeginTransaction(v) ==
  LET c == visit[v].client IN
  /\ at[v] = "getClient"
  /\ \/ /\ Leave(v)
        /\ UNCHANGED began
     \/ /\ Readable(clientTtl[c], clock)
        /\ \E t \in Transactions :
             /\ began[t] = Null
             /\ began' = [began EXCEPT ![t] =
                  [browser |-> visit[v].browser, client |-> c]]
             /\ visit' = [visit EXCEPT ![v].txn = t]
             /\ held' = [held EXCEPT ![v] =
                  [value |-> [client |-> c,
                              browser |-> IF visit[v].sent = Null
                                          THEN t ELSE visit[v].sent,
                              consented |-> FALSE,
                              expiresAt |-> clock + TransactionTtl],
                   ttl |-> TtlOf(clock, TransactionTtl)]]
             /\ GoOn(v, "putTransaction")
  /\ UNCHANGED <<clientTtl, codeTtl, cookie, transactions, registered,
                 approvals, approvers, issued, denied>>

\* The consent page is sent with the cookie; the page may get lost.
PutTransaction(v) ==
  LET b == visit[v].browser IN
  /\ at[v] = "putTransaction"
  /\ transactions' = [transactions EXCEPT ![visit[v].txn] = held[v]]
  /\ \/ cookie' = [cookie EXCEPT ![b] =
          [value |-> held[v].value.browser, until |-> clock + TransactionTtl]]
     \/ UNCHANGED cookie
  /\ Leave(v)
  /\ UNCHANGED <<clientTtl, codeTtl, trail>>

-----------------------------------------------------------------------------
(* /oauth/consent                                                          *)

\* Approvals of t under way.
Approving(t) ==
  {u \in Visits : visit[u] # Null /\ visit[u].page = "approve" /\ visit[u].txn = t}

OpenConsent(v) ==
  \E b \in Browsers, t \in Transactions, page \in {"approve", "deny"} :
    /\ began[t] # Null
    /\ page = "approve" => approvals[t] + Cardinality(Approving(t)) < MaxApprovals
    /\ Open(v, page, b, Null, t, "getTransaction")
    /\ UNCHANGED trail

\* What approving writes: its ttl is at least a second, however little is left.
Approved(found) ==
  LET left == RemainingSeconds(found.value.expiresAt) IN
  [value |-> [found.value EXCEPT !.consented = TRUE],
   ttl |-> TtlOf(clock, IF left > TicksPerSecond THEN left ELSE TicksPerSecond)]

GetTransaction(v) ==
  LET found == transactions[visit[v].txn] IN
  /\ at[v] = "getTransaction"
  /\ IF ~Visible(found, clock) \/ ~IsSameBrowser(v, found.value)
     THEN Leave(v)
     ELSE /\ GoOn(v, IF visit[v].page = "deny" THEN "deleteTransaction"
                     ELSE "putConsent")
          /\ held' = [held EXCEPT ![v] = Approved(found)]
          /\ UNCHANGED visit
  /\ UNCHANGED <<clientTtl, codeTtl, cookie, transactions, trail>>

\* Other visits of the transaction that still have a write to make.
UnderWay(v) ==
  {u \in Visits \ {v} : visit[u] # Null /\ visit[u].txn = visit[v].txn
      /\ at[u] \in {"putTransaction", "putConsent"}}

\* Slip: a denied request is put back as not consented.
WithdrawConsent(v) ==
  [transactions EXCEPT ![visit[v].txn] =
     [held[v] EXCEPT !.value.consented = FALSE]]

RemoveTransaction(v) == [transactions EXCEPT ![visit[v].txn] = Null]

DeleteTransaction(v) ==
  /\ at[v] = "deleteTransaction"
  /\ transactions' = RemoveTransaction(v)
  /\ denied' = [denied EXCEPT ![visit[v].txn] = @ \/ UnderWay(v) = {}]
  /\ Leave(v)
  /\ UNCHANGED <<clientTtl, codeTtl, cookie, registered, began,
                 approvals, approvers, issued>>

\* The item is put without a condition: it may have been taken or deleted
\* since it was read.
PutConsent(v) ==
  LET t == visit[v].txn IN
  /\ at[v] = "putConsent"
  /\ transactions' = [transactions EXCEPT ![t] = held[v]]
  /\ approvals' = [approvals EXCEPT ![t] = @ + 1]
  /\ approvers' = [approvers EXCEPT ![t] = @ \union {visit[v].browser}]
  /\ Leave(v)
  /\ UNCHANGED <<clientTtl, codeTtl, cookie, registered, began, issued,
                 denied>>

-----------------------------------------------------------------------------
(* /oauth/callback                                                         *)

OpenCallback(v) ==
  /\ \E b \in Browsers, t \in Transactions :
       began[t] # Null /\ Open(v, "callback", b, Null, t, "takeTransaction")
  /\ UNCHANGED trail

\* Slip: the callback reads the transaction and leaves it.
PeekTransaction(t) == transactions

SpendTransaction(t) == [transactions EXCEPT ![t] = Null]

\* Taken before anything is checked.  Without a login the visit ends here.
TakeTransaction(v) ==
  LET found == transactions[visit[v].txn] IN
  /\ at[v] = "takeTransaction"
  /\ transactions' = SpendTransaction(visit[v].txn)
  /\ \/ Leave(v)
     \/ /\ Visible(found, clock)
        /\ found.value.consented
        /\ IsSameBrowser(v, found.value)
        /\ held' = [held EXCEPT ![v] = found]
        /\ GoOn(v, "exchangeCode")
        /\ UNCHANGED visit
  /\ UNCHANGED <<clientTtl, codeTtl, cookie, trail>>

\* Cognito accepts the login's code or the visit ends with server_error.
CognitoExchanges(v) ==
  /\ at[v] = "exchangeCode"
  /\ \/ Leave(v) /\ UNCHANGED issued
     \/ \E k \in Codes :
          /\ issued[k] = Null
          /\ CodeClient[k] = held[v].value.client
          /\ issued' = [issued EXCEPT ![k] =
               [txn |-> visit[v].txn, browser |-> visit[v].browser]]
          /\ visit' = [visit EXCEPT ![v].code = k]
          /\ held' = [held EXCEPT ![v].ttl = TtlOf(clock, CodeTtl)]
          /\ GoOn(v, "putCode")
  /\ UNCHANGED <<clientTtl, codeTtl, cookie, transactions, registered, began,
                 approvals, approvers, denied>>

PutCode(v) ==
  /\ at[v] = "putCode"
  /\ codeTtl' = [codeTtl EXCEPT ![visit[v].code] = held[v].ttl]
  /\ Leave(v)
  /\ UNCHANGED <<clientTtl, cookie, transactions, trail>>

\* The environment is lost, or the request times out, between two calls.
Abandon(v) ==
  /\ at[v] # "idle"
  /\ Leave(v)
  /\ UNCHANGED <<clientTtl, codeTtl, cookie, transactions, trail>>

-----------------------------------------------------------------------------
(* The composition: steps of the browser half leave clock, grants and      *)
(* token requests alone; the exchange leaves visits and transactions alone.*)

FlowStep ==
  /\ \/ \E c \in Clients : Register(c)
     \/ \E v \in Visits :
          \/ OpenAuthorize(v) \/ BeginTransaction(v) \/ PutTransaction(v)
          \/ OpenConsent(v) \/ GetTransaction(v) \/ DeleteTransaction(v)
          \/ PutConsent(v)
          \/ OpenCallback(v) \/ TakeTransaction(v) \/ CognitoExchanges(v)
          \/ PutCode(v) \/ Abandon(v)
  /\ UNCHANGED <<clock, grants, session, request, history>>

\* Nobody presents a code the callback has not drawn.
KnownCode ==
  \A r \in Requests : pc'[r] = "getClient" => issued[job'[r].code] # Null

ExchangeStep ==
  /\ \/ \E r \in Requests : GetClient(r) \/ Exchange(r) \/ Crash(r)
     \/ Tick
  /\ KnownCode
  /\ UNCHANGED flow

FlowNext == FlowStep \/ ExchangeStep

FlowSpec == FlowInit /\ [][FlowNext]_<<vars, flow>>

-----------------------------------------------------------------------------
(* Properties                                                              *)

FlowTypeOK ==
  /\ TypeOK
  /\ cookie \in [Browsers -> Cookie \union {Null}]
  /\ transactions \in [Transactions -> TransactionItem \union {Null}]
  /\ at \in [Visits -> VisitCalls]
  /\ visit \in [Visits -> Visit \union {Null}]
  /\ held \in [Visits -> TransactionItem \union {Null}]
  /\ registered \subseteq Clients
  /\ began \in [Transactions -> Beginning \union {Null}]
  /\ approvals \in [Transactions -> Nat]
  /\ approvers \in [Transactions -> SUBSET Browsers]
  /\ issued \in [Codes -> Issue \union {Null}]
  /\ denied \in [Transactions -> BOOLEAN]

\* A grant exists only for a client whose request was begun, approved and
\* brought back from the login in one and the same browser, whatever pages
\* other browsers opened with the transaction's id and however the exchange
\* was timed (the guarantees at index.ts:41, 241-243, 631, 672).
GrantFromOneBrowser ==
  \A g \in Grants : origin[g] # Null =>
    LET code == issued[origin[g].code] IN
    /\ code # Null
    /\ began[code.txn].browser = code.browser
    /\ code.browser \in approvers[code.txn]
    /\ grants[g] # Null => grants[g].value.client = began[code.txn].client

\* The user's approvals bound the codes: a form posted twice may bring a
\* taken transaction back (index.ts:647-651), but every code still uses up an
\* approval of its own (take at index.ts:663).
OneCodePerApproval ==
  \A t \in Transactions :
    Cardinality({k \in Codes : issued[k] # Null /\ issued[k].txn = t})
      <= approvals[t]

\* A denial is final unless an approval was already on its way to the store
\* when it was carried out (index.ts:634-643).
DenialIsFinal ==
  \A t \in Transactions : denied[t] => transactions[t] = Null
=============================================================================
