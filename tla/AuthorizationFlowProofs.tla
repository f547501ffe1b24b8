----------------------- MODULE AuthorizationFlowProofs -----------------------
(***************************************************************************)
(* Proofs about AuthorizationFlow for any browsers, transactions, visits,  *)
(* codes, grants, requests and durations, with any number of approvals.    *)
(*                                                                         *)
(* The invariant follows the chain the guarantees hang on: a cookie value  *)
(* belongs to the browser that was first given it, an item of the store    *)
(* binds its transaction to such a value, a visit goes on only with the    *)
(* value of the item, and what it writes afterwards is about the browser   *)
(* and the client of the transaction.  The exchange adds that a request is *)
(* for a code that was issued and its grant for the client of the code;    *)
(* the invariant of TokenEndpoint is kept by the composition too.          *)
(***************************************************************************)
EXTENDS AuthorizationFlow, TokenEndpointProofs, FiniteSetTheorems

-----------------------------------------------------------------------------
(* The inductive invariant *)

\* The cookie value c was drawn for browser b.
Owned(b, c) == began[c] # Null /\ began[c].browser = b

\* x is a transaction item of t.
ItemOf(t, x) ==
  /\ x \in TransactionItem
  /\ began[t] # Null
  /\ x.value.client = began[t].client
  /\ Owned(began[t].browser, x.value.browser)

ApprovedAtHome(t) == began[t].browser \in approvers[t]

CookiesKept ==
  \A b \in Browsers : cookie[b] # Null => Owned(b, cookie[b].value)

TransactionKept(t) ==
  transactions[t] # Null =>
    /\ ItemOf(t, transactions[t])
    /\ transactions[t].value.consented => ApprovedAtHome(t)

IssueKept(k) ==
  issued[k] # Null =>
    LET t == issued[k].txn IN
    /\ began[t] # Null
    /\ issued[k].browser = began[t].browser
    /\ CodeClient[k] = began[t].client
    /\ ApprovedAtHome(t)

\* The visit is made by the browser that began the transaction, and holds an
\* item of it.
AtHome(v) ==
  /\ visit[v].browser = began[visit[v].txn].browser
  /\ ItemOf(visit[v].txn, held[v])

VisitKept(v) ==
  /\ at[v] # "idle" =>
       /\ visit[v] \in Visit
       /\ visit[v].sent # Null => Owned(visit[v].browser, visit[v].sent)
  /\ at[v] = "getClient" => visit[v].client # Null
  /\ at[v] \notin {"idle", "getClient"} =>
       visit[v].txn # Null /\ began[visit[v].txn] # Null
  /\ at[v] \in {"putTransaction", "putConsent", "exchangeCode"} => AtHome(v)
  /\ at[v] = "putTransaction" => ~held[v].value.consented
  /\ at[v] = "exchangeCode" => ApprovedAtHome(visit[v].txn)
  /\ at[v] = "putCode" =>
       /\ held[v] # Null
       /\ visit[v].code # Null /\ issued[visit[v].code] # Null

BindingInv ==
  /\ CookiesKept
  /\ \A t \in Transactions : TransactionKept(t)
  /\ \A k \in Codes : IssueKept(k)
  /\ \A v \in Visits : VisitKept(v)

\* Nobody who might write the transaction again is left.
DenialKept(t) ==
  denied[t] =>
    /\ transactions[t] = Null
    /\ began[t] # Null
    /\ \A v \in Visits :
         at[v] \in {"putTransaction", "putConsent"} => visit[v].txn # t

\* Every approval of t is worth one code: issued, about to be, or to come.
CodesOf(t) == {k \in Codes : issued[k] # Null /\ issued[k].txn = t}
ExchangingFor(t) == {v \in Visits : at[v] = "exchangeCode" /\ visit[v].txn = t}
Consent(t) ==
  IF transactions[t] # Null /\ transactions[t].value.consented THEN 1 ELSE 0

ApprovalsKept(t) ==
  /\ IsFiniteSet(CodesOf(t)) /\ IsFiniteSet(ExchangingFor(t))
  /\ Cardinality(CodesOf(t)) + Cardinality(ExchangingFor(t)) + Consent(t)
       <= approvals[t]

\* A code that the callback has not put yet is not in the store, and nobody
\* has found it.
Unput(k) ==
  \/ issued[k] = Null
  \/ \E v \in Visits : at[v] = "putCode" /\ visit[v].code = k

CodesKept ==
  /\ \A k \in Codes : Unput(k) => codeTtl[k] = 0 /\ takes[k] = 0
  /\ \A u, v \in Visits :
       at[u] = "putCode" /\ at[v] = "putCode" /\ visit[u].code = visit[v].code
         => u = v

\* The exchange: its code was issued and its grant is for the code's client.
RequestKept(r) ==
  /\ pc[r] # "idle" => job[r] \in ExchangeJob /\ issued[job[r].code] # Null
  /\ pc[r] = "putGrant" =>
       /\ origin[job[r].grant] # Null
       /\ item[r].value.client = CodeClient[origin[job[r].grant].code]

GrantKept(g) ==
  /\ origin[g] # Null => issued[origin[g].code] # Null
  /\ grants[g] # Null =>
       /\ origin[g] # Null
       /\ grants[g].value.client = CodeClient[origin[g].code]

ExchangeKept ==
  /\ \A r \in Requests : RequestKept(r)
  /\ \A g \in Grants : GrantKept(g)

FlowInv ==
  /\ FlowTypeOK /\ Inv /\ BindingInv /\ CodesKept /\ ExchangeKept
  /\ \A t \in Transactions : DenialKept(t) /\ ApprovalsKept(t)

-----------------------------------------------------------------------------
(* What grows stays                                                        *)

\* A transaction is begun once, an approval is not taken back and a code is
\* issued once.
TrailGrows ==
  /\ \A t \in Transactions : began[t] # Null => began'[t] = began[t]
  /\ \A t \in Transactions : approvers[t] \subseteq approvers'[t]
  /\ \A k \in Codes : issued[k] # Null => issued'[k] = issued[k]

LEMMA ItemShape ==
  ASSUME NEW x \in TransactionItem
  PROVE  /\ x # Null /\ x.value \in TransactionValue /\ x.ttl \in Nat
         /\ x.value.client \in Clients /\ x.value.browser \in Transactions
         /\ x.value.consented \in BOOLEAN /\ x.value.expiresAt \in Nat
BY FlowNullAssumption DEF TransactionItem, TransactionValue

LEMMA OwnedStays ==
  ASSUME TrailGrows, NEW b, NEW c \in Transactions, Owned(b, c)
  PROVE  began'[c] # Null /\ began'[c].browser = b
BY DEF TrailGrows, Owned

LEMMA ItemStays ==
  ASSUME TrailGrows, NEW t \in Transactions, NEW x, ItemOf(t, x)
  PROVE  /\ began'[t] = began[t] /\ began'[t] # Null
         /\ x.value.client = began'[t].client
         /\ began'[x.value.browser] # Null
         /\ began'[x.value.browser].browser = began'[t].browser
BY ItemShape DEF TrailGrows, Owned, ItemOf

LEMMA VisitTyped ==
  ASSUME FlowInv, NEW v \in Visits, at[v] # "idle"
  PROVE  /\ visit[v] \in Visit /\ visit[v] # Null
         /\ visit[v].browser \in Browsers
         /\ visit[v].sent \in Transactions \union {Null}
         /\ visit[v].client \in Clients \union {Null}
         /\ visit[v].txn \in Transactions \union {Null}
         /\ visit[v].code \in Codes \union {Null}
         /\ at[v] # "getClient" => visit[v].txn \in Transactions
         /\ at[v] = "putCode" => visit[v].code \in Codes
BY FlowNullAssumption DEF FlowInv, BindingInv, VisitKept, Visit

LEMMA VisitStays ==
  ASSUME FlowInv, TrailGrows, NEW v \in Visits,
         at'[v] = at[v], visit'[v] = visit[v], held'[v] = held[v]
  PROVE  VisitKept(v)'
<1>1. VisitKept(v)
  BY DEF FlowInv, BindingInv
<1>2. CASE at[v] = "idle"
  BY <1>2 DEF VisitKept
<1>3. CASE at[v] # "idle"
  <2>1. /\ visit[v].txn \in Transactions \union {Null}
        /\ at[v] # "getClient" => visit[v].txn \in Transactions
        /\ visit[v].sent \in Transactions \union {Null}
        /\ visit[v].code \in Codes \union {Null}
    BY <1>3, VisitTyped
  <2>2. visit[v].sent # Null => Owned(visit[v].browser, visit[v].sent)'
    <3>1. visit[v].sent # Null =>
            began'[visit[v].sent] # Null
            /\ began'[visit[v].sent].browser = visit[v].browser
      BY <1>1, <1>3, <2>1, OwnedStays DEF VisitKept
    <3> QED
      BY <3>1 DEF Owned
  <2>3. at[v] \in {"putTransaction", "putConsent", "exchangeCode"} => AtHome(v)'
    <3>1. SUFFICES ASSUME at[v] \in {"putTransaction", "putConsent", "exchangeCode"}
                   PROVE  AtHome(v)'
      OBVIOUS
    <3>2. AtHome(v) /\ visit[v].txn \in Transactions
      BY <1>1, <2>1, <3>1 DEF VisitKept
    <3>3. /\ began'[visit[v].txn] = began[visit[v].txn] /\ began'[visit[v].txn] # Null
          /\ held[v].value.client = began'[visit[v].txn].client
          /\ began'[held[v].value.browser] # Null
          /\ began'[held[v].value.browser].browser = began'[visit[v].txn].browser
      BY <3>2, ItemStays DEF AtHome
    <3> QED
      BY <3>2, <3>3 DEF AtHome, ItemOf, Owned
  <2>4. at[v] \notin {"idle", "getClient"} =>
          began'[visit[v].txn] = began[visit[v].txn]
          /\ began[visit[v].txn] # Null
    BY <1>1, <2>1 DEF VisitKept, TrailGrows
  <2>5. at[v] = "exchangeCode" => ApprovedAtHome(visit[v].txn)'
    BY <1>1, <2>1, <2>4 DEF VisitKept, ApprovedAtHome, TrailGrows
  <2>6. at[v] = "putCode" => issued'[visit[v].code] # Null
    BY <1>1, <2>1 DEF VisitKept, TrailGrows
  <2> QED
    BY <1>1, <2>2, <2>3, <2>4, <2>5, <2>6 DEF VisitKept
<1> QED
  BY <1>2, <1>3

LEMMA IssueStays ==
  ASSUME FlowInv, TrailGrows, NEW k \in Codes, issued'[k] = issued[k]
  PROVE  IssueKept(k)'
<1>1. IssueKept(k) /\ issued[k] \in Issue \union {Null}
  BY DEF FlowInv, BindingInv, FlowTypeOK
<1>2. issued[k] # Null => issued[k].txn \in Transactions
  BY <1>1 DEF Issue
<1> QED
  BY <1>1, <1>2 DEF IssueKept, ApprovedAtHome, TrailGrows

LEMMA TransactionStays ==
  ASSUME FlowInv, TrailGrows, NEW t \in Transactions,
         transactions'[t] \in {transactions[t], Null}
  PROVE  TransactionKept(t)'
<1>1. TransactionKept(t)
  BY DEF FlowInv, BindingInv
<1>2. CASE transactions'[t] = Null
  BY <1>2 DEF TransactionKept
<1>3. CASE transactions[t] # Null /\ transactions'[t] = transactions[t]
  <2>1. ItemOf(t, transactions[t])
    BY <1>1, <1>3 DEF TransactionKept
  <2>2. /\ began'[t] = began[t] /\ began'[t] # Null
        /\ transactions[t].value.client = began'[t].client
        /\ began'[transactions[t].value.browser] # Null
        /\ began'[transactions[t].value.browser].browser = began'[t].browser
    BY <2>1, ItemStays
  <2>3. ItemOf(t, transactions[t])'
    BY <1>3, <2>1, <2>2 DEF ItemOf, Owned
  <2>4. transactions[t].value.consented => ApprovedAtHome(t)'
    BY <1>1, <1>3, <2>2 DEF TransactionKept, ApprovedAtHome, TrailGrows
  <2> QED
    BY <1>3, <2>3, <2>4 DEF TransactionKept
<1> QED
  BY <1>2, <1>3

LEMMA CookiesStay ==
  ASSUME FlowInv, TrailGrows, cookie' = cookie
  PROVE  CookiesKept'
<1>1. \A b \in Browsers : cookie[b] # Null => cookie[b].value \in Transactions
  BY DEF FlowInv, FlowTypeOK, Cookie
<1>2. \A b \in Browsers : cookie[b] # Null =>
        began'[cookie[b].value] # Null /\ began'[cookie[b].value].browser = b
  BY <1>1, OwnedStays DEF FlowInv, BindingInv, CookiesKept
<1> QED
  BY <1>2 DEF CookiesKept, Owned

-----------------------------------------------------------------------------
(* Steps of the browser half: what they leave alone                        *)

TokensAlone == UNCHANGED <<clock, grants, session, request, history>>

\* Items of codes change only while nobody has found them.
LEMMA StoreStep ==
  ASSUME Inv, TokensAlone,
         clientTtl' \in [Clients -> Nat], codeTtl' \in [Codes -> Nat],
         \A k \in Codes : takes[k] # 0 => codeTtl'[k] = codeTtl[k]
  PROVE  Inv' /\ TypeOK'
<1>1. UNCHANGED <<clock, grants, session, pc, job, seen, item, answer,
                  takes, origin, handed, accessUntil>>
  BY DEF TokensAlone, request, history
<1>2. TypeOK'
  BY <1>1 DEF Inv, TypeInv, TypeOK
<1>3. \A r \in Requests : RequestShape(r)'
  BY <1>1 DEF Inv, TypeInv, RequestShape
<1>4. CodeInv'
  BY <1>1 DEF Inv, CodeInv, CodeSpentOnce
<1>5. \A g \in Grants : GrantInv(g)'
  BY <1>1 DEF Inv, GrantInv
<1>6. \A r \in Requests : RefreshInv(r)' /\ ExchangeInv(r)'
  BY <1>1 DEF Inv, RefreshInv, ExchangeInv
<1> QED
  BY <1>2, <1>3, <1>4, <1>5, <1>6 DEF Inv, TypeInv

LEMMA ExchangeStays ==
  ASSUME FlowInv, TokensAlone, TrailGrows
  PROVE  ExchangeKept'
<1>1. UNCHANGED <<grants, pc, job, item, origin>>
  BY DEF TokensAlone, request, history
<1>2. \A r \in Requests : RequestKept(r)'
  <2>1. SUFFICES ASSUME NEW r \in Requests
                 PROVE  RequestKept(r)'
    OBVIOUS
  <2>2. RequestKept(r)
    BY DEF FlowInv, ExchangeKept
  <2>3. pc[r] # "idle" => job[r].code \in Codes
    BY <2>2 DEF RequestKept, ExchangeJob
  <2> QED
    BY <1>1, <2>2, <2>3 DEF RequestKept, TrailGrows
<1>3. \A g \in Grants : GrantKept(g)'
  <2>1. SUFFICES ASSUME NEW g \in Grants
                 PROVE  GrantKept(g)'
    OBVIOUS
  <2>2. GrantKept(g) /\ (origin[g] # Null => origin[g].code \in Codes)
    BY DEF FlowInv, ExchangeKept, FlowTypeOK, TypeOK, Origin
  <2> QED
    BY <1>1, <2>2 DEF GrantKept, TrailGrows
<1> QED
  BY <1>2, <1>3 DEF ExchangeKept

\* Codes and their items do not change, and no visit comes to put one.
LEMMA CodesStay ==
  ASSUME FlowInv, UNCHANGED <<issued, codeTtl, takes>>,
         \A v \in Visits : at'[v] = "putCode" =>
           at[v] = "putCode" /\ visit'[v] = visit[v]
  PROVE  CodesKept'
<1>1. \A k \in Codes : Unput(k)' => Unput(k)
  BY DEF Unput
<1> QED
  BY <1>1 DEF FlowInv, CodesKept

LEMMA DenialStays ==
  ASSUME FlowInv, TrailGrows, NEW t \in Transactions, denied'[t] = denied[t],
         transactions'[t] \in {transactions[t], Null},
         \A v \in Visits : at'[v] \in {"putTransaction", "putConsent"} =>
           \/ visit'[v].txn # t
           \/ at[v] \in {"putTransaction", "putConsent"} /\ visit'[v] = visit[v]
  PROVE  DenialKept(t)'
<1>1. DenialKept(t)
  BY DEF FlowInv
<1>2. CASE ~denied[t]
  BY <1>2 DEF DenialKept
<1>3. CASE denied[t]
  <2>1. transactions'[t] = Null /\ began[t] # Null /\ began'[t] = began[t]
    BY <1>1, <1>3 DEF DenialKept, TrailGrows
  <2>2. ASSUME NEW v \in Visits, at'[v] \in {"putTransaction", "putConsent"}
        PROVE  visit'[v].txn # t
    BY <1>1, <1>3, <2>2 DEF DenialKept
  <2> QED
    BY <2>1, <2>2 DEF DenialKept
<1> QED
  BY <1>2, <1>3

\* No code is issued, no visit comes to exchange one and no consent is stored.
LEMMA ApprovalsStay ==
  ASSUME FlowInv, NEW t \in Transactions,
         issued' = issued, approvals'[t] = approvals[t],
         \/ transactions'[t] \in {transactions[t], Null}
         \/ ~transactions'[t].value.consented,
         \A v \in Visits : at'[v] = "exchangeCode" =>
           at[v] = "exchangeCode" /\ visit'[v] = visit[v]
  PROVE  ApprovalsKept(t)'
<1>1. ApprovalsKept(t) /\ approvals[t] \in Nat
  BY DEF FlowInv, FlowTypeOK
<1>2. CodesOf(t)' = CodesOf(t)
  BY DEF CodesOf
<1>3. ExchangingFor(t)' \subseteq ExchangingFor(t)
  BY DEF ExchangingFor
<1>4. /\ IsFiniteSet(ExchangingFor(t)')
      /\ Cardinality(ExchangingFor(t)') <= Cardinality(ExchangingFor(t))
  BY <1>1, <1>3, FS_Subset DEF ApprovalsKept
<1>5. /\ Cardinality(ExchangingFor(t)) \in Nat
      /\ Cardinality(ExchangingFor(t)') \in Nat
      /\ Cardinality(CodesOf(t)) \in Nat
  BY <1>1, <1>4, FS_CardinalityType DEF ApprovalsKept
<1>6. Consent(t)' <= Consent(t) /\ Consent(t) \in Nat /\ Consent(t)' \in Nat
  BY DEF Consent
<1>7. /\ IsFiniteSet(CodesOf(t)')
      /\ Cardinality(CodesOf(t)') = Cardinality(CodesOf(t))
  BY <1>1, <1>2 DEF ApprovalsKept
<1>8. Cardinality(CodesOf(t)) + Cardinality(ExchangingFor(t)) + Consent(t)
        <= approvals[t]
  BY <1>1 DEF ApprovalsKept
<1>9. Cardinality(CodesOf(t)') + Cardinality(ExchangingFor(t)') + Consent(t)'
        <= approvals'[t]
  <2> HIDE DEF Consent, CodesOf, ExchangingFor
  <2> QED
    BY <1>1, <1>4, <1>5, <1>6, <1>7, <1>8
<1> QED
  BY <1>4, <1>7, <1>9 DEF ApprovalsKept

-----------------------------------------------------------------------------
(* Steps of the browser half: the visit                                    *)

\* One visit moves; the others stay what they were.
LEMMA VisitMoves ==
  ASSUME FlowInv, TrailGrows, NEW v \in Visits, NEW call \in VisitCalls,
         NEW asked \in Visit \union {Null}, NEW x \in TransactionItem \union {Null},
         at' = [at EXCEPT ![v] = call],
         visit' = [visit EXCEPT ![v] = asked],
         held' = [held EXCEPT ![v] = x]
  PROVE  /\ at' \in [Visits -> VisitCalls]
         /\ visit' \in [Visits -> Visit \union {Null}]
         /\ held' \in [Visits -> TransactionItem \union {Null}]
         /\ at'[v] = call /\ visit'[v] = asked /\ held'[v] = x
         /\ \A u \in Visits \ {v} :
              at'[u] = at[u] /\ visit'[u] = visit[u] /\ held'[u] = held[u]
         /\ \A u \in Visits \ {v} : VisitKept(u)'
<1>1. /\ at \in [Visits -> VisitCalls]
      /\ visit \in [Visits -> Visit \union {Null}]
      /\ held \in [Visits -> TransactionItem \union {Null}]
  BY DEF FlowInv, FlowTypeOK
<1>2. /\ at' \in [Visits -> VisitCalls]
      /\ visit' \in [Visits -> Visit \union {Null}]
      /\ held' \in [Visits -> TransactionItem \union {Null}]
      /\ at'[v] = call /\ visit'[v] = asked /\ held'[v] = x
      /\ \A u \in Visits \ {v} :
           at'[u] = at[u] /\ visit'[u] = visit[u] /\ held'[u] = held[u]
  BY <1>1
<1>3. \A u \in Visits \ {v} : VisitKept(u)'
  BY <1>2, VisitStays
<1> QED
  BY <1>2, <1>3

LEMMA VisitLeaves ==
  ASSUME FlowInv, TrailGrows, NEW v \in Visits, Leave(v)
  PROVE  /\ at' \in [Visits -> VisitCalls]
         /\ visit' \in [Visits -> Visit \union {Null}]
         /\ held' \in [Visits -> TransactionItem \union {Null}]
         /\ at'[v] = "idle"
         /\ \A u \in Visits \ {v} :
              at'[u] = at[u] /\ visit'[u] = visit[u] /\ held'[u] = held[u]
         /\ \A u \in Visits : VisitKept(u)'
<1>1. "idle" \in VisitCalls
  BY DEF VisitCalls
<1>2. /\ at' \in [Visits -> VisitCalls]
      /\ visit' \in [Visits -> Visit \union {Null}]
      /\ held' \in [Visits -> TransactionItem \union {Null}]
      /\ at'[v] = "idle"
      /\ \A u \in Visits \ {v} :
           at'[u] = at[u] /\ visit'[u] = visit[u] /\ held'[u] = held[u]
      /\ \A u \in Visits \ {v} : VisitKept(u)'
  BY <1>1, VisitMoves DEF Leave
<1>3. VisitKept(v)'
  BY <1>2 DEF VisitKept
<1> QED
  BY <1>2, <1>3

-----------------------------------------------------------------------------
(* Steps of the browser half: no visit moves, or one goes or leaves        *)

LEMMA RegisterKeepsInv ==
  ASSUME FlowInv, TokensAlone, NEW c \in Clients, Register(c)
  PROVE  FlowInv'
<1>1. TrailGrows
  BY DEF Register, TrailGrows
<1>2. UNCHANGED <<codeTtl, cookie, transactions, at, visit, held, began,
                  approvals, approvers, issued, denied, takes>>
  BY DEF Register, browserState, TokensAlone, history
<1>3. TtlOf(clock, UnusedClientTtl) \in Nat
  BY TtlBounds, ConstantsAssumption DEF FlowInv, FlowTypeOK, TypeOK
<1>4. Inv' /\ TypeOK'
  BY <1>2, <1>3, StoreStep DEF Register, FlowInv, FlowTypeOK, TypeOK
<1>5. FlowTypeOK'
  BY <1>2, <1>4 DEF Register, FlowInv, FlowTypeOK
<1>6. BindingInv'
  BY <1>1, <1>2, CookiesStay, TransactionStays, IssueStays, VisitStays
  DEF BindingInv
<1>7. CodesKept'
  BY <1>2, CodesStay
<1>8. ExchangeKept'
  BY <1>1, ExchangeStays
<1>9. \A t \in Transactions : DenialKept(t)' /\ ApprovalsKept(t)'
  BY <1>1, <1>2, DenialStays, ApprovalsStay
<1> QED
  BY <1>4, <1>5, <1>6, <1>7, <1>8, <1>9 DEF FlowInv

\* A visit leaves, and no more than an item or a cookie has changed.
LEMMA LeavingKeepsInv ==
  ASSUME FlowInv, TokensAlone, NEW v \in Visits, Leave(v),
         UNCHANGED <<clientTtl, codeTtl, cookie, trail>>,
         transactions' \in [Transactions -> TransactionItem \union {Null}],
         \A t \in Transactions : transactions'[t] \in {transactions[t], Null}
  PROVE  FlowInv'
<1>1. UNCHANGED <<registered, began, approvals, approvers, issued, denied, takes>>
  BY DEF trail, TokensAlone, history
<1>2. TrailGrows
  BY <1>1 DEF TrailGrows
<1>3. Inv' /\ TypeOK'
  BY StoreStep DEF FlowInv, FlowTypeOK, TypeOK
<1>4. /\ at' \in [Visits -> VisitCalls]
      /\ visit' \in [Visits -> Visit \union {Null}]
      /\ held' \in [Visits -> TransactionItem \union {Null}]
      /\ at'[v] = "idle"
      /\ \A u \in Visits \ {v} :
           at'[u] = at[u] /\ visit'[u] = visit[u] /\ held'[u] = held[u]
      /\ \A u \in Visits : VisitKept(u)'
  BY <1>2, VisitLeaves
<1>5. FlowTypeOK'
  BY <1>1, <1>3, <1>4 DEF FlowInv, FlowTypeOK
<1>6. BindingInv'
  BY <1>1, <1>2, <1>4, CookiesStay, TransactionStays, IssueStays DEF BindingInv
<1>7. \A u \in Visits : at'[u] # "idle" => at'[u] = at[u] /\ visit'[u] = visit[u]
  BY <1>4
<1>8. CodesKept'
  BY <1>1, <1>7, CodesStay
<1>9. ExchangeKept'
  BY <1>2, ExchangeStays
<1>10. \A t \in Transactions : DenialKept(t)' /\ ApprovalsKept(t)'
  BY <1>1, <1>2, <1>7, DenialStays, ApprovalsStay
<1> QED
  BY <1>3, <1>5, <1>6, <1>8, <1>9, <1>10 DEF FlowInv

\* A visit goes to a call that writes neither an item nor a code, or to one
\* that writes the item it was on its way with.
LEMMA GoingKeepsInv ==
  ASSUME FlowInv, TokensAlone, NEW v \in Visits, NEW call \in VisitCalls,
         NEW asked \in Visit \union {Null}, NEW x \in TransactionItem \union {Null},
         at' = [at EXCEPT ![v] = call],
         visit' = [visit EXCEPT ![v] = asked],
         held' = [held EXCEPT ![v] = x],
         UNCHANGED <<clientTtl, codeTtl, cookie, transactions, registered,
                     approvals, approvers, issued, denied>>,
         began' \in [Transactions -> Beginning \union {Null}],
         TrailGrows,
         call \notin {"exchangeCode", "putCode"},
         \A t \in Transactions :
           call \in {"putTransaction", "putConsent"} /\ asked.txn = t => ~denied[t],
         VisitKept(v)'
  PROVE  FlowInv'
<1>1. UNCHANGED takes
  BY DEF TokensAlone, history
<1>3. Inv' /\ TypeOK'
  BY StoreStep DEF FlowInv, FlowTypeOK, TypeOK
<1>4. /\ at' \in [Visits -> VisitCalls]
      /\ visit' \in [Visits -> Visit \union {Null}]
      /\ held' \in [Visits -> TransactionItem \union {Null}]
      /\ at'[v] = call /\ visit'[v] = asked /\ held'[v] = x
      /\ \A u \in Visits \ {v} :
           at'[u] = at[u] /\ visit'[u] = visit[u] /\ held'[u] = held[u]
      /\ \A u \in Visits \ {v} : VisitKept(u)'
  BY VisitMoves
<1>5. FlowTypeOK'
  BY <1>3, <1>4 DEF FlowInv, FlowTypeOK
<1>6. BindingInv'
  BY <1>4, CookiesStay, TransactionStays, IssueStays DEF BindingInv
<1>8. CodesKept'
  BY <1>1, <1>4, CodesStay
<1>9. ExchangeKept'
  BY ExchangeStays
<1>10. \A t \in Transactions : ApprovalsKept(t)'
  BY <1>4, ApprovalsStay
<1>11. ASSUME NEW t \in Transactions
       PROVE  DenialKept(t)'
  <2>1. CASE denied[t]
    BY <1>4, <2>1, DenialStays
  <2>2. CASE ~denied[t]
    BY <2>2 DEF DenialKept
  <2> QED
    BY <2>1, <2>2
<1> QED
  BY <1>3, <1>5, <1>6, <1>8, <1>9, <1>10, <1>11 DEF FlowInv

-----------------------------------------------------------------------------
(* Steps of the browser half: visits are opened, go on and end             *)

LEMMA CookieSent ==
  ASSUME FlowInv, NEW b \in Browsers
  PROVE  /\ LiveCookie(b) \in Transactions \union {Null}
         /\ LiveCookie(b) # Null => Owned(b, LiveCookie(b))
<1>1. cookie[b] # Null => cookie[b].value \in Transactions
  BY DEF FlowInv, FlowTypeOK, Cookie
<1> QED
  BY <1>1 DEF LiveCookie, FlowInv, BindingInv, CookiesKept

LEMMA OpenKeepsInv ==
  ASSUME FlowInv, TokensAlone, UNCHANGED trail,
         NEW v \in Visits, NEW b \in Browsers,
         NEW page \in {"authorize", "approve", "deny", "callback"},
         NEW c \in Clients \union {Null}, NEW t \in Transactions \union {Null},
         NEW call \in {"getClient", "getTransaction", "takeTransaction"},
         call = "getClient" => c # Null,
         call # "getClient" => t # Null /\ began[t] # Null,
         Open(v, page, b, c, t, call)
  PROVE  FlowInv'
<1> DEFINE asked == [page |-> page, browser |-> b, sent |-> LiveCookie(b),
                     client |-> c, txn |-> t, code |-> Null]
<1>1. UNCHANGED <<registered, began, approvals, approvers, issued, denied,
                  held, cookie, transactions, codeTtl, clientTtl>>
  BY DEF trail, Open
<1>2. TrailGrows
  BY <1>1 DEF TrailGrows
<1>3. asked \in Visit
  BY CookieSent DEF Visit
<1>4. call \in VisitCalls
  BY DEF VisitCalls
<1>5. at \in [Visits -> VisitCalls] /\ visit \in [Visits -> Visit \union {Null}]
      /\ held \in [Visits -> TransactionItem \union {Null}]
      /\ began \in [Transactions -> Beginning \union {Null}]
  BY DEF FlowInv, FlowTypeOK
<1>6. /\ at' = [at EXCEPT ![v] = call]
      /\ visit' = [visit EXCEPT ![v] = asked]
      /\ held' = [held EXCEPT ![v] = held[v]]
      /\ held[v] \in TransactionItem \union {Null}
  BY <1>1, <1>5 DEF Open
<1>7. at'[v] = call /\ visit'[v] = asked
  BY <1>5, <1>6
<1>8. asked.sent # Null => began'[asked.sent] # Null
                         /\ began'[asked.sent].browser = asked.browser
  BY <1>1, CookieSent DEF Owned
<1>9. VisitKept(v)'
  BY <1>1, <1>3, <1>7, <1>8 DEF VisitKept, Owned
<1> HIDE DEF asked
<1> QED
  BY <1>1, <1>2, <1>3, <1>4, <1>5, <1>6, <1>9, GoingKeepsInv


LEMMA OpensKeepInv ==
  ASSUME FlowInv, TokensAlone, NEW v \in Visits,
         OpenAuthorize(v) \/ OpenConsent(v) \/ OpenCallback(v)
  PROVE  FlowInv'
<1>1. CASE OpenAuthorize(v)
  <2>1. UNCHANGED trail
    BY <1>1 DEF OpenAuthorize
  <2>2. PICK b \in Browsers, c \in registered :
          Open(v, "authorize", b, c, Null, "getClient")
    BY <1>1 DEF OpenAuthorize
  <2>3. c \in Clients /\ c # Null
    BY FlowNullAssumption DEF FlowInv, FlowTypeOK
  <2> QED
    BY <2>1, <2>2, <2>3, OpenKeepsInv
<1>2. CASE OpenConsent(v)
  <2>1. PICK b \in Browsers, t \in Transactions, page \in {"approve", "deny"} :
          /\ began[t] # Null
          /\ Open(v, page, b, Null, t, "getTransaction")
          /\ UNCHANGED trail
    BY <1>2 DEF OpenConsent
  <2>2. t # Null
    BY FlowAssumption
  <2> QED
    BY <2>1, <2>2, OpenKeepsInv
<1>3. CASE OpenCallback(v)
  <2>1. UNCHANGED trail
    BY <1>3 DEF OpenCallback
  <2>2. PICK b \in Browsers, t \in Transactions :
          began[t] # Null /\ Open(v, "callback", b, Null, t, "takeTransaction")
    BY <1>3 DEF OpenCallback
  <2>3. t # Null
    BY FlowAssumption
  <2> QED
    BY <2>1, <2>2, <2>3, OpenKeepsInv
<1> QED
  BY <1>1, <1>2, <1>3

LEMMA AbandonKeepsInv ==
  ASSUME FlowInv, TokensAlone, NEW v \in Visits, Abandon(v)
  PROVE  FlowInv'
BY LeavingKeepsInv DEF Abandon, FlowInv, FlowTypeOK

LEMMA BeginTransactionKeepsInv ==
  ASSUME FlowInv, TokensAlone, NEW v \in Visits, BeginTransaction(v)
  PROVE  FlowInv'
<1>1. CASE Leave(v) /\ UNCHANGED began
  BY <1>1, LeavingKeepsInv DEF BeginTransaction, trail, FlowInv, FlowTypeOK
<1>2. ASSUME NEW t \in Transactions,
             began[t] = Null,
             began' = [began EXCEPT ![t] =
               [browser |-> visit[v].browser, client |-> visit[v].client]],
             visit' = [visit EXCEPT ![v].txn = t],
             held' = [held EXCEPT ![v] =
               [value |-> [client |-> visit[v].client,
                           browser |-> IF visit[v].sent = Null
                                       THEN t ELSE visit[v].sent,
                           consented |-> FALSE,
                           expiresAt |-> clock + TransactionTtl],
                ttl |-> TtlOf(clock, TransactionTtl)]],
             GoOn(v, "putTransaction")
      PROVE  FlowInv'
  <2> DEFINE owner == IF visit[v].sent = Null THEN t ELSE visit[v].sent
             value == [client |-> visit[v].client, browser |-> owner,
                       consented |-> FALSE, expiresAt |-> clock + TransactionTtl]
             x == [value |-> value, ttl |-> TtlOf(clock, TransactionTtl)]
             asked == [visit[v] EXCEPT !.txn = t]
  <2>1. at[v] = "getClient"
    BY DEF BeginTransaction
  <2>2. /\ visit[v] \in Visit /\ visit[v].browser \in Browsers
        /\ visit[v].sent \in Transactions \union {Null}
        /\ visit[v].client \in Clients
        /\ visit[v].sent # Null => Owned(visit[v].browser, visit[v].sent)
    BY <2>1, VisitTyped DEF FlowInv, BindingInv, VisitKept
  <2>3. /\ at \in [Visits -> VisitCalls] /\ visit \in [Visits -> Visit \union {Null}]
        /\ held \in [Visits -> TransactionItem \union {Null}]
        /\ began \in [Transactions -> Beginning \union {Null}]
        /\ clock \in Nat
    BY DEF FlowInv, FlowTypeOK, TypeOK
  <2>4. x \in TransactionItem
    <3>0. clock \in Nat /\ TransactionTtl \in Nat
      BY <2>3, FlowAssumption
    <3>1. TtlOf(clock, TransactionTtl) \in Nat /\ clock + TransactionTtl \in Nat
      <4> HIDE DEF x
      <4> QED
        BY <3>0, TtlBounds
    <3>2. owner \in Transactions
      BY <2>2
    <3> HIDE DEF owner
    <3>3. value \in TransactionValue
      BY <2>2, <3>1, <3>2 DEF TransactionValue
    <3> HIDE DEF value
    <3> QED
      BY <3>1, <3>3 DEF TransactionItem
  <2>5. asked \in Visit /\ asked.txn = t /\ asked.browser = visit[v].browser
        /\ asked.sent = visit[v].sent
    BY <2>2 DEF Visit
  <2>6. began' \in [Transactions -> Beginning \union {Null}]
        /\ began'[t] = [browser |-> visit[v].browser, client |-> visit[v].client]
        /\ \A s \in Transactions \ {t} : began'[s] = began[s]
    BY <1>2, <2>2, <2>3 DEF Beginning
  <2>7. began'[t] # Null /\ began'[t].browser = visit[v].browser
        /\ began'[t].client = visit[v].client
    BY <2>2, <2>6, FlowNullAssumption DEF Beginning
  <2>8. UNCHANGED <<clientTtl, codeTtl, cookie, transactions, registered,
                    approvals, approvers, issued, denied>>
    BY DEF BeginTransaction
  <2>9. TrailGrows
    BY <1>2, <2>6, <2>8 DEF TrailGrows
  <2>10. at' = [at EXCEPT ![v] = "putTransaction"]
         /\ visit' = [visit EXCEPT ![v] = asked]
         /\ held' = [held EXCEPT ![v] = x]
    BY <1>2, <2>3 DEF GoOn
  <2>11. at'[v] = "putTransaction" /\ visit'[v] = asked /\ held'[v] = x
    BY <2>3, <2>10
  <2>12. began'[owner] # Null /\ began'[owner].browser = visit[v].browser
    BY <1>2, <2>2, <2>6, <2>7 DEF Owned
  <2>13. visit[v].sent # Null => began'[visit[v].sent] # Null
                              /\ began'[visit[v].sent].browser = visit[v].browser
    BY <1>2, <2>2, <2>6 DEF Owned
  <2>14. x.value.client = visit[v].client /\ x.value.browser = owner
         /\ ~x.value.consented
    OBVIOUS
  <2>15. \A s \in Transactions : denied[s] => s # t
    BY <1>2 DEF FlowInv, DenialKept
  <2>16. t # Null /\ "putTransaction" \in VisitCalls
    BY FlowAssumption DEF VisitCalls
  <2> HIDE DEF x, asked, owner
  <2>17. AtHome(v)'
    BY <2>4, <2>5, <2>7, <2>11, <2>12, <2>14 DEF AtHome, ItemOf, Owned
  <2>18. VisitKept(v)'
    BY <2>5, <2>7, <2>11, <2>13, <2>14, <2>16, <2>17 DEF VisitKept, Owned
  <2>19. \A s \in Transactions :
           "putTransaction" \in {"putTransaction", "putConsent"} /\ asked.txn = s
             => ~denied[s]
    BY <2>5, <2>15
  <2>20. "putTransaction" \notin {"exchangeCode", "putCode"}
    OBVIOUS
  <2> QED
    BY <2>4, <2>5, <2>6, <2>8, <2>9, <2>10, <2>16, <2>18, <2>19, <2>20, GoingKeepsInv
<1> QED
  BY <1>1, <1>2 DEF BeginTransaction


\* What approving writes is an item of the same transaction.
LEMMA ApprovedItem ==
  ASSUME FlowInv, NEW found \in TransactionItem
  PROVE  /\ Approved(found) \in TransactionItem
         /\ Approved(found).value.client = found.value.client
         /\ Approved(found).value.browser = found.value.browser
<1> DEFINE left == RemainingSeconds(found.value.expiresAt)
           kept == IF left > TicksPerSecond THEN left ELSE TicksPerSecond
           value == [found.value EXCEPT !.consented = TRUE]
<1>1. found.value \in TransactionValue /\ found.value.expiresAt \in Nat
  BY ItemShape
<1>2. clock \in Nat
  BY DEF FlowInv, FlowTypeOK, TypeOK
<1>3. left \in Int
  <2>1. found.value.expiresAt - clock \in Int
    BY <1>1, <1>2
  <2> QED
    BY <2>1, CeilBounds DEF RemainingSeconds
<1>4. kept \in Nat
  <2> HIDE DEF left
  <2> QED
    BY <1>3, TicksAssumption
<1>5. TtlOf(clock, kept) \in Nat
  <2> HIDE DEF kept
  <2> QED
    BY <1>2, <1>4, TtlBounds
<1>6. value \in TransactionValue /\ value.client = found.value.client
      /\ value.browser = found.value.browser
  BY <1>1 DEF TransactionValue
<1>7. Approved(found) = [value |-> value, ttl |-> TtlOf(clock, kept)]
  BY DEF Approved
<1> HIDE DEF value, kept
<1> QED
  BY <1>5, <1>6, <1>7 DEF TransactionItem

LEMMA GetTransactionKeepsInv ==
  ASSUME FlowInv, TokensAlone, NEW v \in Visits, GetTransaction(v)
  PROVE  FlowInv'
<1> DEFINE t == visit[v].txn
           found == transactions[t]
<1>1. UNCHANGED <<clientTtl, codeTtl, cookie, transactions, trail>>
      /\ at[v] = "getTransaction"
  BY DEF GetTransaction
<1>2. CASE Leave(v)
  BY <1>1, <1>2, LeavingKeepsInv DEF FlowInv, FlowTypeOK
<1>3. ASSUME found # Null, IsSameBrowser(v, found.value),
             NEW call \in {"deleteTransaction", "putConsent"},
             GoOn(v, call),
             held' = [held EXCEPT ![v] = Approved(found)],
             UNCHANGED visit
      PROVE  FlowInv'
  <2>1. /\ t \in Transactions /\ visit[v] \in Visit
        /\ VisitKept(v) /\ TransactionKept(t) /\ DenialKept(t)
    BY <1>1, VisitTyped DEF FlowInv, BindingInv
  <2>2. ItemOf(t, found) /\ ~denied[t]
    BY <1>3, <2>1 DEF TransactionKept, DenialKept
  <2>3. /\ Approved(found) \in TransactionItem
        /\ Approved(found).value.client = began[t].client
        /\ Approved(found).value.browser = found.value.browser
    BY <2>2, ApprovedItem DEF ItemOf
  <2>4. visit[v].browser = began[t].browser
    <3>1. visit[v].sent # Null /\ visit[v].sent = found.value.browser
      BY <1>3 DEF IsSameBrowser
    <3>2. Owned(visit[v].browser, visit[v].sent)
      BY <1>1, <2>1, <3>1 DEF VisitKept
    <3> QED
      BY <2>2, <3>1, <3>2 DEF ItemOf, Owned
  <2>5. /\ at \in [Visits -> VisitCalls] /\ visit \in [Visits -> Visit \union {Null}]
        /\ held \in [Visits -> TransactionItem \union {Null}]
        /\ began \in [Transactions -> Beginning \union {Null}]
    BY DEF FlowInv, FlowTypeOK
  <2>6. call \in VisitCalls /\ call \notin {"exchangeCode", "putCode"}
    BY DEF VisitCalls
  <2>7. UNCHANGED <<registered, began, approvals, approvers, issued, denied>>
    BY <1>1 DEF trail
  <2>8. TrailGrows
    BY <2>7 DEF TrailGrows
  <2>9. at' = [at EXCEPT ![v] = call] /\ visit' = [visit EXCEPT ![v] = visit[v]]
    BY <1>3, <2>5 DEF GoOn
  <2>10. at'[v] = call /\ visit'[v] = visit[v] /\ held'[v] = Approved(found)
    BY <1>3, <2>5, <2>9
  <2>11. \A s \in Transactions :
           call \in {"putTransaction", "putConsent"} /\ visit[v].txn = s => ~denied[s]
    BY <2>2
  <2>12. ItemOf(t, Approved(found))
    BY <2>2, <2>3 DEF ItemOf
  <2> PICK x : x = Approved(found)
    OBVIOUS
  <2>13. VisitKept(v)'
    <3>1. ItemOf(visit[v].txn, x) /\ began'= began /\ held'[v] = x
      BY <2>7, <2>10, <2>12
    <3>2. AtHome(v)'
      BY <2>4, <2>10, <3>1 DEF AtHome, ItemOf, Owned
    <3> QED
      BY <1>1, <2>1, <2>7, <2>10, <3>2 DEF VisitKept, Owned
  <2>14. x \in TransactionItem /\ held' = [held EXCEPT ![v] = x]
    BY <1>3, <2>3
  <2>15. /\ visit[v] \in Visit \union {Null} /\ x \in TransactionItem \union {Null}
         /\ began' \in [Transactions -> Beginning \union {Null}]
         /\ UNCHANGED <<clientTtl, codeTtl, cookie, transactions, registered,
                        approvals, approvers, issued, denied>>
    BY <1>1, <2>1, <2>5, <2>7, <2>14
  <2> QED
    BY <2>6, <2>8, <2>9, <2>11, <2>13, <2>14, <2>15, GoingKeepsInv
<1>4. \/ Leave(v)
      \/ /\ found # Null /\ IsSameBrowser(v, found.value)
         /\ GoOn(v, IF visit[v].page = "deny" THEN "deleteTransaction"
                    ELSE "putConsent")
         /\ held' = [held EXCEPT ![v] = Approved(found)]
         /\ UNCHANGED visit
  BY Zenon DEF GetTransaction, Visible
<1> QED
  BY <1>2, <1>3, <1>4


-----------------------------------------------------------------------------
(* Steps of the browser half: items are put and removed                    *)

\* A transaction item is put.
LEMMA PutKeepsInv ==
  ASSUME FlowInv, TokensAlone, NEW v \in Visits,
         at[v] \in {"putTransaction", "putConsent"},
         transactions' = [transactions EXCEPT ![visit[v].txn] = held[v]],
         Leave(v), TrailGrows,
         UNCHANGED <<clientTtl, codeTtl, registered, began, issued, denied>>,
         cookie' \in [Browsers -> Cookie \union {Null}], CookiesKept',
         approvals' \in [Transactions -> Nat],
         approvers' \in [Transactions -> SUBSET Browsers],
         held[v].value.consented => visit[v].browser \in approvers'[visit[v].txn],
         \A s \in Transactions : ApprovalsKept(s)'
  PROVE  FlowInv'
<1> PICK t : t = visit[v].txn
  OBVIOUS
<1> PICK x : x = held[v]
  OBVIOUS
<1>1. t \in Transactions /\ VisitKept(v) /\ DenialKept(t)
  BY VisitTyped DEF FlowInv, BindingInv
<1>2. ItemOf(t, x) /\ visit[v].browser = began[t].browser /\ ~denied[t]
  BY <1>1 DEF VisitKept, AtHome, DenialKept
<1>3. /\ transactions \in [Transactions -> TransactionItem \union {Null}]
      /\ x \in TransactionItem
  BY <1>2 DEF FlowInv, FlowTypeOK, ItemOf
<1>4. /\ transactions' \in [Transactions -> TransactionItem \union {Null}]
      /\ transactions'[t] = x
      /\ \A s \in Transactions \ {t} : transactions'[s] = transactions[s]
  BY <1>1, <1>3
<1>5. Inv' /\ TypeOK'
  BY StoreStep DEF FlowInv, FlowTypeOK, TypeOK
<1>6. /\ at' \in [Visits -> VisitCalls]
      /\ visit' \in [Visits -> Visit \union {Null}]
      /\ held' \in [Visits -> TransactionItem \union {Null}]
      /\ at'[v] = "idle"
      /\ \A u \in Visits \ {v} :
           at'[u] = at[u] /\ visit'[u] = visit[u] /\ held'[u] = held[u]
      /\ \A u \in Visits : VisitKept(u)'
  BY VisitLeaves
<1>7. FlowTypeOK'
  BY <1>4, <1>5, <1>6 DEF FlowInv, FlowTypeOK
<1>8. TransactionKept(t)'
  BY <1>2, <1>4 DEF TransactionKept, ItemOf, Owned, ApprovedAtHome
<1>9. BindingInv'
  BY <1>4, <1>6, <1>8, TransactionStays, IssueStays DEF BindingInv
<1>10. UNCHANGED takes
  BY DEF TokensAlone, history
<1>11. CodesKept'
  BY <1>6, <1>10, CodesStay
<1>12. ExchangeKept'
  BY ExchangeStays
<1>13. DenialKept(t)'
  BY <1>2 DEF DenialKept
<1>14. \A s \in Transactions \ {t} : DenialKept(s)'
  BY <1>4, <1>6, DenialStays
<1> QED
  BY <1>5, <1>7, <1>9, <1>11, <1>12, <1>13, <1>14 DEF FlowInv

LEMMA PutTransactionKeepsInv ==
  ASSUME FlowInv, TokensAlone, NEW v \in Visits, PutTransaction(v)
  PROVE  FlowInv'
<1> PICK b : b = visit[v].browser
  OBVIOUS
<1> PICK t : t = visit[v].txn
  OBVIOUS
<1> PICK x : x = held[v]
  OBVIOUS
<1> PICK until : until = clock + TransactionTtl
  OBVIOUS
<1>1. /\ at[v] = "putTransaction"
      /\ transactions' = [transactions EXCEPT ![t] = x]
      /\ \/ cookie' = [cookie EXCEPT ![b] =
              [value |-> x.value.browser, until |-> until]]
         \/ UNCHANGED cookie
      /\ Leave(v)
      /\ UNCHANGED <<clientTtl, codeTtl, trail>>
  BY DEF PutTransaction
<1>2. UNCHANGED <<registered, began, approvals, approvers, issued, denied>>
  BY <1>1 DEF trail
<1>3. TrailGrows
  BY <1>2 DEF TrailGrows
<1>4. t \in Transactions /\ b \in Browsers /\ VisitKept(v)
  BY <1>1, VisitTyped DEF FlowInv, BindingInv
<1>5. ItemOf(t, x) /\ b = began[t].browser /\ ~x.value.consented
  BY <1>1, <1>4 DEF VisitKept, AtHome
<1>6. x.value.browser \in Transactions /\ until \in Nat
  BY <1>5, ItemShape, FlowAssumption DEF ItemOf, FlowInv, FlowTypeOK, TypeOK
<1>7. cookie \in [Browsers -> Cookie \union {Null}]
      /\ transactions \in [Transactions -> TransactionItem \union {Null}]
  BY DEF FlowInv, FlowTypeOK
<1>8. CookiesKept' /\ cookie' \in [Browsers -> Cookie \union {Null}]
  <2>1. CASE UNCHANGED cookie
    BY <1>3, <1>7, <2>1, CookiesStay
  <2>2. CASE cookie' = [cookie EXCEPT ![b] =
               [value |-> x.value.browser, until |-> until]]
    <3>1. cookie' \in [Browsers -> Cookie \union {Null}]
      BY <1>4, <1>6, <1>7, <2>2 DEF Cookie
    <3>2. cookie'[b].value = x.value.browser
      BY <1>4, <1>7, <2>2
    <3>3. \A a \in Browsers \ {b} : cookie'[a] = cookie[a]
      BY <1>7, <2>2
    <3> QED
      BY <1>2, <1>5, <3>1, <3>2, <3>3 DEF CookiesKept, Owned, ItemOf, FlowInv, BindingInv
  <2> QED
    BY <1>1, <2>1, <2>2
<1>9. /\ transactions'[t] = x
      /\ \A s \in Transactions \ {t} : transactions'[s] = transactions[s]
  BY <1>1, <1>4, <1>7
<1>10. \A u \in Visits : at'[u] = "exchangeCode" =>
         at[u] = "exchangeCode" /\ visit'[u] = visit[u]
  BY <1>1, <1>3, VisitLeaves
<1>11. \A s \in Transactions : ApprovalsKept(s)'
  BY <1>2, <1>5, <1>9, <1>10, ApprovalsStay
<1>12. /\ approvals \in [Transactions -> Nat]
       /\ approvers \in [Transactions -> SUBSET Browsers]
  BY DEF FlowInv, FlowTypeOK
<1> QED
  BY <1>1, <1>2, <1>3, <1>5, <1>8, <1>11, <1>12, PutKeepsInv

LEMMA PutConsentKeepsInv ==
  ASSUME FlowInv, TokensAlone, NEW v \in Visits, PutConsent(v)
  PROVE  FlowInv'
<1> PICK t : t = visit[v].txn
  OBVIOUS
<1>1. /\ at[v] = "putConsent"
      /\ transactions' = [transactions EXCEPT ![visit[v].txn] = held[v]]
      /\ approvals' = [approvals EXCEPT ![t] = @ + 1]
      /\ approvers' = [approvers EXCEPT ![t] = @ \union {visit[v].browser}]
      /\ Leave(v)
      /\ UNCHANGED <<clientTtl, codeTtl, cookie, registered, began, issued, denied>>
  BY DEF PutConsent
<1>2. /\ t \in Transactions /\ visit[v].browser \in Browsers
      /\ approvals \in [Transactions -> Nat]
      /\ approvers \in [Transactions -> SUBSET Browsers]
      /\ cookie \in [Browsers -> Cookie \union {Null}]
      /\ transactions \in [Transactions -> TransactionItem \union {Null}]
  BY <1>1, VisitTyped DEF FlowInv, FlowTypeOK
<1>3. /\ approvals' \in [Transactions -> Nat]
      /\ approvers' \in [Transactions -> SUBSET Browsers]
      /\ visit[v].browser \in approvers'[t]
      /\ approvals'[t] = approvals[t] + 1
      /\ \A s \in Transactions : approvers[s] \subseteq approvers'[s]
      /\ \A s \in Transactions \ {t} : approvals'[s] = approvals[s]
      /\ \A s \in Transactions \ {t} : transactions'[s] = transactions[s]
  BY <1>1, <1>2
<1>4. TrailGrows
  BY <1>1, <1>3 DEF TrailGrows
<1>5. CookiesKept'
  BY <1>1, <1>4, CookiesStay
<1>6. \A u \in Visits : at'[u] = "exchangeCode" =>
        at[u] = "exchangeCode" /\ visit'[u] = visit[u]
  BY <1>1, <1>4, VisitLeaves
<1>7. \A s \in Transactions \ {t} : ApprovalsKept(s)'
  BY <1>1, <1>3, <1>6, ApprovalsStay
<1>8. ApprovalsKept(t)'
  <2>1. ApprovalsKept(t)
    BY <1>2 DEF FlowInv
  <2>2. CodesOf(t)' = CodesOf(t)
    BY <1>1 DEF CodesOf
  <2>3. ExchangingFor(t)' = ExchangingFor(t)
    BY <1>1, <1>4, <1>6, VisitLeaves DEF ExchangingFor
  <2>4. Consent(t)' <= Consent(t) + 1 /\ Consent(t) \in Nat /\ Consent(t)' \in Nat
    BY DEF Consent
  <2>5. Cardinality(CodesOf(t)) \in Nat /\ Cardinality(ExchangingFor(t)) \in Nat
    BY <2>1, FS_CardinalityType DEF ApprovalsKept
  <2>6. /\ IsFiniteSet(CodesOf(t)) /\ IsFiniteSet(ExchangingFor(t))
        /\ Cardinality(CodesOf(t)) + Cardinality(ExchangingFor(t)) + Consent(t)
             <= approvals[t]
    BY <2>1 DEF ApprovalsKept
  <2>7. Cardinality(CodesOf(t)) + Cardinality(ExchangingFor(t)) + Consent(t)'
          <= approvals'[t]
    <3> HIDE DEF Consent, CodesOf, ExchangingFor
    <3> QED
      BY <1>2, <1>3, <2>4, <2>5, <2>6
  <2> QED
    BY <2>2, <2>3, <2>6, <2>7 DEF ApprovalsKept
<1>9. /\ at[v] \in {"putTransaction", "putConsent"}
      /\ cookie' \in [Browsers -> Cookie \union {Null}]
      /\ held[v].value.consented => visit[v].browser \in approvers'[visit[v].txn]
      /\ \A s \in Transactions : ApprovalsKept(s)'
  BY <1>1, <1>2, <1>3, <1>7, <1>8
<1>10. UNCHANGED <<clientTtl, codeTtl, registered, began, issued, denied>>
  BY <1>1
<1>11. /\ approvals' \in [Transactions -> Nat]
       /\ approvers' \in [Transactions -> SUBSET Browsers]
       /\ transactions' = [transactions EXCEPT ![visit[v].txn] = held[v]]
       /\ Leave(v)
  BY <1>1, <1>3
<1> QED
  BY <1>4, <1>5, <1>9, <1>10, <1>11, PutKeepsInv

LEMMA DeleteTransactionKeepsInv ==
  ASSUME FlowInv, TokensAlone, NEW v \in Visits, DeleteTransaction(v)
  PROVE  FlowInv'
<1> PICK t : t = visit[v].txn
  OBVIOUS
<1>1. /\ at[v] = "deleteTransaction"
      /\ transactions' = [transactions EXCEPT ![t] = Null]
      /\ denied' = [denied EXCEPT ![t] = @ \/ UnderWay(v) = {}]
      /\ Leave(v)
      /\ UNCHANGED <<clientTtl, codeTtl, cookie, registered, began,
                     approvals, approvers, issued>>
  BY DEF DeleteTransaction, RemoveTransaction
<1>2. /\ t \in Transactions /\ VisitKept(v)
      /\ transactions \in [Transactions -> TransactionItem \union {Null}]
      /\ denied \in [Transactions -> BOOLEAN]
  BY <1>1, VisitTyped DEF FlowInv, FlowTypeOK, BindingInv
<1>3. /\ transactions' \in [Transactions -> TransactionItem \union {Null}]
      /\ transactions'[t] = Null
      /\ \A s \in Transactions \ {t} : transactions'[s] = transactions[s]
  BY <1>1, <1>2
<1>4. /\ denied' \in [Transactions -> BOOLEAN]
      /\ denied'[t] => denied[t] \/ UnderWay(v) = {}
      /\ \A s \in Transactions \ {t} : denied'[s] = denied[s]
  <2>1. (denied[t] \/ UnderWay(v) = {}) \in BOOLEAN
    OBVIOUS
  <2> QED
    BY <1>1, <1>2, <2>1
<1>5. TrailGrows
  BY <1>1 DEF TrailGrows
<1>6. Inv' /\ TypeOK'
  BY <1>1, StoreStep DEF FlowInv, FlowTypeOK, TypeOK
<1>7. /\ at' \in [Visits -> VisitCalls]
      /\ visit' \in [Visits -> Visit \union {Null}]
      /\ held' \in [Visits -> TransactionItem \union {Null}]
      /\ at'[v] = "idle"
      /\ \A u \in Visits \ {v} :
           at'[u] = at[u] /\ visit'[u] = visit[u] /\ held'[u] = held[u]
      /\ \A u \in Visits : VisitKept(u)'
  BY <1>1, <1>5, VisitLeaves
<1>8. FlowTypeOK'
  BY <1>1, <1>3, <1>4, <1>6, <1>7 DEF FlowInv, FlowTypeOK
<1>9. BindingInv'
  BY <1>1, <1>3, <1>5, <1>7, CookiesStay, TransactionStays, IssueStays DEF BindingInv
<1>10. UNCHANGED takes
  BY DEF TokensAlone, history
<1>11. \A u \in Visits : at'[u] # "idle" => at'[u] = at[u] /\ visit'[u] = visit[u]
  BY <1>7
<1>12. CodesKept'
  BY <1>1, <1>10, <1>11, CodesStay
<1>13. ExchangeKept'
  BY <1>5, ExchangeStays
<1>14. \A s \in Transactions : ApprovalsKept(s)'
  BY <1>1, <1>3, <1>11, ApprovalsStay
<1>15. \A s \in Transactions \ {t} : DenialKept(s)'
  BY <1>3, <1>4, <1>5, <1>11, DenialStays
<1>16. DenialKept(t)'
  <2>1. CASE denied'[t] = denied[t]
    BY <1>2, <1>3, <1>5, <1>11, <2>1, DenialStays
  <2>2. CASE UnderWay(v) = {}
    <3>1. began[t] # Null
      BY <1>1, <1>2 DEF VisitKept
    <3>2. ASSUME NEW u \in Visits, at'[u] \in {"putTransaction", "putConsent"}
          PROVE  visit'[u].txn # t
      <4>1. u # v /\ at[u] = at'[u] /\ visit'[u] = visit[u]
        BY <1>7, <3>2
      <4>2. visit[u] # Null
        BY <3>2, <4>1, VisitTyped
      <4> QED
        BY <2>2, <3>2, <4>1, <4>2 DEF UnderWay
    <3> QED
      BY <1>1, <1>3, <3>1, <3>2 DEF DenialKept
  <2>3. CASE ~denied'[t]
    BY <2>3 DEF DenialKept
  <2> QED
    BY <1>2, <1>4, <2>1, <2>2, <2>3
<1> QED
  BY <1>6, <1>8, <1>9, <1>12, <1>13, <1>14, <1>15, <1>16 DEF FlowInv


-----------------------------------------------------------------------------
(* Steps of the browser half: the callback                                 *)

LEMMA TakeTransactionKeepsInv ==
  ASSUME FlowInv, TokensAlone, NEW v \in Visits, TakeTransaction(v)
  PROVE  FlowInv'
<1> PICK t : t = visit[v].txn
  OBVIOUS
<1> PICK found : found = transactions[t]
  OBVIOUS
<1>1. /\ at[v] = "takeTransaction"
      /\ transactions' = [transactions EXCEPT ![t] = Null]
      /\ UNCHANGED <<clientTtl, codeTtl, cookie, trail>>
  BY DEF TakeTransaction, SpendTransaction
<1>2. /\ t \in Transactions /\ visit[v] \in Visit
      /\ VisitKept(v) /\ TransactionKept(t)
  BY <1>1, VisitTyped DEF FlowInv, BindingInv
<1>3. /\ at \in [Visits -> VisitCalls] /\ visit \in [Visits -> Visit \union {Null}]
      /\ held \in [Visits -> TransactionItem \union {Null}]
      /\ transactions \in [Transactions -> TransactionItem \union {Null}]
  BY DEF FlowInv, FlowTypeOK
<1>4. /\ transactions' \in [Transactions -> TransactionItem \union {Null}]
      /\ transactions'[t] = Null
      /\ \A s \in Transactions : transactions'[s] \in {transactions[s], Null}
  BY <1>1, <1>2, <1>3
<1>5. CASE Leave(v)
  BY <1>1, <1>4, <1>5, LeavingKeepsInv
<1>6. ASSUME found # Null, found.value.consented, IsSameBrowser(v, found.value),
             held' = [held EXCEPT ![v] = found],
             GoOn(v, "exchangeCode"), UNCHANGED visit
      PROVE  FlowInv'
  <2>1. ItemOf(t, found) /\ ApprovedAtHome(t)
    BY <1>2, <1>6 DEF TransactionKept
  <2>2. visit[v].browser = began[t].browser
    <3>1. visit[v].sent # Null /\ visit[v].sent = found.value.browser
      BY <1>6 DEF IsSameBrowser
    <3>2. Owned(visit[v].browser, visit[v].sent)
      BY <1>1, <1>2, <3>1 DEF VisitKept
    <3> QED
      BY <2>1, <3>1, <3>2 DEF ItemOf, Owned
  <2>3. UNCHANGED <<registered, began, approvals, approvers, issued, denied, takes>>
    BY <1>1 DEF trail, TokensAlone, history
  <2>4. TrailGrows
    BY <2>3 DEF TrailGrows
  <2>5. found \in TransactionItem /\ "exchangeCode" \in VisitCalls
    BY <2>1 DEF ItemOf, VisitCalls
  <2>6. at' = [at EXCEPT ![v] = "exchangeCode"] /\ visit' = [visit EXCEPT ![v] = visit[v]]
    BY <1>3, <1>6 DEF GoOn
  <2>7. /\ at' \in [Visits -> VisitCalls]
        /\ visit' \in [Visits -> Visit \union {Null}]
        /\ held' \in [Visits -> TransactionItem \union {Null}]
        /\ at'[v] = "exchangeCode" /\ visit'[v] = visit[v] /\ held'[v] = found
        /\ \A u \in Visits \ {v} :
             at'[u] = at[u] /\ visit'[u] = visit[u] /\ held'[u] = held[u]
        /\ \A u \in Visits \ {v} : VisitKept(u)'
    BY <1>2, <1>6, <2>4, <2>5, <2>6, VisitMoves
  <2>8. Inv' /\ TypeOK'
    BY <1>1, StoreStep DEF FlowInv, FlowTypeOK, TypeOK
  <2>9. FlowTypeOK'
    BY <1>1, <1>4, <2>3, <2>7, <2>8 DEF FlowInv, FlowTypeOK
  <2>10. VisitKept(v)'
    <3>1. AtHome(v)'
      BY <2>1, <2>2, <2>3, <2>7 DEF AtHome, ItemOf, Owned
    <3> QED
      BY <1>1, <1>2, <2>1, <2>3, <2>7, <3>1 DEF VisitKept, Owned, ApprovedAtHome
  <2>11. BindingInv'
    BY <1>1, <1>4, <2>3, <2>4, <2>7, <2>10, CookiesStay, TransactionStays, IssueStays
    DEF BindingInv
  <2>12. CodesKept'
    BY <1>1, <2>3, <2>7, CodesStay
  <2>13. ExchangeKept'
    BY <2>4, ExchangeStays
  <2>14. \A s \in Transactions : DenialKept(s)'
    BY <1>4, <2>3, <2>4, <2>7, DenialStays
  <2>15. ASSUME NEW s \in Transactions, s # t
         PROVE  ApprovalsKept(s)'
    <3>1. ApprovalsKept(s)
      BY DEF FlowInv
    <3>2. ExchangingFor(s)' = ExchangingFor(s) /\ CodesOf(s)' = CodesOf(s)
      BY <1>1, <2>3, <2>7, <2>15 DEF ExchangingFor, CodesOf
    <3>3. Consent(s)' = Consent(s)
      BY <1>1, <1>3, <2>15 DEF Consent
    <3> QED
      BY <2>3, <3>1, <3>2, <3>3 DEF ApprovalsKept
  <2>16. ApprovalsKept(t)'
    <3>1. ApprovalsKept(t) /\ approvals[t] \in Nat
      BY <1>2 DEF FlowInv, FlowTypeOK
    <3>2. CodesOf(t)' = CodesOf(t)
      BY <2>3 DEF CodesOf
    <3>3. ExchangingFor(t)' = ExchangingFor(t) \union {v} /\ v \notin ExchangingFor(t)
      BY <1>1, <2>7 DEF ExchangingFor
    <3>4. /\ IsFiniteSet(ExchangingFor(t)')
          /\ Cardinality(ExchangingFor(t)') = Cardinality(ExchangingFor(t)) + 1
      BY <3>1, <3>3, FS_AddElement DEF ApprovalsKept
    <3>5. Consent(t)' = 0 /\ Consent(t) = 1
      BY <1>4, <1>6 DEF Consent
    <3>6. Cardinality(CodesOf(t)) \in Nat /\ Cardinality(ExchangingFor(t)) \in Nat
      BY <3>1, FS_CardinalityType DEF ApprovalsKept
    <3>7. /\ IsFiniteSet(CodesOf(t))
          /\ Cardinality(CodesOf(t)) + Cardinality(ExchangingFor(t)) + 1 <= approvals[t]
      BY <3>1, <3>5 DEF ApprovalsKept
    <3>8. Cardinality(CodesOf(t)) + Cardinality(ExchangingFor(t)') + 0 <= approvals[t]
      <4> HIDE DEF Consent, CodesOf, ExchangingFor
      <4> QED
        BY <3>1, <3>4, <3>6, <3>7
    <3> QED
      BY <2>3, <3>2, <3>4, <3>5, <3>7, <3>8 DEF ApprovalsKept
  <2> QED
    BY <2>8, <2>9, <2>11, <2>12, <2>13, <2>14, <2>15, <2>16 DEF FlowInv
<1>7. \/ Leave(v)
      \/ /\ found # Null /\ found.value.consented /\ IsSameBrowser(v, found.value)
         /\ held' = [held EXCEPT ![v] = found]
         /\ GoOn(v, "exchangeCode") /\ UNCHANGED visit
  BY Zenon DEF TakeTransaction, Visible
<1> QED
  BY <1>5, <1>6, <1>7

LEMMA CognitoExchangesKeepsInv ==
  ASSUME FlowInv, TokensAlone, NEW v \in Visits, CognitoExchanges(v)
  PROVE  FlowInv'
<1> PICK t : t = visit[v].txn
  OBVIOUS
<1>1. /\ at[v] = "exchangeCode"
      /\ UNCHANGED <<clientTtl, codeTtl, cookie, transactions, registered, began,
                     approvals, approvers, denied>>
  BY DEF CognitoExchanges
<1>2. CASE Leave(v) /\ UNCHANGED issued
  BY <1>1, <1>2, LeavingKeepsInv DEF trail, FlowInv, FlowTypeOK
<1>3. ASSUME NEW k \in Codes,
             issued[k] = Null,
             CodeClient[k] = held[v].value.client,
             issued' = [issued EXCEPT ![k] =
               [txn |-> visit[v].txn, browser |-> visit[v].browser]],
             visit' = [visit EXCEPT ![v].code = k],
             held' = [held EXCEPT ![v].ttl = TtlOf(clock, CodeTtl)],
             GoOn(v, "putCode")
      PROVE  FlowInv'
  <2> PICK ttl : ttl = TtlOf(clock, CodeTtl)
    OBVIOUS
  <2> PICK asked : asked = [visit[v] EXCEPT !.code = k]
    OBVIOUS
  <2> PICK x : x = [held[v] EXCEPT !.ttl = ttl]
    OBVIOUS
  <2>1. /\ t \in Transactions /\ visit[v] \in Visit /\ VisitKept(v)
        /\ visit[v].browser \in Browsers /\ visit[v].txn = t
    BY <1>1, VisitTyped DEF FlowInv, BindingInv
  <2>2. /\ visit[v].browser = began[t].browser /\ ItemOf(t, held[v])
        /\ ApprovedAtHome(t) /\ began[t] # Null
    BY <1>1, <2>1 DEF VisitKept, AtHome
  <2>3. ttl \in Nat
    BY TtlBounds, ConstantsAssumption DEF FlowInv, FlowTypeOK, TypeOK
  <2>4. /\ at \in [Visits -> VisitCalls] /\ visit \in [Visits -> Visit \union {Null}]
        /\ held \in [Visits -> TransactionItem \union {Null}]
        /\ issued \in [Codes -> Issue \union {Null}]
    BY DEF FlowInv, FlowTypeOK
  <2>5. /\ asked \in Visit /\ asked.code = k /\ asked.txn = t
        /\ asked.browser = visit[v].browser /\ asked.sent = visit[v].sent
    BY <2>1 DEF Visit
  <2>6. x \in TransactionItem
    BY <2>2, <2>3 DEF ItemOf, TransactionItem
  <2>7. /\ at' = [at EXCEPT ![v] = "putCode"]
        /\ visit' = [visit EXCEPT ![v] = asked]
        /\ held' = [held EXCEPT ![v] = x]
    BY <1>3, <2>4 DEF GoOn
  <2>8. /\ issued' \in [Codes -> Issue \union {Null}]
        /\ issued'[k] = [txn |-> t, browser |-> visit[v].browser]
        /\ issued'[k] \in Issue /\ issued'[k] # Null
        /\ \A c \in Codes \ {k} : issued'[c] = issued[c]
    BY <1>3, <2>1, <2>4, FlowNullAssumption DEF Issue
  <2>9. TrailGrows
    BY <1>1, <1>3, <2>8 DEF TrailGrows
  <2>10. "putCode" \in VisitCalls
    BY DEF VisitCalls
  <2>11. /\ at' \in [Visits -> VisitCalls]
         /\ visit' \in [Visits -> Visit \union {Null}]
         /\ held' \in [Visits -> TransactionItem \union {Null}]
         /\ at'[v] = "putCode" /\ visit'[v] = asked /\ held'[v] = x
         /\ \A u \in Visits \ {v} :
              at'[u] = at[u] /\ visit'[u] = visit[u] /\ held'[u] = held[u]
         /\ \A u \in Visits \ {v} : VisitKept(u)'
    BY <2>5, <2>6, <2>7, <2>9, <2>10, VisitMoves
  <2>12. Inv' /\ TypeOK'
    BY <1>1, StoreStep DEF FlowInv, FlowTypeOK, TypeOK
  <2>13. FlowTypeOK'
    BY <1>1, <2>8, <2>11, <2>12 DEF FlowInv, FlowTypeOK
  <2>14. VisitKept(v)'
    <3>1. x # Null /\ k # Null
      BY <2>6, ItemShape, FlowNullAssumption
    <3> QED
      BY <1>1, <2>1, <2>2, <2>5, <2>8, <2>11, <3>1 DEF VisitKept, Owned
  <2>15. IssueKept(k)'
    BY <1>1, <1>3, <2>2, <2>8 DEF IssueKept, ApprovedAtHome, ItemOf
  <2>16. BindingInv'
    BY <1>1, <2>8, <2>9, <2>11, <2>14, <2>15, CookiesStay, TransactionStays, IssueStays
    DEF BindingInv
  <2>17. CodesKept'
    <3>1. UNCHANGED <<takes, codeTtl>>
      BY <1>1 DEF TokensAlone, history
    <3>2. \A c \in Codes : Unput(c)' => codeTtl'[c] = 0 /\ takes'[c] = 0
      <4>1. \A c \in Codes : Unput(c)' => Unput(c)
        BY <1>3, <2>5, <2>8, <2>11 DEF Unput
      <4> QED
        BY <3>1, <4>1 DEF FlowInv, CodesKept
    <3>3. \A u \in Visits \ {v} : at'[u] = "putCode" => visit'[u].code # k
      BY <1>3, <2>11 DEF FlowInv, BindingInv, VisitKept
    <3>4. \A u, w \in Visits :
            at'[u] = "putCode" /\ at'[w] = "putCode" /\ visit'[u].code = visit'[w].code
              => u = w
      <4>1. \A u, w \in Visits \ {v} :
              at'[u] = "putCode" /\ at'[w] = "putCode"
                /\ visit'[u].code = visit'[w].code => u = w
        BY <2>11 DEF FlowInv, CodesKept
      <4>2. visit'[v].code = k
        BY <2>5, <2>11
      <4> QED
        BY <3>3, <4>1, <4>2
    <3> QED
      BY <3>2, <3>4 DEF CodesKept
  <2>18. ExchangeKept'
    BY <2>9, ExchangeStays
  <2>19. \A s \in Transactions : DenialKept(s)'
    BY <1>1, <2>9, <2>11, DenialStays
  <2>20. ASSUME NEW s \in Transactions, s # t
         PROVE  ApprovalsKept(s)'
    <3>1. ApprovalsKept(s)
      BY DEF FlowInv
    <3>2. ExchangingFor(s)' = ExchangingFor(s)
      BY <1>1, <2>1, <2>11, <2>20 DEF ExchangingFor
    <3>3. CodesOf(s)' = CodesOf(s)
      BY <1>3, <2>8, <2>20 DEF CodesOf
    <3>4. Consent(s)' = Consent(s)
      BY <1>1 DEF Consent
    <3> QED
      BY <1>1, <3>1, <3>2, <3>3, <3>4 DEF ApprovalsKept
  <2>21. ApprovalsKept(t)'
    <3>1. ApprovalsKept(t) /\ approvals[t] \in Nat
      BY <2>1 DEF FlowInv, FlowTypeOK
    <3>2. CodesOf(t)' = CodesOf(t) \union {k} /\ k \notin CodesOf(t)
      BY <1>3, <2>8 DEF CodesOf
    <3>3. ExchangingFor(t)' = ExchangingFor(t) \ {v} /\ v \in ExchangingFor(t)
      BY <1>1, <2>1, <2>11 DEF ExchangingFor
    <3>4. /\ IsFiniteSet(CodesOf(t)')
          /\ Cardinality(CodesOf(t)') = Cardinality(CodesOf(t)) + 1
      BY <3>1, <3>2, FS_AddElement DEF ApprovalsKept
    <3>5. /\ IsFiniteSet(ExchangingFor(t)')
          /\ Cardinality(ExchangingFor(t)') = Cardinality(ExchangingFor(t)) - 1
      BY <3>1, <3>3, FS_RemoveElement DEF ApprovalsKept
    <3>6. Consent(t)' = Consent(t) /\ Consent(t) \in Nat
      BY <1>1 DEF Consent
    <3>7. Cardinality(CodesOf(t)) \in Nat /\ Cardinality(ExchangingFor(t)) \in Nat
      BY <3>1, FS_CardinalityType DEF ApprovalsKept
    <3>8. Cardinality(CodesOf(t)) + Cardinality(ExchangingFor(t)) + Consent(t)
            <= approvals[t]
      BY <3>1 DEF ApprovalsKept
    <3>9. Cardinality(CodesOf(t)') + Cardinality(ExchangingFor(t)') + Consent(t)'
            <= approvals[t]
      <4> HIDE DEF Consent, CodesOf, ExchangingFor
      <4> QED
        BY <3>1, <3>4, <3>5, <3>6, <3>7, <3>8
    <3> QED
      BY <1>1, <3>4, <3>5, <3>9 DEF ApprovalsKept
  <2> QED
    BY <2>12, <2>13, <2>16, <2>17, <2>18, <2>19, <2>20, <2>21 DEF FlowInv
<1> QED
  BY <1>2, <1>3, Zenon DEF CognitoExchanges

LEMMA PutCodeKeepsInv ==
  ASSUME FlowInv, TokensAlone, NEW v \in Visits, PutCode(v)
  PROVE  FlowInv'
<1> PICK k : k = visit[v].code
  OBVIOUS
<1>1. /\ at[v] = "putCode"
      /\ codeTtl' = [codeTtl EXCEPT ![k] = held[v].ttl]
      /\ Leave(v)
      /\ UNCHANGED <<clientTtl, cookie, transactions, trail>>
  BY DEF PutCode
<1>2. UNCHANGED <<registered, began, approvals, approvers, issued, denied, takes>>
  BY <1>1 DEF trail, TokensAlone, history
<1>3. TrailGrows
  BY <1>2 DEF TrailGrows
<1>4. k \in Codes /\ held[v] \in TransactionItem
  BY <1>1, VisitTyped DEF FlowInv, FlowTypeOK, BindingInv, VisitKept
<1>5. /\ codeTtl' \in [Codes -> Nat]
      /\ \A c \in Codes \ {k} : codeTtl'[c] = codeTtl[c]
  BY <1>1, <1>4, ItemShape DEF FlowInv, FlowTypeOK, TypeOK
<1>6. takes[k] = 0
  BY <1>1, <1>4 DEF FlowInv, CodesKept, Unput
<1>7. Inv' /\ TypeOK'
  BY <1>1, <1>5, <1>6, StoreStep DEF FlowInv, FlowTypeOK, TypeOK
<1>8. /\ at' \in [Visits -> VisitCalls]
      /\ visit' \in [Visits -> Visit \union {Null}]
      /\ held' \in [Visits -> TransactionItem \union {Null}]
      /\ at'[v] = "idle"
      /\ \A u \in Visits \ {v} :
           at'[u] = at[u] /\ visit'[u] = visit[u] /\ held'[u] = held[u]
      /\ \A u \in Visits : VisitKept(u)'
  BY <1>1, <1>3, VisitLeaves
<1>9. FlowTypeOK'
  BY <1>1, <1>2, <1>7, <1>8 DEF FlowInv, FlowTypeOK
<1>10. BindingInv'
  BY <1>1, <1>2, <1>3, <1>8, CookiesStay, TransactionStays, IssueStays DEF BindingInv
<1>11. \A u \in Visits : at'[u] # "idle" => at'[u] = at[u] /\ visit'[u] = visit[u]
  BY <1>8
<1>12. CodesKept'
  <2>1. issued[k] # Null
    BY <1>1 DEF FlowInv, BindingInv, VisitKept
  <2>2. \A u \in Visits \ {v} : at[u] = "putCode" => visit[u].code # k
    BY <1>1 DEF FlowInv, CodesKept
  <2>3. ~Unput(k)'
    BY <1>2, <1>8, <2>1, <2>2 DEF Unput
  <2>4. \A c \in Codes : Unput(c)' => Unput(c)
    BY <1>2, <1>11 DEF Unput
  <2> QED
    BY <1>2, <1>5, <1>11, <2>3, <2>4 DEF FlowInv, CodesKept
<1>13. ExchangeKept'
  BY <1>3, ExchangeStays
<1>14. \A t \in Transactions : DenialKept(t)' /\ ApprovalsKept(t)'
  BY <1>1, <1>2, <1>3, <1>11, DenialStays, ApprovalsStay
<1> QED
  BY <1>7, <1>9, <1>10, <1>12, <1>13, <1>14 DEF FlowInv


LEMMA FlowStepKeepsInv == FlowInv /\ FlowStep => FlowInv'
<1> SUFFICES ASSUME FlowInv, FlowStep
             PROVE  FlowInv'
  OBVIOUS
<1>1. TokensAlone
  BY DEF FlowStep, TokensAlone
<1>2. ASSUME NEW c \in Clients, Register(c)
      PROVE  FlowInv'
  BY <1>1, <1>2, RegisterKeepsInv
<1>3. ASSUME NEW v \in Visits,
             OpenAuthorize(v) \/ OpenConsent(v) \/ OpenCallback(v)
      PROVE  FlowInv'
  BY <1>1, <1>3, OpensKeepInv
<1>4. ASSUME NEW v \in Visits,
             BeginTransaction(v) \/ PutTransaction(v) \/ Abandon(v)
      PROVE  FlowInv'
  BY <1>1, <1>4, BeginTransactionKeepsInv, PutTransactionKeepsInv, AbandonKeepsInv
<1>5. ASSUME NEW v \in Visits,
             GetTransaction(v) \/ DeleteTransaction(v) \/ PutConsent(v)
      PROVE  FlowInv'
  BY <1>1, <1>5, GetTransactionKeepsInv, DeleteTransactionKeepsInv, PutConsentKeepsInv
<1>6. ASSUME NEW v \in Visits,
             TakeTransaction(v) \/ CognitoExchanges(v) \/ PutCode(v)
      PROVE  FlowInv'
  BY <1>1, <1>6, TakeTransactionKeepsInv, CognitoExchangesKeepsInv, PutCodeKeepsInv
<1> QED
  BY <1>2, <1>3, <1>4, <1>5, <1>6 DEF FlowStep

-----------------------------------------------------------------------------
(* Steps of the exchange *)

\* Visits and transactions stay as they are.
LEMMA BrowserHalfStays ==
  ASSUME FlowInv, UNCHANGED flow, Inv', CodesKept', ExchangeKept'
  PROVE  FlowInv'
<1>1. UNCHANGED <<cookie, transactions, at, visit, held, registered, began,
                  approvals, approvers, issued, denied>>
  BY DEF flow, browserState, trail
<1>2. TrailGrows
  BY <1>1 DEF TrailGrows
<1>3. FlowTypeOK'
  BY <1>1 DEF FlowInv, FlowTypeOK, Inv, TypeInv
<1>4. BindingInv'
  BY <1>1, <1>2, CookiesStay, TransactionStays, IssueStays, VisitStays
  DEF BindingInv
<1>5. \A t \in Transactions : DenialKept(t)' /\ ApprovalsKept(t)'
  BY <1>1, <1>2, DenialStays, ApprovalsStay
<1> QED
  BY <1>3, <1>4, <1>5 DEF FlowInv

\* The step is not one of request q, and no grant loses its origin.
LEMMA BystanderKept ==
  ASSUME FlowInv, UNCHANGED issued, NEW q \in Requests,
         pc'[q] = pc[q], job'[q] = job[q], item'[q] = item[q],
         \A g \in Grants : origin[g] # Null => origin'[g] = origin[g]
  PROVE  RequestKept(q)'
<1>1. RequestKept(q)
  BY DEF FlowInv, ExchangeKept
<1>2. pc[q] = "putGrant" => job[q].grant \in Grants
  BY DEF FlowInv, Inv, TypeInv, RequestShape
<1> QED
  BY <1>1, <1>2 DEF RequestKept

\* A step of r that neither finds a code nor puts a grant.
LEMMA QuietExchangeKept ==
  ASSUME FlowInv, UNCHANGED <<flow, codeTtl, grants, takes, origin>>,
         NEW r \in Requests,
         \A q \in Requests \ {r} :
           pc'[q] = pc[q] /\ job'[q] = job[q] /\ item'[q] = item[q],
         RequestKept(r)'
  PROVE  CodesKept' /\ ExchangeKept'
<1>1. UNCHANGED <<issued, at, visit>>
  BY DEF flow, trail, browserState
<1>2. CodesKept'
  BY <1>1, CodesStay
<1>3. \A q \in Requests : RequestKept(q)'
  BY <1>1, BystanderKept
<1>4. \A g \in Grants : GrantKept(g)'
  BY <1>1 DEF FlowInv, ExchangeKept, GrantKept
<1> QED
  BY <1>2, <1>3, <1>4 DEF ExchangeKept

LEMMA RequestsTyped ==
  FlowInv =>
    /\ pc \in [Requests -> Settled \union {"getClient"} \union ExchangeCalls
                             \union RefreshCalls]
    /\ job \in [Requests -> ExchangeJob \union RefreshJob \union {Null}]
    /\ item \in [Requests -> GrantItem \union {Null}]
    /\ origin \in [Grants -> Origin \union {Null}]
    /\ grants \in [Grants -> GrantItem \union {Null}]
    /\ codeTtl \in [Codes -> Nat] /\ takes \in [Codes -> Nat] /\ clock \in Nat
BY DEF FlowInv, FlowTypeOK, TypeOK

LEMMA ArriveKept ==
  ASSUME FlowInv, UNCHANGED flow, KnownCode, NEW r \in Requests, ArriveExchange(r)
  PROVE  CodesKept' /\ ExchangeKept'
<1>1. PICK client \in Clients, code \in Codes, valid \in BOOLEAN :
        Arrive(r, [kind |-> "authorization_code", client |-> client,
                   code |-> code, valid |-> valid, grant |-> Null])
  BY DEF ArriveExchange
<1> DEFINE j == [kind |-> "authorization_code", client |-> client,
                 code |-> code, valid |-> valid, grant |-> Null]
<1>2. j \in ExchangeJob
  BY DEF ExchangeJob
<1> HIDE DEF j
<1>3. Arrive(r, j)
  BY <1>1 DEF j
<1>4. /\ UNCHANGED <<codeTtl, grants, takes, origin>>
      /\ pc'[r] = "getClient" /\ job'[r] = j
      /\ \A q \in Requests \ {r} :
           pc'[q] = pc[q] /\ job'[q] = job[q] /\ item'[q] = item[q]
  BY <1>3, RequestsTyped DEF Arrive, Goto, store, history
<1>5. issued'[j.code] # Null
  BY <1>4 DEF KnownCode, flow, trail
<1>6. RequestKept(r)'
  BY <1>2, <1>4, <1>5 DEF RequestKept
<1> QED
  BY <1>4, <1>6, QuietExchangeKept

LEMMA RefuseKept ==
  ASSUME FlowInv, UNCHANGED <<flow, codeTtl, grants, takes, origin>>,
         NEW r \in Requests, Refuse(r)
  PROVE  CodesKept' /\ ExchangeKept'
<1>1. /\ pc'[r] = "idle"
      /\ \A q \in Requests \ {r} :
           pc'[q] = pc[q] /\ job'[q] = job[q] /\ item'[q] = item[q]
  BY RequestsTyped DEF Refuse, Settle, Goto
<1>2. RequestKept(r)'
  BY <1>1 DEF RequestKept
<1> QED
  BY <1>1, <1>2, QuietExchangeKept

LEMMA GetClientKept ==
  ASSUME FlowInv, UNCHANGED flow, NEW r \in Requests, GetClient(r)
  PROVE  CodesKept' /\ ExchangeKept'
<1>1. UNCHANGED <<codeTtl, grants, takes, origin>> /\ pc[r] = "getClient"
  BY DEF GetClient, store
<1>2. CASE Refuse(r)
  BY <1>1, <1>2, RefuseKept
<1>3. ASSUME NEW call \in {"takeCode", "getGrant"}, Continue(r, call)
      PROVE  CodesKept' /\ ExchangeKept'
  <2>1. /\ pc'[r] = call /\ job'[r] = job[r]
        /\ \A q \in Requests \ {r} :
             pc'[q] = pc[q] /\ job'[q] = job[q] /\ item'[q] = item[q]
    BY <1>3, RequestsTyped DEF Continue, Goto
  <2>2. RequestKept(r)
    BY DEF FlowInv, ExchangeKept
  <2>3. UNCHANGED issued
    BY DEF flow, trail
  <2>4. RequestKept(r)'
    BY <1>1, <1>3, <2>1, <2>2, <2>3 DEF RequestKept
  <2> QED
    BY <1>1, <2>1, <2>4, QuietExchangeKept
<1>4. Refuse(r) \/ Continue(r, "takeCode") \/ Continue(r, "getGrant")
  BY Zenon DEF GetClient
<1> QED
  BY <1>2, <1>3, <1>4

LEMMA PutClientKept ==
  ASSUME FlowInv, UNCHANGED flow, NEW r \in Requests, PutClient(r)
  PROVE  CodesKept' /\ ExchangeKept'
<1>1. /\ UNCHANGED <<codeTtl, grants, takes, origin>> /\ pc[r] = "putClient"
      /\ Settle(r, "ok")
  BY DEF PutClient, Respond
<1>2. /\ pc'[r] = "ok" /\ job'[r] = job[r]
      /\ \A q \in Requests \ {r} :
           pc'[q] = pc[q] /\ job'[q] = job[q] /\ item'[q] = item[q]
  BY <1>1, RequestsTyped DEF Settle, Goto
<1>3. RequestKept(r) /\ UNCHANGED issued
  BY DEF FlowInv, ExchangeKept, flow, trail
<1>4. RequestKept(r)'
  BY <1>1, <1>2, <1>3 DEF RequestKept
<1> QED
  BY <1>1, <1>2, <1>4, QuietExchangeKept

LEMMA PutGrantKept ==
  ASSUME FlowInv, UNCHANGED flow, NEW r \in Requests, PutGrant(r)
  PROVE  CodesKept' /\ ExchangeKept'
<1> PICK h : h = job[r].grant
  OBVIOUS
<1>1. /\ pc[r] = "putGrant"
      /\ grants' = [grants EXCEPT ![h] = item[r]]
      /\ item' = [item EXCEPT ![r].ttl = TtlOf(clock, SessionTtl)]
      /\ Goto(r, "putClient")
      /\ UNCHANGED <<codeTtl, job, takes, origin>>
  BY DEF PutGrant, history
<1>2. UNCHANGED <<issued, at, visit>>
  BY DEF flow, trail, browserState
<1>3. RequestKept(r) /\ h \in Grants
  BY <1>1 DEF FlowInv, ExchangeKept, Inv, TypeInv, RequestShape
<1>4. /\ pc'[r] = "putClient"
      /\ \A q \in Requests \ {r} : pc'[q] = pc[q] /\ item'[q] = item[q]
      /\ grants'[h] = item[r]
      /\ \A g \in Grants \ {h} : grants'[g] = grants[g]
  BY <1>1, <1>3, RequestsTyped DEF Goto
<1>5. CodesKept'
  BY <1>1, <1>2, CodesStay
<1>6. RequestKept(r)'
  BY <1>1, <1>2, <1>3, <1>4 DEF RequestKept
<1>7. \A q \in Requests : RequestKept(q)'
  BY <1>1, <1>2, <1>4, <1>6, BystanderKept
<1>8. \A g \in Grants : GrantKept(g)'
  BY <1>1, <1>2, <1>3, <1>4 DEF FlowInv, ExchangeKept, GrantKept, RequestKept
<1> QED
  BY <1>5, <1>7, <1>8 DEF ExchangeKept

\* A code that is not put yet is not found: its item has no time left.
LEMMA TakenCodesKept ==
  ASSUME FlowInv, UNCHANGED flow, NEW r \in Requests, TakeCode(r)
  PROVE  CodesKept'
<1> PICK c : c = job[r].code
  OBVIOUS
<1>1. /\ codeTtl' = [codeTtl EXCEPT ![c] = 0]
      /\ takes' = IF Readable(codeTtl[c], clock)
                  THEN [takes EXCEPT ![c] = @ + 1] ELSE takes
  BY DEF TakeCode, AfterTake
<1>2. UNCHANGED <<issued, at, visit>>
  BY DEF flow, trail, browserState
<1>3. c \in Codes
  BY DEF TakeCode, FlowInv, Inv, TypeInv, RequestShape, ExchangeCalls, ExchangeJob
<1>4. \A k \in Codes : Unput(k)' = Unput(k)
  BY <1>2 DEF Unput
<1>5. \A k \in Codes : Unput(k) => codeTtl[k] = 0 /\ takes[k] = 0
  BY DEF FlowInv, CodesKept
<1>6. codeTtl[c] = 0 => ~Readable(codeTtl[c], clock)
  BY RequestsTyped DEF Readable
<1>7. \A k \in Codes : Unput(k) => codeTtl'[k] = 0 /\ takes'[k] = 0
  BY <1>1, <1>3, <1>5, <1>6, RequestsTyped
<1> QED
  BY <1>2, <1>4, <1>7 DEF FlowInv, CodesKept

LEMMA TakeCodeKept ==
  ASSUME FlowInv, UNCHANGED flow, NEW r \in Requests, TakeCode(r)
  PROVE  CodesKept' /\ ExchangeKept'
<1> PICK j : j = job[r]
  OBVIOUS
<1>1. pc[r] = "takeCode" /\ UNCHANGED grants
  BY DEF TakeCode
<1>2. CodesKept'
  BY TakenCodesKept
<1>3. UNCHANGED issued
  BY DEF flow, trail
<1>4. RequestKept(r) /\ j \in ExchangeJob /\ issued[j.code] # Null
  BY <1>1 DEF FlowInv, ExchangeKept, RequestKept
<1>5. CASE Refuse(r) /\ UNCHANGED origin
  <2>1. /\ pc'[r] = "idle"
        /\ \A q \in Requests \ {r} :
             pc'[q] = pc[q] /\ job'[q] = job[q] /\ item'[q] = item[q]
    BY <1>5, RequestsTyped DEF Refuse, Settle, Goto
  <2>2. \A q \in Requests : RequestKept(q)'
    BY <1>3, <1>5, <2>1, BystanderKept DEF RequestKept
  <2>3. \A g \in Grants : GrantKept(g)'
    BY <1>1, <1>3, <1>5 DEF FlowInv, ExchangeKept, GrantKept
  <2> QED
    BY <1>2, <2>2, <2>3 DEF ExchangeKept
<1>6. ASSUME NEW h \in Grants, CodeClient[j.code] = j.client,
             origin[h] = Null,
             NEW end, origin' = [origin EXCEPT ![h] = [code |-> j.code, expiresAt |-> end]],
             job' = [job EXCEPT ![r].grant = h],
             NEW x, item' = [item EXCEPT ![r] = x], x.value.client = j.client,
             end \in Nat,
             Goto(r, "putGrant")
      PROVE  CodesKept' /\ ExchangeKept'
  <2> PICK o : o = [code |-> j.code, expiresAt |-> end]
    OBVIOUS
  <2>1. o \in Origin /\ o # Null /\ o.code = j.code
    BY <1>4, <1>6, NullAssumption DEF Origin, ExchangeJob
  <2>2. job'[r] = [j EXCEPT !.grant = h]
    BY <1>6, RequestsTyped
  <2>3. job'[r] \in ExchangeJob /\ job'[r].grant = h /\ job'[r].code = j.code
    BY <1>4, <2>2 DEF ExchangeJob
  <2>4. /\ pc'[r] = "putGrant" /\ item'[r] = x
        /\ \A q \in Requests \ {r} :
             pc'[q] = pc[q] /\ job'[q] = job[q] /\ item'[q] = item[q]
    BY <1>6, RequestsTyped DEF Goto
  <2>5. /\ origin'[h] = o
        /\ \A g \in Grants \ {h} : origin'[g] = origin[g]
    BY <1>6, RequestsTyped
  <2>6. RequestKept(r)'
    BY <1>3, <1>4, <1>6, <2>1, <2>3, <2>4, <2>5 DEF RequestKept
  <2>7. \A g \in Grants : origin[g] # Null => origin'[g] = origin[g]
    BY <1>6, <2>5
  <2>8. \A q \in Requests : RequestKept(q)'
    BY <1>3, <2>4, <2>6, <2>7, BystanderKept
  <2>9. \A g \in Grants \ {h} : GrantKept(g)'
    BY <1>1, <1>3, <2>5 DEF FlowInv, ExchangeKept, GrantKept
  <2>10. GrantKept(h)'
    <3>1. grants[h] = Null
      BY <1>6 DEF FlowInv, ExchangeKept, GrantKept
    <3> QED
      BY <1>1, <1>3, <1>4, <2>1, <2>5, <3>1 DEF GrantKept
  <2> QED
    BY <1>2, <2>8, <2>9, <2>10 DEF ExchangeKept
<1>7. \/ Refuse(r) /\ UNCHANGED origin
      \/ /\ CodeClient[j.code] = j.client
         /\ \E g \in Grants :
              /\ origin[g] = Null
              /\ origin' = [origin EXCEPT
                   ![g] = [code |-> j.code, expiresAt |-> clock + SessionTtl]]
              /\ job' = [job EXCEPT ![r].grant = g]
              /\ item' = [item EXCEPT ![r] =
                   [value |-> [client |-> j.client, generation |-> 0,
                               rotatedAt |-> clock,
                               expiresAt |-> clock + SessionTtl,
                               upstream |-> session[g].token],
                    ttl |-> TtlOf(clock, SessionTtl)]]
              /\ Goto(r, "putGrant")
  BY Zenon DEF TakeCode
<1>8. clock + SessionTtl \in Nat
  BY RequestsTyped, ConstantsAssumption
<1> QED
  <2>1. CASE Refuse(r) /\ UNCHANGED origin
    BY <1>5, <2>1
  <2>2. ASSUME CodeClient[j.code] = j.client, NEW g \in Grants,
               origin[g] = Null,
               origin' = [origin EXCEPT
                 ![g] = [code |-> j.code, expiresAt |-> clock + SessionTtl]],
               job' = [job EXCEPT ![r].grant = g],
               item' = [item EXCEPT ![r] =
                 [value |-> [client |-> j.client, generation |-> 0,
                             rotatedAt |-> clock,
                             expiresAt |-> clock + SessionTtl,
                             upstream |-> session[g].token],
                  ttl |-> TtlOf(clock, SessionTtl)]],
               Goto(r, "putGrant")
        PROVE  CodesKept' /\ ExchangeKept'
    <3> PICK end : end = clock + SessionTtl
      OBVIOUS
    <3>0. PICK x : x = [value |-> [client |-> j.client, generation |-> 0,
                                   rotatedAt |-> clock,
                                   expiresAt |-> clock + SessionTtl,
                                   upstream |-> session[g].token],
                        ttl |-> TtlOf(clock, SessionTtl)]
      OBVIOUS
    <3>1. x.value.client = j.client /\ end \in Nat
      BY <1>8, <3>0
    <3>2. /\ origin' = [origin EXCEPT ![g] = [code |-> j.code, expiresAt |-> end]]
          /\ item' = [item EXCEPT ![r] = x]
          /\ CodeClient[j.code] = j.client /\ origin[g] = Null
          /\ job' = [job EXCEPT ![r].grant = g] /\ Goto(r, "putGrant")
      BY <2>2, <3>0
    <3> QED
      BY <1>6, <3>1, <3>2
  <2> QED
    BY <1>7, <2>1, <2>2

LEMMA ExchangeStepKeepsInv == FlowInv /\ ExchangeStep => FlowInv'
<1> SUFFICES ASSUME FlowInv, ExchangeStep
             PROVE  FlowInv'
  OBVIOUS
<1>1. UNCHANGED flow /\ KnownCode
  BY DEF ExchangeStep
<1>2. Inv'
  <2>1. [Next]_vars
    BY DEF ExchangeStep, Next
  <2> QED
    BY <2>1, InvNext DEF FlowInv
<1>3. CodesKept' /\ ExchangeKept'
  <2>1. ASSUME NEW r \in Requests, GetClient(r)
        PROVE  CodesKept' /\ ExchangeKept'
    BY <1>1, <2>1, GetClientKept
  <2>2. ASSUME NEW r \in Requests, Exchange(r)
        PROVE  CodesKept' /\ ExchangeKept'
    BY <1>1, <2>2, ArriveKept, TakeCodeKept, PutGrantKept, PutClientKept DEF Exchange
  <2>3. ASSUME NEW r \in Requests, Crash(r)
        PROVE  CodesKept' /\ ExchangeKept'
    BY <1>1, <2>3, RefuseKept DEF Crash, store
  <2>4. CASE Tick
    <3>1. UNCHANGED <<codeTtl, grants, takes, origin, pc, job, item, issued, at, visit>>
      BY <1>1, <2>4 DEF Tick, store, request, history, flow, trail, browserState
    <3>2. CodesKept'
      BY <3>1, CodesStay
    <3>3. ExchangeKept'
      BY <3>1, BystanderKept DEF FlowInv, ExchangeKept, GrantKept
    <3> QED
      BY <3>2, <3>3
  <2> QED
    BY <2>1, <2>2, <2>3, <2>4 DEF ExchangeStep
<1> QED
  BY <1>1, <1>2, <1>3, BrowserHalfStays


-----------------------------------------------------------------------------
(* Invariance *)

LEMMA FlowInvInit == FlowInit => FlowInv
<1> SUFFICES ASSUME FlowInit
             PROVE  FlowInv
  OBVIOUS
<1>1. TypeOK
  BY ConstantsAssumption DEF FlowInit, TypeOK, Settled, Generation
<1>2. Inv
  <2>1. \A r \in Requests : RequestShape(r)
    BY DEF FlowInit, RequestShape, ExchangeCalls, RefreshCalls
  <2>2. CodeInv
    BY DEF FlowInit, CodeInv, CodeSpentOnce
  <2>3. \A g \in Grants : GrantInv(g)
    BY DEF FlowInit, GrantInv
  <2>4. \A r \in Requests : RefreshInv(r) /\ ExchangeInv(r)
    BY NullAssumption DEF FlowInit, RefreshInv, ExchangeInv, Writing
  <2> QED
    BY <1>1, <2>1, <2>2, <2>3, <2>4 DEF Inv, TypeInv
<1>3. FlowTypeOK
  BY <1>1 DEF FlowInit, FlowTypeOK, VisitCalls
<1>4. BindingInv
  BY DEF FlowInit, BindingInv, CookiesKept, TransactionKept, IssueKept, VisitKept
<1>5. CodesKept
  BY DEF FlowInit, CodesKept
<1>6. ExchangeKept
  BY DEF FlowInit, ExchangeKept, RequestKept, GrantKept
<1>7. ASSUME NEW t \in Transactions
      PROVE  DenialKept(t) /\ ApprovalsKept(t)
  <2>1. DenialKept(t)
    BY DEF FlowInit, DenialKept
  <2>2. CodesOf(t) = {} /\ ExchangingFor(t) = {} /\ Consent(t) = 0
    BY DEF FlowInit, CodesOf, ExchangingFor, Consent
  <2>3. approvals[t] = 0
    BY DEF FlowInit
  <2> QED
    BY <2>1, <2>2, <2>3, FS_EmptySet DEF ApprovalsKept
<1> QED
  BY <1>2, <1>3, <1>4, <1>5, <1>6, <1>7 DEF FlowInv

LEMMA FlowInvNext == FlowInv /\ [FlowNext]_<<vars, flow>> => FlowInv'
<1> SUFFICES ASSUME FlowInv, [FlowNext]_<<vars, flow>>
             PROVE  FlowInv'
  OBVIOUS
<1>1. CASE FlowStep
  BY <1>1, FlowStepKeepsInv
<1>2. CASE ExchangeStep
  BY <1>2, ExchangeStepKeepsInv
<1>3. CASE UNCHANGED <<vars, flow>>
  <2>1. UNCHANGED vars /\ UNCHANGED flow
    BY <1>3
  <2>2. Inv'
    BY <2>1, InvNext DEF FlowInv
  <2>3. UNCHANGED <<codeTtl, grants, takes, origin, pc, job, item, issued, at, visit>>
    BY <2>1 DEF vars, store, request, history, flow, trail, browserState
  <2>4. CodesKept'
    BY <2>3, CodesStay
  <2>5. ExchangeKept'
    BY <2>3, BystanderKept DEF FlowInv, ExchangeKept, GrantKept
  <2> QED
    BY <2>1, <2>2, <2>4, <2>5, BrowserHalfStays
<1> QED
  BY <1>1, <1>2, <1>3 DEF FlowNext

LEMMA FlowInvariance == FlowSpec => []FlowInv
BY FlowInvInit, FlowInvNext, PTL DEF FlowSpec

-----------------------------------------------------------------------------
(* Theorems *)

\* Items, visits and histories of the browser half, and everything the code
\* exchange keeps, stay well typed.
THEOREM FlowTypeCorrect == FlowSpec => []FlowTypeOK
<1>1. FlowInv => FlowTypeOK
  BY DEF FlowInv
<1> QED
  BY <1>1, FlowInvariance, PTL

\* The code exchange keeps its guarantee when the codes come from the
\* callback: a code is found by one exchange only (index.ts:349-353,
\* dynamodb-store.ts:67-77), also when it is put while others are spent.
THEOREM CodeSpentOnceInFlow == FlowSpec => []CodeSpentOnce
<1>1. FlowInv => CodeSpentOnce
  BY DEF FlowInv, Inv, CodeInv
<1> QED
  BY <1>1, FlowInvariance, PTL

\* A grant exists only for a client whose request was begun, approved and
\* brought back from the login in one and the same browser (index.ts:41,
\* 241-243, 631, 672).
THEOREM GrantFromOneBrowserHolds == FlowSpec => []GrantFromOneBrowser
<1>1. ASSUME FlowInv PROVE GrantFromOneBrowser
  <2>1. SUFFICES ASSUME NEW g \in Grants, origin[g] # Null,
                        NEW k, k = origin[g].code,
                        NEW t, t = issued[k].txn
                 PROVE  /\ issued[k] # Null
                        /\ began[t].browser = issued[k].browser
                        /\ issued[k].browser \in approvers[t]
                        /\ grants[g] # Null =>
                             grants[g].value.client = began[t].client
    BY DEF GrantFromOneBrowser
  <2>2. k \in Codes /\ issued[k] # Null
    BY <1>1, <2>1 DEF FlowInv, FlowTypeOK, TypeOK, Origin, ExchangeKept, GrantKept
  <2>3. IssueKept(k)
    BY <1>1, <2>2 DEF FlowInv, BindingInv
  <2>4. grants[g] # Null => grants[g].value.client = CodeClient[k]
    BY <1>1, <2>1 DEF FlowInv, ExchangeKept, GrantKept
  <2> QED
    BY <2>1, <2>2, <2>3, <2>4 DEF IssueKept, ApprovedAtHome
<1> QED
  BY <1>1, FlowInvariance, PTL

\* Every code uses up an approval of its own, though a form posted twice may
\* bring a taken transaction back (index.ts:647-651, 663).
THEOREM OneCodePerApprovalHolds == FlowSpec => []OneCodePerApproval
<1>1. ASSUME FlowInv PROVE OneCodePerApproval
  <2>1. SUFFICES ASSUME NEW t \in Transactions
                 PROVE  Cardinality(CodesOf(t)) <= approvals[t]
    BY DEF OneCodePerApproval, CodesOf
  <2>2. ApprovalsKept(t) /\ approvals[t] \in Nat
    BY <1>1 DEF FlowInv, FlowTypeOK
  <2>3. Cardinality(CodesOf(t)) \in Nat /\ Cardinality(ExchangingFor(t)) \in Nat
    BY <2>2, FS_CardinalityType DEF ApprovalsKept
  <2>4. Consent(t) \in Nat
    BY DEF Consent
  <2>5. Cardinality(CodesOf(t)) + Cardinality(ExchangingFor(t)) + Consent(t)
          <= approvals[t]
    BY <2>2 DEF ApprovalsKept
  <2> HIDE DEF Consent, CodesOf, ExchangingFor
  <2> QED
    BY <2>2, <2>3, <2>4, <2>5
<1> QED
  BY <1>1, FlowInvariance, PTL

\* A denied transaction never comes back, unless an approval was already on
\* its way to the store when it was denied (index.ts:634-643).
THEOREM DenialIsFinalHolds == FlowSpec => []DenialIsFinal
<1>1. FlowInv => DenialIsFinal
  BY DEF FlowInv, DenialKept, DenialIsFinal
<1> QED
  BY <1>1, FlowInvariance, PTL
=============================================================================
