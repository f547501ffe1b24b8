------------------------- MODULE BrowserSearchProofs -------------------------
(***************************************************************************)
(* Proofs about BrowserSearch for any texts, tags, links, numbers of pages,*)
(* lengths of the history and numbers of failures.                         *)
(***************************************************************************)
EXTENDS BrowserSearch, FiniteSetTheorems, SequenceTheorems, TLAPS

-----------------------------------------------------------------------------
(* The inductive invariant: what the address, the search and the list each *)
(* add to UrlIsState.  Only the request of the current state is under way. *)

Good(url) == url \in Address /\ (url.tags = {} => url.page = 1)

AddressInv ==
  /\ history \in Seq(Address) /\ at \in DOMAIN history
  /\ \A entry \in DOMAIN history : Good(history[entry])

BoxInv ==
  query \in Texts \union {NoText} /\ timer \in Texts \union {NoText, Null}

SearchType ==
  /\ submitted \in Texts \union {NoText} /\ searchPage \in Nat \ {0}
  /\ results \in Searches \union {Null} /\ searchPages \in Nat \ {0}
  /\ searchFlights \subseteq Searches
  /\ searchLoading \in BOOLEAN /\ searchError \in BOOLEAN

Searched == Search(submitted, selected, mode, searchPage)

SearchInv ==
  /\ SearchType
  /\ searchFlights \subseteq {Searched}
  /\ submitted = NoText => searchFlights = {} /\ results = Null
  /\ submitted # NoText /\ ~searchLoading /\ ~searchError => results = Searched
  /\ failures = 0 => ~searchError
  /\ results # Null => searchPages = PagesOf(results.q, results.tags, results.mode)
  /\ PageOfScope

FilterType ==
  /\ selected \in SUBSET Tags /\ mode \in Modes /\ filterPage \in Nat \ {0}
  /\ list \in Requests \union {Null} /\ listPages \in Nat \ {0}
  /\ facets \in SUBSET Tags
  /\ listFlights \subseteq Requests
  /\ listLoading \in BOOLEAN /\ listError \in BOOLEAN /\ facetsError \in BOOLEAN

FilterInv ==
  /\ FilterType
  /\ listFlights \subseteq {Request(selected, mode, filterPage)}
  /\ selected = {} => listFlights = {}
  /\ ListOfFilter

Inv ==
  /\ AddressInv /\ BoxInv /\ SearchInv /\ FilterInv /\ UrlIsState
  /\ failures \in 0..MaxFailures

-----------------------------------------------------------------------------
(* The writers of the address.                                             *)

LEMMA Pushed ==
  ASSUME AddressInv, NEW url, Good(url), PushUrl(url)
  PROVE  AddressInv' /\ Location' = url
<1> DEFINE kept == SubSeq(history, 1, at)
<1>1. at \in Nat /\ at >= 1 /\ at <= Len(history)
  BY DEF AddressInv
<1>2. /\ kept \in Seq(Address) /\ Len(kept) = at
      /\ \A i \in 1..at : kept[i] = history[i]
  BY <1>1, SubSeqProperties, Z3 DEF AddressInv
<1>3. /\ history' \in Seq(Address) /\ Len(history') = at + 1
      /\ \A i \in 1..at : history'[i] = history[i]
      /\ history'[at + 1] = url
  BY <1>1, <1>2 DEF PushUrl, Good
<1>4. at' = at + 1
  BY DEF PushUrl
<1>5. DOMAIN history' = 1..at + 1
  BY <1>3
<1>6. \A entry \in DOMAIN history' : Good(history'[entry])
  BY <1>1, <1>3, <1>5 DEF AddressInv
<1> QED
  BY <1>1, <1>3, <1>4, <1>5, <1>6 DEF AddressInv, Location

LEMMA Replaced ==
  ASSUME AddressInv, NEW url, Good(url), ReplaceUrl(url)
  PROVE  AddressInv' /\ Location' = url
BY DEF AddressInv, ReplaceUrl, Location, Good

LEMMA AddressOfQuery ==
  ASSUME NEW url, Good(url), NEW q \in Texts \union {NoText}
  PROVE  /\ Good(WithQuery(url, q))
         /\ WithQuery(url, q) = [q |-> q, tags |-> url.tags,
                                  mode |-> url.mode, page |-> url.page]
<1>1. url \in [q : Texts \union {NoText}, tags : SUBSET Tags, mode : Modes,
                page : Nat \ {0}]
  BY DEF Good, Address
<1>2. WithQuery(url, q) = [q |-> q, tags |-> url.tags,
                            mode |-> url.mode, page |-> url.page]
  BY <1>1 DEF WithQuery
<1> QED
  BY <1>1, <1>2 DEF Good, Address

LEMMA AddressOfFilter ==
  ASSUME NEW url, Good(url), NEW tags \in SUBSET Tags, NEW m \in Modes,
         NEW page \in Nat \ {0}
  PROVE  Good(WithFilter(url, tags, m, page))
<1> DEFINE new == WithFilter(url, tags, m, page)
<1>1. url.q \in Texts \union {NoText}
  BY DEF Good, Address
<1>2. new.mode \in Modes /\ new.page \in Nat \ {0}
  BY DEF WithFilter, Modes
<1>3. new = [q |-> url.q, tags |-> tags, mode |-> new.mode, page |-> new.page]
  BY DEF WithFilter
<1>4. tags = {} => new.page = 1
  BY DEF WithFilter
<1> QED
  BY <1>1, <1>2, <1>3, <1>4 DEF Good, Address

LEMMA SearchPushed ==
  ASSUME AddressInv, NEW q \in Texts \union {NoText}, PushSearchUrl(q)
  PROVE  /\ AddressInv'
         /\ Location' = [q |-> q, tags |-> Location.tags,
                          mode |-> Location.mode, page |-> Location.page]
<1>1. Good(Location)
  BY DEF AddressInv, Location
<1>2. CASE Location.q = q
  BY <1>1, <1>2 DEF PushSearchUrl, Location, location, AddressInv, Good, Address
<1>3. CASE Location.q # q
  BY <1>1, <1>3, AddressOfQuery, Pushed DEF PushSearchUrl
<1> QED
  BY <1>2, <1>3

-----------------------------------------------------------------------------
(* The two effects.                                                        *)

Scope(tags, m, page) == tags \in SUBSET Tags /\ m \in Modes /\ page \in Nat \ {0}

LEMMA SearchRuns ==
  ASSUME SearchInv, NEW q \in Texts \union {NoText}, NEW tags, NEW m, NEW page,
         Scope(tags, m, page), SearchFor(q, tags, m, page),
         selected' = tags, mode' = m, failures' = failures, failures \in Nat,
         failures = 0 /\ q # NoText => page <= PagesOf(q, tags, m)
  PROVE  SearchInv' /\ submitted' = q
<1> DEFINE now == Search(q, tags, m, page)
<1>1. submitted' = q /\ searchPage' = page /\ ~searchError'
      /\ searchError' \in BOOLEAN
  BY DEF SearchFor
<1>2. Searched' = now
  BY <1>1 DEF Searched
<1>3. PageOfScope'
  BY <1>1 DEF PageOfScope
<1>4. CASE q = NoText
  <2>1. /\ results' = Null /\ searchPages' = 1 /\ searchFlights' = {}
        /\ searchLoading' = FALSE
    BY <1>4 DEF SearchFor
  <2> QED
    <3>1. SearchType'
      <4>1. results' = Null
        BY <2>1
      <4>2. searchPages' \in Nat \ {0}
        BY <2>1
      <4>3. searchFlights' \subseteq Searches
        BY <2>1
      <4>4. searchLoading' \in BOOLEAN
        BY <2>1
      <4> QED
        BY <1>1, <4>1, <4>2, <4>3, <4>4 DEF SearchType, Scope
    <3> QED
      BY <1>1, <1>3, <1>4, <2>1, <3>1 DEF SearchInv
<1>5. CASE q # NoText
  <2>1. /\ searchLoading' = TRUE /\ searchFlights' = {now}
        /\ results' = results /\ searchPages' = searchPages
    BY <1>5 DEF SearchFor, OnlyRunning
  <2>2. now \in Searches
    BY <1>5 DEF Search, Searches, Scope
  <2> QED
    BY <1>1, <1>2, <1>3, <1>5, <2>1, <2>2 DEF SearchInv, SearchType, Scope
<1> QED
  BY <1>4, <1>5

LEMMA SearchRests ==
  ASSUME SearchInv, UNCHANGED <<search, selected, mode, failures>>
  PROVE  SearchInv' /\ submitted' = submitted
BY DEF SearchInv, SearchType, search, Searched, PageOfScope

\* For the callers that start at the first page.
LEMMA FirstPage ==
  ASSUME NEW q \in Texts \union {NoText}, NEW tags \in SUBSET Tags, NEW m \in Modes
  PROVE  PagesOf(q, tags, m) \in Nat \ {0} /\ 1 <= PagesOf(q, tags, m)
BY BrowserConstants

LEMMA SearchSubmitted ==
  ASSUME SearchInv, FilterType, NEW q \in Texts \union {NoText}, SearchIfNew(q, 1),
         UNCHANGED <<selected, mode, failures>>, failures \in Nat
  PROVE  SearchInv' /\ submitted' = q
<1>1. CASE q = submitted /\ 1 = searchPage
  BY <1>1, SearchRests DEF SearchIfNew
<1>2. CASE ~(q = submitted /\ 1 = searchPage)
  <2>1. Scope(selected, mode, 1) /\ SearchFor(q, selected, mode, 1)
    BY <1>2 DEF FilterType, Scope, SearchIfNew
  <2>2. 1 <= PagesOf(q, selected, mode)
    BY FirstPage DEF FilterType
  <2> QED
    BY <2>1, <2>2, SearchRuns
<1> QED
  BY <1>1, <1>2

LEMMA FilterRuns ==
  ASSUME FilterInv, NEW tags, NEW m, NEW page, Scope(tags, m, page),
         FilterBy(tags, m, page)
  PROVE  /\ FilterInv'
         /\ selected' = tags /\ mode' = m /\ filterPage' = page
<1>1. /\ selected' = tags /\ mode' = m /\ filterPage' = page
      /\ listError' = FALSE /\ listPages' = listPages
  BY DEF FilterBy
<1>2. CASE tags = {}
  <2>1. /\ list' = Null /\ facets' = {} /\ facetsError' = FALSE
        /\ listFlights' = {} /\ listLoading' = listLoading
    BY <1>2 DEF FilterBy, InitialFacets
  <2> QED
    BY <1>1, <1>2, <2>1 DEF FilterInv, FilterType, ListOfFilter, Scope, InitialFacets
<1>3. CASE tags # {}
  <2>1. /\ listLoading' = TRUE /\ listFlights' = {Request(tags, m, page)}
        /\ list' = list /\ facets' = facets /\ facetsError' = facetsError
    BY <1>3 DEF FilterBy, OnlyRunning
  <2>2. Request(tags, m, page) \in Requests
    BY <1>3 DEF Request, Requests, Scope
  <2> QED
    BY <1>1, <1>3, <2>1, <2>2 DEF FilterInv, FilterType, ListOfFilter, Scope
<1> QED
  BY <1>1, <1>2, <1>3

LEMMA FilterRests ==
  ASSUME FilterInv, UNCHANGED filter
  PROVE  FilterInv'
BY DEF FilterInv, FilterType, ListOfFilter, filter

\* Steps that leave the address and what it says alone.
LEMMA AddressRests ==
  ASSUME AddressInv, UrlIsState, UNCHANGED location,
         UNCHANGED <<submitted, selected, mode, filterPage>>
  PROVE  AddressInv' /\ UrlIsState'
BY DEF AddressInv, UrlIsState, location, Location

-----------------------------------------------------------------------------
(* The search box.                                                         *)

\* What timer, Enter and cross have in common.
LEMMA Submitted ==
  ASSUME Inv, NEW q \in Texts \union {NoText}, PushSearchUrl(q), SearchIfNew(q, 1),
         UNCHANGED <<filter, failures>>
  PROVE  AddressInv' /\ SearchInv' /\ FilterInv' /\ UrlIsState'
<1>1. UNCHANGED <<selected, mode, filterPage>>
  BY DEF filter
<1>2. SearchInv' /\ submitted' = q
  BY <1>1, SearchSubmitted DEF Inv, FilterInv
<1>3. /\ AddressInv'
      /\ Location' = [q |-> q, tags |-> Location.tags,
                       mode |-> Location.mode, page |-> Location.page]
  BY SearchPushed DEF Inv
<1>4. UrlIsState'
  BY <1>1, <1>2, <1>3 DEF Inv, UrlIsState
<1>5. FilterInv'
  BY FilterRests DEF Inv
<1> QED
  BY <1>2, <1>3, <1>4, <1>5

LEMMA TypingKeepsInv ==
  ASSUME Inv, Typing
  PROVE  Inv'
<1>1. ASSUME NEW text \in Texts \union {NoText}, SetQuery(text)
      PROVE  Inv'
  <2>1. AddressInv' /\ UrlIsState'
    BY <1>1, AddressRests DEF Inv, SetQuery, search, filter
  <2>2. SearchInv'
    BY <1>1, SearchRests DEF Inv, SetQuery, filter
  <2>3. FilterInv'
    BY <1>1, FilterRests DEF Inv, SetQuery
  <2> QED
    BY <1>1, <2>1, <2>2, <2>3 DEF Inv, BoxInv, SetQuery
<1>2. CASE TimerFires
  <2>1. timer \in Texts \union {NoText}
    BY <1>2 DEF Inv, BoxInv, TimerFires
  <2>2. AddressInv' /\ SearchInv' /\ FilterInv' /\ UrlIsState'
    BY <1>2, <2>1, Submitted DEF TimerFires
  <2> QED
    BY <1>2, <2>2 DEF Inv, BoxInv, TimerFires
<1>3. CASE SubmitNow
  <2>1. AddressInv' /\ SearchInv' /\ FilterInv' /\ UrlIsState'
    BY <1>3, Submitted DEF SubmitNow, Inv, BoxInv
  <2> QED
    BY <1>3, <2>1 DEF Inv, BoxInv, SubmitNow
<1>4. CASE ClearQuery
  <2>1. AddressInv' /\ SearchInv' /\ FilterInv' /\ UrlIsState'
    BY <1>4, Submitted DEF ClearQuery
  <2> QED
    BY <1>4, <2>1 DEF Inv, BoxInv, ClearQuery
<1> QED
  BY <1>1, <1>2, <1>3, <1>4 DEF Typing

-----------------------------------------------------------------------------
(* The tags.                                                               *)

LEMMA Applied ==
  ASSUME Inv, NEW tags \in SUBSET Tags, NEW m \in Modes, ApplySelection(tags, m)
  PROVE  /\ SearchInv' /\ FilterInv' /\ BoxInv' /\ failures' = failures
         /\ submitted' = submitted /\ selected' = tags /\ mode' = m /\ filterPage' = 1
<1>1. Scope(tags, m, 1)
  BY DEF Scope
<1>2. /\ FilterInv'
      /\ selected' = tags /\ mode' = m /\ filterPage' = 1
  BY <1>1, FilterRuns DEF Inv, ApplySelection
<1>3. /\ failures' = failures /\ failures \in Nat
      /\ submitted \in Texts \union {NoText}
  BY BrowserConstants DEF Inv, SearchInv, SearchType, ApplySelection
<1>4. 1 <= PagesOf(submitted, tags, m)
  BY <1>3, FirstPage
<1>5. SearchInv' /\ submitted' = submitted
  BY <1>1, <1>2, <1>3, <1>4, SearchRuns
  DEF Inv, ApplySelection, SearchInScope, ScopePage
<1>6. BoxInv'
  BY DEF Inv, BoxInv, ApplySelection, box
<1> QED
  BY <1>2, <1>3, <1>5, <1>6

\* The address of a selection, written into that of the state before.
LEMMA AddressFollows ==
  ASSUME AddressInv, UrlIsState,
         NEW tags \in SUBSET Tags, NEW m \in Modes, NEW page \in Nat \ {0},
         AddressInv', Location' = WithFilter(Location, tags, m, page),
         submitted' = submitted, selected' = tags, mode' = m, filterPage' = page,
         tags = {} => page = 1
  PROVE  UrlIsState'
BY DEF UrlIsState, WithFilter

LEMMA ChoosingKeepsInv ==
  ASSUME Inv, Choosing
  PROVE  Inv'
<1>1. Good(Location)
  BY DEF Inv, AddressInv, Location
<1>2. selected \in SUBSET Tags /\ mode \in Modes
  BY DEF Inv, FilterInv, FilterType
<1>3. "and" \in Modes
  BY DEF Modes
<1>4. ASSUME NEW tags \in SUBSET Tags, NEW m \in Modes, ApplySelection(tags, m),
             \/ PushUrl(WithFilter(Location, tags, m, 1))
             \/ ReplaceUrl(WithFilter(Location, tags, m, 1))
      PROVE  Inv'
  <2>1. /\ SearchInv' /\ FilterInv' /\ BoxInv' /\ failures' = failures
        /\ submitted' = submitted /\ selected' = tags /\ mode' = m /\ filterPage' = 1
    BY <1>4, Applied
  <2>2. Good(WithFilter(Location, tags, m, 1))
    BY <1>1, AddressOfFilter
  <2>3. AddressInv' /\ Location' = WithFilter(Location, tags, m, 1)
    BY <1>4, <2>2, Pushed, Replaced DEF Inv
  <2>4. UrlIsState'
    BY <2>1, <2>3, AddressFollows DEF Inv
  <2> QED
    BY <2>1, <2>3, <2>4 DEF Inv
<1>5. ASSUME NEW tag \in Tags, ToggleTag(tag)
      PROVE  Inv'
  <2> DEFINE tags == IF tag \in selected THEN selected \ {tag} ELSE selected \union {tag}
  <2>1. tags \in SUBSET Tags
    BY <1>2
  <2>2. ApplySelection(tags, mode) /\ PushUrl(WithFilter(Location, tags, mode, 1))
    BY <1>5 DEF ToggleTag
  <2> HIDE DEF tags
  <2> QED
    BY <1>2, <1>4, <2>1, <2>2
<1>6. CASE ChangeMode
  BY <1>2, <1>4, <1>6 DEF ChangeMode
<1>7. CASE Clear
  BY <1>3, <1>4, <1>7 DEF Clear
<1>8. CASE ClearAll
  <2> DEFINE unfiltered == WithFilter(Location, {}, "and", 1)
             plain == WithQuery(unfiltered, NoText)
  <2>1. Scope({}, "and", 1)
    BY <1>3 DEF Scope
  <2>2. /\ FilterInv'
        /\ selected' = {} /\ mode' = "and" /\ filterPage' = 1
    BY <1>8, <2>1, FilterRuns DEF Inv, ClearAll
  <2>3. SearchInv' /\ submitted' = NoText
    BY <1>8, <2>1, <2>2, SearchRuns, BrowserConstants DEF Inv, ClearAll
  <2>4. Good(unfiltered) /\ Good(plain)
    BY <1>1, <1>3, AddressOfFilter, AddressOfQuery
  <2>5. plain.q = NoText /\ plain.tags = {} /\ plain.page = 1
    BY <1>1, <1>3, <2>4, AddressOfFilter, AddressOfQuery DEF WithFilter
  <2>6. AddressInv' /\ Location' = plain
    <3> HIDE DEF unfiltered, plain
    <3> DEFINE kept == SubSeq(history, 1, at)
               both == <<unfiltered, plain>>
    <3>1. at \in Nat /\ at >= 1 /\ at <= Len(history)
      BY DEF Inv, AddressInv
    <3>2. /\ kept \in Seq(Address) /\ Len(kept) = at
          /\ \A i \in 1..at : kept[i] = history[i]
      BY <3>1, SubSeqProperties, Z3 DEF Inv, AddressInv
    <3>3. both \in Seq(Address) /\ Len(both) = 2
      BY <2>4 DEF Good
    <3>4. history' = kept \o both /\ at' = at + 2
      BY <1>8 DEF ClearAll, unfiltered, plain
    <3> HIDE DEF kept
    <3>5. /\ history' \in Seq(Address) /\ Len(history') = at + 2
          /\ \A i \in 1..at + 2 :
               history'[i] = IF i <= at THEN kept[i] ELSE both[i - at]
      BY <3>1, <3>2, <3>3, <3>4, ConcatProperties
    <3>6. \A i \in DOMAIN history' : Good(history'[i])
      <4> SUFFICES ASSUME NEW i \in 1..at + 2
                   PROVE  Good(history'[i])
        BY <3>5
      <4>1. CASE i <= at
        BY <3>1, <3>2, <3>5, <4>1 DEF Inv, AddressInv
      <4>2. CASE i = at + 1
        BY <2>4, <3>1, <3>5, <4>2
      <4>3. CASE i = at + 2
        BY <2>4, <3>1, <3>5, <4>3
      <4> QED
        BY <3>1, <4>1, <4>2, <4>3
    <3> QED
      BY <3>1, <3>4, <3>5, <3>6 DEF AddressInv, Location
  <2>7. UrlIsState'
    <3>1. Cardinality({}) = 0
      BY FS_EmptySet
    <3> QED
      BY <2>2, <2>3, <2>5, <2>6, <3>1 DEF UrlIsState
  <2> QED
    BY <1>8, <2>2, <2>3, <2>6, <2>7 DEF Inv, BoxInv, ClearAll
<1> QED
  BY <1>5, <1>6, <1>7, <1>8 DEF Choosing

-----------------------------------------------------------------------------
(* Pages and retries.                                                      *)

LEMMA PagingKeepsInv ==
  ASSUME Inv, Paging
  PROVE  Inv'
<1>1. /\ selected \in SUBSET Tags /\ mode \in Modes /\ filterPage \in Nat \ {0}
      /\ submitted \in Texts \union {NoText} /\ searchPage \in Nat \ {0}
      /\ failures \in Nat
  BY BrowserConstants DEF Inv, FilterInv, FilterType, SearchInv, SearchType
\* Only the search moves.
<1>2. ASSUME NEW page \in Nat \ {0}, SearchFor(submitted, selected, mode, page),
             failures = 0 /\ submitted # NoText
               => page <= PagesOf(submitted, selected, mode),
             UNCHANGED <<location, box, filter, failures>>
      PROVE  Inv'
  <2>1. UNCHANGED <<selected, mode, filterPage>>
    BY <1>2 DEF filter
  <2>2. SearchInv' /\ submitted' = submitted
    BY <1>1, <1>2, <2>1, SearchRuns DEF Inv, Scope
  <2>3. AddressInv' /\ UrlIsState'
    BY <1>2, <2>1, <2>2, AddressRests DEF Inv
  <2>4. FilterInv'
    BY <1>2, FilterRests DEF Inv
  <2> QED
    BY <1>2, <2>2, <2>3, <2>4 DEF Inv, BoxInv, box
<1>3. ASSUME NEW page \in 1..searchPages, SetSearchPage(page)
      PROVE  Inv'
  <2>1. /\ submitted # NoText /\ ~searchLoading /\ results # Null
        /\ page # searchPage /\ SearchIfNew(submitted, page)
        /\ UNCHANGED <<location, box, filter, failures>>
    BY <1>3 DEF SetSearchPage
  <2>2. SearchFor(submitted, selected, mode, page)
    BY <2>1 DEF SearchIfNew
  <2>3. page \in Nat \ {0} /\ page <= searchPages
    BY DEF Inv, SearchInv, SearchType
  <2>4. ASSUME failures = 0
        PROVE  searchPages = PagesOf(submitted, selected, mode)
    <3>1. results = Searched
      BY <2>1, <2>4 DEF Inv, SearchInv
    <3> QED
      BY <2>1, <3>1 DEF Inv, SearchInv, Searched, Search
  <2> QED
    BY <1>2, <2>1, <2>2, <2>3, <2>4
<1>4. CASE RetrySearch
  <2>1. failures # 0
    BY <1>4 DEF RetrySearch, Inv, SearchInv
  <2> QED
    BY <1>1, <1>2, <1>4, <2>1 DEF RetrySearch
<1>5. ASSUME NEW page \in Nat \ {0}, selected # {}, FilterBy(selected, mode, page),
             UNCHANGED <<box, search, failures>>
      PROVE  /\ SearchInv' /\ FilterInv' /\ BoxInv' /\ failures' = failures
             /\ submitted' = submitted
             /\ selected' = selected /\ mode' = mode /\ filterPage' = page
  <2>1. /\ FilterInv'
        /\ selected' = selected /\ mode' = mode /\ filterPage' = page
    BY <1>1, <1>5, FilterRuns DEF Inv, Scope
  <2>2. SearchInv' /\ submitted' = submitted
    BY <1>5, <2>1, SearchRests DEF Inv
  <2> QED
    BY <1>5, <2>1, <2>2 DEF Inv, BoxInv, box
<1>6. ASSUME NEW page \in 1..listPages, SetFilterPage(page)
      PROVE  Inv'
  <2>1. page \in Nat \ {0}
    BY DEF Inv, FilterInv, FilterType
  <2>2. /\ selected # {} /\ FilterBy(selected, mode, page)
        /\ PushUrl(WithFilter(Location, selected, mode, page))
        /\ UNCHANGED <<box, search, failures>>
    BY <1>6 DEF SetFilterPage
  <2>3. /\ SearchInv' /\ FilterInv' /\ BoxInv' /\ failures' = failures
        /\ submitted' = submitted
        /\ selected' = selected /\ mode' = mode /\ filterPage' = page
    BY <1>5, <2>1, <2>2
  <2>4. Good(WithFilter(Location, selected, mode, page))
    BY <1>1, <2>1, AddressOfFilter DEF Inv, AddressInv, Location
  <2>5. AddressInv' /\ Location' = WithFilter(Location, selected, mode, page)
    BY <2>2, <2>4, Pushed DEF Inv
  <2>6. UrlIsState'
    BY <1>1, <2>1, <2>2, <2>3, <2>5, AddressFollows DEF Inv
  <2> QED
    BY <2>3, <2>5, <2>6 DEF Inv
<1>7. CASE RetryList
  <2>1. /\ selected # {} /\ FilterBy(selected, mode, filterPage)
        /\ UNCHANGED location /\ UNCHANGED <<box, search, failures>>
    BY <1>7 DEF RetryList
  <2>2. /\ SearchInv' /\ FilterInv' /\ BoxInv' /\ failures' = failures
        /\ submitted' = submitted
        /\ selected' = selected /\ mode' = mode /\ filterPage' = filterPage
    BY <1>1, <1>5, <2>1
  <2>3. AddressInv' /\ UrlIsState'
    BY <2>1, <2>2, AddressRests DEF Inv
  <2> QED
    BY <2>2, <2>3 DEF Inv
<1> QED
  BY <1>3, <1>4, <1>6, <1>7 DEF Paging

-----------------------------------------------------------------------------
(* Opening, reloading, going back and forward.                             *)

\* What both providers restore from an address.
Opened(url) ==
  /\ query = url.q /\ submitted = url.q
  /\ searchFlights = FirstSearch(url) /\ searchLoading = (url.q # NoText)
  /\ selected = url.tags /\ mode = url.mode /\ filterPage = url.page
  /\ listFlights = FirstRequest(url) /\ listLoading = (url.tags # {})
  /\ timer = Null
  /\ searchPage = 1 /\ results = Null /\ searchPages = 1 /\ searchError = FALSE
  /\ list = Null /\ listPages = 1 /\ listError = FALSE
  /\ facets = InitialFacets /\ facetsError = FALSE

Opening == AddressInv /\ Opened(Location) /\ failures \in 0..MaxFailures

LEMMA OpenedHasInv ==
  Opening => Inv
<1> DEFINE url == Location
<1> SUFFICES ASSUME Opening PROVE Inv
  OBVIOUS
<1>0. Good(url) /\ Opened(url) /\ AddressInv /\ failures \in 0..MaxFailures
  BY DEF Opening, AddressInv, Location
<1> HIDE DEF url
<1>1. /\ url.q \in Texts \union {NoText} /\ url.tags \in SUBSET Tags
      /\ url.mode \in Modes /\ url.page \in Nat \ {0}
  BY <1>0 DEF Good, Address
<1>2. 1 <= PagesOf(url.q, url.tags, url.mode)
  BY <1>1, FirstPage
<1>3. /\ submitted = url.q /\ selected = url.tags /\ mode = url.mode
      /\ filterPage = url.page /\ searchPage = 1
  BY <1>0 DEF Opened
<1>4. FirstSearch(url) \subseteq Searches
  BY <1>1 DEF FirstSearch, Search, Searches
<1>5. FirstRequest(url) \subseteq Requests
  BY <1>1 DEF FirstRequest, Request, Requests
<1>6. SearchType
  <2>1. results = Null /\ searchPages \in Nat \ {0} /\ searchPage \in Nat \ {0}
    BY <1>0 DEF Opened
  <2>2. searchLoading \in BOOLEAN /\ searchError \in BOOLEAN
    BY <1>0 DEF Opened
  <2>3. searchFlights \subseteq Searches
    BY <1>0, <1>4 DEF Opened
  <2> QED
    BY <1>1, <1>3, <2>1, <2>2, <2>3 DEF SearchType
<1>7. FilterType
  <2>1. list = Null /\ listPages \in Nat \ {0} /\ facets = {}
    BY <1>0 DEF Opened, InitialFacets
  <2>2. listLoading \in BOOLEAN /\ listError \in BOOLEAN /\ facetsError \in BOOLEAN
    BY <1>0 DEF Opened
  <2>3. listFlights \subseteq Requests
    BY <1>0, <1>5 DEF Opened
  <2> QED
    BY <1>1, <1>3, <2>1, <2>2, <2>3 DEF FilterType
<1>8. SearchInv
  <2>1. searchFlights \subseteq {Searched}
    BY <1>0, <1>3 DEF Opened, FirstSearch, Searched
  <2>2. submitted = NoText => searchFlights = {} /\ results = Null
    BY <1>0, <1>3 DEF Opened, FirstSearch
  <2>3. submitted # NoText => searchLoading
    BY <1>0 DEF Opened
  <2>4. ~searchError /\ results = Null
    BY <1>0 DEF Opened
  <2>5. PageOfScope
    BY <1>2, <1>3 DEF PageOfScope
  <2> QED
    BY <1>6, <2>1, <2>2, <2>3, <2>4, <2>5 DEF SearchInv
<1>9. FilterInv
  <2>1. /\ listFlights \subseteq {Request(selected, mode, filterPage)}
        /\ selected = {} => listFlights = {}
    BY <1>0, <1>3 DEF Opened, FirstRequest
  <2>2. ListOfFilter
    BY <1>0, <1>3 DEF Opened, ListOfFilter
  <2> QED
    BY <1>7, <2>1, <2>2 DEF FilterInv
<1>10. UrlIsState
  BY <1>3 DEF UrlIsState, url
<1>11. BoxInv
  BY <1>0, <1>1 DEF Opened, BoxInv
<1> QED
  BY <1>0, <1>8, <1>9, <1>10, <1>11 DEF Inv

LEMMA OpenedHasInvAfterwards ==
  Opening' => Inv'
BY OpenedHasInv, PTL

LEMMA InitHasInv ==
  ASSUME Init
  PROVE  Inv
<1>1. PICK url \in Links : history = <<url>> /\ Opened(url)
  BY DEF Init, Opened
<1>2. Good(url)
  BY BrowserConstants DEF Good
<1>3. at = 1 /\ failures = 0
  BY DEF Init
<1>4. AddressInv /\ Location = url
  BY <1>1, <1>2, <1>3 DEF AddressInv, Location, Good
<1> QED
  BY <1>1, <1>3, <1>4, OpenedHasInv, BrowserConstants DEF Opening

LEMMA MovingKeepsInv ==
  ASSUME Inv, Moving
  PROVE  Inv'
<1>1. CASE Reload
  <2>1. Opening'
    <3>1. AddressInv' /\ Location' = Location
      BY <1>1 DEF Reload, Inv, AddressInv, Location, location
    <3>2. Opened(Location)'
      BY <1>1, <3>1 DEF Reload, Opened
    <3>3. failures' \in 0..MaxFailures
      BY <1>1 DEF Reload, Inv
    <3> QED
      BY <3>1, <3>2, <3>3 DEF Opening
  <2> QED
    BY <2>1, OpenedHasInvAfterwards
<1>2. ASSUME NEW entry \in 1..MaxHistory, Go(entry)
      PROVE  Inv'
  <2> DEFINE url == history[entry]
  <2>1. Good(url)
    BY <1>2 DEF Go, Inv, AddressInv
  <2>2. /\ url.q \in Texts \union {NoText} /\ Scope(url.tags, url.mode, 1)
        /\ Scope(url.tags, url.mode, url.page)
    BY <2>1 DEF Good, Address, Scope
  <2>3. /\ FilterInv'
        /\ selected' = url.tags /\ mode' = url.mode /\ filterPage' = url.page
    BY <1>2, <2>2, FilterRuns DEF Inv, Go
  <2>4. failures' = failures /\ failures \in Nat
    BY <1>2, BrowserConstants DEF Inv, Go
  <2>5. 1 <= PagesOf(url.q, url.tags, url.mode)
    BY <2>2, FirstPage DEF Scope
  <2>6. SearchInv' /\ submitted' = url.q
    BY <1>2, <2>2, <2>3, <2>4, <2>5, SearchRuns DEF Inv, Go
  <2>7. AddressInv' /\ Location' = url
    BY <1>2 DEF Go, Inv, AddressInv, Location
  <2>8. UrlIsState'
    BY <2>3, <2>6, <2>7 DEF UrlIsState
  <2> QED
    BY <1>2, <2>2, <2>3, <2>4, <2>6, <2>7, <2>8 DEF Go, Inv, BoxInv
<1> QED
  BY <1>1, <1>2 DEF Moving

-----------------------------------------------------------------------------
(* Answers.                                                                *)

LEMMA AnsweringKeepsInv ==
  ASSUME Inv, Answering
  PROVE  Inv'
<1>1. failures \in Nat /\ MaxFailures \in Nat
  BY BrowserConstants DEF Inv
\* Only the search moves.
<1>2. ASSUME UNCHANGED <<location, box, filter, submitted>>, SearchInv',
             failures' \in 0..MaxFailures
      PROVE  Inv'
  <2>1. UNCHANGED <<selected, mode, filterPage>>
    BY <1>2 DEF filter
  <2>2. AddressInv' /\ UrlIsState'
    BY <1>2, <2>1, AddressRests DEF Inv
  <2> QED
    BY <1>2, <2>2, FilterRests DEF Inv, BoxInv, box
<1>3. ASSUME NEW request \in searchFlights, SearchAnswered(request)
      PROVE  Inv'
  <2>1. /\ results' = request /\ searchLoading' = FALSE
        /\ searchPages' = PagesOf(request.q, request.tags, request.mode)
        /\ searchFlights' = searchFlights \ {request}
        /\ UNCHANGED <<location, box, filter, failures, submitted, searchPage, searchError>>
    BY <1>3 DEF SearchAnswered
  <2>2. UNCHANGED <<selected, mode>>
    BY <2>1 DEF filter
  <2>3. /\ request = Searched /\ request \in Searches /\ submitted # NoText
        /\ Searched' = Searched
    BY <1>3, <2>1, <2>2 DEF Inv, SearchInv, SearchType, Searched
  <2>4. /\ request.q \in Texts /\ request.tags \in SUBSET Tags /\ request.mode \in Modes
    BY <2>3 DEF Searches
  <2>5. searchPages' \in Nat \ {0}
    BY <2>1, <2>4, BrowserConstants
  <2>6. SearchType'
    BY <2>1, <2>3, <2>5 DEF Inv, SearchInv, SearchType
  <2>7. SearchInv'
    BY <2>1, <2>2, <2>3, <2>6 DEF Inv, SearchInv, PageOfScope
  <2> QED
    BY <1>2, <2>1, <2>7 DEF Inv
<1>4. ASSUME NEW request \in searchFlights, SearchFails(request)
      PROVE  Inv'
  <2>1. /\ searchError' = TRUE /\ searchLoading' = FALSE
        /\ failures < MaxFailures /\ failures' = failures + 1
        /\ searchFlights' = searchFlights \ {request}
        /\ UNCHANGED <<location, box, filter, submitted, searchPage, results, searchPages>>
    BY <1>4 DEF SearchFails
  <2>2. UNCHANGED <<selected, mode>>
    BY <2>1 DEF filter
  <2>3. Searched' = Searched
    BY <2>1, <2>2 DEF Searched
  <2>4. failures' \in 0..MaxFailures /\ failures' # 0
    BY <1>1, <2>1
  <2>5. SearchType'
    BY <2>1 DEF Inv, SearchInv, SearchType
  <2>6. SearchInv'
    BY <2>1, <2>2, <2>3, <2>4, <2>5 DEF Inv, SearchInv, PageOfScope
  <2> QED
    BY <1>2, <2>1, <2>4, <2>6
\* Only the list moves.
<1>5. ASSUME UNCHANGED <<location, box, search, selected, mode, filterPage>>,
             failures' \in {failures, failures + 1}, failures' \in 0..MaxFailures,
             FilterInv'
      PROVE  Inv'
  <2>1. UNCHANGED <<submitted, searchPage, results, searchPages, searchLoading,
                    searchError, searchFlights>>
    BY <1>5 DEF search
  <2>2. AddressInv' /\ UrlIsState'
    BY <1>5, <2>1, AddressRests DEF Inv
  <2>3. Searched' = Searched
    BY <1>5, <2>1 DEF Searched
  <2>4. SearchType'
    BY <2>1 DEF Inv, SearchInv, SearchType
  <2>5. failures' = 0 => failures = 0
    BY <1>1, <1>5
  <2>6. SearchInv'
    BY <1>5, <2>1, <2>3, <2>4, <2>5 DEF Inv, SearchInv, PageOfScope
  <2> QED
    BY <1>5, <2>2, <2>6 DEF Inv, BoxInv, box
<1>6. ASSUME NEW request \in listFlights
      PROVE  /\ request = Request(selected, mode, filterPage)
             /\ request \in Requests /\ selected # {}
             /\ PagesOf(NoText, request.tags, request.mode) \in Nat \ {0}
             /\ request.tags = selected /\ request.mode = mode
  <2>1. request = Request(selected, mode, filterPage) /\ request \in Requests
        /\ selected # {}
    BY <1>6 DEF Inv, FilterInv, FilterType
  <2>2. request.tags = selected /\ request.mode = mode
    BY <2>1 DEF Request
  <2> QED
    BY <2>1, <2>2, BrowserConstants DEF Inv, FilterInv, FilterType
<1>7. ASSUME NEW request \in listFlights, ListAnswered(request)
      PROVE  Inv'
  <2>1. /\ list' = request /\ listLoading' = FALSE
        /\ listPages' = PagesOf(NoText, request.tags, request.mode)
        /\ listFlights' = listFlights \ {request}
        /\ UNCHANGED <<location, box, search, selected, mode, filterPage, listError>>
        /\ facets' = FacetsOf(request) /\ facetsError' = FALSE /\ failures' = failures
    BY <1>7 DEF ListAnswered, ListArrived
  <2>2. facets' = IF mode = "or" THEN {} ELSE selected
    BY <1>6, <2>1 DEF FacetsOf, InitialFacets
  <2>3. facets' \in SUBSET Tags
    BY <2>2 DEF Inv, FilterInv, FilterType
  <2>4. FilterType'
    BY <1>6, <2>1, <2>3 DEF Inv, FilterInv, FilterType
  <2>5. ListOfFilter'
    BY <1>6, <2>1, <2>2 DEF ListOfFilter
  <2>6. FilterInv'
    BY <1>6, <2>1, <2>4, <2>5 DEF Inv, FilterInv
  <2> QED
    BY <1>5, <2>1, <2>6 DEF Inv
<1>8. ASSUME NEW request \in listFlights, FacetsFail(request)
      PROVE  Inv'
  <2>1. /\ list' = request /\ listLoading' = FALSE
        /\ listPages' = PagesOf(NoText, request.tags, request.mode)
        /\ listFlights' = listFlights \ {request}
        /\ UNCHANGED <<location, box, search, selected, mode, filterPage, listError>>
        /\ facets' = facets /\ facetsError' = TRUE
        /\ failures < MaxFailures /\ failures' = failures + 1
    BY <1>8 DEF FacetsFail, ListArrived
  <2>2. FilterType'
    BY <1>6, <2>1 DEF Inv, FilterInv, FilterType
  <2>3. ListOfFilter'
    BY <1>6, <2>1 DEF ListOfFilter
  <2>4. FilterInv'
    BY <1>6, <2>1, <2>2, <2>3 DEF Inv, FilterInv
  <2>5. failures' \in 0..MaxFailures
    BY <1>1, <2>1
  <2> QED
    BY <1>5, <2>1, <2>4, <2>5
<1>9. ASSUME NEW request \in listFlights, ListFails(request)
      PROVE  Inv'
  <2>1. /\ listError' = TRUE /\ listLoading' = FALSE
        /\ listFlights' = listFlights \ {request}
        /\ UNCHANGED <<location, box, search, selected, mode, filterPage,
                       list, listPages, facets, facetsError>>
        /\ failures < MaxFailures /\ failures' = failures + 1
    BY <1>9 DEF ListFails
  <2>2. FilterType'
    BY <2>1 DEF Inv, FilterInv, FilterType
  <2>3. ListOfFilter'
    BY <1>6, <2>1 DEF ListOfFilter
  <2>4. FilterInv'
    BY <2>1, <2>2, <2>3 DEF Inv, FilterInv
  <2>5. failures' \in 0..MaxFailures
    BY <1>1, <2>1
  <2> QED
    BY <1>5, <2>1, <2>4, <2>5
<1> QED
  BY <1>3, <1>4, <1>7, <1>8, <1>9 DEF Answering

-----------------------------------------------------------------------------
LEMMA RestKeepsInv ==
  ASSUME Inv, UNCHANGED vars
  PROVE  Inv'
<1>1. /\ UNCHANGED <<location, box, search, filter, failures>>
      /\ UNCHANGED <<submitted, selected, mode, filterPage>>
  BY DEF vars, search, filter
<1> QED
  BY <1>1, AddressRests, SearchRests, FilterRests DEF Inv, BoxInv, box

\* Address, box, search and filter fit together in every state of the tab.
THEOREM InvHolds == Spec => []Inv
<1>1. Inv /\ [Next]_vars => Inv'
  BY TypingKeepsInv, ChoosingKeepsInv, PagingKeepsInv, MovingKeepsInv,
     AnsweringKeepsInv, RestKeepsInv DEF Next
<1> QED
  BY <1>1, InitHasInv, PTL DEF Spec

\* The state of the tab keeps the shapes the providers declare
\* (SearchProvider.tsx:76-92, TagFilterProvider.tsx:97-112).
THEOREM BrowserTypeCorrect == Spec => []TypeOK
<1>1. Inv => TypeOK
  BY DEF Inv, TypeOK, AddressInv, BoxInv, SearchInv, SearchType, FilterInv, FilterType
<1> QED
  BY <1>1, InvHolds, PTL

\* However the debounce timer, clicks and the history interleave, the address
\* says what is shown (TagFilterProvider.tsx:202-212, SearchProvider.tsx:168-177).
THEOREM UrlIsStateHolds == Spec => []UrlIsState
<1>1. Inv => UrlIsState
  BY DEF Inv
<1> QED
  BY <1>1, InvHolds, PTL

\* A settled search shows what is asked for now (SearchProvider.tsx:107-165).
THEOREM ResultsOfSearchHolds == Spec => []ResultsOfSearch
<1>1. Inv => ResultsOfSearch
  BY DEF Inv, SearchInv, ResultsOfSearch, Searched
<1> QED
  BY <1>1, InvHolds, PTL

\* A settled list and its facets are those of the filter
\* (TagFilterProvider.tsx:131-190).
THEOREM ListOfFilterHolds == Spec => []ListOfFilter
<1>1. Inv => ListOfFilter
  BY DEF Inv, FilterInv
<1> QED
  BY <1>1, InvHolds, PTL

\* A page number is not carried into a smaller scope while nothing has failed
\* (SearchProvider.tsx:125-130).
THEOREM PageOfScopeHolds == Spec => []PageOfScope
<1>1. Inv => PageOfScope
  BY DEF Inv, SearchInv
<1> QED
  BY <1>1, InvHolds, PTL
=============================================================================
