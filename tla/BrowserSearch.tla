---------------------------- MODULE BrowserSearch ----------------------------
(***************************************************************************)
(* The article list of the blog in one browser tab.  TagFilterProvider     *)
(* keeps the selected tags, SearchProvider the search text; each writes    *)
(* its own parameters into the one URL of the page, restores them when the *)
(* reader moves through the history, and fetches what the list shows.      *)
(*                                                                         *)
(* A step is one event: a click or a key with the render and the effects   *)
(* React runs for it, the debounce timer, an answer or a failure of the    *)
(* API, a move through the history, a reload.  The answer of a request is  *)
(* represented by the request it answers; the text of the box is taken     *)
(* without the blanks around it.                                           *)
(***************************************************************************)
EXTENDS Naturals, Sequences, FiniteSets

CONSTANTS
  Texts,         \* what the reader may type, the empty text excepted
  Tags,          \* the tags of the articles
  Links,         \* the addresses a tab may be opened at
  PagesOf(_, _, _),  \* how many pages a text, tags and a mode have
  MaxHistory,    \* bound: entries in the history of the tab
  MaxFailures,   \* bound: requests that fail
  Null

VARIABLES
  history, at,                     \* the entries of the tab, and the current one
  query, timer,                    \* the text in the box, the text of the debounce timer
  submitted, searchPage,           \* what is searched for
  results, searchPages,            \* setResults, setSearchTotalPages
  searchLoading, searchError, searchFlights,
  selected, mode, filterPage,      \* what is filtered by
  list, listPages, facets, facetsError,
  listLoading, listError, listFlights,
  failures

location == <<history, at>>
box == <<query, timer>>
search == <<submitted, searchPage, results, searchPages,
            searchLoading, searchError, searchFlights>>
filter == <<selected, mode, filterPage, list, listPages, facets, facetsError,
            listLoading, listError, listFlights>>
vars == <<location, box, search, filter, failures>>

NoText == ""
Modes == {"and", "or"}
Address == [q : Texts \union {NoText}, tags : SUBSET Tags, mode : Modes, page : Nat \ {0}]
Location == history[at]

Request(tags, m, page) == [tags |-> tags, mode |-> m, page |-> page]
Search(q, tags, m, page) == [q |-> q, tags |-> tags, mode |-> m, page |-> page]

ASSUME BrowserConstants ==
  /\ Links \subseteq Address
  /\ \A url \in Links : url.tags = {} => url.page = 1
  /\ \A q \in Texts \union {NoText}, tags \in SUBSET Tags, m \in Modes :
       PagesOf(q, tags, m) \in Nat \ {0}
  /\ NoText \notin Texts
  /\ MaxHistory \in Nat /\ MaxFailures \in Nat

InitialFacets == {}        \* the facets rendered by the server: of no tag

-----------------------------------------------------------------------------
(* The two writers of the address.                                         *)

\* Slip: the filter's writer forgets that the search text is not its own.
FilterOnly(url, tags, m, page) ==
  [q |-> NoText, tags |-> tags, page |-> page,
   mode |-> IF Cardinality(tags) >= 2 THEN m ELSE "and"]

WithFilter(url, tags, m, page) ==
  [q |-> url.q, tags |-> tags,
   page |-> IF tags = {} THEN 1 ELSE page,
   mode |-> IF Cardinality(tags) >= 2 THEN m ELSE "and"]

WithQuery(url, q) == [url EXCEPT !.q = q]

PushUrl(url) ==
  /\ at < MaxHistory
  /\ history' = Append(SubSeq(history, 1, at), url)
  /\ at' = at + 1

ReplaceUrl(url) == history' = [history EXCEPT ![at] = url] /\ UNCHANGED at

PushSearchUrl(q) ==
  IF Location.q = q THEN UNCHANGED location ELSE PushUrl(WithQuery(Location, q))

-----------------------------------------------------------------------------
(* The effects that fetch.  Each cancels the request of the run before it. *)

\* Slip: the request before it is left running.
AlsoRunning(before, request) == before \union {request}
OnlyRunning(before, request) == {request}

\* The effect of SearchProvider, for the values it is rendered with.
SearchFor(q, tags, m, page) ==
  /\ submitted' = q
  /\ searchPage' = page
  /\ searchError' = FALSE
  /\ \/ /\ q = NoText
        /\ results' = Null
        /\ searchPages' = 1
        /\ searchLoading' = FALSE
        /\ searchFlights' = {}
     \/ /\ q # NoText
        /\ searchLoading' = TRUE
        /\ searchFlights' = OnlyRunning(searchFlights, Search(q, tags, m, page))
        /\ UNCHANGED <<results, searchPages>>

\* The effect depends on what is searched for: setting the same values again
\* does not run it.
SearchIfNew(q, page) ==
  IF q = submitted /\ page = searchPage
  THEN UNCHANGED search
  ELSE SearchFor(q, selected, mode, page)

\* Slip: the page number of the old scope is kept.
SamePage(page) == page
ScopePage(page) == 1

\* Other tags or another mode: the search runs again, from its first page.
SearchInScope(tags, m) == SearchFor(submitted, tags, m, ScopePage(searchPage))

\* The effect of TagFilterProvider.
FilterBy(tags, m, page) ==
  /\ selected' = tags
  /\ mode' = m
  /\ filterPage' = page
  /\ listError' = FALSE
  /\ UNCHANGED listPages
  /\ \/ /\ tags = {}
        /\ list' = Null
        /\ facets' = InitialFacets
        /\ facetsError' = FALSE
        /\ listFlights' = {}
        /\ UNCHANGED listLoading
     \/ /\ tags # {}
        /\ listLoading' = TRUE
        /\ listFlights' = OnlyRunning(listFlights, Request(tags, m, page))
        /\ UNCHANGED <<list, facets, facetsError>>

-----------------------------------------------------------------------------
(* A tab is opened at a link: both providers restore their state from it.  *)

FirstSearch(url) ==
  IF url.q = NoText THEN {} ELSE {Search(url.q, url.tags, url.mode, 1)}
FirstRequest(url) ==
  IF url.tags = {} THEN {} ELSE {Request(url.tags, url.mode, url.page)}

Init ==
  /\ \E url \in Links :
       /\ history = <<url>> /\ query = url.q /\ submitted = url.q
       /\ searchFlights = FirstSearch(url) /\ searchLoading = (url.q # NoText)
       /\ selected = url.tags /\ mode = url.mode /\ filterPage = url.page
       /\ listFlights = FirstRequest(url) /\ listLoading = (url.tags # {})
  /\ at = 1 /\ timer = Null /\ failures = 0
  /\ searchPage = 1 /\ results = Null /\ searchPages = 1 /\ searchError = FALSE
  /\ list = Null /\ listPages = 1 /\ listError = FALSE
  /\ facets = InitialFacets /\ facetsError = FALSE

\* Neither the timer nor any request or answer outlives the page.
Reload ==
  /\ query' = Location.q /\ submitted' = Location.q
  /\ searchFlights' = FirstSearch(Location) /\ searchLoading' = (Location.q # NoText)
  /\ selected' = Location.tags /\ mode' = Location.mode /\ filterPage' = Location.page
  /\ listFlights' = FirstRequest(Location) /\ listLoading' = (Location.tags # {})
  /\ timer' = Null
  /\ searchPage' = 1 /\ results' = Null /\ searchPages' = 1 /\ searchError' = FALSE
  /\ list' = Null /\ listPages' = 1 /\ listError' = FALSE
  /\ facets' = InitialFacets /\ facetsError' = FALSE
  /\ UNCHANGED <<location, failures>>

-----------------------------------------------------------------------------
(* The search box.                                                         *)

\* SearchProvider.setQuery: a key starts the debounce timer anew.
SetQuery(text) ==
  /\ text # query
  /\ query' = text
  /\ timer' = text
  /\ UNCHANGED <<location, search, filter, failures>>

TimerFires ==
  /\ timer # Null
  /\ PushSearchUrl(timer)
  /\ SearchIfNew(timer, 1)
  /\ timer' = Null
  /\ UNCHANGED <<query, filter, failures>>

\* SearchProvider.submitNow: the Enter key.
SubmitNow ==
  /\ PushSearchUrl(query)
  /\ SearchIfNew(query, 1)
  /\ timer' = Null
  /\ UNCHANGED <<query, filter, failures>>

\* SearchProvider.clearQuery: the cross of the box or of the chip, Escape.
ClearQuery ==
  /\ query # NoText \/ submitted # NoText
  /\ PushSearchUrl(NoText)
  /\ SearchIfNew(NoText, 1)
  /\ query' = NoText /\ timer' = Null
  /\ UNCHANGED <<filter, failures>>

\* The pages of the results are offered once the results are there.
SetSearchPage(page) ==
  /\ submitted # NoText /\ ~searchLoading /\ results # Null
  /\ results.page <= searchPages
  /\ page # searchPage
  /\ SearchIfNew(submitted, page)
  /\ UNCHANGED <<location, box, filter, failures>>

\* Offered after a failure that left nothing to show.
RetrySearch ==
  /\ submitted # NoText /\ searchError /\ results = Null
  /\ SearchFor(submitted, selected, mode, searchPage)
  /\ UNCHANGED <<location, box, filter, failures>>

-----------------------------------------------------------------------------
(* The tags.                                                               *)

\* TagFilterProvider.applySelection, with or without a new history entry.
ApplySelection(tags, m) ==
  /\ FilterBy(tags, m, 1)
  /\ SearchInScope(tags, m)
  /\ UNCHANGED <<box, failures>>

ToggleTag(tag) ==
  LET tags == IF tag \in selected THEN selected \ {tag} ELSE selected \union {tag}
  IN ApplySelection(tags, mode) /\ PushUrl(WithFilter(Location, tags, mode, 1))

ChangeMode ==
  /\ selected # {}
  /\ \E m \in Modes \ {mode} :
       ApplySelection(selected, m) /\ ReplaceUrl(WithFilter(Location, selected, m, 1))

\* Clears the tags and leaves the search (SearchModal, FilteredArticleList).
Clear ==
  /\ selected # {}
  /\ ApplySelection({}, "and")
  /\ PushUrl(WithFilter(Location, {}, "and", 1))

\* ActiveFilterBar.clearAll while a search is on: two entries for one click.
ClearAll ==
  /\ submitted # NoText
  /\ at + 1 < MaxHistory
  /\ LET unfiltered == WithFilter(Location, {}, "and", 1)
     IN history' = SubSeq(history, 1, at) \o <<unfiltered, WithQuery(unfiltered, NoText)>>
  /\ at' = at + 2
  /\ FilterBy({}, "and", 1)
  /\ SearchFor(NoText, {}, "and", 1)
  /\ query' = NoText /\ timer' = Null
  /\ UNCHANGED failures

SetFilterPage(page) ==
  /\ submitted = NoText /\ selected # {} /\ ~listLoading /\ list # Null
  /\ list.page <= listPages
  /\ page # filterPage
  /\ FilterBy(selected, mode, page)
  /\ PushUrl(WithFilter(Location, selected, mode, page))
  /\ UNCHANGED <<box, search, failures>>

RetryList ==
  /\ submitted = NoText /\ selected # {} /\ listError /\ list = Null
  /\ FilterBy(selected, mode, filterPage)
  /\ UNCHANGED <<location, box, search, failures>>

-----------------------------------------------------------------------------
(* Back and forward: the two popstate listeners.  The timer runs on.       *)

Go(entry) ==
  /\ entry \in DOMAIN history \ {at}
  /\ at' = entry
  /\ LET url == history[entry]
     IN /\ query' = url.q
        /\ SearchFor(url.q, url.tags, url.mode, 1)
        /\ FilterBy(url.tags, url.mode, url.page)
  /\ UNCHANGED <<history, timer, failures>>

-----------------------------------------------------------------------------
(* The API.                                                                *)

SearchAnswered(request) ==
  /\ results' = request
  /\ searchPages' = PagesOf(request.q, request.tags, request.mode)
  /\ searchLoading' = FALSE
  /\ searchFlights' = searchFlights \ {request}
  /\ UNCHANGED <<location, box, filter, failures, submitted, searchPage, searchError>>

SearchFails(request) ==
  /\ failures < MaxFailures
  /\ failures' = failures + 1
  /\ searchError' = TRUE
  /\ searchLoading' = FALSE
  /\ searchFlights' = searchFlights \ {request}
  /\ UNCHANGED <<location, box, filter, submitted, searchPage, results, searchPages>>

ListArrived(request) ==
  /\ list' = request
  /\ listPages' = PagesOf(NoText, request.tags, request.mode)
  /\ listLoading' = FALSE
  /\ listFlights' = listFlights \ {request}
  /\ UNCHANGED <<location, box, search, selected, mode, filterPage, listError>>

\* Slip: the facets of the mode "or" are taken from the tags too.
FacetsOfTags(request) == request.tags
FacetsOf(request) == IF request.mode = "or" THEN InitialFacets ELSE request.tags

ListAnswered(request) ==
  /\ ListArrived(request)
  /\ facets' = FacetsOf(request)
  /\ facetsError' = FALSE
  /\ UNCHANGED failures

\* The list is shown although its facets failed; "or" asks for none.
FacetsFail(request) ==
  /\ request.mode = "and"
  /\ failures < MaxFailures
  /\ failures' = failures + 1
  /\ ListArrived(request)
  /\ facetsError' = TRUE
  /\ UNCHANGED facets

ListFails(request) ==
  /\ failures < MaxFailures
  /\ failures' = failures + 1
  /\ listError' = TRUE
  /\ listLoading' = FALSE
  /\ listFlights' = listFlights \ {request}
  /\ UNCHANGED <<location, box, search, selected, mode, filterPage,
                 list, listPages, facets, facetsError>>

-----------------------------------------------------------------------------
Typing ==
  \/ \E text \in Texts \union {NoText} : SetQuery(text)
  \/ TimerFires
  \/ SubmitNow
  \/ ClearQuery

Choosing ==
  \/ \E tag \in Tags : ToggleTag(tag)
  \/ ChangeMode
  \/ Clear
  \/ ClearAll

Paging ==
  \/ \E page \in 1..searchPages : SetSearchPage(page)
  \/ \E page \in 1..listPages : SetFilterPage(page)
  \/ RetrySearch
  \/ RetryList

Moving == Reload \/ \E entry \in 1..MaxHistory : Go(entry)

Answering ==
  \/ \E request \in searchFlights : SearchAnswered(request) \/ SearchFails(request)
  \/ \E request \in listFlights :
       ListAnswered(request) \/ FacetsFail(request) \/ ListFails(request)

Next == Typing \/ Choosing \/ Paging \/ Moving \/ Answering

Spec == Init /\ [][Next]_vars

-----------------------------------------------------------------------------
Searches == [q : Texts, tags : SUBSET Tags, mode : Modes, page : Nat \ {0}]
Requests == [tags : (SUBSET Tags) \ {{}}, mode : Modes, page : Nat \ {0}]

\* The state of the tab has the shapes the two providers declare.
TypeOK ==
  /\ history \in Seq(Address) /\ at \in DOMAIN history
  /\ query \in Texts \union {NoText} /\ timer \in Texts \union {NoText, Null}
  /\ submitted \in Texts \union {NoText} /\ searchPage \in Nat \ {0}
  /\ results \in Searches \union {Null} /\ searchPages \in Nat \ {0}
  /\ searchFlights \subseteq Searches
  /\ selected \in SUBSET Tags /\ mode \in Modes /\ filterPage \in Nat \ {0}
  /\ list \in Requests \union {Null} /\ listPages \in Nat \ {0}
  /\ facets \in SUBSET Tags
  /\ listFlights \subseteq Requests
  /\ {searchLoading, searchError, listLoading, listError, facetsError} \subseteq BOOLEAN
  /\ failures \in 0..MaxFailures

\* The address bar says what the list shows: the two providers write their
\* parameters from different places and at different times, the debounce timer
\* long after the key, and neither loses the other's.  (The mode counts from
\* two tags on; with fewer the address leaves it out.)
UrlIsState ==
  /\ Location.q = submitted
  /\ Location.tags = selected
  /\ Location.page = filterPage
  /\ Cardinality(selected) >= 2 => Location.mode = mode

\* A search that has settled without an error shows the results of the text,
\* tags, mode and page now asked for, whatever was typed, selected, answered or
\* given up in between; without a search there are none.
ResultsOfSearch ==
  /\ submitted = NoText => results = Null
  /\ submitted # NoText /\ ~searchLoading /\ ~searchError
       => results = Search(submitted, selected, mode, searchPage)

\* A filtered list that has settled without an error is the one of the tags,
\* mode and page now selected, and so are the tag counts of the panel unless
\* the panel says they are not; without tags both are those of the server.
ListOfFilter ==
  /\ selected = {} => list = Null /\ facets = InitialFacets /\ ~facetsError
  /\ selected # {} /\ ~listLoading /\ ~listError
       => /\ list = Request(selected, mode, filterPage)
          /\ facetsError \/ facets = (IF mode = "or" THEN {} ELSE selected)

\* As long as no request has failed, the page of the results that is asked for
\* exists: a page number of one scope is never carried into a smaller one.
PageOfScope ==
  failures = 0 /\ submitted # NoText
    => searchPage <= PagesOf(submitted, selected, mode)
=============================================================================
