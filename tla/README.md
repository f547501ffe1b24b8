# A TLA+ model of shuntaka-dev

The repository is a personal blog platform: a Rust API (`apps/blog-api`) that
mirrors articles and labs from GitHub into TiDB, an OAuth-protected MCP server
(`apps/mcp-server`), an admin API (`apps/admin-api`) with its front end, the
public site (`apps/web`), a reader for labs (`apps/labs-web`), a TCP forwarder
to the database (`apps/tidb-proxy`), operator tools (`tools/*`) and CDK stacks
(`iac/aws`).

This directory holds TLA+ modules of the parts where the order of steps
matters, TLC configurations that check them on small instances, and TLAPS
proofs for all instances. To check a run: `tlc -config X.cfg M`; to check a
module of proofs: `tlapm M.tla`.

Contents: [inventory](#inventory) - [plan](#plan) -
[token endpoint](#the-token-endpoint) -
[authorization flow](#the-authorization-flow) -
[article mirror](#the-article-mirror) - [lab mirror](#the-lab-mirror) -
[admin session](#the-admin-session) - [daily checklist](#the-daily-checklist) -
[search and filter](#search-and-filter-in-the-browser) -
[moments](#moments) - [proofs](#proofs) -
[where code and documents differ](#where-code-and-documents-differ) -
[what is left out](#what-is-left-out).

## Inventory

| Component | State it keeps | Operations | Hard behaviour | What makes it correct |
|---|---|---|---|---|
| Token endpoint and bearer check, `mcp-server/src/oauth/index.ts` | items `client#`, `code#`, `grant#` in DynamoDB; the login in Cognito | `exchangeAuthorizationCode`, `refreshGrant`, `authenticate` | requests in parallel Lambda environments, conditional writes and retries, lost answers, ttl rounded to seconds, deletion later than expiry, sign-out at any time | a code is redeemed once; a client that retries gets the same successor; a superseded token ends the grant for good; nothing outlives the login |
| OAuth store, `dynamodb-store.ts` | items with a ttl | `get`, `put`, `take`, `replace`, `delete` | expired items stay for a while; the SDK repeats a conditional put | reads hide what has expired; of two replaces one wins |
| Authorization flow, `oauth/index.ts:527-701` | items `client#`, `txn#`, `code#`; the binding cookie of a browser | register, authorize, consent, callback | get and put of a transaction are two calls; forms are sent twice, links opened in another browser | a code needs an approval in the browser that began; a denial is final |
| Article mirror, `blog-api/api/src/handler/webhooks.rs`, `adapter/src/repository/articles.rs` | `articles`, `articles_tags`, `tag_article_counts`, `articles_chunks` | one asynchronous invocation per push: list, fetch, compare, upsert, embed | invocations overlap, are repeated and lost; each file fails by itself; comparison with rows read earlier | rows equal a commit, HTML belongs to its body, counts are exact, publication date is kept |
| Lab mirror, `webhooks.rs:664-`, `adapter/src/repository/labs.rs` | `labs`, `lab_chapters`, S3 objects | tree, configuration, images, chapters, hard deletes | as above, and deletion by one worker of what another is writing | tables and bucket equal a commit; failures delete nothing; no chapter without its lab |
| Tag hierarchy, `articles.rs:85-175`, `kernel/src/model/article.rs` | `tags` with parents | find-or-create, roll-up | names are unique across parents | sync converges, counts include descendants |
| `tidb-embedder`, `content-html-backfill` | snapshot in memory | repair chunks, fill HTML | run next to webhooks | an undisturbed run repairs what it is for |
| Admin session, `admin-api/src/auth/*`, `admin-web/src/features/auth` | table of sessions, cookie, Cognito login, page shown | login, guard, silent refresh, logout, sweep | concurrent refreshes, refresh against logout, outage of Cognito | a session ends for a cause, stays ended, and serves no longer than it may |
| TODO lists, `admin-api/src/routes/todo.ts`, `todo/*` | settings, templates, daily items; quick items, shopping, meals | save template, daily batch, generate by hand, tick off a subtree | at-least-once batch, template replaced on the same day, statements without a transaction | a day comes, is drawn whole, and what is ticked stays so |
| Moments, `admin-api/src/routes/moments.ts`, `routes/images.ts`, `admin-web/src/features/moment-form`, `pages/moments` | table `moments`, images in S3, state and refs of the form, cached queries | choose a photo, upload, preview, save, publish, withdraw, delete, page | uploads that take seconds, second submissions, read-modify-write, stale forms | a photo is complete and belongs to its date; one moment per form; first publication date is kept |
| Search and tag filter, `web/src/components/*Provider.tsx` | React state, URL, timers, requests in flight | type, submit, back, filter, page | debounce against navigation, late answers | what is shown belongs to the URL |
| Forwarder, `tidb-proxy/cmd/forwarder` | two copy loops per connection | accept, dial, copy, close | half-open connections | every connection ends |
| Admin front end, labs front end, pages | forms, caches | submit, render | double submission | one moment per submission |
| MCP tools, read API, clients, Markdown, schema, CDK | none of their own | queries, one request each, pure functions, declarations | - | - |

Components meet in three places. TiDB is written by webhook workers, by the
operator tools and by the admin API, and read by the rest. The OAuth store and
Cognito are shared by all environments of the MCP server. GitHub tells the
blog API of a push with a webhook; the handler that receives it verifies,
invokes its own Lambda function asynchronously with the event and answers
(`webhooks.rs:208-235`), and the work is done by that second invocation.

## Plan

In this order, the most important first:

1. `OAuthStore`, `TokenEndpoint`, `GrantLifecycle` - done, proved.
2. `ArticleSync` with both operator tools - done, proved.
3. `LabSync` - done, proved.
4. `AuthorizationFlow` on `OAuthStore`, composed with the exchange of
   `TokenEndpoint` - done, proved.
5. `AdminSession` - done, proved.
6. `TodoDay` - done, proved.
7. `BrowserSearch` - done, proved.
8. `MomentAdmin`: form, upload, create, update, delete - done, proved. Left: the
   feed by cursor.
9. `TagTree` as pure operators over small trees: paths, roll-up, convergence
   of the find-or-create.
10. `Forwarder`, and the rest of the TODO routes (quick items, shopping, meals).

Worth proving next: an abstract specification of the article mirror (a row
moves from one committed file to another) that `ArticleSync` implements.

Each gets one module, one MC module and one passing run with one or two tiny
instances (two workers or requests, one or two of everything else, two or
three rounds), bounds being raised until the run takes a minute or two.

Conventions of all modules. One action is one call to a shared service (store,
database, Cognito, GitHub, S3, the embedding service) with the code that runs
on its answer up to the next call; other actors may act between any two.
A call that can fail has a failing disjunct; a write whose answer is lost has
taken effect. `pc` names the call made next. A definition introduced as
"Slip" is a plausible mistake in the definition it precedes; no action uses it,
and putting it in place of that definition makes TLC find a property violated.

## The token endpoint

`TokenEndpoint` EXTENDS `OAuthStore`; `MCTokenEndpoint` gives values.

| Variable | In the code |
|---|---|
| `clock` | `now()`, in ticks |
| `clientTtl`, `codeTtl`, `grants` | items in the table; 0 or `Null` for an absent one |
| `session` | login and refresh token at Cognito |
| `pc`, `job`, `seen`, `item`, `answer` | the locals of a request at its next `await` |
| `takes`, `origin`, `handed`, `accessUntil` | history for the properties |

An exchange makes the calls `getClient`, `takeCode`, `putGrant`, `putClient`;
a refresh makes `getClient`, `getGrant`, `cognito`, `replaceGrant` and, when
that fails, `rereadGrant`, or `deleteReused` and `deleteRejected`. `Crash` is
the loss or timeout of an environment at any of them, `Reap` the late deletion
by DynamoDB, `SignOut` the end of the login, `Tick` time.

*Abstractions.* A refresh token is its grant and generation. A request presents
any token ever handed out: lost answers, retries and old tokens are all of that
kind. A token with a wrong MAC is refused before anything is read. Redirect
URI, resource and PKCE verifier of an exchange are one Boolean, `valid`. An
`id_token` for another subject counts as a rejection. The ttl of an item is
computed when the call is made. The SDK's repetition of a conditional put
whose first answer was lost is modelled; that of a `take` is the same as a
failed exchange. Clients and codes exist from the start, as registration and
callback leave them.

*Numbers.* `TicksPerSecond = 2` makes every rounding to seconds visible.
`MaxGeneration` is the limit of the regular expression that parses a token
(nine digits in the code, 1 in the runs: the limit is reached). `MaxClock` is
a bound of the model only; it lies beyond the end of session, grace period
and every ttl.

| Run | Instance | States what |
|---|---|---|
| `TokenRefresh` | 1 client, code and grant, 2 requests, 9 half seconds | rotation (`NeverAheadOfStore`, `SameSuccessor`), reuse (`ReuseEndsGrant`), ends of session (`SessionOverrunBounded`, `BearerNeverPastSession`), Cognito's rejection (`RejectedMeansSignedOut`), and that the endpoint implements `GrantLifecycle` |
| `TokenSettles` | 2 clients and requests, whole seconds, rotation at Cognito on | `RequestsSettle`, with mismatched clients too |

Two requests are enough for every pair of calls to interleave; a request that
has settled arrives again as a new one, so rotations follow one another and a
token can fall two generations behind.

*Fairness* (`FairSpec`): weak fairness on the steps of each request. Every call
of the code is answered or ends with the client's timeout, which is a step
too. Nothing is assumed of clients, users, time, DynamoDB's deletions or
crashes. The refresh has no loop: a request that loses the race reads the grant
once more (`index.ts:449-454`) and is answered or refused, so `RequestsSettle`
follows from every call being answered; it would fail if the reread began the
refresh again.

`GrantLifecycle` is what a client of the endpoint may rely on: a grant opens,
moves one generation at a time, hands out current tokens, ends, and never
returns. The mapping reads `status` off the stored item: an item is live, an
id that no request has written yet is unborn, anything else has ended.

## The authorization flow

`AuthorizationFlow` EXTENDS `TokenEndpoint` with the routes a browser opens:
`/oauth/register`, `/oauth/authorize`, `/oauth/consent`, `/oauth/callback`.
Both halves share store and clock. Its next step is a step of the browser half
that leaves grants and token requests alone, or a code exchange of
`TokenEndpoint` (`GetClient`, `Exchange`, `Crash`, `Tick`) that leaves browsers
and transactions alone; refreshes touch neither codes nor transactions.

| Variable | In the code |
|---|---|
| `cookie` | `__Host-mcp_oauth_browser` of each browser with its `maxAge` |
| `transactions` | items `txn#` |
| `at`, `visit`, `held` | the locals of a browser request at its next `await` |
| `registered`, `began`, `approvals`, `approvers`, `issued`, `denied` | history for the properties |

| Action | Code |
|---|---|
| `Register` | the put of a new client |
| `OpenAuthorize`, `BeginTransaction`, `PutTransaction` | `/oauth/authorize`: get the client, put the transaction, set the cookie |
| `OpenConsent`, `GetTransaction`, `PutConsent`, `DeleteTransaction` | `/oauth/consent`: get, browser check, then put (approve) or delete (deny) |
| `OpenCallback`, `TakeTransaction`, `CognitoExchanges`, `PutCode` | `/oauth/callback`: take, checks, Cognito, put the code |
| `Abandon` | the environment is lost between two calls |

Any browser may send any form and open any link of a transaction: reloads,
double clicks and links passed on are all of that kind. *Abstractions.* A
cookie value is named by the transaction it was drawn for. The checks of
redirect URI, response type, resource and challenge are one refusal. Cognito's
own pages are the freedom to open the callback.

`Authorization` checks two browsers, two requests at a time, one transaction,
two approvals, two codes and two grants, in whole seconds that pass the end of
transaction, code, registration and session: `CodeSpentOnce` of the exchange; a grant only from one browser that began, approved and came back
(`GrantFromOneBrowser`); codes do not outnumber approvals
(`OneCodePerApproval`); a denial with no approval in flight is final
(`DenialIsFinal`). Two approvals and two codes are needed for a form
that is sent again after the callback has taken the transaction: it does bring
the transaction back, for as long as its cookie lives, and a second code can be
drawn with it; that is why the property counts approvals. The same form can
also carry a transaction a second past its end, each time
(`Math.max(remaining, 1)`, `index.ts:650`).

## The article mirror

`ArticleSync` has the repository (`head` and earlier commits of each file), the
queue of deliveries, the tables, webhook workers and the two operator tools.

| Action | Code |
|---|---|
| `Push`, `Redeliver` | the webhook and its asynchronous invocation; a delivery may be lost or repeated |
| `Start` | access token, user and listing of the head of the branch |
| `Fetch` | one file: get, decode, front matter |
| `Find` | `find_by_user_id_and_slug`, then HTML and description |
| `Upsert` | the read inside `upsert_article` and its comparison |
| `Write` | its transaction: row, tags, counts |
| `RegenerateChunks` | embedding, then the transaction on the chunks |
| `StartBackfill`, `BackfillRow`, `StartEmbedder`, `EmbedRow` | the tools: snapshot, then one row at a time |
| `Crash` | the environment is lost; Lambda repeats the event or gives up |

*Abstractions.* HTML and chunks are represented by what they were made from.
Tags are flat. `publishedAt` is 0 for NULL and otherwise counts the stamps. A
push of several files is several pushes of which some deliveries are lost.
Articles are never deleted, as in the code. GitHub does not repeat a webhook by
itself; Lambda repeats a crashed asynchronous invocation at most twice, and
no reserved concurrency is configured, so deliveries overlap.
`quiet` is history: true for a run in which nothing failed and nobody else
wrote. `MaxPushes` and `MaxRuns` are bounds of the model.

| Run | Instance | States what |
|---|---|---|
| `ArticleSerial` | 2 files, 1 worker, 2 pushes, 2 runs, `tidb-embedder` | `HtmlCurrent`, `CountsExact`, `PublishedAtKept`, `QuietEmbedderRepairs` |
| `ArticleRace` | 1 file, 2 workers, 2 pushes, 3 runs, `content-html-backfill` | `RowFromOneCommit`, `QuietRunMirrors`, `QuietBackfillFills` |

Four revisions of a file (draft, other body, published, published with other
body, description and tags) are enough for every comparison of the code to come
out either way; `ArticleSerial`, with two files, does with three of them. Three
runs are two that overlap and one that repairs. The backfill is not in
`ArticleSerial` because it overwrites HTML from its snapshot: `HtmlCurrent` is
false beside it.

What `ArticleSerial` states for one worker says nothing of two deliveries that
overlap: `HtmlCurrent`, `CountsExact` and `PublishedAtKept` all fail in the
model with two workers (see [below](#where-code-and-documents-differ)).

## The lab mirror

`LabSync` follows `process_lab_push_event`. The tree is that of the pushed
commit, files are read from the head of the branch.

| Action | Code |
|---|---|
| `Start` | token, user, `get_tree_recursive(after)`, `index_lab_tree` |
| `FetchConfig` | `config.yaml`: get, decode, parse |
| `HeadImage`, `PutImage` | `sync_lab_images`: compare `github-sha`, fetch the blob and put |
| `ReadLab`, `UpdateLab`, `InsertLab` | the three statements of `upsert_lab` |
| `ListStates` | `list_chapter_states` |
| `FetchChapter` | one chapter: path in the tree, get, decode, front matter, URLs of images |
| `FindChapter`, `WriteChapter` | the two statements of `upsert_chapter`, with HTML |
| `Prune` | `delete_chapters_not_in` |
| `Sweep` | `delete_labs_not_in`, one transaction |
| `Crash`, `Push`, `Redeliver` | as for articles |

*Abstractions.* A directory of a lab has a configuration (`meta` is title,
summary and published; the list of chapters), files and images. A text is the
body with the hashes put into the URLs of its images; the title of a chapter is
written with it. Which of `.mdx` and `.md` holds a chapter is not told apart: a
path that the head no longer has is a failed fetch. All labs belong to one
user. Ids that nothing refers to any more are used again, so a few are enough:
rows are inserted while one is left (`IdsLeft`, a bound of the model). The tree is complete. The
local development mode that skips S3 and Lambda is not modelled.

| Run | Instance | States what |
|---|---|---|
| `LabBook` | 2 labs of 2 chapters and an image, 1 worker, 2 pushes, 2 runs | `ChapterHtmlCurrent`, `NoOrphans`, `QuietRunMirrorsLabs` |
| `LabRace` | 1 lab with 1 chapter, 2 workers, 2 pushes, 3 runs | `QuietRunMirrorsLabs`, `FailureDeletesNothing` |

`LabBook` has order, removal, images and a lab that stays while another goes;
`LabRace` has every overlap of two deliveries, followed by a third.
`ChapterHtmlCurrent` and `NoOrphans` are stated for one worker, and fail with
two. Two pushes
give commits in which a lab comes, changes and goes, in either order of
processing.

## The admin session

`AdminSession` has the session rows, the browser's sealed cookie, the page it
shows, and the login at Cognito.

| Action | Code |
|---|---|
| `SubmitLogin`, `VerifyLogin`, `DeleteExpiredSessions`, `CreateSession` | the login form and `POST /auth/login` |
| `Call`, `CallWithoutCookie`, `FindSession` | the guard's query (`me`) or any API call, through `sessionAuth` |
| `Refresh`, `RefreshFails`, `UpdateSessionTokens`, `DeleteSession` | `verifyOrRefresh` and what the middleware does with its answer |
| `SubmitLogout`, `FindForLogout`, `DeleteForLogout`, `Revoke` | `POST /auth/logout`; revocation is best effort |
| `LoginEnds`, `Tick`, `Crash` | Cognito ends a login, time passes, an environment or a connection is lost |

*Abstractions.* One cookie per browser; a session id also names the login its
row was made from; SRP and the seal are taken to work; a failure of Cognito, of
its key set or of the database is one fault. The guard of the front end takes
any answer of `/me` but a success for a refusal (`queries.ts:17`) and shows the
login form, so `Crash` of such a call may do so too, or leaves the page where
no answer reaches it; a logout shows the form whatever comes back.

`AdminSession` (two logins, one browser, two requests, three instants that
cross margin, token and session lifetime): `LogoutIsFinal` - no refresh in
flight brings a deleted session back; `SignedOutForCause` - a session is
deleted by the middleware only if its login has ended or a service failed this
request, never because of a request beside it; `ServedWithinBounds` - how long
a session may serve after its start and after its login has ended.
A timeout of Cognito is such a cause: the code signs the user out.

## The daily checklist

`TodoDay` goes from the text of the settings page to the ticked items of a day.
The text is parsed into items by `ParseChecklistMarkdown`
(`checklist-markdown.ts`), checked and stored under fresh ids
(`SaveSettings`, `DeleteTemplate`, `ReplaceTemplate`), copied into the day by
the batch, by hand or by the first save (`Batch`, `GenerateByHand`, `ReadTemplates`,
`ReadExisting`, `Insert`), and ticked (`FindItem`, `ReadDay`, `UpdateItems`).
One action is one statement; `Crash` is a statement that fails or an
environment that is lost.

The transaction of a save (`todo.ts:442-474`) is two steps. `DeleteTemplate` is
its DELETE. TiDB locks the rows a DELETE finds until the transaction ends, so
another one that finds the same rows waits (`RowsFree`); it has no locks on
gaps, so where there are no rows nothing is locked. `ReplaceTemplate` is the
rest up to the commit, which takes away what was deleted and adds what was
inserted (`Replaced`); a crash in between rolls the transaction back. INSERT,
upsert and commit are one step because the row of the settings is locked from
the upsert on. `crossed` is history: two transactions were open at once,
neither of which had found a row to delete.

*Abstractions.* One user. The batch reads the settings at the instant it is
started with. A local date is a division of the clock moved by the zone.
Fresh ids are the number of the save and the position of the item. The API is
called with any arguments, so bodies that no page sends (no items, a cycle, a
parent in the other period; their text is `Null`) are among `SomeBodies`, and the texts have nested
bullets, bullets before any heading, an unknown heading and a period that is
taken up again.

`TodoDay` runs two invocations in two zones with up to three saves, one click
and one failure, no more than three of them together (`MaxEvents`), over one
half day and the next: every item of a day can be drawn
(`EveryItemShown`), the outline of the stored text is in the template whole, as
one save's rows, and is all of it as long as no saves have crossed
(`TemplateIsOutline`, against a definition that does not use the parser's
stack), ticks stay (`TickedStays`), a tick takes its subtree
(`TickTakesSubtree`), and the list comes (`TodayComes`). Three saves are a first
one and two that overlap on its rows, which the locks must part: without them
(`NoLocks`) `TemplateIsOutline` fails. With one click an item
is ticked but never unticked again.

*Fairness* (`FairSpec`): weak fairness of `Advance`, per invocation: EventBridge
invokes the batch every five minutes, and a statement that was sent is answered
or fails. Failures are bounded by `MaxCrashes`, since a batch that fails every
time leaves no list; clicks, saves and time are owed nothing.

`TodoEdit` expects the violation described below.

## Search and filter in the browser

`BrowserSearch` is one tab of the article list: the entries of its history, the
search box with its debounce timer, `SearchProvider`, `TagFilterProvider`, and
the requests under way. A step is one event with the render and the effects
that React runs for it.

| Action | Code |
|---|---|
| `SetQuery`, `TimerFires`, `SubmitNow`, `ClearQuery` | `setQuery`, its timeout, `submitNow`, `clearQuery` |
| `ToggleTag`, `ChangeMode`, `Clear`, `ClearAll` | `applySelection` and its callers; `ActiveFilterBar.clearAll` |
| `SetSearchPage`, `SetFilterPage`, `RetrySearch`, `RetryList` | page numbers and retry buttons, when `FilteredArticleList` or `SearchModal` offers them |
| `Go`, `Reload` | the two `popstate` listeners; a reload of the page |
| `SearchAnswered`, `SearchFails`, `ListAnswered`, `FacetsFail`, `ListFails` | the continuations of the requests |

*Abstractions.* An answer is represented by its request. The text of the box is
taken without surrounding blanks; a set stands for the list of selected tags;
parsing of malformed parameters and the pages of the server behind the address
are left out. An aborted request is gone at once, as its rejection changes no
state. Both modals are open whenever one likes.

`BrowserSearch` (one text, two tags, three history entries, one failed request,
opened at a plain address or at a shared search in the second page of a
filtered list): the address says what is shown (`UrlIsState`); results, list
and tag counts that have settled without error are those of the current state
(`ResultsOfSearch`, `ListOfFilter`; neither speaks of a request that has
failed); a page number is not carried into another
scope (`PageOfScope`).
Two tags are needed for the mode to be in the address, three entries for one
click of `ClearAll` to write two.

## Moments

`MomentAdmin` is one tab of the admin site on the pages of moments, with the
API, the table and the bucket behind it. A request is a submission or a preview
of a form, or a button of the list, followed through every call it makes.

| Variable | In the code |
|---|---|
| `rows`, `stamps` | table `moments`; the values of `new Date()` given out as `published_at` |
| `photo`, `objects` | which file was compressed for an image key; the objects in S3 |
| `cached` | the detail queries of TanStack Query |
| `form`, `screen` | `useState` and `useRef` of each `MomentForm`; which one is mounted |
| `at`, `job` | a request at its next `await`, and the values its closure has captured |
| `crossed` | history: rows updated over a change that the handler or its page had not seen |

| Action | Code |
|---|---|
| `OpenNew`, `OpenEdit`, `Refetch`, `Leave` | the pages of a form; an edit form is shown at once from the cache while it is fetched again |
| `SelectFile`, `SetStatus` | fields, which stay usable while a submission is under way |
| `Press` | `onSubmit` and the preview up to their first call, with the upload they reuse (`ensureUploaded`) |
| `Presign`, `PutObject` | `uploadImages`: the presigned URLs, and two PUTs in either order |
| `Insert`, `FindMoment`, `UpdateMoment`, `DeleteMoment` | the statements of the routes |
| `PressInList` | publish, withdraw, delete |
| `Answer`, `AnswerGone`, `CallFails` | the row read back, `onSuccess` with its invalidation and navigation, errors and lost answers |

*Abstractions.* A photo is its file, and the time of capture the file it was
read from (reading EXIF is a function of the file). Text, fastener and colour
travel as the status does and are left out. Buttons of the list may be pressed
in any order: `isMutating` watches the latest mutation of its kind only, and a
visit to another page forgets it. The status of a form starts from the cached
row, which may be old. One user, one tab. `MaxPresses`, `MaxKeys`,
`MaxMoments` and `MaxFailures` are bounds of the model.

`MomentAdmin` runs one form at a time, two photos, two requests at once, three
presses, three image keys, two rows and one failed call, from an empty table or
one row: photo and date of a row come from the same file (`PhotoOfDate`); a row
never refers to an image of which a size is missing (`ImageStored`); a form
makes one moment, and another only when it was not told of the first
(`OneMomentPerForm`); the first publication date stays (`PublicationKept`).
Three presses are a preview, a submission and a retry, or an edit with two
buttons beside it; two photos are needed to change one's mind. `PhotoOfDate`
and `PublicationKept` are stated of rows that are not in `crossed`, because two
overlapping updates do break them (see below); so the model finds that overlap,
but no property guards against it.

## Proofs

TLAPS proves, for every value of the constants that satisfies their ASSUMEs:

| Module | Theorems |
|---|---|
| `TokenEndpointProofs` | `TypeCorrect`, `CodeSpentOnceHolds`, `NeverAheadOfStoreHolds`, `SameSuccessorHolds`, `ReuseEndsGrantHolds`, `SessionOverrunBoundedHolds`, `BearerNeverPastSessionHolds`, `RejectedMeansSignedOutHolds`, `EndpointImplementsLifecycle` |
| `AuthorizationFlowProofs` | `FlowTypeCorrect`, `CodeSpentOnceInFlow`, `GrantFromOneBrowserHolds`, `OneCodePerApprovalHolds`, `DenialIsFinalHolds` |
| `ArticleSyncProofs` | `ArticleTypeCorrect`, `RowsAreOfOneCommit`, `QuietRunMirrorsHolds`, `QuietEmbedderRepairsHolds`, `QuietBackfillFillsHolds`; for one worker `SerialHtmlCurrent`, `SerialCountsExact`, `SerialPublishedAtKept` |
| `LabSyncProofs` | `LabTypeCorrect`, `FailureDeletesNothingHolds`, `QuietRunMirrorsLabsHolds`; for one worker `NoOrphansHolds`, `ChapterHtmlCurrentHolds` |
| `AdminSessionProofs` | `SessionTypeCorrect`, `LogoutIsFinalHolds`, `SignedOutForCauseHolds`, `ServedWithinBoundsHolds` |
| `TodoDayProofs` | `ParserIsOutline`, `DescendantsLeast`, `EveryItemShownHolds`, `TickedStaysHolds`, `TickTakesSubtreeHolds`, `TemplateIsOutlineHolds` |
| `BrowserSearchProofs` | `BrowserTypeCorrect`, `UrlIsStateHolds`, `ResultsOfSearchHolds`, `ListOfFilterHolds`, `PageOfScopeHolds` |
| `MomentAdminProofs` | `MomentTypeCorrect`, `PhotoOfDateHolds`, `ImageStoredHolds`, `OneMomentPerFormHolds`, `PublicationKeptHolds` |

Every safety property that a passing run checks is stated by one of them.

*Types.* `TypeOK` is not inductive: a step reads the locals of a request or a
worker and must know what they hold there. `RequestShape` and `Shapes` say
so for each value of `pc`, and `TypeInv` joins both.

*Token endpoint.* `Inv` of `TokenEndpointProofs` has a part per kind of object.
`CodeInv`: a code that was found is gone, and every grant was drawn for a
found code. `GrantInv`: stored generation not behind any token handed out;
session end, ttl and access tokens within the login session up to two
roundings. `RefreshInv`: a refresh presents a token that was handed out, and
what it read and is about to write carries the session end of its grant.
`ExchangeInv`: until an exchange has answered, nobody else holds a token of its
grant and no other exchange writes it. One lemma per action shows that `Inv` is
kept; the six properties follow from it. `RejectedMeansSignedOutHolds` has an
assumption of its own, that Cognito does not rotate refresh tokens
(`UpstreamRotates = FALSE`): with rotation it is false. The refinement maps
initial state to initial state and each action to `Open`, `HandOut`, `Rotate`,
`End` or a stutter, from `Inv`.

*Authorization flow.* The token endpoint's `Inv` is an invariant of the
composition as well, because a step of a browser leaves grants and requests
alone and draws fresh codes only. `FlowInv` adds what ties the two halves
together. `BindingInv`: a cookie, a stored transaction and what a visit holds
of one were all made for the browser that began it. `ExchangeKept`: a code in
the store or in an exchange was issued for a transaction that this browser
approved. `ApprovalsKept` counts: codes issued for a transaction, callbacks that
have taken it and are about to draw one, and the stored item if it is approved
are together no more than its approvals. `DenialKept`: of a transaction whose
denial counts as one, no item is left and no visit that would write it.

*Article mirror.* `RowsAreOfOneCommit` holds for any number of workers and
tools: what the branch and the workers hold was committed (`HeadCommitted`,
`FilesCommitted`), and `Write` takes all columns from one file.
`QuietRunMirrorsHolds` and the two theorems about the tools need no invariant
of the other actors. A step of anybody else either leaves branch, rows and
chunks as they are or ends the quiet of the run (`LetsBe`), so the run reads
what it last read: a file still to be processed is held as it is on the branch,
a file passed is mirrored by its row (`RepairedAt`), a row not in the snapshot
of a tool needs no repair (`EmbedderAt`, `BackfillAt`). Nothing is assumed of
what earlier runs have left. The three theorems for one worker assume
`OneWorker` and `NoBackfill`: then the row a worker has read is the row it
writes (`Fresh` in `SerialInv`). `HtmlCurrent` and `CountsExact` are false
without.

*Lab mirror.* `Inv` of `LabSyncProofs` says for each call of a worker that what
it holds fits its commit (`Shape`). Three parts carry the theorems: the
configuration it holds is that of some commit (`ConfigCommitted`), every
chapter passed whose file is in the tree is kept (`KeepsPassed`), and the id it
holds is no other lab's (`OwnId`, from `UniqueIds` and the freshness of ids).
So `Prune` deletes only what the configuration does not name or the tree does
not have, under any overlap. `QuietRunMirrorsLabsHolds` follows the run through
its stages (`QuietInv`): images sent, row written, chapters passed and pruned,
labs finished, each as the latest commit has them, as long as the run is quiet
and works on that commit. `NoOrphansHolds` assumes `OneWorker`; then the row a
worker is on is there with the id it holds (`AtOwnRow`), which is what a second
worker can break. `ChapterHtmlCurrentHolds` assumes besides that no
configuration names a chapter twice (`ChaptersOnce`): the states of the
chapters are listed once per lab, and for a chapter named twice with a push in
between the second pass compares with a text that the first has replaced, so
that its HTML goes stale. `HtmlInv` says that the texts listed are still
stored for the chapters to come.

*Admin session.* A login is opened by one request only (`OneOpener`) and its id
is known elsewhere only afterwards, so a row once deleted is never created
again, and an update finds nothing. `IssuedFor` bounds the end of every token
by the instant and by the end of its login, from which `ServedWithinBounds`
follows for any durations.

*Daily checklist.* `TodoInv` says that there is a list of the bodies saved
(`plan`), which no variable keeps, from which everything else was copied: the
template consists of whole trees of saves and its text is that of one of them
(`TemplateKept`), the rows an invocation is about to insert are whole trees of
saves, and with every item of a day the tree
it came with is there. While no saves have crossed at most one transaction is
open, its DELETE has found all there is, and the template is the tree of one
save (`Parted`). As ids carry date and save, trees of two saves never
share items, and a tree is a forest because `ValidTemplate` refused cycles.
`TickTakesSubtree` rests on `DescendantsLeast`: what `collectDescendantIds`
finds is the least set with the root that is closed under children, for any
finite set of rows; rows inserted since the day was read are not below the
item, or were there. `TemplateIsOutlineHolds` rests on `ParserIsOutline`, the
correctness of `parseChecklistMarkdown` for every text. Its loop invariant
(`ParsedTo`) gives each position of a period's stack its line: the lines
increase, and each bullet of the period is covered by one on the stack that is
not before it and not indented more. So what popping leaves on top is the
nearest bullet indented less (`NearestOnTop`).

*Search and filter.* `Inv` of `BrowserSearchProofs` says that the only request
under way of each provider is the one of its current state, or that what has
settled is its answer, and that the address is the one both providers would
write (`AddressInv`, `SearchInv`, `FilterInv`). Every event is then a new
state, its address and its request: one lemma each, and one per group of
actions.

*Moments.* `Inv` of `MomentAdminProofs`: every image that a row, the cache or a
request about to write refers to is complete and keeps its photo, and so does
the image a form may use again (`ImageInv`); a form has one request under way,
and is ahead of what it knows by one moment at most, between an insert and its
answer (`FormInv`). `PublicationKept` is an action property and follows from
the same invariant, by the rows the two writing statements produce
(`DatesKept`). Rows in `crossed` are excepted as in the properties.

Assumptions are the ASSUMEs of the modules: durations and bounds are natural
numbers, `Null` is none of the values it stands beside (`NullAssumption`,
`NullIsNoRow`, `FlowNullAssumption`, `MomentConstants`, `TodoAssumption`), a
lab's directory has its files and images for each name (`LabConstants`), every
list has a first page (`BrowserConstants`), a body of the settings is what the
schema lets through (`BodiesAssumption`) and a page sends with its text what it
has parsed (`PageAssumption`). Hypotheses of a theorem are named in its
statement.

Only model-checked are the liveness properties, `RequestsSettle` and
`TodayComes`, which the prover cannot reason about under fairness, and
`DayOfOneTemplate`, which is false. The induction theorems of the library
cannot be used, as they take an operator as a parameter; where a recursive
function is reasoned about, the proof takes the least argument at which the
statement fails (`LeastNatural`).

## Where code and documents differ

`TodoEdit` expects a violation of a sentence of the repository: an edit of the
template is to take effect the next morning (`todo.ts:476`), but each save
draws new template ids and the batch, five minutes later, adds the whole new
template to the items of the old one on the same day (`DayOfOneTemplate`).

The other modules show differences that have no run of their own:

- A retry of the last refresh is answered up to two seconds after the end of
  the login session, although `oauth.test.ts:729` says tokens cannot be
  refreshed then; `SessionOverrunBounded` is what holds.
- With two overlapping deliveries a body can be left with the HTML of another
  one, tag counts can include a draft, and a first publication can be stamped
  twice (`HtmlCurrent`, `CountsExact` and `PublishedAtKept` fail with two
  workers), because all three are decided on an older row. A chapter can
  get the HTML of another text in the same way.
- `webhooks.rs:875` fixes the commit of a lab run, but only the tree is read
  from it: a run that a push overtakes leaves a mixture of two commits.
- A lab deleted between `upsert_lab` and `upsert_chapter` leaves chapters that
  no later run deletes (`NoOrphans` fails with two workers). A delivery that is
  processed late deletes labs pushed after it, until the next run.
- A configuration that names a chapter twice can leave it with the HTML of an
  older text, since both passes compare with the same list.
- Two overlapping updates of a moment lose one of the edits, and can stamp the
  publication date twice or erase it, although `moments.ts:178` and
  `07_moments.sql:12` say it is kept; a row can join the photo of one edit with
  the capture time of another.
- Two first saves of the checklist that overlap find no template to lock; both
  commit, and the template is the union of both outlines, with the text and
  settings of the later one (`todo.ts:442-474`), although only the bullets of
  the stored text are to be expanded into it
  (`docs/source/98_tasks/2026-08-18-web-todo/index.md:39`). So do two saves
  after one of an empty list. `TemplateIsOutline` without `~crossed` fails; the
  next save replaces all of it.
- An edit form opened from the cache after a button of the list was pressed
  starts with the old status, and saving it takes the publication back. A
  submission of a form that was left still saves, and then takes the user to
  the list from wherever they are.
- A webhook that failed to embed is not made up for by later webhooks, only by
  `tidb-embedder`.
- A client registration can expire up to two seconds before its grant. With
  rotation of refresh tokens at Cognito, two simultaneous refreshes would end
  a live grant.
- Going back while the debounce timer runs restores the old text, and then the
  timer searches for the abandoned one; the box shows the first and the list
  the second. After a failed search the results and page numbers of the search
  before stay on the page.

## What is left out

- Not yet modelled, in the plan: paging of moments by cursor, tag hierarchy,
  forwarder, quick items, shopping and meals with the page that shows them.
- Most lines of the repository hold no state that steps of several actors can
  disturb: React pages and components, CDK stacks, schemas of requests, tools
  for development, queries, and functions of a single text. The modules stand
  for the code that does, a small share of all lines.
- Webhook screening: event and branch filters and the HMAC decide whether a
  push gives a delivery at all, which `Push` leaves open.
- Pure I/O and rendering: clients of GitHub, S3, Cloudinary, SSM and the
  embedding service, MCP tools, queries of the read API, Markdown, pages.
- Truncated trees of GitHub: the code warns and deletes what is missing; no
  defence is there to state a property about.
- Declarations: schema, CDK, workflows, manifests. Unique keys and settings of
  Lambda enter the models where a step depends on them.
- `updated_at`, wording, logging, metrics.
