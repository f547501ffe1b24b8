----------------------------- MODULE ArticleSync -----------------------------
(***************************************************************************)
(* The blog's articles: a git repository is mirrored into TiDB by webhook  *)
(* workers (apps/blog-api, handler/webhooks.rs and                         *)
(* adapter/src/repository/articles.rs), and two operator tools repair the  *)
(* derived data (tools/content-html-backfill, tools/tidb-embedder).        *)
(*                                                                         *)
(* Every delivery of a push starts a worker that lists and fetches all the *)
(* files of the default branch and upserts them one after the other.       *)
(* Deliveries are asynchronous Lambda invocations: several may run at the  *)
(* same time, a lost one may be repeated, and none is tied to the commit   *)
(* that caused it.  One action is one call to GitHub or one statement or   *)
(* transaction of the database, with the code that runs on its answer.     *)
(*                                                                         *)
(* HTML and chunks are represented by what they were made from.            *)
(***************************************************************************)
EXTENDS Integers, FiniteSets

CONSTANTS
  Slugs,
  Workers,           \* Event Function environments that may run at once
  Backfill,          \* the operator running content-html-backfill
  Embedder,          \* the operator running tidb-embedder
  Tools,             \* which of the two are run at all
  Sources,           \* what a markdown file may hold: frontmatter and body
  Tags,
  Null,
  MaxPushes,         \* bound of the model: commits pushed
  MaxRuns            \* bound of the model: deliveries accepted by Lambda

ASSUME ArticleConstants ==
  /\ Tools \subseteq {Backfill, Embedder}
  /\ Workers \intersect {Backfill, Embedder} = {}
  /\ Backfill # Embedder
  /\ Null \notin Sources
  /\ IsFiniteSet(Slugs)
  /\ \A src \in Sources :
       /\ DOMAIN src = {"content", "title", "description", "thumbnail",
                        "publish", "tags"}
       /\ src.content # Null
       /\ src.title # Null
       /\ src.publish \in BOOLEAN
       /\ src.tags \subseteq Tags
  /\ MaxPushes \in Nat
  /\ MaxRuns \in Nat

VARIABLES
  head,        \* the files of the default branch
  pushes,      \* number of pushes so far
  queue,       \* accepted deliveries waiting for a worker
  runs,        \* number of deliveries accepted so far
  articles,    \* rows of articles with their articles_tags
  counts,      \* tag_article_counts of the user
  chunks,      \* what the rows of article_embedding_chunks were made from
  pc,          \* what a worker or a tool does next
  todo,        \* the files or rows it has still to process
  files,       \* the files a worker has fetched
  seen,        \* the rows it has read
  current,     \* the row upsert_article has read again
  committed,   \* history: every file content a slug has had
  quiet        \* history: nothing failed or interfered since its run began

database == <<articles, counts, chunks>>
delivery == <<head, pushes, queue, runs, committed>>
local == <<pc, todo, files, seen, current>>
vars == <<delivery, database, local, quiet>>

Actors == Workers \union {Backfill, Embedder}
Settled == {"idle", "done"}

Contents == {src.content : src \in Sources}
Titles == {src.title : src \in Sources}
Descriptions == ({src.description : src \in Sources} \ {Null}) \union Titles
Thumbnails == {src.thumbnail : src \in Sources}

Row == [title: Titles, content: Contents, html: Contents \union {Null},
        thumbnail: Thumbnails, description: Descriptions, published: BOOLEAN,
        publishedAt: Nat, tags: SUBSET Tags]
SourceHashes == [title: Titles, description: Descriptions, content: Contents]

ASSUME NullAssumption == Null \notin Row

NoFiles == [s \in Slugs |-> Null]

-----------------------------------------------------------------------------
(* Comparisons of a row with a file *)

\* Slip: the title is compared instead of the body.
HtmlNeededByTitle(row, src) == row = Null \/ row.title # src.title
NeedsHtml(row, src) == row = Null \/ row.content # src.content

\* The description upsert_article keeps or defaults to when the frontmatter
\* has none.
EffectiveDescription(row, src) ==
  IF src.description # Null THEN src.description
  ELSE IF row # Null THEN row.description
  ELSE src.title

NeedsChunks(row, src) ==
  \/ NeedsHtml(row, src)
  \/ row.title # src.title
  \/ row.description # EffectiveDescription(row, src)

StatusChanged(row, src) == row.published # src.publish
TagsChanged(row, src) == row.tags # src.tags

\* Slip: a change of the frontmatter's `publish` alone goes unnoticed.
TextChanged(row, src) ==
  \/ NeedsChunks(row, src)
  \/ row.thumbnail # src.thumbnail
ArticleChanged(row, src) ==
  \/ NeedsChunks(row, src)
  \/ row.thumbnail # src.thumbnail
  \/ StatusChanged(row, src)

\* Slip: only a change of the tags moves the counts.
CountsAffectedByTags(row, src) == TagsChanged(row, src)
CountsAffected(row, src) == StatusChanged(row, src) \/ TagsChanged(row, src)

\* published_at: stamped by the first publication the re-read row knows of.
\* 0 stands for NULL and `stored` + 1 for an instant after the stored one.
\* Slip: stamped whenever a draft becomes published.
StampedAgain(row, src, stored) ==
  IF src.publish /\ ~row.published THEN stored + 1 ELSE row.publishedAt
PublishedAt(row, src, stored) ==
  IF src.publish /\ row.publishedAt = 0 THEN stored + 1 ELSE row.publishedAt

\* compute_source_hash, sourceHash
SourceHash(title, description, content) ==
  [title |-> title, description |-> description, content |-> content]
RowHash(row) == SourceHash(row.title, row.description, row.content)

-----------------------------------------------------------------------------
(* Statements *)

InsertedRow(src, html) ==
  [title |-> src.title, content |-> src.content, html |-> html,
   thumbnail |-> src.thumbnail,
   description |-> EffectiveDescription(Null, src),
   published |-> src.publish,
   publishedAt |-> IF src.publish THEN 1 ELSE 0,
   tags |-> src.tags]

\* The UPDATE and sync_tags on the stored row, decided by the row that was
\* read before the transaction.  COALESCE keeps the stored HTML when html is
\* Null.  The slip writes the columns that differ from that row only.
UpdatedColumns(stored, row, src, html) ==
  [stored EXCEPT
     !.title = IF row.title # src.title THEN src.title ELSE @,
     !.content = IF row.content # src.content THEN src.content ELSE @,
     !.html = IF html # Null THEN html ELSE @,
     !.thumbnail = IF row.thumbnail # src.thumbnail THEN src.thumbnail ELSE @,
     !.description = EffectiveDescription(row, src),
     !.published = src.publish,
     !.publishedAt = PublishedAt(row, src, @),
     !.tags = IF TagsChanged(row, src) THEN src.tags ELSE @]

UpdatedRow(stored, row, src, html) ==
  LET tags == IF TagsChanged(row, src) THEN src.tags ELSE stored.tags IN
  IF ArticleChanged(row, src)
  THEN [title |-> src.title, content |-> src.content,
        html |-> IF html # Null THEN html ELSE stored.html,
        thumbnail |-> src.thumbnail,
        description |-> EffectiveDescription(row, src),
        published |-> src.publish,
        publishedAt |-> PublishedAt(row, src, stored.publishedAt),
        tags |-> tags]
  ELSE [stored EXCEPT !.tags = tags]

\* sync_tag_article_counts, for a flat set of tags.
CountsOf(rows) ==
  [t \in Tags |-> Cardinality({s \in Slugs :
     rows[s] # Null /\ rows[s].published /\ t \in rows[s].tags})]

-----------------------------------------------------------------------------

\* Rows of before the content_html column was added, in step with the
\* repository: HTML and chunks have not been made yet.
Init ==
  /\ head \in [Slugs -> Sources \union {Null}]
  /\ articles = [s \in Slugs |->
       IF head[s] = Null THEN Null ELSE InsertedRow(head[s], Null)]
  /\ counts = CountsOf(articles)
  /\ chunks = [s \in Slugs |-> Null]
  /\ pushes = 0
  /\ queue = 0
  /\ runs = 0
  /\ pc = [a \in Actors |-> "idle"]
  /\ todo = [a \in Actors |-> {}]
  /\ files = [w \in Workers |-> NoFiles]
  /\ seen = [a \in Actors |-> NoFiles]
  /\ current = [w \in Workers |-> Null]
  /\ committed = [s \in Slugs |-> {head[s]} \ {Null}]
  /\ quiet = [a \in Actors |-> FALSE]

\* What a step means to the runs in progress.
Interfere == quiet' = [a \in Actors |-> FALSE]
Fail(a) == quiet' = [quiet EXCEPT ![a] = FALSE]
WriteBy(a) == quiet' = [b \in Actors |-> b = a /\ quiet[b]]

-----------------------------------------------------------------------------
(* Deliveries *)

Deliver ==
  /\ runs < MaxRuns
  /\ runs' = runs + 1
  /\ queue' = queue + 1

\* A push changes or removes a file.  Its webhook may be lost: GitHub does
\* not deliver it again by itself.
Push(s) ==
  /\ pushes < MaxPushes
  /\ pushes' = pushes + 1
  /\ \E src \in (Sources \union {Null}) \ {head[s]} :
       /\ head' = [head EXCEPT ![s] = src]
       /\ committed' = [committed EXCEPT ![s] = @ \union ({src} \ {Null})]
  /\ Deliver \/ UNCHANGED <<queue, runs>>
  /\ Interfere
  /\ UNCHANGED <<database, local>>

\* Redelivery by hand, or Lambda invoking twice for one event.
Redeliver ==
  /\ Deliver
  /\ UNCHANGED <<head, pushes, committed, database, local, quiet>>

-----------------------------------------------------------------------------
(* process_push_event *)

\* The run of a stops processing s.
Finish(a, s) ==
  /\ todo' = [todo EXCEPT ![a] = @ \ {s}]
  /\ pc' = [pc EXCEPT ![a] = IF todo[a] = {s} THEN "done" ELSE "next"]
  /\ seen' = [seen EXCEPT ![a][s] = Null]

FinishArticle(w, s) ==
  /\ Finish(w, s)
  /\ files' = [files EXCEPT ![w][s] = Null]
  /\ current' = [current EXCEPT ![w] = Null]

\* list_contents.  When it or the token or user look-up fails the run ends
\* with an error, and an error is not retried.
Start(w) ==
  LET listed == {s \in Slugs : head[s] # Null} IN
  /\ pc[w] \in Settled
  /\ queue > 0
  /\ queue' = queue - 1
  /\ \/ /\ pc' = [pc EXCEPT ![w] = IF listed = {} THEN "done" ELSE "fetch"]
        /\ todo' = [todo EXCEPT ![w] = listed]
        /\ quiet' = [quiet EXCEPT ![w] = TRUE]
     \/ /\ pc' = [pc EXCEPT ![w] = "idle"]
        /\ UNCHANGED <<todo, quiet>>
  /\ UNCHANGED <<head, pushes, runs, committed, database, files, seen, current>>

\* get_content, at a time of its own for every file.  A file that has gone,
\* cannot be fetched, decoded or parsed is counted as failed and left alone.
Fetch(w, s) ==
  LET fetched == {u \in Slugs : files'[w][u] # Null} IN
  /\ pc[w] = "fetch"
  /\ s \in todo[w]
  /\ \E file \in {head[s], Null} :
       /\ files' = [files EXCEPT ![w][s] = file]
       /\ IF file = Null THEN Fail(w) ELSE UNCHANGED quiet
  /\ IF todo[w] # {s}
     THEN todo' = [todo EXCEPT ![w] = @ \ {s}] /\ UNCHANGED pc
     ELSE /\ todo' = [todo EXCEPT ![w] = fetched]
          /\ pc' = [pc EXCEPT ![w] = IF fetched = {} THEN "done" ELSE "next"]
  /\ UNCHANGED <<delivery, database, seen, current>>

\* The loop takes the files in the order of the listing; which one that is
\* makes no difference here.
First(S) == CHOOSE s \in S : TRUE
Slug(w) == First(todo[w])

\* find_by_user_id_and_slug in the handler and the conversion to HTML; the
\* article is skipped when one of them fails.
Find(w) ==
  /\ pc[w] = "next"
  /\ \/ /\ seen' = [seen EXCEPT ![w][Slug(w)] = articles[Slug(w)]]
        /\ pc' = [pc EXCEPT ![w] = "upsert"]
        /\ UNCHANGED <<todo, files, current, quiet>>
     \/ FinishArticle(w, Slug(w)) /\ Fail(w)
  /\ UNCHANGED <<delivery, database>>

\* After upsert_article: regenerate_chunks when the handler's row asks for it.
AfterUpsert(w) ==
  LET s == Slug(w) IN
  IF NeedsChunks(seen[w][s], files[w][s])
  THEN /\ pc' = [pc EXCEPT ![w] = "chunks"]
       /\ UNCHANGED <<todo, files, seen, current>>
  ELSE FinishArticle(w, s)

\* upsert_article reads the row again and returns when nothing differs.
Upsert(w) ==
  LET row == articles[Slug(w)]
      src == files[w][Slug(w)]
  IN
  /\ pc[w] = "upsert"
  /\ \/ /\ row # Null
        /\ ~ArticleChanged(row, src)
        /\ ~TagsChanged(row, src)
        /\ AfterUpsert(w)
        /\ UNCHANGED quiet
     \/ /\ row # Null => ArticleChanged(row, src) \/ TagsChanged(row, src)
        /\ current' = [current EXCEPT ![w] = row]
        /\ pc' = [pc EXCEPT ![w] = "write"]
        /\ UNCHANGED <<todo, files, seen, quiet>>
     \/ FinishArticle(w, Slug(w)) /\ Fail(w)
  /\ UNCHANGED <<delivery, database>>

\* The transaction of upsert_article.  An INSERT fails on uq_articles_slug
\* when another worker has been faster.  A commit whose answer is lost counts
\* as failed, like a rollback.
Write(w) ==
  LET s == Slug(w)
      src == files[w][s]
      html == IF NeedsHtml(seen[w][s], src) THEN src.content ELSE Null
      row == current[w]
  IN
  /\ pc[w] = "write"
  /\ \/ /\ row = Null => articles[s] = Null
        /\ articles' = [articles EXCEPT ![s] =
             IF row = Null THEN InsertedRow(src, html)
             ELSE UpdatedRow(@, row, src, html)]
        /\ counts' = IF row = Null \/ CountsAffected(row, src)
                     THEN CountsOf(articles') ELSE counts
        /\ \/ AfterUpsert(w) /\ WriteBy(w)
           \/ FinishArticle(w, s) /\ Interfere
     \/ /\ FinishArticle(w, s)
        /\ Fail(w)
        /\ UNCHANGED <<articles, counts>>
  /\ UNCHANGED <<delivery, chunks>>

\* regenerate_chunks; the calls to the embedding service change nothing, and
\* when one of them or the transaction fails the chunks stay as they are.
RegenerateChunks(w) ==
  LET s == Slug(w)
      src == files[w][s]
  IN
  /\ pc[w] = "chunks"
  /\ \/ /\ chunks' = [chunks EXCEPT ![s] =
             SourceHash(src.title, EffectiveDescription(seen[w][s], src),
                        src.content)]
        /\ WriteBy(w)
     \/ UNCHANGED chunks /\ Fail(w)
  /\ FinishArticle(w, s)
  /\ UNCHANGED <<delivery, articles, counts>>

\* The environment is lost or reaches its timeout.  Lambda invokes it again
\* for this event, at most twice.
Crash(w) ==
  /\ pc[w] \notin Settled
  /\ pc' = [pc EXCEPT ![w] = "idle"]
  /\ todo' = [todo EXCEPT ![w] = {}]
  /\ files' = [files EXCEPT ![w] = NoFiles]
  /\ seen' = [seen EXCEPT ![w] = NoFiles]
  /\ current' = [current EXCEPT ![w] = Null]
  /\ Deliver \/ UNCHANGED <<queue, runs>>
  /\ Fail(w)
  /\ UNCHANGED <<head, pushes, committed, database>>

-----------------------------------------------------------------------------
(* The operator's tools: a snapshot of the rows, then one row at a time.   *)

StartTool(tool, rows) ==
  /\ tool \in Tools
  /\ pc[tool] \in Settled
  /\ pc' = [pc EXCEPT ![tool] = IF rows = {} THEN "done" ELSE "next"]
  /\ todo' = [todo EXCEPT ![tool] = rows]
  /\ seen' = [seen EXCEPT ![tool] =
       [s \in Slugs |-> IF s \in rows THEN articles[s] ELSE Null]]
  /\ quiet' = [quiet EXCEPT ![tool] = TRUE]
  /\ UNCHANGED <<delivery, database, files, current>>

Stored == {s \in Slugs : articles[s] # Null}

\* content-html-backfill, without and with --all.  Slip: rows that have HTML
\* are selected instead.
FilledRows(all) == {s \in Stored : all \/ articles[s].html # Null}
BackfillRows(all) == {s \in Stored : all \/ articles[s].html = Null}

StartBackfill(all) == StartTool(Backfill, BackfillRows(all))

\* The UPDATE is skipped when the HTML equals the one in the snapshot.
BackfillRow(s) ==
  LET row == seen[Backfill][s] IN
  /\ pc[Backfill] = "next"
  /\ s \in todo[Backfill]
  /\ \/ row.html = row.content /\ UNCHANGED <<articles, quiet>>
     \/ /\ row.html # row.content
        /\ articles' = [articles EXCEPT ![s].html = row.content]
        /\ WriteBy(Backfill)
     \/ UNCHANGED articles /\ Fail(Backfill)
  /\ Finish(Backfill, s)
  /\ UNCHANGED <<delivery, counts, chunks, files, current>>

\* The rows tidb-embedder replaces.  Slip: those without chunks only.
Unembedded(s) == chunks[s] = Null
Outdated(s) == chunks[s] = Null \/ chunks[s] # RowHash(articles[s])

StartEmbedder(all) ==
  StartTool(Embedder, {s \in Stored : all \/ Outdated(s)})

\* With --concurrency the rows finish in any order.
EmbedRow(s) ==
  /\ pc[Embedder] = "next"
  /\ s \in todo[Embedder]
  /\ \/ /\ chunks' = [chunks EXCEPT ![s] = RowHash(seen[Embedder][s])]
        /\ WriteBy(Embedder)
     \/ UNCHANGED chunks /\ Fail(Embedder)
  /\ Finish(Embedder, s)
  /\ UNCHANGED <<delivery, articles, counts, files, current>>

-----------------------------------------------------------------------------

WorkerStep(w) ==
  \/ Start(w) \/ Find(w) \/ Upsert(w) \/ Write(w) \/ RegenerateChunks(w)
  \/ Crash(w)
  \/ \E s \in Slugs : Fetch(w, s)

ToolStep ==
  \/ \E all \in BOOLEAN : StartBackfill(all) \/ StartEmbedder(all)
  \/ \E s \in Slugs : BackfillRow(s) \/ EmbedRow(s)

Next ==
  \/ \E s \in Slugs : Push(s)
  \/ Redeliver
  \/ \E w \in Workers : WorkerStep(w)
  \/ ToolStep

Spec == Init /\ [][Next]_vars

-----------------------------------------------------------------------------
(* Properties *)

TypeOK ==
  /\ head \in [Slugs -> Sources \union {Null}]
  /\ pushes \in 0 .. MaxPushes
  /\ runs \in 0 .. MaxRuns
  /\ queue \in 0 .. runs
  /\ articles \in [Slugs -> Row \union {Null}]
  /\ counts \in [Tags -> 0 .. Cardinality(Slugs)]
  /\ chunks \in [Slugs -> SourceHashes \union {Null}]
  /\ pc \in [Actors -> Settled \union
               {"fetch", "next", "upsert", "write", "chunks"}]
  /\ todo \in [Actors -> SUBSET Slugs]
  /\ files \in [Workers -> [Slugs -> Sources \union {Null}]]
  /\ seen \in [Actors -> [Slugs -> Row \union {Null}]]
  /\ current \in [Workers -> Row \union {Null}]
  /\ committed \in [Slugs -> SUBSET Sources]
  /\ quiet \in [Actors -> BOOLEAN]

\* A row shows one commit of its file: however deliveries overlap and
\* whatever was read before, columns of two commits are never mixed (the
\* UPDATE at articles.rs:303-314 writes all of them).
RowFromOneCommit ==
  \A s \in Slugs : articles[s] # Null =>
    \E src \in committed[s] :
      /\ articles[s].title = src.title
      /\ articles[s].content = src.content
      /\ articles[s].thumbnail = src.thumbnail
      /\ articles[s].published = src.publish

Mirrors(row, src) ==
  /\ row # Null
  /\ row.title = src.title
  /\ row.content = src.content
  /\ row.thumbnail = src.thumbnail
  /\ row.published = src.publish
  /\ row.tags = src.tags
  /\ src.description # Null => row.description = src.description

\* A full scan repairs whatever failed, crashed or overlapping runs have left
\* in the rows: when nothing failed and nobody interfered during a run, every
\* file of the branch is mirrored at its end
\* (2026-07-13-webhook-async-self-invoke/index.md:33 and :101).
QuietRunMirrors ==
  \A w \in Workers : pc[w] = "done" /\ quiet[w] =>
    \A s \in Slugs : head[s] # Null => Mirrors(articles[s], head[s])

\* After an undisturbed run of tidb-embedder every row has its own chunks,
\* whether webhooks had failed to make them or had made them of another row
\* (tidb-embedder/src/index.ts:379-387).
QuietEmbedderRepairs ==
  pc[Embedder] = "done" /\ quiet[Embedder] =>
    \A s \in Stored : chunks[s] = RowHash(articles[s])

\* After an undisturbed run of content-html-backfill no row is without HTML.
QuietBackfillFills ==
  pc[Backfill] = "done" /\ quiet[Backfill] =>
    \A s \in Stored : articles[s].html # Null

\* The stored HTML, where there is some, was made from the stored body
\* (webhooks.rs:404-428, articles.rs:307).
HtmlCurrent ==
  \A s \in Stored : articles[s].html \in {Null, articles[s].content}

\* The tag counts are those of the published articles
\* (articles.rs:133-136, 282-285, 345-354).
CountsExact == counts = CountsOf(articles)

\* The date of the first publication is never changed or lost
\* (articles.rs:291-295).
PublishedAtKept ==
  [][\A s \in Slugs :
       articles[s] # Null /\ articles[s].publishedAt # 0 =>
         articles'[s].publishedAt = articles[s].publishedAt]_vars
=============================================================================
