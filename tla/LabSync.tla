------------------------------- MODULE LabSync -------------------------------
(***************************************************************************)
(* The labs: hands-on books kept in a git repository, one directory per    *)
(* lab with its configuration, chapters and images, mirrored into TiDB and *)
(* S3 by webhook workers (apps/blog-api, handler/webhooks.rs from          *)
(* process_lab_push_event and adapter/src/repository/labs.rs).             *)
(*                                                                         *)
(* Unlike ArticleSync a worker lists the tree of the pushed commit, and    *)
(* unlike there it deletes what has gone; but it reads the files from the  *)
(* head of the branch.  There are no foreign keys and only the last        *)
(* deletion is a transaction of two statements.  One action is one call to *)
(* GitHub or S3 or one statement, with the code that runs on its answer.   *)
(*                                                                         *)
(* HTML is represented by the text it was made from.                       *)
(***************************************************************************)
EXTENDS Integers, Sequences, FiniteSets

CONSTANTS
  Labs,
  Chapters,
  Images,
  Workers,           \* Event Function environments that may run at once
  Dirs,              \* what a lab's directory may hold
  Ids,               \* lab_id and chapter_id values
  Null,
  MaxPushes,         \* bound of the model: commits pushed
  MaxRuns            \* bound of the model: deliveries accepted by Lambda

\* config is Null when config.yaml is missing or cannot be parsed; its meta
\* stands for title, summary and published.  A file names the images its
\* body refers to.
ASSUME LabConstants ==
  /\ \A dir \in Dirs :
       /\ dir.config # Null => dir.config.chapters \in Seq(Chapters)
       /\ DOMAIN dir.files = Chapters
       /\ \A c \in Chapters :
            dir.files[c] # Null => dir.files[c].refs \subseteq Images
       /\ DOMAIN dir.images = Images
  /\ Null \notin Dirs
  /\ MaxPushes \in Nat
  /\ MaxRuns \in Nat \ {0}

VARIABLES
  commits,     \* the commits of the branch, each a function of the labs
  queue,       \* accepted deliveries per commit, waiting for a worker
  runs,        \* number of deliveries accepted so far
  labs,        \* rows of labs by slug
  chapters,    \* rows of lab_chapters by lab_id and slug
  store,       \* metadata github-sha of the S3 objects
  pc,          \* what a worker does next
  run,         \* what it holds
  quiet        \* history: no failure and no other writer since its run began

delivery == <<commits, queue, runs>>
database == <<labs, chapters, store>>
vars == <<delivery, database, pc, run, quiet>>

Commits == 1 .. (MaxPushes + 1)
head == commits[Len(commits)]
Settled == {"idle", "done"}
NoChapters == [c \in Chapters |-> Null]

Elements(seq) == {seq[n] : n \in DOMAIN seq}

NoRun ==
  [commit |-> 0, labs |-> {}, config |-> Null, images |-> {}, image |-> Null,
   id |-> Null, existing |-> NoChapters, position |-> 0, keep |-> {},
   text |-> Null, found |-> Null]

-----------------------------------------------------------------------------
(* The tree of a commit *)

Discovered(commit) == {l \in Labs : commit[l] # Null}
ImagesOf(dir) == {i \in Images : dir.images[i] # Null}

\* rewrite_lab_image_urls: references to images of the tree become URLs with
\* their sha, the others stay.
Text(file, dir) ==
  [body |-> file.body, shas |-> [i \in file.refs |-> dir.images[i]]]

-----------------------------------------------------------------------------

\* Before the first webhook of the repository nothing has been mirrored.
Init ==
  /\ \E first \in [Labs -> Dirs \union {Null}] : commits = <<first>>
  /\ queue = [n \in Commits |-> IF n = 1 THEN 1 ELSE 0]
  /\ runs = 1
  /\ labs = [l \in Labs |-> Null]
  /\ chapters = [id \in Ids |-> NoChapters]
  /\ store = [l \in Labs |-> [i \in Images |-> Null]]
  /\ pc = [w \in Workers |-> "idle"]
  /\ run = [w \in Workers |-> NoRun]
  /\ quiet = [w \in Workers |-> FALSE]

\* What a step means to the runs in progress.
Interfere == quiet' = [w \in Workers |-> FALSE]
Fail(w) == quiet' = [quiet EXCEPT ![w] = FALSE]
WriteBy(w) == quiet' = [v \in Workers |-> v = w /\ quiet[v]]

Deliver(n) ==
  /\ runs < MaxRuns
  /\ runs' = runs + 1
  /\ queue' = [queue EXCEPT ![n] = @ + 1]

\* A push changes, adds or removes a lab.  Its webhook may be lost.
Push(l) ==
  /\ Len(commits) <= MaxPushes
  /\ \E dir \in (Dirs \union {Null}) \ {head[l]} :
       commits' = Append(commits, [head EXCEPT ![l] = dir])
  /\ Deliver(Len(commits) + 1) \/ UNCHANGED <<queue, runs>>
  /\ UNCHANGED <<database, pc, run, quiet>>

\* Redelivery by hand, or Lambda invoking twice for one event.
Redeliver(n) ==
  /\ Deliver(n)
  /\ UNCHANGED <<commits, database, pc, run, quiet>>

-----------------------------------------------------------------------------
(* process_lab_push_event *)

Tree(w) == commits[run[w].commit]
Lab(w) == CHOOSE l \in run[w].labs : TRUE
Dir(w) == Tree(w)[Lab(w)]

\* get_access_token, find_by_installation_id and get_tree_recursive of the
\* pushed commit.  When one of them fails the run ends.
Start(w) ==
  /\ pc[w] \in Settled
  /\ \E n \in DOMAIN commits :
       /\ queue[n] > 0
       /\ queue' = [queue EXCEPT ![n] = @ - 1]
       /\ \/ /\ run' = [run EXCEPT ![w] =
                  [NoRun EXCEPT !.commit = n, !.labs = Discovered(commits[n])]]
             /\ pc' = [pc EXCEPT ![w] =
                  IF Discovered(commits[n]) = {} THEN "sweep" ELSE "config"]
             /\ quiet' = [quiet EXCEPT ![w] = TRUE]
          \/ /\ run' = [run EXCEPT ![w] = NoRun]
             /\ pc' = [pc EXCEPT ![w] = "idle"]
             /\ UNCHANGED quiet
  /\ UNCHANGED <<commits, runs, database>>

\* The end of the loop body for a lab, reached early when it is skipped.
NextLab(w) ==
  LET rest == run[w].labs \ {Lab(w)} IN
  /\ run' = [run EXCEPT ![w] =
       [NoRun EXCEPT !.commit = run[w].commit, !.labs = rest]]
  /\ pc' = [pc EXCEPT ![w] = IF rest = {} THEN "sweep" ELSE "config"]

SkipLab(w) == NextLab(w) /\ Fail(w)

\* get_content of config.yaml, from the head of the branch.
FetchConfig(w) ==
  LET images == ImagesOf(Dir(w)) IN
  /\ pc[w] = "config"
  /\ \/ /\ head[Lab(w)] # Null
        /\ head[Lab(w)].config # Null
        /\ run' = [run EXCEPT ![w].config = head[Lab(w)].config,
                              ![w].images = images]
        /\ pc' = [pc EXCEPT ![w] = IF images = {} THEN "lab" ELSE "images"]
        /\ UNCHANGED quiet
     \/ SkipLab(w)
  /\ UNCHANGED <<delivery, database>>

\* sync_lab_images.  Slip: an image that is there is not uploaded again.
PresentImage(stored, sha) == stored # Null
SameImage(stored, sha) == stored = sha

EndImage(w, i) ==
  /\ run' = [run EXCEPT ![w].images = @ \ {i}, ![w].image = Null]
  /\ pc' = [pc EXCEPT ![w] = IF run[w].images = {i} THEN "lab" ELSE "images"]

\* A failed head_github_sha counts as a missing image.
HeadImage(w, i) ==
  LET same == SameImage(store[Lab(w)][i], Dir(w).images[i]) IN
  /\ pc[w] = "images"
  /\ i \in run[w].images
  /\ \/ same /\ EndImage(w, i) /\ UNCHANGED quiet
     \/ /\ run' = [run EXCEPT ![w].image = i]
        /\ pc' = [pc EXCEPT ![w] = "put"]
        /\ IF same THEN Fail(w) ELSE UNCHANGED quiet
  /\ UNCHANGED <<delivery, database>>

\* get_blob_raw of the sha in the tree and put_image.
PutImage(w) ==
  LET i == run[w].image IN
  /\ pc[w] = "put"
  /\ EndImage(w, i)
  /\ \/ /\ store' = [store EXCEPT ![Lab(w)][i] = Dir(w).images[i]]
        /\ WriteBy(w) \/ Interfere
     \/ UNCHANGED store /\ Fail(w)
  /\ UNCHANGED <<delivery, labs, chapters>>

\* Values of UUIDv4 are never drawn twice; one that nothing refers to any
\* more is as good as new, and which one is drawn makes no difference.
Fresh ==
  {id \in Ids :
     /\ \A l \in Labs : labs[l] # Null => labs[l].id # id
     /\ chapters[id] = NoChapters
     /\ \A of \in Ids, c \in Chapters :
          chapters[of][c] # Null => chapters[of][c].id # id
     /\ \A w \in Workers : id \notin {run[w].id, run[w].found}}
NewId == CHOOSE id \in Fresh : TRUE

\* Bound: rows are inserted while there are ids to draw.
IdsLeft == Fresh # {}

\* The SELECT of upsert_lab.
ReadLab(w) ==
  LET row == labs[Lab(w)] IN
  /\ pc[w] = "lab"
  /\ \/ /\ row = Null
        /\ pc' = [pc EXCEPT ![w] = "insert"]
        /\ UNCHANGED <<run, quiet>>
     \/ /\ row # Null
        /\ run' = [run EXCEPT ![w].id = row.id]
        /\ pc' = [pc EXCEPT ![w] =
             IF row.meta = run[w].config.meta THEN "states" ELSE "update"]
        /\ UNCHANGED quiet
     \/ SkipLab(w)
  /\ UNCHANGED <<delivery, database>>

\* The UPDATE, which may find the lab deleted and says nothing of it.
UpdateLab(w) ==
  LET row == labs[Lab(w)] IN
  /\ pc[w] = "update"
  /\ \/ /\ labs' = [labs EXCEPT ![Lab(w)] =
             IF row # Null /\ row.id = run[w].id
             THEN [row EXCEPT !.meta = run[w].config.meta] ELSE row]
        /\ \/ pc' = [pc EXCEPT ![w] = "states"] /\ WriteBy(w) /\ UNCHANGED run
           \/ NextLab(w) /\ Interfere
     \/ UNCHANGED labs /\ SkipLab(w)
  /\ UNCHANGED <<delivery, chapters, store>>

\* The INSERT; uq_labs_slug makes it fail when another worker was faster.
InsertLab(w) ==
  /\ pc[w] = "insert"
  /\ \/ /\ labs[Lab(w)] = Null
        /\ IdsLeft
        /\ labs' = [labs EXCEPT ![Lab(w)] =
             [id |-> NewId, meta |-> run[w].config.meta]]
        /\ \/ /\ run' = [run EXCEPT ![w].id = NewId]
              /\ pc' = [pc EXCEPT ![w] = "states"]
              /\ WriteBy(w)
           \/ NextLab(w) /\ Interfere
     \/ UNCHANGED labs /\ SkipLab(w)
  /\ UNCHANGED <<delivery, chapters, store>>

\* The loop over config.chapters from position n on.
FromPosition(w, n, held) ==
  LET last == n > Len(run[w].config.chapters) IN
  /\ run' = [run EXCEPT ![w] =
       [held EXCEPT !.position = n, !.text = Null, !.found = Null]]
  /\ pc' = [pc EXCEPT ![w] = IF last THEN "prune" ELSE "chapter"]

Advance(w) == FromPosition(w, run[w].position + 1, run[w])

Chapter(w) == run[w].config.chapters[run[w].position]

\* list_chapter_states
ListStates(w) ==
  LET rows == chapters[run[w].id]
      texts == [c \in Chapters |-> IF rows[c] = Null THEN Null ELSE rows[c].text]
  IN
  /\ pc[w] = "states"
  /\ \/ FromPosition(w, 1, [run[w] EXCEPT !.existing = texts])
        /\ UNCHANGED quiet
     \/ SkipLab(w)
  /\ UNCHANGED <<delivery, database>>

\* A chapter whose file is in the tree is kept, whatever happens to it
\* later.  Slip: kept only when its content has been fetched.
KeptIfFetched(file, fetched) == file # Null /\ fetched
Kept(file, fetched) == file # Null

\* The path comes from the tree, get_content reads the head of the branch.
FetchChapter(w) ==
  LET c == Chapter(w)
      file == Dir(w).files[c]
      keep(fetched) == run[w].keep \union (IF Kept(file, fetched) THEN {c} ELSE {})
  IN
  /\ pc[w] = "chapter"
  /\ \/ file = Null /\ Advance(w) /\ UNCHANGED quiet
     \/ /\ file # Null
        /\ head[Lab(w)] # Null
        /\ head[Lab(w)].files[c] # Null
        /\ run' = [run EXCEPT
             ![w].keep = keep(TRUE),
             ![w].text = Text(head[Lab(w)].files[c], Dir(w))]
        /\ pc' = [pc EXCEPT ![w] = "find"]
        /\ UNCHANGED quiet
     \/ /\ file # Null
        /\ FromPosition(w, run[w].position + 1,
                        [run[w] EXCEPT !.keep = keep(FALSE)])
        /\ Fail(w)
  /\ UNCHANGED <<delivery, database>>

\* The SELECT of upsert_chapter.
FindChapter(w) ==
  LET row == chapters[run[w].id][Chapter(w)] IN
  /\ pc[w] = "find"
  /\ \/ /\ run' = [run EXCEPT ![w].found = IF row = Null THEN Null ELSE row.id]
        /\ pc' = [pc EXCEPT ![w] = "write"]
        /\ UNCHANGED quiet
     \/ Advance(w) /\ Fail(w)
  /\ UNCHANGED <<delivery, database>>

\* HTML is made when the text differs from the one listed.  Slip: when the
\* lab has no such chapter yet only.
NeedsHtmlIfNew(listed, text) == listed = Null
NeedsHtml(listed, text) == listed = Null \/ listed # text

\* Chapters are numbered from zero, as enumerate does.
Position(n) == n - 1

\* The UPDATE, with COALESCE for the HTML and without effect when the row
\* that was found has been deleted; or the INSERT, which fails on
\* uq_lab_chapters_lab_slug.
WriteChapter(w) ==
  LET c == Chapter(w)
      id == run[w].id
      row == chapters[id][c]
      html == IF NeedsHtml(run[w].existing[c], run[w].text)
              THEN run[w].text ELSE Null
      position == Position(run[w].position)
      updated == [row EXCEPT !.text = run[w].text, !.position = position,
                             !.html = IF html # Null THEN html ELSE @]
  IN
  /\ pc[w] = "write"
  /\ \/ /\ run[w].found # Null
        /\ chapters' = IF row # Null /\ row.id = run[w].found
                       THEN [chapters EXCEPT ![id][c] = updated] ELSE chapters
        /\ WriteBy(w) \/ Interfere
     \/ /\ run[w].found = Null
        /\ row = Null
        /\ IdsLeft
        /\ chapters' = [chapters EXCEPT ![id][c] =
             [id |-> NewId, text |-> run[w].text, html |-> html,
              position |-> position]]
        /\ WriteBy(w) \/ Interfere
     \/ UNCHANGED chapters /\ Fail(w)
  /\ Advance(w)
  /\ UNCHANGED <<delivery, labs, store>>

\* delete_chapters_not_in
Prune(w) ==
  /\ pc[w] = "prune"
  /\ NextLab(w)
  /\ \/ /\ chapters' = [chapters EXCEPT ![run[w].id] =
             [c \in Chapters |-> IF c \in run[w].keep THEN @[c] ELSE Null]]
        /\ WriteBy(w)
     \/ UNCHANGED chapters /\ Fail(w)
  /\ UNCHANGED <<delivery, labs, store>>

\* Without any lab in the tree the statements have no NOT IN.  Slip: then
\* nothing is deleted.
GoneIfSome(commit) == IF Discovered(commit) = {} THEN {}
                      ELSE Labs \ Discovered(commit)
Gone(commit) == Labs \ Discovered(commit)

\* delete_labs_not_in: the chapters of the labs that have gone, then the
\* labs, in one transaction.  Slip: the labs only.
LeftChapters(gone) == chapters
DeletedChapters(gone) ==
  [id \in Ids |-> IF \E l \in gone : labs[l] # Null /\ labs[l].id = id
                  THEN NoChapters ELSE chapters[id]]

Sweep(w) ==
  LET gone == Gone(Tree(w)) IN
  /\ pc[w] = "sweep"
  /\ pc' = [pc EXCEPT ![w] = "done"]
  /\ \/ /\ labs' = [l \in Labs |-> IF l \in gone THEN Null ELSE labs[l]]
        /\ chapters' = DeletedChapters(gone)
        /\ WriteBy(w)
     \/ UNCHANGED <<labs, chapters>> /\ Fail(w)
  /\ UNCHANGED <<delivery, store, run>>

\* The environment is lost or reaches its timeout.  Lambda invokes it again
\* for this event, at most twice.
Crash(w) ==
  /\ pc[w] \notin Settled
  /\ pc' = [pc EXCEPT ![w] = "idle"]
  /\ run' = [run EXCEPT ![w] = NoRun]
  /\ Deliver(run[w].commit) \/ UNCHANGED <<queue, runs>>
  /\ Fail(w)
  /\ UNCHANGED <<commits, database>>

LabStep(w) ==
  \/ FetchConfig(w) \/ ReadLab(w) \/ UpdateLab(w) \/ InsertLab(w)
  \/ ListStates(w) \/ Prune(w)
  \/ \E i \in Images : HeadImage(w, i)
  \/ PutImage(w)

ChapterStep(w) == FetchChapter(w) \/ FindChapter(w) \/ WriteChapter(w)

Next ==
  \/ \E l \in Labs : Push(l)
  \/ \E n \in DOMAIN commits : Redeliver(n)
  \/ \E w \in Workers :
       Start(w) \/ LabStep(w) \/ ChapterStep(w) \/ Sweep(w) \/ Crash(w)

Spec == Init /\ [][Next]_vars

-----------------------------------------------------------------------------
(* Properties *)

Files == (UNION {{dir.files[c] : c \in Chapters} : dir \in Dirs}) \ {Null}
Texts == UNION {{Text(file, tree) : file \in Files} : tree \in Dirs}
TextOrNull == Texts \union {Null}

Metas == {dir.config.meta : dir \in {d \in Dirs : d.config # Null}}

Positions ==
  UNION {{n - 1 : n \in DOMAIN dir.config.chapters} :
           dir \in {d \in Dirs : d.config # Null}}

LabRow == [id : Ids, meta : Metas]
ChapterRow ==
  [id : Ids, text : Texts, html : TextOrNull, position : Positions]

ASSUME NullIsNoRow ==
  Null \notin LabRow /\ Null \notin ChapterRow /\ Null \notin Texts

Run ==
  [commit : 0 .. (MaxPushes + 1), labs : SUBSET Labs,
   config : {Null} \union {dir.config : dir \in Dirs},
   images : SUBSET Images, image : Images \union {Null},
   id : Ids \union {Null}, existing : [Chapters -> TextOrNull],
   position : Nat, keep : SUBSET Chapters, text : TextOrNull,
   found : Ids \union {Null}]

TypeOK ==
  /\ commits \in Seq([Labs -> Dirs \union {Null}])
  /\ Len(commits) \in Commits
  /\ queue \in [Commits -> 0 .. runs]
  /\ runs \in 0 .. MaxRuns
  /\ labs \in [Labs -> LabRow \union {Null}]
  /\ chapters \in [Ids -> [Chapters -> ChapterRow \union {Null}]]
  /\ store \in [Labs -> [Images -> {Null} \union
       UNION {{dir.images[i] : i \in Images} : dir \in Dirs}]]
  /\ pc \in [Workers -> Settled \union
       {"config", "images", "put", "lab", "update", "insert", "states",
        "chapter", "find", "write", "prune", "sweep"}]
  /\ run \in [Workers -> Run]
  /\ quiet \in [Workers -> BOOLEAN]

\* The stored HTML of a chapter was made from its stored text
\* (webhooks.rs:1078-1082, labs.rs:143-144).
ChapterHtmlCurrent ==
  \A id \in Ids, c \in Chapters :
    chapters[id][c] # Null =>
      chapters[id][c].html \in {Null, chapters[id][c].text}

\* No chapter is left behind by a lab that has been deleted: the tables have
\* no foreign keys and the code stands in for them (labs.rs:253-254).
NoOrphans ==
  \A id \in Ids :
    chapters[id] # NoChapters => \E l \in Labs : labs[l] # Null /\ labs[l].id = id

\* The rows and images of a lab are those of its directory.
Mirrored(l, dir) ==
  IF dir = Null THEN labs[l] = Null
  ELSE dir.config # Null =>
    /\ labs[l] # Null
    /\ labs[l].meta = dir.config.meta
    /\ \A i \in ImagesOf(dir) : store[l][i] = dir.images[i]
    /\ \A c \in Chapters :
         LET row == chapters[labs[l].id][c] IN
         IF c \in Elements(dir.config.chapters) /\ dir.files[c] # Null
         THEN /\ row # Null
              /\ row.text = Text(dir.files[c], dir)
              /\ row.position + 1 \in DOMAIN dir.config.chapters
              /\ dir.config.chapters[row.position + 1] = c
         ELSE row = Null

\* Whatever earlier runs have left behind, a run of the last commit in which
\* nothing failed and nobody else wrote mirrors that commit, deletions
\* included (2026-07-28-labs-feature/index.md:183-186).
QuietRunMirrorsLabs ==
  \A w \in Workers :
    pc[w] = "done" /\ quiet[w] /\ run[w].commit = Len(commits) =>
      \A l \in Labs : Mirrored(l, head[l])

\* A chapter disappears only when some commit had no use for it: a failure of
\* GitHub or of the database never deletes one (webhooks.rs:1021-1025).
Unneeded(l, c, dir) ==
  \/ dir = Null
  \/ dir.files[c] = Null
  \/ dir.config # Null /\ c \notin Elements(dir.config.chapters)
FailureDeletesNothing ==
  [][\A l \in Labs, c \in Chapters :
       /\ labs[l] # Null
       /\ chapters[labs[l].id][c] # Null
       /\ labs'[l] = Null \/ chapters'[labs[l].id][c] = Null
       => \E n \in DOMAIN commits : Unneeded(l, c, commits[n][l])]_vars
=============================================================================
