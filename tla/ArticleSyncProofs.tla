-------------------------- MODULE ArticleSyncProofs --------------------------
(***************************************************************************)
(* Proofs about ArticleSync for any files, sources, tags and bounds.       *)
(***************************************************************************)
EXTENDS ArticleSync, FiniteSetTheorems, TLAPS

Steps == Settled \union {"fetch", "next", "upsert", "write", "chunks"}
FileOrNull == Sources \union {Null}
RowOrNull == Row \union {Null}

-----------------------------------------------------------------------------
(* Rows and counts *)

\* The description of an article is that of a file, or a title.
LEMMA DescriptionTyped ==
  ASSUME NEW row \in RowOrNull, NEW src \in Sources
  PROVE  EffectiveDescription(row, src) \in Descriptions
BY DEF EffectiveDescription, RowOrNull, Row, Descriptions, Titles

\* An inserted row is a row.
LEMMA InsertTyped ==
  ASSUME NEW src \in Sources, NEW html \in Contents \union {Null}
  PROVE  InsertedRow(src, html) \in Row
<1>1. EffectiveDescription(Null, src) \in Descriptions
  BY DescriptionTyped DEF RowOrNull
<1> QED
  BY <1>1, ArticleConstants
  DEF InsertedRow, Row, Titles, Contents, Thumbnails

\* An updated row is a row.
LEMMA UpdateTyped ==
  ASSUME NEW stored \in Row, NEW row \in Row, NEW src \in Sources,
         NEW html \in Contents \union {Null}
  PROVE  UpdatedRow(stored, row, src, html) \in Row
<1>1. EffectiveDescription(row, src) \in Descriptions
  BY DescriptionTyped DEF RowOrNull
<1>2. PublishedAt(row, src, stored.publishedAt) \in Nat
  BY DEF PublishedAt, Row
<1>3. src.tags \in SUBSET Tags /\ src.publish \in BOOLEAN
  BY ArticleConstants
<1> QED
  BY <1>1, <1>2, <1>3 DEF UpdatedRow, Row, Titles, Contents, Thumbnails

\* A count is at most the number of articles.
LEMMA CountsTyped ==
  ASSUME NEW rows
  PROVE  CountsOf(rows) \in [Tags -> 0 .. Cardinality(Slugs)]
<1> SUFFICES ASSUME NEW t \in Tags
             PROVE  CountsOf(rows)[t] \in 0 .. Cardinality(Slugs)
  BY DEF CountsOf
<1> DEFINE tagged == {s \in Slugs :
             rows[s] # Null /\ rows[s].published /\ t \in rows[s].tags}
<1>1. IsFiniteSet(Slugs)
  BY ArticleConstants
<1>2. /\ IsFiniteSet(tagged)
      /\ Cardinality(tagged) <= Cardinality(Slugs)
  BY <1>1, FS_Subset
<1>3. Cardinality(tagged) \in Nat /\ Cardinality(Slugs) \in Nat
  BY <1>1, <1>2, FS_CardinalityType
<1>4. CountsOf(rows)[t] = Cardinality(tagged)
  BY DEF CountsOf
<1> HIDE DEF tagged
<1> QED
  BY <1>2, <1>3, <1>4

\* The loop takes a file that is still to be processed.
LEMMA FirstIn ==
  ASSUME NEW S, S # {}
  PROVE  First(S) \in S
BY DEF First

-----------------------------------------------------------------------------
(* Type correctness *)

\* What a worker holds in its loop: every file it has still to process, and
\* a row to update that is stored.
WorkerShape(w) ==
  /\ pc[w] \in {"next", "upsert", "write", "chunks"} =>
       /\ todo[w] # {}
       /\ \A s \in todo[w] : files[w][s] # Null
  /\ pc[w] = "write" /\ current[w] # Null => articles[Slug(w)] # Null

\* What a tool holds in its loop: the rows of its snapshot, which are stored.
ToolShape(tool) ==
  /\ pc[tool] \in Settled \union {"next"}
  /\ pc[tool] = "next" => \A s \in todo[tool] :
       /\ seen[tool][s] # Null
       /\ articles[s] # Null

Shapes ==
  /\ \A w \in Workers : WorkerShape(w)
  /\ \A tool \in {Backfill, Embedder} : ToolShape(tool)

TypeInv == TypeOK /\ Shapes

\* The variables of an actor, and a step that leaves them alone.
Rests(a) ==
  /\ pc'[a] = pc[a]
  /\ todo'[a] = todo[a]
  /\ seen'[a] = seen[a]
  /\ a \in Workers => files'[a] = files[a] /\ current'[a] = current[a]

RowsStay == \A s \in Slugs : articles[s] # Null => articles'[s] # Null

\* A step of one actor that deletes no row leaves the others in shape.
LEMMA OthersInShape ==
  ASSUME TypeInv, RowsStay, NEW b \in Actors, Rests(b)
  PROVE  /\ b \in Workers => WorkerShape(b)'
         /\ b \in {Backfill, Embedder} => ToolShape(b)'
<1>1. ASSUME b \in Workers PROVE WorkerShape(b)'
  <2>1. Slug(b)' = Slug(b)
    BY DEF Rests, Slug
  <2>2. ASSUME pc[b] = "write" PROVE Slug(b) \in Slugs
    BY <1>1, <2>2, FirstIn
    DEF TypeInv, TypeOK, Shapes, WorkerShape, Slug, Actors
  <2> QED
    BY <1>1, <2>1, <2>2 DEF TypeInv, Shapes, WorkerShape, Rests, RowsStay
<1>2. ASSUME b \in {Backfill, Embedder} PROVE ToolShape(b)'
  BY <1>2 DEF TypeInv, TypeOK, Shapes, ToolShape, Rests, RowsStay, Actors
<1> QED
  BY <1>1, <1>2

\* The file a worker is processing is a file, of a known article.
LEMMA InLoop ==
  ASSUME TypeInv, NEW w \in Workers,
         pc[w] \in {"next", "upsert", "write", "chunks"}
  PROVE  /\ Slug(w) \in todo[w]
         /\ Slug(w) \in Slugs
         /\ files[w][Slug(w)] \in Sources
<1>1. Slug(w) \in todo[w]
  BY FirstIn DEF TypeInv, Shapes, WorkerShape, Slug
<1> QED
  BY <1>1 DEF TypeInv, TypeOK, Shapes, WorkerShape, Actors

LEMMA TypeInit == Init => TypeInv
<1> SUFFICES ASSUME Init PROVE TypeInv
  OBVIOUS
<1>1. ASSUME NEW s \in Slugs, head[s] # Null
      PROVE  InsertedRow(head[s], Null) \in Row
  BY <1>1, InsertTyped DEF Init
<1>2. articles \in [Slugs -> Row \union {Null}]
  BY <1>1 DEF Init
<1>3. counts \in [Tags -> 0 .. Cardinality(Slugs)]
  BY CountsTyped DEF Init
<1>4. TypeOK
  BY <1>2, <1>3, ArticleConstants
  DEF Init, TypeOK, Actors, Settled, NoFiles
<1>5. Shapes
  BY DEF Init, Shapes, WorkerShape, ToolShape, Settled, Actors
<1> QED
  BY <1>4, <1>5 DEF TypeInv

\* A step of worker w that moves on to pc[w] # "write".
LocalTyped ==
  /\ pc \in [Actors -> Steps]
  /\ todo \in [Actors -> SUBSET Slugs]
  /\ files \in [Workers -> [Slugs -> FileOrNull]]
  /\ seen \in [Actors -> [Slugs -> RowOrNull]]
  /\ current \in [Workers -> RowOrNull]

Moves(a) ==
  /\ LocalTyped'
  /\ \A b \in Actors \ {a} : Rests(b)

LEMMA FinishArticleMoves ==
  ASSUME TypeInv, NEW w \in Workers,
         pc[w] \in {"next", "upsert", "write", "chunks"},
         FinishArticle(w, Slug(w))
  PROVE  Moves(w) /\ WorkerShape(w)'
<1> USE DEF TypeInv, TypeOK, FinishArticle, Finish, Actors
<1>1. Slug(w) \in todo[w]
  BY InLoop
<1>2. LocalTyped'
  BY DEF LocalTyped, Steps, Settled, FileOrNull, RowOrNull
<1>3. \A b \in Actors \ {w} : Rests(b)
  BY DEF Rests
<1>4. pc'[w] \in {"next", "done"}
  OBVIOUS
<1>5. ASSUME pc'[w] = "next"
      PROVE  todo'[w] # {} /\ \A s \in todo'[w] : files'[w][s] # Null
  <2>1. todo'[w] = todo[w] \ {Slug(w)} /\ todo[w] # {Slug(w)}
    BY <1>5
  <2>2. todo'[w] # {}
    BY <1>1, <2>1
  <2>3. \A s \in todo'[w] : files'[w][s] = files[w][s] /\ s \in todo[w]
    BY <2>1
  <2> QED
    BY <2>2, <2>3 DEF Shapes, WorkerShape
<1>6. WorkerShape(w)'
  BY <1>4, <1>5 DEF WorkerShape
<1> QED
  BY <1>2, <1>3, <1>6 DEF Moves

LEMMA AfterUpsertMoves ==
  ASSUME TypeInv, NEW w \in Workers,
         pc[w] \in {"upsert", "write"},
         AfterUpsert(w)
  PROVE  Moves(w) /\ WorkerShape(w)'
<1>1. CASE NeedsChunks(seen[w][Slug(w)], files[w][Slug(w)])
  <2>1. /\ pc' = [pc EXCEPT ![w] = "chunks"]
        /\ UNCHANGED <<todo, files, seen, current>>
    BY <1>1 DEF AfterUpsert
  <2>2. Moves(w)
    BY <2>1
    DEF Moves, Rests, LocalTyped, Steps, TypeInv, TypeOK, Actors, FileOrNull,
        RowOrNull
  <2>3. WorkerShape(w)'
    BY <2>1 DEF WorkerShape, TypeInv, TypeOK, Shapes, Actors
  <2> QED
    BY <2>2, <2>3
<1>2. CASE ~NeedsChunks(seen[w][Slug(w)], files[w][Slug(w)])
  <2>1. FinishArticle(w, Slug(w))
    BY <1>2 DEF AfterUpsert
  <2> QED
    BY <2>1, FinishArticleMoves
<1> QED
  BY <1>1, <1>2

\* The rest of a step: quiet, the deliveries and the database.
QuietTyped == quiet \in [Actors -> BOOLEAN]

LEMMA QuietStep ==
  ASSUME TypeInv, NEW a \in Actors,
         Interfere \/ Fail(a) \/ WriteBy(a) \/ UNCHANGED quiet
  PROVE  QuietTyped'
BY DEF TypeInv, TypeOK, Interfere, Fail, WriteBy, QuietTyped

DeliveryTyped ==
  /\ head \in [Slugs -> FileOrNull]
  /\ pushes \in 0 .. MaxPushes
  /\ runs \in 0 .. MaxRuns
  /\ queue \in 0 .. runs
  /\ committed \in [Slugs -> SUBSET Sources]

DatabaseTyped ==
  /\ articles \in [Slugs -> RowOrNull]
  /\ counts \in [Tags -> 0 .. Cardinality(Slugs)]
  /\ chunks \in [Slugs -> SourceHashes \union {Null}]

LEMMA TypeParts ==
  TypeOK <=> LocalTyped /\ QuietTyped /\ DeliveryTyped /\ DatabaseTyped
BY DEF TypeOK, LocalTyped, QuietTyped, DeliveryTyped, DatabaseTyped, Steps,
       FileOrNull, RowOrNull

\* What is left to show of a step of a worker or of a tool.
LEMMA StepKeepsType ==
  ASSUME TypeInv, NEW a \in Actors,
         Moves(a), QuietTyped', DeliveryTyped', DatabaseTyped', RowsStay,
         a \in Workers => WorkerShape(a)',
         a \in {Backfill, Embedder} => ToolShape(a)'
  PROVE  TypeInv'
<1>1. TypeOK'
  BY TypeParts DEF Moves, TypeOK, LocalTyped, QuietTyped, DeliveryTyped,
     DatabaseTyped, Steps, FileOrNull, RowOrNull
<1>2. ASSUME NEW w \in Workers PROVE WorkerShape(w)'
  BY OthersInShape DEF Moves, Actors
<1>3. ASSUME NEW tool \in {Backfill, Embedder} PROVE ToolShape(tool)'
  BY OthersInShape DEF Moves, Actors
<1> QED
  BY <1>1, <1>2, <1>3 DEF TypeInv, Shapes

\* An action that leaves the deliveries alone keeps their types.
LEMMA DeliveryRests ==
  ASSUME TypeInv, UNCHANGED delivery PROVE DeliveryTyped'
BY TypeParts DEF TypeInv, delivery, DeliveryTyped

LEMMA DatabaseRests ==
  ASSUME TypeInv, UNCHANGED database PROVE DatabaseTyped' /\ RowsStay
BY TypeParts DEF TypeInv, database, DatabaseTyped, RowsStay

\* A step outside the workers and the tools.
LEMMA OutsideStep ==
  ASSUME TypeInv, UNCHANGED database, UNCHANGED local,
         QuietTyped', DeliveryTyped'
  PROVE  TypeInv'
<1>1. TypeOK'
  BY TypeParts
  DEF TypeInv, TypeOK, local, database, LocalTyped, QuietTyped, DeliveryTyped,
      DatabaseTyped, Steps, FileOrNull, RowOrNull
<1>2. RowsStay /\ \A b \in Actors : Rests(b)
  BY DEF RowsStay, Rests, local, database
<1> QED
  BY <1>1, <1>2, OthersInShape DEF TypeInv, Shapes, Actors

\* One more delivery is within the bound.
LEMMA DeliverTyped ==
  ASSUME TypeInv, Deliver
  PROVE  runs' \in 0 .. MaxRuns /\ queue' \in 0 .. runs'
BY ArticleConstants DEF TypeInv, TypeOK, Deliver

LEMMA PushTyped ==
  ASSUME TypeInv, NEW s \in Slugs, Push(s) PROVE TypeInv'
<1>1. runs' \in 0 .. MaxRuns /\ queue' \in 0 .. runs'
  BY DeliverTyped DEF Push, TypeInv, TypeOK
<1>2. PICK src \in (Sources \union {Null}) \ {head[s]} :
        /\ head' = [head EXCEPT ![s] = src]
        /\ committed' = [committed EXCEPT ![s] = @ \union ({src} \ {Null})]
  BY DEF Push
<1>3. head' \in [Slugs -> FileOrNull] /\ committed' \in [Slugs -> SUBSET Sources]
  BY <1>2 DEF TypeInv, TypeOK, FileOrNull
<1>4. pushes' \in 0 .. MaxPushes
  BY ArticleConstants DEF Push, TypeInv, TypeOK
<1>5. DeliveryTyped' /\ QuietTyped'
  BY <1>1, <1>3, <1>4 DEF DeliveryTyped, QuietTyped, Push, Interfere
<1> QED
  BY <1>5, OutsideStep DEF Push

LEMMA RedeliverTyped ==
  ASSUME TypeInv, Redeliver PROVE TypeInv'
<1>1. DeliveryTyped'
  BY DeliverTyped DEF Redeliver, DeliveryTyped, TypeInv, TypeOK, FileOrNull
<1>2. QuietTyped'
  BY DEF Redeliver, QuietTyped, TypeInv, TypeOK
<1> QED
  BY <1>1, <1>2, OutsideStep DEF Redeliver, local

LEMMA StartTyped ==
  ASSUME TypeInv, NEW w \in Workers, Start(w) PROVE TypeInv'
<1> USE DEF Actors
<1>1. ASSUME NEW step \in {"done", "fetch", "idle"},
             pc' = [pc EXCEPT ![w] = step]
      PROVE  /\ pc' \in [Actors -> Steps]
             /\ \A b \in Actors \ {w} : pc'[b] = pc[b]
  BY <1>1 DEF TypeInv, TypeOK, Steps, Settled
<1>2. PICK step \in {"done", "fetch", "idle"} : pc' = [pc EXCEPT ![w] = step]
  BY DEF Start
<1>3. /\ todo' \in [Actors -> SUBSET Slugs]
      /\ \A b \in Actors \ {w} : todo'[b] = todo[b]
  <2> DEFINE listed == {s \in Slugs : head[s] # Null}
  <2>1. todo' = [todo EXCEPT ![w] = listed] \/ todo' = todo
    BY DEF Start
  <2>2. listed \in SUBSET Slugs
    OBVIOUS
  <2> HIDE DEF listed
  <2> QED
    BY <2>1, <2>2 DEF TypeInv, TypeOK
<1>4. Moves(w)
  BY <1>1, <1>2, <1>3
  DEF Start, Moves, Rests, LocalTyped, TypeInv, TypeOK, FileOrNull, RowOrNull
<1>5. pc'[w] \in {"done", "fetch", "idle"}
  BY <1>2 DEF TypeInv, TypeOK
<1>6. WorkerShape(w)'
  BY <1>5 DEF WorkerShape
<1>7. QuietTyped'
  BY DEF Start, QuietTyped, TypeInv, TypeOK
<1>8. DeliveryTyped'
  BY DEF Start, DeliveryTyped, TypeInv, TypeOK, FileOrNull
<1>9. DatabaseTyped' /\ RowsStay
  BY DatabaseRests DEF Start
<1> QED
  BY <1>4, <1>6, <1>7, <1>8, <1>9, StepKeepsType, ArticleConstants

LEMMA FetchTyped ==
  ASSUME TypeInv, NEW w \in Workers, NEW s \in Slugs, Fetch(w, s)
  PROVE  TypeInv'
<1> USE DEF Actors
<1> DEFINE fetched == {u \in Slugs : files'[w][u] # Null}
<1>1. PICK file \in {head[s], Null} :
        /\ files' = [files EXCEPT ![w][s] = file]
        /\ IF file = Null THEN Fail(w) ELSE UNCHANGED quiet
  BY DEF Fetch
<1>2. files' \in [Workers -> [Slugs -> FileOrNull]]
  BY <1>1 DEF TypeInv, TypeOK, FileOrNull
<1>3. /\ todo' \in [Actors -> SUBSET Slugs]
      /\ pc' \in [Actors -> Steps]
      /\ \A b \in Actors \ {w} : pc'[b] = pc[b] /\ todo'[b] = todo[b]
  <2>1. fetched \in SUBSET Slugs
    OBVIOUS
  <2>2. \/ todo' = [todo EXCEPT ![w] = @ \ {s}] /\ pc' = pc
        \/ /\ todo' = [todo EXCEPT ![w] = fetched]
           /\ \/ pc' = [pc EXCEPT ![w] = "done"]
              \/ pc' = [pc EXCEPT ![w] = "next"]
    BY DEF Fetch
  <2> HIDE DEF fetched
  <2>3. /\ todo' \in [Actors -> SUBSET Slugs]
        /\ \A b \in Actors \ {w} : todo'[b] = todo[b]
    <3>1. todo \in [Actors -> SUBSET Slugs] /\ w \in Actors
      BY DEF TypeInv, TypeOK
    <3>2. CASE todo' = [todo EXCEPT ![w] = @ \ {s}]
      BY <3>1, <3>2
    <3>3. CASE todo' = [todo EXCEPT ![w] = fetched]
      BY <2>1, <3>1, <3>3
    <3> QED
      BY <2>2, <3>2, <3>3
  <2>4. /\ pc' \in [Actors -> Steps]
        /\ \A b \in Actors \ {w} : pc'[b] = pc[b]
    BY <2>2 DEF TypeInv, TypeOK, Steps, Settled
  <2> QED
    BY <2>3, <2>4
<1>4. Moves(w)
  BY <1>1, <1>2, <1>3
  DEF Moves, Rests, LocalTyped, TypeInv, TypeOK, Fetch, FileOrNull, RowOrNull
<1>5. WorkerShape(w)'
  <2>1. CASE todo[w] # {s}
    BY <2>1 DEF Fetch, WorkerShape, TypeInv, TypeOK
  <2>2. CASE todo[w] = {s}
    <3>1. /\ todo'[w] = fetched
          /\ pc'[w] = IF fetched = {} THEN "done" ELSE "next"
      BY <2>2 DEF Fetch, TypeInv, TypeOK
    <3> QED
      BY <3>1 DEF WorkerShape
  <2> QED
    BY <2>1, <2>2
<1>6. QuietTyped'
  BY <1>1, QuietStep
<1>7. DeliveryTyped' /\ DatabaseTyped' /\ RowsStay
  BY DeliveryRests, DatabaseRests DEF Fetch
<1> QED
  BY <1>4, <1>5, <1>6, <1>7, StepKeepsType, ArticleConstants

LEMMA FindTyped ==
  ASSUME TypeInv, NEW w \in Workers, Find(w) PROVE TypeInv'
<1> USE DEF Actors
<1>1. Slug(w) \in Slugs
  BY InLoop DEF Find
<1>2. Moves(w) /\ WorkerShape(w)'
  <2>1. CASE FinishArticle(w, Slug(w))
    BY <2>1, FinishArticleMoves DEF Find
  <2>2. CASE ~FinishArticle(w, Slug(w))
    <3>1. /\ seen' = [seen EXCEPT ![w][Slug(w)] = articles[Slug(w)]]
          /\ pc' = [pc EXCEPT ![w] = "upsert"]
          /\ UNCHANGED <<todo, files, current, quiet>>
          /\ pc[w] = "next"
      BY <2>2 DEF Find
    <3>2. seen' \in [Actors -> [Slugs -> RowOrNull]]
      BY <1>1, <3>1 DEF TypeInv, TypeOK, RowOrNull
    <3>3. Moves(w)
      BY <3>1, <3>2
      DEF Moves, Rests, LocalTyped, TypeInv, TypeOK, Steps, FileOrNull,
          RowOrNull
    <3>4. WorkerShape(w)'
      BY <3>1 DEF WorkerShape, TypeInv, TypeOK, Shapes
    <3> QED
      BY <3>3, <3>4
  <2> QED
    BY <2>1, <2>2
<1>3. QuietTyped'
  BY QuietStep DEF Find
<1>4. DeliveryTyped' /\ DatabaseTyped' /\ RowsStay
  BY DeliveryRests, DatabaseRests DEF Find
<1> QED
  BY <1>2, <1>3, <1>4, StepKeepsType, ArticleConstants

LEMMA UpsertTyped ==
  ASSUME TypeInv, NEW w \in Workers, Upsert(w) PROVE TypeInv'
<1> USE DEF Actors
<1>1. Slug(w) \in Slugs /\ pc[w] = "upsert"
  BY InLoop DEF Upsert
<1>2. Moves(w) /\ WorkerShape(w)'
  <2>1. CASE FinishArticle(w, Slug(w)) \/ AfterUpsert(w)
    BY <1>1, <2>1, FinishArticleMoves, AfterUpsertMoves
  <2>2. CASE ~(FinishArticle(w, Slug(w)) \/ AfterUpsert(w))
    <3>1. /\ current' = [current EXCEPT ![w] = articles[Slug(w)]]
          /\ pc' = [pc EXCEPT ![w] = "write"]
          /\ UNCHANGED <<todo, files, seen>>
          /\ UNCHANGED <<articles>>
      BY <2>2 DEF Upsert, database
    <3>2. current' \in [Workers -> RowOrNull]
      BY <1>1, <3>1 DEF TypeInv, TypeOK, RowOrNull
    <3>3. Moves(w)
      BY <3>1, <3>2
      DEF Moves, Rests, LocalTyped, TypeInv, TypeOK, Steps, FileOrNull,
          RowOrNull
    <3>4. Slug(w)' = Slug(w)
      BY <3>1 DEF Slug
    <3>5. WorkerShape(w)'
      BY <1>1, <3>1, <3>4 DEF WorkerShape, TypeInv, TypeOK, Shapes
    <3> QED
      BY <3>3, <3>5
  <2> QED
    BY <2>1, <2>2
<1>3. QuietTyped'
  BY QuietStep DEF Upsert
<1>4. DeliveryTyped' /\ DatabaseTyped' /\ RowsStay
  BY DeliveryRests, DatabaseRests DEF Upsert
<1> QED
  BY <1>2, <1>3, <1>4, StepKeepsType, ArticleConstants

\* A hash of a file or a row is a source hash.
LEMMA HashTyped ==
  /\ \A src \in Sources, row \in RowOrNull :
       SourceHash(src.title, EffectiveDescription(row, src), src.content)
         \in SourceHashes
  /\ \A row \in Row : RowHash(row) \in SourceHashes
BY DescriptionTyped
DEF SourceHash, RowHash, SourceHashes, Titles, Contents, Row

LEMMA WriteTyped ==
  ASSUME TypeInv, NEW w \in Workers, Write(w) PROVE TypeInv'
<1> USE DEF Actors
<1> DEFINE s == Slug(w)
           src == files[w][s]
           html == IF NeedsHtml(seen[w][s], src) THEN src.content ELSE Null
           new == IF current[w] = Null THEN InsertedRow(src, html)
                  ELSE UpdatedRow(articles[s], current[w], src, html)
<1>1. pc[w] = "write" /\ s \in Slugs /\ src \in Sources
  BY InLoop DEF Write
<1>2. html \in Contents \union {Null}
  BY <1>1 DEF Contents
<1>3. new \in Row
  <2>1. CASE current[w] = Null
    BY <1>1, <1>2, <2>1, InsertTyped
  <2>2. CASE current[w] # Null
    <3>1. current[w] \in Row /\ articles[s] \in Row
      BY <1>1, <2>2 DEF TypeInv, TypeOK, Shapes, WorkerShape
    <3> QED
      BY <1>1, <1>2, <2>2, <3>1, UpdateTyped
  <2> QED
    BY <2>1, <2>2
<1>4. Moves(w) /\ WorkerShape(w)'
  BY <1>1, FinishArticleMoves, AfterUpsertMoves DEF Write
<1>5. QuietTyped'
  BY QuietStep DEF Write
<1>6. DeliveryTyped'
  BY DeliveryRests DEF Write
<1>7. \/ /\ articles' = [articles EXCEPT ![s] = new]
         /\ \/ counts' = CountsOf(articles')
            \/ counts' = counts
      \/ UNCHANGED <<articles, counts>>
  BY DEF Write
<1>8. chunks' = chunks
  BY DEF Write
<1> HIDE DEF new, s, src, html
<1>9. counts' \in [Tags -> 0 .. Cardinality(Slugs)]
  BY <1>7, CountsTyped DEF TypeInv, TypeOK
<1>10. articles' \in [Slugs -> RowOrNull] /\ RowsStay
  BY <1>1, <1>3, <1>7, NullAssumption DEF RowsStay, TypeInv, TypeOK, RowOrNull
<1>11. DatabaseTyped'
  BY <1>8, <1>9, <1>10 DEF DatabaseTyped, TypeInv, TypeOK
<1> QED
  BY <1>4, <1>5, <1>6, <1>10, <1>11, StepKeepsType, ArticleConstants

LEMMA RegenerateTyped ==
  ASSUME TypeInv, NEW w \in Workers, RegenerateChunks(w) PROVE TypeInv'
<1> USE DEF Actors
<1> DEFINE src == files[w][Slug(w)]
           hash == SourceHash(src.title,
                     EffectiveDescription(seen[w][Slug(w)], src), src.content)
<1>1. Slug(w) \in Slugs /\ src \in Sources
  BY InLoop DEF RegenerateChunks
<1>2. hash \in SourceHashes
  BY <1>1, HashTyped DEF TypeInv, TypeOK, RowOrNull
<1>3. chunks' = [chunks EXCEPT ![Slug(w)] = hash] \/ chunks' = chunks
  BY DEF RegenerateChunks
<1> HIDE DEF src, hash
<1>4. Moves(w) /\ WorkerShape(w)'
  BY FinishArticleMoves DEF RegenerateChunks
<1>5. QuietTyped' /\ DeliveryTyped'
  BY QuietStep, DeliveryRests DEF RegenerateChunks
<1>6. DatabaseTyped' /\ RowsStay
  BY <1>1, <1>2, <1>3
  DEF RegenerateChunks, DatabaseTyped, RowsStay, TypeInv, TypeOK, RowOrNull
<1> QED
  BY <1>4, <1>5, <1>6, StepKeepsType, ArticleConstants

LEMMA CrashTyped ==
  ASSUME TypeInv, NEW w \in Workers, Crash(w) PROVE TypeInv'
<1> USE DEF Actors
<1>1. /\ pc' \in [Actors -> Steps]
      /\ todo' \in [Actors -> SUBSET Slugs]
      /\ files' \in [Workers -> [Slugs -> FileOrNull]]
      /\ seen' \in [Actors -> [Slugs -> RowOrNull]]
      /\ current' \in [Workers -> RowOrNull]
  BY DEF Crash, TypeInv, TypeOK, Steps, Settled, NoFiles, FileOrNull, RowOrNull
<1>2. \A b \in Actors \ {w} : Rests(b)
  BY DEF Crash, Rests, TypeInv, TypeOK
<1>3. Moves(w)
  BY <1>1, <1>2 DEF Moves, LocalTyped
<1>4. WorkerShape(w)'
  BY DEF Crash, WorkerShape, TypeInv, TypeOK
<1>5. QuietTyped'
  BY QuietStep DEF Crash
<1>6. DeliveryTyped'
  BY DeliverTyped DEF Crash, DeliveryTyped, TypeInv, TypeOK, FileOrNull
<1>7. DatabaseTyped' /\ RowsStay
  BY DatabaseRests DEF Crash
<1> QED
  BY <1>3, <1>4, <1>5, <1>6, <1>7, StepKeepsType, ArticleConstants

\* A tool's snapshot is of stored rows.
LEMMA StartToolTyped ==
  ASSUME TypeInv, NEW tool \in {Backfill, Embedder},
         NEW rows \in SUBSET Stored, StartTool(tool, rows)
  PROVE  TypeInv'
<1> USE DEF Actors
<1>1. rows \in SUBSET Slugs /\ \A s \in rows : articles[s] # Null
  BY DEF Stored
<1>2. PICK step \in {"done", "next"} : pc' = [pc EXCEPT ![tool] = step]
  BY DEF StartTool
<1>3. pc' \in [Actors -> Steps] /\ todo' \in [Actors -> SUBSET Slugs]
  BY <1>1, <1>2 DEF StartTool, TypeInv, TypeOK, Steps, Settled
<1>4. seen' \in [Actors -> [Slugs -> RowOrNull]]
  <2>1. [s \in Slugs |-> IF s \in rows THEN articles[s] ELSE Null]
          \in [Slugs -> RowOrNull]
    BY DEF TypeInv, TypeOK, RowOrNull
  <2> QED
    BY <2>1 DEF StartTool, TypeInv, TypeOK, RowOrNull
<1>5. Moves(tool)
  BY <1>2, <1>3, <1>4, ArticleConstants
  DEF StartTool, Moves, Rests, LocalTyped, TypeInv, TypeOK, FileOrNull,
      RowOrNull
<1>6. ToolShape(tool)'
  <2>1. pc'[tool] \in Settled \union {"next"}
    BY <1>2 DEF TypeInv, TypeOK, Settled
  <2>2. \A s \in todo'[tool] : seen'[tool][s] = articles[s] /\ s \in rows
    BY <1>1 DEF StartTool, TypeInv, TypeOK
  <2> QED
    BY <1>1, <2>1, <2>2 DEF ToolShape, StartTool, database
<1>7. QuietTyped'
  BY DEF StartTool, QuietTyped, TypeInv, TypeOK
<1>8. DeliveryTyped' /\ DatabaseTyped' /\ RowsStay
  BY DeliveryRests, DatabaseRests DEF StartTool
<1> QED
  BY <1>5, <1>6, <1>7, <1>8, StepKeepsType, ArticleConstants

\* A tool that has processed a row.
LEMMA FinishMoves ==
  ASSUME TypeInv, RowsStay, NEW tool \in {Backfill, Embedder},
         NEW s \in Slugs, pc[tool] = "next", s \in todo[tool],
         Finish(tool, s), UNCHANGED <<files, current>>
  PROVE  Moves(tool) /\ ToolShape(tool)'
<1> USE DEF TypeInv, TypeOK, Finish, Actors
<1>1. LocalTyped'
  BY DEF LocalTyped, Steps, Settled, FileOrNull, RowOrNull
<1>2. \A b \in Actors \ {tool} : Rests(b)
  BY DEF Rests
<1>3. /\ pc'[tool] \in {"next", "done"}
      /\ \A u \in todo'[tool] :
           u \in todo[tool] /\ seen'[tool][u] = seen[tool][u]
  OBVIOUS
<1>4. ToolShape(tool)'
  BY <1>3 DEF ToolShape, Shapes, RowsStay, Settled
<1> QED
  BY <1>1, <1>2, <1>4 DEF Moves

LEMMA BackfillTyped ==
  ASSUME TypeInv, NEW s \in Slugs, BackfillRow(s) PROVE TypeInv'
<1> USE DEF Actors
<1>1. /\ articles[s] \in Row
      /\ seen[Backfill][s] \in Row
  BY DEF BackfillRow, TypeInv, TypeOK, Shapes, ToolShape
<1>2. [articles[s] EXCEPT !.html = seen[Backfill][s].content] \in Row
  BY <1>1 DEF Row
<1>3. \/ articles' = articles
      \/ articles' = [articles EXCEPT
           ![s] = [articles[s] EXCEPT !.html = seen[Backfill][s].content]]
  BY DEF BackfillRow
<1>4. articles' \in [Slugs -> RowOrNull] /\ RowsStay
  BY <1>2, <1>3, NullAssumption DEF RowsStay, TypeInv, TypeOK, RowOrNull
<1>5. DatabaseTyped'
  BY <1>4 DEF BackfillRow, DatabaseTyped, TypeInv, TypeOK
<1>6. Moves(Backfill) /\ ToolShape(Backfill)'
  BY <1>4, FinishMoves DEF BackfillRow
<1>7. QuietTyped' /\ DeliveryTyped'
  BY QuietStep, DeliveryRests DEF BackfillRow
<1> QED
  BY <1>4, <1>5, <1>6, <1>7, StepKeepsType, ArticleConstants

LEMMA EmbedTyped ==
  ASSUME TypeInv, NEW s \in Slugs, EmbedRow(s) PROVE TypeInv'
<1> USE DEF Actors
<1>1. RowHash(seen[Embedder][s]) \in SourceHashes
  BY HashTyped DEF EmbedRow, TypeInv, TypeOK, Shapes, ToolShape
<1>2. \/ chunks' = chunks
      \/ chunks' = [chunks EXCEPT ![s] = RowHash(seen[Embedder][s])]
  BY DEF EmbedRow
<1>3. chunks' \in [Slugs -> SourceHashes \union {Null}]
  BY <1>1, <1>2 DEF TypeInv, TypeOK
<1>4. DatabaseTyped' /\ RowsStay
  BY <1>3 DEF EmbedRow, DatabaseTyped, RowsStay, TypeInv, TypeOK, RowOrNull
<1>5. Moves(Embedder) /\ ToolShape(Embedder)'
  BY <1>4, FinishMoves DEF EmbedRow
<1>6. QuietTyped' /\ DeliveryTyped'
  BY QuietStep, DeliveryRests DEF EmbedRow
<1> QED
  BY <1>4, <1>5, <1>6, StepKeepsType, ArticleConstants

LEMMA TypeNext == TypeInv /\ [Next]_vars => TypeInv'
<1> SUFFICES ASSUME TypeInv, [Next]_vars PROVE TypeInv'
  OBVIOUS
<1>1. ASSUME NEW s \in Slugs, Push(s) PROVE TypeInv'
  BY <1>1, PushTyped
<1>2. CASE Redeliver
  BY <1>2, RedeliverTyped
<1>3. ASSUME NEW w \in Workers, WorkerStep(w) PROVE TypeInv'
  BY <1>3, StartTyped, FetchTyped, FindTyped, UpsertTyped, WriteTyped,
     RegenerateTyped, CrashTyped
  DEF WorkerStep
<1>4. ASSUME NEW all \in BOOLEAN, StartBackfill(all) \/ StartEmbedder(all)
      PROVE  TypeInv'
  <2>1. CASE StartBackfill(all)
    <3>1. BackfillRows(all) \in SUBSET Stored
      BY DEF BackfillRows
    <3> QED
      BY <2>1, <3>1, StartToolTyped DEF StartBackfill
  <2>2. CASE StartEmbedder(all)
    <3>1. {s \in Stored : all \/ Outdated(s)} \in SUBSET Stored
      OBVIOUS
    <3> QED
      BY <2>2, <3>1, StartToolTyped DEF StartEmbedder
  <2> QED
    BY <1>4, <2>1, <2>2
<1>5. ASSUME NEW s \in Slugs, BackfillRow(s) \/ EmbedRow(s) PROVE TypeInv'
  BY <1>5, BackfillTyped, EmbedTyped
<1>6. CASE UNCHANGED vars
  <2>1. UNCHANGED database /\ UNCHANGED local /\ UNCHANGED delivery
        /\ UNCHANGED quiet
    BY <1>6 DEF vars
  <2> QED
    BY <2>1, OutsideStep, DeliveryRests
    DEF QuietTyped, TypeInv, TypeOK
<1> QED
  BY <1>1, <1>2, <1>3, <1>4, <1>5, <1>6 DEF Next, ToolStep

\* Every variable keeps its type, and no worker or tool reaches for a file or
\* a row that is not there.
THEOREM ArticleTypeCorrect == Spec => []TypeOK
<1>1. Spec => []TypeInv
  BY TypeInit, TypeNext, PTL DEF Spec
<1>2. TypeInv => TypeOK
  BY DEF TypeInv
<1> QED
  BY <1>1, <1>2, PTL

-----------------------------------------------------------------------------
(* Rows of one commit                                                      *)

FromCommit(row, sources) ==
  \E src \in sources :
    /\ row.title = src.title
    /\ row.content = src.content
    /\ row.thumbnail = src.thumbnail
    /\ row.published = src.publish

\* What the branch and the workers hold has been committed.
HeadCommitted == \A s \in Slugs : head[s] # Null => head[s] \in committed[s]
FilesCommitted ==
  \A w \in Workers, s \in Slugs :
    files[w][s] # Null => files[w][s] \in committed[s]

CommitInv == HeadCommitted /\ FilesCommitted /\ RowFromOneCommit

\* A step in which nothing but committed files come in.
LEMMA CommitStep ==
  ASSUME CommitInv,
         \A s \in Slugs : committed[s] \subseteq committed'[s],
         HeadCommitted',
         \A w \in Workers, s \in Slugs : files'[w][s] # Null =>
           files'[w][s] = files[w][s] \/ files'[w][s] \in committed[s],
         \A s \in Slugs : articles'[s] # Null =>
           \/ articles'[s] = articles[s]
           \/ FromCommit(articles'[s], committed[s])
  PROVE  CommitInv'
<1>1. FilesCommitted'
  BY DEF CommitInv, FilesCommitted
<1>2. ASSUME NEW s \in Slugs, articles'[s] # Null
      PROVE  FromCommit(articles'[s], committed'[s])
  <2>1. FromCommit(articles'[s], committed[s])
    BY <1>2 DEF CommitInv, RowFromOneCommit, FromCommit
  <2> QED
    BY <2>1 DEF FromCommit
<1>3. RowFromOneCommit'
  BY <1>2 DEF RowFromOneCommit, FromCommit
<1> QED
  BY <1>1, <1>3 DEF CommitInv

LEMMA CommitInit == Init => CommitInv
<1> SUFFICES ASSUME Init PROVE CommitInv
  OBVIOUS
<1>1. HeadCommitted
  BY DEF Init, HeadCommitted
<1>2. FilesCommitted
  BY DEF Init, FilesCommitted, NoFiles
<1>3. RowFromOneCommit
  BY <1>1 DEF Init, HeadCommitted, RowFromOneCommit, InsertedRow
<1> QED
  BY <1>1, <1>2, <1>3 DEF CommitInv

LEMMA CommitPush ==
  ASSUME TypeInv, CommitInv, NEW s \in Slugs, Push(s) PROVE CommitInv'
<1>1. PICK src \in (Sources \union {Null}) \ {head[s]} :
        /\ head' = [head EXCEPT ![s] = src]
        /\ committed' = [committed EXCEPT ![s] = @ \union ({src} \ {Null})]
  BY DEF Push
<1>2. \A u \in Slugs : committed[u] \subseteq committed'[u]
  BY <1>1 DEF TypeInv, TypeOK
<1>3. HeadCommitted'
  BY <1>1 DEF CommitInv, HeadCommitted, TypeInv, TypeOK
<1>4. files' = files /\ articles' = articles
  BY DEF Push, database, local
<1> QED
  BY <1>2, <1>3, <1>4, CommitStep

LEMMA CommitFetch ==
  ASSUME TypeInv, CommitInv, NEW w \in Workers, NEW s \in Slugs, Fetch(w, s)
  PROVE  CommitInv'
<1>1. PICK file \in {head[s], Null} : files' = [files EXCEPT ![w][s] = file]
  BY DEF Fetch
<1>2. \A v \in Workers, u \in Slugs : files'[v][u] # Null =>
        files'[v][u] = files[v][u] \/ files'[v][u] \in committed[u]
  BY <1>1 DEF CommitInv, HeadCommitted, TypeInv, TypeOK
<1>3. UNCHANGED <<head, committed, articles>>
  BY DEF Fetch, delivery, database
<1> QED
  BY <1>2, <1>3, CommitStep DEF CommitInv, HeadCommitted

\* The loop only drops files.
LEMMA FilesDropped ==
  ASSUME TypeInv, NEW w \in Workers,
         \/ UNCHANGED files
         \/ FinishArticle(w, Slug(w))
         \/ AfterUpsert(w)
         \/ files' = [files EXCEPT ![w] = NoFiles]
  PROVE  \A v \in Workers, u \in Slugs :
           files'[v][u] # Null => files'[v][u] = files[v][u]
<1>1. \/ UNCHANGED files
      \/ files' = [files EXCEPT ![w][Slug(w)] = Null]
      \/ files' = [files EXCEPT ![w] = NoFiles]
  BY DEF FinishArticle, AfterUpsert
<1> QED
  BY <1>1 DEF TypeInv, TypeOK, NoFiles

\* The transaction writes the row of the file, or only its tags.
LEMMA CommitWrite ==
  ASSUME TypeInv, CommitInv, NEW w \in Workers, Write(w) PROVE CommitInv'
<1> DEFINE s == Slug(w)
           src == files[w][s]
           html == IF NeedsHtml(seen[w][s], src) THEN src.content ELSE Null
           new == IF current[w] = Null THEN InsertedRow(src, html)
                  ELSE UpdatedRow(articles[s], current[w], src, html)
<1>1. pc[w] = "write" /\ s \in Slugs /\ src \in Sources
  BY InLoop DEF Write
<1>2. src \in committed[s]
  BY <1>1, ArticleConstants DEF CommitInv, FilesCommitted
<1>3. articles' = [articles EXCEPT ![s] = new] \/ articles' = articles
  BY DEF Write
<1>4. FromCommit(new, committed[s])
  <2>1. CASE current[w] = Null
    BY <1>2, <2>1 DEF FromCommit, InsertedRow
  <2>2. CASE current[w] # Null
    <3>1. articles[s] \in Row
      BY <1>1, <2>2 DEF TypeInv, TypeOK, Shapes, WorkerShape
    <3>2. CASE ArticleChanged(current[w], src)
      BY <1>2, <2>2, <3>2 DEF FromCommit, UpdatedRow
    <3>3. CASE ~ArticleChanged(current[w], src)
      <4> DEFINE tags == IF TagsChanged(current[w], src) THEN src.tags
                         ELSE articles[s].tags
      <4>1. new = [articles[s] EXCEPT !.tags = tags]
        BY <2>2, <3>3 DEF UpdatedRow
      <4>2. /\ new.title = articles[s].title
            /\ new.content = articles[s].content
            /\ new.thumbnail = articles[s].thumbnail
            /\ new.published = articles[s].published
        BY <3>1, <4>1 DEF Row
      <4>3. FromCommit(articles[s], committed[s])
        BY <1>1, <3>1, NullAssumption
        DEF CommitInv, RowFromOneCommit, FromCommit
      <4> HIDE DEF new
      <4> QED
        BY <4>2, <4>3 DEF FromCommit
    <3> QED
      BY <3>2, <3>3
  <2> QED
    BY <2>1, <2>2
<1>5. \A v \in Workers, u \in Slugs :
        files'[v][u] # Null => files'[v][u] = files[v][u]
  BY FilesDropped DEF Write
<1>6. UNCHANGED <<head, committed>>
  BY DEF Write, delivery
<1> HIDE DEF new, html, src, s
<1>7. \A u \in Slugs : articles'[u] # Null =>
        articles'[u] = articles[u] \/ FromCommit(articles'[u], committed[u])
  BY <1>1, <1>3, <1>4 DEF TypeInv, TypeOK
<1> QED
  BY <1>5, <1>6, <1>7, CommitStep DEF CommitInv, HeadCommitted

\* The backfill writes HTML only.
LEMMA CommitBackfill ==
  ASSUME TypeInv, CommitInv, NEW s \in Slugs, BackfillRow(s) PROVE CommitInv'
<1> DEFINE new == [articles[s] EXCEPT !.html = seen[Backfill][s].content]
<1>1. articles[s] \in Row
  BY DEF BackfillRow, TypeInv, TypeOK, Shapes, ToolShape
<1>2. articles' = articles \/ articles' = [articles EXCEPT ![s] = new]
  BY DEF BackfillRow
<1>3. FromCommit(articles[s], committed[s])
  BY <1>1, NullAssumption DEF CommitInv, RowFromOneCommit, FromCommit
<1>4. FromCommit(new, committed[s])
  BY <1>1, <1>3 DEF FromCommit, Row
<1>5. UNCHANGED <<head, committed, files>>
  BY DEF BackfillRow, delivery
<1> HIDE DEF new
<1>6. \A u \in Slugs : articles'[u] # Null =>
        articles'[u] = articles[u] \/ FromCommit(articles'[u], committed[u])
  BY <1>2, <1>4 DEF TypeInv, TypeOK
<1> QED
  BY <1>5, <1>6, CommitStep DEF CommitInv, HeadCommitted

\* The other steps leave the branch and the rows alone.
LEMMA CommitElse ==
  ASSUME TypeInv, CommitInv, UNCHANGED <<head, committed, articles>>,
         \A v \in Workers, u \in Slugs :
           files'[v][u] # Null => files'[v][u] = files[v][u]
  PROVE  CommitInv'
BY CommitStep DEF CommitInv, HeadCommitted

LEMMA CommitNext == TypeInv /\ CommitInv /\ [Next]_vars => CommitInv'
<1> SUFFICES ASSUME TypeInv, CommitInv, [Next]_vars PROVE CommitInv'
  OBVIOUS
<1> USE DEF delivery, database, local
<1>1. ASSUME NEW s \in Slugs, Push(s) PROVE CommitInv'
  BY <1>1, CommitPush
<1>2. CASE Redeliver
  BY <1>2, CommitElse DEF Redeliver
<1>3. ASSUME NEW w \in Workers, WorkerStep(w) PROVE CommitInv'
  <2>1. CASE Start(w)
    BY <2>1, CommitElse DEF Start
  <2>2. CASE Find(w)
    BY <2>2, CommitElse, FilesDropped DEF Find
  <2>3. CASE Upsert(w)
    BY <2>3, CommitElse, FilesDropped DEF Upsert
  <2>4. CASE Write(w)
    BY <2>4, CommitWrite
  <2>5. CASE RegenerateChunks(w)
    BY <2>5, CommitElse, FilesDropped DEF RegenerateChunks
  <2>6. CASE Crash(w)
    BY <2>6, CommitElse, FilesDropped DEF Crash
  <2>7. ASSUME NEW s \in Slugs, Fetch(w, s) PROVE CommitInv'
    BY <2>7, CommitFetch
  <2> QED
    BY <1>3, <2>1, <2>2, <2>3, <2>4, <2>5, <2>6, <2>7 DEF WorkerStep
<1>4. CASE ToolStep
  <2>1. ASSUME NEW all \in BOOLEAN, StartBackfill(all) \/ StartEmbedder(all)
        PROVE  CommitInv'
    BY <2>1, CommitElse DEF StartBackfill, StartEmbedder, StartTool
  <2>2. ASSUME NEW s \in Slugs, BackfillRow(s) PROVE CommitInv'
    BY <2>2, CommitBackfill
  <2>3. ASSUME NEW s \in Slugs, EmbedRow(s) PROVE CommitInv'
    BY <2>3, CommitElse DEF EmbedRow
  <2> QED
    BY <1>4, <2>1, <2>2, <2>3 DEF ToolStep
<1>5. CASE UNCHANGED vars
  BY <1>5, CommitElse DEF vars
<1> QED
  BY <1>1, <1>2, <1>3, <1>4, <1>5 DEF Next

\* However many deliveries, tools and failures overlap, a row never mixes
\* the columns of two commits.
THEOREM RowsAreOfOneCommit == Spec => []RowFromOneCommit
<1>1. Spec => []TypeInv
  BY TypeInit, TypeNext, PTL DEF Spec
<1>2. Init => CommitInv
  BY CommitInit
<1>3. TypeInv /\ CommitInv /\ [Next]_vars => CommitInv'
  BY CommitNext
<1>4. CommitInv => RowFromOneCommit
  BY DEF CommitInv
<1> QED
  BY <1>1, <1>2, <1>3, <1>4, PTL DEF Spec

-----------------------------------------------------------------------------
(* Deliveries processed one at a time, and content-html-backfill not run.  *)
(* With two workers HtmlCurrent and CountsExact are false.                 *)

OneWorker == \A u, v \in Workers : u = v
NoBackfill == Backfill \notin Tools

\* The rows the worker has read are still the stored ones.
Fresh(w) ==
  /\ pc[w] \in {"upsert", "write"} =>
       seen[w][Slug(w)] = articles[Slug(w)]
  /\ pc[w] = "write" => current[w] = articles[Slug(w)]

SerialInv ==
  /\ pc[Backfill] = "idle"
  /\ \A w \in Workers : Fresh(w)
  /\ HtmlCurrent
  /\ CountsExact

-----------------------------------------------------------------------------
(* The rows *)

\* The transaction of Write, when what the worker has read is still stored.
Written(row, src) ==
  LET html == IF NeedsHtml(row, src) THEN src.content ELSE Null IN
  IF row = Null THEN InsertedRow(src, html)
  ELSE UpdatedRow(row, row, src, html)

LEMMA WrittenHtml ==
  ASSUME NEW row \in RowOrNull, NEW src \in Sources,
         row # Null => row.html \in {Null, row.content}
  PROVE  Written(row, src).html \in {Null, Written(row, src).content}
<1>1. CASE row = Null
  BY <1>1 DEF Written, NeedsHtml, InsertedRow
<1>2. CASE row # Null
  <2>1. row \in Row
    BY <1>2 DEF RowOrNull
  <2>2. CASE ArticleChanged(row, src) /\ NeedsHtml(row, src)
    BY <1>2, <2>2, ArticleConstants DEF Written, UpdatedRow
  <2>3. CASE ArticleChanged(row, src) /\ ~NeedsHtml(row, src)
    BY <1>2, <2>3 DEF Written, UpdatedRow, NeedsHtml
  <2>4. CASE ~ArticleChanged(row, src)
    <3>1. PICK tags : Written(row, src) = [row EXCEPT !.tags = tags]
      BY <1>2, <2>4 DEF Written, UpdatedRow
    <3> QED
      BY <1>2, <2>1, <3>1 DEF Row
  <2> QED
    BY <2>2, <2>3, <2>4
<1> QED
  BY <1>1, <1>2

\* Without a change of the status or the tags neither is written.
LEMMA WrittenCounted ==
  ASSUME NEW row \in Row, NEW src \in Sources, row # Null,
         ~CountsAffected(row, src)
  PROVE  /\ Written(row, src).published = row.published
         /\ Written(row, src).tags = row.tags
<1>1. src.publish = row.published /\ ~TagsChanged(row, src)
  BY DEF CountsAffected, StatusChanged
<1>2. CASE ArticleChanged(row, src)
  BY <1>1, <1>2 DEF Written, UpdatedRow
<1>3. CASE ~ArticleChanged(row, src)
  <2>1. Written(row, src) = [row EXCEPT !.tags = row.tags]
    BY <1>1, <1>3 DEF Written, UpdatedRow
  <2> QED
    BY <2>1 DEF Row
<1> QED
  BY <1>2, <1>3

LEMMA WrittenPublishedAt ==
  ASSUME NEW row \in Row, NEW src \in Sources, row # Null,
         row.publishedAt # 0
  PROVE  Written(row, src).publishedAt = row.publishedAt
<1>1. CASE ArticleChanged(row, src)
  BY <1>1 DEF Written, UpdatedRow, PublishedAt
<1>2. CASE ~ArticleChanged(row, src)
  <2>1. PICK tags : Written(row, src) = [row EXCEPT !.tags = tags]
    BY <1>2 DEF Written, UpdatedRow
  <2> QED
    BY <2>1 DEF Row
<1> QED
  BY <1>1, <1>2

\* What Write does to the rows and the counts.
LEMMA WriteSerially ==
  ASSUME TypeInv, SerialInv, NEW w \in Workers, Write(w)
  PROVE  /\ Slug(w) \in Slugs
         /\ files[w][Slug(w)] \in Sources
         /\ \/ UNCHANGED <<articles, counts>>
            \/ /\ articles' = [articles EXCEPT ![Slug(w)] =
                                 Written(articles[Slug(w)], files[w][Slug(w)])]
               /\ counts' = IF \/ articles[Slug(w)] = Null
                               \/ CountsAffected(articles[Slug(w)],
                                                 files[w][Slug(w)])
                            THEN CountsOf(articles') ELSE counts
<1>1. pc[w] = "write" /\ Slug(w) \in Slugs /\ files[w][Slug(w)] \in Sources
  BY InLoop DEF Write
<1>2. /\ seen[w][Slug(w)] = articles[Slug(w)]
      /\ current[w] = articles[Slug(w)]
  BY <1>1 DEF SerialInv, Fresh
<1> QED
  BY <1>1, <1>2 DEF Write, Written

LEMMA HtmlWritten ==
  ASSUME TypeInv, SerialInv, NEW w \in Workers, Write(w)
  PROVE  HtmlCurrent'
<1> DEFINE s == Slug(w)
           new == Written(articles[s], files[w][s])
<1>1. s \in Slugs /\ files[w][s] \in Sources
  BY WriteSerially
<1>2. articles' = articles \/ articles' = [articles EXCEPT ![s] = new]
  BY WriteSerially
<1>3. articles \in [Slugs -> RowOrNull]
  BY DEF TypeInv, TypeOK, RowOrNull
<1>4. \A u \in Slugs : articles[u] # Null =>
        articles[u].html \in {Null, articles[u].content}
  BY DEF SerialInv, HtmlCurrent, Stored
<1>5. new.html \in {Null, new.content}
  BY <1>1, <1>3, <1>4, WrittenHtml
<1> HIDE DEF new, s
<1> QED
  BY <1>1, <1>2, <1>3, <1>4, <1>5 DEF HtmlCurrent, Stored

LEMMA CountsWritten ==
  ASSUME TypeInv, SerialInv, NEW w \in Workers, Write(w)
  PROVE  CountsExact'
<1> DEFINE s == Slug(w)
           src == files[w][s]
           new == Written(articles[s], src)
<1>1. /\ s \in Slugs
      /\ src \in Sources
      /\ articles \in [Slugs -> RowOrNull]
      /\ counts = CountsOf(articles)
  BY WriteSerially DEF TypeInv, TypeOK, RowOrNull, SerialInv, CountsExact
<1>2. CASE UNCHANGED <<articles, counts>>
  BY <1>1, <1>2 DEF CountsExact
<1>3. CASE counts' = CountsOf(articles')
  BY <1>3 DEF CountsExact
<1>4. CASE /\ articles' = [articles EXCEPT ![s] = new]
           /\ counts' = counts
           /\ articles[s] # Null
           /\ ~CountsAffected(articles[s], src)
  <2>1. articles[s] \in Row
    BY <1>1, <1>4 DEF RowOrNull
  <2>2. new.published = articles[s].published /\ new.tags = articles[s].tags
    BY <1>1, <1>4, <2>1, WrittenCounted
  <2>3. new # Null
    <3>1. PICK html : html \in Contents \union {Null}
                      /\ new = UpdatedRow(articles[s], articles[s], src, html)
      BY <1>1, <1>4 DEF Written, Contents
    <3>2. UpdatedRow(articles[s], articles[s], src, html) \in Row
      BY <1>1, <2>1, <3>1, UpdateTyped
    <3> QED
      BY <3>1, <3>2, NullAssumption
  <2> HIDE DEF new, src, s
  <2>4. \A u \in Slugs, t \in Tags :
          (articles'[u] # Null /\ articles'[u].published
             /\ t \in articles'[u].tags)
          <=> (articles[u] # Null /\ articles[u].published
                 /\ t \in articles[u].tags)
    BY <1>1, <1>4, <2>2, <2>3
  <2>5. \A t \in Tags :
          {u \in Slugs : articles'[u] # Null /\ articles'[u].published
                           /\ t \in articles'[u].tags}
          = {u \in Slugs : articles[u] # Null /\ articles[u].published
                             /\ t \in articles[u].tags}
    BY <2>4
  <2>6. CountsOf(articles') = CountsOf(articles)
    BY <2>5 DEF CountsOf
  <2> QED
    BY <1>1, <1>4, <2>6 DEF CountsExact
<1> QED
  BY <1>2, <1>3, <1>4, WriteSerially

-----------------------------------------------------------------------------
(* What the worker has read *)

\* The worker is past its transaction, or has not begun with an article.
LEMMA FreshElsewhere ==
  ASSUME NEW w \in Workers, pc'[w] \notin {"upsert", "write"}
  PROVE  Fresh(w)'
BY DEF Fresh

LEMMA StillFresh ==
  ASSUME SerialInv, NEW w \in Workers, Rests(w), articles' = articles
  PROVE  Fresh(w)'
BY DEF SerialInv, Fresh, Rests, Slug

LEMMA PastTransaction ==
  ASSUME TypeInv, NEW w \in Workers,
         FinishArticle(w, Slug(w)) \/ AfterUpsert(w)
  PROVE  pc'[w] \notin {"upsert", "write"}
BY DEF FinishArticle, AfterUpsert, Finish, TypeInv, TypeOK, Actors

LEMMA WorkerFresh ==
  ASSUME TypeInv, SerialInv, NEW w \in Workers, WorkerStep(w)
  PROVE  Fresh(w)'
<1> USE DEF Actors
<1>1. CASE Start(w)
  BY <1>1, FreshElsewhere DEF Start, TypeInv, TypeOK
<1>2. CASE Find(w)
  <2>1. CASE FinishArticle(w, Slug(w))
    BY <2>1, PastTransaction, FreshElsewhere
  <2>2. CASE ~FinishArticle(w, Slug(w))
    <3>1. /\ seen' = [seen EXCEPT ![w][Slug(w)] = articles[Slug(w)]]
          /\ pc' = [pc EXCEPT ![w] = "upsert"]
          /\ UNCHANGED <<todo, articles>>
          /\ pc[w] = "next"
      BY <1>2, <2>2 DEF Find, database
    <3>2. Slug(w) \in Slugs /\ Slug(w)' = Slug(w)
      BY <3>1, InLoop DEF Slug
    <3>3. pc'[w] = "upsert" /\ seen'[w][Slug(w)] = articles[Slug(w)]
      BY <3>1, <3>2 DEF TypeInv, TypeOK
    <3> QED
      BY <3>1, <3>2, <3>3 DEF Fresh
  <2> QED
    BY <2>1, <2>2
<1>3. CASE Upsert(w)
  <2>1. CASE FinishArticle(w, Slug(w)) \/ AfterUpsert(w)
    BY <2>1, PastTransaction, FreshElsewhere
  <2>2. CASE ~(FinishArticle(w, Slug(w)) \/ AfterUpsert(w))
    <3>1. /\ current' = [current EXCEPT ![w] = articles[Slug(w)]]
          /\ UNCHANGED <<todo, seen, articles>>
          /\ pc[w] = "upsert"
      BY <1>3, <2>2 DEF Upsert, database
    <3>2. Slug(w)' = Slug(w)
      BY <3>1 DEF Slug
    <3>3. current'[w] = articles[Slug(w)]
      BY <3>1 DEF TypeInv, TypeOK
    <3>4. seen[w][Slug(w)] = articles[Slug(w)]
      BY <3>1 DEF SerialInv, Fresh
    <3> QED
      BY <3>1, <3>2, <3>3, <3>4 DEF Fresh
  <2> QED
    BY <2>1, <2>2
<1>4. CASE Write(w)
  BY <1>4, PastTransaction, FreshElsewhere DEF Write
<1>5. CASE RegenerateChunks(w)
  BY <1>5, PastTransaction, FreshElsewhere DEF RegenerateChunks
<1>6. CASE Crash(w)
  BY <1>6, FreshElsewhere DEF Crash, TypeInv, TypeOK
<1>7. ASSUME NEW s \in Slugs, Fetch(w, s) PROVE Fresh(w)'
  <2>1. pc'[w] \in {"fetch", "done", "next"}
    BY <1>7 DEF Fetch, TypeInv, TypeOK
  <2> QED
    BY <2>1, FreshElsewhere
<1> QED
  BY <1>1, <1>2, <1>3, <1>4, <1>5, <1>6, <1>7 DEF WorkerStep

\* Only Write touches the rows and the counts.
LEMMA RowsWritten ==
  ASSUME NEW w \in Workers, WorkerStep(w), ~Write(w)
  PROVE  UNCHANGED <<articles, counts>>
BY DEF WorkerStep, Start, Find, Upsert, RegenerateChunks, Crash, Fetch,
       database

LEMMA RowsUnchanged ==
  ASSUME SerialInv, UNCHANGED <<articles, counts>>
  PROVE  HtmlCurrent' /\ CountsExact'
BY DEF SerialInv, HtmlCurrent, CountsExact, Stored

LEMMA SerialInit == Init => SerialInv
BY DEF Init, SerialInv, Fresh, HtmlCurrent, CountsExact, Stored, InsertedRow,
       Actors

LEMMA WorkerSerial ==
  ASSUME OneWorker, TypeInv, SerialInv, NEW w \in Workers, WorkerStep(w)
  PROVE  SerialInv'
<1>1. \A v \in Workers : Fresh(v)'
  BY WorkerFresh DEF OneWorker
<1>2. HtmlCurrent' /\ CountsExact'
  BY HtmlWritten, CountsWritten, RowsWritten, RowsUnchanged
<1>3. pc'[Backfill] = pc[Backfill]
  <2>1. w # Backfill /\ Backfill \in Actors
    BY ArticleConstants DEF Actors
  <2> QED
    BY <2>1
    DEF WorkerStep, Start, Find, Upsert, Write, RegenerateChunks, Crash, Fetch,
        FinishArticle, AfterUpsert, Finish, TypeInv, TypeOK
<1> QED
  BY <1>1, <1>2, <1>3 DEF SerialInv

\* tidb-embedder touches neither the rows nor a worker.
LEMMA EmbedderSerial ==
  ASSUME NoBackfill, TypeInv, SerialInv, ToolStep
  PROVE  SerialInv'
<1> USE DEF Actors
<1>1. \A s \in Slugs : ~BackfillRow(s)
  BY DEF SerialInv, BackfillRow
<1>2. \A all \in BOOLEAN : ~StartBackfill(all)
  BY DEF NoBackfill, StartBackfill, StartTool
<1>3. \/ \E all \in BOOLEAN : StartEmbedder(all)
      \/ \E s \in Slugs : EmbedRow(s)
  BY <1>1, <1>2 DEF ToolStep
<1>4. UNCHANGED <<articles, counts, files, current>>
  BY <1>3 DEF StartEmbedder, StartTool, EmbedRow, database
<1>5. \A a \in Actors \ {Embedder} :
        /\ pc'[a] = pc[a]
        /\ todo'[a] = todo[a]
        /\ seen'[a] = seen[a]
  BY <1>3 DEF StartEmbedder, StartTool, EmbedRow, Finish, TypeInv, TypeOK
<1>6. \A w \in Workers : Fresh(w)'
  BY <1>4, <1>5, StillFresh, ArticleConstants DEF Rests
<1> QED
  BY <1>4, <1>5, <1>6, RowsUnchanged, ArticleConstants DEF SerialInv

LEMMA SerialNext ==
  ASSUME OneWorker, NoBackfill
  PROVE  TypeInv /\ SerialInv /\ [Next]_vars => SerialInv'
<1> SUFFICES ASSUME TypeInv, SerialInv, [Next]_vars PROVE SerialInv'
  OBVIOUS
<1>1. CASE UNCHANGED database /\ UNCHANGED local
  <2>1. /\ UNCHANGED <<articles, counts, pc>>
        /\ \A w \in Workers : Rests(w)
    BY <1>1 DEF database, local, Rests
  <2> QED
    BY <2>1, StillFresh, RowsUnchanged DEF SerialInv
<1>2. ASSUME NEW w \in Workers, WorkerStep(w) PROVE SerialInv'
  BY <1>2, WorkerSerial
<1>3. CASE ToolStep
  BY <1>3, EmbedderSerial
<1>4. (UNCHANGED vars \/ Redeliver \/ \E s \in Slugs : Push(s)) =>
        UNCHANGED database /\ UNCHANGED local
  BY DEF Push, Redeliver, vars
<1> QED
  BY <1>1, <1>2, <1>3, <1>4 DEF Next

LEMMA SerialInvariant ==
  ASSUME OneWorker, NoBackfill
  PROVE  Spec => [](TypeInv /\ SerialInv)
<1>1. Init => TypeInv /\ SerialInv
  BY TypeInit, SerialInit
<1>2. TypeInv /\ SerialInv /\ [Next]_vars => (TypeInv /\ SerialInv)'
  BY TypeNext, SerialNext
<1> QED
  BY <1>1, <1>2, PTL DEF Spec

-----------------------------------------------------------------------------

\* One delivery at a time, the stored HTML is that of the stored body.
THEOREM SerialHtmlCurrent ==
  ASSUME OneWorker, NoBackfill
  PROVE  Spec => []HtmlCurrent
<1>1. TypeInv /\ SerialInv => HtmlCurrent
  BY DEF SerialInv
<1> QED
  BY <1>1, SerialInvariant, PTL

\* One delivery at a time, the tag counts are those of the published
\* articles, although most writes do not recompute them.
THEOREM SerialCountsExact ==
  ASSUME OneWorker, NoBackfill
  PROVE  Spec => []CountsExact
<1>1. TypeInv /\ SerialInv => CountsExact
  BY DEF SerialInv
<1> QED
  BY <1>1, SerialInvariant, PTL

\* One delivery at a time, the date of the first publication stays.
THEOREM SerialPublishedAtKept ==
  ASSUME OneWorker, NoBackfill
  PROVE  Spec => PublishedAtKept
<1> DEFINE Kept == \A s \in Slugs :
             articles[s] # Null /\ articles[s].publishedAt # 0 =>
               articles'[s].publishedAt = articles[s].publishedAt
<1>1. TypeInv /\ SerialInv /\ [Next]_vars => [Kept]_vars
  <2> SUFFICES ASSUME TypeInv, SerialInv, Next PROVE Kept
    OBVIOUS
  <2>1. ASSUME NEW w \in Workers, Write(w) PROVE Kept
    <3> SUFFICES ASSUME NEW s \in Slugs, articles[s] # Null,
                        articles[s].publishedAt # 0
                 PROVE  articles'[s].publishedAt = articles[s].publishedAt
      OBVIOUS
    <3>1. articles[s] \in Row
      BY DEF TypeInv, TypeOK
    <3>2. \/ articles'[s] = articles[s]
          \/ /\ articles'[s] = Written(articles[s], files[w][s])
             /\ files[w][s] \in Sources
      BY <2>1, WriteSerially DEF TypeInv, TypeOK
    <3> QED
      BY <3>1, <3>2, WrittenPublishedAt
  <2>2. CASE UNCHANGED <<articles, counts>>
    BY <2>2
  <2>3. CASE ToolStep
    <3>1. \A s \in Slugs : ~BackfillRow(s)
      BY DEF SerialInv, BackfillRow
    <3> QED
      BY <2>2, <2>3, <3>1
      DEF ToolStep, StartBackfill, StartEmbedder, StartTool, EmbedRow, database
  <2> QED
    BY <2>1, <2>2, <2>3, RowsWritten DEF Next, Push, Redeliver, database
<1> QED
  BY <1>1, SerialInvariant, PTL DEF Spec, PublishedAtKept

-----------------------------------------------------------------------------
(* What a quiet run leaves behind.  A push or a step of somebody else that *)
(* writes ends the quiet of all runs, so that of what such a run has read  *)
(* nothing changes but what it writes itself.                              *)

\* The step a takes lets b be, or ends its quiet.
LetsBe(b) ==
  /\ Rests(b)
  /\ quiet'[b] => quiet[b] /\ UNCHANGED <<head, articles, chunks>>

LEMMA QuietMeans ==
  ASSUME TypeInv, NEW a \in Actors, NEW b \in Actors
  PROVE  /\ Interfere => ~quiet'[b]
         /\ Fail(a) => (quiet'[b] <=> b # a /\ quiet[b])
         /\ WriteBy(a) => (quiet'[b] <=> b = a /\ quiet[b])
<1>1. quiet \in [Actors -> BOOLEAN]
  BY DEF TypeInv, TypeOK
<1>2. Interfere => ~quiet'[b]
  BY DEF Interfere
<1>3. Fail(a) => (quiet'[b] <=> b # a /\ quiet[b])
  BY <1>1 DEF Fail
<1>4. WriteBy(a) => (quiet'[b] <=> b = a /\ quiet[b])
  BY <1>1 DEF WriteBy
<1> QED
  BY <1>2, <1>3, <1>4

\* The actors whose turn it is not.
LEMMA WorkerLetsBe ==
  ASSUME TypeInv, NEW w \in Workers, WorkerStep(w), NEW b \in Actors, b # w
  PROVE  LetsBe(b)
<1>1. w \in Actors /\ quiet \in [Actors -> BOOLEAN]
      /\ pc \in [Actors -> Steps] /\ todo \in [Actors -> SUBSET Slugs]
      /\ seen \in [Actors -> [Slugs -> RowOrNull]]
      /\ files \in [Workers -> [Slugs -> FileOrNull]]
      /\ current \in [Workers -> RowOrNull]
  BY TypeParts DEF Actors, TypeInv, LocalTyped, QuietTyped
<1>2. /\ Interfere => ~quiet'[b]
      /\ Fail(w) => (quiet'[b] <=> quiet[b])
      /\ WriteBy(w) => ~quiet'[b]
  BY <1>1, QuietMeans
<1>3. FinishArticle(w, Slug(w)) => Rests(b)
  BY <1>1 DEF FinishArticle, Finish, Rests
<1>4. AfterUpsert(w) => Rests(b)
  BY <1>1, <1>3 DEF AfterUpsert, Rests
<1>5. CASE Start(w)
  BY <1>1, <1>5 DEF Start, LetsBe, Rests, database
<1>6. ASSUME NEW s \in Slugs, Fetch(w, s)
      PROVE  LetsBe(b)
  BY <1>1, <1>2, <1>6 DEF Fetch, LetsBe, Rests, database, delivery
<1>7. CASE Find(w)
  BY <1>1, <1>2, <1>3, <1>7 DEF Find, LetsBe, Rests, database, delivery
<1>8. CASE Upsert(w)
  BY <1>1, <1>2, <1>3, <1>4, <1>8 DEF Upsert, LetsBe, Rests, database, delivery
<1>9. CASE Write(w)
  <2>1. \/ AfterUpsert(w) /\ WriteBy(w)
        \/ FinishArticle(w, Slug(w)) /\ Interfere
        \/ FinishArticle(w, Slug(w)) /\ Fail(w) /\ UNCHANGED articles
    BY <1>9, Zenon DEF Write
  <2>2. UNCHANGED <<head, chunks>>
    BY <1>9 DEF Write, delivery
  <2> QED
    BY <1>2, <1>3, <1>4, <2>1, <2>2 DEF LetsBe
<1>10. CASE RegenerateChunks(w)
  BY <1>2, <1>3, <1>10 DEF RegenerateChunks, LetsBe, delivery
<1>11. CASE Crash(w)
  BY <1>1, <1>2, <1>11 DEF Crash, LetsBe, Rests, database
<1> QED
  BY <1>5, <1>6, <1>7, <1>8, <1>9, <1>10, <1>11 DEF WorkerStep

LEMMA ToolLetsBe ==
  ASSUME TypeInv, NEW tool \in {Backfill, Embedder}, NEW b \in Actors, b # tool,
         \/ tool = Backfill /\ \E all \in BOOLEAN : StartBackfill(all)
         \/ tool = Backfill /\ \E s \in Slugs : BackfillRow(s)
         \/ tool = Embedder /\ \E all \in BOOLEAN : StartEmbedder(all)
         \/ tool = Embedder /\ \E s \in Slugs : EmbedRow(s)
  PROVE  LetsBe(b)
<1>1. tool \in Actors /\ quiet \in [Actors -> BOOLEAN]
      /\ pc \in [Actors -> Steps] /\ todo \in [Actors -> SUBSET Slugs]
      /\ seen \in [Actors -> [Slugs -> RowOrNull]]
  BY TypeParts DEF Actors, TypeInv, LocalTyped, QuietTyped
<1>2. /\ Fail(tool) => (quiet'[b] <=> quiet[b])
      /\ WriteBy(tool) => ~quiet'[b]
  BY <1>1, QuietMeans
<1>3. ASSUME NEW rows, StartTool(tool, rows)
      PROVE  LetsBe(b)
  BY <1>1, <1>3 DEF StartTool, LetsBe, Rests, database, delivery
<1>4. ASSUME NEW s, Finish(tool, s), UNCHANGED <<files, current>>
      PROVE  Rests(b)
  BY <1>1, <1>4 DEF Finish, Rests
<1>5. ASSUME NEW s \in Slugs, BackfillRow(s), tool = Backfill
      PROVE  LetsBe(b)
  BY <1>2, <1>4, <1>5 DEF BackfillRow, LetsBe, delivery
<1>6. ASSUME NEW s \in Slugs, EmbedRow(s), tool = Embedder
      PROVE  LetsBe(b)
  BY <1>2, <1>4, <1>6 DEF EmbedRow, LetsBe, delivery
<1> QED
  BY <1>3, <1>5, <1>6 DEF StartBackfill, StartEmbedder

\* And outside the actors.
LEMMA OutsideLetsBe ==
  ASSUME TypeInv, (\E s \in Slugs : Push(s)) \/ Redeliver \/ UNCHANGED vars,
         NEW b \in Actors
  PROVE  LetsBe(b)
<1>1. Rests(b)
  BY DEF Push, Redeliver, vars, local, Rests
<1>2. ASSUME NEW s \in Slugs, Push(s)
      PROVE  ~quiet'[b]
  BY <1>2, QuietMeans DEF Push
<1> QED
  BY <1>1, <1>2 DEF Redeliver, vars, delivery, database, LetsBe

-----------------------------------------------------------------------------
(* tidb-embedder                                                           *)

\* Of the rows it has still to process it holds what is stored, the others
\* have their chunks.
EmbedderAt(s) ==
  IF s \in todo[Embedder] THEN seen[Embedder][s] = articles[s]
  ELSE chunks[s] = RowHash(articles[s])

EmbedderInv ==
  /\ pc[Embedder] = "done" => todo[Embedder] = {}
  /\ pc[Embedder] # "idle" /\ quiet[Embedder] => \A s \in Stored : EmbedderAt(s)

LEMMA EmbedderStep ==
  ASSUME TypeInv, EmbedderInv, [Next]_vars
  PROVE  EmbedderInv'
<1>1. Embedder \in Actors /\ Embedder \notin Workers /\ Backfill # Embedder
      /\ Backfill \in Actors
  BY ArticleConstants DEF Actors
<1>2. pc \in [Actors -> Steps] /\ todo \in [Actors -> SUBSET Slugs]
      /\ seen \in [Actors -> [Slugs -> RowOrNull]]
      /\ quiet \in [Actors -> BOOLEAN]
      /\ chunks \in [Slugs -> SourceHashes \union {Null}]
  BY TypeParts DEF TypeInv, LocalTyped, QuietTyped, DatabaseTyped
<1>3. CASE LetsBe(Embedder)
  BY <1>3 DEF LetsBe, Rests, EmbedderInv, EmbedderAt, Stored
<1>4. ASSUME NEW all \in BOOLEAN, StartEmbedder(all)
      PROVE  EmbedderInv'
  <2>1. PICK rows : rows = {s \in Stored : all \/ Outdated(s)}
    OBVIOUS
  <2>2. /\ pc'[Embedder] = IF rows = {} THEN "done" ELSE "next"
        /\ todo'[Embedder] = rows
        /\ \A s \in rows : seen'[Embedder][s] = articles[s]
        /\ UNCHANGED <<articles, chunks>>
    BY <1>1, <1>2, <1>4, <2>1 DEF StartEmbedder, StartTool, database, Stored
  <2>3. ASSUME NEW s \in Stored
        PROVE  EmbedderAt(s)'
    <3>1. s \notin rows => chunks[s] = RowHash(articles[s])
      BY <2>1 DEF Outdated
    <3> QED
      BY <2>2, <3>1 DEF EmbedderAt, RowHash
  <2>4. Stored' = Stored
    BY <2>2 DEF Stored
  <2> QED
    BY <2>2, <2>3, <2>4 DEF EmbedderInv
<1>5. ASSUME NEW s \in Slugs, EmbedRow(s)
      PROVE  EmbedderInv'
  <2>1. /\ pc[Embedder] = "next" /\ s \in todo[Embedder] /\ UNCHANGED articles
        /\ pc'[Embedder] = IF todo[Embedder] = {s} THEN "done" ELSE "next"
        /\ todo'[Embedder] = todo[Embedder] \ {s}
        /\ \A u \in Slugs \ {s} : seen'[Embedder][u] = seen[Embedder][u]
    BY <1>1, <1>2, <1>5 DEF EmbedRow, Finish
  <2>2. ASSUME quiet'[Embedder], NEW u \in Stored
        PROVE  EmbedderAt(u)'
    <3>1. /\ quiet[Embedder]
          /\ chunks' = [chunks EXCEPT ![s] = RowHash(seen[Embedder][s])]
      BY <1>1, <1>5, <2>2, QuietMeans DEF EmbedRow
    <3>2. EmbedderAt(u) /\ u \in Slugs
      BY <2>1, <2>2, <3>1 DEF EmbedderInv, Stored
    <3>3. CASE u = s
      <4>1. chunks'[u] = RowHash(articles[u]) /\ u \notin todo'[Embedder]
        BY <1>2, <2>1, <3>1, <3>2, <3>3 DEF EmbedderAt
      <4> QED
        BY <2>1, <4>1 DEF EmbedderAt, RowHash
    <3>4. CASE u # s
      BY <1>2, <2>1, <3>1, <3>2, <3>4 DEF EmbedderAt, RowHash
    <3> QED
      BY <3>3, <3>4
  <2>3. Stored' = Stored
    BY <2>1 DEF Stored
  <2> QED
    BY <2>1, <2>2, <2>3 DEF EmbedderInv
<1>6. ASSUME \/ \E all \in BOOLEAN : StartBackfill(all)
             \/ \E s \in Slugs : BackfillRow(s)
      PROVE  LetsBe(Embedder)
  BY <1>1, <1>6, ToolLetsBe
<1>7. ASSUME NEW w \in Workers, WorkerStep(w)
      PROVE  LetsBe(Embedder)
  BY <1>1, <1>7, WorkerLetsBe
<1>8. ASSUME (\E s \in Slugs : Push(s)) \/ Redeliver \/ UNCHANGED vars
      PROVE  LetsBe(Embedder)
  BY <1>1, <1>8, OutsideLetsBe
<1> QED
  BY <1>3, <1>4, <1>5, <1>6, <1>7, <1>8 DEF Next, ToolStep

\* After an undisturbed run of tidb-embedder every row has its own chunks,
\* whatever webhooks had left behind (tidb-embedder/src/index.ts:379-387).
THEOREM QuietEmbedderRepairsHolds == Spec => []QuietEmbedderRepairs
<1>1. Init => EmbedderInv
  BY ArticleConstants DEF Init, EmbedderInv, Actors
<1>2. TypeInv /\ EmbedderInv /\ [Next]_vars => EmbedderInv'
  BY EmbedderStep
<1>3. EmbedderInv => QuietEmbedderRepairs
  BY DEF EmbedderInv, QuietEmbedderRepairs, EmbedderAt
<1> QED
  BY TypeInit, TypeNext, <1>1, <1>2, <1>3, PTL DEF Spec

-----------------------------------------------------------------------------
(* content-html-backfill                                                   *)

BackfillAt(s) ==
  IF s \in todo[Backfill] THEN seen[Backfill][s] = articles[s]
  ELSE articles[s].html # Null

BackfillInv ==
  /\ pc[Backfill] = "done" => todo[Backfill] = {}
  /\ pc[Backfill] # "idle" /\ quiet[Backfill] => \A s \in Stored : BackfillAt(s)

LEMMA BackfillStep ==
  ASSUME TypeInv, BackfillInv, [Next]_vars
  PROVE  BackfillInv'
<1>1. Embedder \in Actors /\ Backfill \notin Workers /\ Backfill # Embedder
      /\ Backfill \in Actors
  BY ArticleConstants DEF Actors
<1>2. pc \in [Actors -> Steps] /\ todo \in [Actors -> SUBSET Slugs]
      /\ seen \in [Actors -> [Slugs -> RowOrNull]]
      /\ quiet \in [Actors -> BOOLEAN]
      /\ articles \in [Slugs -> RowOrNull]
  BY TypeParts DEF TypeInv, LocalTyped, QuietTyped, DatabaseTyped
<1>3. CASE LetsBe(Backfill)
  BY <1>3 DEF LetsBe, Rests, BackfillInv, BackfillAt, Stored
<1>4. ASSUME NEW all \in BOOLEAN, StartBackfill(all)
      PROVE  BackfillInv'
  <2>1. PICK rows : rows = BackfillRows(all)
    OBVIOUS
  <2>2. /\ pc'[Backfill] = IF rows = {} THEN "done" ELSE "next"
        /\ todo'[Backfill] = rows
        /\ \A s \in rows : seen'[Backfill][s] = articles[s]
        /\ UNCHANGED articles
    BY <1>1, <1>2, <1>4, <2>1
    DEF StartBackfill, StartTool, database, Stored, BackfillRows
  <2>3. ASSUME NEW s \in Stored
        PROVE  BackfillAt(s)'
    <3>1. s \notin rows => articles[s].html # Null
      BY <2>1 DEF BackfillRows
    <3> QED
      BY <2>2, <3>1 DEF BackfillAt
  <2>4. Stored' = Stored
    BY <2>2 DEF Stored
  <2> QED
    BY <2>2, <2>3, <2>4 DEF BackfillInv
<1>5. ASSUME NEW s \in Slugs, BackfillRow(s)
      PROVE  BackfillInv'
  <2>1. /\ pc[Backfill] = "next" /\ s \in todo[Backfill]
        /\ pc'[Backfill] = IF todo[Backfill] = {s} THEN "done" ELSE "next"
        /\ todo'[Backfill] = todo[Backfill] \ {s}
        /\ \A u \in Slugs \ {s} : seen'[Backfill][u] = seen[Backfill][u]
    BY <1>1, <1>2, <1>5 DEF BackfillRow, Finish
  <2>2. articles[s] \in Row /\ articles[s].content # Null
    <3>1. articles[s] # Null
      BY <2>1 DEF TypeInv, Shapes, ToolShape
    <3>2. articles[s] \in Row
      BY <1>2, <3>1 DEF RowOrNull
    <3> QED
      BY <3>2, ArticleConstants DEF Row, Contents
  <2>3. PICK filled : filled = [articles[s] EXCEPT !.html = articles[s].content]
    OBVIOUS
  <2>4. filled # Null /\ filled.html = articles[s].content
    <3>1. filled \in Row
      BY <2>2, <2>3 DEF Row
    <3> QED
      BY <2>2, <2>3, <3>1, NullAssumption DEF Row
  <2>5. ASSUME quiet'[Backfill]
        PROVE  /\ Stored' = Stored
               /\ \A u \in Stored : BackfillAt(u)'
    <3>1. /\ quiet[Backfill]
          /\ \/ UNCHANGED articles
                /\ seen[Backfill][s].html = seen[Backfill][s].content
             \/ articles' = [articles EXCEPT ![s] =
                  [articles[s] EXCEPT !.html = seen[Backfill][s].content]]
      BY <1>1, <1>5, <2>5, QuietMeans DEF BackfillRow
    <3>2. \A u \in Stored : BackfillAt(u) /\ u \in Slugs
      BY <2>1, <3>1 DEF BackfillInv, Stored
    <3>3. seen[Backfill][s] = articles[s]
      <4>1. s \in Stored
        BY <2>2, NullAssumption DEF Stored
      <4> QED
        BY <2>1, <3>2, <4>1 DEF BackfillAt
    <3>4. \/ UNCHANGED articles /\ articles[s].html = articles[s].content
          \/ articles' = [articles EXCEPT ![s] = filled]
      BY <2>3, <3>1, <3>3
    <3>5. /\ \A u \in Slugs \ {s} : articles'[u] = articles[u]
          /\ articles'[s] # Null /\ articles'[s].html # Null
      BY <1>2, <2>2, <2>4, <3>4, NullAssumption
    <3>6. ASSUME NEW u \in Stored
          PROVE  BackfillAt(u)'
      <4>1. CASE u = s
        BY <2>1, <3>5, <4>1 DEF BackfillAt
      <4>2. CASE u # s
        <5>1. BackfillAt(u) /\ u \in Slugs \ {s}
          BY <3>2, <4>2
        <5> QED
          BY <2>1, <3>5, <5>1 DEF BackfillAt
      <4> QED
        BY <4>1, <4>2
    <3>7. Stored' = Stored
      BY <2>2, <3>5, NullAssumption DEF Stored
    <3> QED
      BY <3>6, <3>7
  <2> QED
    BY <2>1, <2>5 DEF BackfillInv
<1>6. ASSUME \/ \E all \in BOOLEAN : StartEmbedder(all)
             \/ \E s \in Slugs : EmbedRow(s)
      PROVE  LetsBe(Backfill)
  BY <1>1, <1>6, ToolLetsBe
<1>7. ASSUME NEW w \in Workers, WorkerStep(w)
      PROVE  LetsBe(Backfill)
  BY <1>1, <1>7, WorkerLetsBe
<1>8. ASSUME (\E s \in Slugs : Push(s)) \/ Redeliver \/ UNCHANGED vars
      PROVE  LetsBe(Backfill)
  BY <1>1, <1>8, OutsideLetsBe
<1> QED
  BY <1>3, <1>4, <1>5, <1>6, <1>7, <1>8 DEF Next, ToolStep

\* After an undisturbed run of content-html-backfill no row is without HTML
\* (content-html-backfill/src/index.ts).
THEOREM QuietBackfillFillsHolds == Spec => []QuietBackfillFills
<1>1. Init => BackfillInv
  BY ArticleConstants DEF Init, BackfillInv, Actors
<1>2. TypeInv /\ BackfillInv /\ [Next]_vars => BackfillInv'
  BY BackfillStep
<1>3. BackfillInv => QuietBackfillFills
  BY DEF BackfillInv, QuietBackfillFills, BackfillAt
<1> QED
  BY TypeInit, TypeNext, <1>1, <1>2, <1>3, PTL DEF Spec

-----------------------------------------------------------------------------
(* A full scan                                                             *)

\* While it fetches: a file is fetched as it is, and none is forgotten.
FetchedAt(w, s) ==
  /\ files[w][s] \in {Null, head[s]}
  /\ s \in todo[w] => head[s] # Null
  /\ head[s] # Null => s \in todo[w] \/ files[w][s] = head[s]

\* In its loop: a file is still to be processed or is mirrored.
RepairedAt(w, s) ==
  IF s \in todo[w] THEN files[w][s] = head[s]
  ELSE head[s] # Null => Mirrors(articles[s], head[s])

RepairState(w) ==
  /\ pc[w] = "fetch" => \A s \in Slugs : FetchedAt(w, s)
  /\ pc[w] \notin {"idle", "fetch"} => \A s \in Slugs : RepairedAt(w, s)
  /\ pc[w] = "write" => current[w] = articles[Slug(w)]
  /\ pc[w] = "chunks" => Mirrors(articles[Slug(w)], files[w][Slug(w)])

\* No file is kept that will not be processed.
Spare(w) ==
  /\ pc[w] \in Settled => todo[w] = {}
  /\ pc[w] # "fetch" => \A s \in Slugs \ todo[w] : files[w][s] = Null

Repairs(w) == Spare(w) /\ (quiet[w] => RepairState(w))

\* What the transaction and the lack of differences leave is the file.
LEMMA UnchangedMirrors ==
  ASSUME NEW row \in Row, NEW src \in Sources,
         ~ArticleChanged(row, src), ~TagsChanged(row, src)
  PROVE  Mirrors(row, src)
<1>1. row # Null
  BY NullAssumption
<1> QED
  BY <1>1 DEF ArticleChanged, TagsChanged, NeedsChunks, NeedsHtml,
              StatusChanged, EffectiveDescription, Mirrors

LEMMA InsertedMirrors ==
  ASSUME NEW src \in Sources, NEW html \in Contents \union {Null}
  PROVE  Mirrors(InsertedRow(src, html), src)
<1>1. InsertedRow(src, html) # Null
  BY InsertTyped, NullAssumption
<1> QED
  BY <1>1 DEF Mirrors, InsertedRow, EffectiveDescription

LEMMA UpdatedMirrors ==
  ASSUME NEW row \in Row, NEW src \in Sources,
         NEW html \in Contents \union {Null}
  PROVE  Mirrors(UpdatedRow(row, row, src, html), src)
<1>1. UpdatedRow(row, row, src, html) # Null
  BY UpdateTyped, NullAssumption
<1>2. CASE ArticleChanged(row, src)
  BY <1>1, <1>2 DEF UpdatedRow, Mirrors, TagsChanged, EffectiveDescription
<1>3. CASE ~ArticleChanged(row, src)
  <2>1. UpdatedRow(row, row, src, html) = [row EXCEPT !.tags = src.tags]
    BY <1>3 DEF UpdatedRow, TagsChanged
  <2>2. PICK new : new = [row EXCEPT !.tags = src.tags]
    OBVIOUS
  <2>3. /\ new.title = row.title /\ new.content = row.content
        /\ new.thumbnail = row.thumbnail /\ new.published = row.published
        /\ new.description = row.description /\ new.tags = src.tags
    BY <2>2 DEF Row
  <2>4. row # Null
    BY NullAssumption
  <2>5. /\ row.title = src.title /\ row.content = src.content
        /\ row.thumbnail = src.thumbnail /\ row.published = src.publish
        /\ src.description # Null => row.description = src.description
    BY <1>3, <2>4
    DEF ArticleChanged, NeedsChunks, NeedsHtml, StatusChanged,
        EffectiveDescription
  <2> QED
    BY <1>1, <2>1, <2>2, <2>3, <2>5 DEF Mirrors
<1> QED
  BY <1>2, <1>3

\* The parts of the type the steps below need.
LEMMA RunTyped ==
  ASSUME TypeInv
  PROVE  /\ Workers \subseteq Actors
         /\ pc \in [Actors -> Steps] /\ todo \in [Actors -> SUBSET Slugs]
         /\ files \in [Workers -> [Slugs -> FileOrNull]]
         /\ seen \in [Actors -> [Slugs -> RowOrNull]]
         /\ current \in [Workers -> RowOrNull]
         /\ quiet \in [Actors -> BOOLEAN]
         /\ articles \in [Slugs -> RowOrNull]
         /\ head \in [Slugs -> FileOrNull]
BY TypeParts
DEF Actors, TypeInv, LocalTyped, QuietTyped, DatabaseTyped, DeliveryTyped

\* The worker leaves an article it has mirrored, or is no longer quiet.
LEMMA FinishRepairs ==
  ASSUME TypeInv, NEW w \in Workers, Repairs(w),
         pc[w] \in {"next", "upsert", "write", "chunks"},
         FinishArticle(w, Slug(w)),
         head' = head,
         quiet'[w] =>
           /\ quiet[w]
           /\ Mirrors(articles'[Slug(w)], files[w][Slug(w)])
           /\ \A s \in Slugs \ {Slug(w)} : articles'[s] = articles[s]
  PROVE  Repairs(w)'
<1>1. PICK s \in Slugs : s = Slug(w)
  BY InLoop
<1>2. s \in todo[w] /\ files[w][s] \in Sources
  BY <1>1, InLoop
<1>3. /\ todo'[w] = todo[w] \ {s}
      /\ pc'[w] = IF todo[w] = {s} THEN "done" ELSE "next"
      /\ files'[w][s] = Null
      /\ \A u \in Slugs \ {s} : files'[w][u] = files[w][u]
  BY <1>1, RunTyped DEF FinishArticle, Finish
<1>4. Spare(w)'
  BY <1>2, <1>3 DEF Repairs, Spare, Settled
<1>5. ASSUME quiet'[w]
      PROVE  RepairState(w)'
  <2>1. \A u \in Slugs : RepairedAt(w, u)
    BY <1>5 DEF Repairs, RepairState
  <2>2. files[w][s] = head[s]
    BY <1>2, <2>1 DEF RepairedAt
  <2>3. Mirrors(articles'[s], head[s])
    BY <1>1, <1>5, <2>2
  <2>4. ASSUME NEW u \in Slugs
        PROVE  RepairedAt(w, u)'
    <3>1. CASE u = s
      BY <1>3, <2>3, <3>1 DEF RepairedAt, Mirrors
    <3>2. CASE u # s
      <4>1. articles'[u] = articles[u] /\ RepairedAt(w, u)
        BY <1>1, <1>5, <2>1, <3>2
      <4> QED
        BY <1>3, <3>2, <4>1 DEF RepairedAt, Mirrors
    <3> QED
      BY <3>1, <3>2
  <2> QED
    BY <1>3, <2>4 DEF RepairState
<1> QED
  BY <1>4, <1>5 DEF Repairs

\* The same for the end of upsert_article.
LEMMA AfterUpsertRepairs ==
  ASSUME TypeInv, NEW w \in Workers, Repairs(w),
         pc[w] \in {"upsert", "write"},
         AfterUpsert(w),
         head' = head,
         quiet'[w] =>
           /\ quiet[w]
           /\ Mirrors(articles'[Slug(w)], files[w][Slug(w)])
           /\ \A s \in Slugs \ {Slug(w)} : articles'[s] = articles[s]
  PROVE  Repairs(w)'
<1>1. CASE FinishArticle(w, Slug(w))
  BY <1>1, FinishRepairs
<1>2. CASE ~FinishArticle(w, Slug(w))
  <2>1. /\ pc' = [pc EXCEPT ![w] = "chunks"]
        /\ UNCHANGED <<todo, files, seen, current>>
    BY <1>2 DEF AfterUpsert
  <2>2. pc'[w] = "chunks" /\ Slug(w)' = Slug(w) /\ Slug(w) \in todo[w]
    BY <2>1, RunTyped, InLoop DEF Slug
  <2>3. Spare(w)'
    BY <2>1, <2>2 DEF Repairs, Spare, Settled
  <2>4. ASSUME quiet'[w]
        PROVE  RepairState(w)'
    <3>1. Mirrors(articles[Slug(w)], files[w][Slug(w)])'
      BY <2>1, <2>2, <2>4 DEF Mirrors
    <3>2. \A s \in Slugs : RepairedAt(w, s)
      BY <2>4 DEF Repairs, RepairState
    <3>3. ASSUME NEW s \in Slugs
          PROVE  RepairedAt(w, s)'
      <4>1. CASE s \in todo[w]
        BY <2>1, <3>2, <4>1 DEF RepairedAt
      <4>2. CASE s \notin todo[w]
        <5>1. articles'[s] = articles[s]
          BY <2>2, <2>4, <4>2
        <5> QED
          BY <2>1, <3>2, <4>2, <5>1 DEF RepairedAt, Mirrors
      <4> QED
        BY <4>1, <4>2
    <3> QED
      BY <2>2, <3>1, <3>3 DEF RepairState
  <2> QED
    BY <2>3, <2>4 DEF Repairs
<1> QED
  BY <1>1, <1>2


LEMMA StartRepairs ==
  ASSUME TypeInv, NEW w \in Workers, Repairs(w), Start(w)
  PROVE  Repairs(w)'
<1>1. PICK listed : listed = {s \in Slugs : head[s] # Null}
  OBVIOUS
<1>2. /\ pc[w] \in Settled /\ UNCHANGED <<head, files, articles>>
      /\ \/ /\ pc'[w] = IF listed = {} THEN "done" ELSE "fetch"
            /\ todo'[w] = listed
         \/ pc'[w] = "idle" /\ UNCHANGED <<todo, quiet>>
  BY <1>1, RunTyped DEF Start, database
<1>3. todo[w] = {} /\ \A s \in Slugs : files[w][s] = Null
  BY <1>2 DEF Repairs, Spare, Settled
<1>4. CASE pc'[w] = "idle"
  BY <1>1, <1>2, <1>3, <1>4 DEF Repairs, Spare, RepairState
<1>5. CASE pc'[w] # "idle"
  <2>1. /\ pc'[w] = IF listed = {} THEN "done" ELSE "fetch"
        /\ todo'[w] = listed
    BY <1>2, <1>5
  <2>2. CASE listed = {}
    BY <1>1, <1>2, <1>3, <2>1, <2>2
    DEF Repairs, Spare, RepairState, RepairedAt
  <2>3. CASE listed # {}
    BY <1>1, <1>2, <1>3, <2>1, <2>3
    DEF Repairs, Spare, RepairState, FetchedAt, Settled
  <2> QED
    BY <2>2, <2>3
<1> QED
  BY <1>4, <1>5

LEMMA FetchRepairs ==
  ASSUME TypeInv, NEW w \in Workers, Repairs(w), NEW s \in Slugs, Fetch(w, s)
  PROVE  Repairs(w)'
<1>1. PICK fetched : fetched = {u \in Slugs : files'[w][u] # Null}
  OBVIOUS
<1>2. PICK file \in {head[s], Null} :
        /\ files' = [files EXCEPT ![w][s] = file]
        /\ IF file = Null THEN Fail(w) ELSE UNCHANGED quiet
  BY DEF Fetch
<1>3. /\ pc[w] = "fetch" /\ s \in todo[w] /\ UNCHANGED head
      /\ \/ /\ todo[w] # {s} /\ todo'[w] = todo[w] \ {s}
            /\ pc'[w] = "fetch"
         \/ /\ todo[w] = {s} /\ todo'[w] = fetched
            /\ pc'[w] = IF fetched = {} THEN "done" ELSE "next"
  BY <1>1, RunTyped DEF Fetch, delivery
<1>4. /\ files'[w][s] = file
      /\ \A u \in Slugs \ {s} : files'[w][u] = files[w][u]
  BY <1>2, RunTyped
<1>5. Spare(w)'
  BY <1>1, <1>3 DEF Spare, Settled
<1>6. ASSUME quiet'[w]
      PROVE  RepairState(w)'
  <2>1. quiet[w] /\ file = head[s]
    BY <1>2, <1>6, RunTyped, QuietMeans
  <2>2. \A u \in Slugs : FetchedAt(w, u)
    BY <1>3, <2>1 DEF Repairs, RepairState
  <2>3. CASE pc'[w] = "fetch"
    <3>1. todo'[w] = todo[w] \ {s}
      BY <1>3, <2>3
    <3>2. \A u \in Slugs : FetchedAt(w, u)'
      BY <1>3, <1>4, <2>1, <2>2, <3>1 DEF FetchedAt
    <3> QED
      BY <2>3, <3>2 DEF RepairState
  <2>4. CASE pc'[w] # "fetch"
    <3>1. todo[w] = {s} /\ todo'[w] = fetched /\ pc'[w] \in {"done", "next"}
      BY <1>3, <2>4
    <3>2. ASSUME NEW u \in Slugs
          PROVE  RepairedAt(w, u)'
      <4>1. files'[w][u] = head[u]
        BY <1>4, <2>1, <2>2, <3>1 DEF FetchedAt
      <4> QED
        BY <1>1, <1>3, <3>1, <4>1 DEF RepairedAt
    <3> QED
      BY <3>1, <3>2 DEF RepairState
  <2> QED
    BY <2>3, <2>4
<1> QED
  BY <1>5, <1>6 DEF Repairs

\* A step that only moves the worker on to the article's next statement.
LEMMA OnwardRepairs ==
  ASSUME TypeInv, NEW w \in Workers, Repairs(w),
         pc[w] \in {"next", "upsert"}, pc'[w] \in {"upsert", "write"},
         UNCHANGED <<head, articles, todo, files, quiet>>,
         pc'[w] = "write" => current'[w] = articles[Slug(w)]
  PROVE  Repairs(w)'
<1>1. Slug(w)' = Slug(w)
  BY DEF Slug
<1>2. Spare(w)'
  BY DEF Repairs, Spare, Settled
<1>3. ASSUME quiet[w]
      PROVE  RepairState(w)'
  <2>1. \A s \in Slugs : RepairedAt(w, s)
    BY <1>3 DEF Repairs, RepairState
  <2>2. \A s \in Slugs : RepairedAt(w, s)'
    BY <2>1 DEF RepairedAt, Mirrors
  <2> QED
    BY <1>1, <2>2 DEF RepairState
<1> QED
  BY <1>2, <1>3 DEF Repairs

LEMMA FindRepairs ==
  ASSUME TypeInv, NEW w \in Workers, Repairs(w), Find(w)
  PROVE  Repairs(w)'
<1>1. pc[w] = "next" /\ UNCHANGED <<head, articles>>
  BY DEF Find, delivery, database
<1>2. CASE FinishArticle(w, Slug(w)) /\ Fail(w)
  <2>1. ~quiet'[w]
    BY <1>2, RunTyped, QuietMeans
  <2> QED
    BY <1>1, <1>2, <2>1, FinishRepairs
<1>3. CASE ~(FinishArticle(w, Slug(w)) /\ Fail(w))
  <2>1. pc' = [pc EXCEPT ![w] = "upsert"] /\ UNCHANGED <<todo, files, quiet>>
    BY <1>3 DEF Find
  <2>2. pc'[w] = "upsert"
    BY <2>1, RunTyped
  <2> QED
    BY <1>1, <2>1, <2>2, OnwardRepairs
<1> QED
  BY <1>2, <1>3

LEMMA UpsertRepairs ==
  ASSUME TypeInv, NEW w \in Workers, Repairs(w), Upsert(w)
  PROVE  Repairs(w)'
<1>1. pc[w] = "upsert" /\ UNCHANGED <<head, articles>>
  BY DEF Upsert, delivery, database
<1>2. \/ /\ articles[Slug(w)] # Null
         /\ ~ArticleChanged(articles[Slug(w)], files[w][Slug(w)])
         /\ ~TagsChanged(articles[Slug(w)], files[w][Slug(w)])
         /\ AfterUpsert(w)
         /\ UNCHANGED quiet
      \/ /\ current' = [current EXCEPT ![w] = articles[Slug(w)]]
         /\ pc' = [pc EXCEPT ![w] = "write"]
         /\ UNCHANGED <<todo, files, seen, quiet>>
      \/ FinishArticle(w, Slug(w)) /\ Fail(w)
  BY DEF Upsert
<1>3. CASE FinishArticle(w, Slug(w)) /\ Fail(w)
  <2>1. ~quiet'[w]
    BY <1>3, RunTyped, QuietMeans
  <2> QED
    BY <1>1, <1>3, <2>1, FinishRepairs
<1>4. CASE /\ current' = [current EXCEPT ![w] = articles[Slug(w)]]
           /\ pc' = [pc EXCEPT ![w] = "write"]
           /\ UNCHANGED <<todo, files, seen, quiet>>
  <2>1. pc'[w] = "write" /\ current'[w] = articles[Slug(w)]
    BY <1>4, RunTyped
  <2> QED
    BY <1>1, <1>4, <2>1, OnwardRepairs
<1>5. CASE /\ articles[Slug(w)] # Null
           /\ ~ArticleChanged(articles[Slug(w)], files[w][Slug(w)])
           /\ ~TagsChanged(articles[Slug(w)], files[w][Slug(w)])
           /\ AfterUpsert(w)
           /\ UNCHANGED quiet
  <2>1. PICK s \in Slugs : s = Slug(w) /\ files[w][s] \in Sources
    BY <1>1, InLoop
  <2>2. articles[s] \in Row
    BY <1>5, <2>1, RunTyped DEF RowOrNull
  <2>3. Mirrors(articles[s], files[w][s])
    BY <1>5, <2>1, <2>2, UnchangedMirrors
  <2>4. Mirrors(articles'[Slug(w)], files[w][Slug(w)])
    BY <1>1, <2>1, <2>3
  <2>5. quiet' = quiet /\ \A u \in Slugs : articles'[u] = articles[u]
    BY <1>1, <1>5
  <2> QED
    BY <1>1, <1>5, <2>4, <2>5, AfterUpsertRepairs
<1> QED
  BY <1>2, <1>3, <1>4, <1>5

LEMMA WriteRepairs ==
  ASSUME TypeInv, NEW w \in Workers, Repairs(w), Write(w)
  PROVE  Repairs(w)'
<1>1. PICK s \in Slugs : s = Slug(w) /\ files[w][s] \in Sources
  BY InLoop DEF Write
<1>2. PICK html : html = IF NeedsHtml(seen[w][s], files[w][s])
                         THEN files[w][s].content ELSE Null
  OBVIOUS
<1>3. html \in Contents \union {Null}
  BY <1>1, <1>2 DEF Contents
<1>4. pc[w] = "write" /\ UNCHANGED head
  BY DEF Write, delivery
<1>5. \/ /\ articles' = [articles EXCEPT ![s] =
              IF current[w] = Null THEN InsertedRow(files[w][s], html)
              ELSE UpdatedRow(articles[s], current[w], files[w][s], html)]
         /\ AfterUpsert(w) /\ WriteBy(w)
      \/ FinishArticle(w, s) /\ Interfere
      \/ FinishArticle(w, s) /\ Fail(w)
  BY <1>1, <1>2, Zenon DEF Write
<1>6. CASE FinishArticle(w, s) /\ (Interfere \/ Fail(w))
  <2>1. ~quiet'[w]
    BY <1>6, RunTyped, QuietMeans
  <2> QED
    BY <1>1, <1>4, <1>6, <2>1, FinishRepairs
<1>7. CASE /\ articles' = [articles EXCEPT ![s] =
                IF current[w] = Null THEN InsertedRow(files[w][s], html)
                ELSE UpdatedRow(articles[s], current[w], files[w][s], html)]
           /\ AfterUpsert(w) /\ WriteBy(w)
  <2>1. quiet'[w] => quiet[w]
    BY <1>7, RunTyped, QuietMeans
  <2>2. \A u \in Slugs \ {s} : articles'[u] = articles[u]
    BY <1>7, RunTyped
  <2>3. ASSUME quiet[w]
        PROVE  Mirrors(articles'[s], files[w][s])
    <3>1. current[w] = articles[s]
      BY <1>1, <1>4, <2>3 DEF Repairs, RepairState
    <3>2. articles'[s] =
            IF current[w] = Null THEN InsertedRow(files[w][s], html)
            ELSE UpdatedRow(articles[s], current[w], files[w][s], html)
      BY <1>7, RunTyped
    <3>3. CASE articles[s] = Null
      BY <1>1, <1>3, <3>1, <3>2, <3>3, InsertedMirrors
    <3>4. CASE articles[s] # Null
      <4>1. articles[s] \in Row
        BY <3>4, RunTyped DEF RowOrNull
      <4> QED
        BY <1>1, <1>3, <3>1, <3>2, <3>4, <4>1, UpdatedMirrors
    <3> QED
      BY <3>3, <3>4
  <2>4. quiet'[w] =>
          /\ quiet[w]
          /\ Mirrors(articles'[Slug(w)], files[w][Slug(w)])
          /\ \A u \in Slugs \ {Slug(w)} : articles'[u] = articles[u]
    BY <1>1, <2>1, <2>2, <2>3
  <2> QED
    BY <1>4, <1>7, <2>4, AfterUpsertRepairs
<1> QED
  BY <1>5, <1>6, <1>7

LEMMA RegenerateRepairs ==
  ASSUME TypeInv, NEW w \in Workers, Repairs(w), RegenerateChunks(w)
  PROVE  Repairs(w)'
<1>1. /\ pc[w] = "chunks" /\ UNCHANGED <<head, articles>>
      /\ FinishArticle(w, Slug(w)) /\ (WriteBy(w) \/ Fail(w))
  BY DEF RegenerateChunks, delivery
<1>2. quiet'[w] => quiet[w]
  BY <1>1, RunTyped, QuietMeans
<1>3. quiet[w] => Mirrors(articles[Slug(w)], files[w][Slug(w)])
  BY <1>1 DEF Repairs, RepairState
<1> QED
  BY <1>1, <1>2, <1>3, FinishRepairs

LEMMA CrashRepairs ==
  ASSUME TypeInv, NEW w \in Workers, Crash(w)
  PROVE  Repairs(w)'
<1>1. /\ pc'[w] = "idle" /\ todo'[w] = {}
      /\ \A s \in Slugs : files'[w][s] = Null
  BY RunTyped DEF Crash, NoFiles
<1>2. ~quiet'[w]
  BY RunTyped, QuietMeans DEF Crash
<1> QED
  BY <1>1, <1>2 DEF Repairs, Spare

\* What others do, or the environment, with what the run has read.
LEMMA LetsBeRepairs ==
  ASSUME NEW w \in Workers, Repairs(w), LetsBe(w)
  PROVE  Repairs(w)'
<1>1. /\ pc'[w] = pc[w] /\ todo'[w] = todo[w]
      /\ files'[w] = files[w] /\ current'[w] = current[w]
      /\ Slug(w)' = Slug(w)
  BY DEF LetsBe, Rests, Slug
<1>2. Spare(w)'
  BY <1>1 DEF Repairs, Spare
<1>3. ASSUME quiet'[w]
      PROVE  RepairState(w)'
  <2>1. UNCHANGED <<head, articles>> /\ RepairState(w)
    BY <1>3 DEF LetsBe, Repairs
  <2>2. \A s \in Slugs : FetchedAt(w, s)' <=> FetchedAt(w, s)
    BY <1>1, <2>1 DEF FetchedAt
  <2>3. \A s \in Slugs : RepairedAt(w, s)' <=> RepairedAt(w, s)
    BY <1>1, <2>1 DEF RepairedAt, Mirrors
  <2> QED
    BY <1>1, <2>1, <2>2, <2>3 DEF RepairState, Mirrors
<1> QED
  BY <1>2, <1>3 DEF Repairs

LEMMA RepairStep ==
  ASSUME TypeInv, NEW w \in Workers, Repairs(w), [Next]_vars
  PROVE  Repairs(w)'
<1>1. w \in Actors /\ w # Backfill /\ w # Embedder
  BY ArticleConstants DEF Actors
<1>2. ASSUME WorkerStep(w)
      PROVE  Repairs(w)'
  BY <1>2, StartRepairs, FetchRepairs, FindRepairs, UpsertRepairs,
     WriteRepairs, RegenerateRepairs, CrashRepairs DEF WorkerStep
<1>3. ASSUME NEW v \in Workers, v # w, WorkerStep(v)
      PROVE  LetsBe(w)
  BY <1>1, <1>3, WorkerLetsBe
<1>4. ASSUME ToolStep
      PROVE  LetsBe(w)
  BY <1>1, <1>4, ToolLetsBe DEF ToolStep
<1>5. ASSUME (\E s \in Slugs : Push(s)) \/ Redeliver \/ UNCHANGED vars
      PROVE  LetsBe(w)
  BY <1>1, <1>5, OutsideLetsBe
<1> QED
  BY <1>2, <1>3, <1>4, <1>5, LetsBeRepairs DEF Next

RepairInv == \A w \in Workers : Repairs(w)

\* A full scan repairs the rows: when nothing failed and nobody interfered
\* during a run, every file of the branch is mirrored at its end, whatever
\* earlier runs had left (2026-07-13-webhook-async-self-invoke/index.md:33).
THEOREM QuietRunMirrorsHolds == Spec => []QuietRunMirrors
<1>1. Init => RepairInv
  <2> SUFFICES ASSUME Init, NEW w \in Workers PROVE Repairs(w)
    BY DEF RepairInv
  <2>1. w \in Actors
    BY DEF Actors
  <2> QED
    BY <2>1 DEF Init, Repairs, Spare, NoFiles
<1>2. TypeInv /\ RepairInv /\ [Next]_vars => RepairInv'
  BY RepairStep DEF RepairInv
<1>3. TypeInv /\ RepairInv => QuietRunMirrors
  <2> SUFFICES ASSUME RepairInv, NEW w \in Workers, pc[w] = "done", quiet[w],
                      NEW s \in Slugs, head[s] # Null
               PROVE  Mirrors(articles[s], head[s])
    BY DEF QuietRunMirrors
  <2>1. todo[w] = {} /\ RepairedAt(w, s)
    BY DEF RepairInv, Repairs, Spare, RepairState, Settled
  <2> QED
    BY <2>1 DEF RepairedAt
<1> QED
  BY TypeInit, TypeNext, <1>1, <1>2, <1>3, PTL DEF Spec
=============================================================================
