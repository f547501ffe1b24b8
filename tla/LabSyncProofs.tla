---------------------------- MODULE LabSyncProofs ----------------------------
(***************************************************************************)
(* Proofs about LabSync for any labs, chapters, images, workers, contents  *)
(* of the repository and bounds.                                           *)
(***************************************************************************)
EXTENDS LabSync, SequenceTheorems, TLAPS

-----------------------------------------------------------------------------
(* The inductive invariant: what a worker holds at each of its calls.      *)

InLab == {"config", "images", "put", "lab", "update", "insert", "states",
          "chapter", "find", "write", "prune"}
HasId == {"update", "states", "chapter", "find", "write", "prune"}
InChapter == {"chapter", "find", "write"}

\* The configuration is that of some commit, not always of the worker's.
ConfigCommitted(w) ==
  \E n \in DOMAIN commits :
    /\ commits[n][Lab(w)] # Null
    /\ commits[n][Lab(w)].config = run[w].config

\* A lab with the id the worker holds is the lab it is working on.
OwnId(w) ==
  \A l \in Labs : labs[l] # Null /\ labs[l].id = run[w].id => l = Lab(w)

\* The chapters the loop is done with.
Passed(w) ==
  1 .. (IF pc[w] \in {"find", "write"} THEN run[w].position ELSE run[w].position - 1)

\* Of those the ones whose file is in the tree are kept.
KeepsPassed(w) ==
  \A n \in Passed(w) :
    Dir(w).files[run[w].config.chapters[n]] # Null
      => run[w].config.chapters[n] \in run[w].keep

Shape(w) ==
  /\ pc[w] \in InLab \union {"sweep"} => run[w].commit \in DOMAIN commits
  /\ pc[w] \in InLab => run[w].labs # {} /\ run[w].labs \subseteq Discovered(Tree(w))
  /\ pc[w] \in InLab \ {"config"} => run[w].config # Null /\ ConfigCommitted(w)
  /\ pc[w] = "put" => run[w].image \in Images
  /\ pc[w] \in HasId => run[w].id \in Ids /\ OwnId(w)
  /\ pc[w] \in InChapter => run[w].position \in 1 .. Len(run[w].config.chapters)
  /\ pc[w] = "prune" => run[w].position = Len(run[w].config.chapters) + 1
  /\ pc[w] \in {"find", "write"} => run[w].text # Null
  /\ pc[w] \in InChapter \union {"prune"} => KeepsPassed(w)

UniqueIds ==
  \A l, m \in Labs :
    labs[l] # Null /\ labs[m] # Null /\ labs[l].id = labs[m].id => l = m

Inv == TypeOK /\ UniqueIds /\ \A w \in Workers : Shape(w)

-----------------------------------------------------------------------------
(* The repository                                                          *)

LEMMA CommitTyped ==
  ASSUME TypeOK, NEW n \in DOMAIN commits, NEW l \in Labs
  PROVE  /\ commits[n] \in [Labs -> Dirs \union {Null}]
         /\ commits[n][l] \in Dirs \union {Null}
BY DEF TypeOK

LEMMA HeadTyped ==
  ASSUME TypeOK
  PROVE  /\ Len(commits) \in DOMAIN commits
         /\ Len(commits) \in 1 .. (MaxPushes + 1)
         /\ head \in [Labs -> Dirs \union {Null}]
<1>1. /\ commits \in Seq([Labs -> Dirs \union {Null}])
      /\ Len(commits) \in 1 .. (MaxPushes + 1)
  BY DEF TypeOK, Commits
<1>2. Len(commits) \in DOMAIN commits
  BY <1>1, LabConstants
<1> QED
  BY <1>1, <1>2 DEF head

LEMMA TextTyped ==
  ASSUME NEW dir \in Dirs, NEW tree \in Dirs, NEW c \in Chapters, dir.files[c] # Null
  PROVE  Text(dir.files[c], tree) \in Texts
<1>1. dir.files[c] \in Files
  BY DEF Files
<1> QED
  BY <1>1 DEF Texts

LEMMA ConfigTyped ==
  ASSUME NEW dir \in Dirs, dir.config # Null
  PROVE  /\ dir.config.chapters \in Seq(Chapters)
         /\ dir.config.meta \in Metas
         /\ \A n \in DOMAIN dir.config.chapters : n - 1 \in Positions
BY LabConstants DEF Metas, Positions

\* What a worker in the loop over the labs works on.
LEMMA AtWork ==
  ASSUME Inv, NEW w \in Workers, pc[w] \in InLab
  PROVE  /\ run[w] \in Run
         /\ run[w].commit \in DOMAIN commits
         /\ Lab(w) \in run[w].labs
         /\ Lab(w) \in Labs
         /\ Dir(w) \in Dirs
         /\ run[w].labs \ {Lab(w)} \subseteq Discovered(Tree(w))
<1>1. run[w] \in Run /\ run[w].commit \in DOMAIN commits
  BY DEF Inv, TypeOK, Shape
<1>2. run[w].labs # {} /\ run[w].labs \subseteq Discovered(Tree(w))
  BY DEF Inv, Shape
<1>3. Lab(w) \in run[w].labs
  BY <1>2 DEF Lab
<1>4. Lab(w) \in Labs /\ Tree(w)[Lab(w)] # Null
  BY <1>2, <1>3 DEF Discovered
<1>5. Dir(w) \in Dirs
  BY <1>1, <1>4, CommitTyped DEF Inv, Dir, Tree
<1> QED
  BY <1>1, <1>2, <1>3, <1>4, <1>5

\* The configuration it has fetched.
LEMMA Configured ==
  ASSUME Inv, NEW w \in Workers, pc[w] \in InLab \ {"config"}
  PROVE  /\ run[w].config # Null
         /\ run[w].config \in {dir.config : dir \in Dirs}
         /\ run[w].config.chapters \in Seq(Chapters)
         /\ run[w].config.meta \in Metas
         /\ \A n \in DOMAIN run[w].config.chapters : n - 1 \in Positions
<1>1. run[w].config # Null /\ ConfigCommitted(w) /\ Lab(w) \in Labs
  BY AtWork DEF Inv, Shape
<1>2. PICK n \in DOMAIN commits : /\ commits[n][Lab(w)] # Null
                                  /\ commits[n][Lab(w)].config = run[w].config
  BY <1>1 DEF ConfigCommitted
<1>3. commits[n][Lab(w)] \in Dirs
  BY <1>1, <1>2, CommitTyped DEF Inv
<1> QED
  BY <1>1, <1>2, <1>3, ConfigTyped

-----------------------------------------------------------------------------
(* Steps of other workers                                                  *)

\* No step takes a commit back, and a lab gets an id only when it is new.
CommitsGrow ==
  \A n \in DOMAIN commits : n \in DOMAIN commits' /\ commits'[n] = commits[n]
OldOrFresh ==
  \A l \in Labs : labs'[l] # Null =>
    \/ labs[l] # Null /\ labs'[l].id = labs[l].id
    \/ labs'[l].id \in Fresh

LEMMA FreshUnused ==
  ASSUME NEW id \in Fresh
  PROVE  /\ id \in Ids
         /\ \A w \in Workers : run[w].id # id
         /\ \A l \in Labs : labs[l] # Null => labs[l].id # id
         /\ chapters[id] = NoChapters
BY DEF Fresh

LEMMA OthersInShape ==
  ASSUME Inv, CommitsGrow, OldOrFresh, NEW w \in Workers,
         pc'[w] = pc[w], run'[w] = run[w]
  PROVE  Shape(w)'
<1>1. Lab(w)' = Lab(w)
  BY DEF Lab
<1>2. ASSUME pc[w] \in InLab
      PROVE  Tree(w)' = Tree(w) /\ Dir(w)' = Dir(w)
  BY <1>1, <1>2, AtWork DEF Tree, Dir, CommitsGrow
<1>3. ASSUME pc[w] \in InLab, ConfigCommitted(w)
      PROVE  ConfigCommitted(w)'
  BY <1>1, <1>3 DEF ConfigCommitted, CommitsGrow
<1>4. ASSUME OwnId(w)
      PROVE  OwnId(w)'
  BY <1>1, <1>4, FreshUnused DEF OwnId, OldOrFresh
<1>5. ASSUME pc[w] \in InLab, KeepsPassed(w)
      PROVE  KeepsPassed(w)'
  BY <1>2, <1>5 DEF KeepsPassed, Passed
<1>6. Shape(w)
  BY DEF Inv
<1> USE DEF InLab, HasId, InChapter
<1>7. pc[w] \in InLab \union {"sweep"} => run'[w].commit \in DOMAIN commits'
  BY <1>6 DEF Shape, CommitsGrow
<1>8. pc[w] \in InLab
        => run'[w].labs # {} /\ run'[w].labs \subseteq Discovered(Tree(w))'
  BY <1>2, <1>6 DEF Shape, Discovered
<1> QED
  BY <1>3, <1>4, <1>5, <1>6, <1>7, <1>8 DEF Shape

LEMMA IdsStayUnique ==
  ASSUME Inv, OldOrFresh,
         \A l, m \in Labs : l # m /\ labs'[l] # Null /\ labs'[m] # Null
           => labs'[l].id \notin Fresh \/ labs'[m].id \notin Fresh
  PROVE  UniqueIds'
BY FreshUnused DEF Inv, UniqueIds, OldOrFresh

-----------------------------------------------------------------------------
(* Types                                                                   *)

Steps == InLab \union Settled \union {"sweep"}

DeliveryType ==
  /\ commits \in Seq([Labs -> Dirs \union {Null}])
  /\ Len(commits) \in Commits
  /\ queue \in [Commits -> 0 .. runs]
  /\ runs \in 0 .. MaxRuns
LabsType == labs \in [Labs -> LabRow \union {Null}]
ChaptersType == chapters \in [Ids -> [Chapters -> ChapterRow \union {Null}]]
StoreType ==
  store \in [Labs -> [Images -> {Null} \union
    UNION {{dir.images[i] : i \in Images} : dir \in Dirs}]]
WorkersType ==
  pc \in [Workers -> Steps] /\ run \in [Workers -> Run] /\ quiet \in [Workers -> BOOLEAN]

LEMMA TypesOfAll ==
  /\ TypeOK <=> DeliveryType /\ LabsType /\ ChaptersType /\ StoreType /\ WorkersType
  /\ TypeOK' <=> DeliveryType' /\ LabsType' /\ ChaptersType' /\ StoreType' /\ WorkersType'
<1>1. Steps = Settled \union
       {"config", "images", "put", "lab", "update", "insert", "states",
        "chapter", "find", "write", "prune", "sweep"}
  BY DEF Steps, InLab
<1> QED
  BY <1>1 DEF TypeOK, DeliveryType, LabsType, ChaptersType, StoreType, WorkersType

LEMMA DeliveryRests ==
  ASSUME Inv, UNCHANGED delivery
  PROVE  DeliveryType' /\ CommitsGrow /\ commits' = commits
BY TypesOfAll DEF Inv, DeliveryType, delivery, CommitsGrow

QuietStep(w) ==
  \/ Fail(w) \/ WriteBy(w) \/ Interfere \/ UNCHANGED quiet
  \/ quiet' = [quiet EXCEPT ![w] = TRUE]

LEMMA QuietTyped ==
  ASSUME Inv, NEW w \in Workers,
         QuietStep(w)
  PROVE  quiet' \in [Workers -> BOOLEAN]
<1>1. quiet \in [Workers -> BOOLEAN]
  BY TypesOfAll DEF Inv, WorkersType
<1>2. CASE Fail(w)
  BY <1>1, <1>2 DEF Fail
<1>3. CASE WriteBy(w)
  <2>1. \A v \in Workers : quiet'[v] \in BOOLEAN
    BY <1>1, <1>3 DEF WriteBy
  <2> QED
    BY <1>3, <2>1 DEF WriteBy
<1>4. CASE Interfere
  BY <1>4 DEF Interfere
<1>5. CASE quiet' = [quiet EXCEPT ![w] = TRUE]
  BY <1>1, <1>5
<1> QED
  BY <1>1, <1>2, <1>3, <1>4, <1>5 DEF QuietStep

\* A worker that goes on with what it holds, and the others stay as they are.
Moves(w, step, held) ==
  run' = [run EXCEPT ![w] = held] /\ pc' = [pc EXCEPT ![w] = step]

LEMMA Moved ==
  ASSUME Inv, NEW w \in Workers, NEW step \in Steps, NEW held \in Run,
         Moves(w, step, held), quiet' \in [Workers -> BOOLEAN]
  PROVE  /\ WorkersType'
         /\ pc'[w] = step /\ run'[w] = held
         /\ \A v \in Workers \ {w} : pc'[v] = pc[v] /\ run'[v] = run[v]
BY TypesOfAll DEF Inv, WorkersType, Moves

LEMMA StepKeepsInv ==
  ASSUME Inv, NEW w \in Workers, NEW step \in Steps, NEW held \in Run,
         Moves(w, step, held),
         QuietStep(w),
         DeliveryType', LabsType', ChaptersType', StoreType',
         CommitsGrow, OldOrFresh, UniqueIds', Shape(w)'
  PROVE  Inv'
<1>1. WorkersType' /\ \A v \in Workers \ {w} : pc'[v] = pc[v] /\ run'[v] = run[v]
  BY QuietTyped, Moved
<1>2. TypeOK'
  BY <1>1, TypesOfAll
<1>3. \A v \in Workers \ {w} : Shape(v)'
  BY <1>1, OthersInShape
<1> QED
  BY <1>2, <1>3 DEF Inv

\* The same for a step that leaves the tables alone.
LEMMA ReadKeepsInv ==
  ASSUME Inv, NEW w \in Workers, NEW step \in Steps, NEW held \in Run,
         Moves(w, step, held),
         QuietStep(w),
         UNCHANGED <<labs, chapters, store>>, DeliveryType', CommitsGrow, Shape(w)'
  PROVE  Inv'
<1>1. LabsType' /\ ChaptersType' /\ StoreType'
  BY TypesOfAll DEF Inv, LabsType, ChaptersType, StoreType
<1>2. OldOrFresh /\ UniqueIds'
  BY DEF OldOrFresh, UniqueIds, Inv
<1> QED
  BY <1>1, <1>2, StepKeepsInv

-----------------------------------------------------------------------------
(* What the next call finds                                                *)

\* Within one lab.
LEMMA SameLab ==
  ASSUME Inv, NEW w \in Workers, pc[w] \in InLab,
         run'[w].labs = run[w].labs, run'[w].commit = run[w].commit, CommitsGrow
  PROVE  /\ Lab(w)' = Lab(w) /\ Tree(w)' = Tree(w) /\ Dir(w)' = Dir(w)
         /\ run'[w].commit \in DOMAIN commits'
         /\ run'[w].labs # {} /\ run'[w].labs \subseteq Discovered(Tree(w))'
         /\ run'[w].config = run[w].config /\ ConfigCommitted(w) => ConfigCommitted(w)'
<1>1. run[w].commit \in DOMAIN commits
  BY AtWork
<1>2. Lab(w)' = Lab(w)
  BY DEF Lab
<1>3. Tree(w)' = Tree(w)
  BY <1>1 DEF Tree, CommitsGrow
<1>4. Dir(w)' = Dir(w)
  BY <1>2, <1>3 DEF Dir
<1>5. run'[w].labs # {} /\ run'[w].labs \subseteq Discovered(Tree(w))'
  BY <1>3 DEF Inv, Shape, Discovered
<1>6. run'[w].config = run[w].config /\ ConfigCommitted(w) => ConfigCommitted(w)'
  BY <1>2 DEF ConfigCommitted, CommitsGrow
<1> QED
  BY <1>1, <1>2, <1>3, <1>4, <1>5, <1>6 DEF CommitsGrow

NextHeld(w) ==
  [NoRun EXCEPT !.commit = run[w].commit, !.labs = run[w].labs \ {Lab(w)}]
NextCall(w) == IF run[w].labs \ {Lab(w)} = {} THEN "sweep" ELSE "config"

LEMMA NoRunTyped ==
  ASSUME NEW n \in 0 .. (MaxPushes + 1), NEW S \in SUBSET Labs
  PROVE  [NoRun EXCEPT !.commit = n, !.labs = S] \in Run
<1>1. NoChapters \in [Chapters -> TextOrNull]
  BY DEF NoChapters, TextOrNull
<1> QED
  BY <1>1 DEF NoRun, Run, TextOrNull

LEMMA EmptyRunTyped == NoRun \in Run
<1>1. NoChapters \in [Chapters -> TextOrNull]
  BY DEF NoChapters, TextOrNull
<1>2. 0 \in 0 .. (MaxPushes + 1)
  BY LabConstants
<1> QED
  BY <1>1, <1>2 DEF NoRun, Run, TextOrNull

\* After one lab, and whenever it is skipped.
LEMMA LabEnds ==
  ASSUME Inv, NEW w \in Workers, pc[w] \in InLab, NextLab(w), CommitsGrow
  PROVE  /\ NextHeld(w) \in Run /\ NextCall(w) \in Steps
         /\ Moves(w, NextCall(w), NextHeld(w))
         /\ Shape(w)'
<1>1. /\ run[w] \in Run /\ run[w].commit \in DOMAIN commits
      /\ run[w].labs \ {Lab(w)} \subseteq Discovered(Tree(w))
  BY AtWork
<1>2. run[w].commit \in 0 .. (MaxPushes + 1) /\ run[w].labs \in SUBSET Labs
  BY <1>1 DEF Run
<1>3. NextHeld(w) \in Run
  BY <1>2, NoRunTyped DEF NextHeld
<1>4. NextCall(w) \in {"sweep", "config"} /\ NextCall(w) \in Steps
  BY DEF NextCall, Steps, InLab
<1>5. Moves(w, NextCall(w), NextHeld(w))
  BY DEF NextLab, Moves, NextCall, NextHeld
<1>6. pc'[w] = NextCall(w) /\ run'[w] = NextHeld(w)
  BY <1>5 DEF Moves, Inv, TypeOK
<1>7. run'[w].commit = run[w].commit /\ run'[w].labs = run[w].labs \ {Lab(w)}
  BY <1>6 DEF NextHeld, NoRun
<1>8. run'[w].commit \in DOMAIN commits' /\ Tree(w)' = Tree(w)
  BY <1>1, <1>7 DEF CommitsGrow, Tree
<1>9. pc'[w] = "config" => run'[w].labs # {} /\ run'[w].labs \subseteq Discovered(Tree(w))'
  BY <1>1, <1>6, <1>7, <1>8 DEF NextCall, Discovered
<1>10. Shape(w)'
  BY <1>4, <1>6, <1>8, <1>9 DEF Shape, InLab, HasId, InChapter
<1> QED
  BY <1>3, <1>4, <1>5, <1>10

\* A lab that is skipped, for the actions in which that is all that happens.
LEMMA SkippedKeepsInv ==
  ASSUME Inv, NEW w \in Workers, pc[w] \in InLab, SkipLab(w),
         UNCHANGED <<delivery, database>>
  PROVE  Inv'
<1>1. DeliveryType' /\ CommitsGrow
  BY DeliveryRests
<1> QED
  BY <1>1, LabEnds, ReadKeepsInv DEF SkipLab, database, QuietStep

\* The loop over the chapters goes on, or ends.
PositionHeld(n, held) == [held EXCEPT !.position = n, !.text = Null, !.found = Null]
PositionCall(w, n) ==
  IF n > Len(run[w].config.chapters) THEN "prune" ELSE "chapter"

LEMMA AtPosition ==
  ASSUME Inv, NEW w \in Workers, pc[w] \in InLab \ {"config"},
         NEW n \in 1 .. (Len(run[w].config.chapters) + 1), NEW held \in Run,
         held.labs = run[w].labs, held.commit = run[w].commit,
         held.config = run[w].config, held.id = run[w].id,
         run[w].id \in Ids, OwnId(w),
         \A k \in 1 .. n - 1 : Dir(w).files[run[w].config.chapters[k]] # Null
           => run[w].config.chapters[k] \in held.keep,
         FromPosition(w, n, held), CommitsGrow, OldOrFresh
  PROVE  /\ PositionHeld(n, held) \in Run /\ PositionCall(w, n) \in Steps
         /\ Moves(w, PositionCall(w, n), PositionHeld(n, held))
         /\ Shape(w)'
<1> DEFINE len == Len(run[w].config.chapters)
<1>1. len \in Nat
  BY Configured
<1>2. n \in Nat /\ n \in 1 .. (len + 1)
  BY <1>1
<1>3. PositionHeld(n, held) \in Run
  BY <1>2 DEF PositionHeld, Run, TextOrNull
<1>4. PositionCall(w, n) \in {"prune", "chapter"} /\ PositionCall(w, n) \in Steps
  BY DEF PositionCall, Steps, InLab
<1>5. Moves(w, PositionCall(w, n), PositionHeld(n, held))
  BY DEF FromPosition, Moves, PositionCall, PositionHeld
<1>6. pc'[w] = PositionCall(w, n) /\ run'[w] = PositionHeld(n, held)
  BY <1>5 DEF Moves, Inv, TypeOK
<1>7. /\ run'[w].labs = run[w].labs /\ run'[w].commit = run[w].commit
      /\ run'[w].config = run[w].config /\ run'[w].id = run[w].id
      /\ run'[w].position = n /\ run'[w].keep = held.keep
  BY <1>6 DEF PositionHeld, Run
<1>8. /\ Lab(w)' = Lab(w) /\ Dir(w)' = Dir(w)
      /\ run'[w].commit \in DOMAIN commits'
      /\ run'[w].labs # {} /\ run'[w].labs \subseteq Discovered(Tree(w))'
      /\ run'[w].config # Null /\ ConfigCommitted(w)'
  BY <1>7, SameLab, Configured DEF Inv, Shape, InLab
<1>9. OwnId(w)'
  BY <1>7, <1>8, FreshUnused DEF OwnId, OldOrFresh
<1>10. /\ pc'[w] = "chapter" => n \in 1 .. len
       /\ pc'[w] = "prune" => n = len + 1
  <2>1. pc'[w] = IF n > len THEN "prune" ELSE "chapter"
    BY <1>6 DEF PositionCall
  <2> HIDE DEF len
  <2> QED
    BY <1>1, <1>2, <2>1
<1>11. KeepsPassed(w)'
  BY <1>4, <1>6, <1>7, <1>8 DEF KeepsPassed, Passed
<1>12. Shape(w)'
  BY <1>4, <1>6, <1>7, <1>8, <1>9, <1>10, <1>11 DEF Shape, InLab, HasId, InChapter
<1> QED
  BY <1>3, <1>4, <1>5, <1>12

\* What is held in the loop over the chapters.
LEMMA InLoop ==
  ASSUME Inv, NEW w \in Workers, pc[w] \in InChapter
  PROVE  /\ Chapter(w) \in Chapters
         /\ run[w].position \in DOMAIN run[w].config.chapters
         /\ run[w].position + 1 \in 1 .. (Len(run[w].config.chapters) + 1)
         /\ Position(run[w].position) \in Positions
         /\ run[w].id \in Ids /\ OwnId(w)
         /\ \A k \in 1 .. run[w].position - 1 :
              Dir(w).files[run[w].config.chapters[k]] # Null
                => run[w].config.chapters[k] \in run[w].keep
         /\ pc[w] \in {"find", "write"} =>
              \A k \in 1 .. run[w].position :
                Dir(w).files[run[w].config.chapters[k]] # Null
                  => run[w].config.chapters[k] \in run[w].keep
<1> DEFINE order == run[w].config.chapters
           place == run[w].position
<1>1. pc[w] \in InLab \ {"config"} /\ pc[w] \in HasId
  BY DEF InChapter, InLab, HasId
<1>2. order \in Seq(Chapters) /\ \A n \in DOMAIN order : n - 1 \in Positions
  BY <1>1, Configured
<1>3. place \in 1 .. Len(order) /\ run[w].id \in Ids /\ OwnId(w) /\ KeepsPassed(w)
  BY <1>1 DEF Inv, Shape, InChapter
<1>4. Len(order) \in Nat /\ DOMAIN order = 1 .. Len(order)
  BY <1>2
<1>5. place \in DOMAIN order /\ place \in Nat /\ place + 1 \in 1 .. (Len(order) + 1)
  BY <1>3, <1>4
<1>6. order[place] \in Chapters
  BY <1>2, <1>5
<1>7. \A k \in 1 .. place - 1 : Dir(w).files[order[k]] # Null => order[k] \in run[w].keep
  BY <1>3, <1>5 DEF KeepsPassed, Passed
<1>8. pc[w] \in {"find", "write"} =>
        \A k \in 1 .. place : Dir(w).files[order[k]] # Null => order[k] \in run[w].keep
  BY <1>3 DEF KeepsPassed, Passed
<1> QED
  BY <1>2, <1>3, <1>5, <1>6, <1>7, <1>8 DEF Chapter, Position

\* The next chapter after one that is not found, or has been written.
LEMMA Advances ==
  ASSUME Inv, NEW w \in Workers, pc[w] \in {"find", "write"}, Advance(w),
         CommitsGrow, OldOrFresh
  PROVE  \E step \in Steps, held \in Run : Moves(w, step, held) /\ Shape(w)'
<1>1. pc[w] \in InLab \ {"config"} /\ pc[w] \in InChapter
  BY DEF InLab, InChapter
<1>2. run[w] \in Run /\ run[w].position \in Nat
  BY <1>1, AtWork DEF Run
<1> DEFINE n == run[w].position + 1
<1>3. n - 1 = run[w].position
  BY <1>2
<1>4. FromPosition(w, n, run[w])
  BY DEF Advance
<1>5. \A k \in 1 .. n - 1 : Dir(w).files[run[w].config.chapters[k]] # Null
           => run[w].config.chapters[k] \in run[w].keep
  BY <1>1, <1>3, InLoop
<1>6. n \in 1 .. (Len(run[w].config.chapters) + 1) /\ run[w].id \in Ids /\ OwnId(w)
  BY <1>1, InLoop
<1> HIDE DEF n
<1>7. /\ PositionHeld(n, run[w]) \in Run /\ PositionCall(w, n) \in Steps
      /\ Moves(w, PositionCall(w, n), PositionHeld(n, run[w])) /\ Shape(w)'
  BY <1>1, <1>2, <1>4, <1>5, <1>6, AtPosition
<1> QED
  BY <1>7

-----------------------------------------------------------------------------
(* The repository's steps                                                  *)

LEMMA DeliverTyped ==
  ASSUME Inv, NEW n \in Commits, Deliver(n) \/ UNCHANGED <<queue, runs>>
  PROVE  queue' \in [Commits -> 0 .. runs'] /\ runs' \in 0 .. MaxRuns
<1>1. queue \in [Commits -> 0 .. runs] /\ runs \in 0 .. MaxRuns /\ MaxRuns \in Nat
  BY LabConstants, TypesOfAll DEF Inv, DeliveryType
<1>2. CASE Deliver(n)
  BY <1>1, <1>2 DEF Deliver
<1>3. CASE UNCHANGED <<queue, runs>>
  BY <1>1, <1>3
<1> QED
  BY <1>2, <1>3

LEMMA CommitsCounted ==
  ASSUME Inv
  PROVE  /\ commits \in Seq([Labs -> Dirs \union {Null}])
         /\ Len(commits) \in Nat /\ DOMAIN commits = 1 .. Len(commits)
         /\ DOMAIN commits \subseteq Commits
<1>1. commits \in Seq([Labs -> Dirs \union {Null}]) /\ Len(commits) \in Commits
  BY DEF Inv, TypeOK
<1>2. Len(commits) \in Nat /\ DOMAIN commits = 1 .. Len(commits)
  BY <1>1
<1>3. DOMAIN commits \subseteq Commits
  BY <1>1, <1>2, LabConstants DEF Commits
<1> QED
  BY <1>1, <1>2, <1>3

\* A step that no worker takes part in.
LEMMA OutsideKeepsInv ==
  ASSUME Inv, UNCHANGED <<database, pc, run, quiet>>, DeliveryType', CommitsGrow
  PROVE  Inv'
<1>1. LabsType' /\ ChaptersType' /\ StoreType' /\ WorkersType'
  BY TypesOfAll DEF Inv, LabsType, ChaptersType, StoreType, WorkersType, database
<1>2. OldOrFresh /\ UniqueIds'
  BY DEF OldOrFresh, UniqueIds, Inv, database
<1>3. \A w \in Workers : Shape(w)'
  BY <1>2, OthersInShape
<1> QED
  BY <1>1, <1>2, <1>3, TypesOfAll DEF Inv

LEMMA PushKeepsInv ==
  ASSUME Inv, NEW l \in Labs, Push(l)
  PROVE  Inv'
<1>1. /\ commits \in Seq([Labs -> Dirs \union {Null}])
      /\ Len(commits) \in Nat /\ DOMAIN commits = 1 .. Len(commits)
  BY CommitsCounted
<1>2. head \in [Labs -> Dirs \union {Null}]
  BY HeadTyped DEF Inv
<1>3. PICK dir \in Dirs \union {Null} : commits' = Append(commits, [head EXCEPT ![l] = dir])
  BY DEF Push
<1> DEFINE new == [head EXCEPT ![l] = dir]
<1>4. new \in [Labs -> Dirs \union {Null}]
  BY <1>2
<1> HIDE DEF new
<1>5. commits' = Append(commits, new)
  BY <1>3 DEF new
<1>6. /\ commits' \in Seq([Labs -> Dirs \union {Null}])
      /\ Len(commits') = Len(commits) + 1
      /\ \A n \in DOMAIN commits : n \in DOMAIN commits' /\ commits'[n] = commits[n]
  BY <1>1, <1>4, <1>5, AppendProperties
<1>7. Len(commits) + 1 \in Commits
  BY <1>1, LabConstants DEF Push, Commits
<1>8. queue' \in [Commits -> 0 .. runs'] /\ runs' \in 0 .. MaxRuns
  BY <1>7, DeliverTyped DEF Push
<1>9. DeliveryType' /\ CommitsGrow
  BY <1>6, <1>7, <1>8 DEF DeliveryType, CommitsGrow, Commits
<1> QED
  BY <1>9, OutsideKeepsInv DEF Push

LEMMA RedeliverKeepsInv ==
  ASSUME Inv, NEW n \in DOMAIN commits, Redeliver(n)
  PROVE  Inv'
<1>1. queue' \in [Commits -> 0 .. runs'] /\ runs' \in 0 .. MaxRuns
  BY CommitsCounted, DeliverTyped DEF Redeliver
<1>2. DeliveryType' /\ CommitsGrow
  BY <1>1, TypesOfAll DEF Inv, DeliveryType, CommitsGrow, Redeliver
<1> QED
  BY <1>2, OutsideKeepsInv DEF Redeliver

-----------------------------------------------------------------------------
(* The beginning of a run, and its loss                                    *)

LEMMA StartKeepsInv ==
  ASSUME Inv, NEW w \in Workers, Start(w)
  PROVE  Inv'
<1>1. PICK n \in DOMAIN commits :
        /\ queue[n] > 0
        /\ queue' = [queue EXCEPT ![n] = @ - 1]
        /\ \/ /\ run' = [run EXCEPT ![w] =
                   [NoRun EXCEPT !.commit = n, !.labs = Discovered(commits[n])]]
              /\ pc' = [pc EXCEPT ![w] =
                   IF Discovered(commits[n]) = {} THEN "sweep" ELSE "config"]
              /\ quiet' = [quiet EXCEPT ![w] = TRUE]
           \/ /\ run' = [run EXCEPT ![w] = NoRun]
              /\ pc' = [pc EXCEPT ![w] = "idle"]
              /\ UNCHANGED quiet
  BY DEF Start
<1>2. n \in Commits /\ n \in 0 .. (MaxPushes + 1)
  BY CommitsCounted, LabConstants DEF Commits
<1>3. DeliveryType' /\ CommitsGrow
  <2>1. queue \in [Commits -> 0 .. runs] /\ runs \in 0 .. MaxRuns /\ MaxRuns \in Nat
    BY LabConstants, TypesOfAll DEF Inv, DeliveryType
  <2>2. queue' \in [Commits -> 0 .. runs]
    BY <1>1, <1>2, <2>1
  <2> QED
    BY <2>2, TypesOfAll DEF Inv, DeliveryType, CommitsGrow, Start
<1>4. UNCHANGED <<labs, chapters, store>>
  BY DEF Start, database
<1>5. CASE UNCHANGED quiet /\ Moves(w, "idle", NoRun)
  <2>1. "idle" \in Steps /\ NoRun \in Run
    BY EmptyRunTyped DEF Steps, Settled
  <2>2. pc'[w] = "idle"
    BY <1>5 DEF Moves, Inv, TypeOK
  <2>3. Shape(w)'
    BY <2>2 DEF Shape, InLab, HasId, InChapter
  <2> QED
    BY <1>3, <1>4, <1>5, <2>1, <2>3, ReadKeepsInv DEF QuietStep
<1>6. CASE /\ Moves(w, IF Discovered(commits[n]) = {} THEN "sweep" ELSE "config",
                    [NoRun EXCEPT !.commit = n, !.labs = Discovered(commits[n])])
           /\ quiet' = [quiet EXCEPT ![w] = TRUE]
  <2> DEFINE found == Discovered(commits[n])
             step == IF found = {} THEN "sweep" ELSE "config"
             held == [NoRun EXCEPT !.commit = n, !.labs = found]
  <2>1. found \in SUBSET Labs
    BY DEF Discovered
  <2>2. held \in Run
    BY <1>2, <2>1, NoRunTyped
  <2>3. step \in {"sweep", "config"} /\ step \in Steps
    BY DEF Steps, InLab
  <2>4. held.commit = n /\ held.labs = found
    BY DEF NoRun
  <2>5. pc'[w] = step /\ run'[w] = held
    BY <1>6 DEF Moves, Inv, TypeOK
  <2>6. found = Discovered(Tree(w))' /\ run'[w].commit \in DOMAIN commits'
    BY <1>3, <2>4, <2>5 DEF Tree, CommitsGrow, Discovered
  <2>7. step = "config" => found # {}
    OBVIOUS
  <2>8. Moves(w, step, held)
    BY <1>6
  <2> HIDE DEF step, held, found
  <2>9. Shape(w)'
    BY <2>3, <2>4, <2>5, <2>6, <2>7 DEF Shape, InLab, HasId, InChapter
  <2> QED
    BY <1>3, <1>4, <1>6, <2>2, <2>3, <2>8, <2>9, ReadKeepsInv DEF QuietStep
<1> QED
  BY <1>1, <1>5, <1>6 DEF Moves

LEMMA CrashKeepsInv ==
  ASSUME Inv, NEW w \in Workers, Crash(w)
  PROVE  Inv'
<1>1. pc[w] \in InLab \union {"sweep"}
  BY TypesOfAll DEF Inv, WorkersType, Steps, Crash
<1>2. run[w].commit \in Commits
  BY <1>1, CommitsCounted DEF Inv, Shape
<1>3. queue' \in [Commits -> 0 .. runs'] /\ runs' \in 0 .. MaxRuns
  BY <1>2, DeliverTyped DEF Crash
<1>4. DeliveryType' /\ CommitsGrow
  BY <1>3, TypesOfAll DEF Inv, DeliveryType, CommitsGrow, Crash
<1>5. "idle" \in Steps /\ NoRun \in Run
  BY EmptyRunTyped DEF Steps, Settled
<1>6. pc'[w] = "idle"
  BY DEF Crash, Inv, TypeOK
<1>7. Shape(w)'
  BY <1>6 DEF Shape, InLab, HasId, InChapter
<1>8. Moves(w, "idle", NoRun) /\ UNCHANGED <<labs, chapters, store>> /\ QuietStep(w)
  BY DEF Crash, Moves, database, QuietStep
<1> QED
  BY <1>4, <1>5, <1>7, <1>8, ReadKeepsInv

-----------------------------------------------------------------------------
(* The calls before the chapters                                           *)

LEMMA BeforeChapters ==
  ASSUME Inv, NEW w \in Workers, pc[w] \in InLab,
         NEW step \in {"images", "put", "lab", "update", "insert", "states"},
         NEW held \in Run, Moves(w, step, held),
         held.labs = run[w].labs, held.commit = run[w].commit, held.config # Null,
         \/ held.config = run[w].config /\ ConfigCommitted(w)
         \/ ConfigCommitted(w)',
         step = "put" => held.image \in Images,
         step \in {"update", "states"} => held.id \in Ids /\ OwnId(w)',
         CommitsGrow
  PROVE  Shape(w)' /\ step \in Steps
<1>1. pc'[w] = step /\ run'[w] = held
  BY DEF Moves, Inv, TypeOK
<1>2. /\ run'[w].commit \in DOMAIN commits'
      /\ run'[w].labs # {} /\ run'[w].labs \subseteq Discovered(Tree(w))'
      /\ ConfigCommitted(w)'
  BY <1>1, SameLab
<1>3. Shape(w)'
  BY <1>1, <1>2 DEF Shape, InLab, HasId, InChapter
<1> QED
  BY <1>3 DEF Steps, InLab

LEMMA FetchConfigKeepsInv ==
  ASSUME Inv, NEW w \in Workers, FetchConfig(w)
  PROVE  Inv'
<1> DEFINE images == ImagesOf(Dir(w))
           config == head[Lab(w)].config
<1>1. pc[w] \in InLab /\ UNCHANGED <<delivery, database>>
  BY DEF FetchConfig, InLab
<1>2. CASE /\ head[Lab(w)] # Null /\ config # Null
           /\ run' = [run EXCEPT ![w].config = config, ![w].images = images]
           /\ pc' = [pc EXCEPT ![w] = IF images = {} THEN "lab" ELSE "images"]
           /\ UNCHANGED quiet
  <2> DEFINE held == [run[w] EXCEPT !.config = config, !.images = images]
             step == IF images = {} THEN "lab" ELSE "images"
  <2>1. run[w] \in Run /\ Lab(w) \in Labs
    BY <1>1, AtWork
  <2>2. head[Lab(w)] \in Dirs /\ Len(commits) \in DOMAIN commits
    BY <1>2, <2>1, HeadTyped DEF Inv
  <2>3. images \in SUBSET Images
    BY DEF ImagesOf
  <2>4. config \in {Null} \union {dir.config : dir \in Dirs}
    BY <2>2
  <2> HIDE DEF images, config
  <2>5. held \in Run
    BY <2>1, <2>3, <2>4 DEF Run
  <2>6. held.labs = run[w].labs /\ held.commit = run[w].commit /\ held.config = config
    BY <2>1 DEF Run
  <2>7. Moves(w, step, held)
    BY <1>2 DEF Moves, Inv, TypeOK
  <2>8. DeliveryType' /\ CommitsGrow /\ commits' = commits
    BY <1>1, DeliveryRests
  <2>9. ConfigCommitted(w)'
    <3>1. run'[w] = held
      BY <2>7 DEF Moves, Inv, TypeOK
    <3>2. Lab(w)' = Lab(w)
      BY <2>6, <3>1 DEF Lab
    <3>3. /\ commits'[Len(commits)][Lab(w)] # Null
          /\ commits'[Len(commits)][Lab(w)].config = config
      BY <1>2, <2>8 DEF head, config
    <3> QED
      BY <2>2, <2>6, <2>8, <3>1, <3>2, <3>3 DEF ConfigCommitted
  <2>10. step \in {"images", "lab"}
    OBVIOUS
  <2> HIDE DEF step, held
  <2>11. Shape(w)' /\ step \in Steps
    BY <1>1, <1>2, <2>5, <2>6, <2>7, <2>8, <2>9, <2>10, BeforeChapters
  <2> QED
    BY <1>1, <1>2, <2>5, <2>7, <2>8, <2>11, ReadKeepsInv DEF QuietStep, database
<1>3. CASE SkipLab(w)
  BY <1>1, <1>3, SkippedKeepsInv
<1> QED
  BY <1>2, <1>3 DEF FetchConfig

LEMMA HeadImageKeepsInv ==
  ASSUME Inv, NEW w \in Workers, NEW i \in Images, HeadImage(w, i)
  PROVE  Inv'
<1> DEFINE ended == [run[w] EXCEPT !.images = @ \ {i}, !.image = Null]
           sent == [run[w] EXCEPT !.image = i]
           after == IF run[w].images = {i} THEN "lab" ELSE "images"
<1>1. /\ pc[w] \in InLab /\ pc[w] \in InLab \ {"config"}
      /\ UNCHANGED <<delivery, database>>
  BY DEF HeadImage, InLab
<1>2. run[w] \in Run /\ run[w].config # Null /\ ConfigCommitted(w)
  BY <1>1, AtWork, Configured DEF Inv, Shape
<1>3. /\ ended \in Run /\ ended.labs = run[w].labs /\ ended.commit = run[w].commit
      /\ ended.config = run[w].config
  BY <1>2 DEF Run
<1>4. /\ sent \in Run /\ sent.labs = run[w].labs /\ sent.commit = run[w].commit
      /\ sent.config = run[w].config /\ sent.image = i
  BY <1>2 DEF Run
<1>5. DeliveryType' /\ CommitsGrow
  BY <1>1, DeliveryRests
<1>6. after \in {"lab", "images"}
  OBVIOUS
<1>7. \/ Moves(w, after, ended) /\ QuietStep(w)
      \/ Moves(w, "put", sent) /\ QuietStep(w)
  BY DEF HeadImage, EndImage, Moves, QuietStep, Inv, TypeOK
<1> HIDE DEF ended, sent, after
<1>8. CASE Moves(w, after, ended) /\ QuietStep(w)
  <2>1. Shape(w)' /\ after \in Steps
    BY <1>1, <1>2, <1>3, <1>5, <1>6, <1>8, BeforeChapters
  <2> QED
    BY <1>1, <1>3, <1>5, <1>8, <2>1, ReadKeepsInv DEF database
<1>9. CASE Moves(w, "put", sent) /\ QuietStep(w)
  <2>1. Shape(w)' /\ "put" \in Steps
    BY <1>1, <1>2, <1>4, <1>5, <1>9, BeforeChapters
  <2> QED
    BY <1>1, <1>4, <1>5, <1>9, <2>1, ReadKeepsInv DEF database
<1> QED
  BY <1>7, <1>8, <1>9

\* The image that is uploaded.
LEMMA PutImageKeepsInv ==
  ASSUME Inv, NEW w \in Workers, PutImage(w)
  PROVE  Inv'
<1> DEFINE i == run[w].image
           ended == [run[w] EXCEPT !.images = @ \ {i}, !.image = Null]
           after == IF run[w].images = {i} THEN "lab" ELSE "images"
<1>1. /\ pc[w] \in InLab /\ pc[w] \in InLab \ {"config"}
      /\ UNCHANGED <<delivery, labs, chapters>>
  BY DEF PutImage, InLab
<1>2. /\ run[w] \in Run /\ run[w].config # Null /\ ConfigCommitted(w) /\ i \in Images
      /\ Dir(w) \in Dirs /\ Lab(w) \in Labs
  BY <1>1, AtWork, Configured DEF Inv, Shape, PutImage
<1>3. /\ ended \in Run /\ ended.labs = run[w].labs /\ ended.commit = run[w].commit
      /\ ended.config = run[w].config
  BY <1>2 DEF Run
<1>4. DeliveryType' /\ CommitsGrow
  BY <1>1, DeliveryRests
<1>5. after \in {"lab", "images"}
  OBVIOUS
<1>6. Moves(w, after, ended) /\ QuietStep(w)
  BY DEF PutImage, EndImage, Moves, QuietStep, Inv, TypeOK
<1> HIDE DEF ended, after
<1>7. Shape(w)' /\ after \in Steps
  BY <1>1, <1>2, <1>3, <1>4, <1>5, <1>6, BeforeChapters
<1>8. StoreType'
  <2> DEFINE Shas == {Null} \union UNION {{dir.images[j] : j \in Images} : dir \in Dirs}
  <2>1. store \in [Labs -> [Images -> Shas]]
    BY TypesOfAll DEF Inv, StoreType
  <2>2. Dir(w).images[i] \in Shas
    BY <1>2
  <2> HIDE DEF Shas
  <2>3. store' \in [Labs -> [Images -> Shas]]
    BY <1>2, <2>1, <2>2 DEF PutImage
  <2> QED
    BY <2>3 DEF StoreType, Shas
<1>9. LabsType' /\ ChaptersType' /\ OldOrFresh /\ UniqueIds'
  BY <1>1, TypesOfAll DEF Inv, LabsType, ChaptersType, OldOrFresh, UniqueIds
<1> QED
  BY <1>3, <1>4, <1>6, <1>7, <1>8, <1>9, StepKeepsInv

LEMMA ReadLabKeepsInv ==
  ASSUME Inv, NEW w \in Workers, ReadLab(w)
  PROVE  Inv'
<1> DEFINE row == labs[Lab(w)]
           held == [run[w] EXCEPT !.id = row.id]
           step == IF row.meta = run[w].config.meta THEN "states" ELSE "update"
<1>1. /\ pc[w] \in InLab /\ pc[w] \in InLab \ {"config"}
      /\ UNCHANGED <<delivery, database>>
  BY DEF ReadLab, InLab
<1>2. /\ run[w] \in Run /\ run[w].config # Null /\ ConfigCommitted(w) /\ Lab(w) \in Labs
  BY <1>1, AtWork, Configured DEF Inv, Shape
<1>3. DeliveryType' /\ CommitsGrow
  BY <1>1, DeliveryRests
<1>4. CASE Moves(w, "insert", run[w]) /\ UNCHANGED quiet
  <2>1. Shape(w)' /\ "insert" \in Steps
    BY <1>1, <1>2, <1>3, <1>4, BeforeChapters
  <2> QED
    BY <1>1, <1>2, <1>3, <1>4, <2>1, ReadKeepsInv DEF QuietStep, database
<1>5. CASE row # Null /\ Moves(w, step, held) /\ UNCHANGED quiet
  <2>1. row.id \in Ids
    BY <1>2, <1>5, TypesOfAll DEF Inv, LabsType, LabRow
  <2>2. /\ held \in Run /\ held.labs = run[w].labs /\ held.commit = run[w].commit
        /\ held.config = run[w].config /\ held.id = row.id
    BY <1>2, <2>1 DEF Run
  <2>3. step \in {"states", "update"}
    OBVIOUS
  <2>4. run'[w] = held
    BY <1>5 DEF Moves, Inv, TypeOK
  <2>5. Lab(w)' = Lab(w)
    BY <2>2, <2>4 DEF Lab
  <2>6. OwnId(w)'
    BY <1>1, <1>2, <1>5, <2>2, <2>4, <2>5 DEF OwnId, Inv, UniqueIds, database
  <2> HIDE DEF held, step, row
  <2>7. Shape(w)' /\ step \in Steps
    BY <1>1, <1>2, <1>3, <1>5, <2>1, <2>2, <2>3, <2>6, BeforeChapters
  <2> QED
    BY <1>1, <1>3, <1>5, <2>2, <2>7, ReadKeepsInv DEF QuietStep, database
<1>6. CASE SkipLab(w)
  BY <1>1, <1>6, SkippedKeepsInv
<1>7. run' = run => run' = [run EXCEPT ![w] = run[w]]
  BY DEF Inv, TypeOK
<1> QED
  BY <1>4, <1>5, <1>6, <1>7 DEF ReadLab, Moves, Inv, TypeOK

\* A statement on the lab's row, after which the worker goes on with the
\* chapters, or with the next lab when it fails.
LEMMA LabWritten ==
  ASSUME Inv, NEW w \in Workers, pc[w] \in InLab \ {"config"},
         UNCHANGED <<delivery, chapters, store>>,
         LabsType', OldOrFresh, UniqueIds', NEW held \in Run,
         held.labs = run[w].labs, held.commit = run[w].commit,
         held.config = run[w].config, held.id \in Ids,
         \A l \in Labs : labs'[l] # Null /\ labs'[l].id = held.id => l = Lab(w),
         \/ Moves(w, "states", held) /\ WriteBy(w)
         \/ NextLab(w) /\ Interfere
  PROVE  Inv'
<1>1. pc[w] \in InLab /\ run[w].config # Null /\ ConfigCommitted(w)
  BY Configured DEF Inv, Shape
<1>2. DeliveryType' /\ CommitsGrow
  BY DeliveryRests
<1>3. ChaptersType' /\ StoreType'
  BY TypesOfAll DEF Inv, ChaptersType, StoreType
<1>4. CASE Moves(w, "states", held) /\ WriteBy(w)
  <2>1. run'[w] = held
    BY <1>4 DEF Moves, Inv, TypeOK
  <2>2. OwnId(w)'
    BY <2>1 DEF OwnId, Lab
  <2>3. Shape(w)' /\ "states" \in Steps
    BY <1>1, <1>2, <1>4, <2>2, BeforeChapters
  <2> QED
    BY <1>2, <1>3, <1>4, <2>3, StepKeepsInv DEF QuietStep
<1>5. CASE NextLab(w) /\ Interfere
  <2>1. /\ NextHeld(w) \in Run /\ NextCall(w) \in Steps
        /\ Moves(w, NextCall(w), NextHeld(w)) /\ Shape(w)'
    BY <1>1, <1>2, <1>5, LabEnds
  <2> QED
    BY <1>2, <1>3, <1>5, <2>1, StepKeepsInv DEF QuietStep
<1> QED
  BY <1>4, <1>5

LEMMA UpdateLabKeepsInv ==
  ASSUME Inv, NEW w \in Workers, UpdateLab(w)
  PROVE  Inv'
<1> DEFINE row == labs[Lab(w)]
           new == IF row # Null /\ row.id = run[w].id
                  THEN [row EXCEPT !.meta = run[w].config.meta] ELSE row
<1>1. /\ pc[w] \in InLab /\ pc[w] \in InLab \ {"config"} /\ pc[w] \in HasId
      /\ UNCHANGED <<delivery, chapters, store>>
  BY DEF UpdateLab, InLab, HasId
<1>2. /\ run[w] \in Run /\ Lab(w) \in Labs /\ run[w].config.meta \in Metas
      /\ run[w].id \in Ids /\ OwnId(w)
  BY <1>1, AtWork, Configured DEF Inv, Shape
<1>3. CASE UNCHANGED labs /\ SkipLab(w)
  BY <1>1, <1>3, SkippedKeepsInv DEF database
<1>4. CASE /\ labs' = [labs EXCEPT ![Lab(w)] = new]
           /\ \/ Moves(w, "states", run[w]) /\ WriteBy(w)
              \/ NextLab(w) /\ Interfere
  <2>1. labs \in [Labs -> LabRow \union {Null}]
    BY TypesOfAll DEF Inv, LabsType
  <2>2. new \in LabRow \union {Null}
    BY <1>2, <2>1 DEF LabRow
  <2>3. new # Null => row # Null /\ new.id = row.id
    BY <1>2, <2>1 DEF LabRow
  <2> HIDE DEF new
  <2>4. labs' \in [Labs -> LabRow \union {Null}]
    BY <1>2, <1>4, <2>1, <2>2
  <2>5. \A l \in Labs : labs'[l] # Null => labs[l] # Null /\ labs'[l].id = labs[l].id
    BY <1>2, <1>4, <2>1, <2>3
  <2>6. LabsType' /\ OldOrFresh /\ UniqueIds'
    BY <2>4, <2>5 DEF LabsType, OldOrFresh, UniqueIds, Inv
  <2>7. \A l \in Labs : labs'[l] # Null /\ labs'[l].id = run[w].id => l = Lab(w)
    BY <1>2, <2>5 DEF OwnId
  <2> QED
    BY <1>1, <1>2, <1>4, <2>6, <2>7, LabWritten
<1>5. UNCHANGED run => run' = [run EXCEPT ![w] = run[w]]
  BY DEF Inv, TypeOK
<1>6. \/ /\ labs' = [labs EXCEPT ![Lab(w)] = new]
         /\ \/ Moves(w, "states", run[w]) /\ WriteBy(w)
            \/ NextLab(w) /\ Interfere
      \/ UNCHANGED labs /\ SkipLab(w)
  BY <1>5, Zenon DEF UpdateLab, Moves
<1> QED
  BY <1>3, <1>4, <1>6

LEMMA InsertLabKeepsInv ==
  ASSUME Inv, NEW w \in Workers, InsertLab(w)
  PROVE  Inv'
<1> DEFINE new == [id |-> NewId, meta |-> run[w].config.meta]
           held == [run[w] EXCEPT !.id = NewId]
<1>1. /\ pc[w] \in InLab /\ pc[w] \in InLab \ {"config"}
      /\ UNCHANGED <<delivery, chapters, store>>
  BY DEF InsertLab, InLab
<1>2. /\ run[w] \in Run /\ Lab(w) \in Labs /\ run[w].config.meta \in Metas
  BY <1>1, AtWork, Configured
<1>3. CASE UNCHANGED labs /\ SkipLab(w)
  BY <1>1, <1>3, SkippedKeepsInv DEF database
<1>4. CASE /\ labs[Lab(w)] = Null /\ IdsLeft
           /\ labs' = [labs EXCEPT ![Lab(w)] = new]
           /\ \/ Moves(w, "states", held) /\ WriteBy(w)
              \/ NextLab(w) /\ Interfere
  <2>1. NewId \in Fresh /\ NewId \in Ids
    BY <1>4, FreshUnused DEF NewId, IdsLeft
  <2>2. labs \in [Labs -> LabRow \union {Null}]
    BY TypesOfAll DEF Inv, LabsType
  <2>3. new \in LabRow /\ new.id = NewId
    BY <1>2, <2>1 DEF LabRow
  <2>4. /\ held \in Run /\ held.labs = run[w].labs /\ held.commit = run[w].commit
        /\ held.config = run[w].config /\ held.id = NewId
    BY <1>2, <2>1 DEF Run
  <2> HIDE DEF new, held
  <2>5. labs' \in [Labs -> LabRow \union {Null}]
    BY <1>2, <1>4, <2>2, <2>3
  <2>6. labs'[Lab(w)] = new /\ \A l \in Labs \ {Lab(w)} : labs'[l] = labs[l]
    BY <1>2, <1>4, <2>2
  <2>7. OldOrFresh
    BY <2>1, <2>3, <2>6 DEF OldOrFresh
  <2>8. \A l \in Labs \ {Lab(w)} : labs'[l] # Null => labs'[l].id \notin Fresh
    BY <2>6, FreshUnused
  <2>9. UniqueIds'
    BY <2>7, <2>8, IdsStayUnique
  <2>10. \A l \in Labs : labs'[l] # Null /\ labs'[l].id = held.id => l = Lab(w)
    BY <2>1, <2>4, <2>8
  <2>11. LabsType'
    BY <2>5 DEF LabsType
  <2> QED
    BY <1>1, <1>4, <2>1, <2>4, <2>7, <2>9, <2>10, <2>11, LabWritten
<1>5. run' = [run EXCEPT ![w].id = NewId] => run' = [run EXCEPT ![w] = held]
  BY DEF Inv, TypeOK
<1> QED
  BY <1>3, <1>4, <1>5 DEF InsertLab, Moves

-----------------------------------------------------------------------------
(* The chapters                                                            *)

LEMMA ListStatesKeepsInv ==
  ASSUME Inv, NEW w \in Workers, ListStates(w)
  PROVE  Inv'
<1> DEFINE rows == chapters[run[w].id]
           texts == [c \in Chapters |-> IF rows[c] = Null THEN Null ELSE rows[c].text]
           held == [run[w] EXCEPT !.existing = texts]
<1>1. /\ pc[w] \in InLab /\ pc[w] \in InLab \ {"config"} /\ pc[w] \in HasId
      /\ UNCHANGED <<delivery, database>>
  BY DEF ListStates, InLab, HasId
<1>2. run[w] \in Run /\ run[w].id \in Ids /\ OwnId(w)
  BY <1>1, AtWork DEF Inv, Shape
<1>3. DeliveryType' /\ CommitsGrow
  BY <1>1, DeliveryRests
<1>4. CASE FromPosition(w, 1, held) /\ UNCHANGED quiet
  <2>1. rows \in [Chapters -> ChapterRow \union {Null}]
    BY <1>2, TypesOfAll DEF Inv, ChaptersType
  <2>2. texts \in [Chapters -> TextOrNull]
    BY <2>1 DEF TextOrNull, ChapterRow
  <2> HIDE DEF texts
  <2>3. /\ held \in Run /\ held.labs = run[w].labs /\ held.commit = run[w].commit
        /\ held.config = run[w].config /\ held.id = run[w].id
    BY <1>2, <2>2 DEF Run
  <2>4. 1 \in 1 .. (Len(run[w].config.chapters) + 1) /\ 1 .. 1 - 1 = {}
    <3>1. Len(run[w].config.chapters) \in Nat
      BY <1>1, Configured
    <3> QED
      BY <3>1
  <2>5. OldOrFresh
    BY <1>1 DEF OldOrFresh, database
  <2> HIDE DEF held
  <2>6. /\ PositionHeld(1, held) \in Run /\ PositionCall(w, 1) \in Steps
        /\ Moves(w, PositionCall(w, 1), PositionHeld(1, held)) /\ Shape(w)'
    BY <1>1, <1>2, <1>3, <1>4, <2>3, <2>4, <2>5, AtPosition
  <2> QED
    BY <1>1, <1>3, <1>4, <2>6, ReadKeepsInv DEF QuietStep, database
<1>5. CASE SkipLab(w)
  BY <1>1, <1>5, SkippedKeepsInv
<1> QED
  BY <1>4, <1>5 DEF ListStates

LEMMA FetchChapterKeepsInv ==
  ASSUME Inv, NEW w \in Workers, FetchChapter(w)
  PROVE  Inv'
<1> DEFINE c == Chapter(w)
           file == Dir(w).files[c]
           n == run[w].position + 1
           kept == run[w].keep \union (IF Kept(file, TRUE) THEN {c} ELSE {})
<1>1. /\ pc[w] \in InLab /\ pc[w] \in InLab \ {"config"} /\ pc[w] \in InChapter
      /\ UNCHANGED <<delivery, database>>
  BY DEF FetchChapter, InLab, InChapter
<1>2. /\ run[w] \in Run /\ Lab(w) \in Labs /\ Dir(w) \in Dirs
      /\ run[w].position \in Nat /\ run[w].keep \in SUBSET Chapters
  BY <1>1, AtWork DEF Run
<1>3. DeliveryType' /\ CommitsGrow /\ OldOrFresh
  BY <1>1, DeliveryRests DEF OldOrFresh, database
<1>4. /\ c \in Chapters /\ n \in 1 .. (Len(run[w].config.chapters) + 1)
      /\ run[w].position \in DOMAIN run[w].config.chapters
      /\ run[w].id \in Ids /\ OwnId(w)
      /\ \A k \in 1 .. run[w].position - 1 :
           Dir(w).files[run[w].config.chapters[k]] # Null
             => run[w].config.chapters[k] \in run[w].keep
  BY <1>1, InLoop
<1>5. kept \in SUBSET Chapters /\ run[w].keep \subseteq kept
  BY <1>2, <1>4
<1>6. ASSUME NEW keep, run[w].keep \subseteq keep, file # Null => c \in keep
      PROVE  \A k \in 1 .. run[w].position :
               Dir(w).files[run[w].config.chapters[k]] # Null
                 => run[w].config.chapters[k] \in keep
  BY <1>2, <1>4, <1>6 DEF Chapter
<1>7. n - 1 = run[w].position
  BY <1>2
\* The next chapter.
<1>8. ASSUME NEW held \in Run, FromPosition(w, n, held), QuietStep(w),
             held.labs = run[w].labs, held.commit = run[w].commit,
             held.config = run[w].config, held.id = run[w].id,
             run[w].keep \subseteq held.keep, file # Null => c \in held.keep
      PROVE  Inv'
  <2>1. \A k \in 1 .. n - 1 : Dir(w).files[run[w].config.chapters[k]] # Null
           => run[w].config.chapters[k] \in held.keep
    BY <1>6, <1>7, <1>8
  <2> HIDE DEF n
  <2>2. /\ PositionHeld(n, held) \in Run /\ PositionCall(w, n) \in Steps
        /\ Moves(w, PositionCall(w, n), PositionHeld(n, held)) /\ Shape(w)'
    BY <1>1, <1>3, <1>4, <1>8, <2>1, AtPosition
  <2> QED
    BY <1>1, <1>3, <1>8, <2>2, ReadKeepsInv DEF database
<1>9. CASE file = Null /\ Advance(w) /\ UNCHANGED quiet
  BY <1>2, <1>8, <1>9 DEF Advance, QuietStep
<1>10. CASE /\ file # Null
            /\ FromPosition(w, n, [run[w] EXCEPT !.keep = kept])
            /\ Fail(w)
  <2> DEFINE held == [run[w] EXCEPT !.keep = kept]
  <2>1. c \in kept
    BY <1>10 DEF Kept
  <2> HIDE DEF kept
  <2>2. /\ held \in Run /\ held.labs = run[w].labs /\ held.commit = run[w].commit
        /\ held.config = run[w].config /\ held.id = run[w].id /\ held.keep = kept
    BY <1>2, <1>5 DEF Run
  <2> QED
    BY <1>5, <1>8, <1>10, <2>1, <2>2 DEF QuietStep
<1>11. CASE /\ file # Null
            /\ head[Lab(w)] # Null
            /\ head[Lab(w)].files[c] # Null
            /\ run' = [run EXCEPT ![w].keep = kept,
                                  ![w].text = Text(head[Lab(w)].files[c], Dir(w))]
            /\ pc' = [pc EXCEPT ![w] = "find"]
            /\ UNCHANGED quiet
  <2> DEFINE text == Text(head[Lab(w)].files[c], Dir(w))
             held == [run[w] EXCEPT !.keep = kept, !.text = text]
  <2>1. head[Lab(w)] \in Dirs
    BY <1>2, <1>11, HeadTyped DEF Inv
  <2>2. text \in Texts /\ text \in TextOrNull /\ text # Null
    BY <1>2, <1>4, <1>11, <2>1, TextTyped, NullIsNoRow DEF TextOrNull
  <2>3. c \in kept
    BY <1>11 DEF Kept
  <2> HIDE DEF kept, text
  <2>4. /\ held \in Run /\ held.labs = run[w].labs /\ held.commit = run[w].commit
        /\ held.config = run[w].config /\ held.id = run[w].id /\ held.keep = kept
        /\ held.position = run[w].position /\ held.text = text
    BY <1>2, <1>5, <2>2 DEF Run
  <2>5. Moves(w, "find", held)
    BY <1>11 DEF Moves, text, Inv, TypeOK
  <2> HIDE DEF held
  <2>6. pc'[w] = "find" /\ run'[w] = held
    BY <2>5 DEF Moves, Inv, TypeOK
  <2>7. /\ Lab(w)' = Lab(w) /\ Dir(w)' = Dir(w)
        /\ run'[w].commit \in DOMAIN commits'
        /\ run'[w].labs # {} /\ run'[w].labs \subseteq Discovered(Tree(w))'
        /\ run'[w].config # Null /\ ConfigCommitted(w)'
    BY <1>1, <1>3, <2>4, <2>6, SameLab, Configured DEF Inv, Shape
  <2>8. OwnId(w)'
    BY <1>1, <1>4, <2>4, <2>6, <2>7 DEF OwnId, database
  <2>9. KeepsPassed(w)'
    <3>1. Passed(w)' = 1 .. run[w].position
      BY <2>4, <2>6 DEF Passed
    <3>2. \A k \in 1 .. run[w].position :
            Dir(w).files[run[w].config.chapters[k]] # Null
              => run[w].config.chapters[k] \in kept
      BY <1>5, <1>6, <2>3
    <3> QED
      BY <2>4, <2>6, <2>7, <3>1, <3>2 DEF KeepsPassed
  <2>10. run'[w].position \in 1 .. Len(run'[w].config.chapters)
    BY <1>1, <2>4, <2>6 DEF Inv, Shape
  <2>11. Shape(w)'
    BY <1>4, <2>2, <2>4, <2>6, <2>7, <2>8, <2>9, <2>10
    DEF Shape, InLab, HasId, InChapter
  <2> QED
    BY <1>1, <1>3, <1>11, <2>4, <2>5, <2>11, ReadKeepsInv
    DEF QuietStep, Steps, InLab, database
<1>12. Kept(file, FALSE) = Kept(file, TRUE)
  BY DEF Kept
<1> QED
  BY <1>9, <1>10, <1>11, <1>12 DEF FetchChapter

LEMMA FindChapterKeepsInv ==
  ASSUME Inv, NEW w \in Workers, FindChapter(w)
  PROVE  Inv'
<1> DEFINE row == chapters[run[w].id][Chapter(w)]
           found == IF row = Null THEN Null ELSE row.id
           held == [run[w] EXCEPT !.found = found]
<1>1. /\ pc[w] \in InLab /\ pc[w] \in InLab \ {"config"} /\ pc[w] \in InChapter
      /\ pc[w] = "find" /\ UNCHANGED <<delivery, database>>
  BY DEF FindChapter, InLab, InChapter
<1>2. run[w] \in Run /\ run[w].id \in Ids /\ OwnId(w) /\ Chapter(w) \in Chapters
  BY <1>1, AtWork, InLoop
<1>3. DeliveryType' /\ CommitsGrow /\ OldOrFresh
  BY <1>1, DeliveryRests DEF OldOrFresh, database
<1>4. CASE Moves(w, "write", held) /\ UNCHANGED quiet
  <2>1. row \in ChapterRow \union {Null}
    BY <1>2, TypesOfAll DEF Inv, ChaptersType
  <2>2. found \in Ids \union {Null}
    BY <2>1 DEF ChapterRow
  <2> HIDE DEF found
  <2>3. /\ held \in Run /\ held.labs = run[w].labs /\ held.commit = run[w].commit
        /\ held.config = run[w].config /\ held.id = run[w].id
        /\ held.keep = run[w].keep /\ held.position = run[w].position
        /\ held.text = run[w].text
    BY <1>2, <2>2 DEF Run
  <2> HIDE DEF held
  <2>4. pc'[w] = "write" /\ run'[w] = held
    BY <1>4 DEF Moves, Inv, TypeOK
  <2>5. /\ Lab(w)' = Lab(w) /\ Dir(w)' = Dir(w)
        /\ run'[w].commit \in DOMAIN commits'
        /\ run'[w].labs # {} /\ run'[w].labs \subseteq Discovered(Tree(w))'
        /\ run'[w].config # Null /\ ConfigCommitted(w)'
    BY <1>1, <1>3, <2>3, <2>4, SameLab, Configured DEF Inv, Shape
  <2>6. OwnId(w)'
    BY <1>1, <1>2, <2>3, <2>4, <2>5 DEF OwnId, database
  <2>7. KeepsPassed(w)'
    <3>1. KeepsPassed(w) /\ Passed(w)' = Passed(w)
      BY <1>1, <2>3, <2>4 DEF Passed, Inv, Shape
    <3> QED
      BY <2>3, <2>4, <2>5, <3>1 DEF KeepsPassed
  <2>8. /\ run'[w].position \in 1 .. Len(run'[w].config.chapters)
        /\ run'[w].text # Null
    BY <1>1, <2>3, <2>4 DEF Inv, Shape
  <2>9. Shape(w)'
    BY <1>2, <2>3, <2>4, <2>5, <2>6, <2>7, <2>8 DEF Shape, InLab, HasId, InChapter
  <2> QED
    BY <1>1, <1>3, <1>4, <2>3, <2>9, ReadKeepsInv
    DEF QuietStep, Steps, InLab, database
<1>5. CASE Advance(w) /\ Fail(w)
  <2>1. PICK step \in Steps, next \in Run : Moves(w, step, next) /\ Shape(w)'
    BY <1>1, <1>3, <1>5, Advances
  <2> QED
    BY <1>1, <1>3, <1>5, <2>1, ReadKeepsInv DEF QuietStep, database
<1>6. run' = [run EXCEPT ![w].found = found] => run' = [run EXCEPT ![w] = held]
  BY DEF Inv, TypeOK
<1> QED
  BY <1>4, <1>5, <1>6 DEF FindChapter, Moves

\* The row that is written is a row.
LEMMA RowWritten ==
  ASSUME Inv, NEW w \in Workers, WriteChapter(w)
  PROVE  /\ pc[w] = "write" /\ run[w].id \in Ids /\ Chapter(w) \in Chapters
         /\ \/ UNCHANGED chapters
            \/ \E value \in ChapterRow :
                 chapters' = [chapters EXCEPT ![run[w].id][Chapter(w)] = value]
<1> DEFINE c == Chapter(w)
           id == run[w].id
           row == chapters[id][c]
           html == IF NeedsHtml(run[w].existing[c], run[w].text)
                   THEN run[w].text ELSE Null
           position == Position(run[w].position)
           updated == [row EXCEPT !.text = run[w].text, !.position = position,
                                  !.html = IF html # Null THEN html ELSE @]
           new == [id |-> NewId, text |-> run[w].text, html |-> html,
                   position |-> position]
<1>1. pc[w] = "write" /\ pc[w] \in InLab /\ pc[w] \in InChapter
  BY DEF WriteChapter, InLab, InChapter
<1>2. /\ run[w] \in Run /\ id \in Ids /\ c \in Chapters /\ position \in Positions
      /\ run[w].text # Null
  BY <1>1, AtWork, InLoop DEF Inv, Shape
<1>3. run[w].text \in Texts /\ html \in TextOrNull
  BY <1>2 DEF Run, TextOrNull
<1>4. row \in ChapterRow \union {Null}
  BY <1>2, TypesOfAll DEF Inv, ChaptersType
<1>5. row # Null => updated \in ChapterRow
  BY <1>2, <1>3, <1>4 DEF ChapterRow
<1>6. IdsLeft => new \in ChapterRow
  <2>1. IdsLeft => NewId \in Ids
    BY FreshUnused DEF IdsLeft, NewId
  <2> QED
    BY <1>2, <1>3, <2>1 DEF ChapterRow
<1>7. \/ UNCHANGED chapters
      \/ row # Null /\ chapters' = [chapters EXCEPT ![id][c] = updated]
      \/ IdsLeft /\ chapters' = [chapters EXCEPT ![id][c] = new]
  BY Zenon DEF WriteChapter
<1> HIDE DEF updated, new
<1> QED
  BY <1>1, <1>2, <1>5, <1>6, <1>7

LEMMA WriteChapterKeepsInv ==
  ASSUME Inv, NEW w \in Workers, WriteChapter(w)
  PROVE  Inv'
<1> DEFINE c == Chapter(w)
           id == run[w].id
           Rows == [Chapters -> ChapterRow \union {Null}]
<1>1. /\ pc[w] \in {"find", "write"} /\ id \in Ids /\ c \in Chapters
      /\ UNCHANGED <<delivery, labs, store>>
  BY RowWritten DEF WriteChapter
<1>2. /\ DeliveryType' /\ CommitsGrow /\ OldOrFresh
      /\ LabsType' /\ StoreType' /\ UniqueIds'
  BY <1>1, DeliveryRests, TypesOfAll
  DEF OldOrFresh, LabsType, StoreType, UniqueIds, Inv
<1>3. chapters \in [Ids -> Rows]
  BY TypesOfAll DEF Inv, ChaptersType
<1>4. ASSUME NEW value \in ChapterRow,
             chapters' = [chapters EXCEPT ![id][c] = value]
      PROVE  chapters' \in [Ids -> Rows]
  <2>1. [chapters[id] EXCEPT ![c] = value] \in Rows
    BY <1>1, <1>3
  <2>2. chapters' = [chapters EXCEPT ![id] = [chapters[id] EXCEPT ![c] = value]]
    BY <1>4
  <2> HIDE DEF Rows
  <2> QED
    BY <1>1, <1>3, <2>1, <2>2
<1>5. chapters' \in [Ids -> Rows]
  BY <1>3, <1>4, RowWritten
<1>6. ChaptersType'
  BY <1>5 DEF ChaptersType
<1>7. QuietStep(w) /\ Advance(w)
  BY DEF WriteChapter, QuietStep
<1>8. PICK step \in Steps, held \in Run : Moves(w, step, held) /\ Shape(w)'
  BY <1>1, <1>2, <1>7, Advances
<1> QED
  BY <1>2, <1>6, <1>7, <1>8, StepKeepsInv

LEMMA PruneKeepsInv ==
  ASSUME Inv, NEW w \in Workers, Prune(w)
  PROVE  Inv'
<1> DEFINE id == run[w].id
           kept == [c \in Chapters |-> IF c \in run[w].keep THEN chapters[id][c] ELSE Null]
           Rows == [Chapters -> ChapterRow \union {Null}]
<1>1. /\ pc[w] \in InLab /\ pc[w] \in HasId /\ UNCHANGED <<delivery, labs, store>>
  BY DEF Prune, InLab, HasId
<1>2. run[w].id \in Ids
  BY <1>1 DEF Inv, Shape
<1>3. /\ DeliveryType' /\ CommitsGrow /\ OldOrFresh
      /\ LabsType' /\ StoreType' /\ UniqueIds'
  BY <1>1, DeliveryRests, TypesOfAll
  DEF OldOrFresh, LabsType, StoreType, UniqueIds, Inv
<1>4. chapters \in [Ids -> Rows]
  BY TypesOfAll DEF Inv, ChaptersType
<1>5. kept \in Rows
  BY <1>2, <1>4
<1>6. UNCHANGED chapters \/ chapters' = [chapters EXCEPT ![id] = kept]
  BY DEF Prune
<1> HIDE DEF kept, Rows
<1>7. chapters' \in [Ids -> Rows]
  BY <1>2, <1>4, <1>5, <1>6
<1>8. ChaptersType'
  BY <1>7 DEF ChaptersType, Rows
<1>9. QuietStep(w)
  BY DEF Prune, QuietStep
<1>10. /\ NextHeld(w) \in Run /\ NextCall(w) \in Steps
       /\ Moves(w, NextCall(w), NextHeld(w)) /\ Shape(w)'
  BY <1>1, <1>3, LabEnds DEF Prune
<1> QED
  BY <1>3, <1>8, <1>9, <1>10, StepKeepsInv

LEMMA SweepKeepsInv ==
  ASSUME Inv, NEW w \in Workers, Sweep(w)
  PROVE  Inv'
<1> DEFINE gone == Gone(Tree(w))
<1>1. UNCHANGED <<delivery, store, run>>
  BY DEF Sweep
<1>2. DeliveryType' /\ CommitsGrow /\ StoreType'
  BY <1>1, DeliveryRests, TypesOfAll DEF StoreType, Inv
<1>3. \/ /\ labs' = [l \in Labs |-> IF l \in gone THEN Null ELSE labs[l]]
         /\ chapters' = DeletedChapters(gone)
      \/ UNCHANGED <<labs, chapters>>
  BY DEF Sweep
<1>4. labs \in [Labs -> LabRow \union {Null}]
  BY TypesOfAll DEF Inv, LabsType
<1>5. labs' \in [Labs -> LabRow \union {Null}]
  BY <1>3, <1>4
<1>6. \A l \in Labs : labs'[l] # Null => labs'[l] = labs[l]
  BY <1>3
<1>7. LabsType' /\ OldOrFresh /\ UniqueIds'
  BY <1>5, <1>6 DEF LabsType, OldOrFresh, UniqueIds, Inv
<1>8. ChaptersType'
  <2> DEFINE Rows == [Chapters -> ChapterRow \union {Null}]
  <2>1. chapters \in [Ids -> Rows]
    BY TypesOfAll DEF Inv, ChaptersType
  <2>2. NoChapters \in Rows
    BY DEF NoChapters
  <2> HIDE DEF Rows
  <2>3. DeletedChapters(gone) \in [Ids -> Rows]
    BY <2>1, <2>2 DEF DeletedChapters
  <2>4. chapters' \in [Ids -> Rows]
    BY <1>3, <2>1, <2>3
  <2> QED
    BY <2>4 DEF ChaptersType, Rows
<1>9. run[w] \in Run /\ "done" \in Steps /\ Moves(w, "done", run[w])
  BY DEF Sweep, Moves, Steps, Settled, Inv, TypeOK
<1>10. pc'[w] = "done"
  BY DEF Sweep, Inv, TypeOK
<1>11. Shape(w)'
  BY <1>10 DEF Shape, InLab, HasId, InChapter
<1>12. QuietStep(w)
  BY DEF Sweep, QuietStep
<1> QED
  BY <1>2, <1>7, <1>8, <1>9, <1>11, <1>12, StepKeepsInv

-----------------------------------------------------------------------------
(* Every step                                                              *)

LEMMA WorkerKeepsInv ==
  ASSUME Inv, NEW w \in Workers,
         Start(w) \/ LabStep(w) \/ ChapterStep(w) \/ Sweep(w) \/ Crash(w)
  PROVE  Inv'
BY StartKeepsInv, FetchConfigKeepsInv, ReadLabKeepsInv, UpdateLabKeepsInv,
   InsertLabKeepsInv, ListStatesKeepsInv, PruneKeepsInv, HeadImageKeepsInv,
   PutImageKeepsInv, FetchChapterKeepsInv, FindChapterKeepsInv,
   WriteChapterKeepsInv, SweepKeepsInv, CrashKeepsInv
DEF LabStep, ChapterStep

LEMMA StutterKeepsInv ==
  ASSUME Inv, UNCHANGED vars
  PROVE  Inv'
<1>1. UNCHANGED <<delivery, database, pc, run, quiet>>
  BY DEF vars
<1>2. DeliveryType' /\ CommitsGrow
  BY <1>1, DeliveryRests
<1> QED
  BY <1>1, <1>2, OutsideKeepsInv

LEMMA InitIsInv == Init => Inv
<1> SUFFICES ASSUME Init PROVE Inv
  OBVIOUS
<1>1. PICK first \in [Labs -> Dirs \union {Null}] : commits = <<first>>
  BY DEF Init
<1>2. commits \in Seq([Labs -> Dirs \union {Null}]) /\ Len(commits) = 1
  BY <1>1
<1>3. 1 \in Commits /\ runs = 1 /\ 1 \in 0 .. MaxRuns
  BY LabConstants DEF Commits, Init
<1>4. queue \in [Commits -> 0 .. runs]
  BY <1>3 DEF Init
<1>5. DeliveryType
  BY <1>2, <1>3, <1>4 DEF DeliveryType
<1>6. LabsType /\ StoreType
  BY DEF Init, LabsType, StoreType
<1>7. ChaptersType
  BY DEF Init, ChaptersType, NoChapters
<1>8. WorkersType
  BY EmptyRunTyped DEF Init, WorkersType, Steps, Settled
<1>9. UniqueIds
  BY DEF Init, UniqueIds
<1>10. \A w \in Workers : Shape(w)
  BY DEF Init, Shape, InLab, HasId, InChapter
<1> QED
  BY <1>5, <1>6, <1>7, <1>8, <1>9, <1>10, TypesOfAll DEF Inv

\* Whatever the workers do and however they are interrupted, what each holds
\* fits the commit it works on, and no two labs share an id.
THEOREM InvHolds == Spec => []Inv
<1>1. Inv /\ [Next]_vars => Inv'
  BY PushKeepsInv, RedeliverKeepsInv, WorkerKeepsInv, StutterKeepsInv DEF Next
<1> QED
  BY InitIsInv, <1>1, PTL DEF Spec

\* Rows, deliveries and what the workers hold have their types
\* (webhooks.rs:873-1100, labs.rs).
THEOREM LabTypeCorrect == Spec => []TypeOK
<1>1. Inv => TypeOK
  BY DEF Inv
<1> QED
  BY InvHolds, <1>1, PTL

-----------------------------------------------------------------------------
(* A failure deletes nothing.                                              *)

Deletes(l, c) ==
  /\ labs[l] # Null
  /\ chapters[labs[l].id][c] # Null
  /\ labs'[l] = Null \/ chapters'[labs[l].id][c] = Null
SomeCommitHasNoUse(l, c) == \E n \in DOMAIN commits : Unneeded(l, c, commits[n][l])

\* Rows that are written are rows.
LEMMA UpdateDeletesNothing ==
  ASSUME Inv, NEW w \in Workers, UpdateLab(w) \/ InsertLab(w),
         NEW l \in Labs, NEW c \in Chapters
  PROVE  ~Deletes(l, c)
<1>1. labs \in [Labs -> LabRow \union {Null}] /\ UNCHANGED chapters
  BY TypesOfAll DEF Inv, LabsType, UpdateLab, InsertLab
<1>2. pc[w] \in InLab \ {"config"} /\ pc[w] \in InLab
  BY DEF UpdateLab, InsertLab, InLab
<1>3. run[w].config.meta \in Metas /\ Lab(w) \in Labs
  BY <1>2, Configured, AtWork
<1>4. ASSUME labs[l] # Null
      PROVE  labs'[l] # Null
  <2>1. CASE UpdateLab(w)
    <3>1. [labs[Lab(w)] EXCEPT !.meta = run[w].config.meta] \in LabRow
            \/ labs[Lab(w)] = Null
      BY <1>1, <1>3 DEF LabRow
    <3> QED
      BY <1>1, <1>3, <1>4, <2>1, <3>1, NullIsNoRow DEF UpdateLab
  <2>2. CASE InsertLab(w)
    BY <1>1, <1>4, <2>2 DEF InsertLab
  <2> QED
    BY <2>1, <2>2
<1> QED
  BY <1>1, <1>4 DEF Deletes

LEMMA WriteDeletesNothing ==
  ASSUME Inv, NEW w \in Workers, WriteChapter(w),
         NEW l \in Labs, NEW c \in Chapters
  PROVE  ~Deletes(l, c)
<1>1. UNCHANGED labs
  BY DEF WriteChapter
<1>2. chapters \in [Ids -> [Chapters -> ChapterRow \union {Null}]]
  BY TypesOfAll DEF Inv, ChaptersType
<1>3. ASSUME NEW id \in Ids, chapters[id][c] # Null
      PROVE  chapters'[id][c] # Null
  <2>1. CASE UNCHANGED chapters
    BY <1>3, <2>1
  <2>2. ASSUME NEW of \in Ids, NEW at \in Chapters, NEW value \in ChapterRow,
               chapters' = [chapters EXCEPT ![of][at] = value]
        PROVE  chapters'[id][c] # Null
    <3>1. value # Null
      BY NullIsNoRow
    <3> QED
      BY <1>2, <1>3, <2>2, <3>1
  <2>3. \/ UNCHANGED chapters
        \/ \E value \in ChapterRow :
             chapters' = [chapters EXCEPT ![run[w].id][Chapter(w)] = value]
    BY RowWritten
  <2>4. run[w].id \in Ids /\ Chapter(w) \in Chapters
    BY RowWritten
  <2>5. CASE \E value \in ChapterRow :
               chapters' = [chapters EXCEPT ![run[w].id][Chapter(w)] = value]
    <3>1. PICK value \in ChapterRow :
            chapters' = [chapters EXCEPT ![run[w].id][Chapter(w)] = value]
      BY <2>5
    <3> QED
      BY <2>2, <2>4, <3>1
  <2> QED
    BY <2>1, <2>3, <2>5
<1>4. labs[l] # Null => labs[l].id \in Ids
  BY TypesOfAll DEF Inv, LabsType, LabRow
<1> QED
  BY <1>1, <1>3, <1>4 DEF Deletes

\* When a lab is pruned every chapter of its configuration has been passed,
\* and kept if its file is in the tree.
LEMMA PruneHasReason ==
  ASSUME Inv, NEW w \in Workers, Prune(w),
         NEW l \in Labs, NEW c \in Chapters, Deletes(l, c)
  PROVE  SomeCommitHasNoUse(l, c)
<1>1. /\ pc[w] = "prune" /\ pc[w] \in InLab /\ pc[w] \in InLab \ {"config"}
      /\ pc[w] \in HasId /\ UNCHANGED labs
  BY DEF Prune, InLab, HasId
<1>2. /\ run[w].position = Len(run[w].config.chapters) + 1
      /\ KeepsPassed(w) /\ OwnId(w) /\ ConfigCommitted(w)
  BY <1>1 DEF Inv, Shape
<1>3. /\ run[w].commit \in DOMAIN commits /\ run[w].config # Null
      /\ run[w].config.chapters \in Seq(Chapters)
  BY <1>1, AtWork, Configured
<1>4. chapters \in [Ids -> [Chapters -> ChapterRow \union {Null}]]
      /\ labs[l].id \in Ids
  BY TypesOfAll DEF Inv, ChaptersType, LabsType, LabRow, Deletes
<1>5. labs[l].id = run[w].id /\ c \notin run[w].keep
  BY <1>1, <1>4 DEF Prune, Deletes
<1>6. l = Lab(w)
  BY <1>2, <1>5 DEF OwnId, Deletes
<1>7. CASE c \in Elements(run[w].config.chapters)
  <2>1. PICK n \in DOMAIN run[w].config.chapters : c = run[w].config.chapters[n]
    BY <1>7 DEF Elements
  <2>2. n \in Passed(w)
    <3>1. Len(run[w].config.chapters) \in Nat
          /\ DOMAIN run[w].config.chapters = 1 .. Len(run[w].config.chapters)
      BY <1>3
    <3>2. Passed(w) = 1 .. (run[w].position - 1)
      BY <1>1 DEF Passed
    <3> QED
      BY <1>2, <2>1, <3>1, <3>2
  <2>3. Dir(w).files[c] = Null
    BY <1>2, <1>5, <2>1, <2>2 DEF KeepsPassed
  <2> QED
    BY <1>3, <1>6, <2>3 DEF SomeCommitHasNoUse, Unneeded, Dir, Tree
<1>8. CASE c \notin Elements(run[w].config.chapters)
  <2>1. PICK n \in DOMAIN commits : /\ commits[n][l] # Null
                                    /\ commits[n][l].config = run[w].config
    BY <1>2, <1>6 DEF ConfigCommitted
  <2> QED
    BY <1>3, <1>8, <2>1 DEF SomeCommitHasNoUse, Unneeded
<1> QED
  BY <1>7, <1>8

\* What is swept belongs to a lab that is not in the tree.
LEMMA SweepHasReason ==
  ASSUME Inv, NEW w \in Workers, Sweep(w),
         NEW l \in Labs, NEW c \in Chapters, Deletes(l, c)
  PROVE  SomeCommitHasNoUse(l, c)
<1>1. run[w].commit \in DOMAIN commits
  BY DEF Sweep, Inv, Shape
<1>2. /\ labs' = [k \in Labs |-> IF k \in Gone(Tree(w)) THEN Null ELSE labs[k]]
      /\ chapters' = DeletedChapters(Gone(Tree(w)))
  BY DEF Sweep, Deletes
<1>3. labs[l].id \in Ids
  BY TypesOfAll DEF Inv, LabsType, LabRow, Deletes
<1>4. l \in Gone(Tree(w))
  <2>1. CASE labs'[l] = Null
    BY <1>2, <2>1 DEF Deletes
  <2>2. CASE chapters'[labs[l].id][c] = Null
    <3>1. PICK k \in Gone(Tree(w)) : labs[k] # Null /\ labs[k].id = labs[l].id
      BY <1>2, <1>3, <2>2 DEF DeletedChapters, Deletes
    <3>2. k \in Labs /\ k = l
      BY <3>1 DEF Gone, Inv, UniqueIds, Deletes
    <3> QED
      BY <3>1, <3>2
  <2> QED
    BY <2>1, <2>2 DEF Deletes
<1>5. Tree(w)[l] = Null
  BY <1>4 DEF Gone, Discovered
<1> QED
  BY <1>1, <1>5 DEF SomeCommitHasNoUse, Unneeded, Tree

LEMMA StepHasReason ==
  ASSUME Inv, [Next]_vars, NEW l \in Labs, NEW c \in Chapters, Deletes(l, c)
  PROVE  SomeCommitHasNoUse(l, c)
<1>1. ~ UNCHANGED <<labs, chapters>>
  BY DEF Deletes
<1>2. PICK w \in Workers :
        UpdateLab(w) \/ InsertLab(w) \/ WriteChapter(w) \/ Prune(w) \/ Sweep(w)
  <2>1. ASSUME NEW w \in Workers,
               \/ Start(w) \/ FetchConfig(w) \/ ReadLab(w) \/ ListStates(w)
               \/ (\E i \in Images : HeadImage(w, i)) \/ PutImage(w)
               \/ FetchChapter(w) \/ FindChapter(w) \/ Crash(w)
        PROVE  UNCHANGED <<labs, chapters>>
    BY <2>1 DEF Start, FetchConfig, ReadLab, ListStates, HeadImage, PutImage,
                FetchChapter, FindChapter, Crash, database
  <2>2. ASSUME \/ \E k \in Labs : Push(k)
               \/ \E n \in DOMAIN commits : Redeliver(n)
               \/ UNCHANGED vars
        PROVE  UNCHANGED <<labs, chapters>>
    BY <2>2 DEF Push, Redeliver, vars, database
  <2> QED
    BY <1>1, <2>1, <2>2 DEF Next, LabStep, ChapterStep
<1> QED
  BY <1>2, UpdateDeletesNothing, WriteDeletesNothing, PruneHasReason, SweepHasReason

\* A chapter disappears only when some commit had no use for it, whatever
\* fails, whoever else writes and however deliveries arrive
\* (webhooks.rs:1021-1025).
THEOREM FailureDeletesNothingHolds == Spec => FailureDeletesNothing
<1> DEFINE Reason ==
      \A l \in Labs, c \in Chapters : Deletes(l, c) => SomeCommitHasNoUse(l, c)
<1>1. Inv /\ [Next]_vars => Reason
  BY StepHasReason
<1>2. Reason <=>
        \A l \in Labs, c \in Chapters :
          /\ labs[l] # Null
          /\ chapters[labs[l].id][c] # Null
          /\ labs'[l] = Null \/ chapters'[labs[l].id][c] = Null
          => \E n \in DOMAIN commits : Unneeded(l, c, commits[n][l])
  BY DEF Deletes, SomeCommitHasNoUse
<1> QED
  BY InvHolds, <1>1, <1>2, PTL DEF Spec, FailureDeletesNothing

-----------------------------------------------------------------------------
(* One delivery at a time leaves no orphans.                               *)

OneWorker == \A v, w \in Workers : v = w

\* The row of the lab a worker is on is there, with the id it holds.
AtOwnRow(w) ==
  pc[w] \in HasId => labs[Lab(w)] # Null /\ labs[Lab(w)].id = run[w].id

SoloInv == NoOrphans /\ \A w \in Workers : AtOwnRow(w)

LEMMA OwnRowStays ==
  ASSUME Inv, NEW w \in Workers, AtOwnRow(w),
         ListStates(w) \/ FetchChapter(w) \/ FindChapter(w) \/ WriteChapter(w)
  PROVE  AtOwnRow(w)'
<1>1. pc[w] \in HasId /\ UNCHANGED labs
  BY DEF ListStates, FetchChapter, FindChapter, WriteChapter, HasId, database
<1>2. pc \in [Workers -> Steps] /\ run \in [Workers -> Run] /\ run[w] \in Run
  BY TypesOfAll DEF Inv, WorkersType
<1>3. ASSUME SkipLab(w)
      PROVE  pc'[w] \notin HasId
  BY <1>2, <1>3 DEF SkipLab, NextLab, HasId
<1>4. ASSUME NEW n, NEW held, FromPosition(w, n, held),
             {"labs", "id"} \subseteq DOMAIN held,
             held.labs = run[w].labs, held.id = run[w].id
      PROVE  run'[w].labs = run[w].labs /\ run'[w].id = run[w].id
  <2>1. run'[w] = [held EXCEPT !.position = n, !.text = Null, !.found = Null]
    BY <1>2, <1>4 DEF FromPosition
  <2> QED
    BY <1>4, <2>1
<1>5. Advance(w) => run'[w].labs = run[w].labs /\ run'[w].id = run[w].id
  BY <1>2, <1>4 DEF Advance, Run
<1>6. \/ pc'[w] \notin HasId
      \/ run'[w].labs = run[w].labs /\ run'[w].id = run[w].id
  <2>1. CASE ListStates(w)
    <3>1. \/ SkipLab(w)
          \/ \E texts : FromPosition(w, 1, [run[w] EXCEPT !.existing = texts])
      BY <2>1 DEF ListStates
    <3>2. ASSUME NEW texts, FromPosition(w, 1, [run[w] EXCEPT !.existing = texts])
          PROVE  run'[w].labs = run[w].labs /\ run'[w].id = run[w].id
      <4> DEFINE held == [run[w] EXCEPT !.existing = texts]
      <4>1. /\ {"labs", "id"} \subseteq DOMAIN held
            /\ held.labs = run[w].labs /\ held.id = run[w].id
        BY <1>2 DEF Run
      <4> HIDE DEF held
      <4> QED
        BY <1>4, <3>2, <4>1 DEF held
    <3> QED
      BY <1>3, <3>1, <3>2
  <2>2. CASE FetchChapter(w)
    <3>1. \/ Advance(w)
          \/ \E keep, text : run' = [run EXCEPT ![w].keep = keep, ![w].text = text]
          \/ \E keep : FromPosition(w, run[w].position + 1,
                                    [run[w] EXCEPT !.keep = keep])
      BY <2>2 DEF FetchChapter
    <3>2. ASSUME NEW keep, FromPosition(w, run[w].position + 1,
                                        [run[w] EXCEPT !.keep = keep])
          PROVE  run'[w].labs = run[w].labs /\ run'[w].id = run[w].id
      <4> DEFINE held == [run[w] EXCEPT !.keep = keep]
      <4>1. /\ {"labs", "id"} \subseteq DOMAIN held
            /\ held.labs = run[w].labs /\ held.id = run[w].id
        BY <1>2 DEF Run
      <4> HIDE DEF held
      <4> QED
        BY <1>4, <3>2, <4>1 DEF held
    <3>3. ASSUME NEW keep, NEW text,
                 run' = [run EXCEPT ![w].keep = keep, ![w].text = text]
          PROVE  run'[w].labs = run[w].labs /\ run'[w].id = run[w].id
      BY <1>2, <3>3 DEF Run
    <3> QED
      BY <1>5, <3>1, <3>2, <3>3
  <2>3. CASE FindChapter(w)
    BY <1>2, <1>5, <2>3 DEF FindChapter, Run
  <2>4. CASE WriteChapter(w)
    BY <1>5, <2>4 DEF WriteChapter
  <2> QED
    BY <2>1, <2>2, <2>3, <2>4
<1> QED
  BY <1>1, <1>6 DEF AtOwnRow, Lab

LEMMA OwnRowFound ==
  ASSUME Inv, NEW w \in Workers, AtOwnRow(w),
         ReadLab(w) \/ UpdateLab(w) \/ InsertLab(w)
  PROVE  AtOwnRow(w)'
<1>1. pc[w] \in InLab /\ pc[w] \in InLab \ {"config"}
  BY DEF ReadLab, UpdateLab, InsertLab, InLab
<1>2. /\ pc \in [Workers -> Steps] /\ run \in [Workers -> Run] /\ run[w] \in Run
      /\ labs \in [Labs -> LabRow \union {Null}]
  BY TypesOfAll DEF Inv, WorkersType, LabsType
<1>3. Lab(w) \in Labs /\ run[w].config.meta \in Metas
  BY <1>1, AtWork, Configured
<1>4. ASSUME NextLab(w)
      PROVE  pc'[w] \notin HasId
  BY <1>2, <1>4 DEF NextLab, HasId
<1>5. run'[w].labs = run[w].labs => Lab(w)' = Lab(w)
  BY DEF Lab
<1>6. CASE ReadLab(w)
  <2>1. \/ pc'[w] \notin HasId
        \/ /\ labs[Lab(w)] # Null
           /\ run'[w].labs = run[w].labs /\ run'[w].id = labs[Lab(w)].id
    BY <1>2, <1>4, <1>6 DEF ReadLab, SkipLab, Run, HasId
  <2> QED
    BY <1>5, <1>6, <2>1 DEF AtOwnRow, ReadLab, database
<1>7. CASE UpdateLab(w)
  <2>1. pc[w] \in HasId
    BY <1>7 DEF UpdateLab, HasId
  <2>2. labs[Lab(w)] # Null /\ labs[Lab(w)].id = run[w].id
    BY <2>1 DEF AtOwnRow
  <2>3. \/ pc'[w] \notin HasId
        \/ UNCHANGED run
           /\ labs' = [labs EXCEPT ![Lab(w)] =
                [labs[Lab(w)] EXCEPT !.meta = run[w].config.meta]]
    BY <1>4, <1>7, <2>2 DEF UpdateLab, SkipLab
  <2>4. [labs[Lab(w)] EXCEPT !.meta = run[w].config.meta] # Null
    <3>1. [labs[Lab(w)] EXCEPT !.meta = run[w].config.meta] \in LabRow
      BY <1>2, <1>3, <2>2 DEF LabRow
    <3> QED
      BY <3>1, NullIsNoRow
  <2> QED
    BY <1>2, <1>3, <1>5, <2>2, <2>3, <2>4 DEF AtOwnRow, LabRow
<1>8. CASE InsertLab(w)
  <2> DEFINE new == [id |-> NewId, meta |-> run[w].config.meta]
  <2>1. IdsLeft => NewId \in Ids
    BY FreshUnused DEF IdsLeft, NewId
  <2>2. \/ pc'[w] \notin HasId
        \/ /\ IdsLeft /\ labs' = [labs EXCEPT ![Lab(w)] = new]
           /\ run'[w].labs = run[w].labs /\ run'[w].id = NewId
    BY <1>2, <1>4, <1>8, <2>1 DEF InsertLab, SkipLab, Run
  <2>3. IdsLeft => new # Null /\ new.id = NewId
    BY <1>3, <2>1, NullIsNoRow DEF LabRow
  <2> HIDE DEF new
  <2> QED
    BY <1>2, <1>3, <1>5, <2>2, <2>3 DEF AtOwnRow
<1> QED
  BY <1>6, <1>7, <1>8

LEMMA OwnRowGone ==
  ASSUME Inv, NEW w \in Workers,
         \/ Start(w) \/ FetchConfig(w) \/ (\E i \in Images : HeadImage(w, i))
         \/ PutImage(w) \/ Prune(w) \/ Sweep(w) \/ Crash(w)
  PROVE  AtOwnRow(w)'
<1>1. pc \in [Workers -> Steps]
  BY TypesOfAll DEF Inv, WorkersType
<1>2. pc'[w] \notin HasId
  BY <1>1 DEF Start, FetchConfig, SkipLab, NextLab, HeadImage, EndImage, PutImage,
              Prune, Sweep, Crash, HasId
<1> QED
  BY <1>2 DEF AtOwnRow

\* Chapters are written and pruned only under the worker's own row, and
\* swept with theirs.
LEMMA NoOrphansStep ==
  ASSUME Inv, SoloInv, NEW w \in Workers,
         Start(w) \/ LabStep(w) \/ ChapterStep(w) \/ Sweep(w) \/ Crash(w)
  PROVE  NoOrphans'
<1>1. /\ labs \in [Labs -> LabRow \union {Null}]
      /\ chapters \in [Ids -> [Chapters -> ChapterRow \union {Null}]]
  BY TypesOfAll DEF Inv, LabsType, ChaptersType
<1>2. ASSUME NEW id \in Ids, id = run[w].id, pc[w] \in HasId, UNCHANGED labs
      PROVE  \E l \in Labs : labs'[l] # Null /\ labs'[l].id = id
  <2>1. Lab(w) \in Labs
    BY <1>2, AtWork DEF HasId, InLab
  <2> QED
    BY <1>2, <2>1 DEF SoloInv, AtOwnRow
<1>3. ASSUME \A l \in Labs : labs[l] # Null =>
               labs'[l] # Null /\ labs'[l].id = labs[l].id,
             UNCHANGED chapters
      PROVE  NoOrphans'
  BY <1>3 DEF NoOrphans, NoChapters, SoloInv
<1>4. CASE Start(w) \/ FetchConfig(w) \/ ReadLab(w) \/ ListStates(w)
           \/ (\E i \in Images : HeadImage(w, i)) \/ PutImage(w)
           \/ FetchChapter(w) \/ FindChapter(w) \/ Crash(w)
  <2>1. UNCHANGED <<labs, chapters>>
    BY <1>4 DEF Start, FetchConfig, ReadLab, ListStates, HeadImage, PutImage,
                FetchChapter, FindChapter, Crash, database
  <2> QED
    BY <1>3, <2>1
<1>5. CASE UpdateLab(w) \/ InsertLab(w)
  <2>1. UNCHANGED chapters
    BY <1>5 DEF UpdateLab, InsertLab
  <2>2. pc[w] \in InLab /\ pc[w] \in InLab \ {"config"}
    BY <1>5 DEF UpdateLab, InsertLab, InLab
  <2>3. Lab(w) \in Labs /\ run[w].config.meta \in Metas
    BY <2>2, AtWork, Configured
  <2>4. ASSUME NEW l \in Labs, labs[l] # Null
        PROVE  labs'[l] # Null /\ labs'[l].id = labs[l].id
    <3>1. CASE InsertLab(w)
      BY <1>1, <2>3, <2>4, <3>1 DEF InsertLab
    <3>2. CASE UpdateLab(w)
      <4>1. labs[Lab(w)] # Null =>
              /\ [labs[Lab(w)] EXCEPT !.meta = run[w].config.meta] \in LabRow
              /\ [labs[Lab(w)] EXCEPT !.meta = run[w].config.meta].id = labs[Lab(w)].id
        BY <1>1, <2>3 DEF LabRow
      <4> QED
        BY <1>1, <2>3, <2>4, <3>2, <4>1, NullIsNoRow DEF UpdateLab
    <3> QED
      BY <1>5, <3>1, <3>2
  <2> QED
    BY <1>3, <2>1, <2>4
<1>6. CASE WriteChapter(w) \/ Prune(w)
  <2>1. UNCHANGED labs /\ pc[w] \in HasId
    BY <1>6 DEF WriteChapter, Prune, HasId
  <2>2. \A id \in Ids : id # run[w].id => chapters'[id] = chapters[id]
    BY <1>1, <1>6 DEF WriteChapter, Prune
  <2> QED
    BY <1>2, <2>1, <2>2 DEF NoOrphans, NoChapters, SoloInv
<1>7. CASE Sweep(w)
  <2>1. CASE UNCHANGED <<labs, chapters>>
    BY <1>3, <2>1
  <2>2. CASE /\ labs' = [l \in Labs |-> IF l \in Gone(Tree(w)) THEN Null ELSE labs[l]]
             /\ chapters' = DeletedChapters(Gone(Tree(w)))
    <3>1. ASSUME NEW id \in Ids, chapters'[id] # NoChapters
          PROVE  \E l \in Labs : labs'[l] # Null /\ labs'[l].id = id
      <4>1. /\ chapters[id] # NoChapters
            /\ \A l \in Gone(Tree(w)) : ~(labs[l] # Null /\ labs[l].id = id)
        BY <2>2, <3>1 DEF DeletedChapters
      <4>2. PICK l \in Labs : labs[l] # Null /\ labs[l].id = id
        BY <4>1 DEF SoloInv, NoOrphans
      <4> QED
        BY <2>2, <4>1, <4>2
    <3> QED
      BY <3>1 DEF NoOrphans, NoChapters
  <2> QED
    BY <1>7, <2>1, <2>2 DEF Sweep
<1> QED
  BY <1>4, <1>5, <1>6, <1>7 DEF LabStep, ChapterStep

LEMMA SoloStep ==
  ASSUME OneWorker, Inv, SoloInv, [Next]_vars
  PROVE  SoloInv'
<1>1. ASSUME NEW w \in Workers,
             Start(w) \/ LabStep(w) \/ ChapterStep(w) \/ Sweep(w) \/ Crash(w)
      PROVE  SoloInv'
  <2>1. AtOwnRow(w)
    BY DEF SoloInv
  <2>2. AtOwnRow(w)'
    BY <1>1, <2>1, OwnRowStays, OwnRowFound, OwnRowGone DEF LabStep, ChapterStep
  <2>3. \A v \in Workers : AtOwnRow(v)'
    BY <2>2 DEF OneWorker
  <2> QED
    BY <1>1, <2>3, NoOrphansStep DEF SoloInv
<1>2. ASSUME UNCHANGED <<database, pc, run>>
      PROVE  SoloInv'
  BY <1>2 DEF SoloInv, NoOrphans, NoChapters, AtOwnRow, Lab, database
<1>3. ASSUME \/ \E l \in Labs : Push(l)
             \/ \E n \in DOMAIN commits : Redeliver(n)
             \/ UNCHANGED vars
      PROVE  UNCHANGED <<database, pc, run>>
  BY <1>3 DEF Push, Redeliver, vars
<1> QED
  BY <1>1, <1>2, <1>3 DEF Next

\* With one delivery at a time no chapter is left behind by a deleted lab,
\* whatever fails and in whatever order deliveries arrive (labs.rs:253-254).
THEOREM NoOrphansHolds ==
  ASSUME OneWorker
  PROVE  Spec => []NoOrphans
<1>1. Init => SoloInv
  BY DEF Init, SoloInv, NoOrphans, AtOwnRow, HasId, NoChapters
<1>2. Inv /\ SoloInv /\ [Next]_vars => SoloInv'
  BY SoloStep
<1>3. SoloInv => NoOrphans
  BY DEF SoloInv
<1> QED
  BY InvHolds, <1>1, <1>2, <1>3, PTL DEF Spec

-----------------------------------------------------------------------------
(* One delivery at a time keeps the HTML of the chapters current.          *)

\* No configuration names a chapter twice.  When one does, the second time
\* round the text is still compared with the one listed at the start.
ChaptersOnce ==
  \A dir \in Dirs : dir.config # Null =>
    \A m, n \in DOMAIN dir.config.chapters :
      dir.config.chapters[m] = dir.config.chapters[n] => m = n

\* What was listed is still stored for the chapters to come.
ListedText(w, c) ==
  run[w].existing[c] =
    IF chapters[run[w].id][c] = Null THEN Null ELSE chapters[run[w].id][c].text
Listed(w) ==
  pc[w] \in InChapter =>
    \A n \in run[w].position .. Len(run[w].config.chapters) :
      ListedText(w, run[w].config.chapters[n])

HtmlInv == ChapterHtmlCurrent /\ \A w \in Workers : Listed(w)

\* The row that WriteChapter leaves behind.
LEMMA WrittenIsCurrent ==
  ASSUME Inv, HtmlInv, NEW w \in Workers, WriteChapter(w)
  PROVE  ChapterHtmlCurrent'
<1> DEFINE c == Chapter(w)
           id == run[w].id
           text == run[w].text
           row == chapters[id][c]
<1>1. pc[w] = "write" /\ pc[w] \in InLab /\ pc[w] \in InChapter
  BY DEF WriteChapter, InLab, InChapter
<1>2. /\ run[w] \in Run /\ id \in Ids /\ c \in Chapters
      /\ run[w].position \in DOMAIN run[w].config.chapters
      /\ run[w].config.chapters \in Seq(Chapters)
      /\ text # Null
  BY <1>1, AtWork, InLoop, Configured DEF Inv, Shape, InLab
<1>3. PICK html : html = IF NeedsHtml(run[w].existing[c], text) THEN text ELSE Null
  OBVIOUS
<1>4. PICK place : place = Position(run[w].position)
  OBVIOUS
<1>5. ListedText(w, c)
  <2>1. run[w].position \in run[w].position .. Len(run[w].config.chapters)
    BY <1>2
  <2> QED
    BY <1>1, <2>1 DEF HtmlInv, Listed, Chapter
<1>6. html \in {Null, text} /\ (html = Null => row # Null /\ row.text = text)
  BY <1>2, <1>3, <1>5 DEF NeedsHtml, ListedText
<1>7. row \in ChapterRow \union {Null}
      /\ chapters \in [Ids -> [Chapters -> ChapterRow \union {Null}]]
  BY <1>2, TypesOfAll DEF Inv, ChaptersType
<1>8. PICK updated :
        updated = [row EXCEPT !.text = text, !.position = place,
                              !.html = IF html # Null THEN html ELSE @]
  OBVIOUS
<1>9. PICK new : new = [id |-> NewId, text |-> text, html |-> html, position |-> place]
  OBVIOUS
<1>10. \/ UNCHANGED chapters
       \/ row # Null /\ chapters' = [chapters EXCEPT ![id][c] = updated]
       \/ chapters' = [chapters EXCEPT ![id][c] = new]
  BY <1>3, <1>4, <1>8, <1>9, Zenon DEF WriteChapter
<1>11. row # Null => updated.text = text /\ updated.html \in {Null, text}
  <2>1. row # Null => row.html \in {Null, row.text}
    BY <1>2 DEF HtmlInv, ChapterHtmlCurrent
  <2> QED
    BY <1>6, <1>7, <1>8, <2>1 DEF ChapterRow
<1>12. new.text = text /\ new.html \in {Null, text}
  BY <1>6, <1>9
<1>13. ASSUME NEW value, value.html \in {Null, value.text},
              chapters' = [chapters EXCEPT ![id][c] = value]
       PROVE  ChapterHtmlCurrent'
  <2>1. ASSUME NEW of \in Ids, NEW d \in Chapters
        PROVE  chapters'[of][d] = IF of = id /\ d = c THEN value ELSE chapters[of][d]
    BY <1>2, <1>7, <1>13
  <2> QED
    BY <1>13, <2>1 DEF HtmlInv, ChapterHtmlCurrent
<1>14. UNCHANGED chapters => ChapterHtmlCurrent'
  BY DEF HtmlInv, ChapterHtmlCurrent
<1> QED
  BY <1>10, <1>11, <1>12, <1>13, <1>14

\* The chapters after it are still as they were listed.
LEMMA RestStaysListed ==
  ASSUME ChaptersOnce, Inv, HtmlInv, NEW w \in Workers, WriteChapter(w)
  PROVE  Listed(w)'
<1> DEFINE order == run[w].config.chapters
<1>1. pc[w] = "write" /\ pc[w] \in InLab /\ pc[w] \in InLab \ {"config"}
      /\ pc[w] \in InChapter
  BY DEF WriteChapter, InLab, InChapter
<1>2. /\ run[w] \in Run /\ run[w].id \in Ids /\ Chapter(w) \in Chapters
      /\ run[w].position \in DOMAIN order /\ order \in Seq(Chapters)
      /\ run[w].config # Null /\ run[w].config \in {dir.config : dir \in Dirs}
  BY <1>1, AtWork, InLoop, Configured
<1>3. \A m, n \in DOMAIN order : order[m] = order[n] => m = n
  BY <1>2 DEF ChaptersOnce
<1>4. /\ chapters \in [Ids -> [Chapters -> ChapterRow \union {Null}]]
      /\ run \in [Workers -> Run]
  BY TypesOfAll DEF Inv, ChaptersType, WorkersType
<1>5. run'[w] = [run[w] EXCEPT !.position = run[w].position + 1,
                               !.text = Null, !.found = Null]
  BY <1>4 DEF WriteChapter, Advance, FromPosition
<1>6. /\ run'[w].id = run[w].id /\ run'[w].config = run[w].config
      /\ run'[w].existing = run[w].existing
      /\ run'[w].position = run[w].position + 1
  BY <1>2, <1>5 DEF Run
<1>7. \A c \in Chapters : c # Chapter(w) =>
        chapters'[run[w].id][c] = chapters[run[w].id][c]
  <2>1. CASE UNCHANGED chapters
    BY <2>1
  <2>2. ASSUME NEW value \in ChapterRow,
               chapters' = [chapters EXCEPT ![run[w].id][Chapter(w)] = value],
               NEW c \in Chapters, c # Chapter(w)
        PROVE  chapters'[run[w].id][c] = chapters[run[w].id][c]
    BY <1>2, <1>4, <2>2
  <2> QED
    BY <2>1, <2>2, RowWritten
<1>8. ASSUME NEW n \in run'[w].position .. Len(run'[w].config.chapters)
      PROVE  ListedText(w, run[w].config.chapters[n])'
  <2>1. /\ n \in run[w].position .. Len(order) /\ n \in DOMAIN order
        /\ n # run[w].position
    BY <1>2, <1>6
  <2>2. order[n] \in Chapters /\ order[n] # Chapter(w)
    BY <1>2, <1>3, <2>1 DEF Chapter
  <2>3. ListedText(w, order[n])
    BY <1>1, <2>1 DEF HtmlInv, Listed
  <2>4. PICK c \in Chapters : c = order[n]
    BY <2>2
  <2>5. run'[w].existing[c] = run[w].existing[c]
        /\ chapters'[run'[w].id][c] = chapters[run[w].id][c]
    BY <1>6, <1>7, <2>2, <2>4
  <2>6. ListedText(w, c)'
    BY <2>3, <2>4, <2>5 DEF ListedText
  <2>7. (run[w].config.chapters[n])' = c
    BY <1>6, <2>4
  <2> QED
    BY <2>6, <2>7 DEF ListedText
<1> QED
  BY <1>8 DEF Listed

\* What is read is what the list will be compared with.
LEMMA ListReads ==
  ASSUME Inv, NEW w \in Workers, ListStates(w)
  PROVE  Listed(w)'
<1>1. pc[w] \in InLab /\ pc[w] \in InLab \ {"config"} /\ pc[w] \in HasId
      /\ UNCHANGED chapters
  BY DEF ListStates, InLab, HasId, database
<1>2. /\ run[w] \in Run /\ run \in [Workers -> Run] /\ pc \in [Workers -> Steps]
      /\ run[w].config.chapters \in Seq(Chapters)
  BY <1>1, AtWork, Configured, TypesOfAll DEF Inv, WorkersType
<1>3. PICK texts : texts = [c \in Chapters |->
        IF chapters[run[w].id][c] = Null THEN Null ELSE chapters[run[w].id][c].text]
  OBVIOUS
<1>4. FromPosition(w, 1, [run[w] EXCEPT !.existing = texts]) \/ SkipLab(w)
  BY <1>3 DEF ListStates
<1>5. CASE SkipLab(w)
  BY <1>2, <1>5 DEF SkipLab, NextLab, Listed, InChapter
<1>6. CASE FromPosition(w, 1, [run[w] EXCEPT !.existing = texts])
  <2>1. PICK held : held = [run[w] EXCEPT !.existing = texts]
    OBVIOUS
  <2>2. run'[w] = [held EXCEPT !.position = 1, !.text = Null, !.found = Null]
    BY <1>2, <1>6, <2>1 DEF FromPosition
  <2>3. /\ DOMAIN held = DOMAIN run[w] /\ held.existing = texts /\ held.id = run[w].id
        /\ held.config = run[w].config
    BY <1>2, <2>1 DEF Run
  <2>4. /\ run'[w].existing = texts /\ run'[w].id = run[w].id
        /\ run'[w].config = run[w].config /\ run'[w].position = 1
    BY <1>2, <2>2, <2>3 DEF Run
  <2>5. \A n \in 1 .. Len(run[w].config.chapters) :
          run[w].config.chapters[n] \in Chapters
    BY <1>2
  <2> QED
    BY <1>1, <1>3, <2>4, <2>5 DEF Listed, ListedText
<1> QED
  BY <1>4, <1>5, <1>6

\* A chapter is fetched and looked up, and the list stays.
LEMMA FetchStaysListed ==
  ASSUME Inv, NEW w \in Workers, Listed(w), FetchChapter(w) \/ FindChapter(w)
  PROVE  Listed(w)'
<1>1. pc[w] \in InChapter /\ pc[w] \in InLab /\ UNCHANGED chapters
  BY DEF FetchChapter, FindChapter, InLab, InChapter, database
<1>2. /\ run[w] \in Run /\ run \in [Workers -> Run]
      /\ run[w].position \in DOMAIN run[w].config.chapters
      /\ run[w].config.chapters \in Seq(Chapters)
  BY <1>1, AtWork, InLoop, Configured, TypesOfAll DEF Inv, WorkersType, InLab, InChapter
<1>3. \A held : FromPosition(w, run[w].position + 1, held) =>
        run'[w] = [held EXCEPT !.position = run[w].position + 1,
                               !.text = Null, !.found = Null]
  BY <1>2 DEF FromPosition
<1>4. \/ \E held : /\ \/ held = run[w]
                      \/ \E keep : held = [run[w] EXCEPT !.keep = keep]
                   /\ FromPosition(w, run[w].position + 1, held)
      \/ \E keep, text : run'[w] = [run[w] EXCEPT !.keep = keep, !.text = text]
      \/ \E found : run'[w] = [run[w] EXCEPT !.found = found]
  <2>1. CASE FetchChapter(w)
    <3>1. \/ FromPosition(w, run[w].position + 1, run[w])
          \/ \E keep, text : run' = [run EXCEPT ![w].keep = keep, ![w].text = text]
          \/ \E keep : FromPosition(w, run[w].position + 1,
                                    [run[w] EXCEPT !.keep = keep])
      BY <2>1 DEF FetchChapter, Advance
    <3>2. ASSUME NEW keep, NEW text,
                 run' = [run EXCEPT ![w].keep = keep, ![w].text = text]
          PROVE  run'[w] = [run[w] EXCEPT !.keep = keep, !.text = text]
      BY <1>2, <3>2
    <3>3. CASE FromPosition(w, run[w].position + 1, run[w])
      BY <3>3
    <3>4. CASE \E keep, text : run' = [run EXCEPT ![w].keep = keep, ![w].text = text]
      <4>1. PICK keep, text : run' = [run EXCEPT ![w].keep = keep, ![w].text = text]
        BY <3>4
      <4>2. run'[w] = [run[w] EXCEPT !.keep = keep, !.text = text]
        BY <3>2, <4>1
      <4> QED
        BY <4>2
    <3>5. CASE \E keep : FromPosition(w, run[w].position + 1,
                                     [run[w] EXCEPT !.keep = keep])
      BY <3>5
    <3> QED
      BY <3>1, <3>3, <3>4, <3>5
  <2>2. CASE FindChapter(w)
    BY <1>2, <2>2 DEF FindChapter, Advance
  <2> QED
    BY <2>1, <2>2
<1>5. /\ run'[w].existing = run[w].existing /\ run'[w].id = run[w].id
      /\ run'[w].config = run[w].config
      /\ run'[w].position \in {run[w].position, run[w].position + 1}
  <2>1. ASSUME NEW held, \/ held = run[w]
                         \/ \E keep : held = [run[w] EXCEPT !.keep = keep],
               FromPosition(w, run[w].position + 1, held)
        PROVE  /\ run'[w].existing = run[w].existing /\ run'[w].id = run[w].id
               /\ run'[w].config = run[w].config
               /\ run'[w].position = run[w].position + 1
    <3>1. /\ DOMAIN held = DOMAIN run[w] /\ held.existing = run[w].existing
          /\ held.id = run[w].id /\ held.config = run[w].config
      BY <1>2, <2>1 DEF Run
    <3>2. PICK place : place = run[w].position + 1
      OBVIOUS
    <3>3. PICK next : next = [held EXCEPT !.position = place, !.text = Null, !.found = Null]
      OBVIOUS
    <3>4. /\ next.existing = held.existing /\ next.id = held.id
          /\ next.config = held.config /\ next.position = place
      BY <1>2, <3>1, <3>3 DEF Run
    <3>5. run'[w] = next
      BY <1>3, <2>1, <3>2, <3>3
    <3> QED
      BY <3>1, <3>2, <3>4, <3>5
  <2> QED
    BY <1>2, <1>4, <2>1 DEF Run
<1>6. run'[w].position .. Len(run[w].config.chapters)
        \subseteq run[w].position .. Len(run[w].config.chapters)
  BY <1>2, <1>5
<1> QED
  BY <1>1, <1>5, <1>6 DEF Listed, ListedText

LEMMA HtmlStep ==
  ASSUME ChaptersOnce, OneWorker, Inv, HtmlInv, [Next]_vars
  PROVE  HtmlInv'
<1>1. ASSUME NEW w \in Workers, ChapterHtmlCurrent', Listed(w)'
      PROVE  HtmlInv'
  BY <1>1 DEF HtmlInv, OneWorker
<1>2. UNCHANGED chapters => ChapterHtmlCurrent'
  BY DEF HtmlInv, ChapterHtmlCurrent
<1>3. /\ pc \in [Workers -> Steps]
      /\ chapters \in [Ids -> [Chapters -> ChapterRow \union {Null}]]
  BY TypesOfAll DEF Inv, WorkersType, ChaptersType
<1>4. ASSUME NEW w \in Workers,
             Start(w) \/ LabStep(w) \/ ChapterStep(w) \/ Sweep(w) \/ Crash(w)
      PROVE  HtmlInv'
  <2>1. CASE WriteChapter(w)
    BY <1>1, <2>1, WrittenIsCurrent, RestStaysListed
  <2>2. CASE FetchChapter(w) \/ FindChapter(w)
    <3>1. UNCHANGED chapters
      BY <2>2 DEF FetchChapter, FindChapter, database
    <3> QED
      BY <1>1, <1>2, <2>2, <3>1, FetchStaysListed DEF HtmlInv
  <2>3. CASE ListStates(w)
    <3>1. UNCHANGED chapters
      BY <2>3 DEF ListStates, database
    <3> QED
      BY <1>1, <1>2, <2>3, <3>1, ListReads
  <2>4. CASE Prune(w) \/ Sweep(w)
    <3>1. pc'[w] \notin InChapter
      BY <1>3, <2>4 DEF Prune, NextLab, Sweep, InChapter
    <3>2. \A id \in Ids, c \in Chapters : chapters'[id][c] \in {Null, chapters[id][c]}
      BY <1>3, <2>4 DEF Prune, Sweep, DeletedChapters, NoChapters
    <3> QED
      BY <1>1, <3>1, <3>2 DEF Listed, HtmlInv, ChapterHtmlCurrent
  <2>5. CASE Start(w) \/ FetchConfig(w) \/ ReadLab(w) \/ UpdateLab(w)
             \/ InsertLab(w) \/ (\E i \in Images : HeadImage(w, i)) \/ PutImage(w)
             \/ Crash(w)
    <3>1. pc'[w] \notin InChapter
      BY <1>3, <2>5
      DEF Start, FetchConfig, ReadLab, UpdateLab, InsertLab, HeadImage, PutImage,
          EndImage, Crash, SkipLab, NextLab, InChapter
    <3>2. UNCHANGED chapters
      BY <2>5 DEF Start, FetchConfig, ReadLab, UpdateLab, InsertLab, HeadImage,
                  PutImage, Crash, database
    <3> QED
      BY <1>1, <1>2, <3>1, <3>2 DEF Listed
  <2> QED
    BY <1>4, <2>1, <2>2, <2>3, <2>4, <2>5 DEF LabStep, ChapterStep
<1>5. ASSUME UNCHANGED <<database, pc, run>>
      PROVE  HtmlInv'
  BY <1>2, <1>5 DEF HtmlInv, Listed, ListedText, database
<1>6. ASSUME \/ \E l \in Labs : Push(l)
             \/ \E n \in DOMAIN commits : Redeliver(n)
             \/ UNCHANGED vars
      PROVE  UNCHANGED <<database, pc, run>>
  BY <1>6 DEF Push, Redeliver, vars
<1> QED
  BY <1>4, <1>5, <1>6 DEF Next

\* With one delivery at a time, and no chapter named twice, the stored HTML
\* of a chapter was made from its stored text, although it is only made when
\* the text differs from the one listed before (webhooks.rs:1078-1082).
THEOREM ChapterHtmlCurrentHolds ==
  ASSUME OneWorker, ChaptersOnce
  PROVE  Spec => []ChapterHtmlCurrent
<1>1. Init => HtmlInv
  BY DEF Init, HtmlInv, ChapterHtmlCurrent, Listed, InChapter, NoChapters
<1>2. Inv /\ HtmlInv /\ [Next]_vars => HtmlInv'
  BY HtmlStep
<1>3. HtmlInv => ChapterHtmlCurrent
  BY DEF HtmlInv
<1> QED
  BY InvHolds, <1>1, <1>2, <1>3, PTL DEF Spec

-----------------------------------------------------------------------------
(* A quiet run of the last commit mirrors it.                              *)
(*                                                                         *)
(* What such a run has done so far.  Its tree is the head of the branch,   *)
(* because a push makes its commit one of the past.                        *)

Latest(w) == quiet[w] /\ pc[w] # "idle" /\ run[w].commit = Len(commits)

DoneWith(w) == \A l \in Discovered(head) \ run[w].labs : Mirrored(l, head[l])

ImagesToDo(w) == IF pc[w] \in {"images", "put"} THEN run[w].images ELSE {}
ImagesDone(w) ==
  \A i \in ImagesOf(Dir(w)) \ ImagesToDo(w) : store[Lab(w)][i] = Dir(w).images[i]

RowDone(w, c) ==
  LET row == chapters[run[w].id][c] IN
  /\ row # Null
  /\ row.text = Text(Dir(w).files[c], Dir(w))
  /\ row.position + 1 \in DOMAIN run[w].config.chapters
  /\ run[w].config.chapters[row.position + 1] = c

ChaptersDone(w) ==
  /\ \A n \in 1 .. run[w].position - 1 :
       Dir(w).files[run[w].config.chapters[n]] # Null
         => RowDone(w, run[w].config.chapters[n])
  /\ \A c \in run[w].keep :
       c \in Elements(run[w].config.chapters) /\ Dir(w).files[c] # Null

ChapterFetched(w) ==
  /\ Dir(w).files[Chapter(w)] # Null
  /\ run[w].text = Text(Dir(w).files[Chapter(w)], Dir(w))

RowFound(w) ==
  LET row == chapters[run[w].id][Chapter(w)] IN
  run[w].found = IF row = Null THEN Null ELSE row.id

LabRowFound(w) ==
  /\ labs[Lab(w)] # Null
  /\ labs[Lab(w)].id = run[w].id
  /\ pc[w] # "update" => labs[Lab(w)].meta = run[w].config.meta

KeepsNone(w) ==
  pc[w] \in InLab /\ pc[w] \notin InChapter \union {"prune"} => run[w].keep = {}

Progress(w) ==
  /\ KeepsNone(w)
  /\ pc[w] = "done" =>
       run[w].commit \in DOMAIN commits /\ \A l \in Labs : Mirrored(l, head[l])
  /\ pc[w] = "sweep" => run[w].labs = {}
  /\ pc[w] \in InLab \union {"sweep"} => DoneWith(w)
  /\ pc[w] \in InLab \ {"config"} => run[w].config = Dir(w).config /\ ImagesDone(w)
  /\ pc[w] \in HasId => LabRowFound(w)
  /\ pc[w] \in InChapter \union {"prune"} => ChaptersDone(w)
  /\ pc[w] \in {"find", "write"} => ChapterFetched(w)
  /\ pc[w] = "write" => RowFound(w)

\* A run that is done has its commit, whether or not it is the last.
QuietInv ==
  \A w \in Workers :
    /\ pc[w] = "done" => run[w].commit \in DOMAIN commits
    /\ Latest(w) => Progress(w)

\* Steps that leave the worker and the tables alone.
LEMMA ProgressRests ==
  ASSUME NEW w \in Workers, Progress(w), UNCHANGED <<commits, database>>,
         pc'[w] = pc[w], run'[w] = run[w]
  PROVE  Progress(w)'
<1>1. UNCHANGED <<commits, labs, chapters, store>>
  BY DEF database
<1>2. /\ Lab(w)' = Lab(w) /\ Tree(w)' = Tree(w) /\ Dir(w)' = Dir(w)
      /\ Chapter(w)' = Chapter(w)
  BY <1>1 DEF Lab, Tree, Dir, Chapter
<1>3. head' = head /\ \A l \in Labs : Mirrored(l, head[l])' <=> Mirrored(l, head[l])
  BY <1>1 DEF head, Mirrored
<1>4. DoneWith(w)' <=> DoneWith(w)
  BY <1>3 DEF DoneWith, Discovered
<1>5. ImagesDone(w)' <=> ImagesDone(w)
  BY <1>1, <1>2 DEF ImagesDone, ImagesToDo
<1>6. LabRowFound(w)' <=> LabRowFound(w)
  BY <1>1, <1>2 DEF LabRowFound
<1>7. ChaptersDone(w)' <=> ChaptersDone(w)
  BY <1>1, <1>2 DEF ChaptersDone, RowDone
<1>8. (ChapterFetched(w)' <=> ChapterFetched(w)) /\ (RowFound(w)' <=> RowFound(w))
  BY <1>1, <1>2 DEF ChapterFetched, RowFound
<1> QED
  BY <1>1, <1>2, <1>3, <1>4, <1>5, <1>6, <1>7, <1>8 DEF Progress, KeepsNone

LEMMA OthersRest ==
  ASSUME Inv, NEW w \in Workers, NEW v \in Workers, v # w,
         Start(w) \/ LabStep(w) \/ ChapterStep(w) \/ Sweep(w) \/ Crash(w)
  PROVE  UNCHANGED commits /\ pc'[v] = pc[v] /\ run'[v] = run[v]
<1>1. /\ pc \in [Workers -> Steps] /\ run \in [Workers -> Run]
  BY TypesOfAll DEF Inv, WorkersType
<1>2. CASE Start(w) \/ Sweep(w) \/ Crash(w)
  BY <1>1, <1>2 DEF Start, Sweep, Crash, delivery
<1>3. CASE FetchConfig(w) \/ ReadLab(w) \/ UpdateLab(w) \/ InsertLab(w)
  BY <1>1, <1>3 DEF FetchConfig, ReadLab, UpdateLab, InsertLab, SkipLab, NextLab,
                    delivery
<1>4. CASE ListStates(w) \/ Prune(w)
  BY <1>1, <1>4 DEF ListStates, Prune, SkipLab, NextLab, FromPosition, delivery
<1>5. CASE (\E i \in Images : HeadImage(w, i)) \/ PutImage(w)
  BY <1>1, <1>5 DEF HeadImage, PutImage, EndImage, delivery
<1>6. CASE ChapterStep(w)
  BY <1>1, <1>6 DEF ChapterStep, FetchChapter, FindChapter, WriteChapter, Advance,
                    FromPosition, delivery
<1> QED
  BY <1>2, <1>3, <1>4, <1>5, <1>6 DEF LabStep

\* A worker that writes ends the quiet of the others, and while one reads
\* or fails they are where they were.
LEMMA OthersKeepProgress ==
  ASSUME Inv, QuietInv, NEW w \in Workers, NEW v \in Workers, v # w,
         Start(w) \/ LabStep(w) \/ ChapterStep(w) \/ Sweep(w) \/ Crash(w),
         Latest(v)'
  PROVE  Progress(v)'
<1>1. /\ pc \in [Workers -> Steps] /\ run \in [Workers -> Run]
      /\ quiet \in [Workers -> BOOLEAN]
  BY TypesOfAll DEF Inv, WorkersType
<1>2. UNCHANGED commits /\ pc'[v] = pc[v] /\ run'[v] = run[v]
  BY OthersRest
<1>3. quiet'[v] => quiet[v] /\ UNCHANGED database
  <2>1. /\ Interfere => ~quiet'[v]
        /\ WriteBy(w) => ~quiet'[v]
        /\ Fail(w) \/ UNCHANGED quiet => quiet'[v] = quiet[v]
    BY <1>1 DEF Interfere, WriteBy, Fail
  <2>2. CASE Start(w)
    BY <1>1, <2>2 DEF Start
  <2>3. CASE FetchConfig(w) \/ ReadLab(w) \/ ListStates(w) \/ FetchChapter(w)
             \/ FindChapter(w) \/ (\E i \in Images : HeadImage(w, i)) \/ Crash(w)
    BY <2>1, <2>3 DEF FetchConfig, ReadLab, ListStates, FetchChapter, FindChapter,
                      HeadImage, Crash, SkipLab
  <2>4. CASE UpdateLab(w) \/ InsertLab(w)
    BY <2>1, <2>4 DEF UpdateLab, InsertLab, SkipLab, database
  <2>5. CASE PutImage(w) \/ Prune(w) \/ Sweep(w)
    BY <2>1, <2>5 DEF PutImage, Prune, Sweep, database
  <2>6. CASE WriteChapter(w)
    <3>1. UNCHANGED <<labs, store>>
          /\ (WriteBy(w) \/ Interfere \/ (UNCHANGED chapters /\ Fail(w)))
      BY <2>6, Zenon DEF WriteChapter
    <3> QED
      BY <2>1, <3>1 DEF database
  <2> QED
    BY <2>2, <2>3, <2>4, <2>5, <2>6 DEF LabStep, ChapterStep
<1>4. Latest(v) /\ UNCHANGED <<commits, database>>
  BY <1>2, <1>3 DEF Latest
<1> QED
  BY <1>2, <1>4, ProgressRests DEF QuietInv

\* Only the lab the worker is on is written.
Beside(w) ==
  \A l \in Labs \ {Lab(w)} :
    /\ labs'[l] = labs[l] /\ store'[l] = store[l]
    /\ labs[l] # Null => chapters'[labs[l].id] = chapters[labs[l].id]

LEMMA BesideRests ==
  ASSUME NEW w, UNCHANGED database
  PROVE  Beside(w)
BY DEF Beside, database

LEMMA BesideMirrored ==
  ASSUME NEW w \in Workers, Beside(w), UNCHANGED commits,
         NEW l \in Labs \ {Lab(w)}, Mirrored(l, head[l])
  PROVE  Mirrored(l, head[l])'
<1>1. head' = head
  BY DEF head
<1>2. labs'[l] = labs[l] /\ store'[l] = store[l]
      /\ (labs[l] # Null => chapters'[labs[l].id] = chapters[labs[l].id])
  BY DEF Beside
<1> QED
  BY <1>1, <1>2 DEF Mirrored

LEMMA TreeIsHead ==
  ASSUME NEW w \in Workers, Latest(w)
  PROVE  Tree(w) = head /\ Dir(w) = head[Lab(w)]
BY DEF Latest, Tree, Dir, head

\* A step within a lab.
LEMMA WithinLab ==
  ASSUME Inv, NEW w \in Workers, Latest(w), Progress(w),
         pc[w] \in InLab, pc'[w] \in InLab \ {"config"},
         UNCHANGED commits, Beside(w),
         run'[w].labs = run[w].labs, run'[w].commit = run[w].commit,
         run'[w].config = Dir(w).config, ImagesDone(w)', KeepsNone(w)',
         pc'[w] \in HasId => LabRowFound(w)',
         pc'[w] \in InChapter \union {"prune"} => ChaptersDone(w)',
         pc'[w] \in {"find", "write"} => ChapterFetched(w)',
         pc'[w] = "write" => RowFound(w)'
  PROVE  Progress(w)'
<1>1. Lab(w)' = Lab(w) /\ Tree(w)' = Tree(w) /\ Dir(w)' = Dir(w) /\ head' = head
  BY DEF Lab, Tree, Dir, head
<1>2. DoneWith(w) /\ Lab(w) \in run[w].labs
  BY AtWork DEF Progress
<1>3. ASSUME NEW l \in Discovered(head)' \ run'[w].labs
      PROVE  Mirrored(l, head[l])'
  <2>1. l \in Discovered(head) \ run[w].labs /\ l \in Labs \ {Lab(w)}
    BY <1>1, <1>2, <1>3 DEF Discovered
  <2>2. Mirrored(l, head[l])
    BY <1>2, <2>1 DEF DoneWith
  <2> QED
    BY <2>1, <2>2, BesideMirrored
<1>4. DoneWith(w)'
  BY <1>3 DEF DoneWith
<1>5. pc'[w] \notin {"done", "sweep"}
  BY DEF InLab
<1> QED
  BY <1>1, <1>4, <1>5 DEF Progress

\* What stays done while the lab, its configuration and the store stay.
LEMMA ImagesStayDone ==
  ASSUME NEW w \in Workers, ImagesDone(w), UNCHANGED <<commits, store>>,
         run'[w].labs = run[w].labs, run'[w].commit = run[w].commit,
         pc[w] \notin {"images", "put"}
  PROVE  ImagesDone(w)'
<1>1. Lab(w)' = Lab(w) /\ Dir(w)' = Dir(w)
  BY DEF Lab, Tree, Dir
<1>2. ImagesToDo(w) = {}
  BY DEF ImagesToDo
<1> QED
  BY <1>1, <1>2 DEF ImagesDone, ImagesOf

\* The configuration is the one of the commit, as the tree is.
LEMMA FetchConfigProgress ==
  ASSUME Inv, NEW w \in Workers, Latest(w), Progress(w), FetchConfig(w), quiet'[w]
  PROVE  Progress(w)'
<1>1. pc[w] \in InLab /\ UNCHANGED <<commits, database>>
  BY DEF FetchConfig, InLab, delivery
<1>2. /\ pc \in [Workers -> Steps] /\ run \in [Workers -> Run]
      /\ quiet \in [Workers -> BOOLEAN] /\ run[w] \in Run
  BY TypesOfAll DEF Inv, WorkersType
<1>3. PICK images : images = ImagesOf(Dir(w))
  OBVIOUS
<1>4. /\ run' = [run EXCEPT ![w].config = head[Lab(w)].config, ![w].images = images]
      /\ pc' = [pc EXCEPT ![w] = IF images = {} THEN "lab" ELSE "images"]
  BY <1>2, <1>3 DEF FetchConfig, SkipLab, Fail
<1>5. /\ run'[w].labs = run[w].labs /\ run'[w].keep = run[w].keep
      /\ run'[w].commit = run[w].commit
      /\ run'[w].config = head[Lab(w)].config /\ run'[w].images = images
      /\ pc'[w] = IF images = {} THEN "lab" ELSE "images"
  BY <1>2, <1>4 DEF Run
<1>6. pc'[w] \in InLab \ {"config"} /\ pc'[w] \notin HasId \union InChapter \union {"prune"}
      /\ pc'[w] # "write" /\ pc'[w] \notin {"find", "write"}
  BY <1>5 DEF InLab, HasId, InChapter
<1>7. ImagesDone(w)'
  <2>1. Dir(w)' = Dir(w)
    BY <1>1, <1>5 DEF Lab, Tree, Dir
  <2>2. ImagesToDo(w)' = images
    BY <1>5 DEF ImagesToDo
  <2> QED
    BY <1>3, <2>1, <2>2 DEF ImagesDone, ImagesOf
<1>8. run'[w].config = Dir(w).config
  BY <1>5, TreeIsHead
<1>9. Beside(w)
  BY <1>1, BesideRests
<1>10. KeepsNone(w)'
  <2>1. pc[w] \notin InChapter \union {"prune"}
    BY DEF FetchConfig, InChapter
  <2> QED
    BY <1>1, <1>5, <2>1 DEF KeepsNone, Progress
<1> QED
  BY <1>1, <1>5, <1>6, <1>7, <1>8, <1>9, <1>10, WithinLab

\* An image is left out because its sha is the one of the tree.
LEMMA HeadImageProgress ==
  ASSUME Inv, NEW w \in Workers, NEW i \in Images, Latest(w), Progress(w),
         HeadImage(w, i), quiet'[w]
  PROVE  Progress(w)'
<1>1. pc[w] \in InLab /\ pc[w] \in InLab \ {"config"} /\ pc[w] = "images"
      /\ UNCHANGED <<commits, database>>
  BY DEF HeadImage, InLab, delivery
<1>2. /\ pc \in [Workers -> Steps] /\ run \in [Workers -> Run]
      /\ quiet \in [Workers -> BOOLEAN] /\ run[w] \in Run
  BY TypesOfAll DEF Inv, WorkersType
<1>3. \/ store[Lab(w)][i] = Dir(w).images[i] /\ EndImage(w, i)
      \/ run' = [run EXCEPT ![w].image = i] /\ pc' = [pc EXCEPT ![w] = "put"]
  BY DEF HeadImage, SameImage
<1>4. /\ run'[w].labs = run[w].labs /\ run'[w].keep = run[w].keep
      /\ run'[w].commit = run[w].commit
      /\ run'[w].config = run[w].config
      /\ \/ /\ store[Lab(w)][i] = Dir(w).images[i]
            /\ run'[w].images = run[w].images \ {i}
            /\ pc'[w] = IF run[w].images = {i} THEN "lab" ELSE "images"
         \/ run'[w].images = run[w].images /\ pc'[w] = "put"
  BY <1>2, <1>3 DEF EndImage, Run
<1>5. pc'[w] \in InLab \ {"config"} /\ pc'[w] \notin HasId \union InChapter \union {"prune"}
      /\ pc'[w] # "write" /\ pc'[w] \notin {"find", "write"}
  BY <1>4 DEF InLab, HasId, InChapter
<1>6. run[w].config = Dir(w).config /\ ImagesDone(w) /\ ImagesToDo(w) = run[w].images
  BY <1>1 DEF Progress, ImagesToDo
<1>7. ImagesDone(w)'
  <2>1. Lab(w)' = Lab(w) /\ Dir(w)' = Dir(w) /\ UNCHANGED store
    BY <1>1, <1>4 DEF Lab, Tree, Dir, database
  <2>2. \/ ImagesToDo(w)' = run[w].images
        \/ store[Lab(w)][i] = Dir(w).images[i] /\ ImagesToDo(w)' = run[w].images \ {i}
    BY <1>4 DEF ImagesToDo
  <2> QED
    BY <1>6, <2>1, <2>2 DEF ImagesDone, ImagesOf
<1>8. run'[w].config = Dir(w).config /\ Beside(w)
  BY <1>1, <1>4, <1>6, BesideRests
<1>9. KeepsNone(w)'
  <2>1. pc[w] \notin InChapter \union {"prune"}
    BY DEF HeadImage, InChapter
  <2> QED
    BY <1>1, <1>4, <2>1 DEF KeepsNone, Progress
<1> QED
  BY <1>1, <1>4, <1>5, <1>7, <1>8, <1>9, WithinLab

\* One that is uploaded has it from then on.
LEMMA PutImageProgress ==
  ASSUME Inv, NEW w \in Workers, Latest(w), Progress(w), PutImage(w), quiet'[w]
  PROVE  Progress(w)'
<1>1. pc[w] \in InLab /\ pc[w] \in InLab \ {"config"} /\ pc[w] = "put"
      /\ UNCHANGED <<commits, labs, chapters>>
  BY DEF PutImage, InLab, delivery
<1>2. /\ pc \in [Workers -> Steps] /\ run \in [Workers -> Run]
      /\ quiet \in [Workers -> BOOLEAN] /\ run[w] \in Run
      /\ Lab(w) \in Labs /\ run[w].image \in Images
  BY <1>1, AtWork, TypesOfAll DEF Inv, WorkersType, Shape
<1>3. PICK i \in Images : i = run[w].image
  BY <1>2
<1>4. EndImage(w, i)
  BY <1>3 DEF PutImage
<1>5. store' = [store EXCEPT ![Lab(w)][i] = Dir(w).images[i]]
  BY <1>2, <1>3 DEF PutImage, Fail
<1>6. /\ run'[w].labs = run[w].labs /\ run'[w].keep = run[w].keep
      /\ run'[w].commit = run[w].commit
      /\ run'[w].config = run[w].config
      /\ run'[w].images = run[w].images \ {i}
      /\ pc'[w] = IF run[w].images = {i} THEN "lab" ELSE "images"
  BY <1>2, <1>4 DEF EndImage, Run
<1>7. pc'[w] \in InLab \ {"config"} /\ pc'[w] \notin HasId \union InChapter \union {"prune"}
      /\ pc'[w] # "write" /\ pc'[w] \notin {"find", "write"}
  BY <1>6 DEF InLab, HasId, InChapter
<1>8. run[w].config = Dir(w).config /\ ImagesDone(w) /\ ImagesToDo(w) = run[w].images
  BY <1>1 DEF Progress, ImagesToDo
<1>9. /\ \A l \in Labs : l # Lab(w) => store'[l] = store[l]
      /\ \A j \in Images : store'[Lab(w)][j] =
           IF j = i THEN Dir(w).images[i] ELSE store[Lab(w)][j]
  <2>1. store \in [Labs -> [Images -> {Null} \union
          UNION {{dir.images[j] : j \in Images} : dir \in Dirs}]]
    BY TypesOfAll DEF Inv, StoreType
  <2> QED
    BY <1>2, <1>5, <2>1
<1>10. ImagesDone(w)'
  <2>1. Lab(w)' = Lab(w) /\ Dir(w)' = Dir(w)
    BY <1>1, <1>6 DEF Lab, Tree, Dir
  <2>2. ImagesToDo(w)' = run[w].images \ {i}
    BY <1>6 DEF ImagesToDo
  <2> QED
    BY <1>8, <1>9, <2>1, <2>2 DEF ImagesDone, ImagesOf
<1>11. run'[w].config = Dir(w).config /\ Beside(w)
  BY <1>1, <1>6, <1>8, <1>9 DEF Beside
<1>12. KeepsNone(w)'
  <2>1. pc[w] \notin InChapter \union {"prune"}
    BY DEF PutImage, InChapter
  <2> QED
    BY <1>1, <1>6, <2>1 DEF KeepsNone, Progress
<1> QED
  BY <1>1, <1>6, <1>7, <1>10, <1>11, <1>12, WithinLab


\* The images are all there before the rows are.
LEMMA AfterImages ==
  ASSUME Inv, NEW w \in Workers, Progress(w), UNCHANGED <<commits, store>>,
         pc[w] \in InLab \ {"config", "images", "put"},
         run'[w].labs = run[w].labs, run'[w].commit = run[w].commit,
         run'[w].config = run[w].config
  PROVE  ImagesDone(w)' /\ run'[w].config = Dir(w).config
<1>1. ImagesDone(w) /\ run[w].config = Dir(w).config
  BY DEF Progress
<1> QED
  BY <1>1, ImagesStayDone

\* The SELECT finds the row that is left alone, or to be updated.
LEMMA ReadLabProgress ==
  ASSUME Inv, NEW w \in Workers, Latest(w), Progress(w), ReadLab(w), quiet'[w]
  PROVE  Progress(w)'
<1>1. pc[w] \in InLab /\ pc[w] \in InLab \ {"config", "images", "put"}
      /\ UNCHANGED <<commits, labs, chapters, store, database>>
  BY DEF ReadLab, InLab, delivery, database
<1>2. /\ pc \in [Workers -> Steps] /\ run \in [Workers -> Run]
      /\ quiet \in [Workers -> BOOLEAN] /\ run[w] \in Run
  BY TypesOfAll DEF Inv, WorkersType
<1>3. PICK row : row = labs[Lab(w)]
  OBVIOUS
<1>4. \/ pc' = [pc EXCEPT ![w] = "insert"] /\ UNCHANGED run
      \/ /\ row # Null
         /\ run' = [run EXCEPT ![w].id = row.id]
         /\ pc' = [pc EXCEPT ![w] =
              IF row.meta = run[w].config.meta THEN "states" ELSE "update"]
  BY <1>2, <1>3 DEF ReadLab, SkipLab, Fail
<1>5. /\ run'[w].labs = run[w].labs /\ run'[w].keep = run[w].keep
      /\ run'[w].commit = run[w].commit
      /\ run'[w].config = run[w].config
      /\ \/ pc'[w] = "insert"
         \/ /\ row # Null /\ run'[w].id = row.id
            /\ pc'[w] = IF row.meta = run[w].config.meta THEN "states" ELSE "update"
  BY <1>2, <1>4 DEF Run
<1>6. pc'[w] \in InLab \ {"config"} /\ pc'[w] \notin InChapter \union {"prune"}
      /\ pc'[w] # "write" /\ pc'[w] \notin {"find", "write"}
  BY <1>5 DEF InLab, InChapter
<1>7. ImagesDone(w)' /\ run'[w].config = Dir(w).config
  BY <1>1, <1>5, AfterImages
<1>8. ASSUME pc'[w] \in HasId
      PROVE  LabRowFound(w)'
  <2>1. Lab(w)' = Lab(w)
    BY <1>5 DEF Lab
  <2>2. pc'[w] # "insert"
    BY <1>8 DEF HasId
  <2> QED
    BY <1>1, <1>3, <1>5, <2>1, <2>2 DEF LabRowFound
<1>9. Beside(w)
  BY <1>1, BesideRests
<1>10. KeepsNone(w)'
  <2>1. pc[w] \notin InChapter \union {"prune"}
    BY DEF ReadLab, InChapter
  <2> QED
    BY <1>1, <1>5, <2>1 DEF KeepsNone, Progress
<1> QED
  BY <1>1, <1>5, <1>6, <1>7, <1>8, <1>9, <1>10, WithinLab

\* The UPDATE finds the lab there, because nobody has deleted it.
LEMMA UpdateLabProgress ==
  ASSUME Inv, NEW w \in Workers, Latest(w), Progress(w), UpdateLab(w), quiet'[w]
  PROVE  Progress(w)'
<1>1. pc[w] \in InLab /\ pc[w] \in InLab \ {"config", "images", "put"}
      /\ pc[w] \in InLab \ {"config"}
      /\ pc[w] \in HasId /\ UNCHANGED <<commits, chapters, store>>
  BY DEF UpdateLab, InLab, HasId, delivery
<1>2. /\ pc \in [Workers -> Steps] /\ run \in [Workers -> Run]
      /\ quiet \in [Workers -> BOOLEAN] /\ run[w] \in Run
      /\ labs \in [Labs -> LabRow \union {Null}] /\ Lab(w) \in Labs
      /\ run[w].config.meta \in Metas
  BY <1>1, AtWork, Configured, TypesOfAll DEF Inv, WorkersType, LabsType
<1>3. PICK row : row = labs[Lab(w)]
  OBVIOUS
<1>4. row # Null /\ row.id = run[w].id /\ row \in LabRow
  BY <1>1, <1>2, <1>3 DEF Progress, LabRowFound
<1>5. PICK updated : updated = [row EXCEPT !.meta = run[w].config.meta]
  OBVIOUS
<1>6. /\ labs' = [labs EXCEPT ![Lab(w)] = updated]
      /\ pc' = [pc EXCEPT ![w] = "states"] /\ UNCHANGED run
  BY <1>2, <1>3, <1>4, <1>5 DEF UpdateLab, SkipLab, Fail, Interfere
<1>7. updated # Null /\ updated.id = run[w].id /\ updated.meta = run[w].config.meta
  <2>1. updated \in LabRow
    BY <1>2, <1>4, <1>5 DEF LabRow
  <2> QED
    BY <1>4, <1>5, <2>1, NullIsNoRow DEF LabRow
<1>8. pc'[w] = "states" /\ run'[w] = run[w]
  BY <1>2, <1>6
<1>9. pc'[w] \in InLab \ {"config"} /\ pc'[w] \notin InChapter \union {"prune"}
      /\ pc'[w] # "write" /\ pc'[w] \notin {"find", "write"}
  BY <1>8 DEF InLab, InChapter
<1>10. ImagesDone(w)' /\ run'[w].config = Dir(w).config
  BY <1>1, <1>8, AfterImages
<1>11. LabRowFound(w)'
  <2>1. Lab(w)' = Lab(w) /\ labs'[Lab(w)] = updated
    BY <1>2, <1>6, <1>8 DEF Lab
  <2> QED
    BY <1>7, <1>8, <2>1 DEF LabRowFound
<1>12. Beside(w)
  BY <1>1, <1>2, <1>6 DEF Beside
<1>13. KeepsNone(w)'
  <2>1. pc[w] \notin InChapter \union {"prune"}
    BY DEF UpdateLab, InChapter
  <2> QED
    BY <1>1, <1>8, <2>1 DEF KeepsNone, Progress
<1> QED
  BY <1>1, <1>8, <1>9, <1>10, <1>11, <1>12, <1>13, WithinLab

LEMMA InsertLabProgress ==
  ASSUME Inv, NEW w \in Workers, Latest(w), Progress(w), InsertLab(w), quiet'[w]
  PROVE  Progress(w)'
<1>1. pc[w] \in InLab /\ pc[w] \in InLab \ {"config", "images", "put"}
      /\ pc[w] \in InLab \ {"config"}
      /\ UNCHANGED <<commits, chapters, store>>
  BY DEF InsertLab, InLab, delivery
<1>2. /\ pc \in [Workers -> Steps] /\ run \in [Workers -> Run]
      /\ quiet \in [Workers -> BOOLEAN] /\ run[w] \in Run
      /\ labs \in [Labs -> LabRow \union {Null}] /\ Lab(w) \in Labs
      /\ run[w].config.meta \in Metas
  BY <1>1, AtWork, Configured, TypesOfAll DEF Inv, WorkersType, LabsType
<1>3. PICK new : new = [id |-> NewId, meta |-> run[w].config.meta]
  OBVIOUS
<1>4. /\ IdsLeft /\ labs' = [labs EXCEPT ![Lab(w)] = new]
      /\ run' = [run EXCEPT ![w].id = NewId] /\ pc' = [pc EXCEPT ![w] = "states"]
  BY <1>2, <1>3 DEF InsertLab, SkipLab, Fail, Interfere
<1>5. NewId \in Ids
  BY <1>4, FreshUnused DEF IdsLeft, NewId
<1>6. new # Null /\ new.id = NewId /\ new.meta = run[w].config.meta
  <2>1. new \in LabRow
    BY <1>2, <1>3, <1>5 DEF LabRow
  <2> QED
    BY <1>3, <2>1, NullIsNoRow
<1>7. /\ pc'[w] = "states" /\ run'[w].labs = run[w].labs /\ run'[w].keep = run[w].keep
      /\ run'[w].commit = run[w].commit
      /\ run'[w].config = run[w].config /\ run'[w].id = NewId
  BY <1>2, <1>4 DEF Run
<1>8. pc'[w] \in InLab \ {"config"} /\ pc'[w] \notin InChapter \union {"prune"}
      /\ pc'[w] # "write" /\ pc'[w] \notin {"find", "write"}
  BY <1>7 DEF InLab, InChapter
<1>9. ImagesDone(w)' /\ run'[w].config = Dir(w).config
  BY <1>1, <1>7, AfterImages
<1>10. LabRowFound(w)'
  <2>1. Lab(w)' = Lab(w) /\ labs'[Lab(w)] = new
    BY <1>2, <1>4, <1>7 DEF Lab
  <2> QED
    BY <1>6, <1>7, <2>1 DEF LabRowFound
<1>11. Beside(w)
  BY <1>1, <1>2, <1>4 DEF Beside
<1>12. KeepsNone(w)'
  <2>1. pc[w] \notin InChapter \union {"prune"}
    BY DEF InsertLab, InChapter
  <2> QED
    BY <1>1, <1>7, <2>1 DEF KeepsNone, Progress
<1> QED
  BY <1>1, <1>7, <1>8, <1>9, <1>10, <1>11, <1>12, WithinLab

\* The loop over the chapters goes on, with the row of the lab untouched.
LEMMA NextChapterProgress ==
  ASSUME Inv, NEW w \in Workers, Latest(w), Progress(w),
         pc[w] \in InLab \ {"config", "images", "put"}, pc[w] \in HasId \ {"update"},
         UNCHANGED <<commits, labs, store>>, Beside(w),
         NEW n, NEW held, FromPosition(w, n, held),
         {"labs", "commit", "config", "id", "keep", "position", "text", "found"}
           \subseteq DOMAIN held,
         held.labs = run[w].labs, held.commit = run[w].commit,
         held.config = run[w].config, held.id = run[w].id,
         ChaptersDone(w)'
  PROVE  Progress(w)'
<1>1. /\ pc \in [Workers -> Steps] /\ run \in [Workers -> Run]
  BY TypesOfAll DEF Inv, WorkersType
<1>2. run'[w] = [held EXCEPT !.position = n, !.text = Null, !.found = Null]
      /\ pc'[w] \in {"prune", "chapter"}
  BY <1>1 DEF FromPosition
<1>3. /\ run'[w].labs = run[w].labs /\ run'[w].commit = run[w].commit
      /\ run'[w].config = run[w].config /\ run'[w].id = run[w].id
  BY <1>2
<1>4. pc'[w] \in InLab \ {"config"} /\ pc'[w] \notin {"find", "write"}
      /\ pc'[w] # "write" /\ pc'[w] # "update" /\ pc[w] \in InLab
  BY <1>2 DEF InLab
<1>5. ImagesDone(w)' /\ run'[w].config = Dir(w).config
  BY <1>3, AfterImages
<1>6. LabRowFound(w)'
  <2>1. Lab(w)' = Lab(w) /\ LabRowFound(w) /\ pc[w] # "update"
    BY <1>3 DEF Lab, Progress
  <2> QED
    BY <1>3, <2>1 DEF LabRowFound
<1>7. KeepsNone(w)'
  BY <1>2 DEF KeepsNone, InChapter
<1> QED
  BY <1>3, <1>4, <1>5, <1>6, <1>7, WithinLab

LEMMA ListStatesProgress ==
  ASSUME Inv, NEW w \in Workers, Latest(w), Progress(w), ListStates(w), quiet'[w]
  PROVE  Progress(w)'
<1>1. pc[w] \in InLab \ {"config", "images", "put"} /\ pc[w] \in HasId \ {"update"}
      /\ pc[w] \in InLab /\ pc[w] \notin InChapter \union {"prune"}
      /\ UNCHANGED <<commits, labs, store, database>>
  BY DEF ListStates, InLab, HasId, InChapter, delivery, database
<1>2. /\ pc \in [Workers -> Steps] /\ run \in [Workers -> Run]
      /\ quiet \in [Workers -> BOOLEAN] /\ run[w] \in Run
  BY TypesOfAll DEF Inv, WorkersType
<1>3. PICK texts : FromPosition(w, 1, [run[w] EXCEPT !.existing = texts])
  BY <1>2 DEF ListStates, SkipLab, Fail
<1>4. PICK held : held = [run[w] EXCEPT !.existing = texts]
  OBVIOUS
<1>5. /\ {"labs", "commit", "config", "id", "keep", "position", "text", "found"}
           \subseteq DOMAIN held
      /\ held.labs = run[w].labs /\ held.commit = run[w].commit
      /\ held.config = run[w].config /\ held.id = run[w].id /\ held.keep = run[w].keep
  BY <1>2, <1>4 DEF Run
<1>6. FromPosition(w, 1, held) /\ Beside(w)
  BY <1>1, <1>3, <1>4, BesideRests
<1>7. ChaptersDone(w)'
  <2>1. run'[w] = [held EXCEPT !.position = 1, !.text = Null, !.found = Null]
    BY <1>2, <1>6 DEF FromPosition
  <2>2. run'[w].position = 1 /\ run'[w].keep = {}
    BY <1>1, <1>5, <2>1 DEF Progress, KeepsNone
  <2>3. 1 .. 1 - 1 = {}
    OBVIOUS
  <2> QED
    BY <2>2, <2>3 DEF ChaptersDone
<1> QED
  BY <1>1, <1>5, <1>6, <1>7, NextChapterProgress

\* The chapters the loop is done with, when it looks at one more.
LEMMA ChaptersPassed ==
  ASSUME Inv, NEW w \in Workers, pc[w] \in InChapter, ChaptersDone(w),
         UNCHANGED commits, NEW c \in Chapters, c = Chapter(w),
         run'[w].labs = run[w].labs, run'[w].commit = run[w].commit,
         run'[w].config = run[w].config, run'[w].id = run[w].id,
         \A d \in Chapters \ {c} : chapters'[run[w].id][d] = chapters[run[w].id][d],
         \/ run'[w].position = run[w].position /\ UNCHANGED chapters
         \/ /\ run'[w].position = run[w].position + 1
            /\ Dir(w).files[c] # Null => RowDone(w, c)',
         run'[w].keep \subseteq run[w].keep \union {c},
         c \in run'[w].keep => c \in run[w].keep \/ Dir(w).files[c] # Null
  PROVE  ChaptersDone(w)'
<1>1. Lab(w)' = Lab(w) /\ Dir(w)' = Dir(w)
  BY DEF Lab, Tree, Dir
<1>2. /\ run[w].position \in DOMAIN run[w].config.chapters
      /\ run[w].config.chapters \in Seq(Chapters)
  BY InLoop, Configured DEF InLab, InChapter
<1>3. ASSUME NEW d \in run'[w].keep
      PROVE  d \in Elements(run'[w].config.chapters) /\ Dir(w)'.files[d] # Null
  <2>1. CASE d \in run[w].keep
    BY <1>1, <2>1 DEF ChaptersDone
  <2>2. CASE d = c /\ d \notin run[w].keep
    <3>1. d \in Elements(run[w].config.chapters)
      BY <1>2, <2>2 DEF Elements, Chapter
    <3> QED
      BY <1>1, <1>3, <2>2, <3>1
  <2> QED
    BY <2>1, <2>2
<1>4. ASSUME NEW d \in Chapters, RowDone(w, d), d # c \/ UNCHANGED chapters
      PROVE  RowDone(w, d)'
  <2>1. chapters'[run[w].id][d] = chapters[run[w].id][d]
    BY <1>4
  <2> QED
    BY <1>1, <1>4, <2>1 DEF RowDone
<1>5. ASSUME NEW n \in 1 .. run'[w].position - 1,
             Dir(w).files[run[w].config.chapters[n]] # Null
      PROVE  RowDone(w, run[w].config.chapters[n])'
  <2>1. n \in DOMAIN run[w].config.chapters
        /\ (n \in 1 .. run[w].position - 1 \/ n = run[w].position)
    <3>1. PICK place \in Nat, len \in Nat :
            /\ place = run[w].position /\ place \in 1 .. len
            /\ DOMAIN run[w].config.chapters = 1 .. len
      BY <1>2
    <3>2. run'[w].position \in {place, place + 1}
      BY <3>1
    <3>3. n \in 1 .. place
      BY <1>5, <3>1, <3>2
    <3> QED
      BY <3>1, <3>3
  <2>2. PICK d \in Chapters : d = run[w].config.chapters[n]
    BY <1>2, <2>1
  <2>3. RowDone(w, d)'
    <3>1. CASE run'[w].position = run[w].position /\ UNCHANGED chapters
      <4>1. n \in 1 .. run[w].position - 1
        BY <1>5, <3>1
      <4> QED
        BY <1>4, <1>5, <2>2, <3>1, <4>1 DEF ChaptersDone
    <3>2. CASE RowDone(w, c)' /\ d = c
      BY <3>2
    <3>3. CASE d # c
      <4>1. n \in 1 .. run[w].position - 1
        BY <2>1, <2>2, <3>3 DEF Chapter
      <4> QED
        BY <1>4, <1>5, <2>2, <3>3, <4>1 DEF ChaptersDone
    <3> QED
      BY <1>5, <2>2, <3>1, <3>2, <3>3
  <2>4. (run[w].config.chapters[n])' = d
    BY <2>2
  <2> QED
    BY <2>3, <2>4 DEF RowDone
<1> QED
  BY <1>1, <1>3, <1>5 DEF ChaptersDone

LEMMA FetchChapterProgress ==
  ASSUME Inv, NEW w \in Workers, Latest(w), Progress(w), FetchChapter(w), quiet'[w]
  PROVE  Progress(w)'
<1>1. pc[w] \in InLab \ {"config", "images", "put"} /\ pc[w] \in HasId \ {"update"}
      /\ pc[w] \in InLab /\ pc[w] \in InChapter
      /\ UNCHANGED <<commits, labs, chapters, store, database>>
  BY DEF FetchChapter, InLab, HasId, InChapter, delivery, database
<1>2. /\ pc \in [Workers -> Steps] /\ run \in [Workers -> Run]
      /\ quiet \in [Workers -> BOOLEAN] /\ run[w] \in Run
      /\ Chapter(w) \in Chapters
  BY <1>1, InLoop, TypesOfAll DEF Inv, WorkersType
<1>3. PICK c \in Chapters : c = Chapter(w)
  BY <1>2
<1>4. PICK place : place = run[w].position + 1
  OBVIOUS
<1>5. Beside(w) /\ ChaptersDone(w)
  BY <1>1, BesideRests DEF Progress
<1>6. CASE Dir(w).files[c] = Null /\ FromPosition(w, place, run[w])
  <2>1. {"labs", "commit", "config", "id", "keep", "position", "text", "found"}
           \subseteq DOMAIN run[w]
    BY <1>2 DEF Run
  <2>2. run'[w] = [run[w] EXCEPT !.position = place, !.text = Null, !.found = Null]
    BY <1>2, <1>6 DEF FromPosition
  <2>3. /\ run'[w].labs = run[w].labs /\ run'[w].commit = run[w].commit
        /\ run'[w].config = run[w].config /\ run'[w].id = run[w].id
        /\ run'[w].keep = run[w].keep /\ run'[w].position = run[w].position + 1
    BY <1>4, <2>1, <2>2
  <2>4. ChaptersDone(w)'
    BY <1>1, <1>3, <1>5, <1>6, <2>3, ChaptersPassed
  <2> QED
    BY <1>1, <1>5, <1>6, <2>1, <2>4, NextChapterProgress
<1>7. CASE /\ Dir(w).files[c] # Null
           /\ pc' = [pc EXCEPT ![w] = "find"]
           /\ \E keep : /\ keep = run[w].keep \union {c}
                        /\ run' = [run EXCEPT ![w].keep = keep,
                             ![w].text = Text(head[Lab(w)].files[c], Dir(w))]
  <2>1. PICK text : text = Text(Dir(w).files[c], Dir(w))
    OBVIOUS
  <2>2. PICK keep : keep = run[w].keep \union {c}
    OBVIOUS
  <2>3. run' = [run EXCEPT ![w].keep = keep, ![w].text = text]
    BY <1>7, <2>1, <2>2, TreeIsHead
  <2>4. /\ run'[w].labs = run[w].labs /\ run'[w].commit = run[w].commit
        /\ run'[w].config = run[w].config /\ run'[w].id = run[w].id
        /\ run'[w].keep = keep /\ run'[w].position = run[w].position
        /\ run'[w].text = text /\ pc'[w] = "find"
    BY <1>2, <1>7, <2>3 DEF Run
  <2>5. ChaptersDone(w)'
    BY <1>1, <1>3, <1>5, <1>7, <2>2, <2>4, ChaptersPassed
  <2>6. Lab(w)' = Lab(w) /\ Dir(w)' = Dir(w) /\ Chapter(w)' = c
    BY <1>1, <1>3, <2>4 DEF Lab, Tree, Dir, Chapter
  <2>7. ChapterFetched(w)'
    BY <1>7, <2>1, <2>4, <2>6 DEF ChapterFetched
  <2>8. LabRowFound(w)'
    <3>1. LabRowFound(w) /\ pc[w] # "update"
      BY <1>1 DEF Progress
    <3> QED
      BY <1>1, <2>4, <2>6, <3>1 DEF LabRowFound
  <2>9. ImagesDone(w)' /\ run'[w].config = Dir(w).config
    BY <1>1, <2>4, AfterImages
  <2>10. pc'[w] \in InLab \ {"config"} /\ pc'[w] # "write" /\ KeepsNone(w)'
    BY <2>4 DEF InLab, InChapter, KeepsNone
  <2> QED
    BY <1>1, <1>5, <2>4, <2>5, <2>7, <2>8, <2>9, <2>10, WithinLab
<1>8. \/ Dir(w).files[c] = Null /\ FromPosition(w, place, run[w])
      \/ /\ Dir(w).files[c] # Null
         /\ pc' = [pc EXCEPT ![w] = "find"]
         /\ \E keep : /\ keep = run[w].keep \union {c}
                      /\ run' = [run EXCEPT ![w].keep = keep,
                           ![w].text = Text(head[Lab(w)].files[c], Dir(w))]
  BY <1>2, <1>3, <1>4 DEF FetchChapter, Advance, Fail, Kept
<1> QED
  BY <1>6, <1>7, <1>8

LEMMA FindChapterProgress ==
  ASSUME Inv, NEW w \in Workers, Latest(w), Progress(w), FindChapter(w), quiet'[w]
  PROVE  Progress(w)'
<1>1. pc[w] \in InLab \ {"config", "images", "put"} /\ pc[w] \in HasId \ {"update"}
      /\ pc[w] \in InLab /\ pc[w] \in InChapter /\ pc[w] = "find"
      /\ UNCHANGED <<commits, labs, chapters, store, database>>
  BY DEF FindChapter, InLab, HasId, InChapter, delivery, database
<1>2. /\ pc \in [Workers -> Steps] /\ run \in [Workers -> Run]
      /\ quiet \in [Workers -> BOOLEAN] /\ run[w] \in Run
      /\ Chapter(w) \in Chapters
  BY <1>1, InLoop, TypesOfAll DEF Inv, WorkersType
<1>3. PICK c \in Chapters : c = Chapter(w)
  BY <1>2
<1>4. PICK found : found = IF chapters[run[w].id][c] = Null THEN Null
                           ELSE chapters[run[w].id][c].id
  OBVIOUS
<1>5. run' = [run EXCEPT ![w].found = found] /\ pc' = [pc EXCEPT ![w] = "write"]
  BY <1>2, <1>3, <1>4 DEF FindChapter, Fail
<1>6. /\ run'[w].labs = run[w].labs /\ run'[w].commit = run[w].commit
      /\ run'[w].config = run[w].config /\ run'[w].id = run[w].id
      /\ run'[w].keep = run[w].keep /\ run'[w].position = run[w].position
      /\ run'[w].text = run[w].text /\ run'[w].found = found /\ pc'[w] = "write"
  BY <1>2, <1>5 DEF Run
<1>7. Beside(w) /\ ChaptersDone(w) /\ ChapterFetched(w) /\ LabRowFound(w)
  BY <1>1, BesideRests DEF Progress
<1>8. ChaptersDone(w)'
  BY <1>1, <1>3, <1>6, <1>7, ChaptersPassed
<1>9. Lab(w)' = Lab(w) /\ Dir(w)' = Dir(w) /\ Chapter(w)' = Chapter(w)
  BY <1>1, <1>6 DEF Lab, Tree, Dir, Chapter
<1>10. ChapterFetched(w)' /\ LabRowFound(w)'
  BY <1>1, <1>6, <1>7, <1>9 DEF ChapterFetched, LabRowFound
<1>11. RowFound(w)'
  BY <1>1, <1>3, <1>4, <1>6, <1>9 DEF RowFound
<1>12. ImagesDone(w)' /\ run'[w].config = Dir(w).config
  BY <1>1, <1>6, AfterImages
<1>13. pc'[w] \in InLab \ {"config"} /\ KeepsNone(w)'
  BY <1>6 DEF InLab, InChapter, KeepsNone
<1> QED
  BY <1>1, <1>6, <1>7, <1>8, <1>10, <1>11, <1>12, <1>13, WithinLab


\* The row that is written is that of the chapter at this position.
LEMMA RowIsDone ==
  ASSUME Inv, NEW w \in Workers, Latest(w), Progress(w), WriteChapter(w), quiet'[w],
         NEW c \in Chapters, c = Chapter(w)
  PROVE  \E value \in ChapterRow :
           /\ chapters' = [chapters EXCEPT ![run[w].id][c] = value]
           /\ value.text = run[w].text
           /\ value.position = Position(run[w].position)
<1>1. pc[w] = "write" /\ pc[w] \in InLab /\ pc[w] \in InChapter
      /\ UNCHANGED <<commits, labs, store>>
  BY DEF WriteChapter, InLab, InChapter, delivery
<1>2. /\ quiet \in [Workers -> BOOLEAN] /\ run[w] \in Run /\ run[w].id \in Ids
      /\ Position(run[w].position) \in Positions /\ run[w].text # Null
  BY <1>1, AtWork, InLoop, TypesOfAll DEF Inv, WorkersType, Shape
<1>3. PICK row : row = chapters[run[w].id][c]
  OBVIOUS
<1>4. row \in ChapterRow \union {Null}
  BY <1>2, <1>3, TypesOfAll DEF Inv, ChaptersType
<1>5. PICK text : text = run[w].text
  OBVIOUS
<1>6. PICK place : place = Position(run[w].position)
  OBVIOUS
<1>7. PICK html : html = IF NeedsHtml(run[w].existing[c], text) THEN text ELSE Null
  OBVIOUS
<1>8. text \in Texts /\ html \in TextOrNull /\ place \in Positions
  BY <1>2, <1>5, <1>6, <1>7 DEF Run, TextOrNull
<1>9. PICK updated :
        updated = [row EXCEPT !.text = text, !.position = place,
                              !.html = IF html # Null THEN html ELSE @]
  OBVIOUS
<1>10. PICK new : new = [id |-> NewId, text |-> text, html |-> html, position |-> place]
  OBVIOUS
<1>11. run[w].found = IF row = Null THEN Null ELSE row.id
  BY <1>1, <1>3 DEF Progress, RowFound
<1>12. \/ /\ run[w].found # Null
          /\ chapters' = IF row # Null /\ row.id = run[w].found
                         THEN [chapters EXCEPT ![run[w].id][c] = updated]
                         ELSE chapters
       \/ IdsLeft /\ chapters' = [chapters EXCEPT ![run[w].id][c] = new]
       \/ Fail(w)
  BY <1>3, <1>5, <1>6, <1>7, <1>9, <1>10, Zenon DEF WriteChapter
<1>13. ~Fail(w)
  BY <1>2 DEF Fail
<1>14. \/ row # Null /\ chapters' = [chapters EXCEPT ![run[w].id][c] = updated]
       \/ IdsLeft /\ chapters' = [chapters EXCEPT ![run[w].id][c] = new]
  BY <1>11, <1>12, <1>13
<1>15. row # Null =>
         updated \in ChapterRow /\ updated.text = text /\ updated.position = place
  BY <1>4, <1>8, <1>9 DEF ChapterRow
<1>16. IdsLeft => new \in ChapterRow /\ new.text = text /\ new.position = place
  <2>1. IdsLeft => NewId \in Ids
    BY FreshUnused DEF IdsLeft, NewId
  <2> QED
    BY <1>8, <1>10, <2>1 DEF ChapterRow
<1> QED
  BY <1>5, <1>6, <1>14, <1>15, <1>16

LEMMA WriteChapterProgress ==
  ASSUME Inv, NEW w \in Workers, Latest(w), Progress(w), WriteChapter(w), quiet'[w]
  PROVE  Progress(w)'
<1>1. pc[w] \in InLab \ {"config", "images", "put"} /\ pc[w] \in HasId \ {"update"}
      /\ pc[w] \in InLab /\ pc[w] \in InLab \ {"config"} /\ pc[w] \in InChapter
      /\ pc[w] = "write" /\ UNCHANGED <<commits, labs, store>>
  BY DEF WriteChapter, InLab, HasId, InChapter, delivery
<1>2. /\ run \in [Workers -> Run] /\ run[w] \in Run /\ Chapter(w) \in Chapters
      /\ run[w].id \in Ids /\ OwnId(w)
      /\ run[w].position \in DOMAIN run[w].config.chapters
      /\ run[w].config.chapters \in Seq(Chapters)
      /\ chapters \in [Ids -> [Chapters -> ChapterRow \union {Null}]]
      /\ labs \in [Labs -> LabRow \union {Null}]
  BY <1>1, InLoop, Configured, TypesOfAll
  DEF Inv, WorkersType, ChaptersType, LabsType
<1>3. PICK c \in Chapters : c = Chapter(w)
  BY <1>2
<1>4. PICK value \in ChapterRow :
        /\ chapters' = [chapters EXCEPT ![run[w].id][c] = value]
        /\ value.text = run[w].text
        /\ value.position = Position(run[w].position)
  BY <1>3, RowIsDone
<1>5. /\ \A id \in Ids : id # run[w].id => chapters'[id] = chapters[id]
      /\ \A d \in Chapters \ {c} : chapters'[run[w].id][d] = chapters[run[w].id][d]
      /\ chapters'[run[w].id][c] = value
  BY <1>2, <1>4
<1>6. Beside(w)
  <2>1. \A l \in Labs \ {Lab(w)} :
          labs[l] # Null => labs[l].id \in Ids /\ labs[l].id # run[w].id
    BY <1>2 DEF OwnId, LabRow
  <2> QED
    BY <1>1, <1>5, <2>1 DEF Beside
<1>7. PICK place : place = run[w].position + 1
  OBVIOUS
<1>8. FromPosition(w, place, run[w])
  BY <1>7 DEF WriteChapter, Advance
<1>9. {"labs", "commit", "config", "id", "keep", "position", "text", "found"}
           \subseteq DOMAIN run[w]
  BY <1>2 DEF Run
<1>10. run'[w] = [run[w] EXCEPT !.position = place, !.text = Null, !.found = Null]
  BY <1>2, <1>8 DEF FromPosition
<1>11. /\ run'[w].labs = run[w].labs /\ run'[w].commit = run[w].commit
       /\ run'[w].config = run[w].config /\ run'[w].id = run[w].id
       /\ run'[w].keep = run[w].keep /\ run'[w].position = run[w].position + 1
  BY <1>7, <1>9, <1>10
<1>12. RowDone(w, c)'
  <2>1. Dir(w)' = Dir(w)
    BY <1>1, <1>11 DEF Lab, Tree, Dir
  <2>2. value # Null
    BY NullIsNoRow
  <2>3. value.text = Text(Dir(w).files[c], Dir(w))
    BY <1>1, <1>3, <1>4 DEF Progress, ChapterFetched
  <2>4. value.position + 1 = run[w].position
    <3>1. run[w].position \in Nat
      BY <1>2
    <3> QED
      BY <1>4, <3>1 DEF Position
  <2>5. run[w].config.chapters[run[w].position] = c
    BY <1>3 DEF Chapter
  <2> QED
    BY <1>2, <1>5, <1>11, <2>1, <2>2, <2>3, <2>4, <2>5 DEF RowDone
<1>13. ChaptersDone(w)'
  <2>1. ChaptersDone(w)
    BY <1>1 DEF Progress
  <2> QED
    BY <1>1, <1>3, <1>5, <1>11, <1>12, <2>1, ChaptersPassed
<1> QED
  BY <1>1, <1>6, <1>8, <1>9, <1>13, NextChapterProgress

\* A chapter that is not deleted is one of the configuration with its file,
\* and one that is deleted is not.
LEMMA LabIsMirrored ==
  ASSUME Inv, NEW w \in Workers, Latest(w), Progress(w), Prune(w), quiet'[w]
  PROVE  Beside(w) /\ \E l \in Labs : l = Lab(w) /\ Mirrored(l, head[l])'
<1> DEFINE dir == head[Lab(w)]
           id == run[w].id
<1>1. pc[w] \in InLab /\ pc[w] \in InLab \ {"config"} /\ pc[w] \in HasId \ {"update"}
      /\ pc[w] = "prune" /\ UNCHANGED <<commits, labs, store>>
  BY DEF Prune, InLab, HasId, delivery
<1>2. /\ quiet \in [Workers -> BOOLEAN] /\ run[w] \in Run
      /\ chapters \in [Ids -> [Chapters -> ChapterRow \union {Null}]]
      /\ labs \in [Labs -> LabRow \union {Null}]
      /\ id \in Ids /\ OwnId(w) /\ Lab(w) \in Labs /\ Dir(w) \in Dirs
      /\ run[w].config.chapters \in Seq(Chapters) /\ run[w].config # Null
      /\ run[w].position = Len(run[w].config.chapters) + 1 /\ KeepsPassed(w)
  BY <1>1, AtWork, Configured, TypesOfAll
  DEF Inv, WorkersType, ChaptersType, LabsType, Shape, HasId
<1>3. /\ chapters' = [chapters EXCEPT ![id] =
           [c \in Chapters |-> IF c \in run[w].keep THEN chapters[id][c] ELSE Null]]
  BY <1>2 DEF Prune, Fail
<1>4. /\ \A of \in Ids : of # id => chapters'[of] = chapters[of]
      /\ \A c \in Chapters :
           chapters'[id][c] = IF c \in run[w].keep THEN chapters[id][c] ELSE Null
  BY <1>2, <1>3
<1>5. Beside(w)
  <2>1. \A l \in Labs \ {Lab(w)} :
          labs[l] # Null => labs[l].id \in Ids /\ labs[l].id # id
    BY <1>2 DEF OwnId, LabRow
  <2> QED
    BY <1>1, <1>4, <2>1 DEF Beside
<1>6. /\ dir = Dir(w) /\ dir \in Dirs /\ dir # Null /\ dir.config = run[w].config
      /\ LabRowFound(w) /\ ImagesDone(w) /\ ChaptersDone(w) /\ ImagesToDo(w) = {}
  BY <1>1, <1>2, TreeIsHead, LabConstants DEF Progress, ImagesToDo
<1>7. ASSUME NEW c \in Chapters
      PROVE  IF c \in Elements(dir.config.chapters) /\ dir.files[c] # Null
             THEN /\ chapters'[id][c] # Null
                  /\ chapters'[id][c].text = Text(dir.files[c], dir)
                  /\ chapters'[id][c].position + 1 \in DOMAIN dir.config.chapters
                  /\ dir.config.chapters[chapters'[id][c].position + 1] = c
             ELSE chapters'[id][c] = Null
  <2>1. CASE c \in Elements(dir.config.chapters) /\ dir.files[c] # Null
    <3>1. PICK n \in DOMAIN run[w].config.chapters : c = run[w].config.chapters[n]
      BY <1>6, <2>1 DEF Elements
    <3>2. n \in 1 .. run[w].position - 1
      BY <1>2, <3>1
    <3>3. RowDone(w, c)
      BY <1>6, <2>1, <3>1, <3>2 DEF ChaptersDone
    <3>4. c \in run[w].keep
      BY <1>1, <1>2, <1>6, <2>1, <3>1, <3>2 DEF KeepsPassed, Passed
    <3> QED
      BY <1>4, <1>6, <2>1, <3>3, <3>4 DEF RowDone
  <2>2. CASE ~(c \in Elements(dir.config.chapters) /\ dir.files[c] # Null)
    <3>1. c \notin run[w].keep
      BY <1>6, <2>2 DEF ChaptersDone
    <3> QED
      BY <1>4, <2>2, <3>1
  <2> QED
    BY <2>1, <2>2
<1>8. labs[Lab(w)] # Null /\ labs[Lab(w)].id = id /\ labs[Lab(w)].meta = dir.config.meta
  BY <1>1, <1>6 DEF LabRowFound
<1>9. \A i \in ImagesOf(dir) : store'[Lab(w)][i] = dir.images[i]
  BY <1>1, <1>6 DEF ImagesDone
<1>10. PICK l \in Labs : l = Lab(w)
  BY <1>2
<1>11. Mirrored(l, head[l])'
  <2>1. head' = head
    BY <1>1 DEF head
  <2>2. labs'[l] = labs[l]
    BY <1>1
  <2> QED
    BY <1>6, <1>7, <1>8, <1>9, <1>10, <2>1, <2>2 DEF Mirrored
<1> QED
  BY <1>5, <1>10, <1>11


LEMMA PruneProgress ==
  ASSUME Inv, NEW w \in Workers, Latest(w), Progress(w), Prune(w), quiet'[w]
  PROVE  Progress(w)'
<1>1. pc[w] \in InLab /\ UNCHANGED commits /\ NextLab(w)
  BY DEF Prune, InLab, delivery
<1>2. /\ pc \in [Workers -> Steps] /\ run \in [Workers -> Run] /\ Lab(w) \in run[w].labs
  BY <1>1, AtWork, TypesOfAll DEF Inv, WorkersType
<1>3. PICK l \in Labs : l = Lab(w) /\ Mirrored(l, head[l])'
  BY LabIsMirrored
<1>4. Beside(w) /\ DoneWith(w)
  BY <1>1, LabIsMirrored DEF Progress
<1>5. PICK rest : rest = run[w].labs \ {l}
  OBVIOUS
<1>6. /\ run'[w] = [NoRun EXCEPT !.commit = run[w].commit, !.labs = rest]
      /\ pc'[w] = IF rest = {} THEN "sweep" ELSE "config"
  BY <1>1, <1>2, <1>3, <1>5 DEF NextLab
<1>7. run'[w].labs = rest /\ run'[w].keep = {}
  BY <1>6 DEF NoRun
<1>8. head' = head
  BY <1>1 DEF head
<1>9. ASSUME NEW m \in Discovered(head)' \ run'[w].labs
      PROVE  Mirrored(m, head[m])'
  <2>1. m \in Labs /\ m \in Discovered(head) /\ (m = l \/ m \notin run[w].labs)
    BY <1>5, <1>7, <1>8, <1>9 DEF Discovered
  <2>2. CASE m = l
    BY <1>3, <2>2
  <2>3. CASE m # l
    <3>1. Mirrored(m, head[m]) /\ m \in Labs \ {Lab(w)}
      BY <1>3, <1>4, <2>1, <2>3 DEF DoneWith
    <3> QED
      BY <1>1, <1>4, <3>1, BesideMirrored
  <2> QED
    BY <2>2, <2>3
<1>10. DoneWith(w)'
  BY <1>9 DEF DoneWith
<1> QED
  BY <1>6, <1>7, <1>10 DEF Progress, KeepsNone, InLab, HasId, InChapter

\* What the commit has not got is deleted, and nothing else.
LEMMA SweepProgress ==
  ASSUME Inv, NEW w \in Workers, Latest(w), Progress(w), Sweep(w), quiet'[w]
  PROVE  Progress(w)'
<1>1. pc[w] = "sweep" /\ UNCHANGED <<commits, store, run>>
  BY DEF Sweep, delivery
<1>2. /\ pc \in [Workers -> Steps] /\ quiet \in [Workers -> BOOLEAN]
      /\ labs \in [Labs -> LabRow \union {Null}]
  BY TypesOfAll DEF Inv, WorkersType, LabsType
<1>3. pc'[w] = "done"
  BY <1>2 DEF Sweep
<1>4. PICK gone : gone = Labs \ Discovered(head)
  OBVIOUS
<1>5. /\ labs' = [l \in Labs |-> IF l \in gone THEN Null ELSE labs[l]]
      /\ chapters' = DeletedChapters(gone)
  BY <1>2, <1>4, TreeIsHead DEF Sweep, Fail, Gone
<1>6. run[w].labs = {} /\ DoneWith(w) /\ head' = head
  BY <1>1 DEF Progress, head
<1>7. ASSUME NEW l \in Labs
      PROVE  Mirrored(l, head[l])'
  <2>1. CASE l \in gone
    <3>1. head[l] = Null /\ labs'[l] = Null
      BY <1>4, <1>5, <2>1 DEF Discovered
    <3> QED
      BY <1>6, <3>1 DEF Mirrored
  <2>2. CASE l \notin gone
    <3>1. Mirrored(l, head[l]) /\ head[l] # Null
      BY <1>4, <1>6, <2>2 DEF DoneWith, Discovered
    <3>2. labs'[l] = labs[l] /\ store'[l] = store[l]
      BY <1>1, <1>5, <2>2
    <3>3. labs[l] # Null => chapters'[labs[l].id] = chapters[labs[l].id]
      <4>1. ASSUME labs[l] # Null
            PROVE  /\ labs[l].id \in Ids
                   /\ ~\E m \in gone : labs[m] # Null /\ labs[m].id = labs[l].id
        BY <1>2, <1>4, <2>2, <4>1 DEF LabRow, Inv, UniqueIds
      <4> QED
        BY <1>5, <4>1 DEF DeletedChapters
    <3> QED
      BY <1>6, <3>1, <3>2, <3>3 DEF Mirrored
  <2> QED
    BY <2>1, <2>2
<1>8. run'[w].commit \in DOMAIN commits'
  BY <1>1 DEF Inv, Shape
<1> QED
  BY <1>3, <1>7, <1>8 DEF Progress, KeepsNone, InLab, HasId, InChapter

\* A run begins with everything to do.
LEMMA StartProgress ==
  ASSUME Inv, NEW w \in Workers, Start(w), Latest(w)'
  PROVE  Progress(w)'
<1>1. /\ pc \in [Workers -> Steps] /\ run \in [Workers -> Run]
  BY TypesOfAll DEF Inv, WorkersType
<1>2. UNCHANGED commits /\ pc'[w] # "idle" /\ run'[w].commit = Len(commits)
  BY DEF Start, Latest
<1>3. PICK n \in DOMAIN commits :
        /\ run'[w] = [NoRun EXCEPT !.commit = n, !.labs = Discovered(commits[n])]
        /\ pc'[w] = IF Discovered(commits[n]) = {} THEN "sweep" ELSE "config"
  BY <1>1, <1>2 DEF Start
<1>4. n = Len(commits) /\ run'[w].labs = Discovered(head) /\ run'[w].keep = {}
  BY <1>2, <1>3 DEF NoRun, head
<1>5. head' = head
  BY <1>2 DEF head
<1>6. DoneWith(w)'
  BY <1>4, <1>5 DEF DoneWith, Discovered
<1> QED
  BY <1>3, <1>4, <1>6 DEF Progress, KeepsNone, InLab, HasId, InChapter, head

LEMMA OwnProgress ==
  ASSUME Inv, QuietInv, NEW w \in Workers,
         Start(w) \/ LabStep(w) \/ ChapterStep(w) \/ Sweep(w) \/ Crash(w),
         Latest(w)'
  PROVE  Progress(w)'
<1>1. /\ pc \in [Workers -> Steps] /\ run \in [Workers -> Run]
      /\ quiet \in [Workers -> BOOLEAN]
  BY TypesOfAll DEF Inv, WorkersType
<1>2. ~Crash(w)
  BY <1>1 DEF Crash, Latest
<1>3. CASE LabStep(w) \/ ChapterStep(w) \/ Sweep(w)
  <2>1. pc[w] # "idle" /\ UNCHANGED commits
    BY <1>3 DEF LabStep, ChapterStep, FetchConfig, ReadLab, UpdateLab, InsertLab,
                ListStates, Prune, HeadImage, PutImage, FetchChapter, FindChapter,
                WriteChapter, Sweep, delivery
  <2>2. quiet'[w] => quiet[w]
    <3>1. UNCHANGED quiet \/ Fail(w) \/ WriteBy(w) \/ Interfere
      BY <1>3 DEF LabStep, ChapterStep, FetchConfig, ReadLab, UpdateLab, InsertLab,
                  ListStates, Prune, HeadImage, PutImage, FetchChapter, FindChapter,
                  WriteChapter, Sweep, SkipLab
    <3> QED
      BY <1>1, <3>1 DEF Fail, WriteBy, Interfere
  <2>3. run'[w].commit = run[w].commit
    <3>1. run[w] \in Run
      BY <1>1
    <3>2. NextLab(w) => run'[w].commit = run[w].commit
      BY <1>1 DEF NextLab, NoRun
    <3>3. ASSUME NEW n, NEW held, FromPosition(w, n, held), "commit" \in DOMAIN held,
                 held.commit = run[w].commit
          PROVE  run'[w].commit = run[w].commit
      <4>1. run'[w] = [held EXCEPT !.position = n, !.text = Null, !.found = Null]
        BY <1>1, <3>3 DEF FromPosition
      <4> QED
        BY <3>3, <4>1
    <3>4. Advance(w) => run'[w].commit = run[w].commit
      BY <3>1, <3>3 DEF Advance, Run
    <3>5. CASE FetchConfig(w) \/ ReadLab(w) \/ UpdateLab(w) \/ InsertLab(w) \/ Prune(w)
      <4>1. \/ NextLab(w) \/ UNCHANGED run
            \/ \E id : run' = [run EXCEPT ![w].id = id]
            \/ \E config, images :
                 run' = [run EXCEPT ![w].config = config, ![w].images = images]
        <5>1. CASE FetchConfig(w)
          BY <5>1 DEF FetchConfig, SkipLab
        <5>2. CASE ReadLab(w) \/ UpdateLab(w) \/ InsertLab(w) \/ Prune(w)
          BY <5>2 DEF ReadLab, UpdateLab, InsertLab, Prune, SkipLab
        <5> QED
          BY <3>5, <5>1, <5>2
      <4>2. ASSUME NEW id, run' = [run EXCEPT ![w].id = id]
            PROVE  run'[w].commit = run[w].commit
        BY <1>1, <3>1, <4>2 DEF Run
      <4>3. ASSUME NEW config, NEW images,
                   run' = [run EXCEPT ![w].config = config, ![w].images = images]
            PROVE  run'[w].commit = run[w].commit
        BY <1>1, <3>1, <4>3 DEF Run
      <4> QED
        BY <3>2, <4>1, <4>2, <4>3
    <3>6. CASE (\E i \in Images : HeadImage(w, i)) \/ PutImage(w) \/ Sweep(w)
      <4>1. \/ UNCHANGED run
            \/ \E image : run' = [run EXCEPT ![w].image = image]
            \/ \E i : run' = [run EXCEPT ![w].images = @ \ {i}, ![w].image = Null]
        BY <3>6 DEF HeadImage, PutImage, EndImage, Sweep
      <4>2. ASSUME NEW image, run' = [run EXCEPT ![w].image = image]
            PROVE  run'[w].commit = run[w].commit
        BY <1>1, <3>1, <4>2 DEF Run
      <4>3. ASSUME NEW i, run' = [run EXCEPT ![w].images = @ \ {i}, ![w].image = Null]
            PROVE  run'[w].commit = run[w].commit
        BY <1>1, <3>1, <4>3 DEF Run
      <4> QED
        BY <4>1, <4>2, <4>3
    <3>7. CASE ListStates(w)
      <4>1. \/ SkipLab(w)
            \/ \E texts : FromPosition(w, 1, [run[w] EXCEPT !.existing = texts])
        BY <3>7 DEF ListStates
      <4>2. ASSUME NEW texts, FromPosition(w, 1, [run[w] EXCEPT !.existing = texts])
            PROVE  run'[w].commit = run[w].commit
        <5>1. PICK held : held = [run[w] EXCEPT !.existing = texts]
          OBVIOUS
        <5>2. "commit" \in DOMAIN held /\ held.commit = run[w].commit
          BY <3>1, <5>1 DEF Run
        <5> QED
          BY <3>3, <4>2, <5>1, <5>2
      <4> QED
        BY <3>2, <4>1, <4>2 DEF SkipLab
    <3>8. CASE FetchChapter(w)
      <4>1. \/ Advance(w)
            \/ \E keep, text : run' = [run EXCEPT ![w].keep = keep, ![w].text = text]
            \/ \E keep : FromPosition(w, run[w].position + 1,
                                      [run[w] EXCEPT !.keep = keep])
        BY <3>8 DEF FetchChapter
      <4>2. ASSUME NEW keep, FromPosition(w, run[w].position + 1,
                                          [run[w] EXCEPT !.keep = keep])
            PROVE  run'[w].commit = run[w].commit
        <5>1. PICK held : held = [run[w] EXCEPT !.keep = keep]
          OBVIOUS
        <5>2. "commit" \in DOMAIN held /\ held.commit = run[w].commit
          BY <3>1, <5>1 DEF Run
        <5> QED
          BY <3>3, <4>2, <5>1, <5>2
      <4>3. ASSUME NEW keep, NEW text,
                   run' = [run EXCEPT ![w].keep = keep, ![w].text = text]
            PROVE  run'[w].commit = run[w].commit
        BY <1>1, <3>1, <4>3 DEF Run
      <4> QED
        BY <3>4, <4>1, <4>2, <4>3
    <3>9. CASE FindChapter(w) \/ WriteChapter(w)
      BY <1>1, <3>1, <3>4, <3>9 DEF FindChapter, WriteChapter, Run
    <3> QED
      BY <1>3, <3>5, <3>6, <3>7, <3>8, <3>9 DEF LabStep, ChapterStep
  <2>4. quiet'[w] /\ Latest(w) /\ Progress(w)
    BY <2>1, <2>2, <2>3 DEF Latest, QuietInv
  <2> QED
    BY <1>3, <2>4, FetchConfigProgress, HeadImageProgress, PutImageProgress,
       ReadLabProgress, UpdateLabProgress, InsertLabProgress, ListStatesProgress,
       FetchChapterProgress, FindChapterProgress, WriteChapterProgress,
       PruneProgress, SweepProgress
    DEF LabStep, ChapterStep
<1> QED
  BY <1>2, <1>3, StartProgress


\* The worker itself is done only after the last deletion.
LEMMA DoneHasCommit ==
  ASSUME Inv, NEW w \in Workers,
         Start(w) \/ LabStep(w) \/ ChapterStep(w) \/ Sweep(w) \/ Crash(w),
         pc'[w] = "done"
  PROVE  run'[w].commit \in DOMAIN commits'
<1>1. pc \in [Workers -> Steps]
  BY TypesOfAll DEF Inv, WorkersType
<1>2. CASE Start(w) \/ Crash(w)
  BY <1>1, <1>2 DEF Start, Crash
<1>3. CASE LabStep(w)
  BY <1>1, <1>3 DEF LabStep, FetchConfig, ReadLab, UpdateLab, InsertLab, ListStates,
                    Prune, HeadImage, PutImage, EndImage, SkipLab, NextLab, FromPosition
<1>4. CASE ChapterStep(w)
  BY <1>1, <1>4 DEF ChapterStep, FetchChapter, FindChapter, WriteChapter, Advance,
                    FromPosition
<1>5. CASE Sweep(w)
  BY <1>5 DEF Sweep, Inv, Shape, delivery
<1> QED
  BY <1>2, <1>3, <1>4, <1>5

LEMMA QuietInvStep ==
  ASSUME Inv, QuietInv, [Next]_vars
  PROVE  QuietInv'
<1>1. ASSUME NEW w \in Workers,
             Start(w) \/ LabStep(w) \/ ChapterStep(w) \/ Sweep(w) \/ Crash(w)
      PROVE  QuietInv'
  <2>1. ASSUME NEW v \in Workers, pc'[v] = "done"
        PROVE  run'[v].commit \in DOMAIN commits'
    <3>1. CASE v = w
      BY <1>1, <2>1, <3>1, DoneHasCommit
    <3>2. CASE v # w
      BY <1>1, <2>1, <3>2, OthersRest DEF QuietInv
    <3> QED
      BY <3>1, <3>2
  <2>2. ASSUME NEW v \in Workers, Latest(v)'
        PROVE  Progress(v)'
    <3>1. CASE v = w
      BY <1>1, <2>2, <3>1, OwnProgress
    <3>2. CASE v # w
      BY <1>1, <2>2, <3>2, OthersKeepProgress
    <3> QED
      BY <3>1, <3>2
  <2> QED
    BY <2>1, <2>2 DEF QuietInv
\* A push leaves every run with a commit of the past.
<1>2. ASSUME NEW l \in Labs, Push(l)
      PROVE  QuietInv'
  <2>1. PICK dir : commits' = Append(commits, [head EXCEPT ![l] = dir])
    BY <1>2 DEF Push
  <2>2. UNCHANGED <<pc, run>>
    BY <1>2 DEF Push
  <2>3. commits \in Seq([Labs -> Dirs \union {Null}]) /\ Len(commits) \in Nat
        /\ DOMAIN commits = 1 .. Len(commits)
    BY CommitsCounted
  <2>4. Len(commits') = Len(commits) + 1 /\ DOMAIN commits' = 1 .. Len(commits) + 1
    BY <2>1, <2>3
  <2>5. ASSUME NEW w \in Workers, pc[w] # "idle"
        PROVE  run[w].commit \in DOMAIN commits
    <3>1. pc[w] \in InLab \union {"sweep"} \/ pc[w] = "done"
      BY <2>5, TypesOfAll DEF Inv, WorkersType, Steps, Settled
    <3> QED
      BY <3>1 DEF QuietInv, Inv, Shape
  <2>6. \A w \in Workers : ~Latest(w)'
    BY <2>2, <2>3, <2>4, <2>5 DEF Latest
  <2> QED
    BY <2>2, <2>3, <2>4, <2>5, <2>6 DEF QuietInv
<1>3. ASSUME UNCHANGED <<commits, database, pc, run, quiet>>
      PROVE  QuietInv'
  <2>1. ASSUME NEW w \in Workers, Latest(w)'
        PROVE  Progress(w)'
    <3>1. Progress(w)
      BY <1>3, <2>1 DEF Latest, QuietInv
    <3> QED
      BY <1>3, <3>1, ProgressRests
  <2> QED
    BY <1>3, <2>1 DEF QuietInv
<1>4. ASSUME (\E n \in DOMAIN commits : Redeliver(n)) \/ UNCHANGED vars
      PROVE  UNCHANGED <<commits, database, pc, run, quiet>>
  BY <1>4 DEF Redeliver, vars, delivery
<1> QED
  BY <1>1, <1>2, <1>3, <1>4 DEF Next

\* A run of the last commit in which nothing failed and nobody else wrote
\* mirrors it, deletions included, whatever earlier runs and runs in between
\* have left behind (2026-07-28-labs-feature/index.md:183-186,
\* webhooks.rs:905-1100).
THEOREM QuietRunMirrorsLabsHolds == Spec => []QuietRunMirrorsLabs
<1>1. Init => QuietInv
  BY DEF Init, QuietInv, Latest
<1>2. Inv /\ QuietInv /\ [Next]_vars => QuietInv'
  BY QuietInvStep
<1>3. QuietInv => QuietRunMirrorsLabs
  <2>1. ASSUME QuietInv, NEW w \in Workers,
               pc[w] = "done", quiet[w], run[w].commit = Len(commits)
        PROVE  \A l \in Labs : Mirrored(l, head[l])
    <3>1. Progress(w)
      BY <2>1 DEF QuietInv, Latest
    <3> QED
      BY <2>1, <3>1 DEF Progress
  <2> QED
    BY <2>1 DEF QuietRunMirrorsLabs
<1> QED
  BY InvHolds, <1>1, <1>2, <1>3, PTL DEF Spec
=============================================================================
