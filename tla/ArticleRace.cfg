SPECIFICATION Spec
CONSTANTS
  Null = Null
  t1 = t1
  t2 = t2
  Tags = {t1, t2}
  Sources <- Revisions
  Backfill = Backfill
  Embedder = Embedder
  Slugs = {1}
  Workers = {w1, w2}
  Tools = {Backfill}
  MaxPushes = 2
  MaxRuns = 3
SYMMETRY WorkerSymmetry
INVARIANTS RowFromOneCommit QuietRunMirrors QuietBackfillFills
CHECK_DEADLOCK FALSE
