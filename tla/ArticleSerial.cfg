SPECIFICATION Spec
CONSTANTS
  Null = Null
  t1 = t1
  t2 = t2
  Tags = {t1, t2}
  Sources <- ThreeRevisions
  Backfill = Backfill
  Embedder = Embedder
  Slugs = {1, 2}
  Workers = {w1}
  Tools = {Embedder}
  MaxPushes = 2
  MaxRuns = 2
INVARIANTS HtmlCurrent CountsExact QuietEmbedderRepairs
PROPERTIES PublishedAtKept
CHECK_DEADLOCK FALSE
