CONSTANTS
  Labs = {lab}
  Chapters = {intro}
  Images = {}
  Workers = {w1, w2}
  Dirs <- PageDirs
  Ids = {d1, d2, d3, d4, d5, d6}
  Null = Null
  MaxPushes = 2
  MaxRuns = 3
  intro = intro
  setup = setup
  figure = figure
  title = title
  title2 = title2
  text = text
  text2 = text2
  sha = sha
  sha2 = sha2
SPECIFICATION Spec
CHECK_DEADLOCK FALSE
SYMMETRY Symmetry
INVARIANTS QuietRunMirrorsLabs
PROPERTY FailureDeletesNothing
