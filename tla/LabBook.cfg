CONSTANTS
  Labs = {lab, lab2}
  Chapters = {intro, setup}
  Images = {figure}
  Workers = {w1}
  Dirs <- BookDirs
  Ids = {d1, d2, d3, d4, d5, d6, d7, d8}
  Null = Null
  MaxPushes = 2
  MaxRuns = 2
  intro = intro
  setup = setup
  figure = figure
  title = title
  title2 = title2
  text = text
  text2 = text2
  sha = sha
  sha2 = sha2
SPECIFICATION Spec
CHECK_DEADLOCK FALSE
INVARIANTS ChapterHtmlCurrent NoOrphans QuietRunMirrorsLabs
