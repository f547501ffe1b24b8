SPECIFICATION FairSpec
CONSTANTS
  Null = Null
  Workers = {w1, w2}
  Bodies <- SomeBodies
  HalfDays = 2
  MaxClock = 1
  MaxSaves = 3
  MaxClicks = 1
  MaxCrashes = 1
  MaxEvents = 3
INVARIANTS EveryItemShown TemplateIsOutline
PROPERTIES TickedStays TickTakesSubtree TodayComes
CHECK_DEADLOCK FALSE
