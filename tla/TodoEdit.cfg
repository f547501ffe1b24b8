SPECIFICATION Spec
CONSTANTS
  Null = Null
  Workers = {w1}
  Bodies <- SomeBodies
  HalfDays = 2
  MaxClock = 1
  MaxSaves = 2
  MaxClicks = 1
  MaxCrashes = 1
  MaxEvents = 4
INVARIANT DayOfOneTemplate
CHECK_DEADLOCK FALSE
