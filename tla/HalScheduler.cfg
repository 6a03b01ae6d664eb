\* A week of rules as the queries are meant: late turns, uploads. The horizon ends it.
CONSTANTS
  Grouping = TRUE
  MinuteSeconds = 4
  HourMinutes = 2
  DayHours = 2
  Documents <- MCDocuments
  DefaultClock = 3
  DefaultSched = 3
  Fractions = 2
  MaxTurn = 5
  Start = 16
  Horizon = 128
SPECIFICATION Spec
INVARIANTS TypeOK ActionsInOrder
PROPERTIES EachDueSecondTicksOnce DueRuleRuns
CHECK_DEADLOCK FALSE
