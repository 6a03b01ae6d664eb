\* The same rules with the queries as the bundled XML library reads them.
CONSTANTS
  Grouping = FALSE
  MinuteSeconds = 4
  HourMinutes = 2
  DayHours = 2
  Documents <- MCDocuments
  DefaultClock = 3
  DefaultSched = 3
  Fractions = 2
  MaxTurn = 5
  Start = 16
  Horizon = 52
SPECIFICATION Spec
PROPERTIES DueRuleRuns
CHECK_DEADLOCK FALSE
