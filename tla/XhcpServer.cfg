\* Two clients, browsers or not, that may vanish at any moment.  A second
\* has four parts, counts one, and the limit is one.
CONSTANTS
  Client = {c, d}
  Fraction = 4
  Milli = 1
  Limit = 1
  EagerDot = FALSE
  Vanishing = TRUE
  MaxCommands = 2
  MaxLines = 2
SPECIFICATION FairSpec
INVARIANTS TypeOK ServerFollowsItsClient
PROPERTIES HandlerGetsItsText EveryClientIsServed
