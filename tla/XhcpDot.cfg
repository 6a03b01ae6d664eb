\* A client that sends its dot right behind its text.
CONSTANTS
  Client = {c}
  Fraction = 4
  Milli = 1
  Limit = 1
  EagerDot = TRUE
  Vanishing = FALSE
  MaxCommands = 2
  MaxLines = 2
SPECIFICATION FairSpec
PROPERTIES TextIsAnswered
\* A client and a server that wait for each other are what is looked for.
CHECK_DEADLOCK FALSE
