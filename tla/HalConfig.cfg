\* Two globals, two rules, every kind of upload; files cut short, marks, restarts.
CONSTANTS
  Global = {g, h}
  plain = plain
  long = long
  quoted = quoted
  rule = rule
  other = other
  Value <- Values
  Shown <- Shorter
  Guid = {r1, r2}
  Body <- Bodies
  Marked <- Marks
  Upload <- Uploads
  FirstFile <- Installed
  ReuseGuids = FALSE
  MaxRules = 2
SYMMETRY Alike
SPECIFICATION Spec
INVARIANTS TypeOK GlobalsAreKept RulesAreKept RestartChangesNothing
