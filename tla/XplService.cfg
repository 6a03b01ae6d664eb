\* A configurable service and a plain one; crashes, torn files, restarts.
CONSTANTS
  Service = {a, b}
  Configurable = {a}
  Name = {n1}
  FairlyUniqueName = unique
  NoItem = NoItem
  Minute = 2
  DefaultInterval = 1
  ConfigInterval = 1
  Discovery = 1
  ApiInterval <- MCApiIntervals
  ManagerInterval <- MCManagerIntervals
  AgeCap = 4
  SendMayFail = FALSE
  Use <- Answers
SPECIFICATION Spec
INVARIANTS TypeOK KeptHeartbeatIsCurrent 
