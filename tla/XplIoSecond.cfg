\* What a call that waits a second exactly does on a silent network.
CONSTANTS
  t1 = t1
  t2 = t2
  Device = {}
  TimeoutHandler = {t1, t2}
  Interval <- MCInterval
  Second = 2
  HeartbeatCheck = 3
  HubConfirmed = TRUE
  Timeout <- MCSecond
  Effect = {"add"}
  MaxStarts = 1
  Interface = {i1}
  AssignedPort = {p1}
SPECIFICATION FairSpec
PROPERTIES CallReturnsAsSaid
