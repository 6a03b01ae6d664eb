\* The I/O loop, its tables changed by the handlers it runs.
CONSTANTS
  t1 = t1
  t2 = t2
  Device = {d1}
  TimeoutHandler = {t1, t2}
  Interval <- MCInterval
  Second = 2
  HeartbeatCheck = 3
  HubConfirmed = TRUE
  Timeout <- MCTimeouts
  Effect = {"add", "remove own device", "stop"}
  MaxStarts = 2
  Interface = {i1}
  AssignedPort = {p1}
SPECIFICATION FairSpec
INVARIANTS TypeOK LoopsStayInTheTables ConnectionIsConsistent
PROPERTIES EveryDueTimerRuns ReadyDeviceIsServed TimersAreServed CallReturns
