\* The registry: its list, its promise as leases, its liveness.
CONSTANTS
  Port <- MCPorts
  AnnouncedInterval <- MCIntervals
  NoInterval = NoInterval
  Socket = {s1, s2, s3}
  PortSpace = 8
  Minute = 1
  DefaultInterval = 0
  MaxInterval = 1
  GrowBy = 2
  AgeCap = 3
  CopyOrder <- Forward
SPECIFICATION FairSpec
INVARIANTS TypeOK WithinAllocation NoSocketLeak NoDuplicateDelivery SweepInList
PROPERTIES ImplementsLeases AnnounceIsEchoed SilentClientIsDropped RemovalTakesOnlyThePassedClient
