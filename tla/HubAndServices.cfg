\* One program with one configurable service, beside a hub.
CONSTANTS
  Minute = 2
  DefaultInterval = 2
  AgeCap = 10
  NoInterval = NoInterval
  Socket = {s1}
  PortSpace = 8
  MaxInterval = 2
  GrowBy = 1
  CopyOrder <- Forward
  Service = {a}
  Configurable = {a}
  Name = {}
  FairlyUniqueName = unique
  NoItem = NoItem
  ConfigInterval = 1
  Discovery = 1
  ApiInterval <- MinuteAndAHalf
  ManagerInterval <- WithinAndBeyond
  Use <- NoUse
  OwnPort = 1
  MaxLost = 1
SPECIFICATION FairSpec
PROPERTIES  EnabledProgramIsRegistered DisabledProgramIsForgotten
