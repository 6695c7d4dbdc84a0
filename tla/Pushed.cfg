CONSTANTS
  Averages = {0, 1, 2}
  Null = Null
  Bad = Bad
  Limit = 3
  Intervals = {0, 2}
  Max = 24
  Unit = 2
  Minute = 2
  Longest = 4
  Uptime = 3
  Sessions = 2
  Lists <- OfferedLists
  None = None
  Callers = {c1, c2}
  Keys = {k1, k2}
  NoKey = NoKey
  Frames = 2
SPECIFICATION MCSpec
INVARIANTS
  UpdateIsInstallable
  SwitchGetsItsKey
PROPERTIES
  PauseIsNotEnd
  NeverDips
  MinutesCarryOn
