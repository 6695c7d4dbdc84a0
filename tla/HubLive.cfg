CONSTANTS
  Keys = {k1}
  Values = {v1}
  Services = {c1, c2}
  Entry = Entry
  Unsent = Unsent
SPECIFICATION FairSpec
PROPERTIES TearDownIsTold RecoveryIsShown
CHECK_DEADLOCK FALSE
