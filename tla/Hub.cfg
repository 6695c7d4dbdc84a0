CONSTANTS
  Keys = {k1, k2}
  Values = {v1, v2}
  Services = {c1, c2}
  Entry = Entry
  Unsent = Unsent
SYMMETRY Names
SPECIFICATION InTurnSpec
INVARIANTS ShownIsCurrent GoneIsSilent
PROPERTIES ValuesBeforeAnnouncement OutageTakesDown
CHECK_DEADLOCK FALSE
