CONSTANTS
  Platforms = {"switch", "number", "select", "preset", "time", "button", "binary"}
  Limit = 1
  Amounts <- AskedAmounts
  Moments <- AskedMoments
  Reports <- ReportedValues
  Presets <- ListedPresets
  Largest = 1000000000
  None = None
SPECIFICATION Spec
INVARIANTS
  ShownIsCharger
  AskedIsShown
  EnergyHasItsUnit
