SPECIFICATION LiveSpec
CONSTANTS
  MaxVersion = 2
  MaxDisconnects = 1
INVARIANTS
  StaleIsRebuilt
PROPERTIES
  PromiseKept
  InstallEnds
  Rebuilt
