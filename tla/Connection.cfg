CONSTANTS
  Callers = {c1, c2}
  Readers = {r1, r2, r3}
  Sockets = {s1, s2}
  None = None
  AutoReconnect = TRUE
SYMMETRY Names
SPECIFICATION Spec
INVARIANTS ClosedIsQuiet OneReader
PROPERTIES OpenMeansLoaded RecoveryKept KeepsPromise
