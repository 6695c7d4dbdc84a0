CONSTANTS
  Serials = {s1, s2}
  Keys = {k1, k2}
  None = None
  MinDelay = 2
  MaxDelay = 7
SYMMETRY Names
SPECIFICATION Spec
INVARIANTS CacheIsOwn AnswerFits InitializedIsWhole
PROPERTIES StallKeepsThePause
