CONSTANTS
  Callers = {c1}
  Readers = {r1, r2, r3}
  Sockets = {s1, s2}
  None = None
  AutoReconnect = TRUE
SPECIFICATION FairSpec
PROPERTIES OpenAnswered CloseCompletes NoSocketStalls Recovers
