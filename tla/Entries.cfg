SPECIFICATION Spec
CONSTANTS
  Ids = {e1, e2}
  Serials = {s1, s2}
  Hosts = {h1}
  HostNames = {}
  People = {p1, p2}
  NoSerial = NoSerial
  ForkKey = ForkKey
  NoHost = NoHost
  NoId = NoId
SYMMETRY Symmetry
INVARIANTS
  OneHolder
  CardsAreFree
  ConnectedIsOwn
