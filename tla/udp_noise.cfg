\* A network that loses a datagram, so that the server misreads all that follows.
SPECIFICATION Spec
CONSTANTS
  c1 = c1
  c2 = c2
  c3 = c3
  NoClient = NoClient
  Client = {c1, c2, c3}
  Fd = {1, 2, 3}
  BUFSZ = 2
  FdBase = 2
  FdLimit = 7
  Typed = {"cmd", "exit"}
  MaxSends = 1
  MaxLoss = 1
  TakeTurns = TRUE
INVARIANTS FreeListExact TableBounded ShutdownReachesSlaves
PROPERTIES IdsAreExclusive
SYMMETRY ClientSymmetry
CHECK_DEADLOCK FALSE
