\* Two clients send at the same time.
SPECIFICATION Spec
CONSTANTS
  c1 = c1
  c2 = c2
  NoClient = NoClient
  Client = {c1, c2}
  Fd = {1, 2}
  BUFSZ = 2
  FdBase = 2
  FdLimit = 7
  Typed = {"cmd", "exit"}
  MaxSends = 1
  MaxLoss = 0
  TakeTurns = FALSE
INVARIANTS Isolated
CHECK_DEADLOCK FALSE
