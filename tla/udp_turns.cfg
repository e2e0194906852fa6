\* Clients that do not send at the same time, and a network that loses nothing.
SPECIFICATION FairSpec
CONSTANTS
  c1 = c1
  c2 = c2
  NoClient = NoClient
  Client = {c1, c2}
  Fd = {1, 2}
  BUFSZ = 2
  FdBase = 2
  FdLimit = 7
  Typed = {"cmd", "cd2", "bash", "exit", "CLOSE_SERVER"}
  MaxSends = 2
  MaxLoss = 0
  TakeTurns = TRUE
INVARIANTS TypeOK Isolated Routed StopsOnRequest
PROPERTIES Answered
CHECK_DEADLOCK FALSE
