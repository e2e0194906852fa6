\* Two clients, two servers one after the other, everything that can fail.
SPECIFICATION FairSpec
CONSTANTS
  c1 = c1
  c2 = c2
  Client = {c1, c2}
  Typed = {"print", "badcd", "ls", "bash", "exit", "CLOSE_SERVER"}
  MaxSends <- Sends
  MaxRuns = 2
INVARIANTS TypeOK InStep OwnServer
PROPERTIES NobodyLeftWaiting
CHECK_DEADLOCK FALSE
