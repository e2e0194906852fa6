\* Two clients and a tree of three watchers, of two when users are careless.
SPECIFICATION FairSpec
CONSTANTS
  a = a
  b = b
  NoClient = NoClient
  Client = {a, b}
  FifoSize = 1
  MaxWatchers = 3
  CarelessForks = 2
  MaxDeletes = 1
  MaxBatch = 1
CONSTRAINTS MCInOrder MCOneMishap MCTwoTrees
INVARIANTS TypeOK OneTree OrdersWhole Escapes
PROPERTIES StopEndsAll
CHECK_DEADLOCK FALSE
