\* Two files whose names are short or long, and a user who changes them at any time.
SPECIFICATION FairSpec
CONSTANTS
  f1 = f1
  f2 = f2
  File = {f1, f2}
  Namings <- MCNamings
  MaxChanges = 3
  QueueSize = 2
  MaxBatch = 2
CONSTRAINT MCFewerChanges
INVARIANTS TypeOK InSync
PROPERTIES Converges
CHECK_DEADLOCK FALSE
