\* Three commands, of which the first is the slave's own, and a shell quick or slow.
SPECIFICATION FairSpec
CONSTANTS
  Outputs <- MCOutputs
  BufLen = 4
  TtyLen = 2
  MaxCommands = 3
INVARIANTS Answers
PROPERTIES Replies
CHECK_DEADLOCK FALSE
