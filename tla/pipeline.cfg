\* Two lines of up to three commands, and every failure.
SPECIFICATION FairSpec
CONSTANTS
  Files <- MCFiles
  MaxLines = 2
  Width = 3
  Unterminated <- MCUnterminated
  Items = 3
  PipeSize = 1
INVARIANTS TypeOK OwnLine HeldOnTheLeft NothingLost
PROPERTIES WorkersEnd PipelinesEnd
CHECK_DEADLOCK FALSE
