\* One process pushes, another pops, both dump without waiting, both may die.
SPECIFICATION FairSpec
CONSTANTS
  p1 = p1
  p2 = p2
  v1 = v1
  Nil = Nil
  Garbage = Garbage
  Proc = {p1, p2}
  Cap = 1
  Val = {v1}
  Modes = {"NO_WAIT", "WAIT_TIME"}
  Pushers = {p1}
  Poppers = {p2}
  Dumpers = {p1, p2}
  Mortal = {p1, p2}
PROPERTIES UnitLostOnlyByDeath CallsReturn
CHECK_DEADLOCK FALSE
