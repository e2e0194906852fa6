\* Two processes push, one of them pops, in every waiting mode; both may die.
SPECIFICATION Spec
CONSTANTS
  p1 = p1
  p2 = p2
  v1 = v1
  v2 = v2
  Nil = Nil
  Garbage = Garbage
  Proc = {p1, p2}
  Cap = 2
  Val = {v1, v2}
  Modes = {"NO_WAIT", "WAIT_TIME"}
  Pushers = {p1, p2}
  Poppers = {p2}
  Dumpers = {}
  Mortal = {p1, p2}
INVARIANTS HeaderIntact
PROPERTIES AtomicStack
CHECK_DEADLOCK FALSE
