\* Three processes push and pop and may die anywhere.
SPECIFICATION Spec
CONSTANTS
  p1 = p1
  p2 = p2
  p3 = p3
  v1 = v1
  Nil = Nil
  Garbage = Garbage
  Proc = {p1, p2, p3}
  Cap = 1
  Val = {v1}
  Modes = {}
  Pushers = {p1, p2, p3}
  Poppers = {p1, p2, p3}
  Dumpers = {}
  Mortal = {p1, p2, p3}
SYMMETRY ProcSymmetry
INVARIANTS TypeOK MutualExclusion BoundedOvershoot EntryAfterSetup
CHECK_DEADLOCK FALSE
