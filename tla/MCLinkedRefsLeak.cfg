\* A lost count keeps an object for ever.
CONSTANTS
  Context = {c1, c2}
  Cell = {r1, r2}
  Object = {m1, o1, o2}
  Module = {m1}
  None = None
  Mismatched = TRUE
  MaxRc = 2
SPECIFICATION Spec
INVARIANT NothingOutlivesItsUse
CHECK_DEADLOCK FALSE
