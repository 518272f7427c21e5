\* Programs that call every binding, those included whose two sides disagree.
CONSTANTS
  Context = {c1, c2}
  Cell = {r1, r2, r3}
  Object = {m1, o1, o2}
  Module = {m1}
  None = None
  Mismatched = TRUE
  MaxRc = 3
SYMMETRY Symmetry
SPECIFICATION Spec
INVARIANTS TypeOK CountsConserved NoDanglingRef
PROPERTY ImplementsContract
CHECK_DEADLOCK FALSE
