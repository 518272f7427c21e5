\* Two functions and a variable that may all be given the same name.
CONSTANTS
  Fun = {f1, f2}
  Glob = {g1}
  Block = {b1, b2, b3}
  Inst = {i1, i2, i3}
  Name = {n1}
  NoName = NoName
  None = None
  MaxSuffix = 2
  MaxDepth = 3
SYMMETRY Symmetry
SPECIFICATION Spec
INVARIANTS
  TypeOK
  EverythingAttached
  BodiesRunInModule
  EntryComesFirst
  NamesAreUnique
PROPERTIES
  LookupsAreStable
  BodiesAreBracketed
CHECK_DEADLOCK FALSE
