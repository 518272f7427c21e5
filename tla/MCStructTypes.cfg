\* Three structs, two names; recursive structs and every operation.
CONSTANTS
  s1 = s1
  s2 = s2
  s3 = s3
  a = a
  b = b
  Struct = {s1, s2, s3}
  Name = {a, b}
  NoName = NoName
  None = None
  Pure <- PureTypes
  Body <- Bodies
  MaxSuffix = 1
SPECIFICATION Spec
INVARIANTS TypeOK NamesAreUnique RoundTrips
PROPERTIES StructsAreStable FinitePurifyEnds
CHECK_DEADLOCK FALSE
