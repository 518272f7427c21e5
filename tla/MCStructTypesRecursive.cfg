\* Parsed modules bring structs that point to themselves.
CONSTANTS
  s1 = s1
  s2 = s2
  s3 = s3
  a = a
  b = b
  Struct = {s1, s2, s3}
  Name = {a, b}
  NoName = NoName
  None = None
  Pure <- PureTypes
  Body <- Bodies
  MaxSuffix = 1
SPECIFICATION Spec
PROPERTY PurifyEnds
CHECK_DEADLOCK FALSE
