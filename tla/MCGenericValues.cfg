\* Words of four bits, an int of three.
CONSTANTS
  WordBits = 4
  IntBits = 3
  Widths = {1, 2, 3, 4, 5, 8, 9, 12}
  Literals <- Numbers
  Doubles <- Doubles2
  MaxLength = 1
SPECIFICATION Spec
INVARIANTS TypeOK TruncatedToFit ReadsBack NatsAreCanonical MasksDescribeConstants
CHECK_DEADLOCK FALSE
