\* Floats and arrays are not read back.
CONSTANTS
  WordBits = 4
  IntBits = 3
  Widths = {1, 2, 3, 4, 5, 8, 9, 12}
  Literals <- Numbers
  Doubles <- Doubles2
  MaxLength = 1
SPECIFICATION Spec
INVARIANT PayloadReadsBack
CHECK_DEADLOCK FALSE
