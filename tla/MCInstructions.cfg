\* The least and the greatest of the alignments that LLVM has, and of the
\* calling conventions.
CONSTANTS
  Block = {b1, b2, b3}
  Value = {v1, v2}
  None = None
  MaxOperands = 2
  ShiftVal = {0, 1, 3, 28, 29}
  ScopeId = {0, 1}
  Conventions = {0, 9, 101, 1023}
  GCNames = {"erlang", "ocaml"}
  NoGC = ""
  Bytes <- SomeBytes
  Texts <- SomeTexts
SPECIFICATION RefSpec
INVARIANTS TypeOK BranchesAsAsked OperandsAsAsked AccessAsAsked
  ReferencesAreOfTheirClass EveryTypeIsFoundAgain FunctionAttributesAsAsked StringsReadBack
CHECK_DEADLOCK FALSE
