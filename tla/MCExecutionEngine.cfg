\* Two engines, over one module or two, in two contexts.
CONSTANTS
  Context = {c1, c2}
  Cell = {r1, r2}
  Object = {m1, m2, o1}
  Module = {m1, m2}
  None = None
  Mismatched = FALSE
  MaxRc = 2
  Engine = {e1, e2}
  Wanted = {"either", "jit", "interpreter"}
  UInt32Size = 2
  WordSize = 4
  IntSizes = {2, 4}
  ParamLists <- SomeParamLists
  ArgLists <- SomeArgLists
  EnvLists <- SomeEnvLists
  Edited = "x"
SYMMETRY Symmetry
SPECIFICATION RunSpec
INVARIANTS EngineTypeOK NothingOutlivesItsUse ModuleRefsAreValid HeldFunctionsRun
  MainGetsItsParameters LeanStringsStay ExitCodesAreReturned
CHECK_DEADLOCK FALSE
