\* The context may be dropped before the engine.
CONSTANTS
  Context = {c1}
  Cell = {r1, r2}
  Object = {m1, o1}
  Module = {m1}
  None = None
  Mismatched = FALSE
  MaxRc = 2
  Engine = {e1}
  Wanted = {"either", "jit", "interpreter"}
  UInt32Size = 2
  WordSize = 4
  IntSizes = {2, 4}
  ParamLists <- SomeParamLists
  ArgLists <- SomeArgLists
  EnvLists <- SomeEnvLists
  Edited = "x"
SPECIFICATION RunSpec
INVARIANT FinalizerFindsModules
CHECK_DEADLOCK FALSE
