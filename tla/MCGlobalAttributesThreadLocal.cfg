\* getThreadLocalMode reads the storage class.
CONSTANTS
  NoInit = NoInit
  Initializer = {k1}
  Section = {"", "s"}
  Alignment = {0, 1, 536870912}
  Misfits = {}
SPECIFICATION Spec
INVARIANT ThreadLocalModeAsAsked
CHECK_DEADLOCK FALSE
