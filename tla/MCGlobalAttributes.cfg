\* Programs that call every operation; ofConstant only for constants.
CONSTANTS
  NoInit = NoInit
  Initializer = {k1}
  Section = {"", "s"}
  Alignment = {0, 1, 536870912}
  Misfits = {"setThreadLocalMode", "removeInitializer"}
SPECIFICATION Spec
INVARIANTS TypeOK ReadsLastWrite VisibilityFollowsLinkage
CHECK_DEADLOCK FALSE
