\* main returns after teardown: its last state has no successor.
CONSTANTS
  DescIds = {d1, d2, d3}
  NULL = NULL
  NoVal = NoVal
  NoCallbacks = NoCallbacks
  ReallocMayFail = TRUE
  ReallocMayMove = FALSE
  MallocMayFail = TRUE
SPECIFICATION Spec
PROPERTY PrintListsRegistry
CHECK_DEADLOCK FALSE
