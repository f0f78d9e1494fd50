\* One webhook, one job; its first attempt fails or dies.
CONSTANTS
  Jobs = {j1}
  Keys = {opened}
  ManualKeys = {}
  MaxAttempts = 3
  MaxCrashes = 1
  MaxRequeues = 1
  None = None
SPECIFICATION Spec
INVARIANT NothingIsLost
CHECK_DEADLOCK FALSE
