CONSTANTS
  Reads = {}
  Applies = {apply}
  Describe = describe
  Shutdown = shutdown
  Nobody = Nobody
  Codes = {"ok", "misshapen", "error", "indeterminate", "unreadable"}
  Room = 1
SPECIFICATION Spec
INVARIANT AFailureChangedNothing
CHECK_DEADLOCK FALSE
