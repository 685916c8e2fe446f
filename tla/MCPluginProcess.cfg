CONSTANTS
  Reads = {read}
  Applies = {apply}
  Describe = describe
  Shutdown = shutdown
  Nobody = Nobody
  Codes = {"ok", "error", "indeterminate", "oversized"}
  Room = 1
SPECIFICATION FairSpec
INVARIANTS AnswersComeHome NobodyWaitsInVain
PROPERTIES StopReleasesEveryone
CHECK_DEADLOCK FALSE
