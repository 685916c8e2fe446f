CONSTANTS
  Requests <- MCRequests
  RuleBooks <- MCRuleBooks
  Stored <- MCStored
  Ceilings = {"", "low"}
  SchemaDefault = "high"
  Windows <- MCWindows
  MaxMinutes = 2
  MaxTime = 1
  MaxEdits = 2
  Writers = {w1, w2}
  Worker = worker
  Admin = admin
  Retention = 1
  MaxRows = 5
  MaxClock = 3
  c1 = c1
  c2 = c2
  c3 = c3
  deploy = deploy
  resize = resize
  Calls = {c1, c2, c3}
  Payloads = {deploy, resize}
  ActionOf <- MCActionOf
  Keys = {k}
  Nil = Nil
  TTL = 2
  LastHour = 4
SYMMETRY Symmetry
SPECIFICATION MCSpec
INVARIANTS ApprovalsAreCovered AskedForAReason OrderedChainVerifies GapsAreExplained
  RepeatsCollapse AnswersAreTheirOwn
CHECK_DEADLOCK FALSE
