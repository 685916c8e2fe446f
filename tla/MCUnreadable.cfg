CONSTANTS
  Requests <- MCRequests
  RuleBooks <- MCRuleBooks
  Stored <- MCStored
  Ceilings = {"", "low"}
  SchemaDefault = "high"
  Windows <- MCWindows
  MaxMinutes = 2
  MaxTime = 1
  MaxEdits = 2
SPECIFICATION Spec
INVARIANT UnreadableRulesAskAPerson
CHECK_DEADLOCK FALSE
