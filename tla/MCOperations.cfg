CONSTANTS
  Ops = {o1}
  Verifiable = {o1}
  Approvers = {alice, bob}
  Policy = Policy
  Nil = Nil
  ProposalTTL = 1
  ApprovalTTL = 1
  LeaseTTL = 1
  Concurrency = 2
  MaxTime = 4
  MaxDecisions = 2
  MaxFaults = 1
SPECIFICATION FairSpec
INVARIANTS WritesAreAuthorised OutcomeIsTruthful NothingIsForgotten
PROPERTIES DecisionIsFinal ImplementsGate EveryOperationSettles
CHECK_DEADLOCK FALSE
