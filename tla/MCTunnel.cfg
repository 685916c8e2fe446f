CONSTANTS
  Configs = {on, off}
  EnabledCfg = {on}
  ValidCfg = {on, off}
  Threads = {t1, t2}
  NoTunnel = NoTunnel
  Nil = Nil
  StillDownAfter = 2
  MaxManagers = 2
  MaxClients = 2
  MaxSettings = 1
  MaxFaults = 2
  MaxCalls = 1
SPECIFICATION FairSpec
INVARIANTS ReportsAreTrue OneClientPerManager ToldTheTruth
PROPERTIES EveryCallReturns
CHECK_DEADLOCK FALSE
