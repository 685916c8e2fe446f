CONSTANTS
  Configs = {c1, c2, c3}
  Broken = {c3}
  Threads = {t1, t2}
  Nil = Nil
  ServesAll = FALSE
  MaxPlugins = 4
  MaxSaves = 3
  MaxFaults = 1
SPECIFICATION Spec
INVARIANTS  SavesTakeEffect NothingIsLeftBehind
CHECK_DEADLOCK FALSE
