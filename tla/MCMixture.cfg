CONSTANTS
  db = db
  tls = tls
  plugin = plugin
  here = here
  a1 = a1
  a2 = a2
  Order <- MCOrder
  Db = db
  Across = {plugin}
  Live = here
  Uploads = {a1, a2}
  Members <- MCMembers
  Nothing = Nothing
  Torn = Torn
  KeepSuperseded = 1
  MaxStages = 2
  MaxCrashes = 3
SPECIFICATION RestoreSpec
INVARIANTS NeverAMixture
CHECK_DEADLOCK FALSE
