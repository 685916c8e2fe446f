CONSTANTS
  us = us
  them = them
  nas = nas
  Us = us
  Slugs = {us, them}
  Instants <- MCInstants
  RunNames <- MCRunNames
  Day <- MCDay
  Week <- MCWeek
  Month <- MCMonth
  Callers = {c1, c2}
  Dests = {nas}
  Policy <- MCPolicy
  Due <- MCDue
  Suffix <- MCSuffix
  Earlier <- MCEarlier
  EarlierSeen <- MCEarlierSeen
  FirstClock = 3
  MaxClock = 4
  MaxRuns = 2
  KeepRuns = 1
  MaxStarts = 2
  MaxEdits = 1
  MaxFaults = 1
  db = db
  tls = tls
  plugin = plugin
  here = here
  a1 = a1
  a2 = a2
  Order <- MCOrder
  Db = db
  Across = {plugin}
  Live = here
  Uploads = {a1, a2}
  Members <- MCMembers
  Nothing = Nothing
  Torn = Torn
  KeepSuperseded = 1
  MaxStages = 2
  MaxCrashes = 3
SPECIFICATION MCSpec
INVARIANTS RunsAreHandled OneInstanceRuns NothingIsLost
PROPERTIES EveryRunEnds HistoryIsTrue RetentionKeepsItsWord AcceptedIsApplied
CHECK_DEADLOCK FALSE
