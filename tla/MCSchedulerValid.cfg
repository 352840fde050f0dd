\* Valid expressions only, one job: Sync does what it is for.
CONSTANTS
  syncJob = syncJob
  boardJob = boardJob
  Jobs = {syncJob}
  StartupOrder <- MCShortOrder
  hourly = hourly
  daily = daily
  Crons = {hourly, daily}
  ValidCrons = {hourly, daily}
  DefaultCron = daily
  i1 = i1
  i2 = i2
  Ids = {i1, i2}
  e1 = e1
  e2 = e2
  Execs = {e1, e2}
  MaxEdits = 2
  None = None
SPECIFICATION FairSpec
INVARIANTS
  SyncReconciles
PROPERTIES
  Converges
  SignalEnds
