\* One job whose row is edited once, two expressions, one content of the file.
CONSTANTS
  syncJob = syncJob
  SyncJob = syncJob
  Jobs = {syncJob}
  StartupOrder <- MCOrder
  hourly = hourly
  daily = daily
  Crons = {hourly, daily}
  ValidCrons = {hourly, daily}
  DefaultCron = daily
  i1 = i1
  Ids = {i1}
  e1 = e1
  e2 = e2
  Execs = {e1, e2}
  MaxEdits = 1
  None = None
  good = good
  Contents = {good}
  Valid = {good}
  MaxVersions = 1
SPECIFICATION FairWorkerSpec
PROPERTIES
  SyncSpec
  OnlyScheduledRunsWrite
  Delivers
