\* What Sync is for, when a row may hold an expression gocron refuses.
CONSTANTS
  syncJob = syncJob
  boardJob = boardJob
  Jobs = {syncJob, boardJob}
  StartupOrder <- MCOrder
  hourly = hourly
  daily = daily
  Crons = {hourly, daily}
  ValidCrons = {daily}
  DefaultCron = daily
  i1 = i1
  i2 = i2
  i3 = i3
  Ids = {i1, i2, i3}
  e1 = e1
  e2 = e2
  e3 = e3
  Execs = {e1, e2, e3}
  MaxEdits = 2
  None = None
SPECIFICATION Spec
SYMMETRY SlotSymmetry
INVARIANTS
  SyncReconciles
