\* Two jobs; a row may hold an expression gocron refuses.
CONSTANTS
  syncJob = syncJob
  boardJob = boardJob
  Jobs = {syncJob, boardJob}
  StartupOrder <- MCOrder
  hourly = hourly
  daily = daily
  never = never
  Crons = {hourly, daily, never}
  ValidCrons = {hourly, daily}
  DefaultCron = daily
  i1 = i1
  i2 = i2
  i3 = i3
  Ids = {i1, i2, i3}
  e1 = e1
  e2 = e2
  e3 = e3
  Execs = {e1, e2, e3}
  MaxEdits = 2
  None = None
SPECIFICATION Spec
SYMMETRY SlotSymmetry
INVARIANTS
  TypeOK
  OneLiveRunPerJob
  EntriesAreRegistered
  LiveRunsAreScheduled
