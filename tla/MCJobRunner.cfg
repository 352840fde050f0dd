CONSTANTS
  r1 = r1
  r2 = r2
  Runs = {r1, r2}
SPECIFICATION FairSpec
INVARIANTS
  TypeOK
  SuccessIsDurable
  NilMeansRecorded
  StaleRowsHaveACause
PROPERTIES
  LedgerSpec
  RunsEnd
CHECK_DEADLOCK FALSE
