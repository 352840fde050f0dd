\* A skipped sync means that the tables are up to date.
CONSTANTS
  good1 = good1
  good2 = good2
  bad = bad
  Contents = {good1, good2, bad}
  Valid = {good1, good2}
  None = None
  e1 = e1
  e2 = e2
  Execs = {e1, e2}
  MaxVersions = 3
SPECIFICATION Spec
PROPERTIES
  UnchangedMeansSynced
