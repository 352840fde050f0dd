CONSTANTS
  Execs = {e1, e2}
  Scores = {1}
  Uploads <- MCUploads
  Null = Null
  NaN = NaN
  Default = Default
  MaxScenarios = 2
  MaxRuns = 2
  MaxFaults = 2
SPECIFICATION FairSpec
INVARIANTS
  OneSnapshot
PROPERTIES
  NeverOlder
  Converges
