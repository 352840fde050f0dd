CONSTANTS
  Null = Null
  MaxRank = 1
  s1 = s1
  s2 = s2
  Scenarios = {s1, s2}
  Players = {1, 2}
  Scores = {0, 1, 2}
  Times = {1, 2}
  Uploads <- MCUploads
  MaxRuns = 3
  MaxSyncs = 2
  MaxFaults = 1
SPECIFICATION FairSpec
INVARIANTS
  TypeOK
  DifficultiesStay
  CompositeKeepsUp
PROPERTIES
  NoDemotionByOwnRun
  Converges
