\* Every sequence of syncs of thirteen files.
CONSTANTS
  A = A
  B = B
  easy = easy
  hard = hard
  s1 = s1
  s2 = s2
  old = old
  new = new
  garbled = garbled
  undated = undated
  oversized = oversized
  Files <- MCFiles
  Scenarios = {s1, s2, garbled}
  Unfit = {garbled, undated, oversized}
  None = None
SPECIFICATION Spec
INVARIANTS
  TablesAreImage
  RefusalsExplained
PROPERTIES
  NoScenarioFailsTwice
