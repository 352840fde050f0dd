CONSTANTS
  Values <- MCValues
  Batches <- MCBatches
  MaxBatches = 5
  HistogramBinCount = 32
  Names <- MCNames
  Thresholds <- MCThresholds
  Counts <- MCCounts
  Blank = Blank
  NotAString = NotAString
  Junk = Junk
  MaxInt = 7
  MaxRanks = 3
  MaxEntries = 3
  MaxGroups = 4
  Named <- MCNamed
  Texts <- MCTexts
  MaxLines = 2
  Settings <- MCSettings
  TrueByDefault <- MCTrueByDefault
  None = None
  Gone = Gone
  Contents <- MCContents
  Symbols = {0, 1, 4}
  ZstdMagic = 9
  MaxFileName = 2
  MaxString = 3
  MaxStats = 2
  MaxRows = 2
  MaxCols = 2
  MaxPoints = 1
SPECIFICATION MCSpec
INVARIANTS
  EveryValueCounted
  QuantilesSplit
  ScenariosFillGroups
  PanicsOnlyOnOverflow
  OrderIsKept
  FirstTextWins
  AcceptedSettingsServe
  OperatorsDecide
  AcceptedIsWritten
CHECK_DEADLOCK FALSE
