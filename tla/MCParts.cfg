SPECIFICATION PartsSpec
CONSTANTS
  Configs <- MCConfigs
  Edges <- MCEdges
  StepQty = 2
  EdgeBps = 1
  Sigmas = {0, 1}
  Sizes = {1, 3}
  Interval = 2
  MinWarmup = 4
  Coverage = 60
  Samples = {1, 2}
  MaxTime = 9
  Prices = {0, 1, 3}
  WarmK = 2
  MaxK = 3
  MinSamples = 2
  Window = 2
  High = 1
  Low = 1
  MinTick = 0
  MaxTick = 1
  Keys = {k1, k2}
  Savers = {s1, s2}
  MaxSaves = 3
  MaxDown = 2
  Readings <- MCReadings
  Refresh = 2
INVARIANTS
  BandCanRelease
  MeanMatchesHistory
  RingsMatchHistory
  SaveSurvives
PROPERTIES
  CapHolds
  RiskSeen
CHECK_DEADLOCK FALSE
