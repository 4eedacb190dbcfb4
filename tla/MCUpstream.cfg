SPECIFICATION FairSpec
CONSTANTS
  Sources <- AllSources
  Listing <- Prices
  Retries = 2
  MaxVersion = 3
  MaxRuns = 2
  Budget = 3
INVARIANTS
  TypeOK
  ListWhole
  ReuseHonest
  SampleSpread
  DriftMeansChange
  NothingOverlooked
PROPERTY EveryRunEnds
CHECK_DEADLOCK FALSE
