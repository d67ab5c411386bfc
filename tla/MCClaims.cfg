SPECIFICATION FairSpec
CONSTANTS
  h1 = h1
  h2 = h2
  Host = {h1, h2}
  NRuns = 2
  Settings <- MCSettings
  MaxEpoch = 2
CHECK_DEADLOCK FALSE
INVARIANTS
  ClaimIsSound
PROPERTIES
  Exclusive
  OldestFirst
  EveryRunFinishes
