SPECIFICATION FairSpec
CONSTANTS
  h1 = h1
  h2 = h2
  Host = {h1, h2}
  Settings <- MCSettings
CHECK_DEADLOCK FALSE
INVARIANTS
  OneProcess
  FactsAreTrue
PROPERTIES
  EndIsReported
