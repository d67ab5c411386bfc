SPECIFICATION FairSpec
CONSTANTS
  h1 = h1
  h2 = h2
  h3 = h3
  Host = {h1, h2, h3}
  RootKey = "root"
  Settings <- MCSettings
CHECK_DEADLOCK FALSE
INVARIANTS
  DoneOnce
  RecordsAgree
PROPERTIES
  EffectsComplete
