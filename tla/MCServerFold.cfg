SPECIFICATION FairSpec
CONSTANTS
    Target <- MCTarget
    Rank <- MCRank
    Refused <- MCRefused
    Builds <- MCBuilds
    Batch = 2
    Settings <- MCSettings
CHECK_DEADLOCK FALSE
INVARIANTS
  TypeOK
  
  NeverServedLess
PROPERTIES
  EndsServed
