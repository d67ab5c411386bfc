SPECIFICATION FairSpec
CONSTANTS
    a = a
    b = b
    r1 = r1
    r2 = r2
    Relays = {r1, r2}
    Ops = {a, b}
    Batches <- MCBatches
    Old = Old
    None = None
    Settings <- MCSettings
CHECK_DEADLOCK FALSE
INVARIANTS
  StoredInPlace
  NeverExhausted
PROPERTIES
  InOrder
  EveryPushLands
