SPECIFICATION FairSpec
CONSTANTS
    w1 = w1
    w2 = w2
    service = service
    hand = hand
    other = other
    Workspaces = {w1, w2}
    Processes = {service, hand, other}
    Home <- MCHome
    Streams = {s1, s2}
    First = s1
    NoFile = NoFile
    Page = 2
    MaxOps = 2
    Settings <- MCSettings
INVARIANTS
  PositionsHold
PROPERTIES
  EveryOpArrives
