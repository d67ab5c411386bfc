CONSTANTS
  h1 = h1
  h2 = h2
  Host = {h1, h2}
  Commission = commission
  CliInput = {good, bad}
  Bad = {bad}
  Timer = {"t"}
  Version <- MCVersion
  CliVersion = {1, 2}
  LeaseExpiry = 3
  MaxAttempts = 2
  MaxTime = 6
  MaxLog = 12
  MaxAccepted = 4
  ShortLog = 4
  ShortTime = 3
SPECIFICATION MCSpec
CHECK_DEADLOCK FALSE
INVARIANTS
  TypeOK
  OneOwner
  ExactlyOnce
  LogInOrder
  VersionsRise
  TimerIndexAgrees
PROPERTIES
  InboxDrainsAlone
