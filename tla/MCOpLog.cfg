SPECIFICATION Spec
CONSTANTS
  Revision <- ByName
  Settings <- MCSettings
  OldFolds <- OldShapes
  Me = 1
  Ceiling = 2
  MaxLamport = 7
INVARIANTS
  MintsAreSound
  VouchedViews
