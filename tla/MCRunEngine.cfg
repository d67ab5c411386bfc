CONSTANTS
  Settings <- Sound
  Persona = {"coder", "reviewer", "ann", "bob"}
  Synth = "synthesis"
  NoStep = "no step"
  Holder = {"other"}
SPECIFICATION FairSpec
CHECK_DEADLOCK FALSE
INVARIANTS
  TypeOK
  TimersAgree
  EveryStateHasARemedy
  KeysNeverRepeat
  StepsAreLeftInOrder
  PersonasTakeTurns
  EndsInOrder
PROPERTIES
  NothingStartsAfterFinishing
  WithdrawalFinishes
