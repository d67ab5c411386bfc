CONSTANTS
  Settings <- SamplerFails
  Persona = {"coder", "reviewer", "ann", "bob"}
  Synth = "synthesis"
  NoStep = "no step"
  Holder = {"other"}
SPECIFICATION Spec
INVARIANT EveryStateHasARemedy
CHECK_DEADLOCK FALSE
