\* Documented statements that hedges refute.
CONSTANTS
  Callers = {c1, c2}
  FailureThreshold = 1
  SuccessThreshold = 1
  OpenTimeout = 1
  Hedges = {h1}
  Burst = 2
  MaxWait = 1
SPECIFICATION ASpec
INVARIANTS
  ATypeOK
  ProbeIsAlone
PROPERTIES
  HedgesAvoidOpen
