CONSTANTS
  Callers = {c1, c2}
  FailureThreshold = 1
  SuccessThreshold = 1
  OpenTimeout = 1
  Hedges = {h1}
  Burst = 1
  MaxWait = 2
SPECIFICATION AFairSpec
PROPERTY OpenIsEventuallyProbed
