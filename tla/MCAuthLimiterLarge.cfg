\* As MCAuthLimiter.cfg, with a larger budget: five minutes.
CONSTANTS
  IPs = {a, b}
  Handlers = {h1, h2}
  Buckets = {b1, b2, b3, b4}
  Burst = 2
  None = None
SPECIFICATION Spec
SYMMETRY Symmetry
INVARIANTS
  TypeOK
  FailuresAreBounded
PROPERTIES
  LockoutIsEarned
