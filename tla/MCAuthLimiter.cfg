CONSTANTS
  IPs = {a, b}
  Handlers = {h1, h2}
  Buckets = {b1, b2, b3, b4}
  Burst = 1
  None = None
SPECIFICATION Spec
SYMMETRY Symmetry
INVARIANTS
  FailuresAreBounded
PROPERTIES
  LockoutIsEarned
