\* A documented statement that concurrent Records refute.
CONSTANTS
  Recorders = {r1, r2, r3}
  Warmup = 2
SPECIFICATION Spec
INVARIANTS
  TypeOK
  GaugeShowsAverage
