CONSTANTS
  Recorders = {r1, r2, r3, r4}
  Warmup = 2
SPECIFICATION FairSpec
INVARIANTS
  EveryObservationCounts
PROPERTY RecordsEnd
