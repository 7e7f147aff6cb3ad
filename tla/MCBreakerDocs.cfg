\* Documented statements that two callers refute.
CONSTANTS
  Callers = {c1, c2}
  FailureThreshold = 2
  SuccessThreshold = 2
  OpenTimeout = 2
SPECIFICATION HSpec
INVARIANT GaugeShowsState
PROPERTIES
  ClosesAfterSuccesses
  TripsAfterFailures
