CONSTANTS
  N = 3
  P95s = {1, 2}
  Priorities = {1, 2}
SPECIFICATION Spec
INVARIANTS
  SelectsBest
