\* Statements of comments that concurrent requests and the sweep refute.
CONSTANTS
  IPs = {a}
  Handlers = {h1, h2}
  Buckets = {b1, b2, b3}
  Burst = 2
  None = None
SPECIFICATION Spec
INVARIANTS
  TypeOK
  BurstIsTheLimit
  EntriesAreEvictable
