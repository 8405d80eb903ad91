SPECIFICATION Spec
CONSTANTS
  Writers = {w}
  Agents = {a}
  NumBuckets = 2
  BucketDuration = 2
  MinFilled = 2
  Latencies = {2}
  MaxTime = 6
  MaxLag = 1
  MaxRequests = 3
  Callers = {x, y}
  Keys = {k}
  CacheTTL = 1
  MaxPurges = 1
  None = None
SYMMETRY CallerSymmetry
INVARIANTS
  RingIsWindow
  PurgedNotCached
PROPERTIES
  CacheNeverOlder
