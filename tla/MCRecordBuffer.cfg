CONSTANTS
  a1 = a1
  a2 = a2
  c1 = c1
  c2 = c2
  i1 = i1
  i2 = i2
  i3 = i3
  p1 = p1
  p2 = p2
  None = None
  Calls = {c1, c2}
  Items = {i1, i2, i3}
  Agents = {a1, a2}
  Parts = {p1, p2}
  CallOf <- MCCallOf
  PartOf <- MCPartOf
  Bin <- MCBin
  Chunks <- MCChunks
  BatchMaxBytes = 2
  Cancelable = {c1}
  MayOmit = FALSE
SPECIFICATION Spec
INVARIANTS
  TypeOK
  NoStrandedBatch
  FlushWithinCap
  CloseDrains
PROPERTIES
  ImplementsContract
CHECK_DEADLOCK FALSE
