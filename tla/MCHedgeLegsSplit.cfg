CONSTANTS
  a = a
  x = x
  y = y
  x1 = x1
  x2 = x2
  y2 = y2
  p1 = p1
  p2 = p2
  None = None
  Calls = {x, y}
  Items = {x1, x2, y2}
  Agents = {a}
  Parts = {p1, p2}
  CallOf <- MCCallOf
  PartOf <- MCPartOf
  Bin <- MCBin
  Chunks <- MCChunks
  BatchMaxBytes = 2
  Cancelable = {x, y}
  MayOmit = TRUE
SPECIFICATION HSpec
INVARIANTS
  LegResolvesOnlyWhatLanded
CHECK_DEADLOCK FALSE
