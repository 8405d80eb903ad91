CONSTANTS
  a = a
  x = x
  y = y
  x1 = x1
  x2 = x2
  y2 = y2
  p1 = p1
  p2 = p2
  MaxCloses = 2
  None = None
  Calls = {x, y}
  Items = {x1, x2, y2}
  Agents = {a}
  Parts = {p1, p2}
  CallOf <- MCCallOf
  PartOf <- MCPartOf
  Bin <- MCBin
  Chunks <- MCChunks
  BatchMaxBytes = 3
  Cancelable = {x, y}
  MayOmit = TRUE
SPECIFICATION CFairSpec
INVARIANTS
  LegsAreScoped
  RunningKeepsHedging
  ClosedIsQuiet
PROPERTIES
  ClientSettles
CHECK_DEADLOCK FALSE
