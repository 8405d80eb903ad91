CONSTANTS
  a1 = a1
  a2 = a2
  c1 = c1
  c2 = c2
  i1 = i1
  i2 = i2
  i3 = i3
  p1 = p1
  p2 = p2
  None = None
  Calls = {c1, c2}
  Items = {i1, i3}
  Agents = {a1}
  Parts = {p1}
  CallOf <- OneCallOf
  PartOf <- OnePartOf
  Bin <- OneBin
  Chunks <- OneChunks
  BatchMaxBytes = 2
  Cancelable = {c1}
  MayOmit = FALSE
SPECIFICATION Spec
INVARIANT StaleCallbackFindsNothing
CHECK_DEADLOCK FALSE
