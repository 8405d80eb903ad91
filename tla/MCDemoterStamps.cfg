SPECIFICATION Spec
CONSTANTS
  c1 = c1  c2 = c2  a1 = a1  a2 = a2  a3 = a3  a4 = a4
  Callers = {c1, c2}
  Agents = {a1}
  Order <- MCOrder
  MaxCandidates = 1
  Headrooms <- MCHeadrooms
  Snapshots = {{a1}}
  Reports <- MCReports
  ProbeInterval = 1
  MaxTime = 1
PROPERTY StampsMoveForward
