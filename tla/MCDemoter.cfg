SPECIFICATION FairSpec
CONSTANTS
  c1 = c1  c2 = c2  a1 = a1  a2 = a2  a3 = a3  a4 = a4
  Callers = {c1}
  Agents = {a1, a2, a3, a4}
  Order <- MCOrder
  MaxCandidates = 2
  Headrooms <- MCHeadrooms
  Snapshots <- MCPools
  Reports <- MCReports
  ProbeInterval = 1
  MaxTime = 1
INVARIANTS
  FallbacksAreHealthy
PROPERTIES
  DepartedForgotten
  RecoveredIsRestored
