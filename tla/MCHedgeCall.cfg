CONSTANTS
  a1 = a1
  a2 = a2
  a3 = a3
  a4 = a4
  Agents = {a1, a2, a3, a4}
  Primary = a1
  Parts = {p, q}
  CandidateLists <- MCLists
  MaxHedgeAgents = 3
SPECIFICATION FairSpec
INVARIANTS
  NoFalseAck
  FailsOnlyWhenAllFailed
  AttemptsBounded
  CauseIsRanked
PROPERTIES
  CallReturns
CHECK_DEADLOCK FALSE
