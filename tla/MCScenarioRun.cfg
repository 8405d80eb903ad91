SPECIFICATION FairSpec
CONSTANTS
  Nodes <- MCNodes
  Parts <- MCParts
  Conns = {1}
  Leader0 <- MCLeader0
  ISR0 <- MCISR0
  Scripts <- MCScripts
  MaxTime = 3
  NoNode = 0
  RequestSeqs <- MCRequestSeqs
  Delays = {0, 1, 2}
  Timeout = 1
  QueueCap = 1
  MaxDials = 2
  Cases <- MCCases
  Events = {"e1", "e2"}
  EventAt <- MCEventAt
  Records = 2
  AppTimeout = 2
  Duration = 3
  RecoveryFrom = 3
  Seed = 1
INVARIANTS CutStaysCut AssignmentsConverge RecoveryIsReal ResultIsComplete EnvOutlivesUsers
PROPERTIES AnswersInOrderOnTime RunEnds
CHECK_DEADLOCK FALSE
