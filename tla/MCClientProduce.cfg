SPECIFICATION FairSpec
CONSTANTS
  r1 = r1  r2 = r2  r3 = r3  big = big  one = one  oneBig = oneBig
  Records = {r1, r2, r3, big, one, oneBig}
  PartOf <- MCPartOf
  TooLarge = {big, oneBig}
  Inputs <- MCInputs
  Singles = {one, oneBig}
  MaxRecords = 5
INVARIANTS
  EveryPositionAnswered
  RecordsAccountedFor
PROPERTIES
  CallReturns
CHECK_DEADLOCK FALSE
