SPECIFICATION Spec
CONSTANTS
  Groups <- MCGroups
  HeaderBytes = 65
  BatchMaxBytes = 225
  Ticks = 2
  MaxAdds = 3
INVARIANTS
  RecordsInOrder
  HedgeIsACopy
  PendingFits
CHECK_DEADLOCK FALSE
