SPECIFICATION Spec
CONSTANTS
  Groups <- MCOldAndNew
  HeaderBytes = 65
  BatchMaxBytes = 275
  Ticks = 2
  MaxAdds = 2
INVARIANT BatchWithinCap
CHECK_DEADLOCK FALSE
