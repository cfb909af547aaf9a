SPECIFICATION Spec
CONSTANTS
  MaxTime = 3
  MaxRows = 2
  DeafAfter = 2
  MinGap = 1
  Grace = 1
  Open = Open
INVARIANTS  LostLinesRequested
 
CHECK_DEADLOCK FALSE
