SPECIFICATION Spec
CONSTANTS
  Start <- MCStart
  Cuts <- CutHeader
  Garbage <- MCGarbage
  MaxThrows = 1
CHECK_DEADLOCK FALSE
INVARIANT
  DeliversMessages
