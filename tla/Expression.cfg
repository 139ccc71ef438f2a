\* Short texts of all shapes, and longer ones that are mostly sound.
SPECIFICATION Spec
CONSTANTS
  MaxLen = 5
  Fields = {1, 2}
  Text <- MCText
  Values <- MCValues
INVARIANTS
  ExprTypeOK
  StackSafe
  CheckExact
  
CHECK_DEADLOCK FALSE
