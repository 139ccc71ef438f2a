\* Conditions of all shapes over a stack that the deepest of them overruns, and
\* sessions of requests over small tables.
SPECIFICATION Spec
CONSTANTS
  MaxUnits = 5
  NumFields = 6
  LgSize = 7
  FieldType <- MCFieldType
  FieldName <- MCFieldName
  Texts <- MCTexts
  Sessions <- MCSessions
INVARIANTS
  QueryTypeOK
  
  EvaluatesMeaning
  EvaluationFollowsCheck
  GetExact
  AggExact
  DelExact
CHECK_DEADLOCK FALSE
