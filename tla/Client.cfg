\* Both clients, three calls, and three failures wherever they bite.
SPECIFICATION FairSpec
CONSTANTS
  MaxCalls = 3
  MaxFaults = 3
  MaxSchema = 2
  BodyUnits = 2
  MaxNeed = 3
INVARIANTS
  ClientTypeOK
  AnswerTells
  StaleOnlyResent
PROPERTIES
  CallEnds
CHECK_DEADLOCK FALSE
