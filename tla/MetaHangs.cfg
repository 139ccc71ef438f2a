\* A configuration with a cycle that the field asked about only leads to.
SPECIFICATION FairSpec
CONSTANTS
  Name = {a, b, c}
  MaxFields = 2
PROPERTIES
  CheckEnds
CHECK_DEADLOCK FALSE
