SPECIFICATION TableSpec
CONSTANTS
  Conn = {c1, c2, c3, c4}
  NoConn = NoConn
  MaxCount = 3
INVARIANTS
  TableTypeOK
  SlotsAgree
  NothingLeaked
PROPERTIES
  ImplementsOpenSet
CHECK_DEADLOCK FALSE
