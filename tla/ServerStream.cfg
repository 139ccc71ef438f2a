\* One connection at a time, requests in any pieces, partial writes.
SPECIFICATION Spec
CONSTANTS
  Conn = {c1, c2}
  NoConn = NoConn
  Listener = Listener
  MaxCount = 1
  Kind = {"short", "long", "alien", "huge", "refused"}
  Magic <- MCMagic
  BodySize <- MCBody
  Handled <- MCDone
  RespSize <- MCResp
  HeaderSize = 2
  BufferSize = 2
  MaxRecv = 4
  SndBuf = 2
  MaxEvents = 2
  IdleTimeout = 1
  TransportTimeout = 1
  CleanupPeriod = 1
  MaxConnects = 2
  MaxRequests = 2
  MaxFaults = 0
INVARIANTS
  ServerTypeOK
  OneAnswerEach
SYMMETRY BlockSymmetry
PROPERTIES
  ClosedForCause
CHECK_DEADLOCK FALSE
