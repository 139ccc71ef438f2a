\* Three peers for two slots: refusals, hang-ups in a batch, the sweep, and a
\* system call that fails or an event that was not due.
SPECIFICATION Spec
CONSTANTS
  Conn = {c1, c2}
  NoConn = NoConn
  Listener = Listener
  MaxCount = 2
  Kind = {"short"}
  Magic <- MCMagic
  BodySize <- MCBody
  Handled <- MCDone
  RespSize <- MCResp
  HeaderSize = 1
  BufferSize = 1
  MaxRecv = 4
  SndBuf = 1
  MaxEvents = 2
  IdleTimeout = 1
  TransportTimeout = 1
  CleanupPeriod = 1
  MaxConnects = 3
  MaxRequests = 1
  MaxFaults = 1
SYMMETRY BlockSymmetry
INVARIANTS
  BatchAlive
  InterestFollowsState
  SweepLeavesNone

  
CHECK_DEADLOCK FALSE
