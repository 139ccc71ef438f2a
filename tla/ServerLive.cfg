\* Does everything end that must: connections, requests, the server?
SPECIFICATION FairSpec
CONSTANTS
  Conn = {c1}
  NoConn = NoConn
  Listener = Listener
  MaxCount = 1
  Kind = {"short", "long"}
  Magic <- MCMagic
  BodySize <- MCBody
  Handled <- MCDone
  RespSize <- MCResp
  HeaderSize = 1
  BufferSize = 1
  MaxRecv = 4
  SndBuf = 1
  MaxEvents = 2
  IdleTimeout = 2
  TransportTimeout = 1
  CleanupPeriod = 1
  MaxConnects = 1
  MaxRequests = 2
  MaxFaults = 1
PROPERTIES
  NoneKeptForever
  EachAnswered
  SignalStops
CHECK_DEADLOCK FALSE
