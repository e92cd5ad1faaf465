CONSTANTS
  NumTunnels = 1
  MaxRetries = 1
  MaxSessions = 2
  TcpTunnels = {}
  WsCap = 1
SPECIFICATION FairSpec
PROPERTY TunnelsRestored
CHECK_DEADLOCK FALSE
