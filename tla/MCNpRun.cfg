CONSTANTS
  NumTunnels = 2
  MaxRetries = 2
  MaxSessions = 2
  TcpTunnels = {2}
  WsCap = 2
SPECIFICATION FairSpec
INVARIANTS TypeOK ForwardedIsServed
PROPERTIES FreeNamesRestored ComesBack
CHECK_DEADLOCK FALSE
