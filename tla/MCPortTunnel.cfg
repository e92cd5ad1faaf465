CONSTANTS
  Users = {u1}
  NoUser = NoUser
  MaxUserData = 1
  MaxLocalData = 2
  WsCap = 1
  ServerCap = 2
  NpCap = 1
  UserEnds = {"shutdown", "close", "reset"}
  LocalEnds = {"shutdown", "close"}
  WsDrops = TRUE
SPECIFICATION FairSpec
INVARIANTS TypeOK DataInOrder NoTruncation
PROPERTIES ReleasedPortCloses FlowingSessionEnds ClosedConnectionsEnd
CHECK_DEADLOCK FALSE
