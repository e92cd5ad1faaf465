CONSTANTS
  Users = {u1, u2}
  NoUser = NoUser
  MaxUserData = 2
  MaxLocalData = 1
  WsCap = 1
  ServerCap = 1
  NpCap = 1
  UserEnds = {}
  LocalEnds = {}
  WsDrops = FALSE
SPECIFICATION FairSpec
INVARIANT DataInOrder
PROPERTY FlowingDataArrives
CHECK_DEADLOCK FALSE
