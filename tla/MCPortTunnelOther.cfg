CONSTANTS
  Users = {u1, u2}
  NoUser = NoUser
  MaxUserData = 2
  MaxLocalData = 0
  WsCap = 1
  ServerCap = 4
  NpCap = 1
  UserEnds = {}
  LocalEnds = {"close"}
  WsDrops = FALSE
SPECIFICATION FairSpec
PROPERTY UserDataArrives
CHECK_DEADLOCK FALSE
