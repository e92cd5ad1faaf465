CONSTANTS
  Users = {u1}
  NoUser = NoUser
  MaxUserData = 0
  MaxLocalData = 0
  WsCap = 1
  ServerCap = 1
  NpCap = 1
  UserEnds = {"shutdown", "close"}
  LocalEnds = {}
  WsDrops = TRUE
SPECIFICATION FairSpec
PROPERTY DisconnectClosesPort
CHECK_DEADLOCK FALSE
