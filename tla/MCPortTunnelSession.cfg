CONSTANTS
  Users = {u1}
  NoUser = NoUser
  MaxUserData = 0
  MaxLocalData = 1
  WsCap = 2
  ServerCap = 4
  NpCap = 1
  UserEnds = {"shutdown", "close"}
  LocalEnds = {}
  WsDrops = FALSE
SPECIFICATION Spec
INVARIANT SessionSurvives
CHECK_DEADLOCK FALSE
