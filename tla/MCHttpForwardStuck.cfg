CONSTANTS
  Requests = {r1, r2, r3}
  ViaTls = {}
  NoRequest = NoRequest
  WsCap = 1
SPECIFICATION FairSpec
PROPERTY EveryRequestAnswered
CHECK_DEADLOCK FALSE
