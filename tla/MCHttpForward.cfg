CONSTANTS
  Requests = {r1, r2, r3}
  ViaTls = {r1}
  NoRequest = NoRequest
  WsCap = 1
SPECIFICATION FairSpec
INVARIANTS TypeOK AnswersTruthful LateResponsesHarmless
PROPERTIES ExecutedOnce AnsweredIfServed
CHECK_DEADLOCK FALSE
