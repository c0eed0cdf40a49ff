\* Both handoff modes, the middle card may fail, two HTTP workers.
CONSTANTS
  w1 = w1
  w2 = w2
  none = none
  Nobody <- none
  Worker <- TwoWorkers
  NGPU = 3
  LongestPrompt <- Prompts
  MaxTokens = 2
  MaxReq = 2
  FailStages = {1}
SPECIFICATION FairSpec
INVARIANTS HandoffRaceFree IdleWhenFree
PROPERTIES EngineSpec EngineReleased FreeEnds
\* The server ends.
CHECK_DEADLOCK FALSE
