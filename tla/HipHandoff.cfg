\* Residuals handed over in the two device buffers, a prompt of four tokens.
CONSTANTS
  w1 = w1
  w2 = w2
  none = none
  Nobody <- none
  Worker <- TwoWorkers
  NGPU = 2
  LongestPrompt <- P2pPrompt
  MaxTokens = 1
  MaxReq = 1
  FailStages = {}
SPECIFICATION Spec
INVARIANTS HandoffRaceFree
\* The server ends.
CHECK_DEADLOCK FALSE
