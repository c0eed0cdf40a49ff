\* Liveness: everybody admitted is answered and stop() returns.
CONSTANTS
  w1 = w1
  w2 = w2
  r1 = r1
  r2 = r2
  none = none
  NoRequest <- none
  Worker <- OneWorker
  Request <- TwoRequests
  Blocking <- R1Blocking
  MaxQueue = 2
  MaxTokens = 1
SPECIFICATION FairSpec
PROPERTIES AdmittedAnswered StopEnds
\* The server ends.
CHECK_DEADLOCK FALSE
