\* Safety: two workers, a stream and an answer in one piece.
CONSTANTS
  w1 = w1
  w2 = w2
  r1 = r1
  r2 = r2
  none = none
  NoRequest <- none
  Worker <- TwoWorkers
  Request <- TwoRequests
  Blocking <- R1Blocking
  MaxQueue = 2
  MaxTokens = 2
SYMMETRY Symmetry
SPECIFICATION Spec
INVARIANTS TypeOK OneOwner SinkInFrame NoLostWakeup StreamComplete CancelledIsGone
PROPERTIES ServiceSpec StopIsPrompt
\* The server ends.
CHECK_DEADLOCK FALSE
