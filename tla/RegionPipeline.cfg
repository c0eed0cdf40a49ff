\* Four cards as in the code, three slots, no card fails.
CONSTANTS
  NSTAGE = 4
  PIPE_SLOTS = 3
  FailStages <- NoStage
  MaxReq = 5
  MaxConn = 2
SPECIFICATION Spec
INVARIANTS SlotsNotReused PipeWindow OpHasCards RepliesInOrder RowsMatchHeader
PROPERTIES ServiceSpec
CHECK_DEADLOCK FALSE
