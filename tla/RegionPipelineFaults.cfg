\* Every card may fail, the peer may leave.
CONSTANTS
  NSTAGE = 3
  PIPE_SLOTS = 2
  FailStages <- AllStages
  MaxReq = 3
  MaxConn = 1
SPECIFICATION FairSpec
INVARIANTS TypeOK SlotsNotReused RowsNotOverwritten
PROPERTIES ChunksRetired DrainEnds
CHECK_DEADLOCK FALSE
