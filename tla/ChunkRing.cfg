\* The ring is exactly as large as two chunks; sockets and peer hold six messages.
CONSTANTS
  RING = 6
  LOOK = 2
  NBUF = 3
  Plans <- PlanSet
  MaxCalls = 3
  ReqCap = 2
  PeerCap = 2
  RepCap = 2
  MayFail = TRUE
SPECIFICATION FairSpec
INVARIANTS RowsInPlace OneReader
PROPERTIES PromptEnds
\* The driver stops after its prompts.
CHECK_DEADLOCK FALSE
