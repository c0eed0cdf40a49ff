\* Three connection workers, a signal at any time, errors of accept.
CONSTANTS
  NWORKERS = 3
  MaxConn = 3
  AcceptErrors = TRUE
SPECIFICATION FairSpec
INVARIANTS ModelFreedLast
PROPERTIES SignalEnds
\* The process ends.
CHECK_DEADLOCK FALSE
