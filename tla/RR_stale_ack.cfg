\* The source restarts with acknowledgements of its first life in flight.
SPECIFICATION Spec
CONSTANTS
  MaxQueue = 10
  UrgentSize = 3
  BatchSize = 2
  ExpireTime = 5
  DataTypes = {"DATA"}
  DrainOnRestart = FALSE
  RestartTakesSecond = TRUE
  AckReorder = FALSE
  MaxSeq = 2
  MaxSession = 2
  MaxTime = 2
  MaxRestart = 0
  MaxCrash = 1
  MaxAcks = 3
INVARIANT NotSentValid
\* The source may have nothing more to send.
CHECK_DEADLOCK FALSE
