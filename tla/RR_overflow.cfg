\* A queue that overflows before its reset is acknowledged; nothing restarts.
SPECIFICATION Spec
CONSTANTS
  MaxQueue = 2
  UrgentSize = 1
  BatchSize = 1
  ExpireTime = 5
  DataTypes = {"DATA"}
  DrainOnRestart = TRUE
  RestartTakesSecond = TRUE
  AckReorder = FALSE
  MaxSeq = 4
  MaxSession = 1
  MaxTime = 2
  MaxRestart = 0
  MaxCrash = 0
  MaxAcks = 2
INVARIANT NothingLostSilently
\* The source may have nothing more to send.
CHECK_DEADLOCK FALSE
