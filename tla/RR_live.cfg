\* No restart; messages and acknowledgements still get lost.
SPECIFICATION FairSpec
CONSTANTS
  MaxQueue = 10
  UrgentSize = 2
  BatchSize = 2
  ExpireTime = 1
  DataTypes = {"DATA"}
  DrainOnRestart = TRUE
  RestartTakesSecond = TRUE
  AckReorder = FALSE
  MaxSeq = 3
  MaxSession = 1
  MaxTime = 1
  MaxRestart = 0
  MaxCrash = 0
  MaxAcks = 2
PROPERTY QueueDrains
\* The source may have nothing more to send.
CHECK_DEADLOCK FALSE
