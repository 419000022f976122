\* Loss, duplication and reordering of messages, loss of acknowledgements,
\* one restart on each side, two sessions; with the invariant of the proofs.
SPECIFICATION Spec
CONSTANTS
  MaxQueue = 10
  UrgentSize = 3
  BatchSize = 2
  ExpireTime = 0
  DataTypes = {"DATA"}
  DrainOnRestart = TRUE
  RestartTakesSecond = TRUE
  AckReorder = FALSE
  MaxSeq = 3
  MaxSession = 2
  MaxTime = 2
  MaxRestart = 1
  MaxCrash = 1
  MaxAcks = 2
INVARIANTS IInv NothingLostSilently InOrderOnce
PROPERTY ImplementsOrderedDelivery
\* The source may have nothing more to send.
CHECK_DEADLOCK FALSE
