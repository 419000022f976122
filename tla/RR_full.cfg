\* A queue at its limit, acknowledgements that overtake one another, and a
\* restart of the destination; a source that restarts opens no second session.
\* With the invariant of the proofs.
SPECIFICATION Spec
CONSTANTS
  MaxQueue = 2
  UrgentSize = 1
  BatchSize = 1
  ExpireTime = 5
  DataTypes = {"DATA"}
  DrainOnRestart = TRUE
  RestartTakesSecond = TRUE
  AckReorder = TRUE
  MaxSeq = 3
  MaxSession = 1
  MaxTime = 2
  MaxRestart = 1
  MaxCrash = 1
  MaxAcks = 2
INVARIANTS OrderInv NotSentValid
PROPERTY ImplementsOrderedDelivery
\* The source may have nothing more to send.
CHECK_DEADLOCK FALSE
