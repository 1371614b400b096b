\* One connection, for liveness; the cap is reached with two drops, which
\* takes a queue of two that overflows twice.
CONSTANTS
  Clients = {"ws1"}
  Topics = {"t1", "t2"}
  MaxQueue = 2
  MaxDropped = 1
SPECIFICATION FairSpec
PROPERTIES OverflowEndsSession StopCompletes
CHECK_DEADLOCK FALSE
