\* A client that stops reading is lost to the keepalive before it is told.
CONSTANTS
  Clients = {"ws1"}
  Topics = {"t1"}
  MaxQueue = 1
  MaxDropped = 0
SPECIFICATION FairSpec
PROPERTY SlowClientTold
CHECK_DEADLOCK FALSE
