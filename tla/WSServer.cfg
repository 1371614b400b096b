\* Two connections that share a topic; the cap is reached with the first drop.
\* Nothing is left to do once the server has stopped.
CONSTANTS
  Clients = {"ws1", "ws2"}
  Topics = {"t1"}
  MaxQueue = 1
  MaxDropped = 0
SPECIFICATION Spec
INVARIANTS TypeOK NoLeaks AckTruthful
CHECK_DEADLOCK FALSE
