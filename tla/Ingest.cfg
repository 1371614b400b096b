\* Two channels, so a pass can suspend in several sends; one topic out of scope,
\* and one in scope whose symbol the exchange does not trade.
CONSTANTS
  Topics = {"t1", "t2", "t3", "x"}
  InScope = {"t1", "t2", "t3"}
  Traded = {"t1", "t3"}
  ChannelOf <- MCChannelOf
  HeartbeatTimeout = 1
  InitialBackoff = 1
  MaxBackoff = 2
  WireCap = 1
  MaxReconnects = 1
  MaxStarts = 2
SPECIFICATION Spec
INVARIANTS TypeOK NoLostWakeup BeliefMatchesExchange QuietAfterStop ConnectedMeansSession
