\* One client beside the debug consumer, or two calls; a topic the exchange
\* trades, one it ignores, and one outside the ingest's scope.  The process
\* ends: the last state has no successor.
CONSTANTS
  Consumers = {"c1", "debug-cli"}
  DebugCli = "debug-cli"
  DebugTopics = {"t1", "x"}
  Topics = {"t1", "u", "x"}
  InScope = {"t1", "u"}
  Traded = {"t1"}
  ChannelOf <- MCChannelOf
  HeartbeatTimeout = 0
  InitialBackoff = 1
  MaxBackoff = 1
  WireCap = 0
  MaxReconnects = 0
  MaxStarts = 1
SPECIFICATION FairSpec
INVARIANTS TypeOK OneDemand CleanShutdown ConsumersServed UpstreamServesHeld
PROPERTIES ShutdownCompletes FailedStartExits HeldTopicsFlow
CHECK_DEADLOCK FALSE
