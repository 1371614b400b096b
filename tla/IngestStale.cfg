\* One topic: the smallest instance that shows it.
CONSTANTS
  Topics = {"t1"}
  InScope = {"t1"}
  Traded = {"t1"}
  ChannelOf <- MCChannelOf
  HeartbeatTimeout = 1
  InitialBackoff = 1
  MaxBackoff = 2
  WireCap = 1
  MaxReconnects = 1
  MaxStarts = 1
SPECIFICATION HistorySpec
PROPERTIES StaleOnlyAfterWaiting
