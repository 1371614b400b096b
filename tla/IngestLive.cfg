\* Two topics of two channels, one start: enough for passes with two sends; the
\* exchange ignores one of the topics.
CONSTANTS
  Topics = {"t1", "t3"}
  InScope = {"t1", "t3"}
  Traded = {"t1"}
  ChannelOf <- MCChannelOf
  HeartbeatTimeout = 0
  InitialBackoff = 1
  MaxBackoff = 1
  WireCap = 0
  MaxReconnects = 1
  MaxStarts = 1
SPECIFICATION FairSpec
PROPERTIES StopTerminates DemandConverges SilentFeedDropped
