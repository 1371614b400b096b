\* Two calls, two topics of one product; queues overflow, caps are reached.
\* Nothing is left to do once the calls are over.
CONSTANTS
  Calls = {"s1", "s2"}
  Topics = {"t1", "t2"}
  Products = {"btc"}
  ProductOf <- MCProductOf
  Capacity = 2
  HardMax = 2
  MaxPublish = 4
SPECIFICATION FairSpec
INVARIANTS TypeOK StreamComplete CallsLeaveNothing SnapshotNotBehind
PROPERTY StreamWarmsCache
CHECK_DEADLOCK FALSE
