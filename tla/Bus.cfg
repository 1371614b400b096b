\* Two subscriptions over two topics, queues of two, three messages: a queue
\* overflows, and topics are left, rejoined and closed in between.
CONSTANTS
  Subs = {s1, s2}
  Topics = {t1, t2}
  MaxQueue = 2
  MaxPublish = 3
SPECIFICATION FairSpec
INVARIANTS TypeOK IndexExact
PROPERTIES KeepsPromise ClosedReaderDrains
CHECK_DEADLOCK FALSE
