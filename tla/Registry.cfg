\* Three consumers, three topics: shared, exclusive and unheld topics at once.
CONSTANTS
  Consumers = {c1, c2, c3}
  Topics = {t1, t2, t3}
SPECIFICATION Spec
INVARIANTS TypeOK RefcountExact CallbacksBalanced
