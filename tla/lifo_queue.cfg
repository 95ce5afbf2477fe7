\* packages/gel/src/primitives/queues.ts with three items and three consumers
CONSTANTS
  Items = {i1, i2, i3}
  Consumers = {c1, c2, c3}
  Promises = {p1, p2, p3, p4, p5, p6}
  Nothing = Nothing
  Cancelled = Cancelled
  NoPromise = NoPromise
SYMMETRY Symmetry
SPECIFICATION Spec
CHECK_DEADLOCK TRUE
INVARIANTS
  ArraysInStep
  NoPromiseLost
PROPERTY
  ImplementsItemQueue
