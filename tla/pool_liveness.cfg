\* baseClient.ts: a transaction block that awaits another call of the client,
\* with close() called twice and terminate(), under the fairness of the event loop
CONSTANTS
  o1 = o1
  o2 = o2
  o3 = o3
  e1 = e1
  c1 = c1
  c2 = c2
  t1 = t1
  Ops = {o1, o2}
  Ensurers = {e1}
  Closers = {c1, c2}
  Terminators = {t1}
  MaxHolders = 2
  UserConcurrency = NoConcurrency
  Suggestions = {0, 2}
  MaxAttempts = 1
  Awaits <- Nested
  NoConcurrency = NoConcurrency
  NoHolder = NoHolder
  Cancelled = Cancelled
  NoCall = NoCall
SPECIFICATION LiveSpec
CHECK_DEADLOCK FALSE
PROPERTIES
  EveryCallSettles
  CloseResolves
