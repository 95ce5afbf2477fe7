\* close() against the calls and connection attempts it does not wait for
CONSTANTS
  o1 = o1
  o2 = o2
  o3 = o3
  e1 = e1
  c1 = c1
  c2 = c2
  t1 = t1
  Ops = {o1, o2}
  Ensurers = {e1}
  Closers = {c1}
  Terminators = {}
  MaxHolders = 2
  UserConcurrency = 2
  Suggestions = {0, 1, 2}
  MaxAttempts = 2
  Awaits <- Independent
  NoConcurrency = NoConcurrency
  NoHolder = NoHolder
  Cancelled = Cancelled
  NoCall = NoCall
SPECIFICATION Spec
CHECK_DEADLOCK FALSE
INVARIANT
  NoConnectionOutlivesClose
