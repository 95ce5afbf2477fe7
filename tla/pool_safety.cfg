\* baseClient.ts: queries, ensureConnected(), close() and terminate() together;
\* the server suggests growing from one holder to two
CONSTANTS
  o1 = o1
  o2 = o2
  o3 = o3
  e1 = e1
  c1 = c1
  c2 = c2
  t1 = t1
  Ops = {o1, o2, o3}
  Ensurers = {e1}
  Closers = {c1}
  Terminators = {t1}
  MaxHolders = 2
  UserConcurrency = NoConcurrency
  Suggestions = {0, 1, 2}
  MaxAttempts = 2
  Awaits <- Independent
  NoConcurrency = NoConcurrency
  NoHolder = NoHolder
  Cancelled = Cancelled
  NoCall = NoCall
SYMMETRY Symmetry
SPECIFICATION Spec
CHECK_DEADLOCK FALSE
INVARIANTS
  TypeOK
  Exclusive
  NoHolderLost
  InUseTellsTheTruth
  NobodyWaitsInVain
  ReleasedStayClosed
PROPERTY
  NoAdmissionAfterClose
