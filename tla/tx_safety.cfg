\* two calls of two attempts each, every failure the driver distinguishes
CONSTANTS
  Calls = {c1, c2}
  MaxAttempts = 2
  MaxQueries = 1
  MaxConnections = 2
  Careless = {}
  Escaping = {}
  Attempts <- MCAttempts
  Machinery = Machinery
  Nobody = Nobody
SPECIFICATION Spec
CHECK_DEADLOCK FALSE
SYMMETRY Symmetry
INVARIANT
  TypeOK
  AnswersMatch
  ReleasedClean
  QueriesInOwnTransaction
PROPERTY
  TakesEffectAtMostOnce
