\* blocks that end with a query in progress: what a later call is told
CONSTANTS
  Calls = {c1, c2}
  MaxAttempts = 1
  MaxQueries = 1
  MaxConnections = 2
  Careless = {c1}
  Escaping = {}
  Attempts <- MCAttempts
  Machinery = Machinery
  Nobody = Nobody
SPECIFICATION Spec
CHECK_DEADLOCK FALSE
INVARIANT
  ResolvedMeansCommitted
