\* one call that may be tried three times, on up to three connections
CONSTANTS
  Calls = {c1}
  MaxAttempts = 3
  MaxQueries = 1
  MaxConnections = 3
  Careless = {}
  Escaping = {}
  Attempts <- MCAttempts
  Machinery = Machinery
  Nobody = Nobody
SPECIFICATION LiveSpec
CHECK_DEADLOCK FALSE
PROPERTY
  CallsEnd
