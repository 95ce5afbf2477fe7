\* one query text, called twice over TCP or HTTP, while the schema changes
CONSTANTS
  Configs <- AllConfigs
  Queries <- SomeQueries
  MaxCalls = 2
  MaxAttempts = 2
  MaxChanges = 2
SPECIFICATION FairSpec
CHECK_DEADLOCK FALSE
INVARIANTS
  ServerProven
  RetriesLeaveNoSocket
  RowsReadable
  StateWellEncoded
  WritesOnce
  MismatchesHidden
PROPERTY
  CallEnds
