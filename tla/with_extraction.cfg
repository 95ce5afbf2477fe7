\* An expression used in two statements whose parts are used in one of them.
SPECIFICATION Spec
CONSTANTS
  Capacity = 1
  Keys = {1, 2}
  Values = {"x", "y"}
  Paths <- SomePaths
  Indexes <- SomeIndexes
  Launches = {1, 2}
  Size = 2
  Streams <- TwoMessages
  ConfigInputs <- SomeInputs
  QueryNodes <- SomeQueryNodes
  Contexts <- SomeContexts
  ValueInputs = {}
  RagRequests = {}
  Raised = Raised
  NoField = NoField
  MaxBlocks = 2
  MaxPieces <- SomePieces
  Thousand = 10
  Kibi = 3
  Group = 2
  Word = 16
  SafeHigh = 4
  NaN = NaN
  Null = Null
  Thrown = Thrown
  Types <- SomeTypes
  Roots = {}
  CodecsSize = 5
  BuildSize = 3
  MergedFields = {"config"}
  PlainFields = {"module"}
  EntryKeys = {"a", "b"}
  Settings = {"x", "y"}
  CodecNames = {"std::json"}
  MaxOptions = 1
  MaxSchema = 1
CHECK_DEADLOCK FALSE
INVARIANTS
  RepeatedAreExtracted
