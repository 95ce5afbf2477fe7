\* The sequential parts of the driver.
SPECIFICATION Spec
CONSTANTS
  Capacity = 3
  Keys = {1, 2, 3, 4}
  Values = {"x", "y"}
  Paths <- SomePaths
  Indexes <- SomeIndexes
  Launches = {1, 2}
  Size = 2
  Streams <- TwoMessages
  ConfigInputs <- SomeInputs
  QueryNodes <- SomeQueryNodes
  Contexts <- SomeContexts
  ValueInputs <- SomeValues
  RagRequests <- SomeRequests
  Raised = Raised
  NoField = NoField
  MaxBlocks = 2
  MaxPieces <- SomePieces
  Thousand = 10
  Kibi = 3
  Group = 2
  Word = 16
  SafeHigh = 4
  NaN = NaN
  Null = Null
  Thrown = Thrown
  Types <- SomeTypes
  Roots <- SomeRoots
  CodecsSize = 5
  BuildSize = 3
  MergedFields = {"config"}
  PlainFields = {"module"}
  EntryKeys = {"a", "b"}
  Settings = {"x", "y"}
  CodecNames = {"std::json"}
  MaxOptions = 3
  MaxSchema = 1
CHECK_DEADLOCK FALSE
INVARIANTS
  CacheIsLRU
  FramingExact
  OptionsAsAsked
  FirstSourceWins
  QueriesRender
  TypesFit
  ValuesSurvive
  CodecsFit
  RagFits
  CliFits
