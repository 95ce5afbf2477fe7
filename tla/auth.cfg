\* Every package; two browsers, two flows, two messages in flight.
SPECIFICATION Spec
CONSTANTS
  Frameworks <- AllFrameworks
  Browsers = {1, 2}
  Flows = {1, 2}
  FirstKinds <- StartRoutes
  LaterKinds = {"oauth"}
  Clocks <- AFewTimes
  MaxInFlight <- OneBusyBrowser
INVARIANTS
  SessionsAreOwn
  LatestFlowKept
  SignedOut
  FlagTellsSignUp
PROPERTIES
  LinkSparedElsewhere
CHECK_DEADLOCK FALSE
