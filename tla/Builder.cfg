SPECIFICATION BuilderSpec
CONSTANTS
  Characters = {"/", "a"}
  Names <- MCNames
  ThreadCounts = {0, 1, 2}
  Contexts = {x1, x2}
  MaxHandlers = 3
  Unset = Unset
INVARIANTS
  CallsReachTheirHandler
  HandlersAreFiled
  FirstComesServed
  HandlersContextIsLive
