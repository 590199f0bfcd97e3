SPECIFICATION FairSpec
CONSTANTS
  Strategies <- MCStrategies
  Timeouts <- MCTimeouts
  MaxRetries = 5
INVARIANTS ContextsAreFresh OneTimeout BacksOffAsDocumented
PROPERTIES LimitedWriteReturns
