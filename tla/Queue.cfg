SPECIFICATION FairQueueSpec
CONSTANTS
  Callers = {t1, t2, t3}
  Values = {v1, v2}
  NoValue = NoValue
  QueueSizes = {0, 1}
  MaxItems = 3
INVARIANTS
  NoLostWakeup
  SizeRespected
PROPERTIES
  IsFifo
  PushReturns
