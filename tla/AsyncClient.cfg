SPECIFICATION FairSpec
CONSTANTS
  NoThread = NoThread
  Threads = {a1, a2}
  MaxQueues = 2
  Clients = {u1, s1}
  Streaming = {s1}
  MaxResponses = 2
INVARIANTS
  AsyncTypeOK
  PoolIsSafe
  EventsAreServed
  OneOperation
  ShutdownSparesCalls
  CallbacksInOrder
PROPERTIES
  CallsEnd
  ShutdownReturns
