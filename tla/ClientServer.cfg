SPECIFICATION CSSpec
CONSTANTS
  r1 = r1
  r2 = r2
  r3 = r3
  r4 = r4
  r5 = r5
  m1 = m1
  m2 = m2
  m3 = m3
  m4 = m4
  c1 = c1
  s1 = s1
  NoRpc = NoRpc
  Rpcs = {r1,r2,r3,r4,r5}
  Methods = {m1,m2,m3,m4}
  RpcType <- AllTypes
  CompletionQueues = {c1}
  Services = {s1}
  ServiceOf <- OneService
  Writers = {}
  Overrun = "nothing"
  NumEventThreads = 1
  RequestsMayFail = FALSE
  MaxConnections = 1
  MaxRequests = 2
  MaxSends = 5
  Window = 1
  MaxWrites = 2
INVARIANTS
  Delivered
  ServingIsSafe
  DeliveryInv
PROPERTIES
  OperationsReturn
  ClosedCallsAreRemoved
