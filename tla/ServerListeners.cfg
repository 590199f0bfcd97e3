SPECIFICATION Spec
CONSTANTS
  r1 = r1
  r2 = r2
  r3 = r3
  m1 = m1
  m2 = m2
  c1 = c1
  c2 = c2
  s1 = s1
  s2 = s2
  w1 = w1
  NoRpc = NoRpc
  Rpcs = {r1, r2, r3}
  Methods = {m1, m2}
  RpcType <- UnaryAndClientStreaming
  CompletionQueues = {c1}
  Services = {s1, s2}
  ServiceOf <- TwoServices
  Writers = {}
  Overrun = "callback"
  NumEventThreads = 2
  RequestsMayFail = TRUE
  MaxConnections = 1
  MaxRequests = 1
  MaxSends = 2
SYMMETRY Symmetry
INVARIANTS
  TypeOK
  OneListener
