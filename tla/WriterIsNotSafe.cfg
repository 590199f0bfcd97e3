SPECIFICATION Spec
CONSTANTS
  r1 = r1
  r2 = r2
  r3 = r3
  m1 = m1
  m2 = m2
  c1 = c1
  c2 = c2
  s1 = s1
  s2 = s2
  w1 = w1
  NoRpc = NoRpc
  Rpcs = {r1, r2}
  Methods = {m1}
  RpcType <- ServerStreaming
  CompletionQueues = {c1}
  Services = {s1}
  ServiceOf <- OneService
  Writers = {w1}
  Overrun = "writer"
  NumEventThreads = 1
  RequestsMayFail = FALSE
  MaxConnections = 1
  MaxRequests = 2
  MaxSends = 2
SYMMETRY Symmetry
INVARIANTS
  WriterIsSafe
