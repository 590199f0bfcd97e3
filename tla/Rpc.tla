-------------------------------- MODULE Rpc ---------------------------------
(***************************************************************************)
(* Rpc objects and the set of active ones (src/async_grpc/rpc.h), the      *)
(* events that carry their progress (events.h, events.cc, rpc_interface.h) *)
(* and the contents of the event queues.  The operators below are the      *)
(* member functions of Rpc, for the actions of the modules above.          *)
(***************************************************************************)
EXTENDS Grpc

CONSTANTS
  Methods,          \* registered RPC methods
  RpcType,          \* RpcHandlerInfo::rpc_type of a method
  NumEventThreads,  \* Server::Options::num_event_threads
  MaxSends          \* bound: items that user code sends on one call

RpcTypes ==
  {"NORMAL_RPC", "CLIENT_STREAMING", "SERVER_STREAMING", "BIDI_STREAMING"}

ASSUME MethodsAssumption == Methods # {} /\ RpcType \in [Methods -> RpcTypes]
ASSUME NumEventThreadsAssumption == NumEventThreads \in Nat \ {0}

VARIABLES
  method,        \* method_index_
  event_queue,   \* event_queue_, the target of WRITE_NEEDED
  events_queue,  \* event_queue_ of the five CompletionQueueRpcEvents
  pending,       \* the CompletionQueueRpcEvents whose pending_ is true
  send_queue,    \* send_queue_
  sends,         \* items that were put into send_queue_ so far
  sent,          \* the last item given to gRPC
  active_rpcs,   \* ActiveRpcs::rpcs_
  queue          \* contents of the event queues

rpcVars == <<method, event_queue, events_queue, pending, send_queue, sends,
             sent, active_rpcs, queue>>

EventQueues == 0 .. NumEventThreads - 1

\* An event queue holds CompletionQueueRpcEvents, by raw pointer, and
\* InternalRpcEvents (WRITE_NEEDED), which know their Rpc by a weak_ptr.
\* ok_ is a field of the event object; it is written just before the push.
Events == [ev : CqEvents \cup {"WRITE_NEEDED"}, rpc : Rpcs, ok : BOOLEAN]

\* SendItem: msg is TRUE when there is a response body.  Items are numbered
\* in the order in which they are enqueued.
SendItems == [msg : BOOLEAN, n : Nat]
NoItem == [msg |-> FALSE, n |-> 0]

RpcTypeOK ==
  /\ method \in [Rpcs -> Methods]
  /\ event_queue \in [Rpcs -> EventQueues]
  /\ events_queue \in [Rpcs -> EventQueues]
  /\ pending \in [Rpcs -> SUBSET CqEvents]
  /\ send_queue \in [Rpcs -> Seq(SendItems)]
  /\ sends \in [Rpcs -> Nat]
  /\ sent \in [Rpcs -> Nat]
  /\ active_rpcs \in SUBSET Rpcs
  /\ queue \in [EventQueues -> Seq(Events)]

RpcInit ==
  /\ method = [r \in Rpcs |-> CHOOSE m \in Methods : TRUE]
  /\ event_queue = [r \in Rpcs |-> 0]
  /\ events_queue = [r \in Rpcs |-> 0]
  /\ pending = [r \in Rpcs |-> {}]
  /\ send_queue = [r \in Rpcs |-> <<>>]
  /\ sends = [r \in Rpcs |-> 0]
  /\ sent = [r \in Rpcs |-> 0]
  /\ active_rpcs = {}
  /\ queue = [q \in EventQueues |-> <<>>]

StreamsRequests(r) == RpcType[method[r]] \in {"CLIENT_STREAMING", "BIDI_STREAMING"}

\* HandleSendQueue finishes the call with this item instead of writing it.
Finishes(r, item) ==
  ~item.msg \/ RpcType[method[r]] \in {"NORMAL_RPC", "CLIENT_STREAMING"}

Push(q, e, r, ok) ==
  queue' = [queue EXCEPT ![q] = Append(@, [ev |-> e, rpc |-> r, ok |-> ok])]

\* The constructor: eq goes to the five CompletionQueueRpcEvents, rq to
\* event_queue_.
Construct(r, m, c, eq, rq) ==
  /\ call[r] = "none"
  /\ method' = [method EXCEPT ![r] = m]
  /\ cq' = [cq EXCEPT ![r] = c]
  /\ events_queue' = [events_queue EXCEPT ![r] = eq]
  /\ event_queue' = [event_queue EXCEPT ![r] = rq]

\* Clone followed by SetEventQueue(rq): Clone passes the event_queue_ of r to
\* the constructor, SetEventQueue replaces event_queue_ and nothing else.
CloneTo(r, new, rq) == Construct(new, method[r], cq[r], event_queue[r], rq)

\* ActiveRpcs::Add and ActiveRpcs::Remove.
Add(r) == active_rpcs' = active_rpcs \cup {r}
Remove(r) == active_rpcs' = active_rpcs \ {r}

\* Mutant: the pending_ flag of DONE is not set.
RequestWithoutDone(r, c) ==
  /\ pending' = [pending EXCEPT ![r] = {"NEW_CONNECTION"}]
  /\ call' = [call EXCEPT ![r] = "requested"]
  /\ StartOp(r, c, "NEW_CONNECTION")

RequestNextMethodInvocation(r, c) ==
  /\ pending' = [pending EXCEPT ![r] = {"DONE", "NEW_CONNECTION"}]
  /\ call' = [call EXCEPT ![r] = "requested"]
  /\ StartOp(r, c, "NEW_CONNECTION")

\* RequestStreamingReadIfNeeded for the types that stream requests.
RequestStreamingRead(r) ==
  /\ pending' = [pending EXCEPT ![r] = @ \cup {"READ"}]
  /\ StartOp(r, cq[r], "READ")

\* Mutant: the pending_ flags are not tested.
NothingQueued(r) == send_queue[r] = <<>>

\* HandleSendQueue leaves the queue alone: it is empty, or an operation that
\* sends is pending.
NothingToSend(r) == send_queue[r] = <<>> \/ pending[r] \cap {"WRITE", "FINISH"} # {}

PerformFinish(r) ==
  /\ pending' = [pending EXCEPT ![r] = @ \cup {"FINISH"}]
  /\ StartOp(r, cq[r], "FINISH")
  /\ status_sent' = status_sent \cup {r}

\* Mutant: the pending_ flag of WRITE is not set.
WriteWithoutFlag(r) ==
  /\ StartOp(r, cq[r], "WRITE")
  /\ UNCHANGED <<pending, status_sent>>

PerformWrite(r) ==
  /\ pending' = [pending EXCEPT ![r] = @ \cup {"WRITE"}]
  /\ StartOp(r, cq[r], "WRITE")
  /\ UNCHANGED status_sent

\* Mutant: the message goes to the front of the queue.
EnqueueInFront(r, msg) ==
  /\ sends[r] < MaxSends
  /\ sends' = [sends EXCEPT ![r] = @ + 1]
  /\ send_queue' =
       [send_queue EXCEPT ![r] = <<[msg |-> msg, n |-> sends[r] + 1]>> \o @]

\* The first half of Rpc::Write and Rpc::Finish.
EnqueueMessage(r, msg) ==
  /\ sends[r] < MaxSends
  /\ sends' = [sends EXCEPT ![r] = @ + 1]
  /\ send_queue' =
       [send_queue EXCEPT ![r] = Append(@, [msg |-> msg, n |-> sends[r] + 1])]

\* The second half: ActiveRpcs::GetWeakPtr, with its CHECK, and the push.
GetWeakPtr(r) == fault' = IF r \in active_rpcs THEN fault ELSE "check_failed"
PushWriteNeeded(r) == GetWeakPtr(r) /\ Push(event_queue[r], "WRITE_NEEDED", r, TRUE)

\* Mutants: the flag of READ, or of WRITE, is forgotten.
AnyPendingButRead(r) == pending[r] \cap {"DONE", "WRITE", "FINISH"} # {}
AnyPendingButWrite(r) == pending[r] \cap {"DONE", "READ", "FINISH"} # {}

IsAnyEventPending(r) == pending[r] \cap {"DONE", "READ", "WRITE", "FINISH"} # {}
=============================================================================
