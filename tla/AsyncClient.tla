---------------------------- MODULE AsyncClient -----------------------------
(***************************************************************************)
(* The AsyncClients of async_client.h, unary and server streaming, on the  *)
(* queues of the CompletionQueuePool.  After WriteAsync a client is only   *)
(* touched by the thread of its queue, so handling an event is one step.   *)
(* Responses are numbered as the server sends them.  The clients outlive   *)
(* their calls.  Nothing keeps the application from shutting the pool down *)
(* under a client; what that can do is recorded in fault and pool_fault,   *)
(* and what the application did in the history variables.                  *)
(***************************************************************************)
EXTENDS CompletionQueuePool, Sequences

CONSTANTS
  Clients,
  Streaming,     \* the clients of server-streaming methods; the others are unary
  MaxResponses   \* bound: responses of a stream

ASSUME StreamingAssumption == Streaming \subseteq Clients
ASSUME MaxResponsesAssumption == MaxResponses \in Nat

VARIABLES
  stage,     \* none, made: constructed, open: WriteAsync was called
  queue,     \* completion_queue_; 0 before the constructor has it, and when it
             \* points to a queue that was destroyed
  op,        \* the events of the operations that gRPC works on
  event,     \* what is in the completion queue: event and ok, or NoEvent
  received,  \* responses that gRPC has put into response_
  status,    \* the unary status_: whether it is OK
  callback,  \* callback_ is set
  calls,     \* the arguments of the callback, call by call
  fault,     \* the clients that started an operation on a queue that was shut
             \* down or destroyed, which stops the process
  exposed    \* history: the clients that might still start operations when the pool
             \* was shut down, and those that were made during a Shutdown

clientVars == <<stage, queue, op, event, received, status, callback, calls, fault, exposed>>
vars == <<poolVars, clientVars>>

Events == {"FINISH", "READ", "WRITE"}
NoEvent == [event |-> "none", ok |-> FALSE]

\* The callback's argument: a response, or no response and a status.
Response(n) == <<"response", n>>
End(code) == <<"end", code>>

Init ==
  /\ PoolInit
  /\ stage = [c \in Clients |-> "none"]
  /\ queue = [c \in Clients |-> 0]
  /\ op = [c \in Clients |-> {}]
  /\ event = [c \in Clients |-> NoEvent]
  /\ received = [c \in Clients |-> 0]
  /\ status = [c \in Clients |-> TRUE]
  /\ callback = [c \in Clients |-> TRUE]
  /\ calls = [c \in Clients |-> <<>>]
  /\ fault = {} /\ exposed = {}

\* External: operations are started.  A queue that has been shut down takes no
\* more of them: gRPC ends the process.
StartOp(c, e) ==
  IF queue[c] = 0 \/ queue[c] \in closed
  THEN fault' = fault \cup {c} /\ UNCHANGED op
  ELSE op' = [op EXCEPT ![c] = @ \cup e] /\ UNCHANGED fault

-----------------------------------------------------------------------------

\* Start, or the constructor of one more client, enters the pool.
EnterPool(t, get) ==
  /\ get => Cardinality({u \in Threads : at[u].get}) < Cardinality({c \in Clients : stage[c] = "none"})
  /\ Enter(t, get)
  /\ UNCHANGED clientVars

ShuttingDown == \E t \in Threads : at[t].label \in {"close", "join"}

\* The constructor gets its queue from GetCompletionQueue, if there is one.
Construct(t, c) ==
  /\ stage[c] = "none"
  /\ ReturnQueue(t)
  /\ IF pool_fault' = "none"
       THEN /\ stage' = [stage EXCEPT ![c] = "made"]
            /\ queue' = [queue EXCEPT ![c] = at[t].i]
            /\ exposed' = IF ShuttingDown THEN exposed \cup {c} ELSE exposed
       ELSE UNCHANGED <<stage, queue, exposed>>
  /\ UNCHANGED <<op, event, received, status, callback, calls, fault>>

\* WriteAsync: a unary call is started together with its Finish, a stream with
\* write_event_.
WriteAsync(c) ==
  /\ stage[c] = "made"
  /\ stage' = [stage EXCEPT ![c] = "open"]
  /\ StartOp(c, {IF c \in Streaming THEN "WRITE" ELSE "FINISH"})
  /\ UNCHANGED <<poolVars, queue, event, received, status, callback, calls, exposed>>

\* External: gRPC completes an operation of c.  A Read gives the next response
\* or finds the end of the stream.
Complete(c, e, ok) ==
  /\ e \in op[c]
  /\ e = "READ" /\ ok => received[c] < MaxResponses
  /\ op' = [op EXCEPT ![c] = @ \ {e}]
  /\ event' = [event EXCEPT ![c] = [event |-> e, ok |-> ok]]
  /\ received' = [received EXCEPT ![c] = IF e = "READ" /\ ok THEN @ + 1 ELSE @]
  /\ IF c \in Streaming THEN UNCHANGED status
     ELSE status' \in {[status EXCEPT ![c] = s] : s \in BOOLEAN}
  /\ UNCHANGED <<poolVars, stage, queue, callback, calls, fault, exposed>>

\* RunCompletionQueue: the thread of the queue takes event e of c, and calls
\* HandleEvent.
NextEvent(c, e) ==
  /\ event[c].event = e /\ thread[queue[c]] = "running"
  /\ event' = [event EXCEPT ![c] = NoEvent]
  /\ UNCHANGED <<poolVars, stage, queue, received, status, exposed>>

\* callback_(...) if there is one, which may be the last call.
Call(c, argument, last) ==
  /\ calls' = [calls EXCEPT ![c] = IF callback[c] THEN Append(@, argument) ELSE @]
  /\ callback' = [callback EXCEPT ![c] = @ /\ ~last]

\* HandleFinishEvent of a unary client.
HandleUnaryFinishEvent(c) ==
  /\ c \notin Streaming
  /\ NextEvent(c, "FINISH")
  /\ Call(c, IF status[c] THEN Response(1) ELSE End("error"), FALSE)
  /\ UNCHANGED <<op, fault>>

\* Mutant: the callback stays set after a failure.
WriteEventKeepsCallback(c) ==
  /\ NextEvent(c, "WRITE")
  /\ IF event[c].ok
       THEN StartOp(c, {"READ"}) /\ UNCHANGED <<callback, calls>>
       ELSE Call(c, End("INTERNAL"), FALSE) /\ StartOp(c, {"FINISH"})

\* Mutant: a failed write goes on to read.
WriteEventFallsThrough(c) ==
  /\ NextEvent(c, "WRITE")
  /\ IF event[c].ok
       THEN StartOp(c, {"READ"}) /\ UNCHANGED <<callback, calls>>
       ELSE Call(c, End("INTERNAL"), TRUE) /\ StartOp(c, {"FINISH", "READ"})

HandleWriteEvent(c) ==
  /\ NextEvent(c, "WRITE")
  /\ IF event[c].ok
       THEN StartOp(c, {"READ"}) /\ UNCHANGED <<callback, calls>>
       ELSE Call(c, End("INTERNAL"), TRUE) /\ StartOp(c, {"FINISH"})

\* Mutant: the stream is not finished.
ReadEventWithoutFinish(c) ==
  /\ NextEvent(c, "READ")
  /\ IF event[c].ok
       THEN Call(c, Response(received[c]), FALSE) /\ StartOp(c, {"READ"})
       ELSE UNCHANGED <<callback, calls, op, fault>>

HandleReadEvent(c) ==
  /\ NextEvent(c, "READ")
  /\ IF event[c].ok
       THEN Call(c, Response(received[c]), FALSE) /\ StartOp(c, {"READ"})
       ELSE StartOp(c, {"FINISH"}) /\ UNCHANGED <<callback, calls>>

\* HandleFinishEvent of a streaming client; finish_status_ is not looked at.
HandleFinishEvent(c) ==
  /\ c \in Streaming
  /\ NextEvent(c, "FINISH")
  /\ Call(c, End(IF event[c].ok THEN "OK" ELSE "INTERNAL"), TRUE)
  /\ UNCHANGED <<op, fault>>

\* External: no operation and no event of queue i is left, and Next returns false.
Drained(i) == \A c \in Clients : queue[c] = i => op[c] = {} /\ event[c] = NoEvent

\* Shutdown ends with the destruction of the queues that clients point to.
JoinAndDestroy(t) ==
  /\ Join(t, Drained(at[t].i))
  /\ queue' = IF size' = 0 THEN [c \in Clients |-> 0] ELSE queue
  /\ UNCHANGED <<stage, op, event, received, status, callback, calls, fault, exposed>>

\* c has to be used yet, or its stream is open: it will start more operations.
Unfinished(c) ==
  \/ stage[c] = "made"
  \/ c \in Streaming /\ (op[c] # {} \/ event[c] # NoEvent)

ShutdownPool(t) ==
  /\ Shutdown(t)
  /\ exposed' = exposed \cup {c \in Clients : Unfinished(c)}
  /\ UNCHANGED <<stage, queue, op, event, received, status, callback, calls, fault>>

-----------------------------------------------------------------------------

\* Neither the pool nor gRPC has stopped the process.
Running == pool_fault = "none" /\ fault = {}

HandleEvent(c) ==
  /\ Running
  /\ \/ HandleUnaryFinishEvent(c) \/ HandleWriteEvent(c)
     \/ HandleReadEvent(c) \/ HandleFinishEvent(c)

\* A step of a call to the pool, but for its first and, in GetCompletionQueue, its last.
PoolStep(t) ==
  /\ Running
  /\ \/ (Initialize(t) \/ StartQueue(t) \/ ShutdownQueue(t) \/ StoreNumber(t)) /\ UNCHANGED clientVars
     \/ \E qid \in Queues : Pick(t, qid) /\ UNCHANGED clientVars
     \/ JoinAndDestroy(t)

\* What the threads of the application call.
ApplicationStep(t) ==
  \/ \E n \in 0..MaxQueues : SetNumberCompletionQueues(t, n) /\ UNCHANGED clientVars
  \/ \E get \in BOOLEAN : EnterPool(t, get)
  \/ \E c \in Clients : Construct(t, c)
  \/ ShutdownPool(t)

GrpcStep(c) == Running /\ \E e \in Events, ok \in BOOLEAN : Complete(c, e, ok)

Next ==
  \/ \E t \in Threads : PoolStep(t) \/ (Running /\ ApplicationStep(t))
  \/ \E c \in Clients : HandleEvent(c) \/ GrpcStep(c) \/ (Running /\ WriteAsync(c))
  \/ ~Running /\ UNCHANGED vars

Spec == Init /\ [][Next]_vars

\* The threads are scheduled and the server ends its calls.  Nobody has to make
\* a client, to use it or to shut the pool down.
FairSpec ==
  /\ Spec
  /\ \A t \in Threads : WF_vars(PoolStep(t))
  /\ \A c \in Clients : WF_vars(GrpcStep(c)) /\ WF_vars(HandleEvent(c))

-----------------------------------------------------------------------------

\* The values the variables take; a client's queue is one of the pool, and no
\* stream has more calls of its callback than responses and one end.
AsyncTypeOK ==
  /\ PoolTypeOK
  /\ stage \in [Clients -> {"none", "made", "open"}]
  /\ queue \in [Clients -> 0..MaxQueues]
  /\ op \in [Clients -> SUBSET Events]
  /\ event \in [Clients -> [event : Events \cup {"none"}, ok : BOOLEAN]]
  /\ received \in [Clients -> 0..MaxResponses]
  /\ status \in [Clients -> BOOLEAN] /\ callback \in [Clients -> BOOLEAN]
  /\ \A c \in Clients : Len(calls[c]) <= MaxResponses + 1
  /\ fault \in SUBSET Clients /\ exposed \in SUBSET Clients

\* However threads race to set the number of queues, to make the first clients, to
\* shut the pool down and to restart it, no thread of a queue is started twice or
\* shut down before it was started (the CHECKs of completion_queue_pool.cc:34 and
\* 40), and GetCompletionQueue finds a queue at completion_queue_pool.cc:73 and 74
\* unless a Shutdown has emptied the pool after its own Initialize.
PoolIsSafe ==
  /\ pool_fault # "check_failed"
  /\ pool_fault = "no_queue" => \E t \in overtaken : Picking(t)

\* An operation or event of a client has a thread that will handle it, whenever
\* the pool is shut down: queues are destroyed only after their last event
\* (completion_queue_pool.cc:39-43, 86-89).  A thread that was overtaken by a
\* Shutdown may have got a queue whose thread is still to be started.
EventsAreServed ==
  \A c \in Clients :
    op[c] # {} \/ event[c] # NoEvent =>
      /\ queue[c] \in 1..size
      /\ \/ thread[queue[c]] = "running"
         \/ \E t \in Threads : at[t].label = "start" /\ at[t].i <= queue[c]

\* The handlers of a client start an operation only when the one before has
\* been handled (async_client.h:166-194).
OneOperation ==
  \A c \in Clients : Cardinality(op[c]) + (IF event[c] = NoEvent THEN 0 ELSE 1) <= 1

\* A client starts an operation on a queue that was shut down or destroyed, which
\* gRPC forbids, only if a Shutdown came when it was not used yet or its stream was
\* open, or if it was made during one: unary calls that are under way and clients of
\* a restarted pool are safe (async_client.h:73-84, 180-192).
ShutdownSparesCalls == fault \subseteq exposed

\* The callback of a stream gets the responses in the order in which the server
\* sent them, none twice and none skipped, then one call without a response,
\* and nothing after that (async_client.h:166-209).
CallbacksInOrder ==
  \A c \in Clients : \A i \in DOMAIN calls[c] :
    calls[c][i] = Response(i) \/ (i = Len(calls[c]) /\ calls[c][i][1] = "end")

\* Every call is reported as over by a last callback, unless the process stops: a
\* unary one by its only callback, a stream by one without a response
\* (async_client.h:97, 166-209).
CallsEnd ==
  \A c \in Clients :
    stage[c] = "open" ~>
      \/ calls[c] # <<>> /\ (c \in Streaming => calls[c][Len(calls[c])][1] = "end")
      \/ ~Running

\* Shutdown waits for the calls that are under way and returns, unless the process
\* stops (completion_queue_pool.cc:82-91).
ShutdownReturns ==
  \A t \in Threads : at[t].label \in {"close", "join"} ~> at[t] = Idle \/ ~Running
=============================================================================
