----------------------------- MODULE StepProofs -----------------------------
(***************************************************************************)
(* Steps of the server, for every value of the constants: its types are an *)
(* invariant; what is in the event queues after a push and a pop; and what *)
(* an event thread does when it takes an event, performs an operation of   *)
(* an Rpc or returns from a callback. The proofs about the server, its     *)
(* listeners, its calls and its clients build on these facts.              *)
(***************************************************************************)
EXTENDS LifetimeInvariant, TLAPS

\* Leaves without arithmetic are Zenon's; the others name SMT.
USE Zenon

\* Before Server::Start.
LEMMA InitTypeOK == Init => TypeOK
<1>1. (CHOOSE c \in CompletionQueues : TRUE) \in CompletionQueues
  BY CompletionQueuesAssumption
<1>2. (CHOOSE m \in Methods : TRUE) \in Methods
  BY MethodsAssumption
<1>3. 0 \in EventQueues
  BY SMT, NumEventThreadsAssumption DEF EventQueues
<1>4. Init => GrpcTypeOK
  <2>1. Init => server_down \in BOOLEAN
    BY DEF Init, GrpcInit
  <2>2. Init => cq \in [Rpcs -> CompletionQueues]
    BY <1>1 DEF Init, GrpcInit
  <2> QED BY SMT, <2>1, <2>2 DEF Init, GrpcInit, GrpcTypeOK, CallStates, Faults
<1>5. Init => RpcTypeOK
  BY SMT, <1>2, <1>3 DEF Init, RpcInit, RpcTypeOK
<1>6. Init => ServiceTypeOK
  BY SMT, <1>3 DEF Init, ServiceInit, ServiceTypeOK, Idle, NoItem, SendItems, Labels,
              HandlerStates, CqEvents
<1> QED BY <1>4, <1>5, <1>6 DEF Init, TypeOK, MainLabels

\* The next event queue of the round robin is an event queue.
LEMMA RoundRobinType ==
  ASSUME current_event_queue_id \in EventQueues, SelectNextEventQueueRoundRobin
  PROVE  current_event_queue_id' \in EventQueues
BY SMT, NumEventThreadsAssumption DEF EventQueues, SelectNextEventQueueRoundRobin

\* PopWithTimeout on an event queue.
LEMMA PopType ==
  ASSUME queue \in [EventQueues -> Seq(Events)],
         NEW q \in EventQueues, queue[q] # <<>>,
         queue' = [queue EXCEPT ![q] = Tail(@)]
  PROVE  queue' \in [EventQueues -> Seq(Events)] /\ Head(queue[q]) \in Events
BY SMT

ThreadType == [pc : Labels, ev : CqEvents \cup {"WRITE_NEEDED"},
               rpc : Rpcs \cup {NoRpc}, item : SendItems]

\* TypeOK is not inductive: it lets a thread that is not idle, or a Writer call
\* that has enqueued its message, have no Rpc.
BusyHaveRpcs ==
  /\ \A q \in EventQueues : Busy(q) => thread[q].rpc \in Rpcs
  /\ \A w \in Writers : writer[w].pc = "enqueued" => writer[w].rpc \in Rpcs

TypeInv == TypeOK /\ BusyHaveRpcs

\* What Goto changes and what it does not.
LEMMA GotoFrame ==
  ASSUME thread \in [EventQueues -> ThreadType], NEW q \in EventQueues,
         NEW label \in Labels, Goto(q, label)
  PROVE  /\ thread' \in [EventQueues -> ThreadType]
         /\ thread'[q].pc = label
         /\ \A p \in EventQueues : thread'[p].rpc = thread[p].rpc /\ thread'[p].ev = thread[p].ev
         /\ \A p \in EventQueues : p # q => thread'[p] = thread[p]
BY DEF Goto, ThreadType

\* What Service does after a callback.
LEMMA NextLabelType ==
  ASSUME NEW q \in EventQueues
  PROVE  NextLabel(q) \in Labels
BY DEF NextLabel, Labels, Callbacks

\* One step per action of Server; what an action changes is typed by the first
\* steps, and the rest is unchanged.
LEMMA NextTypeInv == TypeInv /\ [Next]_vars => TypeInv'
\* Pushing and popping events keep the event queues well typed.
<1>PushType. ASSUME queue \in [EventQueues -> Seq(Events)],
             NEW q \in EventQueues, NEW e \in CqEvents \cup {"WRITE_NEEDED"},
             NEW r \in Rpcs, NEW ok \in BOOLEAN, Push(q, e, r, ok)
      PROVE  queue' \in [EventQueues -> Seq(Events)]
  <2> USE <1>PushType
  <2>1. [ev |-> e, rpc |-> r, ok |-> ok] \in Events
    BY DEF Events
  <2> QED BY SMT, <2>1 DEF Push
\* Starting an operation.
<1>StartOpType. ASSUME ops \in [Rpcs -> SUBSET CqEvents], fault \in Faults,
             NEW r \in Rpcs, NEW c, NEW e \in CqEvents, StartOp(r, c, e)
      PROVE  ops' \in [Rpcs -> SUBSET CqEvents] /\ fault' \in Faults
  BY <1>StartOpType DEF StartOp, Faults
\* A busy thread goes to a label, or back to waiting for an event.
<1>GotoType. ASSUME TypeInv, NEW q \in EventQueues, NEW label \in Labels, Busy(q), Goto(q, label)
      PROVE  /\ thread' \in [EventQueues -> ThreadType]
             /\ \A p \in EventQueues : Busy(p)' => thread'[p].rpc \in Rpcs
  <2> USE <1>GotoType
  <2>1. thread \in [EventQueues -> ThreadType]
    BY DEF TypeInv, TypeOK, ServiceTypeOK, ThreadType
  <2> QED BY <2>1, GotoFrame DEF TypeInv, BusyHaveRpcs, Busy
\* An item taken off a send queue.
<1>ItemType. ASSUME TypeInv, NEW q \in EventQueues, NEW label \in Labels, NEW item \in SendItems,
             Busy(q), GotoWith(q, label, item)
      PROVE  /\ thread' \in [EventQueues -> ThreadType]
             /\ \A p \in EventQueues : Busy(p)' => thread'[p].rpc \in Rpcs
  <2> USE <1>ItemType
  <2>1. thread \in [EventQueues -> ThreadType]
    BY DEF TypeInv, TypeOK, ServiceTypeOK, ThreadType
  <2> DEFINE t == [pc |-> label, ev |-> thread[q].ev, rpc |-> thread[q].rpc, item |-> item]
  <2>2. t \in ThreadType
    BY <2>1 DEF ThreadType
  <2>3. thread' = [thread EXCEPT ![q] = t]
    BY DEF GotoWith
  <2>4. thread' \in [EventQueues -> ThreadType]
    BY <2>1, <2>2, <2>3
  <2>5. \A p \in EventQueues : thread'[p].rpc = thread[p].rpc /\ (p # q => thread'[p] = thread[p])
    BY <2>1, <2>3
  <2> QED BY <2>4, <2>5 DEF TypeInv, BusyHaveRpcs, Busy
\* An event thread goes back to its queue.
<1>ReturnType. ASSUME TypeInv, NEW q \in EventQueues, Return(q)
      PROVE  /\ thread' \in [EventQueues -> ThreadType]
             /\ \A p \in EventQueues : Busy(p)' => thread'[p].rpc \in Rpcs
  BY <1>ReturnType DEF TypeInv, TypeOK, ServiceTypeOK, BusyHaveRpcs, Return, ThreadType, Idle,
         NoItem, SendItems, CqEvents, Labels, Busy
\* A thread begins to handle an event.
<1>BeginType. ASSUME TypeInv, NEW q \in EventQueues, NEW e \in Events, NEW label \in Labels,
             thread' = [thread EXCEPT ![q] = [pc |-> label, ev |-> e.ev, rpc |-> e.rpc,
                                              item |-> NoItem]]
      PROVE  /\ thread' \in [EventQueues -> ThreadType]
             /\ \A p \in EventQueues : Busy(p)' => thread'[p].rpc \in Rpcs
  <2> USE <1>BeginType
  <2>1. [pc |-> label, ev |-> e.ev, rpc |-> e.rpc, item |-> NoItem] \in ThreadType
    BY DEF ThreadType, Events, NoItem, SendItems
  <2> QED BY <2>1 DEF TypeInv, TypeOK, ServiceTypeOK, BusyHaveRpcs, ThreadType, Events, Busy
\* A new Rpc, and the request for its call.
<1>ConstructType. ASSUME TypeInv, NEW r \in Rpcs, NEW m \in Methods, NEW c \in CompletionQueues,
             NEW eq \in EventQueues, NEW rq \in EventQueues,
             Construct(r, m, c, eq, rq), Add(r), RequestNextMethodInvocation(r, c)
      PROVE  /\ method' \in [Rpcs -> Methods]
             /\ cq' \in [Rpcs -> CompletionQueues]
             /\ events_queue' \in [Rpcs -> EventQueues]
             /\ event_queue' \in [Rpcs -> EventQueues]
             /\ active_rpcs' \in SUBSET Rpcs
             /\ pending' \in [Rpcs -> SUBSET CqEvents]
             /\ call' \in [Rpcs -> CallStates]
             /\ ops' \in [Rpcs -> SUBSET CqEvents]
             /\ fault' \in Faults
  <2> USE <1>ConstructType
  <2>1. ops' \in [Rpcs -> SUBSET CqEvents] /\ fault' \in Faults
    BY <1>StartOpType DEF TypeInv, TypeOK, GrpcTypeOK, RequestNextMethodInvocation, CqEvents
  <2> QED BY <2>1 DEF TypeInv, TypeOK, GrpcTypeOK, RpcTypeOK, Construct, Add,
                      RequestNextMethodInvocation, CallStates, CqEvents
\* User code enqueues a message, and pushes the event for it.
<1>EnqueueType. ASSUME TypeInv, NEW r \in Rpcs, NEW msg \in BOOLEAN, EnqueueMessage(r, msg)
      PROVE  sends' \in [Rpcs -> Nat] /\ send_queue' \in [Rpcs -> Seq(SendItems)]
  <2> USE <1>EnqueueType
  <2>1. [msg |-> msg, n |-> sends[r] + 1] \in SendItems
    BY SMT DEF SendItems, TypeInv, TypeOK, RpcTypeOK
  <2> QED BY SMT, <2>1 DEF EnqueueMessage, TypeInv, TypeOK, RpcTypeOK
\* A WRITE_NEEDED event is pushed.
<1>PushWriteNeededType. ASSUME TypeInv, NEW r \in Rpcs, PushWriteNeeded(r)
      PROVE  queue' \in [EventQueues -> Seq(Events)] /\ fault' \in Faults
  <2> USE <1>PushWriteNeededType
  <2>1. event_queue[r] \in EventQueues
    BY DEF TypeInv, TypeOK, RpcTypeOK
  <2>2. queue' \in [EventQueues -> Seq(Events)]
    BY <2>1, <1>PushType DEF PushWriteNeeded, TypeInv, TypeOK, RpcTypeOK
  <2> QED BY <2>2 DEF PushWriteNeeded, GetWeakPtr, TypeInv, TypeOK, GrpcTypeOK, Faults
\* An item leaves the send queue.
<1>SendQueuePopType. ASSUME TypeInv, NEW r \in Rpcs, send_queue[r] # <<>>,
             send_queue' = [send_queue EXCEPT ![r] = Tail(@)]
      PROVE  send_queue' \in [Rpcs -> Seq(SendItems)] /\ Head(send_queue[r]) \in SendItems
  BY SMT, <1>SendQueuePopType DEF TypeInv, TypeOK, RpcTypeOK
\* A Writer call begins or ends.
<1>WriterFrame. ASSUME TypeInv, NEW w \in Writers, NEW pc \in {"idle", "enqueued"},
             pc = "enqueued" => writer[w].rpc \in Rpcs,
             writer' = [writer EXCEPT ![w].pc = pc]
      PROVE  /\ writer' \in [Writers -> [pc : {"idle", "enqueued"}, rpc : Rpcs \cup {NoRpc}]]
             /\ \A v \in Writers : writer'[v].pc = "enqueued" => writer'[v].rpc \in Rpcs
  <2> USE <1>WriterFrame
  <2> DEFINE WriterType == [pc : {"idle", "enqueued"}, rpc : Rpcs \cup {NoRpc}]
  <2>1. writer \in [Writers -> WriterType]
    BY DEF TypeInv, TypeOK, ServiceTypeOK
  <2>2. /\ writer' \in [Writers -> WriterType]
        /\ writer'[w].pc = pc /\ writer'[w].rpc = writer[w].rpc
        /\ \A v \in Writers : v # w => writer'[v] = writer[v]
    BY <2>1
  <2> QED BY <2>2 DEF TypeInv, BusyHaveRpcs
\* The labels that follow an event and a callback.
<1>FirstLabelType. ASSUME NEW ev \in CqEvents, NEW ok \in BOOLEAN, NEW down \in BOOLEAN
      PROVE  FirstLabel(ev, ok, down) \in Labels
  BY <1>FirstLabelType DEF FirstLabel, CqEvents, Labels, Callbacks
<1> SUFFICES ASSUME TypeInv, [Next]_vars PROVE TypeInv'
  OBVIOUS
<1> USE DEF TypeInv, TypeOK, GrpcTypeOK, RpcTypeOK, ServiceTypeOK, BusyHaveRpcs
<1>0. CASE UNCHANGED vars
  BY <1>0 DEF vars, grpcVars, rpcVars, serviceVars, Busy
<1>1. ASSUME NEW q \in EventQueues, HandleInternalEvent(q), UNCHANGED main
      PROVE  TypeInv'
  <2>1. queue' \in [EventQueues -> Seq(Events)] /\ Head(queue[q]) \in Events
    BY <1>1, PopType DEF HandleInternalEvent
  <2>2. "HandleSendQueue" \in Labels
    BY DEF Labels
  <2>3. CASE thread' = thread
    BY <1>1, <2>1, <2>3 DEF HandleInternalEvent, grpcVars, Busy
  <2>4. CASE thread' # thread
    <3>1. /\ thread' \in [EventQueues -> ThreadType]
          /\ \A p \in EventQueues : Busy(p)' => thread'[p].rpc \in Rpcs
      BY <1>1, <2>1, <2>2, <2>4, <1>BeginType DEF HandleInternalEvent
    <3> QED BY <1>1, <2>1, <3>1 DEF HandleInternalEvent, grpcVars, ThreadType
  <2> QED BY <2>3, <2>4
<1>2. ASSUME NEW q \in EventQueues, HandleCompletionQueueEvent(q), UNCHANGED main
      PROVE  TypeInv'
  <2> DEFINE e == Head(queue[q])
  <2>1. queue' \in [EventQueues -> Seq(Events)] /\ e \in Events
    BY <1>2, PopType DEF HandleCompletionQueueEvent
  <2>2. e.ev \in CqEvents /\ e.rpc \in Rpcs /\ e.ok \in BOOLEAN
    BY <1>2, <2>1 DEF HandleCompletionQueueEvent, Events
  <2>3. PICK down \in ShuttingDownReads(e.rpc, e.ok) :
          LET label == FirstLabel(e.ev, e.ok, down)
          IN  /\ thread' = [thread EXCEPT ![q] = [pc |-> label, ev |-> e.ev,
                                                  rpc |-> e.rpc, item |-> NoItem]]
              /\ refused' = IF label = "Remove" /\ e.ok
                            THEN refused \cup {e.rpc} ELSE refused
              /\ handler' = IF label = "Initialize"
                            THEN [handler EXCEPT ![e.rpc] = "open"] ELSE handler
    BY <1>2 DEF HandleCompletionQueueEvent
  <2>4. down \in BOOLEAN
    BY DEF ShuttingDownReads
  <2>5. FirstLabel(e.ev, e.ok, down) \in Labels
    BY <2>2, <2>4, <1>FirstLabelType
  <2>6. /\ thread' \in [EventQueues -> ThreadType]
        /\ \A p \in EventQueues : Busy(p)' => thread'[p].rpc \in Rpcs
    BY <2>1, <2>3, <2>5, <1>BeginType
  <2>7. refused' \in SUBSET Rpcs /\ handler' \in [Rpcs -> HandlerStates]
    BY <2>2, <2>3 DEF HandlerStates
  <2>8. pending' \in [Rpcs -> SUBSET CqEvents]
    BY <1>2, <2>2 DEF HandleCompletionQueueEvent
  <2> QED BY <1>2, <2>1, <2>6, <2>7, <2>8 DEF HandleCompletionQueueEvent, grpcVars, ThreadType
<1>3. ASSUME NEW q \in EventQueues, UseAfterFree(q), UNCHANGED main
      PROVE  TypeInv'
  BY <1>3 DEF UseAfterFree, rpcVars, serviceVars, Faults, Busy
<1>4. ASSUME NEW q \in EventQueues, HandleSendQueue(q), UNCHANGED main
      PROVE  TypeInv'
  <2>1. Busy(q) /\ thread[q].rpc \in Rpcs
    BY <1>4 DEF HandleSendQueue, At, Busy
  <2>2. CASE NothingToSend(thread[q].rpc)
    <3>1. /\ thread' \in [EventQueues -> ThreadType]
          /\ \A p \in EventQueues : Busy(p)' => thread'[p].rpc \in Rpcs
      BY <1>4, <2>1, <2>2, <1>GotoType DEF HandleSendQueue, Labels
    <3> QED BY <1>4, <2>2, <3>1 DEF HandleSendQueue, grpcVars, ThreadType
  <2>3. CASE ~NothingToSend(thread[q].rpc)
    <3>1. /\ send_queue' \in [Rpcs -> Seq(SendItems)]
          /\ Head(send_queue[thread[q].rpc]) \in SendItems
      BY <1>4, <2>1, <2>3, <1>SendQueuePopType DEF HandleSendQueue, NothingToSend
    <3>2. GotoWith(q, "Perform", Head(send_queue[thread[q].rpc]))
      BY <1>4, <2>3 DEF HandleSendQueue
    <3>3. /\ thread' \in [EventQueues -> ThreadType]
          /\ \A p \in EventQueues : Busy(p)' => thread'[p].rpc \in Rpcs
      BY <2>1, <3>1, <3>2, <1>ItemType DEF Labels
    <3> QED BY <1>4, <3>1, <3>3 DEF HandleSendQueue, grpcVars, ThreadType
  <2> QED BY <2>2, <2>3
<1>5. ASSUME NEW q \in EventQueues, Perform(q), UNCHANGED main
      PROVE  TypeInv'
  <2> DEFINE r == thread[q].rpc
  <2>1. Busy(q) /\ r \in Rpcs
    BY <1>5 DEF Perform, At, Busy
  <2>2. GotoWith(q, "RemoveIfNotPending", NoItem)
    BY <1>5 DEF Perform
  <2>3. "RemoveIfNotPending" \in Labels /\ NoItem \in SendItems
    BY DEF Labels, NoItem, SendItems
  <2>4. /\ thread' \in [EventQueues -> ThreadType]
        /\ \A p \in EventQueues : Busy(p)' => thread'[p].rpc \in Rpcs
    BY <2>1, <2>2, <2>3, <1>ItemType
  <2>5. /\ ops' \in [Rpcs -> SUBSET CqEvents] /\ fault' \in Faults
        /\ pending' \in [Rpcs -> SUBSET CqEvents] /\ status_sent' \in SUBSET Rpcs
    <3>1. ASSUME NEW e \in CqEvents, StartOp(r, cq[r], e),
                 pending' = [pending EXCEPT ![r] = @ \cup {e}],
                 status_sent' \in SUBSET Rpcs
          PROVE  /\ ops' \in [Rpcs -> SUBSET CqEvents] /\ fault' \in Faults
                 /\ pending' \in [Rpcs -> SUBSET CqEvents] /\ status_sent' \in SUBSET Rpcs
      BY <2>1, <3>1, <1>StartOpType
    <3>2. CASE Finishes(r, thread[q].item)
      <4>1. PerformFinish(r)
        BY <1>5, <3>2 DEF Perform
      <4> QED BY <2>1, <3>1, <4>1 DEF PerformFinish, CqEvents
    <3>3. CASE ~Finishes(r, thread[q].item)
      <4>1. PerformWrite(r)
        BY <1>5, <3>3 DEF Perform
      <4> QED BY <2>1, <3>1, <4>1 DEF PerformWrite, CqEvents
    <3> QED BY <3>2, <3>3
  <2>6. sent' \in [Rpcs -> Nat]
    BY <1>5 DEF Perform, SendItems
  <2> QED BY <1>5, <2>4, <2>5, <2>6 DEF Perform, ThreadType
<1>6. ASSUME NEW q \in EventQueues, Read(q), UNCHANGED main
      PROVE  TypeInv'
  <2>1. Busy(q) /\ thread[q].rpc \in Rpcs
    BY <1>6 DEF Read, At, Busy
  <2>2. /\ thread' \in [EventQueues -> ThreadType]
        /\ \A p \in EventQueues : Busy(p)' => thread'[p].rpc \in Rpcs
    BY <1>6, <2>1, <1>GotoType, <1>ReturnType DEF Read, Labels
  <2>3. /\ ops' \in [Rpcs -> SUBSET CqEvents] /\ fault' \in Faults
        /\ pending' \in [Rpcs -> SUBSET CqEvents]
    BY <1>6, <2>1, <1>StartOpType DEF Read, RequestStreamingRead, CqEvents
  <2> QED BY <1>6, <2>2, <2>3 DEF Read, ThreadType
<1>7. ASSUME NEW q \in EventQueues, Clone(q), UNCHANGED main
      PROVE  TypeInv'
  <2>1. thread[q].rpc \in Rpcs
    BY <1>7 DEF Clone, At, Busy
  <2>2. current_event_queue_id' \in EventQueues
    BY <1>7, RoundRobinType DEF Clone
  <2>3. /\ thread' \in [EventQueues -> ThreadType]
        /\ \A p \in EventQueues : Busy(p)' => thread'[p].rpc \in Rpcs
    BY <1>7, <1>ReturnType DEF Clone
  <2>4. PICK new \in Rpcs :
          /\ CloneTo(thread[q].rpc, new, current_event_queue_id')
          /\ Add(new)
          /\ RequestNextMethodInvocation(new, cq[thread[q].rpc])
    BY <1>7 DEF Clone
  <2> QED BY <1>7, <2>1, <2>2, <2>3, <2>4, <1>ConstructType DEF Clone, CloneTo, ThreadType
<1>8. ASSUME NEW q \in EventQueues, RemoveIfNotPending(q), UNCHANGED main
      PROVE  TypeInv'
  <2>1. /\ thread' \in [EventQueues -> ThreadType]
        /\ \A p \in EventQueues : Busy(p)' => thread'[p].rpc \in Rpcs
    BY <1>8, <1>GotoType, <1>ReturnType DEF RemoveIfNotPending, At, Busy, Labels
  <2> QED BY <1>8, <2>1 DEF RemoveIfNotPending, grpcVars, rpcVars, ThreadType
<1>9. ASSUME NEW q \in EventQueues, RemoveAndReturn(q), UNCHANGED main
      PROVE  TypeInv'
  <2>1. /\ thread' \in [EventQueues -> ThreadType]
        /\ \A p \in EventQueues : Busy(p)' => thread'[p].rpc \in Rpcs
    BY <1>9, <1>ReturnType DEF RemoveAndReturn
  <2> QED BY <1>9, <2>1 DEF RemoveAndReturn, Remove, grpcVars, ThreadType
<1>10. ASSUME NEW q \in EventQueues, RemoveAndClone(q), UNCHANGED main
       PROVE  TypeInv'
  <2>1. /\ thread' \in [EventQueues -> ThreadType]
        /\ \A p \in EventQueues : Busy(p)' => thread'[p].rpc \in Rpcs
    BY <1>10, <1>GotoType DEF RemoveAndClone, At, Busy, Labels
  <2> QED BY <1>10, <2>1 DEF RemoveAndClone, Remove, grpcVars, ThreadType
<1>11. ASSUME NEW q \in EventQueues, NEW msg \in BOOLEAN, HandlerSend(q, msg), UNCHANGED main
       PROVE  TypeInv'
  <2> DEFINE r == thread[q].rpc
  <2>1. r \in Rpcs
    BY <1>11 DEF HandlerSend, At, Busy, Callbacks
  <2>2. sends' \in [Rpcs -> Nat] /\ send_queue' \in [Rpcs -> Seq(SendItems)]
    BY <1>11, <2>1, <1>EnqueueType DEF HandlerSend
  <2>3. queue' \in [EventQueues -> Seq(Events)] /\ fault' \in Faults
    BY <1>11, <2>1, <1>PushWriteNeededType DEF HandlerSend
  <2>4. handler' \in [Rpcs -> HandlerStates]
    BY <1>11 DEF HandlerSend, HandlerStates
  <2> QED BY <1>11, <2>2, <2>3, <2>4 DEF HandlerSend, Busy
<1>12. ASSUME NEW q \in EventQueues, CallbackReturns(q), UNCHANGED main
       PROVE  TypeInv'
  <2>1. Busy(q) /\ thread[q].rpc \in Rpcs
    BY <1>12 DEF CallbackReturns, At, Busy, Callbacks
  <2>2. /\ thread' \in [EventQueues -> ThreadType]
        /\ \A p \in EventQueues : Busy(p)' => thread'[p].rpc \in Rpcs
    BY <1>12, <2>1, <1>GotoType, NextLabelType DEF CallbackReturns
  <2>3. handler' \in [Rpcs -> HandlerStates] /\ reads_done' \in SUBSET Rpcs
    BY <1>12, <2>1 DEF CallbackReturns, HandlerStates
  <2> QED BY <1>12, <2>2, <2>3 DEF CallbackReturns, grpcVars, rpcVars, ThreadType
<1>13. ASSUME NEW q \in EventQueues, NEW w \in Writers, GetWriter(q, w), UNCHANGED main
       PROVE  TypeInv'
  <2>1. thread[q].rpc \in Rpcs
    BY <1>13 DEF GetWriter, At, Busy, Callbacks
  <2>2. /\ writer' \in [Writers -> [pc : {"idle", "enqueued"}, rpc : Rpcs \cup {NoRpc}]]
        /\ \A v \in Writers : writer'[v].pc = "enqueued" => writer'[v].rpc \in Rpcs
    BY SMT, <1>13, <2>1 DEF GetWriter
  <2> QED BY <1>13, <2>2 DEF GetWriter, GetWeakPtr, rpcVars, Busy, Faults
<1>14. ASSUME NEW w \in Writers, NEW msg \in BOOLEAN, WriterEnqueue(w, msg), UNCHANGED main
       PROVE  TypeInv'
  <2>1. writer[w].rpc \in Rpcs
    BY <1>14 DEF WriterEnqueue
  <2>2. sends' \in [Rpcs -> Nat] /\ send_queue' \in [Rpcs -> Seq(SendItems)]
    BY <1>14, <2>1, <1>EnqueueType DEF WriterEnqueue
  <2>3. /\ writer' \in [Writers -> [pc : {"idle", "enqueued"}, rpc : Rpcs \cup {NoRpc}]]
        /\ \A v \in Writers : writer'[v].pc = "enqueued" => writer'[v].rpc \in Rpcs
    BY <1>14, <2>1, <1>WriterFrame DEF WriterEnqueue
  <2>4. handler' \in [Rpcs -> HandlerStates]
    BY <1>14 DEF WriterEnqueue, HandlerStates
  <2> QED BY <1>14, <2>2, <2>3, <2>4 DEF WriterEnqueue, grpcVars, Busy
<1>15. ASSUME NEW w \in Writers, WriterPush(w), UNCHANGED main
       PROVE  TypeInv'
  <2>1. queue' \in [EventQueues -> Seq(Events)] /\ fault' \in Faults
    BY <1>15, <1>PushWriteNeededType DEF WriterPush
  <2>2. /\ writer' \in [Writers -> [pc : {"idle", "enqueued"}, rpc : Rpcs \cup {NoRpc}]]
        /\ \A v \in Writers : writer'[v].pc = "enqueued" => writer'[v].rpc \in Rpcs
    BY <1>15, <1>WriterFrame DEF WriterPush
  <2> QED BY <1>15, <2>1, <2>2 DEF WriterPush, Busy
<1>16. CASE StartServing
  <2>1. current_event_queue_id' \in EventQueues
    BY <1>16, RoundRobinType DEF StartServing
  <2>2. PICK r \in Rpcs, m \in Methods, c \in CompletionQueues :
          /\ Construct(r, m, c, current_event_queue_id', current_event_queue_id')
          /\ Add(r)
          /\ RequestNextMethodInvocation(r, c)
    BY <1>16 DEF StartServing
  <2> QED BY <1>16, <2>1, <2>2, <1>ConstructType DEF StartServing, Busy
<1>17. CASE StartThreads \/ Shutdown \/ GrpcServerIsDown \/ CompletionQueuesJoined
            \/ EventQueuesJoined
  BY <1>17 DEF StartThreads, Shutdown, GrpcServerIsDown, CompletionQueuesJoined,
               EventQueuesJoined, MainLabels, grpcVars, rpcVars, serviceVars, Busy
<1>18. CASE ShutdownGrpcServer
  <2>1. server_down' \in BOOLEAN
    BY <1>18 DEF ShutdownGrpcServer
  <2> QED BY <1>18, <2>1 DEF ShutdownGrpcServer, MainLabels, rpcVars, serviceVars, Busy
<1>19. ASSUME NEW s \in Services, StopService(s)
       PROVE  TypeInv'
  BY <1>19 DEF StopService, StopServing, grpcVars, rpcVars, Busy
<1>20. ASSUME NEW c \in CompletionQueues, ShutdownCompletionQueue(c)
       PROVE  TypeInv'
  BY <1>20 DEF ShutdownCompletionQueue, rpcVars, serviceVars, Busy
<1>21. ASSUME NEW q \in EventQueues, EventThreadReturns(q)
       PROVE  TypeInv'
  <2>1. thread \in [EventQueues -> ThreadType] /\ "exited" \in Labels
    BY DEF ThreadType, Labels
  <2>2. /\ thread' \in [EventQueues -> ThreadType]
        /\ \A p \in EventQueues : Busy(p)' => Busy(p) /\ thread'[p].rpc = thread[p].rpc
    BY <1>21, <2>1, GotoFrame DEF EventThreadReturns, Busy
  <2> QED BY <1>21, <2>2 DEF EventThreadReturns, grpcVars, rpcVars, ThreadType
<1>22. ASSUME NEW r \in Rpcs, ClientCall(r), UNCHANGED <<rpcVars, serviceVars, main>>
       PROVE  TypeInv'
  BY <1>22 DEF ClientCall, rpcVars, serviceVars, CallStates, CqEvents, Busy
<1>23. ASSUME NEW r \in Rpcs, CallCloses(r), UNCHANGED <<rpcVars, serviceVars, main>>
       PROVE  TypeInv'
  BY <1>23 DEF CallCloses, rpcVars, serviceVars, CallStates, Busy
<1>24. ASSUME NEW r \in Rpcs, NEW e \in CqEvents, NEW ok \in BOOLEAN,
              RunCompletionQueue(r, e, ok)
       PROVE  TypeInv'
  <2>1. queue' \in [EventQueues -> Seq(Events)] /\ fault' \in Faults
    <3>1. CASE Destroyed(r)
      BY <1>24, <3>1 DEF RunCompletionQueue, Faults
    <3>2. CASE ~Destroyed(r)
      <4>1. /\ Push(events_queue[r], e, r, ok) /\ fault' = fault
            /\ e \in CqEvents \cup {"WRITE_NEEDED"} /\ events_queue[r] \in EventQueues
        BY <1>24, <3>2 DEF RunCompletionQueue
      <4>2. queue \in [EventQueues -> Seq(Events)] /\ fault \in Faults
        OBVIOUS
      <4>3. queue' \in [EventQueues -> Seq(Events)]
        BY SMT, <4>1, <4>2, <1>PushType
      <4> QED BY <4>1, <4>2, <4>3
    <3> QED BY <3>1, <3>2
  <2>2. ops' \in [Rpcs -> SUBSET CqEvents]
    <3>1. ops' = [ops EXCEPT ![r] = @ \ {e}] /\ ops[r] \ {e} \in SUBSET CqEvents
      BY <1>24 DEF RunCompletionQueue
    <3> QED BY <3>1
  <2>3. requests' \in [Rpcs -> Nat]
    <3>1. requests' = requests \/ requests' = [requests EXCEPT ![r] = @ + 1]
      BY <1>24 DEF RunCompletionQueue
    <3>2. requests \in [Rpcs -> Nat]
      OBVIOUS
    <3> HIDE DEF TypeInv
    <3> QED BY SMT, <3>1, <3>2
  <2> QED BY <1>24, <2>1, <2>2, <2>3 DEF RunCompletionQueue, serviceVars, Busy
<1> HIDE DEF TypeInv
<1> QED
  BY <1>0, <1>1, <1>2, <1>3, <1>4, <1>5, <1>6, <1>7, <1>8, <1>9, <1>10, <1>11, <1>12,
     <1>13, <1>14, <1>15, <1>16, <1>17, <1>18, <1>19, <1>20, <1>21, <1>22, <1>23, <1>24
     DEF Next, Step, Stopped, MainStep, HandleEvent, ServiceStep, CallbackStep,
         WriterStep, ClientStep

\* The server is type correct: every index, queue, label and flag that the
\* threads of the server, gRPC and user code can make stays in its type.
THEOREM TypeCorrect == Spec => []TypeOK
<1>1. Init => TypeInv
  <2>1. Init => \A q \in EventQueues : ~Busy(q)
    BY SMT DEF Init, ServiceInit, Idle, Busy
  <2>2. Init => \A w \in Writers : writer[w].pc # "enqueued"
    BY SMT DEF Init, ServiceInit
  <2> QED BY <2>1, <2>2, InitTypeOK DEF TypeInv, BusyHaveRpcs
<1>2. TypeInv => TypeOK
  BY DEF TypeInv
<1> QED BY <1>1, <1>2, NextTypeInv, PTL DEF Spec

\* What a push adds to the event queues.
LEMMA PushEntries ==
  ASSUME TypeInv, NEW q \in EventQueues, NEW e \in CqEvents \cup {"WRITE_NEEDED"},
         NEW r \in Rpcs, NEW ok \in BOOLEAN, Push(q, e, r, ok)
  PROVE  /\ \A p \in EventQueues : p # q => queue'[p] = queue[p]
         /\ Len(queue[q]) \in Nat
         /\ Len(queue'[q]) = Len(queue[q]) + 1
         /\ queue'[q][Len(queue[q]) + 1] = [ev |-> e, rpc |-> r, ok |-> ok]
         /\ \A i \in 1 .. Len(queue[q]) : queue'[q][i] = queue[q][i]
BY SMT DEF TypeInv, TypeOK, RpcTypeOK, Push

\* PushToEventQueue adds its event to the queued ones, and nothing else.
LEMMA PushQueued ==
  ASSUME TypeInv, NEW q \in EventQueues, NEW e \in CqEvents \cup {"WRITE_NEEDED"},
         NEW r \in Rpcs, NEW ok \in BOOLEAN, Push(q, e, r, ok)
  PROVE  \A s, f : QueuedIn(queue', s, f) <=> QueuedIn(queue, s, f) \/ (s = r /\ f = e)
<1>0. /\ \A p \in EventQueues : p # q => queue'[p] = queue[p]
      /\ Len(queue[q]) \in Nat
      /\ Len(queue'[q]) = Len(queue[q]) + 1
      /\ queue'[q][Len(queue[q]) + 1] = [ev |-> e, rpc |-> r, ok |-> ok]
      /\ \A i \in 1 .. Len(queue[q]) : queue'[q][i] = queue[q][i]
  BY PushEntries
<1>1. TAKE s, f
<1>2. ASSUME QueuedIn(queue', s, f) PROVE QueuedIn(queue, s, f) \/ (s = r /\ f = e)
  <2>1. PICK p \in EventQueues : \E i \in 1 .. Len(queue'[p]) :
               queue'[p][i].rpc = s /\ queue'[p][i].ev = f
    BY <1>2 DEF QueuedIn
  <2>2. PICK i \in 1 .. Len(queue'[p]) : queue'[p][i].rpc = s /\ queue'[p][i].ev = f
    BY <2>1
  <2>3. CASE p # q
    BY <1>0, <2>2, <2>3 DEF QueuedIn
  <2>4. CASE p = q
    <3>1. i \in 1 .. Len(queue[q]) \/ i = Len(queue[q]) + 1
      BY SMT, <1>0, <2>2, <2>4
    <3>2. CASE i \in 1 .. Len(queue[q])
      BY <1>0, <2>2, <2>4, <3>2 DEF QueuedIn
    <3>3. CASE i = Len(queue[q]) + 1
      BY SMT, <1>0, <2>2, <2>4, <3>3
    <3> QED BY <3>1, <3>2, <3>3
  <2> QED BY <2>3, <2>4
<1>3. ASSUME QueuedIn(queue, s, f) PROVE QueuedIn(queue', s, f)
  <2>1. PICK p \in EventQueues : \E i \in 1 .. Len(queue[p]) :
               queue[p][i].rpc = s /\ queue[p][i].ev = f
    BY <1>3 DEF QueuedIn
  <2>2. PICK i \in 1 .. Len(queue[p]) : queue[p][i].rpc = s /\ queue[p][i].ev = f
    BY <2>1
  <2>3. CASE p # q
    BY <1>0, <2>2, <2>3 DEF QueuedIn
  <2>4. CASE p = q
    <3>1. i \in 1 .. Len(queue'[q]) /\ queue'[q][i] = queue[q][i]
      BY SMT, <1>0, <2>2, <2>4
    <3> QED BY <2>2, <2>4, <3>1 DEF QueuedIn
  <2> QED BY <2>3, <2>4
<1>4. QueuedIn(queue', r, e)
  BY SMT, <1>0 DEF QueuedIn
<1> QED BY <1>2, <1>3, <1>4

\* What a pop takes away.
LEMMA PopEntries ==
  ASSUME TypeInv, NEW q \in EventQueues, queue[q] # <<>>,
         queue' = [queue EXCEPT ![q] = Tail(@)]
  PROVE  /\ \A p \in EventQueues : p # q => queue'[p] = queue[p]
         /\ Len(queue[q]) \in Nat /\ Len(queue[q]) >= 1
         /\ Len(queue'[q]) = Len(queue[q]) - 1
         /\ Head(queue[q]) = queue[q][1]
         /\ \A i \in 1 .. Len(queue'[q]) : queue'[q][i] = queue[q][i + 1]
BY SMT DEF TypeInv, TypeOK, RpcTypeOK

\* PopWithTimeout takes the head of a queue: what is queued afterwards was before.
LEMMA PopQueued ==
  ASSUME TypeInv, NEW q \in EventQueues, queue[q] # <<>>,
         queue' = [queue EXCEPT ![q] = Tail(@)]
  PROVE  /\ \A s, f : QueuedIn(queue', s, f) => QueuedIn(queue, s, f)
         /\ QueuedIn(queue, Head(queue[q]).rpc, Head(queue[q]).ev)
<1>1. ASSUME NEW s, NEW f, QueuedIn(queue', s, f) PROVE QueuedIn(queue, s, f)
  BY SMT, <1>1, PopEntries DEF QueuedIn
<1>2. QueuedIn(queue, Head(queue[q]).rpc, Head(queue[q]).ev)
  BY SMT, PopEntries DEF QueuedIn
<1> QED BY <1>1, <1>2

\* A pop leaves entries that were there before, in their order.
LEMMA PoppedFrom ==
  ASSUME TypeInv, NEW q \in EventQueues, queue[q] # <<>>,
         queue' = [queue EXCEPT ![q] = Tail(@)]
  PROVE  /\ \A p \in EventQueues : \A i \in 1 .. Len(queue'[p]) :
              LET k == IF p = q THEN i + 1 ELSE i
              IN  k \in 1 .. Len(queue[p]) /\ queue'[p][i] = queue[p][k]
         /\ 1 \in 1 .. Len(queue[q]) /\ Head(queue[q]) = queue[q][1]
         /\ \A i \in 1 .. Len(queue[q]) : i = 1 \/
              (i - 1 \in 1 .. Len(queue'[q]) /\ queue'[q][i - 1] = queue[q][i])
         /\ \A p \in EventQueues : p # q => queue'[p] = queue[p]
<1>1. /\ \A p \in EventQueues : p # q => queue'[p] = queue[p]
      /\ Len(queue[q]) \in Nat /\ Len(queue[q]) >= 1
      /\ Len(queue'[q]) = Len(queue[q]) - 1
      /\ Head(queue[q]) = queue[q][1]
      /\ \A i \in 1 .. Len(queue'[q]) : queue'[q][i] = queue[q][i + 1]
  BY PopEntries
<1>2. \A i \in 1 .. Len(queue[q]) : i = 1 \/
        (i - 1 \in 1 .. Len(queue'[q]) /\ queue'[q][i - 1] = queue[q][i])
  BY SMT, <1>1
<1>3. 1 \in 1 .. Len(queue[q])
  BY SMT, <1>1
<1>4. \A p \in EventQueues : \A i \in 1 .. Len(queue'[p]) :
              LET k == IF p = q THEN i + 1 ELSE i
              IN  k \in 1 .. Len(queue[p]) /\ queue'[p][i] = queue[p][k]
  BY SMT, <1>1
<1> QED BY <1>1, <1>2, <1>3, <1>4

\* Exactly the head is not queued any more.
LEMMA PopExact ==
  ASSUME TypeInv, NEW q \in EventQueues, queue[q] # <<>>,
         queue' = [queue EXCEPT ![q] = Tail(@)], NEW s, NEW f,
         s # Head(queue[q]).rpc \/ f # Head(queue[q]).ev
  PROVE  QueuedIn(queue', s, f) <=> QueuedIn(queue, s, f)
<1>1. QueuedIn(queue', s, f) => QueuedIn(queue, s, f)
  BY PopQueued
<1>2. ASSUME QueuedIn(queue, s, f) PROVE QueuedIn(queue', s, f)
  <2>1. PICK p \in EventQueues : \E i \in 1 .. Len(queue[p]) :
          queue[p][i].rpc = s /\ queue[p][i].ev = f
    BY <1>2 DEF QueuedIn
  <2>2. PICK i \in 1 .. Len(queue[p]) : queue[p][i].rpc = s /\ queue[p][i].ev = f
    BY <2>1
  <2>3. CASE p # q
    <3>1. queue'[p] = queue[p]
      BY <2>3, PoppedFrom
    <3> QED BY <2>2, <3>1 DEF QueuedIn
  <2>4. CASE p = q
    <3>1. i # 1
      BY <2>2, <2>4, PoppedFrom
    <3>2. i - 1 \in 1 .. Len(queue'[q]) /\ queue'[q][i - 1] = queue[q][i]
      BY <2>4, <3>1, PoppedFrom
    <3> QED BY <2>2, <2>4, <3>2 DEF QueuedIn
  <2> QED BY <2>3, <2>4
<1> QED BY <1>1, <1>2

\* Every event is in the queue of its Rpc, and a tag that was popped is in none.
LEMMA PoppedTag ==
  ASSUME TypeInv, RoutingInv, TagsInv, NEW q \in EventQueues, queue[q] # <<>>,
         queue' = [queue EXCEPT ![q] = Tail(@)],
         \/ Head(queue[q]).ev \in {"NEW_CONNECTION", "DONE"}
         \/ Head(queue[q]).ev # "WRITE_NEEDED" /\ SameQueue(Head(queue[q]).rpc)
  PROVE  ~QueuedIn(queue', Head(queue[q]).rpc, Head(queue[q]).ev)
<1>0. /\ \A p \in EventQueues : p # q => queue'[p] = queue[p]
      /\ Len(queue[q]) \in Nat /\ Len(queue[q]) >= 1
      /\ Len(queue'[q]) = Len(queue[q]) - 1
      /\ Head(queue[q]) = queue[q][1]
      /\ \A i \in 1 .. Len(queue'[q]) : queue'[q][i] = queue[q][i + 1]
  BY PopEntries
<1>1. SUFFICES ASSUME NEW p \in EventQueues, NEW i \in 1 .. Len(queue'[p]),
                      queue'[p][i].rpc = Head(queue[q]).rpc,
                      queue'[p][i].ev = Head(queue[q]).ev
               PROVE  FALSE
  BY DEF QueuedIn
<1>2. CASE p = q
  <2>1. /\ i + 1 \in 1 .. Len(queue[q]) /\ 1 \in 1 .. Len(queue[q])
        /\ queue[q][i + 1] = queue'[q][i] /\ Head(queue[q]) = queue[q][1]
        /\ i + 1 # 1
    BY SMT, <1>0, <1>2
  <2>2. /\ \/ queue[q][1].ev \in {"NEW_CONNECTION", "DONE"}
           \/ queue[q][1].ev # "WRITE_NEEDED" /\ SameQueue(queue[q][1].rpc)
        /\ queue[q][i + 1].rpc = queue[q][1].rpc
        /\ queue[q][i + 1].ev = queue[q][1].ev
    BY <1>1, <1>2, <2>1
  <2> QED BY <2>1, <2>2 DEF TagsInv, TagOK
<1>3. CASE p # q
  BY SMT, <1>0, <1>1, <1>3 DEF RoutingInv, SameQueue
<1> QED BY <1>2, <1>3

\* An entry of an event queue is queued.
LEMMA EntryQueued ==
  ASSUME NEW queues, NEW q \in EventQueues, NEW i \in 1 .. Len(queues[q])
  PROVE  QueuedIn(queues, queues[q][i].rpc, queues[q][i].ev)
BY DEF QueuedIn

\* An entry of an event queue is an event of some Rpc.
LEMMA EntryType ==
  ASSUME TypeInv, NEW q \in EventQueues, NEW i \in 1 .. Len(queue[q])
  PROVE  /\ queue[q][i].rpc \in Rpcs
         /\ queue[q][i].ev \in CqEvents \cup {"WRITE_NEEDED"}
         /\ queue[q][i].ok \in BOOLEAN
<1>1. queue[q][i] \in Events
  BY SMT DEF TypeInv, TypeOK, RpcTypeOK
<1> QED BY <1>1 DEF Events

\* What Goto, GotoWith and Return do to the threads.
LEMMA GotoThreads ==
  ASSUME TypeInv, NEW q \in EventQueues, NEW label \in Labels, NEW item,
         Goto(q, label) \/ GotoWith(q, label, item)
  PROVE  /\ thread'[q].pc = label
         /\ \A p \in EventQueues :
              thread'[p].rpc = thread[p].rpc /\ thread'[p].ev = thread[p].ev
         /\ \A p \in EventQueues : p # q => thread'[p] = thread[p]
<1>1. thread \in [EventQueues -> ThreadType]
  BY DEF TypeInv, TypeOK, ServiceTypeOK, ThreadType
<1>2. CASE Goto(q, label)
  BY <1>1, <1>2, GotoFrame
<1>3. CASE GotoWith(q, label, item)
  BY <1>1, <1>3 DEF GotoWith
<1> QED BY <1>2, <1>3

\* Return makes one event thread idle and moves no other.
LEMMA ReturnThreads ==
  ASSUME TypeInv, NEW q \in EventQueues, Return(q)
  PROVE  ~Busy(q)' /\ \A p \in EventQueues : p # q => thread'[p] = thread[p]
BY DEF Return, Idle, Busy, TypeInv, TypeOK, ServiceTypeOK

\* With one queue for all its events, an Rpc is handled by one thread at a time.
LEMMA OneThread ==
  ASSUME RoutingInv, NEW p \in EventQueues, NEW q \in EventQueues, Busy(p), Busy(q),
         thread[p].rpc = thread[q].rpc, SameQueue(thread[q].rpc)
  PROVE  p = q
BY SMT DEF RoutingInv, SameQueue

-----------------------------------------------------------------------------

\* An Rpc that user code can use has its call.
LEMMA CallbackRpc ==
  ASSUME TypeInv, EventsInv, NEW q \in EventQueues, thread[q].pc \in Callbacks
  PROVE  /\ thread[q].rpc \in Rpcs
         /\ call[thread[q].rpc] \notin {"none", "requested"}
         /\ ~Outstanding(thread[q].rpc, "NEW_CONNECTION")
<1>1. BusyOn(q, thread[q].rpc) /\ thread[q].rpc \in Rpcs /\ thread[q].pc # "Remove"
  BY DEF BusyOn, Busy, Callbacks, TypeInv, BusyHaveRpcs
<1> QED BY <1>1 DEF EventsInv, ConnectionInv, ConnectionOK, Quiet

\* The Rpc of a Writer that is between enqueueing and pushing.
LEMMA WriterRpc ==
  ASSUME EventsInv, NEW w \in Writers, writer[w].rpc \in Rpcs
  PROVE  /\ call[writer[w].rpc] \notin {"none", "requested"}
         /\ ~Outstanding(writer[w].rpc, "NEW_CONNECTION")
BY DEF EventsInv, ConnectionInv, ConnectionOK, Quiet

\* A pop leaves entries that were there before, in their order.
LEMMA PopOld ==
  ASSUME TypeInv, NEW q \in EventQueues, queue[q] # <<>>,
         queue' = [queue EXCEPT ![q] = Tail(@)]
  PROVE  \A p \in EventQueues : \A i \in 1 .. Len(queue'[p]) :
           LET k == IF p = q THEN i + 1 ELSE i
           IN  k \in 1 .. Len(queue[p]) /\ queue'[p][i] = queue[p][k]
<1>1. /\ \A p \in EventQueues : p # q => queue'[p] = queue[p]
      /\ Len(queue[q]) \in Nat /\ Len(queue[q]) >= 1
      /\ Len(queue'[q]) = Len(queue[q]) - 1
      /\ \A i \in 1 .. Len(queue'[q]) : queue'[q][i] = queue[q][i + 1]
  BY PopEntries
<1> QED BY SMT, <1>1

\* The head of an event queue, and the Rpc it belongs to.
LEMMA HeadEvent ==
  ASSUME TypeInv, EventsInv, NEW q \in EventQueues, queue[q] # <<>>
  PROVE  /\ 1 \in 1 .. Len(queue[q]) /\ Head(queue[q]) = queue[q][1]
         /\ Head(queue[q]).rpc \in Rpcs
         /\ Head(queue[q]).ev \in CqEvents \cup {"WRITE_NEEDED"}
         /\ Head(queue[q]).ok \in BOOLEAN
         /\ Queued(Head(queue[q]).rpc, Head(queue[q]).ev)
         /\ q = IF Head(queue[q]).ev = "WRITE_NEEDED" THEN event_queue[Head(queue[q]).rpc]
                ELSE events_queue[Head(queue[q]).rpc]
<1>1. 1 \in 1 .. Len(queue[q]) /\ Head(queue[q]) = queue[q][1]
  BY SMT DEF TypeInv, TypeOK, RpcTypeOK
<1>2. Queued(queue[q][1].rpc, queue[q][1].ev)
  BY <1>1, EntryQueued DEF Queued
<1> QED BY SMT, <1>1, <1>2, EntryType DEF EventsInv, RoutingInv

\* An event thread takes the completion queue event e of r, and goes to label.
EventTaken(q, r, e, ok, label) ==
  /\ ~Busy(q) /\ q = events_queue[r] /\ Queued(r, e)
  /\ queue[q] # <<>> /\ Head(queue[q]).rpc = r /\ Head(queue[q]).ev = e /\ Head(queue[q]).ok = ok
  /\ queue' = [queue EXCEPT ![q] = Tail(@)]
  /\ Busy(q)' /\ thread'[q] = [pc |-> label, ev |-> e, rpc |-> r, item |-> NoItem]
  /\ \A p \in EventQueues : p # q => thread'[p] = thread[p]
  /\ pending'[r] = pending[r] \ {e}
  /\ \A s \in Rpcs : s # r => pending'[s] = pending[s]
  /\ \A s, f : s # r \/ f # e => (Queued(s, f)' <=> Queued(s, f))
  /\ \A s, f : Queued(s, f)' => Queued(s, f)
  /\ SameQueue(r) => e \notin ops[r] /\ ~Queued(r, e)'
  /\ handler' = IF label = "Initialize" THEN [handler EXCEPT ![r] = "open"] ELSE handler
  /\ refused' = IF label = "Remove" /\ ok THEN refused \cup {r} ELSE refused
  /\ UNCHANGED <<grpcVars, method, event_queue, events_queue, send_queue, sends, sent,
                 active_rpcs, stopped, reads_done, writer>>

\* Where Service::HandleEvent begins, when requests fail only in a shutdown.
EventLabel(e, ok, label) ==
  /\ e = "NEW_CONNECTION" => label \in {"Remove", "Initialize"}
  /\ e = "READ" => label = IF ok THEN "OnRequest" ELSE "OnReadsDone"
  /\ e = "WRITE" => label = "HandleSendQueue"
  /\ e = "FINISH" => label = "OnFinish"
  /\ e = "DONE" => label = "RemoveIfNotPending"

\* CompletionQueueRpcEvent::Handle, taken apart.
LEMMA TakesEvent ==
  ASSUME TypeInv, EventsInv, ~RequestsMayFail, NEW q \in EventQueues, HandleCompletionQueueEvent(q)
  PROVE  \E r \in Rpcs, e \in CqEvents, ok \in BOOLEAN, label \in Labels :
           EventTaken(q, r, e, ok, label) /\ EventLabel(e, ok, label)
<1>1. /\ thread[q].pc = "idle" /\ queue[q] # <<>> /\ Head(queue[q]).ev # "WRITE_NEEDED"
      /\ queue' = [queue EXCEPT ![q] = Tail(@)]
      /\ UNCHANGED <<grpcVars, method, event_queue, events_queue, send_queue, sends, sent,
                     active_rpcs, stopped, reads_done, writer>>
  BY DEF HandleCompletionQueueEvent
<1>2. PICK r \in Rpcs, e \in CqEvents, ok \in BOOLEAN :
        r = Head(queue[q]).rpc /\ e = Head(queue[q]).ev /\ ok = Head(queue[q]).ok
  BY <1>1, HeadEvent
<1>3. /\ 1 \in 1 .. Len(queue[q]) /\ queue[q][1].ev = e /\ queue[q][1].rpc = r
      /\ queue[q][1].ok = ok
      /\ Queued(r, e) /\ q = events_queue[r]
  BY <1>1, <1>2, HeadEvent
<1>4. PICK down \in ShuttingDownReads(r, ok) :
        /\ thread' = [thread EXCEPT ![q] = [pc |-> FirstLabel(e, ok, down), ev |-> e, rpc |-> r,
                                            item |-> NoItem]]
        /\ refused' = IF FirstLabel(e, ok, down) = "Remove" /\ ok
                      THEN refused \cup {r} ELSE refused
        /\ handler' = IF FirstLabel(e, ok, down) = "Initialize"
                      THEN [handler EXCEPT ![r] = "open"] ELSE handler
  BY <1>2 DEF HandleCompletionQueueEvent
<1> DEFINE label == FirstLabel(e, ok, down)
<1>5. EventLabel(e, ok, label)
  <2>1. CASE e # "NEW_CONNECTION"
    BY <2>1 DEF FirstLabel, EventLabel
  <2>2. CASE e = "NEW_CONNECTION"
    <3>1. ~ok => server_down
      BY <1>3, <2>2 DEF EventsInv, ShutdownInv
    <3>2. CASE ok
      BY <2>2, <3>2 DEF FirstLabel, EventLabel
    <3>3. CASE ~ok
      <4>1. ServiceOf[method[r]] \in stopped
        BY <3>1, <3>3, ServicesAssumption DEF EventsInv, ShutdownInv, TypeInv, TypeOK, RpcTypeOK
      <4>2. down
        BY <1>4, <3>3, <4>1 DEF ShuttingDownReads
      <4> QED BY <2>2, <3>3, <4>2 DEF FirstLabel, EventLabel
    <3> QED BY <3>2, <3>3
  <2> QED BY <2>1, <2>2
<1> HIDE DEF label
<1>6. label \in Labels \ {"idle", "exited"}
  BY <1>5 DEF EventLabel, CqEvents, Labels, Callbacks
<1>7. /\ thread'[q] = [pc |-> label, ev |-> e, rpc |-> r, item |-> NoItem]
      /\ \A p \in EventQueues : p # q => thread'[p] = thread[p]
  BY <1>4 DEF TypeInv, TypeOK, ServiceTypeOK, label
<1>8. ~Busy(q) /\ Busy(q)'
  BY SMT, <1>1, <1>6, <1>7 DEF Busy
<1>9. /\ pending'[r] = pending[r] \ {e}
      /\ \A s \in Rpcs : s # r => pending'[s] = pending[s]
  BY <1>2 DEF HandleCompletionQueueEvent, TypeInv, TypeOK, RpcTypeOK
<1>10. \A s, f : s # r \/ f # e => (Queued(s, f)' <=> Queued(s, f))
  BY <1>1, <1>2, PopExact DEF Queued
<1>11. \A s, f : Queued(s, f)' => Queued(s, f)
  BY <1>1, PopQueued DEF Queued
<1>12. ASSUME SameQueue(r) PROVE e \notin ops[r] /\ ~Queued(r, e)'
  <2>1. e \notin ops[r]
    <3>1. TagOK(q, 1)
      BY <1>3 DEF EventsInv, TagsInv
    <3> QED BY <1>1, <1>2, <1>3, <1>12, <3>1 DEF TagOK
  <2>2. ~QueuedIn(queue', r, e)
    BY <1>1, <1>2, <1>12, PoppedTag DEF EventsInv
  <2> QED BY <2>1, <2>2 DEF Queued
<1>13. /\ handler' = IF label = "Initialize" THEN [handler EXCEPT ![r] = "open"] ELSE handler
       /\ refused' = IF label = "Remove" /\ ok THEN refused \cup {r} ELSE refused
  BY <1>4 DEF label
<1>14. EventTaken(q, r, e, ok, label)
  BY <1>1, <1>2, <1>3, <1>7, <1>8, <1>9, <1>10, <1>11, <1>12, <1>13 DEF EventTaken
<1> QED BY <1>5, <1>6, <1>14

\* Thread q gives item to gRPC, as the operation e of r, and goes on.
Performs(q, r, item, e) ==
  /\ thread[q].pc = "Perform" /\ thread[q].rpc = r /\ BusyOn(q, r) /\ item = thread[q].item
  /\ e = IF Finishes(r, item) THEN "FINISH" ELSE "WRITE"
  /\ pending'[r] = pending[r] \cup {e} /\ ops'[r] = ops[r] \cup {e} /\ sent'[r] = item.n
  /\ \A s \in Rpcs : s # r => pending'[s] = pending[s] /\ ops'[s] = ops[s] /\ sent'[s] = sent[s]
  /\ r \in status_sent' <=> r \in status_sent \/ Finishes(r, item)
  /\ \A s \in Rpcs : s # r => (s \in status_sent' <=> s \in status_sent)
  /\ thread'[q].pc = "RemoveIfNotPending"
  /\ \A p \in EventQueues : thread'[p].rpc = thread[p].rpc
  /\ \A p \in EventQueues : p # q => thread'[p] = thread[p]
  /\ UNCHANGED <<call, method, event_queue, events_queue, sends, send_queue, queue, refused,
                 handler, reads_done>>

\* Rpc::PerformWrite or Rpc::PerformFinish, taken apart.
LEMMA PerformEffect ==
  ASSUME TypeInv, NEW q \in EventQueues, Perform(q)
  PROVE  \E r \in Rpcs : \E item, e : Performs(q, r, item, e)
<1>1. /\ thread[q].pc = "Perform"
      /\ GotoWith(q, "RemoveIfNotPending", NoItem)
      /\ UNCHANGED <<call, method, event_queue, events_queue, sends, send_queue, queue, refused,
                     handler, reads_done>>
  BY DEF Perform, At
<1>2. PICK r \in Rpcs : r = thread[q].rpc /\ BusyOn(q, r)
  BY <1>1 DEF BusyOn, Busy, TypeInv, BusyHaveRpcs
<1>3. PICK item : item = thread[q].item
  OBVIOUS
<1>4. PICK e : e = IF Finishes(r, item) THEN "FINISH" ELSE "WRITE"
  OBVIOUS
<1>5. /\ pending' = [pending EXCEPT ![r] = @ \cup {e}]
      /\ ops' = [ops EXCEPT ![r] = @ \cup {e}]
      /\ status_sent' = IF Finishes(r, item) THEN status_sent \cup {r} ELSE status_sent
      /\ sent' = [sent EXCEPT ![r] = item.n]
  BY <1>2, <1>3, <1>4 DEF Perform, PerformFinish, PerformWrite, StartOp
<1>6. /\ pending'[r] = pending[r] \cup {e} /\ ops'[r] = ops[r] \cup {e} /\ sent'[r] = item.n
      /\ \A s \in Rpcs : s # r => pending'[s] = pending[s] /\ ops'[s] = ops[s] /\ sent'[s] = sent[s]
  BY <1>5 DEF TypeInv, TypeOK, RpcTypeOK, GrpcTypeOK
<1>7. /\ r \in status_sent' <=> r \in status_sent \/ Finishes(r, item)
      /\ \A s \in Rpcs : s # r => (s \in status_sent' <=> s \in status_sent)
  BY SMT, <1>5
<1>8. /\ thread'[q].pc = "RemoveIfNotPending"
      /\ \A p \in EventQueues : thread'[p].rpc = thread[p].rpc
      /\ \A p \in EventQueues : p # q => thread'[p] = thread[p]
  BY <1>1, GotoThreads DEF Labels
<1>9. Performs(q, r, item, e)
  BY <1>1, <1>2, <1>3, <1>4, <1>6, <1>7, <1>8 DEF Performs
<1> QED BY <1>9

\* Callback label of r returns on thread q, which goes to label2.
CallbackEnds(q, r, label, label2) ==
  /\ thread[q].rpc = r /\ BusyOn(q, r) /\ thread[q].pc = label
  /\ label2 \in RequestLabels => label \in {"Initialize", "OnRequest"}
  /\ label2 \notin {"Initialize", "OnFinish"}
  /\ handler'[r] = IF handler[r] = "ending" THEN "ended" ELSE handler[r]
  /\ r \in reads_done' <=> r \in reads_done \/ label = "OnReadsDone"
  /\ \A s \in Rpcs : s # r => handler'[s] = handler[s] /\ (s \in reads_done' <=> s \in reads_done)
  /\ Busy(q)' /\ thread'[q].rpc = r /\ thread'[q].pc = label2
  /\ \A p \in EventQueues : p # q => thread'[p] = thread[p]
  /\ UNCHANGED <<call, ops, status_sent, method, event_queue, events_queue, pending, sends, sent,
                 send_queue, queue, refused>>

\* The return of a callback, taken apart.
LEMMA CallbackReturnsEffect ==
  ASSUME TypeInv, NEW q \in EventQueues, CallbackReturns(q)
  PROVE  \E r \in Rpcs, label \in Callbacks,
            label2 \in {"Read", "OnRequest", "OnReadsDone", "RemoveIfNotPending", "Clone"} :
           CallbackEnds(q, r, label, label2)
<1>1. /\ thread[q].pc \in Callbacks /\ Goto(q, NextLabel(q))
      /\ UNCHANGED <<call, ops, status_sent, method, event_queue, events_queue, pending, sends, sent,
                     send_queue, queue, refused>>
  BY DEF CallbackReturns, At, grpcVars, rpcVars
<1>2. PICK r \in Rpcs : r = thread[q].rpc /\ BusyOn(q, r)
  BY <1>1 DEF BusyOn, Busy, TypeInv, BusyHaveRpcs, Callbacks
<1>3. PICK label \in Callbacks : label = thread[q].pc
  BY <1>1
<1>4. /\ handler'[r] = IF handler[r] = "ending" THEN "ended" ELSE handler[r]
      /\ r \in reads_done' <=> r \in reads_done \/ label = "OnReadsDone"
      /\ \A s \in Rpcs : s # r =>
           handler'[s] = handler[s] /\ (s \in reads_done' <=> s \in reads_done)
  <2>1. /\ handler' = IF handler[r] = "ending" THEN [handler EXCEPT ![r] = "ended"] ELSE handler
        /\ reads_done' = IF label = "OnReadsDone" THEN reads_done \cup {r} ELSE reads_done
    BY <1>2, <1>3 DEF CallbackReturns
  <2> QED BY SMT, <2>1 DEF TypeInv, TypeOK, ServiceTypeOK
<1>5. /\ thread'[q].pc = NextLabel(q)
      /\ \A p \in EventQueues : thread'[p].rpc = thread[p].rpc
      /\ \A p \in EventQueues : p # q => thread'[p] = thread[p]
  BY <1>1, GotoThreads, NextLabelType
<1>6. PICK label2 \in {"Read", "OnRequest", "OnReadsDone", "RemoveIfNotPending", "Clone"} :
        label2 = NextLabel(q) /\ (label2 \in RequestLabels => label \in {"Initialize", "OnRequest"})
  BY <1>3 DEF NextLabel, Callbacks, RequestLabels
<1>7. Busy(q)' /\ thread'[q].rpc = r /\ thread'[q].pc = label2
  BY <1>2, <1>5, <1>6 DEF Busy
<1>8. label2 \notin {"Initialize", "OnFinish"}
  BY <1>6
<1>9. CallbackEnds(q, r, label, label2)
  BY <1>1, <1>2, <1>3, <1>4, <1>5, <1>6, <1>7, <1>8 DEF CallbackEnds
<1> QED BY <1>9

\* What an accepted message changes.
LEMMA EnqueueEffect ==
  ASSUME TypeInv, NEW r \in Rpcs, NEW msg, EnqueueMessage(r, msg)
  PROVE  /\ sends'[r] = sends[r] + 1
         /\ send_queue'[r] = Append(send_queue[r], [msg |-> msg, n |-> sends[r] + 1])
         /\ \A s \in Rpcs : s # r => sends'[s] = sends[s] /\ send_queue'[s] = send_queue[s]
BY DEF EnqueueMessage, TypeInv, TypeOK, RpcTypeOK

\* With one event thread all events of an Rpc go through one queue.
LEMMA OneQueue ==
  ASSUME TypeInv, NumEventThreads = 1
  PROVE  \A r \in Rpcs : SameQueue(r)
<1>1. \A p \in EventQueues : p = 0
  BY SMT DEF EventQueues
<1>2. \A r \in Rpcs : events_queue[r] \in EventQueues /\ event_queue[r] \in EventQueues
  BY DEF TypeInv, TypeOK, RpcTypeOK
<1> QED BY <1>1, <1>2 DEF SameQueue
=============================================================================
