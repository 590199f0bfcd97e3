------------------------------ MODULE Service -------------------------------
(***************************************************************************)
(* Service::HandleEvent and the handlers it dispatches to (service.cc), as *)
(* they run on the event threads.  Every event thread has a label, the     *)
(* next thing its handler does; a handler is the path of labels that its   *)
(* code takes.  Steps that two threads can interleave have labels of their *)
(* own: the code takes and releases a lock, or calls user code, there.     *)
(***************************************************************************)
EXTENDS Rpc

CONSTANTS
  Services,   \* Server::services_
  ServiceOf,  \* the service of a method
  Writers,    \* user threads that hold a RpcHandler::Writer
  NoRpc

ASSUME ServicesAssumption == ServiceOf \in [Methods -> Services]
ASSUME NoRpcAssumption == NoRpc \notin Rpcs

VARIABLES
  stopped,     \* services whose shutting_down_ is set
  refused,     \* Rpcs dropped with a matched call during shutdown
  thread,      \* what the event threads are doing
  handler,     \* the user's handler of an Rpc and how far it has got
  reads_done,  \* Rpcs whose handler returned from OnReadsDone
  writer,      \* what the writer threads are doing
  current_event_queue_id

serviceVars == <<stopped, refused, thread, handler, reads_done, writer,
                 current_event_queue_id>>

Callbacks == {"Initialize", "OnRequest", "OnReadsDone", "OnFinish"}
Labels == Callbacks \cup
  {"idle", "exited", "Read", "Clone", "HandleSendQueue", "Perform",
   "RemoveIfNotPending", "Remove", "RemoveAndClone"}

Idle == [pc |-> "idle", ev |-> "DONE", rpc |-> NoRpc, item |-> NoItem]

\* A handler is "ending" in the callback that has sent the last item of its
\* call and "ended" after it.
HandlerStates == {"none", "open", "ending", "ended"}

ServiceTypeOK ==
  /\ stopped \in SUBSET Services
  /\ refused \in SUBSET Rpcs
  /\ thread \in [EventQueues -> [pc : Labels, ev : CqEvents \cup {"WRITE_NEEDED"},
                                 rpc : Rpcs \cup {NoRpc}, item : SendItems]]
  /\ handler \in [Rpcs -> HandlerStates]
  /\ reads_done \in SUBSET Rpcs
  /\ writer \in [Writers -> [pc : {"idle", "enqueued"}, rpc : Rpcs \cup {NoRpc}]]
  /\ current_event_queue_id \in EventQueues

ServiceInit ==
  /\ stopped = {}
  /\ refused = {}
  /\ thread = [q \in EventQueues |-> Idle]
  /\ handler = [r \in Rpcs |-> "none"]
  /\ reads_done = {}
  /\ writer = [w \in Writers |-> [pc |-> "idle", rpc |-> NoRpc]]
  /\ current_event_queue_id = 0

Busy(q) == thread[q].pc \notin {"idle", "exited"}

\* Nobody has a shared_ptr to r: it left ActiveRpcs, and neither the handling
\* of a WRITE_NEEDED event nor a Writer call has it locked.
Destroyed(r) ==
  /\ call[r] # "none"
  /\ r \notin active_rpcs
  /\ \A q \in EventQueues :
       Busy(q) /\ thread[q].ev = "WRITE_NEEDED" => thread[q].rpc # r
  /\ \A w \in Writers : writer[w].pc = "enqueued" => writer[w].rpc # r

Goto(q, label) == thread' = [thread EXCEPT ![q].pc = label]
GotoWith(q, label, item) ==
  thread' = [thread EXCEPT ![q] = [pc |-> label, ev |-> thread[q].ev,
                                   rpc |-> thread[q].rpc, item |-> item]]
Return(q) == thread' = [thread EXCEPT ![q] = Idle]

\* Thread q is at this label and the Rpc it works on still exists.
At(q, label) == thread[q].pc = label /\ ~Destroyed(thread[q].rpc)

\* InternalRpcEvent::Handle.  The event is dropped when its Rpc is gone.
HandleInternalEvent(q) ==
  /\ thread[q].pc = "idle"
  /\ queue[q] # <<>>
  /\ LET e == Head(queue[q])
     IN  /\ e.ev = "WRITE_NEEDED"
         /\ thread' = IF Destroyed(e.rpc) THEN thread
                      ELSE [thread EXCEPT ![q] = [pc |-> "HandleSendQueue",
                              ev |-> e.ev, rpc |-> e.rpc, item |-> NoItem]]
  /\ queue' = [queue EXCEPT ![q] = Tail(@)]
  /\ UNCHANGED <<grpcVars, method, event_queue, events_queue, pending,
                 send_queue, sends, sent, active_rpcs, stopped, refused,
                 handler, reads_done, writer, current_event_queue_id>>

\* The values that Service::shutting_down_ can have for an event thread.  It
\* is a plain bool written by the thread that calls Shutdown: until something
\* orders the two, a read may still see the old value.  A request that failed
\* is ordered after the write, since gRPC fails requests in Shutdown.
ShuttingDownReads(r, ok) ==
  IF ServiceOf[method[r]] \notin stopped THEN {FALSE}
  ELSE IF ok \/ RequestsMayFail THEN BOOLEAN ELSE {TRUE}

\* Mutant: HandleWrite does not look at the send queue again.
FirstLabelWithoutResend(ev, ok, shutting_down) ==
  CASE ev = "NEW_CONNECTION" -> IF shutting_down THEN "Remove"
                                ELSE IF ok THEN "Initialize" ELSE "RemoveAndClone"
    [] ev = "READ" -> IF ok THEN "OnRequest" ELSE "OnReadsDone"
    [] ev = "FINISH" -> "OnFinish"
    [] OTHER -> "RemoveIfNotPending"

\* The first label of Service::HandleEvent, for an event with this ok_ and
\* this value read from shutting_down_.
FirstLabel(ev, ok, shutting_down) ==
  CASE ev = "NEW_CONNECTION" -> IF shutting_down THEN "Remove"
                                ELSE IF ok THEN "Initialize" ELSE "RemoveAndClone"
    [] ev = "READ" -> IF ok THEN "OnRequest" ELSE "OnReadsDone"
    [] ev = "WRITE" -> "HandleSendQueue"
    [] ev = "FINISH" -> "OnFinish"
    [] ev = "DONE" -> "RemoveIfNotPending"

\* CompletionQueueRpcEvent::Handle.
HandleCompletionQueueEvent(q) ==
  /\ thread[q].pc = "idle"
  /\ queue[q] # <<>>
  /\ LET e == Head(queue[q])
     IN  /\ e.ev # "WRITE_NEEDED"
         /\ ~Destroyed(e.rpc)
         /\ pending' = [pending EXCEPT ![e.rpc] = @ \ {e.ev}]
         /\ \E shutting_down \in ShuttingDownReads(e.rpc, e.ok) :
              LET label == FirstLabel(e.ev, e.ok, shutting_down)
              IN  /\ thread' = [thread EXCEPT ![q] = [pc |-> label, ev |-> e.ev,
                                                rpc |-> e.rpc, item |-> NoItem]]
                  /\ refused' = IF label = "Remove" /\ e.ok
                                THEN refused \cup {e.rpc} ELSE refused
                  /\ handler' = IF label = "Initialize"
                                THEN [handler EXCEPT ![e.rpc] = "open"] ELSE handler
  /\ queue' = [queue EXCEPT ![q] = Tail(@)]
  /\ UNCHANGED <<grpcVars, method, event_queue, events_queue, send_queue, sends,
                 sent, active_rpcs, stopped, reads_done, writer,
                 current_event_queue_id>>

\* The thread touches an Rpc that another thread has let go of, or an event
\* that was part of one.
UseAfterFree(q) ==
  /\ \/ Busy(q) /\ Destroyed(thread[q].rpc)
     \/ /\ thread[q].pc = "idle"
        /\ queue[q] # <<>>
        /\ Head(queue[q]).ev # "WRITE_NEEDED"
        /\ Destroyed(Head(queue[q]).rpc)
  /\ fault' = "use_after_free"
  /\ UNCHANGED <<call, cq, ops, status_sent, requests, server_down, cq_down,
                 rpcVars, serviceVars>>

\* Mutant: the thread waits for a pending write where the code returns.
HandleSendQueueWaits(q) ==
  LET r == thread[q].rpc
  IN  /\ At(q, "HandleSendQueue")
      /\ CASE send_queue[r] = <<>> -> Goto(q, "RemoveIfNotPending") /\ UNCHANGED send_queue
           [] NothingToSend(r) /\ send_queue[r] # <<>> -> UNCHANGED <<thread, send_queue>>
           [] OTHER -> /\ GotoWith(q, "Perform", Head(send_queue[r]))
                       /\ send_queue' = [send_queue EXCEPT ![r] = Tail(@)]
      /\ UNCHANGED <<grpcVars, method, event_queue, events_queue, pending, sends,
                     sent, active_rpcs, queue, stopped, refused, handler,
                     reads_done, writer, current_event_queue_id>>

\* Rpc::HandleSendQueue, as far as it holds send_queue_lock_.
HandleSendQueue(q) ==
  LET r == thread[q].rpc
  IN  /\ At(q, "HandleSendQueue")
      /\ IF NothingToSend(r)
         THEN Goto(q, "RemoveIfNotPending") /\ UNCHANGED send_queue
         ELSE /\ GotoWith(q, "Perform", Head(send_queue[r]))
              /\ send_queue' = [send_queue EXCEPT ![r] = Tail(@)]
      /\ UNCHANGED <<grpcVars, method, event_queue, events_queue, pending, sends,
                     sent, active_rpcs, queue, stopped, refused, handler,
                     reads_done, writer, current_event_queue_id>>

\* The rest of Rpc::HandleSendQueue.
Perform(q) ==
  LET r == thread[q].rpc
      item == thread[q].item
  IN  /\ At(q, "Perform")
      /\ IF Finishes(r, item) THEN PerformFinish(r) ELSE PerformWrite(r)
      /\ sent' = [sent EXCEPT ![r] = item.n]
      /\ GotoWith(q, "RemoveIfNotPending", NoItem)
      /\ UNCHANGED <<call, cq, requests, server_down, cq_down, method, event_queue,
                     events_queue, send_queue, sends, active_rpcs, queue, stopped,
                     refused, handler, reads_done, writer, current_event_queue_id>>

\* RequestStreamingReadIfNeeded, at the end of OnConnection or of HandleRead.
Read(q) ==
  /\ At(q, "Read")
  /\ RequestStreamingRead(thread[q].rpc)
  /\ IF thread[q].ev = "NEW_CONNECTION" THEN Goto(q, "Clone") ELSE Return(q)
  /\ UNCHANGED <<call, cq, status_sent, requests, server_down, cq_down, method,
                 event_queue, events_queue, send_queue, sends, sent, active_rpcs,
                 queue, stopped, refused, handler, reads_done, writer,
                 current_event_queue_id>>

\* Mutant: the index is never wrapped around.
SelectNextEventQueue == current_event_queue_id' = current_event_queue_id + 1

SelectNextEventQueueRoundRobin ==
  current_event_queue_id' = (current_event_queue_id + 1) % NumEventThreads

\* The end of HandleNewConnection: a new Rpc waits for the next call.
Clone(q) ==
  /\ At(q, "Clone")
  /\ SelectNextEventQueueRoundRobin
  /\ \E new \in Rpcs :
       /\ CloneTo(thread[q].rpc, new, current_event_queue_id')
       /\ Add(new)
       /\ RequestNextMethodInvocation(new, cq[thread[q].rpc])
  /\ Return(q)
  /\ UNCHANGED <<status_sent, requests, server_down, cq_down, send_queue, sends,
                 sent, queue, stopped, refused, handler, reads_done, writer>>

RemoveIfNotPending(q) ==
  /\ At(q, "RemoveIfNotPending")
  /\ IF IsAnyEventPending(thread[q].rpc) THEN Return(q) ELSE Goto(q, "Remove")
  /\ UNCHANGED <<grpcVars, rpcVars, stopped, refused, handler, reads_done, writer,
                 current_event_queue_id>>

\* active_rpcs_.Remove(rpc), the last step of a handler.
RemoveAndReturn(q) ==
  /\ At(q, "Remove")
  /\ Remove(thread[q].rpc)
  /\ Return(q)
  /\ UNCHANGED <<grpcVars, method, event_queue, events_queue, pending, send_queue,
                 sends, sent, queue, stopped, refused, handler, reads_done, writer,
                 current_event_queue_id>>

\* HandleNewConnection for a request that failed although the service is not
\* shutting down: the Rpc is removed, and cloned after that.
RemoveAndClone(q) ==
  /\ At(q, "RemoveAndClone")
  /\ Remove(thread[q].rpc)
  /\ Goto(q, "Clone")
  /\ UNCHANGED <<grpcVars, method, event_queue, events_queue, pending, send_queue,
                 sends, sent, queue, stopped, refused, handler, reads_done, writer,
                 current_event_queue_id>>

\* Service::StopServing.
StopServing(s) == stopped' = stopped \cup {s}
=============================================================================
