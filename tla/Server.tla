------------------------------- MODULE Server -------------------------------
(***************************************************************************)
(* The server (server.cc, completion_queue_thread.cc,                      *)
(* event_queue_thread.cc): Start and Shutdown as the thread that owns the  *)
(* Server runs them, the loops of the completion queue threads and of the  *)
(* event threads, and the whole system they make with Service, Rpc, user   *)
(* code and gRPC.                                                          *)
(***************************************************************************)
EXTENDS RpcHandler

VARIABLE main  \* where the thread that owns the Server is

vars == <<grpcVars, rpcVars, serviceVars, main>>

MainLabels == {"starting", "serving", "stopping", "waiting", "joining_cqs",
               "joining_event_queues", "complete"}

\* Server::shutting_down_.
shutting_down == main \notin {"starting", "serving"}

TypeOK == GrpcTypeOK /\ RpcTypeOK /\ ServiceTypeOK /\ main \in MainLabels

Init == GrpcInit /\ RpcInit /\ ServiceInit /\ main = "starting"

\* The Rpcs that were created for method m on completion queue c.
RpcsFor(m, c) == {r \in Rpcs : call[r] # "none" /\ method[r] = m /\ cq[r] = c}

\* One iteration of Service::StartServing, called by Server::Start: the first
\* Rpc for a method and a completion queue.
StartServing ==
  /\ main = "starting"
  /\ SelectNextEventQueueRoundRobin
  /\ \E r \in Rpcs, m \in Methods, c \in CompletionQueues :
       /\ RpcsFor(m, c) = {}
       /\ Construct(r, m, c, current_event_queue_id', current_event_queue_id')
       /\ Add(r)
       /\ RequestNextMethodInvocation(r, c)
  /\ UNCHANGED <<status_sent, requests, server_down, cq_down, send_queue, sends,
                 sent, queue, stopped, refused, thread, handler, reads_done,
                 writer, main>>

\* The rest of Server::Start: all services are serving, the threads run.
StartThreads ==
  /\ main = "starting"
  /\ \A m \in Methods, c \in CompletionQueues : RpcsFor(m, c) # {}
  /\ main' = "serving"
  /\ UNCHANGED <<grpcVars, rpcVars, serviceVars>>

\* One iteration of Server::RunCompletionQueue.  The tag is the address of an
\* event inside the Rpc.
RunCompletionQueue(r, e, ok) ==
  /\ main # "starting"
  /\ MayReturn(r, e, ok)
  /\ ops' = [ops EXCEPT ![r] = @ \ {e}]
  /\ requests' = IF e = "READ" /\ ok THEN [requests EXCEPT ![r] = @ + 1] ELSE requests
  /\ IF Destroyed(r)
     THEN fault' = "use_after_free" /\ UNCHANGED queue
     ELSE Push(events_queue[r], e, r, ok) /\ UNCHANGED fault
  /\ UNCHANGED <<call, cq, status_sent, server_down, cq_down, method, event_queue,
                 events_queue, pending, send_queue, sends, sent, active_rpcs,
                 serviceVars, main>>

\* Server::RunEventQueue hands the events of its queue to their handlers, ...
HandleEvent(q) ==
  /\ main # "starting"
  /\ HandleInternalEvent(q) \/ HandleCompletionQueueEvent(q)
  /\ UNCHANGED main

\* Mutant: the thread waits again after a timeout.
EventThreadWaitsAgain(q) == shutting_down /\ thread[q].pc = "idle" /\ UNCHANGED vars

\* ... and returns when shutting_down_ is set and PopWithTimeout has waited for
\* kPopEventTimeout without finding an event.
EventThreadReturns(q) ==
  /\ shutting_down
  /\ thread[q].pc = "idle"
  /\ queue[q] = <<>>
  /\ Goto(q, "exited")
  /\ UNCHANGED <<grpcVars, rpcVars, stopped, refused, handler, reads_done, writer,
                 current_event_queue_id, main>>

\* Server::Shutdown: shutting_down_ = true, ...
Shutdown ==
  /\ main = "serving"
  /\ main' = "stopping"
  /\ UNCHANGED <<grpcVars, rpcVars, serviceVars>>

\* ... StopServing on every service, ...
StopService(s) ==
  /\ main = "stopping"
  /\ s \notin stopped
  /\ StopServing(s)
  /\ UNCHANGED <<grpcVars, rpcVars, refused, thread, handler, reads_done, writer,
                 current_event_queue_id, main>>

\* Mutant: gRPC is shut down before the services are stopped.
ShutdownGrpcServerFirst ==
  /\ main = "stopping"
  /\ server_down' = TRUE
  /\ main' = "waiting"
  /\ UNCHANGED <<call, cq, ops, status_sent, requests, cq_down, fault, rpcVars,
                 serviceVars>>

\* ... server_->Shutdown(), ...
ShutdownGrpcServer ==
  /\ main = "stopping"
  /\ stopped = Services
  /\ server_down' = TRUE
  /\ main' = "waiting"
  /\ UNCHANGED <<call, cq, ops, status_sent, requests, cq_down, fault, rpcVars,
                 serviceVars>>

GrpcServerIsDown ==
  /\ main = "waiting"
  /\ ServerShutdownReturns
  /\ main' = "joining_cqs"
  /\ UNCHANGED <<grpcVars, rpcVars, serviceVars>>

\* ... CompletionQueueThread::Shutdown for one queue after the other: the join
\* waits until the queue is drained ...
ShutdownCompletionQueue(c) ==
  /\ main = "joining_cqs"
  /\ \A d \in cq_down : Drained(d)
  /\ c \notin cq_down
  /\ cq_down' = cq_down \cup {c}
  /\ UNCHANGED <<call, cq, ops, status_sent, requests, server_down, fault, rpcVars,
                 serviceVars, main>>

CompletionQueuesJoined ==
  /\ main = "joining_cqs"
  /\ cq_down = CompletionQueues
  /\ \A c \in CompletionQueues : Drained(c)
  /\ main' = "joining_event_queues"
  /\ UNCHANGED <<grpcVars, rpcVars, serviceVars>>

\* ... and EventQueueThread::Shutdown for every event thread.
EventQueuesJoined ==
  /\ main = "joining_event_queues"
  /\ \A q \in EventQueues : thread[q].pc = "exited"
  /\ main' = "complete"
  /\ UNCHANGED <<grpcVars, rpcVars, serviceVars>>

ServiceStep(q) ==
  /\ \/ HandleSendQueue(q) \/ Perform(q) \/ Read(q) \/ Clone(q)
     \/ RemoveIfNotPending(q) \/ RemoveAndReturn(q) \/ RemoveAndClone(q)
     \/ UseAfterFree(q) \/ CallbackReturns(q)
  /\ UNCHANGED main

CallbackStep(q) ==
  /\ \/ \E msg \in BOOLEAN : HandlerSend(q, msg)
     \/ \E w \in Writers : GetWriter(q, w)
  /\ UNCHANGED main

WriterStep(w) ==
  /\ WriterPush(w) \/ \E msg \in BOOLEAN : WriterEnqueue(w, msg)
  /\ UNCHANGED main

ClientStep(r) ==
  /\ ClientCall(r) \/ CallCloses(r)
  /\ UNCHANGED <<rpcVars, serviceVars, main>>

MainStep ==
  \/ StartServing \/ StartThreads \/ ShutdownGrpcServer
  \/ GrpcServerIsDown \/ CompletionQueuesJoined \/ EventQueuesJoined
  \/ \E s \in Services : StopService(s)
  \/ \E c \in CompletionQueues : ShutdownCompletionQueue(c)

Step ==
  \/ MainStep
  \/ Shutdown
  \/ \E q \in EventQueues :
       HandleEvent(q) \/ ServiceStep(q) \/ CallbackStep(q) \/ EventThreadReturns(q)
  \/ \E w \in Writers : WriterStep(w)
  \/ \E r \in Rpcs : ClientStep(r)
  \/ \E r \in Rpcs, e \in CqEvents, ok \in BOOLEAN : RunCompletionQueue(r, e, ok)

\* The process is gone, or Shutdown has returned.
Stopped == (fault # "none" \/ main = "complete") /\ UNCHANGED vars

Next == (fault = "none" /\ Step) \/ Stopped

Spec == Init /\ [][Next]_vars

\* Threads that can run do run, and callbacks return.  gRPC completes a Write
\* and a Finish (the client reads, or goes away), notifies of a call that is
\* over and fails its read; a call is over some time after its final status was
\* sent.  Nobody has to call the server, to end a call, to answer one or to
\* call Shutdown.
Fairness ==
  /\ WF_vars(fault = "none" /\ MainStep)
  /\ \A q \in EventQueues :
       /\ WF_vars(fault = "none" /\ (HandleEvent(q) \/ ServiceStep(q)))
       /\ WF_vars(fault = "none" /\ EventThreadReturns(q))
  /\ \A w \in Writers : WF_vars(fault = "none" /\ WriterPush(w) /\ UNCHANGED main)
  /\ \A r \in Rpcs :
       /\ \A e \in CqEvents \ {"READ"} :
            WF_vars(fault = "none" /\ \E ok \in BOOLEAN : RunCompletionQueue(r, e, ok))
       /\ WF_vars(fault = "none" /\ call[r] = "closed" /\ RunCompletionQueue(r, "READ", FALSE))
       /\ WF_vars(fault = "none" /\ r \in status_sent /\ CallCloses(r)
                   /\ UNCHANGED <<rpcVars, serviceVars, main>>)

FairSpec == Spec /\ Fairness
=============================================================================
