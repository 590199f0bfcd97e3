---------------------------- MODULE ServerProofs ----------------------------
(***************************************************************************)
(* The server, for every value of the constants. EventsInv is inductive,   *)
(* so no Rpc is destroyed while an operation, an event or a thread still   *)
(* refers to it; requests fail only in a shutdown; and the pending_ flags  *)
(* are exact. Whether or not requests fail while it serves, a method does  *)
(* not lose its listener and does not get a second one, and no response    *)
(* waits for an event that will not come.                                  *)
(***************************************************************************)
EXTENDS StepProofs

\* Leaves without arithmetic are Zenon's; the others name SMT.
USE Zenon

\* One step per action of Server, after what they have in common.
LEMMA NextLifetimeInv ==
  ~RequestsMayFail /\ TypeInv /\ LifetimeInv /\ [Next]_vars => LifetimeInv'
\* Steps that do not touch what a conjunct is about preserve it.
<1>ShutdownFrame. ASSUME ShutdownInv, UNCHANGED <<call, server_down, queue, stopped, thread>>
      PROVE  ShutdownInv'
  BY <1>ShutdownFrame DEF ShutdownInv
\* A step that moves no event keeps the routing of events to queues.
<1>RoutingFrame. ASSUME RoutingInv, UNCHANGED <<event_queue, events_queue, queue, thread>>
      PROVE  RoutingInv'
  BY <1>RoutingFrame DEF RoutingInv, Busy
\* A step that moves no event leaves every tag where it is.
<1>TagsFrame. ASSUME TagsInv, UNCHANGED <<ops, event_queue, events_queue, queue>>
      PROVE  TagsInv'
  BY SMT, <1>TagsFrame DEF TagsInv, TagOK, SameQueue
\* A step that touches no call keeps what is known of waiting Rpcs.
<1>ConnectionFrame. ASSUME ConnectionInv,
             UNCHANGED <<call, ops, event_queue, events_queue, pending, active_rpcs, queue,
                         thread, writer>>
      PROVE  ConnectionInv'
  BY <1>ConnectionFrame DEF ConnectionInv, ConnectionOK, Quiet, BusyOn, Busy, Outstanding, Queued, SameQueue
\* A step that touches no flag and no event keeps the flags right.
<1>FlagsFrame. ASSUME FlagsInv, UNCHANGED <<ops, event_queue, events_queue, pending, queue>>
      PROVE  FlagsInv'
  BY <1>FlagsFrame DEF FlagsInv, Outstanding, Queued, SameQueue
\* A step that moves no event thread keeps what the threads rely on.
<1>ThreadFrame. ASSUME ThreadInv,
             UNCHANGED <<call, event_queue, events_queue, pending, refused, thread>>
      PROVE  ThreadInv'
  BY <1>ThreadFrame DEF ThreadInv, ThreadOK, Busy, SameQueue, IsAnyEventPending
\* A step that removes no Rpc and moves no event keeps Rpcs alive.
<1>HeldFrame. ASSUME HeldInv,
             UNCHANGED <<ops, event_queue, events_queue, active_rpcs, queue, refused,
                         thread, writer>>
      PROVE  HeldInv'
  BY <1>HeldFrame DEF HeldInv, BusyOn, Busy, HeldByWriter, Outstanding, Queued, SameQueue
\* Most steps of the thread that owns the Server leave the Rpcs alone.
<1>FrameLifetime. ASSUME EventsInv,
             UNCHANGED <<call, ops, server_down, event_queue, events_queue, pending,
                         active_rpcs, queue, stopped, refused, thread, writer>>
      PROVE  EventsInv'
  BY <1>FrameLifetime, <1>ShutdownFrame, <1>RoutingFrame, <1>TagsFrame, <1>ConnectionFrame, <1>FlagsFrame, <1>ThreadFrame,
     <1>HeldFrame DEF EventsInv
\* Service::StopServing.
<1>StopServiceLifetime. ASSUME TypeInv, EventsInv, NEW s \in Services, StopService(s)
      PROVE  EventsInv'
  <2> USE <1>StopServiceLifetime
  <2>1. ShutdownInv'
    BY DEF EventsInv, ShutdownInv, StopService, StopServing, grpcVars, rpcVars,
           TypeInv, TypeOK, ServiceTypeOK
  <2>2. UNCHANGED <<call, ops, event_queue, events_queue, pending,
                    active_rpcs, queue, refused, thread, writer>>
    BY DEF StopService, grpcVars, rpcVars
  <2> QED BY <2>1, <2>2, <1>RoutingFrame, <1>TagsFrame, <1>ConnectionFrame, <1>FlagsFrame, <1>ThreadFrame,
             <1>HeldFrame DEF EventsInv
\* grpc::Server::Shutdown: only afterwards can requests fail.
<1>ShutdownGrpcServerLifetime. ASSUME EventsInv, ShutdownGrpcServer
      PROVE  EventsInv'
  <2> USE <1>ShutdownGrpcServerLifetime
  <2>1. ShutdownInv'
    BY DEF EventsInv, ShutdownInv, ShutdownGrpcServer, rpcVars, serviceVars
  <2>2. UNCHANGED <<call, ops, event_queue, events_queue, pending,
                    active_rpcs, queue, refused, thread, writer>>
    BY DEF ShutdownGrpcServer, rpcVars, serviceVars
  <2> QED BY <2>1, <2>2, <1>RoutingFrame, <1>TagsFrame, <1>ConnectionFrame, <1>FlagsFrame, <1>ThreadFrame,
             <1>HeldFrame DEF EventsInv
\* A call ends: gRPC may now return DONE.
<1>CallClosesLifetime. ASSUME TypeInv, EventsInv, NEW r \in Rpcs, CallCloses(r),
             UNCHANGED <<rpcVars, serviceVars, main>>
      PROVE  EventsInv'
  <2> USE <1>CallClosesLifetime
  <2>1. /\ UNCHANGED <<ops, server_down, event_queue, events_queue, pending,
                       active_rpcs, queue, stopped, refused, thread, writer>>
        /\ \A s \in Rpcs : \A c \in {"none", "requested"} : call'[s] = c <=> call[s] = c
    BY DEF CallCloses, rpcVars, serviceVars, TypeInv, TypeOK, GrpcTypeOK
  <2>2. ShutdownInv'
    BY <2>1, EntryType DEF EventsInv, ShutdownInv
  <2>3. ConnectionInv'
    <3> SUFFICES ASSUME NEW s \in Rpcs PROVE ConnectionOK(s)'
      BY DEF ConnectionInv
    <3>1. ConnectionOK(s)
      BY DEF EventsInv, ConnectionInv
    <3>2. Quiet(s)' <=> Quiet(s)
      BY <2>1 DEF Quiet, BusyOn, Busy, Queued
    <3> QED BY <2>1, <3>1, <3>2 DEF ConnectionOK, BusyOn, Busy, Outstanding, Queued, SameQueue
  <2>4. ThreadInv'
    BY <2>1 DEF EventsInv, ThreadInv, ThreadOK, Busy, SameQueue, IsAnyEventPending, TypeInv, BusyHaveRpcs
  <2> QED BY <2>1, <2>2, <2>3, <2>4, <1>RoutingFrame, <1>TagsFrame, <1>FlagsFrame, <1>HeldFrame DEF EventsInv
\* A client's call is matched with a waiting Rpc.
<1>ClientCallLifetime. ASSUME TypeInv, EventsInv, NEW r \in Rpcs, ClientCall(r),
             UNCHANGED <<rpcVars, serviceVars, main>>
      PROVE  EventsInv'
  <2> USE <1>ClientCallLifetime
  <2>1. /\ UNCHANGED <<server_down, event_queue, events_queue, pending,
                       active_rpcs, queue, stopped, refused, thread, writer>>
        /\ call' = [call EXCEPT ![r] = "open"]
        /\ ops' = [ops EXCEPT ![r] = @ \cup {"DONE"}]
        /\ ~server_down /\ call[r] = "requested" /\ "NEW_CONNECTION" \in ops[r]
    BY DEF ClientCall, rpcVars, serviceVars
  <2>2. /\ Quiet(r) /\ (SameQueue(r) => pending[r] = {"NEW_CONNECTION", "DONE"})
        /\ ~Outstanding(r, "DONE")
    BY <2>1 DEF EventsInv, ConnectionInv, ConnectionOK, Outstanding, CqEvents
  <2>3. /\ \A s \in Rpcs : s # r => ops'[s] = ops[s] /\ call'[s] = call[s]
        /\ ops'[r] = ops[r] \cup {"DONE"} /\ call'[r] = "open"
    BY <2>1 DEF TypeInv, TypeOK, GrpcTypeOK
  <2>4. ShutdownInv'
    BY SMT, <2>1, <2>3, EntryType DEF EventsInv, ShutdownInv
  <2>5. TagsInv'
    <3> SUFFICES ASSUME NEW p \in EventQueues, NEW i \in 1 .. Len(queue[p]) PROVE TagOK(p, i)'
      BY <2>1 DEF TagsInv
    <3>1. TagOK(p, i) /\ queue[p][i].rpc \in Rpcs
      BY EntryType DEF EventsInv, TagsInv
    <3>2. CASE queue[p][i].rpc # r
      BY <2>1, <2>3, <3>1, <3>2 DEF TagOK, SameQueue
    <3>3. CASE queue[p][i].rpc = r
      <4>1. queue[p][i].ev # "DONE"
        <5>1. QueuedIn(queue, queue[p][i].rpc, queue[p][i].ev)
          BY EntryQueued
        <5>2. ~QueuedIn(queue, r, "DONE")
          BY <2>2 DEF Outstanding, Queued
        <5> QED BY <3>3, <5>1, <5>2
      <4> QED BY <2>1, <2>3, <3>1, <3>3, <4>1 DEF TagOK, SameQueue
    <3> QED BY <3>2, <3>3
  <2>6. ConnectionInv'
    BY SMT, <2>1, <2>2, <2>3 DEF EventsInv, ConnectionInv, ConnectionOK, Quiet, BusyOn, Busy, Outstanding, Queued,
       SameQueue
  <2>7. FlagsInv'
    BY <2>1, <2>2, <2>3 DEF EventsInv, FlagsInv, Outstanding, Queued, SameQueue
  <2>8. ThreadInv'
    BY SMT, <2>1, <2>2, <2>3 DEF EventsInv, ThreadInv, ThreadOK, Quiet, BusyOn, Busy, SameQueue,
       IsAnyEventPending, TypeInv, BusyHaveRpcs
  <2>9. HeldInv'
    BY SMT, <2>1, <2>3 DEF EventsInv, HeldInv, BusyOn, Busy, HeldByWriter, Outstanding, Queued,
       SameQueue, CqEvents
  <2> QED BY <2>1, <2>4, <2>5, <2>6, <2>7, <2>8, <2>9, <1>RoutingFrame DEF EventsInv
\* A busy thread goes on to another label.
<1>RelabelLifetime. ASSUME TypeInv, EventsInv, NEW q \in EventQueues, Busy(q), thread[q].pc # "Remove",
             Busy(q)', thread'[q].pc # "RemoveAndClone",
             \A p \in EventQueues : thread'[p].rpc = thread[p].rpc /\ thread'[p].ev = thread[p].ev,
             \A p \in EventQueues : p # q => thread'[p] = thread[p],
             thread[q].ev = "NEW_CONNECTION" => thread'[q].pc \in ConnectionLabels,
             SameQueue(thread[q].rpc) =>
               /\ thread'[q].pc \in {"Initialize", "OnRequest", "Read"} =>
                    /\ "READ" \notin pending[thread[q].rpc]
                    /\ thread[q].ev \in {"NEW_CONNECTION", "READ"}
               /\ thread'[q].pc = "Perform" => pending[thread[q].rpc] \cap {"WRITE", "FINISH"} = {}
               /\ thread'[q].pc = "Remove" =>
                    thread[q].ev # "NEW_CONNECTION" /\ ~IsAnyEventPending(thread[q].rpc),
             UNCHANGED <<call, ops, server_down, event_queue, events_queue, pending,
                         active_rpcs, queue, stopped, refused, writer>>
      PROVE  EventsInv'
  <2> USE <1>RelabelLifetime
  <2>1. \A p \in EventQueues : Busy(p)' <=> Busy(p)
    BY DEF Busy
  <2>2. ShutdownInv'
    BY DEF EventsInv, ShutdownInv
  <2>3. RoutingInv'
    BY <2>1 DEF EventsInv, RoutingInv
  <2>4. ConnectionInv'
    BY SMT, <2>1 DEF EventsInv, ConnectionInv, ConnectionOK, Quiet, BusyOn, Outstanding, Queued, SameQueue
  <2>5. ThreadInv'
    BY SMT, <2>1 DEF EventsInv, ThreadInv, ThreadOK, SameQueue, IsAnyEventPending
  <2>6. HeldInv'
    BY SMT, <2>1 DEF EventsInv, HeldInv, BusyOn, HeldByWriter, Outstanding, Queued, SameQueue
  <2> QED BY <2>2, <2>3, <2>4, <2>5, <2>6, <1>TagsFrame, <1>FlagsFrame DEF EventsInv
\* A thread that is not busy afterwards: EventThreadReturns and Return.
<1>LeaveLifetime. ASSUME TypeInv, EventsInv, NEW q \in EventQueues, ~Busy(q)',
             \A p \in EventQueues : p # q => thread'[p] = thread[p],
             UNCHANGED <<call, ops, server_down, event_queue, events_queue, pending,
                         active_rpcs, queue, stopped, refused, writer>>
      PROVE  EventsInv'
  <2> USE <1>LeaveLifetime
  <2>1. \A p \in EventQueues : Busy(p)' => Busy(p) /\ thread'[p] = thread[p]
    BY DEF Busy
  <2>2. ShutdownInv'
    BY DEF EventsInv, ShutdownInv, Busy
  <2>3. RoutingInv'
    BY <2>1 DEF EventsInv, RoutingInv
  <2>4. ConnectionInv'
    <3> SUFFICES ASSUME NEW s \in Rpcs PROVE ConnectionOK(s)'
      BY DEF ConnectionInv
    <3>1. ConnectionOK(s)
      BY DEF EventsInv, ConnectionInv
    <3>2. \A p \in EventQueues : BusyOn(p, s)' => BusyOn(p, s) /\ thread'[p] = thread[p]
      BY <2>1 DEF BusyOn
    <3>3. Quiet(s) => Quiet(s)'
      BY <3>2 DEF Quiet, Queued
    <3> QED BY <3>1, <3>2, <3>3 DEF ConnectionOK, Outstanding, Queued, SameQueue
  <2>5. ThreadInv'
    <3> SUFFICES ASSUME NEW p \in EventQueues, Busy(p)' PROVE ThreadOK(p)'
      BY DEF ThreadInv, ThreadOK
    <3>1. ThreadOK(p) /\ Busy(p) /\ thread'[p] = thread[p]
      BY <2>1 DEF EventsInv, ThreadInv
    <3> QED BY <3>1 DEF ThreadOK, SameQueue, IsAnyEventPending
  <2>6. HeldInv'
    <3>1. \A s \in Rpcs : \A p \in EventQueues : BusyOn(p, s)' => BusyOn(p, s)
      BY <2>1 DEF BusyOn
    <3> QED BY <3>1 DEF EventsInv, HeldInv, HeldByWriter, Outstanding, Queued, SameQueue
  <2> QED BY <2>2, <2>3, <2>4, <2>5, <2>6, <1>TagsFrame, <1>FlagsFrame DEF EventsInv
\* An event thread leaves RunEventQueue.
<1>EventThreadReturnsLifetime. ASSUME TypeInv, EventsInv, NEW q \in EventQueues, EventThreadReturns(q)
      PROVE  EventsInv'
  <2> USE <1>EventThreadReturnsLifetime
  <2>1. ~Busy(q)' /\ \A p \in EventQueues : p # q => thread'[p] = thread[p]
    BY GotoThreads DEF EventThreadReturns, Labels, Busy
  <2> QED BY <2>1, <1>LeaveLifetime DEF EventThreadReturns, grpcVars, rpcVars
\* A callback of user code returns to Service.
<1>CallbackReturnsLifetime. ASSUME TypeInv, EventsInv, NEW q \in EventQueues, CallbackReturns(q)
      PROVE  EventsInv'
  <2> USE <1>CallbackReturnsLifetime
  <2>1. /\ thread[q].pc \in Callbacks /\ Goto(q, NextLabel(q))
        /\ UNCHANGED <<call, ops, server_down, event_queue, events_queue, pending,
                       active_rpcs, queue, stopped, refused, writer>>
    BY DEF CallbackReturns, At, grpcVars, rpcVars
  <2>2. /\ thread'[q].pc = NextLabel(q)
        /\ \A p \in EventQueues : thread'[p].rpc = thread[p].rpc /\ thread'[p].ev = thread[p].ev
        /\ \A p \in EventQueues : p # q => thread'[p] = thread[p]
    BY <2>1, GotoThreads, NextLabelType
  <2>3. /\ NextLabel(q) \in {"Read", "OnRequest", "OnReadsDone", "RemoveIfNotPending", "Clone"}
        /\ NextLabel(q) \in {"Read", "OnRequest"} => thread[q].pc \in {"Initialize", "OnRequest"}
    BY <2>1 DEF NextLabel, Callbacks
  <2>4. Busy(q) /\ Busy(q)' /\ thread[q].pc # "Remove"
    BY <2>1, <2>2, <2>3 DEF Busy, Callbacks
  <2>5. SameQueue(thread[q].rpc) /\ NextLabel(q) \in {"Read", "OnRequest"} =>
          /\ "READ" \notin pending[thread[q].rpc]
          /\ thread[q].ev \in {"NEW_CONNECTION", "READ"}
    BY <2>3, <2>4 DEF EventsInv, ThreadInv, ThreadOK
  <2>6. thread[q].ev = "NEW_CONNECTION" => NextLabel(q) \in ConnectionLabels
    BY <2>1, <2>4 DEF EventsInv, ThreadInv, ThreadOK, ConnectionLabels, NextLabel, Callbacks
  <2> QED BY <2>1, <2>2, <2>3, <2>4, <2>5, <2>6, <1>RelabelLifetime
\* HandleSendQueue tests the flags and takes an item off the send queue.
<1>HandleSendQueueLifetime. ASSUME TypeInv, EventsInv, NEW q \in EventQueues, HandleSendQueue(q)
      PROVE  EventsInv'
  <2> USE <1>HandleSendQueueLifetime
  <2>1. /\ thread[q].pc = "HandleSendQueue"
        /\ UNCHANGED <<call, ops, server_down, event_queue, events_queue, pending,
                       active_rpcs, queue, stopped, refused, writer>>
    BY DEF HandleSendQueue, At, grpcVars
  <2>2. PICK label \in {"RemoveIfNotPending", "Perform"} : \E item :
          /\ Goto(q, label) \/ GotoWith(q, label, item)
          /\ label = "Perform" => ~NothingToSend(thread[q].rpc)
    BY DEF HandleSendQueue
  <2>3. /\ thread'[q].pc = label
        /\ \A p \in EventQueues : thread'[p].rpc = thread[p].rpc /\ thread'[p].ev = thread[p].ev
        /\ \A p \in EventQueues : p # q => thread'[p] = thread[p]
    BY <2>2, GotoThreads DEF Labels
  <2>4. Busy(q) /\ Busy(q)' /\ thread[q].pc # "Remove"
    BY <2>1, <2>3 DEF Busy
  <2>5. thread[q].ev # "NEW_CONNECTION"
    BY <2>1, <2>4 DEF EventsInv, ThreadInv, ThreadOK, ConnectionLabels
  <2> QED BY <2>1, <2>2, <2>3, <2>4, <2>5, <1>RelabelLifetime DEF NothingToSend
\* RemoveIfNotPending tests the flags.
<1>RemoveIfNotPendingLifetime. ASSUME TypeInv, EventsInv, NEW q \in EventQueues, RemoveIfNotPending(q)
      PROVE  EventsInv'
  <2> USE <1>RemoveIfNotPendingLifetime
  <2>1. /\ thread[q].pc = "RemoveIfNotPending"
        /\ UNCHANGED <<call, ops, server_down, event_queue, events_queue, pending,
                       active_rpcs, queue, stopped, refused, writer>>
    BY DEF RemoveIfNotPending, At, grpcVars, rpcVars
  <2>0. thread[q].ev # "NEW_CONNECTION"
    BY <2>1 DEF EventsInv, ThreadInv, ThreadOK, ConnectionLabels, Busy
  <2>2. CASE Return(q)
    BY <2>1, <2>2, ReturnThreads, <1>LeaveLifetime
  <2>3. CASE Goto(q, "Remove") /\ ~IsAnyEventPending(thread[q].rpc)
    <3>1. /\ thread'[q].pc = "Remove"
          /\ \A p \in EventQueues : thread'[p].rpc = thread[p].rpc /\ thread'[p].ev = thread[p].ev
          /\ \A p \in EventQueues : p # q => thread'[p] = thread[p]
      BY <2>3, GotoThreads DEF Labels
    <3>2. Busy(q) /\ Busy(q)' /\ thread[q].pc # "Remove"
      BY <2>1, <3>1 DEF Busy
    <3> QED BY <2>0, <2>1, <2>3, <3>1, <3>2, <1>RelabelLifetime
  <2> QED BY <2>2, <2>3 DEF RemoveIfNotPending
\* A thread starts a read, a write or a finish, and goes on or returns.
<1>OperationLifetime. ASSUME TypeInv, EventsInv, NEW q \in EventQueues, NEW r \in Rpcs,
             BusyOn(q, r), thread[q].pc # "Remove",
             NEW e \in {"READ", "WRITE", "FINISH"}, SameQueue(r) => e \notin pending[r],
             ops' = [ops EXCEPT ![r] = @ \cup {e}],
             pending' = [pending EXCEPT ![r] = @ \cup {e}],
             \A p \in EventQueues : p # q => thread'[p] = thread[p],
             Busy(q)' => /\ thread'[q].rpc = r /\ thread'[q].ev = thread[q].ev
                         /\ thread'[q].pc \in {"RemoveIfNotPending", "Clone"}
                         /\ thread[q].ev = "NEW_CONNECTION" => thread'[q].pc = "Clone",
             thread'[q].pc # "RemoveAndClone",
             UNCHANGED <<call, server_down, event_queue, events_queue, active_rpcs, queue,
                         stopped, refused, writer>>
      PROVE  EventsInv'
  <2> USE <1>OperationLifetime
  <2>1. /\ \A s \in Rpcs : s # r => ops'[s] = ops[s] /\ pending'[s] = pending[s]
        /\ ops'[r] = ops[r] \cup {e} /\ pending'[r] = pending[r] \cup {e}
    BY DEF TypeInv, TypeOK, GrpcTypeOK, RpcTypeOK
  <2>2. \A p \in EventQueues : Busy(p)' =>
          Busy(p) /\ thread'[p].rpc = thread[p].rpc /\ thread'[p].ev = thread[p].ev
    BY DEF BusyOn, Busy
  <2>3. /\ call[r] # "none" /\ call[r] # "requested" /\ ~Outstanding(r, "NEW_CONNECTION")
    BY DEF EventsInv, ConnectionInv, ConnectionOK, Quiet, BusyOn
  <2>4. SameQueue(r) => ~QueuedIn(queue, r, e)
    BY DEF EventsInv, FlagsInv, Outstanding, Queued, CqEvents
  <2>5. ShutdownInv'
    BY DEF EventsInv, ShutdownInv
  <2>6. RoutingInv'
    <3>1. ASSUME NEW p \in EventQueues, Busy(p)'
          PROVE  /\ thread'[p].rpc \in Rpcs
                 /\ p = IF thread'[p].ev = "WRITE_NEEDED" THEN event_queue[thread'[p].rpc]
                        ELSE events_queue[thread'[p].rpc]
      BY <2>2, <3>1 DEF EventsInv, RoutingInv
    <3> QED BY <3>1 DEF EventsInv, RoutingInv
  <2>7. TagsInv'
    <3> SUFFICES ASSUME NEW p \in EventQueues, NEW i \in 1 .. Len(queue[p]) PROVE TagOK(p, i)'
      BY DEF TagsInv
    <3>1. TagOK(p, i) /\ queue[p][i].rpc \in Rpcs
      BY EntryType DEF EventsInv, TagsInv
    <3>2. CASE queue[p][i].rpc # r
      BY <2>1, <3>1, <3>2 DEF TagOK, SameQueue
    <3>3. CASE queue[p][i].rpc = r
      <4>1. queue[p][i].ev = e => ~SameQueue(r)
        <5>1. QueuedIn(queue, queue[p][i].rpc, queue[p][i].ev)
          BY EntryQueued
        <5> QED BY <2>4, <3>3, <5>1
      <4>2. e # "NEW_CONNECTION" /\ e # "DONE"
        OBVIOUS
      <4>3. SameQueue(r)' <=> SameQueue(r)
        BY DEF SameQueue
      <4>4. \A f : f # e => (f \in ops'[r] <=> f \in ops[r])
        BY <2>1
      <4>5. CASE queue[p][i].ev = e
        BY <3>3, <4>1, <4>2, <4>3, <4>5 DEF TagOK
      <4>6. CASE queue[p][i].ev # e
        BY <3>1, <3>3, <4>2, <4>3, <4>4, <4>6 DEF TagOK
      <4> QED BY <4>5, <4>6
    <3> QED BY <3>2, <3>3
  <2>8. ConnectionInv'
    <3> SUFFICES ASSUME NEW s \in Rpcs PROVE ConnectionOK(s)'
      BY DEF ConnectionInv
    <3>1. CASE s = r
      <4>1. ~Outstanding(r, "NEW_CONNECTION")'
        BY <2>1, <2>3 DEF Outstanding, Queued
      <4> QED BY <2>3, <3>1, <4>1 DEF ConnectionOK
    <3>2. CASE s # r
      <4>1. ConnectionOK(s)
        BY DEF EventsInv, ConnectionInv
      <4>2. \A p \in EventQueues : BusyOn(p, s)' => BusyOn(p, s) /\ thread'[p] = thread[p]
        BY <2>2, <3>2 DEF BusyOn
      <4>3. Quiet(s) => Quiet(s)'
        BY <2>1, <3>2, <4>2 DEF Quiet, Queued
      <4> QED BY <2>1, <3>2, <4>1, <4>2, <4>3 DEF ConnectionOK, Outstanding, Queued, SameQueue
    <3> QED BY <3>1, <3>2
  <2>9. FlagsInv'
    BY <2>1 DEF EventsInv, FlagsInv, Outstanding, Queued, SameQueue
  <2>10. ThreadInv'
    <3> SUFFICES ASSUME NEW p \in EventQueues, Busy(p)' PROVE ThreadOK(p)'
      BY DEF ThreadInv, ThreadOK
    <3>1. CASE p = q
      BY <3>1 DEF ThreadOK, ConnectionLabels
    <3>2. CASE p # q /\ thread[p].rpc = r
      <4>1. ~SameQueue(r)
        BY <2>2, <3>2, OneThread DEF EventsInv, BusyOn
      <4> QED BY <2>2, <3>2, <4>1 DEF EventsInv, ThreadInv, ThreadOK, SameQueue
    <3>3. CASE p # q /\ thread[p].rpc # r
      <4>1. thread[p].rpc \in Rpcs
        BY <2>2 DEF TypeInv, BusyHaveRpcs
      <4>2. ThreadOK(p) /\ Busy(p) /\ thread'[p] = thread[p]
        BY <2>2, <3>3 DEF EventsInv, ThreadInv
      <4>3. pending'[thread[p].rpc] = pending[thread[p].rpc]
        BY <2>1, <3>3, <4>1
      <4> QED BY <4>2, <4>3 DEF ThreadOK, SameQueue, IsAnyEventPending
    <3> QED BY <3>1, <3>2, <3>3
  <2>11. HeldInv'
    <3>1. \A s \in Rpcs : (\E p \in EventQueues : BusyOn(p, s)') => \E p \in EventQueues : BusyOn(p, s)
      BY <2>2 DEF BusyOn
    <3>2. \A s \in Rpcs : \A f \in CqEvents :
            Outstanding(s, f)' => Outstanding(s, f) \/ \E p \in EventQueues : BusyOn(p, s)
      BY <2>1 DEF Outstanding, Queued
    <3> QED BY <3>1, <3>2 DEF EventsInv, HeldInv, HeldByWriter, SameQueue
  <2> QED BY <2>5, <2>6, <2>7, <2>8, <2>9, <2>10, <2>11 DEF EventsInv
\* PerformWrite or PerformFinish starts its operation.
<1>PerformLifetime. ASSUME TypeInv, EventsInv, NEW q \in EventQueues, Perform(q)
      PROVE  EventsInv'
  <2> USE <1>PerformLifetime
  <2> DEFINE r == thread[q].rpc
  <2>1. /\ thread[q].pc = "Perform"
        /\ UNCHANGED <<call, server_down, event_queue, events_queue, active_rpcs, queue,
                       stopped, refused, writer>>
        /\ GotoWith(q, "RemoveIfNotPending", NoItem)
    BY DEF Perform, At
  <2>2. BusyOn(q, r) /\ r \in Rpcs /\ thread[q].pc # "Remove" /\ thread[q].ev # "NEW_CONNECTION"
    BY <2>1 DEF BusyOn, Busy, TypeInv, BusyHaveRpcs, EventsInv, ThreadInv, ThreadOK, ConnectionLabels
  <2>3. PICK e \in {"WRITE", "FINISH"} :
          /\ ops' = [ops EXCEPT ![r] = @ \cup {e}]
          /\ pending' = [pending EXCEPT ![r] = @ \cup {e}]
    BY DEF Perform, PerformFinish, PerformWrite, StartOp
  <2>4. SameQueue(r) => e \notin pending[r]
    BY <2>1, <2>2, <2>3 DEF EventsInv, ThreadInv, ThreadOK, BusyOn
  <2>5. /\ thread'[q].pc = "RemoveIfNotPending"
        /\ \A p \in EventQueues : thread'[p].rpc = thread[p].rpc /\ thread'[p].ev = thread[p].ev
        /\ \A p \in EventQueues : p # q => thread'[p] = thread[p]
    BY <2>1, GotoThreads DEF Labels
  <2> QED BY <2>1, <2>2, <2>3, <2>4, <2>5, <1>OperationLifetime
\* RequestStreamingReadIfNeeded starts a read.
<1>ReadLifetime. ASSUME TypeInv, EventsInv, NEW q \in EventQueues, Read(q)
      PROVE  EventsInv'
  <2> USE <1>ReadLifetime
  <2> DEFINE r == thread[q].rpc
  <2>1. /\ thread[q].pc = "Read"
        /\ UNCHANGED <<call, server_down, event_queue, events_queue, active_rpcs, queue,
                       stopped, refused, writer>>
        /\ ops' = [ops EXCEPT ![r] = @ \cup {"READ"}]
        /\ pending' = [pending EXCEPT ![r] = @ \cup {"READ"}]
        /\ IF thread[q].ev = "NEW_CONNECTION" THEN Goto(q, "Clone") ELSE Return(q)
    BY DEF Read, At, RequestStreamingRead, StartOp
  <2>2. BusyOn(q, r) /\ r \in Rpcs /\ thread[q].pc # "Remove"
    BY <2>1 DEF BusyOn, Busy, TypeInv, BusyHaveRpcs
  <2>3. SameQueue(r) => "READ" \notin pending[r]
    BY <2>1, <2>2 DEF EventsInv, ThreadInv, ThreadOK, BusyOn
  <2>4. CASE thread[q].ev = "NEW_CONNECTION"
    <3>1. /\ thread'[q].pc = "Clone"
          /\ \A p \in EventQueues : thread'[p].rpc = thread[p].rpc /\ thread'[p].ev = thread[p].ev
          /\ \A p \in EventQueues : p # q => thread'[p] = thread[p]
      BY <2>1, <2>4, GotoThreads DEF Labels
    <3> QED BY <2>1, <2>2, <2>3, <3>1, <1>OperationLifetime
  <2>5. CASE thread[q].ev # "NEW_CONNECTION"
    <3>1. /\ ~Busy(q)' /\ thread'[q].pc # "RemoveAndClone"
          /\ \A p \in EventQueues : p # q => thread'[p] = thread[p]
      BY <2>1, <2>5, ReturnThreads DEF Busy
    <3> QED BY <2>1, <2>2, <2>3, <3>1, <1>OperationLifetime
  <2> QED BY <2>4, <2>5
\* A handler removes the Rpc only when nothing is outstanding, or when it refuses
\* the call.
<1>RemoveAndReturnLifetime. ASSUME TypeInv, EventsInv, NEW q \in EventQueues, RemoveAndReturn(q)
      PROVE  EventsInv'
  <2> USE <1>RemoveAndReturnLifetime
  <2>0. PICK r \in Rpcs : r = thread[q].rpc
    BY DEF RemoveAndReturn, At, Busy, TypeInv, BusyHaveRpcs
  <2>1. /\ thread[q].pc = "Remove"
        /\ active_rpcs' = active_rpcs \ {r}
        /\ UNCHANGED <<call, ops, server_down, event_queue, events_queue, pending, queue,
                       stopped, refused, writer>>
        /\ Return(q)
    BY <2>0 DEF RemoveAndReturn, Remove, At, grpcVars
  <2>2. BusyOn(q, r)
    BY <2>0, <2>1 DEF BusyOn, Busy
  <2>3. ~Busy(q)' /\ \A p \in EventQueues : p # q => thread'[p] = thread[p]
    BY <2>1, ReturnThreads
  <2>4. \A p \in EventQueues : Busy(p)' => Busy(p) /\ thread'[p] = thread[p]
    BY <2>3 DEF Busy
  <2>5. ShutdownInv'
    BY <2>1, <2>3 DEF EventsInv, ShutdownInv, Busy
  <2>6. RoutingInv'
    BY <2>1, <2>4 DEF EventsInv, RoutingInv
  <2>7. ConnectionInv'
    <3> SUFFICES ASSUME NEW s \in Rpcs PROVE ConnectionOK(s)'
      BY DEF ConnectionInv
    <3>1. ConnectionOK(s)
      BY DEF EventsInv, ConnectionInv
    <3>2. \A p \in EventQueues : BusyOn(p, s)' => BusyOn(p, s) /\ thread'[p] = thread[p]
      BY <2>4 DEF BusyOn
    <3>3. Quiet(s) => Quiet(s)'
      BY <2>1, <3>2 DEF Quiet, Queued
    <3> QED BY <2>1, <3>1, <3>2, <3>3 DEF ConnectionOK, Outstanding, Queued, SameQueue
  <2>8. ThreadInv'
    BY <2>1, <2>4 DEF EventsInv, ThreadInv, ThreadOK, SameQueue, IsAnyEventPending
  <2>9. HeldInv'
    <3>1. ASSUME SameQueue(r), r \notin refused
          PROVE  /\ \A e \in CqEvents : ~Outstanding(r, e)
                 /\ \A p \in EventQueues : ~BusyOn(p, r)'
      <4>1. ~Outstanding(r, "NEW_CONNECTION")
        BY <2>2 DEF EventsInv, ConnectionInv, ConnectionOK, Quiet
      <4>2. \A p \in EventQueues : ~BusyOn(p, r)'
        BY <2>2, <2>3, <2>4, <3>1, OneThread DEF EventsInv, BusyOn
      <4>3. CASE thread[q].ev = "NEW_CONNECTION"
        BY <2>1, <2>2, <3>1, <4>1, <4>2, <4>3
           DEF EventsInv, ThreadInv, ThreadOK, ConnectionInv, ConnectionOK, BusyOn
      <4>4. CASE thread[q].ev # "NEW_CONNECTION"
        <5>1. ~IsAnyEventPending(r)
          BY <2>1, <2>2, <3>1, <4>4 DEF EventsInv, ThreadInv, ThreadOK, BusyOn
        <5> QED BY <2>2, <3>1, <4>1, <4>2, <5>1 DEF EventsInv, FlagsInv, IsAnyEventPending, CqEvents
      <4> QED BY <4>3, <4>4
    <3>2. ASSUME NEW s \in Rpcs, s # r, SameQueue(s), s \notin refused, s \notin active_rpcs,
                 \/ \E e \in CqEvents : Outstanding(s, e)
                 \/ \E p \in EventQueues : BusyOn(p, s)'
          PROVE  HeldByWriter(s)
      BY <2>4, <3>2 DEF EventsInv, HeldInv, BusyOn
    <3> QED BY <2>1, <3>1, <3>2 DEF HeldInv, HeldByWriter, Outstanding, Queued, SameQueue
  <2> QED BY <2>1, <2>5, <2>6, <2>7, <2>8, <2>9, <1>TagsFrame, <1>FlagsFrame DEF EventsInv
\* RpcHandler::GetWriter, in a callback.
<1>GetWriterLifetime. ASSUME TypeInv, EventsInv, NEW q \in EventQueues, NEW w \in Writers, GetWriter(q, w)
      PROVE  EventsInv'
  <2> USE <1>GetWriterLifetime
  <2> DEFINE r == thread[q].rpc
  <2>1. /\ thread[q].pc \in Callbacks
        /\ writer[w].rpc = NoRpc
        /\ writer' = [writer EXCEPT ![w].rpc = r]
        /\ UNCHANGED <<call, ops, server_down, event_queue, events_queue, pending, active_rpcs,
                       queue, stopped, refused, thread>>
    BY DEF GetWriter, At, rpcVars
  <2>2. /\ r \in Rpcs /\ call[r] \notin {"none", "requested"}
        /\ ~Outstanding(r, "NEW_CONNECTION")
    BY <2>1, CallbackRpc
  <2>3. /\ writer'[w].rpc = r /\ writer'[w].pc = writer[w].pc /\ writer[w].pc # "enqueued"
        /\ \A v \in Writers : v # w => writer'[v] = writer[v]
    BY <2>1, NoRpcAssumption DEF TypeInv, TypeOK, ServiceTypeOK, BusyHaveRpcs
  <2>4. ConnectionInv'
    <3> SUFFICES ASSUME NEW s \in Rpcs PROVE ConnectionOK(s)'
      BY DEF ConnectionInv
    <3>1. CASE s = r
      BY <2>1, <2>2, <3>1 DEF ConnectionOK, Outstanding, Queued
    <3>2. CASE s # r
      BY SMT, <2>1, <2>3, <3>2 DEF EventsInv, ConnectionInv, ConnectionOK, Quiet, BusyOn, Busy,
         Outstanding, Queued, SameQueue
    <3> QED BY <3>1, <3>2
  <2>5. HeldInv'
    BY SMT, <2>1, <2>3 DEF EventsInv, HeldInv, BusyOn, Busy, HeldByWriter, Outstanding, Queued, SameQueue
  <2> QED BY <2>1, <2>4, <2>5, <1>ShutdownFrame, <1>RoutingFrame, <1>TagsFrame, <1>FlagsFrame, <1>ThreadFrame
             DEF EventsInv
\* A Writer locks its weak pointer and enqueues a message.
<1>WriterEnqueueLifetime. ASSUME TypeInv, EventsInv, NEW w \in Writers, NEW msg \in BOOLEAN, WriterEnqueue(w, msg)
      PROVE  EventsInv'
  <2> USE <1>WriterEnqueueLifetime
  <2>1. /\ writer' = [writer EXCEPT ![w].pc = "enqueued"]
        /\ UNCHANGED <<call, ops, server_down, event_queue, events_queue, pending, active_rpcs,
                       queue, stopped, refused, thread>>
    BY DEF WriterEnqueue, grpcVars
  <2>2. \A v \in Writers : /\ writer'[v].rpc = writer[v].rpc
                           /\ writer[v].pc = "enqueued" => writer'[v].pc = "enqueued"
    BY <2>1 DEF TypeInv, TypeOK, ServiceTypeOK
  <2>3. ConnectionInv'
    BY SMT, <2>1, <2>2 DEF EventsInv, ConnectionInv, ConnectionOK, Quiet, BusyOn, Busy, Outstanding,
       Queued, SameQueue
  <2>4. HeldInv'
    BY SMT, <2>1, <2>2 DEF EventsInv, HeldInv, BusyOn, Busy, HeldByWriter, Outstanding, Queued, SameQueue
  <2> QED BY <2>1, <2>3, <2>4, <1>ShutdownFrame, <1>RoutingFrame, <1>TagsFrame, <1>FlagsFrame, <1>ThreadFrame
             DEF EventsInv
\* User code pushes a WRITE_NEEDED event; releasing the Rpc afterwards is safe
\* because it is active.
<1>PushWriteNeededLifetime. ASSUME TypeInv, EventsInv, NEW r \in Rpcs, r \in active_rpcs,
             call[r] \notin {"none", "requested"}, ~Outstanding(r, "NEW_CONNECTION"),
             Push(event_queue[r], "WRITE_NEEDED", r, TRUE),
             \A w \in Writers : /\ writer'[w].rpc = writer[w].rpc
                                /\ writer[w].rpc # r => writer'[w] = writer[w],
             UNCHANGED <<call, ops, server_down, event_queue, events_queue, pending, active_rpcs,
                         stopped, refused, thread>>
      PROVE  EventsInv'
  <2> USE <1>PushWriteNeededLifetime
  <2> DEFINE k == event_queue[r]
             n == Len(queue[k]) + 1
  <2>1. k \in EventQueues
    BY DEF TypeInv, TypeOK, RpcTypeOK
  <2>2. /\ \A p \in EventQueues : p # k => queue'[p] = queue[p]
        /\ Len(queue[k]) \in Nat
        /\ Len(queue'[k]) = n
        /\ queue'[k][n] = [ev |-> "WRITE_NEEDED", rpc |-> r, ok |-> TRUE]
        /\ \A i \in 1 .. Len(queue[k]) : queue'[k][i] = queue[k][i]
    BY <2>1, PushEntries
  <2>3. \A s, f : QueuedIn(queue', s, f) <=> QueuedIn(queue, s, f) \/ (s = r /\ f = "WRITE_NEEDED")
    BY <2>1, PushQueued
  <2>4. \A p \in EventQueues : \A i \in 1 .. Len(queue'[p]) :
          \/ i \in 1 .. Len(queue[p]) /\ queue'[p][i] = queue[p][i]
          \/ p = k /\ i = n /\ queue'[p][i].ev = "WRITE_NEEDED" /\ queue'[p][i].rpc = r
    <3>1. queue'[k][n].ev = "WRITE_NEEDED" /\ queue'[k][n].rpc = r
      <4> DEFINE entry == [ev |-> "WRITE_NEEDED", rpc |-> r, ok |-> TRUE]
      <4>1. entry.ev = "WRITE_NEEDED" /\ entry.rpc = r
        OBVIOUS
      <4>2. queue'[k][n] = entry
        BY <2>2
      <4> HIDE DEF entry, k, n
      <4> QED BY <4>1, <4>2
    <3>2. \A i \in 1 .. Len(queue'[k]) : i \in 1 .. Len(queue[k]) \/ i = n
      <4> DEFINE m == Len(queue[k])
      <4>1. m \in Nat /\ Len(queue'[k]) = m + 1 /\ n = m + 1
        BY <2>2
      <4> HIDE DEF m, n
      <4>2. \A i \in 1 .. m + 1 : i \in 1 .. m \/ i = n
        BY SMT, <4>1
      <4> QED BY <4>1, <4>2 DEF m
    <3> QED BY <2>2, <3>1, <3>2
  <2>5. ShutdownInv'
    <3>1. ASSUME NEW p \in EventQueues, NEW i \in 1 .. Len(queue'[p]),
                 queue'[p][i].ev = "NEW_CONNECTION"
          PROVE  IF queue'[p][i].ok THEN call[queue'[p][i].rpc] # "requested"
                 ELSE server_down /\ call[queue'[p][i].rpc] = "requested"
      <4>1. i \in 1 .. Len(queue[p]) /\ queue'[p][i] = queue[p][i]
        BY <2>4, <3>1
      <4>2. queue[p][i].ev = "NEW_CONNECTION" =>
              IF queue[p][i].ok THEN call[queue[p][i].rpc] # "requested"
              ELSE server_down /\ call[queue[p][i].rpc] = "requested"
        BY <4>1 DEF EventsInv, ShutdownInv
      <4> QED BY SMT, <3>1, <4>1, <4>2
    <3> QED BY <3>1 DEF EventsInv, ShutdownInv
  <2>6. RoutingInv'
    <3>1. ASSUME NEW p \in EventQueues, NEW i \in 1 .. Len(queue'[p])
          PROVE  p = IF queue'[p][i].ev = "WRITE_NEEDED" THEN event_queue[queue'[p][i].rpc]
                     ELSE events_queue[queue'[p][i].rpc]
      <4>1. CASE i \in 1 .. Len(queue[p]) /\ queue'[p][i] = queue[p][i]
        <5>1. p = IF queue[p][i].ev = "WRITE_NEEDED" THEN event_queue[queue[p][i].rpc]
                  ELSE events_queue[queue[p][i].rpc]
          BY <4>1 DEF EventsInv, RoutingInv
        <5> QED BY SMT, <4>1, <5>1
      <4>2. CASE p = k /\ queue'[p][i].ev = "WRITE_NEEDED" /\ queue'[p][i].rpc = r
        BY <4>2
      <4> QED BY <2>4, <4>1, <4>2
    <3> QED BY <3>1 DEF EventsInv, RoutingInv, Busy
  <2>7. TagsInv'
    <3> SUFFICES ASSUME NEW p \in EventQueues, NEW i \in 1 .. Len(queue'[p]) PROVE TagOK(p, i)'
      BY DEF TagsInv
    <3>1. CASE queue'[p][i].ev = "WRITE_NEEDED"
      BY <3>1 DEF TagOK
    <3>2. CASE queue'[p][i].ev # "WRITE_NEEDED"
      <4>1. i \in 1 .. Len(queue[p]) /\ queue'[p][i] = queue[p][i] /\ TagOK(p, i)
        BY <2>4, <3>2 DEF EventsInv, TagsInv
      <4> QED BY <2>4, <3>2, <4>1 DEF TagOK, SameQueue
    <3> QED BY <3>1, <3>2
  <2>8. ConnectionInv'
    <3> SUFFICES ASSUME NEW s \in Rpcs PROVE ConnectionOK(s)'
      BY DEF ConnectionInv
    <3>1. CASE s = r
      BY SMT, <2>3, <3>1 DEF ConnectionOK, Outstanding, Queued
    <3>2. CASE s # r
      BY SMT, <2>3, <3>2 DEF EventsInv, ConnectionInv, ConnectionOK, Quiet, BusyOn, Busy, Outstanding,
         Queued, SameQueue
    <3> QED BY <3>1, <3>2
  <2>9. FlagsInv'
    BY <2>3 DEF EventsInv, FlagsInv, Outstanding, Queued, SameQueue, CqEvents
  <2>10. HeldInv'
    BY SMT, <2>3 DEF EventsInv, HeldInv, BusyOn, Busy, HeldByWriter, Outstanding, Queued, SameQueue
  <2> QED BY <2>5, <2>6, <2>7, <2>8, <2>9, <2>10, <1>ThreadFrame DEF EventsInv
\* RpcHandler::Send and Finish, in a callback.
<1>HandlerSendLifetime. ASSUME TypeInv, EventsInv, fault' = "none", NEW q \in EventQueues, NEW msg \in BOOLEAN,
             HandlerSend(q, msg)
      PROVE  EventsInv'
  <2> USE <1>HandlerSendLifetime
  <2> DEFINE r == thread[q].rpc
  <2>1. /\ thread[q].pc \in Callbacks
        /\ UNCHANGED <<call, ops, server_down, event_queue, events_queue, pending, active_rpcs,
                       stopped, refused, thread, writer>>
        /\ r \in active_rpcs
        /\ Push(event_queue[r], "WRITE_NEEDED", r, TRUE)
    BY DEF HandlerSend, At, PushWriteNeeded, GetWeakPtr
  <2>2. /\ r \in Rpcs /\ call[r] \notin {"none", "requested"}
        /\ ~Outstanding(r, "NEW_CONNECTION")
    BY <2>1, CallbackRpc
  <2> QED BY <2>1, <2>2, <1>PushWriteNeededLifetime
\* A Writer pushes WRITE_NEEDED and releases its Rpc.
<1>WriterPushLifetime. ASSUME TypeInv, EventsInv, fault' = "none", NEW w \in Writers, WriterPush(w)
      PROVE  EventsInv'
  <2> USE <1>WriterPushLifetime
  <2> DEFINE r == writer[w].rpc
  <2>1. /\ writer' = [writer EXCEPT ![w].pc = "idle"]
        /\ UNCHANGED <<call, ops, server_down, event_queue, events_queue, pending, active_rpcs,
                       stopped, refused, thread>>
        /\ r \in active_rpcs
        /\ Push(event_queue[r], "WRITE_NEEDED", r, TRUE)
    BY DEF WriterPush, PushWriteNeeded, GetWeakPtr
  <2>2. /\ r \in Rpcs /\ call[r] \notin {"none", "requested"}
        /\ ~Outstanding(r, "NEW_CONNECTION")
    BY WriterRpc DEF WriterPush, TypeInv, BusyHaveRpcs
  <2>3. \A v \in Writers : /\ writer'[v].rpc = writer[v].rpc
                           /\ writer[v].rpc # r => writer'[v] = writer[v]
    BY <2>1 DEF TypeInv, TypeOK, ServiceTypeOK
  <2> QED BY <2>1, <2>2, <2>3, <1>PushWriteNeededLifetime
\* Popping the head of a queue keeps tags in one place.
<1>PopTags. ASSUME TypeInv, TagsInv, NEW q \in EventQueues, queue[q] # <<>>,
             queue' = [queue EXCEPT ![q] = Tail(@)],
             UNCHANGED <<ops, event_queue, events_queue>>
      PROVE  TagsInv'
  <2> USE <1>PopTags
  <2> SUFFICES ASSUME NEW p \in EventQueues, NEW i \in 1 .. Len(queue'[p]) PROVE TagOK(p, i)'
    BY DEF TagsInv
  <2> DEFINE Old(j) == IF p = q THEN j + 1 ELSE j
  <2>1. \A j \in 1 .. Len(queue'[p]) :
          Old(j) \in 1 .. Len(queue[p]) /\ queue'[p][j] = queue[p][Old(j)]
    BY PopOld
  <2>2. TagOK(p, Old(i))
    BY <2>1 DEF TagsInv
  <2>3. \A j \in 1 .. Len(queue'[p]) : /\ Old(i) = Old(j) => i = j
                                       /\ Old(j) < Old(i) => j < i
    BY SMT
  <2> HIDE DEF Old
  <2> DEFINE e == queue'[p][i]
  <2>4. SUFFICES ASSUME \/ e.ev \in {"NEW_CONNECTION", "DONE"}
                        \/ e.ev # "WRITE_NEEDED" /\ SameQueue(e.rpc)
                 PROVE  /\ e.ev \notin ops[e.rpc]
                        /\ e.ev = "DONE" => "NEW_CONNECTION" \notin ops[e.rpc]
                        /\ \A j \in 1 .. Len(queue'[p]) : queue'[p][j].rpc = e.rpc =>
                             /\ queue'[p][j].ev = e.ev => i = j
                             /\ e.ev = "DONE" /\ queue'[p][j].ev = "NEW_CONNECTION" => j < i
    BY DEF TagOK, SameQueue
  <2>5. e = queue[p][Old(i)]
    BY <2>1
  <2>6. /\ e.ev \notin ops[e.rpc]
        /\ e.ev = "DONE" => "NEW_CONNECTION" \notin ops[e.rpc]
        /\ \A m \in 1 .. Len(queue[p]) : queue[p][m].rpc = e.rpc =>
             /\ queue[p][m].ev = e.ev => Old(i) = m
             /\ e.ev = "DONE" /\ queue[p][m].ev = "NEW_CONNECTION" => m < Old(i)
    BY <2>2, <2>4, <2>5 DEF TagOK
  <2> HIDE DEF e
  <2> QED BY <2>1, <2>3, <2>6
\* An event thread takes a WRITE_NEEDED event.
<1>HandleInternalEventLifetime. ASSUME TypeInv, EventsInv, NEW q \in EventQueues, HandleInternalEvent(q)
      PROVE  EventsInv'
  <2> USE <1>HandleInternalEventLifetime
  <2>0. PICK r \in Rpcs : r = Head(queue[q]).rpc
    BY HeadEvent DEF HandleInternalEvent
  <2>1. /\ thread[q].pc = "idle" /\ queue[q] # <<>> /\ Head(queue[q]).ev = "WRITE_NEEDED"
        /\ queue' = [queue EXCEPT ![q] = Tail(@)]
        /\ UNCHANGED <<call, ops, server_down, event_queue, events_queue, pending, active_rpcs,
                       stopped, refused, writer>>
        /\ \/ thread' = thread
           \/ /\ ~Destroyed(r)
              /\ thread' = [thread EXCEPT ![q] = [pc |-> "HandleSendQueue", ev |-> "WRITE_NEEDED",
                                                  rpc |-> r, item |-> NoItem]]
    BY <2>0 DEF HandleInternalEvent, grpcVars
  <2>2. /\ Queued(r, "WRITE_NEEDED") /\ q = event_queue[r]
    BY <2>0, <2>1, HeadEvent
  <2>3. call[r] \notin {"none", "requested"} /\ ~Outstanding(r, "NEW_CONNECTION")
    BY SMT, <2>2 DEF EventsInv, ConnectionInv, ConnectionOK, Quiet
  <2>4. \A s, f : QueuedIn(queue', s, f) => QueuedIn(queue, s, f)
    BY <2>1, PopQueued
  <2>5. \A p \in EventQueues : \A i \in 1 .. Len(queue'[p]) :
          LET k == IF p = q THEN i + 1 ELSE i
          IN  k \in 1 .. Len(queue[p]) /\ queue'[p][i] = queue[p][k]
    BY <2>1, PopOld
  <2>6. \A p \in EventQueues : Busy(p)' =>
          \/ Busy(p) /\ thread'[p] = thread[p]
          \/ p = q /\ ~Destroyed(r) /\ thread'[p].rpc = r /\ thread'[p].ev = "WRITE_NEEDED"
               /\ thread'[p].pc = "HandleSendQueue"
    BY SMT, <2>1 DEF Busy, TypeInv, TypeOK, ServiceTypeOK
  <2>7. ShutdownInv'
    <3>1. \A p \in EventQueues : thread'[p].pc # "RemoveAndClone"
      BY <2>6 DEF EventsInv, ShutdownInv, Busy
    <3>2. ASSUME NEW p \in EventQueues, NEW i \in 1 .. Len(queue'[p]),
                 queue'[p][i].ev = "NEW_CONNECTION"
          PROVE  IF queue'[p][i].ok THEN call[queue'[p][i].rpc] # "requested"
                 ELSE server_down /\ call[queue'[p][i].rpc] = "requested"
      <4>1. PICK j \in 1 .. Len(queue[p]) : queue'[p][i] = queue[p][j]
        BY <2>5
      <4>2. queue[p][j].ev = "NEW_CONNECTION" =>
              IF queue[p][j].ok THEN call[queue[p][j].rpc] # "requested"
              ELSE server_down /\ call[queue[p][j].rpc] = "requested"
        BY DEF EventsInv, ShutdownInv
      <4> QED BY SMT, <3>2, <4>1, <4>2
    <3> QED BY <2>1, <3>1, <3>2 DEF EventsInv, ShutdownInv
  <2>8. RoutingInv'
    <3>1. ASSUME NEW p \in EventQueues, NEW i \in 1 .. Len(queue'[p])
          PROVE  p = IF queue'[p][i].ev = "WRITE_NEEDED" THEN event_queue[queue'[p][i].rpc]
                     ELSE events_queue[queue'[p][i].rpc]
      <4>1. PICK j \in 1 .. Len(queue[p]) : queue'[p][i] = queue[p][j]
        BY <2>5
      <4>2. p = IF queue[p][j].ev = "WRITE_NEEDED" THEN event_queue[queue[p][j].rpc]
                ELSE events_queue[queue[p][j].rpc]
        BY DEF EventsInv, RoutingInv
      <4> QED BY SMT, <4>1, <4>2
    <3>2. ASSUME NEW p \in EventQueues, Busy(p)'
          PROVE  /\ thread'[p].rpc \in Rpcs
                 /\ p = IF thread'[p].ev = "WRITE_NEEDED" THEN event_queue[thread'[p].rpc]
                        ELSE events_queue[thread'[p].rpc]
      <4>1. CASE Busy(p) /\ thread'[p] = thread[p]
        BY <4>1 DEF EventsInv, RoutingInv
      <4>2. CASE p = q /\ thread'[p].rpc = r /\ thread'[p].ev = "WRITE_NEEDED"
        BY <2>2, <4>2
      <4> QED BY <2>6, <3>2, <4>1, <4>2
    <3> QED BY <2>1, <3>1, <3>2 DEF RoutingInv
  <2>9. TagsInv'
    BY <2>1, <1>PopTags DEF EventsInv
  <2>10. ConnectionInv'
    <3> SUFFICES ASSUME NEW s \in Rpcs PROVE ConnectionOK(s)'
      BY DEF ConnectionInv
    <3>1. CASE s = r
      BY <2>1, <2>3, <2>4, <3>1 DEF ConnectionOK, Outstanding, Queued
    <3>2. CASE s # r
      <4>1. \A p \in EventQueues : BusyOn(p, s)' => BusyOn(p, s) /\ thread'[p].pc = thread[p].pc
        BY <2>6, <3>2 DEF BusyOn
      <4>2. ConnectionOK(s)
        BY DEF EventsInv, ConnectionInv
      <4> QED BY <2>1, <2>4, <4>1, <4>2 DEF ConnectionOK, Quiet, Outstanding, Queued, SameQueue
    <3> QED BY <3>1, <3>2
  <2>11. FlagsInv'
    BY <2>1, <2>4 DEF EventsInv, FlagsInv, Outstanding, Queued, SameQueue
  <2>12. ThreadInv'
    <3> SUFFICES ASSUME NEW p \in EventQueues, Busy(p)' PROVE ThreadOK(p)'
      BY DEF ThreadInv, ThreadOK
    <3>1. CASE Busy(p) /\ thread'[p] = thread[p]
      BY <2>1, <3>1 DEF EventsInv, ThreadInv, ThreadOK, SameQueue, IsAnyEventPending
    <3>2. CASE thread'[p].pc = "HandleSendQueue" /\ thread'[p].ev = "WRITE_NEEDED"
      BY <3>2 DEF ThreadOK
    <3> QED BY <2>6, <3>1, <3>2
  <2>13. HeldInv'
    <3>1. ASSUME ~Destroyed(r), SameQueue(r), r \notin refused, r \notin active_rpcs
          PROVE  HeldByWriter(r)
      BY <2>3, <3>1 DEF Destroyed, EventsInv, HeldInv, HeldByWriter, BusyOn
    <3>2. ASSUME NEW s \in Rpcs, SameQueue(s), s \notin refused, s \notin active_rpcs,
                 \/ \E e \in CqEvents : Outstanding(s, e)'
                 \/ \E p \in EventQueues : BusyOn(p, s)'
          PROVE  HeldByWriter(s)
      BY <2>1, <2>4, <2>6, <3>1, <3>2 DEF EventsInv, HeldInv, BusyOn, Outstanding, Queued
    <3> QED BY <2>1, <3>2 DEF HeldInv, HeldByWriter, SameQueue
  <2> QED BY <2>7, <2>8, <2>9, <2>10, <2>11, <2>12, <2>13 DEF EventsInv
\* A completion queue thread moves a tag from gRPC to the event queue.
<1>RunCompletionQueueLifetime. ASSUME TypeInv, EventsInv, ~RequestsMayFail, fault' = "none", NEW r \in Rpcs,
             NEW e \in CqEvents, NEW ok \in BOOLEAN, RunCompletionQueue(r, e, ok)
      PROVE  EventsInv'
  <2> USE <1>RunCompletionQueueLifetime
  <2>0. PICK k \in EventQueues : k = events_queue[r]
    BY DEF TypeInv, TypeOK, RpcTypeOK
  <2>1. /\ MayReturn(r, e, ok)
        /\ ops' = [ops EXCEPT ![r] = @ \ {e}]
        /\ Push(k, e, r, ok)
        /\ UNCHANGED <<call, server_down, event_queue, events_queue, pending, active_rpcs,
                       stopped, refused, thread, writer>>
    BY <2>0 DEF RunCompletionQueue, serviceVars
  <2>2. /\ e \in ops[r]
        /\ e = "NEW_CONNECTION" => IF ok THEN call[r] # "requested"
                                   ELSE server_down /\ call[r] = "requested"
        /\ e = "DONE" => "NEW_CONNECTION" \notin ops[r]
    BY <2>1 DEF MayReturn
  <2>3. PICK n \in Nat : n = Len(queue[k]) + 1
    BY SMT DEF TypeInv, TypeOK, RpcTypeOK
  <2>4. /\ \A p \in EventQueues : p # k => queue'[p] = queue[p]
        /\ Len(queue[k]) \in Nat
        /\ Len(queue'[k]) = n
        /\ queue'[k][n].ev = e /\ queue'[k][n].rpc = r /\ queue'[k][n].ok = ok
        /\ \A i \in 1 .. Len(queue[k]) : queue'[k][i] = queue[k][i]
    <3>1. /\ \A p \in EventQueues : p # k => queue'[p] = queue[p]
          /\ Len(queue[k]) \in Nat
          /\ Len(queue'[k]) = Len(queue[k]) + 1
          /\ queue'[k][Len(queue[k]) + 1] = [ev |-> e, rpc |-> r, ok |-> ok]
          /\ \A i \in 1 .. Len(queue[k]) : queue'[k][i] = queue[k][i]
      BY <2>1, PushEntries
    <3>2. queue'[k][n] = [ev |-> e, rpc |-> r, ok |-> ok]
      BY <2>3, <3>1
    <3>3. queue'[k][n].ev = e /\ queue'[k][n].rpc = r /\ queue'[k][n].ok = ok
      BY SMT, <3>2
    <3> QED BY <2>3, <3>1, <3>3
  <2>5. \A s, f : QueuedIn(queue', s, f) <=> QueuedIn(queue, s, f) \/ (s = r /\ f = e)
    BY SMT, <2>1, <2>3, PushQueued
  <2>6. \A p \in EventQueues : \A i \in 1 .. Len(queue'[p]) :
          \/ i \in 1 .. Len(queue[p]) /\ queue'[p][i] = queue[p][i]
          \/ p = k /\ i = n /\ queue'[k][n].ev = e /\ queue'[k][n].rpc = r /\ queue'[k][n].ok = ok
    BY SMT, <2>3, <2>4
  <2>7. /\ \A s \in Rpcs : s # r => ops'[s] = ops[s]
        /\ ops'[r] = ops[r] \ {e}
    BY <2>1 DEF TypeInv, TypeOK, GrpcTypeOK
  <2>8. \A s \in Rpcs : \A f \in CqEvents :
          (f \in ops'[s] \/ QueuedIn(queue', s, f)) <=> (f \in ops[s] \/ QueuedIn(queue, s, f))
    BY <2>2, <2>5, <2>7
  <2>9. ShutdownInv'
    <3>1. ASSUME NEW p \in EventQueues, NEW i \in 1 .. Len(queue'[p]),
                 queue'[p][i].ev = "NEW_CONNECTION"
          PROVE  IF queue'[p][i].ok THEN call[queue'[p][i].rpc] # "requested"
                 ELSE server_down /\ call[queue'[p][i].rpc] = "requested"
      <4>1. CASE i \in 1 .. Len(queue[p]) /\ queue'[p][i] = queue[p][i]
        BY <3>1, <4>1 DEF EventsInv, ShutdownInv
      <4>2. CASE p = k /\ i = n /\ queue'[k][n].ev = e /\ queue'[k][n].rpc = r /\ queue'[k][n].ok = ok
        BY <2>2, <3>1, <4>2
      <4> QED BY <2>6, <3>1, <4>1, <4>2
    <3> QED BY <2>1, <3>1 DEF EventsInv, ShutdownInv
  <2>10. RoutingInv'
    BY SMT, <2>0, <2>1, <2>6 DEF EventsInv, RoutingInv, Busy, CqEvents
  <2>11. TagsInv'
    <3> SUFFICES ASSUME NEW p \in EventQueues, NEW i \in 1 .. Len(queue'[p]) PROVE TagOK(p, i)'
      BY DEF TagsInv
    <3>1. ASSUME NEW j \in 1 .. Len(queue[k]), queue[k][j].rpc = r, queue[k][j].ev = e,
                 e \in {"NEW_CONNECTION", "DONE"} \/ SameQueue(r)
          PROVE  FALSE
      BY <2>2, <2>3, <3>1 DEF EventsInv, TagsInv, TagOK, CqEvents
    <3>2. ASSUME NEW j \in 1 .. Len(queue[k]), queue[k][j].rpc = r, queue[k][j].ev = "DONE",
                 e = "NEW_CONNECTION"
          PROVE  FALSE
      BY <2>2, <2>3, <3>2 DEF EventsInv, TagsInv, TagOK
    <3>3. CASE i \in 1 .. Len(queue[p]) /\ queue'[p][i] = queue[p][i]
      <4>1. TagOK(p, i) /\ queue[p][i].rpc \in Rpcs
        BY <3>3, EntryType DEF EventsInv, TagsInv
      <4>2. ops'[queue[p][i].rpc] \subseteq ops[queue[p][i].rpc]
        BY <2>7, <4>1
      <4>3. CASE p # k
        BY <2>1, <2>4, <3>3, <4>1, <4>2, <4>3 DEF TagOK, SameQueue
      <4>4. CASE p = k
        <5> DEFINE f == queue[k][i]
        <5>1. SUFFICES ASSUME f.ev \in {"NEW_CONNECTION", "DONE"}
                                \/ (f.ev # "WRITE_NEEDED" /\ SameQueue(f.rpc)),
                              NEW j \in 1 .. Len(queue'[k]), queue'[k][j].rpc = f.rpc
                       PROVE  /\ queue'[k][j].ev = f.ev => i = j
                              /\ f.ev = "DONE" /\ queue'[k][j].ev = "NEW_CONNECTION" => j < i
          BY <2>1, <3>3, <4>1, <4>2, <4>4 DEF TagOK, SameQueue
        <5>2. CASE j \in 1 .. Len(queue[k]) /\ queue'[k][j] = queue[k][j]
          BY <4>1, <4>4, <5>1, <5>2 DEF TagOK
        <5>3. CASE j = n /\ queue'[k][n].ev = e /\ queue'[k][n].rpc = r
          BY <3>1, <3>2, <3>3, <4>4, <5>1, <5>3
        <5> QED BY <2>6, <5>2, <5>3
      <4> QED BY <4>3, <4>4
    <3>4. CASE p = k /\ i = n /\ queue'[k][n].ev = e /\ queue'[k][n].rpc = r
      <4>1. e \notin ops'[r] /\ (e = "DONE" => "NEW_CONNECTION" \notin ops'[r])
        BY <2>2, <2>7
      <4>2. ASSUME e \in {"NEW_CONNECTION", "DONE"} \/ SameQueue(r),
                   NEW j \in 1 .. Len(queue'[k]), queue'[k][j].rpc = r
            PROVE  /\ queue'[k][j].ev = e => j = n
                   /\ e = "DONE" /\ queue'[k][j].ev = "NEW_CONNECTION" => j < n
        BY SMT, <2>3, <2>4, <2>6, <3>1, <4>2
      <4> QED BY <2>1, <3>4, <4>1, <4>2 DEF TagOK, SameQueue
    <3> QED BY <2>6, <3>3, <3>4
  <2>12. ConnectionInv'
    <3> SUFFICES ASSUME NEW s \in Rpcs PROVE ConnectionOK(s)'
      BY DEF ConnectionInv
    <3>1. Quiet(s) => Quiet(s)'
      BY <2>1, <2>2, <2>5, <2>7 DEF Quiet, BusyOn, Busy, Queued
    <3>2. ~QueuedIn(queue, s, "WRITE_NEEDED") => ~QueuedIn(queue', s, "WRITE_NEEDED")
      BY SMT, <2>5 DEF CqEvents
    <3>3. "NEW_CONNECTION" \in CqEvents
      BY DEF CqEvents
    <3>4. ConnectionOK(s)
      BY DEF EventsInv, ConnectionInv
    <3>5. \A p \in EventQueues : BusyOn(p, s)' <=> BusyOn(p, s)
      BY <2>1 DEF BusyOn, Busy
    <3>6. SameQueue(s)' <=> SameQueue(s)
      BY <2>1 DEF SameQueue
    <3> QED BY <2>1, <2>8, <3>1, <3>2, <3>3, <3>4, <3>5, <3>6
               DEF ConnectionOK, Outstanding, Queued
  <2>13. FlagsInv'
    BY <2>1, <2>8 DEF EventsInv, FlagsInv, Outstanding, Queued, SameQueue
  <2>14. HeldInv'
    BY <2>1, <2>8 DEF EventsInv, HeldInv, BusyOn, Busy, HeldByWriter, Outstanding, Queued, SameQueue
  <2> QED BY <2>1, <2>9, <2>10, <2>11, <2>12, <2>13, <2>14, <1>ThreadFrame DEF EventsInv
\* An event thread takes a tag and begins to handle it.
<1>HandleCompletionQueueEventLifetime. ASSUME TypeInv, EventsInv, ~RequestsMayFail, NEW q \in EventQueues,
             HandleCompletionQueueEvent(q)
      PROVE  EventsInv'
  <2> USE <1>HandleCompletionQueueEventLifetime
  <2>1. /\ thread[q].pc = "idle" /\ queue[q] # <<>> /\ Head(queue[q]).ev # "WRITE_NEEDED"
        /\ queue' = [queue EXCEPT ![q] = Tail(@)]
        /\ UNCHANGED <<call, ops, server_down, event_queue, events_queue, active_rpcs,
                       stopped, writer>>
    BY DEF HandleCompletionQueueEvent, grpcVars
  <2>2. PICK r \in Rpcs, e \in CqEvents, ok \in BOOLEAN :
          r = Head(queue[q]).rpc /\ e = Head(queue[q]).ev /\ ok = Head(queue[q]).ok
    BY <2>1, HeadEvent
  <2>3. /\ 1 \in 1 .. Len(queue[q]) /\ queue[q][1].ev = e /\ queue[q][1].rpc = r
        /\ queue[q][1].ok = ok
        /\ QueuedIn(queue, r, e) /\ q = events_queue[r]
    BY <2>1, <2>2, HeadEvent DEF Queued
  <2>4. PICK down \in ShuttingDownReads(r, ok) :
          /\ thread' = [thread EXCEPT ![q] = [pc |-> FirstLabel(e, ok, down), ev |-> e, rpc |-> r,
                                              item |-> NoItem]]
          /\ refused' = IF FirstLabel(e, ok, down) = "Remove" /\ ok
                        THEN refused \cup {r} ELSE refused
    BY <2>2 DEF HandleCompletionQueueEvent
  <2> DEFINE label == FirstLabel(e, ok, down)
  <2>5. /\ pending'[r] = pending[r] \ {e}
        /\ \A s \in Rpcs : s # r => pending'[s] = pending[s]
    BY <2>2 DEF HandleCompletionQueueEvent, TypeInv, TypeOK, RpcTypeOK
  <2>6. /\ thread'[q].pc = label /\ thread'[q].ev = e /\ thread'[q].rpc = r
        /\ \A p \in EventQueues : p # q => thread'[p] = thread[p]
    BY <2>4 DEF TypeInv, TypeOK, ServiceTypeOK
  <2>7. \A s, f : QueuedIn(queue', s, f) => QueuedIn(queue, s, f)
    BY <2>1, PopQueued
  <2>8. \A p \in EventQueues : \A i \in 1 .. Len(queue'[p]) :
          LET k == IF p = q THEN i + 1 ELSE i
          IN  k \in 1 .. Len(queue[p]) /\ queue'[p][i] = queue[p][k]
    BY <2>1, PopOld
  <2>9. /\ TagOK(q, 1) /\ ConnectionOK(r)
        /\ Outstanding(r, e)
    BY <2>3 DEF EventsInv, TagsInv, ConnectionInv, Outstanding, Queued
  <2>10. e \in {"NEW_CONNECTION", "DONE"} \/ SameQueue(r) =>
           e \notin ops[r] /\ ~QueuedIn(queue', r, e)
    <3>1. ASSUME e \in {"NEW_CONNECTION", "DONE"} \/ SameQueue(r) PROVE e \notin ops[r]
      BY <2>1, <2>2, <2>3, <2>9, <3>1 DEF TagOK
    <3>2. ASSUME e \in {"NEW_CONNECTION", "DONE"} \/ SameQueue(r) PROVE ~QueuedIn(queue', r, e)
      BY <2>1, <2>2, <3>2, PoppedTag DEF EventsInv
    <3> QED BY <3>1, <3>2
  \* A connection that is still to be handled precedes every other event of r.
  <2>11. e # "NEW_CONNECTION" => ~Outstanding(r, "NEW_CONNECTION")
    <3> SUFFICES ASSUME e # "NEW_CONNECTION", Outstanding(r, "NEW_CONNECTION") PROVE FALSE
      OBVIOUS
    <3>1. e = "DONE"
      BY <2>3, <2>9 DEF ConnectionOK, Quiet, Queued
    <3>2. "NEW_CONNECTION" \notin ops[r]
      BY <2>3, <2>9, <3>1 DEF TagOK
    <3>3. PICK p \in EventQueues : \E j \in 1 .. Len(queue[p]) :
            queue[p][j].rpc = r /\ queue[p][j].ev = "NEW_CONNECTION"
      BY <3>2 DEF Outstanding, Queued, QueuedIn
    <3>4. PICK j \in 1 .. Len(queue[p]) :
            queue[p][j].rpc = r /\ queue[p][j].ev = "NEW_CONNECTION"
      BY <3>3
    <3>5. p = q
      BY SMT, <2>3, <3>4 DEF EventsInv, RoutingInv
    <3>6. j < 1
      BY <2>3, <2>9, <3>1, <3>4, <3>5 DEF TagOK
    <3> QED BY SMT, <3>4, <3>6 DEF TypeInv, TypeOK, RpcTypeOK
  <2>12. ~(e \in ops[r] \/ QueuedIn(queue', r, e)) \/ e # "NEW_CONNECTION"
    BY <2>10
  <2>13. ~(("NEW_CONNECTION" \in ops[r]) \/ QueuedIn(queue', r, "NEW_CONNECTION"))
    BY <2>7, <2>11, <2>12 DEF Outstanding, Queued
  \* The label of the handler.
  <2>14. /\ e = "NEW_CONNECTION" =>
              /\ label \in {"Remove", "Initialize"}
              /\ label = "Remove" /\ ~ok => call[r] = "requested"
              /\ call[r] = "requested" => label = "Remove"
         /\ e # "NEW_CONNECTION" =>
              /\ label \in {"OnRequest", "OnReadsDone", "HandleSendQueue", "OnFinish",
                            "RemoveIfNotPending"}
              /\ label = "OnRequest" => e = "READ"
    <3>1. ASSUME e # "NEW_CONNECTION"
          PROVE  /\ label \in {"OnRequest", "OnReadsDone", "HandleSendQueue", "OnFinish",
                               "RemoveIfNotPending"}
                 /\ label = "OnRequest" => e = "READ"
      BY <3>1 DEF FirstLabel, CqEvents
    <3>2. ASSUME e = "NEW_CONNECTION"
          PROVE  /\ label \in {"Remove", "Initialize"}
                 /\ label = "Remove" /\ ~ok => call[r] = "requested"
                 /\ call[r] = "requested" => label = "Remove"
      <4>1. IF ok THEN call[r] # "requested" ELSE server_down /\ call[r] = "requested"
        BY <2>3, <3>2 DEF EventsInv, ShutdownInv
      <4>2. CASE ok
        BY <3>2, <4>1, <4>2 DEF FirstLabel
      <4>3. CASE ~ok
        <5>1. ServiceOf[method[r]] \in stopped
          BY <4>1, <4>3, ServicesAssumption DEF EventsInv, ShutdownInv, TypeInv, TypeOK, RpcTypeOK
        <5>2. down
          BY <2>4, <4>3, <5>1 DEF ShuttingDownReads
        <5> QED BY <3>2, <4>1, <4>3, <5>2 DEF FirstLabel
      <4> QED BY <4>2, <4>3
    <3> QED BY <3>1, <3>2
  <2> HIDE DEF label
  <2>15. \A p \in EventQueues : Busy(p)' /\ p # q => Busy(p) /\ thread'[p] = thread[p]
    BY <2>6 DEF Busy
  <2>16. ~Busy(q)
    BY <2>1 DEF Busy
  <2>17. ShutdownInv'
    <3>1. \A p \in EventQueues : thread'[p].pc # "RemoveAndClone"
      BY <2>6, <2>14 DEF EventsInv, ShutdownInv
    <3>2. ASSUME NEW p \in EventQueues, NEW i \in 1 .. Len(queue'[p]),
                 queue'[p][i].ev = "NEW_CONNECTION"
          PROVE  IF queue'[p][i].ok THEN call[queue'[p][i].rpc] # "requested"
                 ELSE server_down /\ call[queue'[p][i].rpc] = "requested"
      <4>1. PICK j \in 1 .. Len(queue[p]) : queue'[p][i] = queue[p][j]
        BY <2>8
      <4>2. queue[p][j].ev = "NEW_CONNECTION" =>
              IF queue[p][j].ok THEN call[queue[p][j].rpc] # "requested"
              ELSE server_down /\ call[queue[p][j].rpc] = "requested"
        BY DEF EventsInv, ShutdownInv
      <4> QED BY SMT, <3>2, <4>1, <4>2
    <3> QED BY <2>1, <3>1, <3>2 DEF EventsInv, ShutdownInv
  <2>18. RoutingInv'
    <3>1. ASSUME NEW p \in EventQueues, NEW i \in 1 .. Len(queue'[p])
          PROVE  p = IF queue'[p][i].ev = "WRITE_NEEDED" THEN event_queue[queue'[p][i].rpc]
                     ELSE events_queue[queue'[p][i].rpc]
      <4>1. PICK j \in 1 .. Len(queue[p]) : queue'[p][i] = queue[p][j]
        BY <2>8
      <4>2. p = IF queue[p][j].ev = "WRITE_NEEDED" THEN event_queue[queue[p][j].rpc]
                ELSE events_queue[queue[p][j].rpc]
        BY DEF EventsInv, RoutingInv
      <4> QED BY SMT, <4>1, <4>2
    <3>2. \A p \in EventQueues : Busy(p)' =>
            /\ thread'[p].rpc \in Rpcs
            /\ p = IF thread'[p].ev = "WRITE_NEEDED" THEN event_queue[thread'[p].rpc]
                   ELSE events_queue[thread'[p].rpc]
      <4>1. e # "WRITE_NEEDED"
        BY <2>1, <2>2
      <4>2. \A p \in EventQueues : Busy(p) =>
              /\ thread[p].rpc \in Rpcs
              /\ p = IF thread[p].ev = "WRITE_NEEDED" THEN event_queue[thread[p].rpc]
                     ELSE events_queue[thread[p].rpc]
        BY DEF EventsInv, RoutingInv
      <4> QED BY <2>3, <2>6, <2>15, <4>1, <4>2
    <3> QED BY <2>1, <3>1, <3>2 DEF RoutingInv
  <2>19. TagsInv'
    BY <2>1, <1>PopTags DEF EventsInv
  <2>20. ConnectionInv'
    <3> SUFFICES ASSUME NEW s \in Rpcs PROVE ConnectionOK(s)'
      BY DEF ConnectionInv
    <3>1. CASE s = r
      <4>1. call[r] # "none"
        BY <2>9 DEF ConnectionOK
      <4>2. ASSUME call[r] = "requested"
            PROVE  /\ e = "NEW_CONNECTION" /\ label = "Remove"
                   /\ \A f \in CqEvents : f \notin ops[r] /\ ~QueuedIn(queue', r, f)
                   /\ ~QueuedIn(queue', r, "WRITE_NEEDED")
                   /\ \A p \in EventQueues : BusyOn(p, r)' => thread'[p].pc = "Remove"
                   /\ \A w \in Writers : writer'[w].rpc # r
        <5>1. e = "NEW_CONNECTION" /\ label = "Remove"
          BY <2>9, <2>14, <4>2 DEF ConnectionOK
        <5>2. \A p \in EventQueues : BusyOn(p, r)' => thread'[p].pc = "Remove"
          BY <2>6, <2>9, <2>15, <4>2, <5>1 DEF ConnectionOK, BusyOn
        <5> QED BY <2>1, <2>7, <2>9, <2>13, <4>2, <5>1, <5>2 DEF ConnectionOK, Outstanding, Queued
      <4> QED BY <2>1, <2>13, <3>1, <4>1, <4>2 DEF ConnectionOK, Outstanding, Queued
    <3>2. CASE s # r
      <4>1. \A p \in EventQueues : BusyOn(p, s)' => BusyOn(p, s) /\ thread'[p].pc = thread[p].pc
        BY <2>6, <2>15, <3>2 DEF BusyOn
      <4>2. ConnectionOK(s)
        BY DEF EventsInv, ConnectionInv
      <4> QED BY <2>1, <2>5, <2>7, <3>2, <4>1, <4>2
                 DEF ConnectionOK, Quiet, Outstanding, Queued, SameQueue
    <3> QED BY <3>1, <3>2
  <2>21. FlagsInv'
    BY <2>1, <2>5, <2>7, <2>10 DEF EventsInv, FlagsInv, Outstanding, Queued, SameQueue
  <2>22. ThreadInv'
    <3> SUFFICES ASSUME NEW p \in EventQueues, Busy(p)' PROVE ThreadOK(p)'
      BY DEF ThreadInv, ThreadOK
    <3>1. CASE p = q
      <4>1. SameQueue(r) /\ label \in {"Initialize", "OnRequest", "Read"} =>
              "READ" \notin pending'[r] /\ e \in {"NEW_CONNECTION", "READ"}
        BY <2>5, <2>9, <2>14 DEF ConnectionOK
      <4>2. label = "Remove" => e = "NEW_CONNECTION" /\ (r \notin refused' => call[r] = "requested")
        BY <2>4, <2>14 DEF label
      <4>3. e = "NEW_CONNECTION" => label \in ConnectionLabels
        BY <2>14 DEF ConnectionLabels
      <4>4. label # "Perform"
        BY <2>14
      <4> QED BY <2>1, <2>6, <3>1, <4>1, <4>2, <4>3, <4>4 DEF ThreadOK, SameQueue
    <3>2. CASE p # q /\ thread[p].rpc = r
      <4>1. ~SameQueue(r)
        BY SMT, <2>3, <2>15, <3>2 DEF EventsInv, RoutingInv, SameQueue
      <4>2. ThreadOK(p)
        BY DEF EventsInv, ThreadInv
      <4> QED BY <2>1, <2>15, <3>2, <4>1, <4>2 DEF ThreadOK, SameQueue
    <3>3. CASE p # q /\ thread[p].rpc # r
      <4>1. thread[p].rpc \in Rpcs /\ ThreadOK(p)
        BY <2>15, <3>3 DEF TypeInv, BusyHaveRpcs, EventsInv, ThreadInv
      <4>2. pending'[thread[p].rpc] = pending[thread[p].rpc]
        BY <2>5, <3>3, <4>1
      <4>3. thread[p].rpc \notin refused' => thread[p].rpc \notin refused
        BY <2>4
      <4> QED BY <2>1, <2>15, <3>3, <4>1, <4>2, <4>3 DEF ThreadOK, SameQueue, IsAnyEventPending
    <3> QED BY <3>1, <3>2, <3>3
  <2>23. HeldInv'
    <3>1. \A s \in Rpcs : s \notin refused' => s \notin refused
      BY <2>4
    <3>2. \A s \in Rpcs : (\E p \in EventQueues : BusyOn(p, s)') =>
            Outstanding(s, e) \/ \E p \in EventQueues : BusyOn(p, s)
      BY <2>6, <2>9, <2>15 DEF BusyOn
    <3>3. \A s \in Rpcs : \A f \in CqEvents : Outstanding(s, f)' => Outstanding(s, f)
      BY <2>1, <2>7 DEF Outstanding, Queued
    <3> QED BY <2>1, <3>1, <3>2, <3>3 DEF EventsInv, HeldInv, HeldByWriter, SameQueue
  <2> QED BY <2>17, <2>18, <2>19, <2>20, <2>21, <2>22, <2>23 DEF EventsInv
\* A new Rpc is created, by StartServing or by a thread that returns afterwards.
<1>CreateLifetime. ASSUME TypeInv, EventsInv, NEW r \in Rpcs, NEW c, NEW m, NEW eq \in EventQueues,
             NEW rq \in EventQueues,
             Construct(r, m, c, eq, rq), Add(r), RequestNextMethodInvocation(r, c),
             \A p \in EventQueues : Busy(p)' => Busy(p) /\ thread'[p] = thread[p],
             UNCHANGED <<server_down, queue, stopped, refused, writer>>
      PROVE  EventsInv'
  <2> USE <1>CreateLifetime
  <2>1. /\ call[r] = "none"
        /\ ops' = [ops EXCEPT ![r] = @ \cup {"NEW_CONNECTION"}]
        /\ pending' = [pending EXCEPT ![r] = {"DONE", "NEW_CONNECTION"}]
        /\ call' = [call EXCEPT ![r] = "requested"]
        /\ events_queue' = [events_queue EXCEPT ![r] = eq]
        /\ event_queue' = [event_queue EXCEPT ![r] = rq]
        /\ active_rpcs' = active_rpcs \cup {r}
    BY DEF Construct, Add, RequestNextMethodInvocation, StartOp
  <2>2. /\ ops'[r] = ops[r] \cup {"NEW_CONNECTION"}
        /\ pending'[r] = {"DONE", "NEW_CONNECTION"} /\ call'[r] = "requested"
        /\ \A s \in Rpcs : s # r =>
             /\ ops'[s] = ops[s] /\ pending'[s] = pending[s] /\ call'[s] = call[s]
             /\ events_queue'[s] = events_queue[s] /\ event_queue'[s] = event_queue[s]
    BY <2>1 DEF TypeInv, TypeOK, GrpcTypeOK, RpcTypeOK
  \* Nothing refers to r yet.
  <2>3. /\ Quiet(r) /\ ops[r] = {}
        /\ \A e \in CqEvents \cup {"WRITE_NEEDED"} : ~QueuedIn(queue, r, e)
    <3>1. ConnectionOK(r)
      BY DEF EventsInv, ConnectionInv
    <3>2. Quiet(r) /\ \A e \in CqEvents : e \notin ops[r] /\ ~QueuedIn(queue, r, e)
      BY <2>1, <3>1 DEF ConnectionOK, Outstanding, Queued
    <3>3. ~QueuedIn(queue, r, "WRITE_NEEDED")
      BY <3>2 DEF Quiet, Queued
    <3> QED BY <3>2, <3>3 DEF TypeInv, TypeOK, GrpcTypeOK
  <2>4. \A q \in EventQueues : \A i \in 1 .. Len(queue[q]) :
          queue[q][i].rpc \in Rpcs /\ queue[q][i].rpc # r
    <3> SUFFICES ASSUME NEW q \in EventQueues, NEW i \in 1 .. Len(queue[q])
                 PROVE  queue[q][i].rpc \in Rpcs /\ queue[q][i].rpc # r
      OBVIOUS
    <3>1. queue[q][i].rpc \in Rpcs /\ queue[q][i].ev \in CqEvents \cup {"WRITE_NEEDED"}
      BY EntryType
    <3>2. QueuedIn(queue, queue[q][i].rpc, queue[q][i].ev)
      BY EntryQueued
    <3> QED BY <2>3, <3>1, <3>2
  <2>5. \A q \in EventQueues : Busy(q) => thread[q].rpc \in Rpcs /\ thread[q].rpc # r
    BY <2>3 DEF Quiet, BusyOn, TypeInv, BusyHaveRpcs
  <2>6. ShutdownInv'
    <3>1. \A q \in EventQueues : thread'[q].pc # "RemoveAndClone"
      BY DEF EventsInv, ShutdownInv, Busy
    <3>2. ASSUME NEW q \in EventQueues, NEW i \in 1 .. Len(queue[q]),
                 queue[q][i].ev = "NEW_CONNECTION"
          PROVE  IF queue[q][i].ok THEN call'[queue[q][i].rpc] # "requested"
                 ELSE server_down /\ call'[queue[q][i].rpc] = "requested"
      <4>1. call'[queue[q][i].rpc] = call[queue[q][i].rpc]
        BY <2>2, <2>4
      <4>2. IF queue[q][i].ok THEN call[queue[q][i].rpc] # "requested"
            ELSE server_down /\ call[queue[q][i].rpc] = "requested"
        BY <3>2 DEF EventsInv, ShutdownInv
      <4> QED BY SMT, <4>1, <4>2
    <3> QED BY <3>1, <3>2 DEF EventsInv, ShutdownInv
  <2>7. RoutingInv'
    <3>1. ASSUME NEW q \in EventQueues, NEW i \in 1 .. Len(queue[q])
          PROVE  q = IF queue[q][i].ev = "WRITE_NEEDED" THEN event_queue'[queue[q][i].rpc]
                     ELSE events_queue'[queue[q][i].rpc]
      <4>1. /\ event_queue'[queue[q][i].rpc] = event_queue[queue[q][i].rpc]
            /\ events_queue'[queue[q][i].rpc] = events_queue[queue[q][i].rpc]
        BY <2>2, <2>4
      <4>2. q = IF queue[q][i].ev = "WRITE_NEEDED" THEN event_queue[queue[q][i].rpc]
                ELSE events_queue[queue[q][i].rpc]
        BY DEF EventsInv, RoutingInv
      <4> QED BY SMT, <4>1, <4>2
    <3>2. ASSUME NEW q \in EventQueues, Busy(q)
          PROVE  /\ thread[q].rpc \in Rpcs
                 /\ q = IF thread[q].ev = "WRITE_NEEDED" THEN event_queue'[thread[q].rpc]
                        ELSE events_queue'[thread[q].rpc]
      <4>1. /\ thread[q].rpc \in Rpcs
            /\ event_queue'[thread[q].rpc] = event_queue[thread[q].rpc]
            /\ events_queue'[thread[q].rpc] = events_queue[thread[q].rpc]
        BY <2>2, <2>5, <3>2
      <4>2. q = IF thread[q].ev = "WRITE_NEEDED" THEN event_queue[thread[q].rpc]
                ELSE events_queue[thread[q].rpc]
        BY <3>2 DEF EventsInv, RoutingInv
      <4> QED BY SMT, <4>1, <4>2
    <3> QED BY <3>1, <3>2 DEF RoutingInv
  <2>8. TagsInv'
    <3> SUFFICES ASSUME NEW q \in EventQueues, NEW i \in 1 .. Len(queue[q]) PROVE TagOK(q, i)'
      BY DEF TagsInv
    <3>1. TagOK(q, i)
      BY DEF EventsInv, TagsInv
    <3> QED BY <2>2, <2>4, <3>1 DEF TagOK, SameQueue
  <2>9. ConnectionInv'
    <3> SUFFICES ASSUME NEW s \in Rpcs PROVE ConnectionOK(s)'
      BY DEF ConnectionInv
    <3>1. \A p \in EventQueues : BusyOn(p, s)' => BusyOn(p, s) /\ thread'[p].pc = thread[p].pc
      BY DEF BusyOn
    <3>2. CASE s = r
      <4>1. Quiet(r)'
        BY <2>2, <2>3, <3>1, <3>2 DEF Quiet, Queued
      <4> QED BY <2>2, <2>3, <3>2, <4>1 DEF ConnectionOK, Quiet, Outstanding, Queued
    <3>3. CASE s # r
      <4>1. ConnectionOK(s)
        BY DEF EventsInv, ConnectionInv
      <4>2. /\ call'[s] = call[s] /\ pending'[s] = pending[s]
            /\ SameQueue(s)' <=> SameQueue(s)
            /\ s \in active_rpcs' <=> s \in active_rpcs
        BY <2>1, <2>2, <3>3 DEF SameQueue
      <4>3. /\ \A e : Queued(s, e)' <=> Queued(s, e)
            /\ \A e : Outstanding(s, e)' <=> Outstanding(s, e)
        BY <2>2, <3>3 DEF Outstanding, Queued
      <4>4. Quiet(s) => Quiet(s)'
        BY <2>2, <3>1, <3>3, <4>3 DEF Quiet
      <4> QED BY <3>1, <4>1, <4>2, <4>3, <4>4 DEF ConnectionOK
    <3> QED BY <3>2, <3>3
  <2>10. FlagsInv'
    BY <2>2, <2>3 DEF EventsInv, FlagsInv, Outstanding, Queued, SameQueue
  <2>11. ThreadInv'
    <3> SUFFICES ASSUME NEW p \in EventQueues, Busy(p)' PROVE ThreadOK(p)'
      BY DEF ThreadInv, ThreadOK
    <3>1. ThreadOK(p) /\ thread'[p] = thread[p] /\ Busy(p)
      BY DEF EventsInv, ThreadInv
    <3>2. PICK s \in Rpcs : s = thread[p].rpc
      BY <2>5, <3>1
    <3>3. /\ pending'[s] = pending[s] /\ call'[s] = call[s] /\ (SameQueue(s)' <=> SameQueue(s))
          /\ s \in refused' <=> s \in refused
      BY <2>2, <2>5, <3>1, <3>2 DEF SameQueue
    <3> QED BY <3>1, <3>2, <3>3 DEF ThreadOK, IsAnyEventPending, Busy
  <2>12. HeldInv'
    <3>1. \A s \in Rpcs : s # r => (SameQueue(s)' <=> SameQueue(s))
      BY <2>2 DEF SameQueue
    <3>2. \A s \in Rpcs : s # r => \A e \in CqEvents : Outstanding(s, e)' <=> Outstanding(s, e)
      BY <2>2 DEF Outstanding, Queued
    <3>3. \A s \in Rpcs : \A p \in EventQueues : BusyOn(p, s)' => BusyOn(p, s)
      BY DEF BusyOn
    <3>4. \A s \in Rpcs : s \notin active_rpcs' => s # r /\ s \notin active_rpcs
      BY <2>1
    <3> QED BY <3>1, <3>2, <3>3, <3>4 DEF EventsInv, HeldInv, HeldByWriter
  <2> QED BY <2>6, <2>7, <2>8, <2>9, <2>10, <2>11, <2>12 DEF EventsInv
<1> SUFFICES ASSUME ~RequestsMayFail, TypeInv, LifetimeInv, [Next]_vars
             PROVE  LifetimeInv'
  OBVIOUS
<1> SUFFICES ASSUME fault' = "none" PROVE EventsInv'
  BY DEF LifetimeInv
<1>0. fault = "none" /\ EventsInv
  BY DEF LifetimeInv, Next, Stopped, vars, grpcVars
<1>1. CASE UNCHANGED vars
  BY <1>0, <1>1, <1>FrameLifetime DEF vars, grpcVars, rpcVars, serviceVars
<1>2. CASE StartServing
  <2>1. current_event_queue_id' \in EventQueues
    BY <1>2, RoundRobinType DEF StartServing, TypeInv, TypeOK, ServiceTypeOK
  <2>2. PICK r \in Rpcs, m \in Methods, c \in CompletionQueues :
          /\ Construct(r, m, c, current_event_queue_id', current_event_queue_id')
          /\ Add(r)
          /\ RequestNextMethodInvocation(r, c)
    BY <1>2 DEF StartServing
  <2>3. /\ \A p \in EventQueues : Busy(p)' => Busy(p) /\ thread'[p] = thread[p]
        /\ UNCHANGED <<server_down, queue, stopped, refused, writer>>
    BY <1>2 DEF StartServing, Busy
  <2> QED BY <1>0, <2>1, <2>2, <2>3, <1>CreateLifetime
<1>3. CASE StartThreads \/ Shutdown \/ GrpcServerIsDown \/ CompletionQueuesJoined
           \/ EventQueuesJoined
  BY <1>0, <1>3, <1>FrameLifetime
     DEF StartThreads, Shutdown, GrpcServerIsDown, CompletionQueuesJoined,
         EventQueuesJoined, grpcVars, rpcVars, serviceVars
<1>4. CASE ShutdownGrpcServer
  BY <1>0, <1>4, <1>ShutdownGrpcServerLifetime
<1>5. ASSUME NEW s \in Services, StopService(s) PROVE EventsInv'
  BY <1>0, <1>5, <1>StopServiceLifetime
<1>6. ASSUME NEW c \in CompletionQueues, ShutdownCompletionQueue(c) PROVE EventsInv'
  BY <1>0, <1>6, <1>FrameLifetime DEF ShutdownCompletionQueue, rpcVars, serviceVars
<1>7. ASSUME NEW q \in EventQueues, HandleEvent(q) PROVE EventsInv'
  BY <1>0, <1>7, <1>HandleInternalEventLifetime, <1>HandleCompletionQueueEventLifetime DEF HandleEvent
<1>8. ASSUME NEW q \in EventQueues, Clone(q) PROVE EventsInv'
  <2>1. current_event_queue_id' \in EventQueues
    BY <1>8, RoundRobinType DEF Clone, TypeInv, TypeOK, ServiceTypeOK
  <2>2. event_queue[thread[q].rpc] \in EventQueues
    BY <1>8 DEF Clone, At, Busy, TypeInv, TypeOK, RpcTypeOK, BusyHaveRpcs
  <2>3. PICK new \in Rpcs :
          /\ Construct(new, method[thread[q].rpc], cq[thread[q].rpc], event_queue[thread[q].rpc],
                       current_event_queue_id')
          /\ Add(new)
          /\ RequestNextMethodInvocation(new, cq[thread[q].rpc])
    BY <1>8 DEF Clone, CloneTo
  <2>4. \A p \in EventQueues : Busy(p)' => Busy(p) /\ thread'[p] = thread[p]
    <3>1. ~Busy(q)' /\ \A p \in EventQueues : p # q => thread'[p] = thread[p]
      BY <1>8, ReturnThreads DEF Clone
    <3> QED BY <3>1 DEF Busy
  <2>5. UNCHANGED <<server_down, queue, stopped, refused, writer>>
    BY <1>8 DEF Clone
  <2> QED BY <1>0, <2>1, <2>2, <2>3, <2>4, <2>5, <1>CreateLifetime
<1>9. ASSUME NEW q \in EventQueues, UseAfterFree(q) \/ RemoveAndClone(q) PROVE EventsInv'
  BY <1>0, <1>9 DEF UseAfterFree, RemoveAndClone, At, EventsInv, ShutdownInv
<1>10. ASSUME NEW q \in EventQueues, ServiceStep(q) PROVE EventsInv'
  BY <1>0, <1>8, <1>9, <1>10, <1>HandleSendQueueLifetime, <1>PerformLifetime, <1>ReadLifetime,
     <1>RemoveIfNotPendingLifetime, <1>RemoveAndReturnLifetime, <1>CallbackReturnsLifetime DEF ServiceStep
<1>11. ASSUME NEW q \in EventQueues, CallbackStep(q) PROVE EventsInv'
  BY <1>0, <1>11, <1>HandlerSendLifetime, <1>GetWriterLifetime DEF CallbackStep
<1>12. ASSUME NEW q \in EventQueues, EventThreadReturns(q) PROVE EventsInv'
  BY <1>0, <1>12, <1>EventThreadReturnsLifetime
<1>13. ASSUME NEW w \in Writers, WriterStep(w) PROVE EventsInv'
  BY <1>0, <1>13, <1>WriterPushLifetime, <1>WriterEnqueueLifetime DEF WriterStep
<1>14. ASSUME NEW r \in Rpcs, ClientStep(r) PROVE EventsInv'
  BY <1>0, <1>14, <1>ClientCallLifetime, <1>CallClosesLifetime DEF ClientStep
<1>15. ASSUME NEW r \in Rpcs, NEW e \in CqEvents, NEW ok \in BOOLEAN,
              RunCompletionQueue(r, e, ok)
       PROVE  EventsInv'
  BY <1>0, <1>15, <1>RunCompletionQueueLifetime
<1> QED
  BY <1>1, <1>2, <1>3, <1>4, <1>5, <1>6, <1>7, <1>10, <1>11, <1>12, <1>13, <1>14, <1>15
     DEF Next, Step, Stopped, MainStep

\* Before Server::Start there are no Rpcs and no events.
LEMMA InitLifetimeInv == Init => EventsInv
<1> SUFFICES ASSUME Init PROVE EventsInv
  OBVIOUS
<1>1. /\ ~server_down /\ \A q \in EventQueues : thread[q].pc = "idle" /\ Len(queue[q]) = 0
      /\ \A r \in Rpcs : call[r] = "none" /\ ops[r] = {}
      /\ \A w \in Writers : writer[w].rpc = NoRpc
      /\ active_rpcs = {}
  BY DEF Init, GrpcInit, RpcInit, ServiceInit, Idle
<1>2. \A r, e : ~QueuedIn(queue, r, e)
  BY SMT, <1>1 DEF QueuedIn
<1>3. \A q \in EventQueues : ~Busy(q)
  BY <1>1 DEF Busy
<1>4. ShutdownInv /\ RoutingInv /\ TagsInv
  BY SMT, <1>1, <1>3 DEF ShutdownInv, RoutingInv, TagsInv
<1>5. ConnectionInv
  BY <1>1, <1>2, <1>3, NoRpcAssumption
     DEF ConnectionInv, ConnectionOK, Quiet, BusyOn, Outstanding, Queued
<1>6. FlagsInv /\ ThreadInv /\ HeldInv
  BY <1>1, <1>2, <1>3 DEF FlagsInv, ThreadInv, ThreadOK, HeldInv, BusyOn, Outstanding, Queued
<1> QED BY <1>4, <1>5, <1>6 DEF EventsInv

\* The inductive invariant holds of every behaviour of the server.
THEOREM LifetimeInvariance ==
  ASSUME ~RequestsMayFail
  PROVE  Spec => [](TypeInv /\ LifetimeInv)
<1>1. Init => TypeInv /\ LifetimeInv
  BY SMT, InitTypeOK, InitLifetimeInv
     DEF TypeInv, BusyHaveRpcs, Init, ServiceInit, Idle, Busy, LifetimeInv
<1>2. TypeInv /\ LifetimeInv /\ [Next]_vars => (TypeInv /\ LifetimeInv)'
  BY NextTypeInv, NextLifetimeInv
<1> QED BY <1>1, <1>2, PTL DEF Spec

\* RemoveIfNotPending never destroys an Rpc whose events are still with gRPC, in
\* an event queue or being handled, whatever the numbers of calls, threads and
\* Writers, if all events of the Rpc go through one event queue and its call was
\* not refused during shutdown.
THEOREM EventsNeverDangle ==
  ASSUME ~RequestsMayFail
  PROVE  Spec => []NoDanglingEvents
<1>1. TypeInv /\ LifetimeInv => NoDanglingEvents
  <2> SUFFICES ASSUME TypeInv, EventsInv, NEW r \in Rpcs, SameQueue(r), r \notin refused,
                      Destroyed(r), RawPointerTo(r)
               PROVE  FALSE
    BY DEF LifetimeInv, NoDanglingEvents
  <2>1. \/ \E e \in CqEvents : Outstanding(r, e)
        \/ \E q \in EventQueues : BusyOn(q, r)
    BY DEF RawPointerTo, BusyOn
  <2> QED BY <2>1 DEF EventsInv, HeldInv, HeldByWriter, Destroyed
<1> QED BY <1>1, LifetimeInvariance, PTL

\* HandleNewConnection never finds a failed request while its service is not
\* shutting down: every service is stopped before gRPC is.
THEOREM FailuresOnlyInShutdown ==
  ASSUME ~RequestsMayFail
  PROVE  Spec => [](fault = "none" => FailedRequestsOnlyInShutdown)
<1>1. LifetimeInv => (fault = "none" => FailedRequestsOnlyInShutdown)
  BY DEF LifetimeInv, EventsInv, ShutdownInv, FailedRequestsOnlyInShutdown
<1> QED BY <1>1, LifetimeInvariance, PTL

\* The flag of e says where e is.
FlagExact(s, e) == e \in pending[s] <=> Outstanding(s, e)

\* What is neither started nor handed on for s leaves its flags exact.
FlagKept(s, e) == (e \in pending'[s] <=> e \in pending[s]) /\ (Outstanding(s, e)' <=> Outstanding(s, e))

\* Steps that keep what the flags of an active Rpc say, or make them exact.
LEMMA PendingFrame ==
  ASSUME PendingIsOutstanding,
         \A s \in Rpcs : \A e \in {"READ", "WRITE", "FINISH"} :
           /\ s \in active_rpcs' /\ SameQueue(s)'
           => \/ s \in active_rpcs /\ SameQueue(s) /\ FlagKept(s, e)
              \/ FlagExact(s, e)',
         active_rpcs' \in SUBSET Rpcs
  PROVE  PendingIsOutstanding'
<1> SUFFICES ASSUME NEW s \in active_rpcs', SameQueue(s)', NEW e \in {"READ", "WRITE", "FINISH"}
             PROVE  FlagExact(s, e)'
  BY DEF PendingIsOutstanding, FlagExact
<1>1. CASE s \in active_rpcs /\ SameQueue(s) /\ FlagKept(s, e)
  BY <1>1 DEF PendingIsOutstanding, FlagKept, FlagExact
<1> QED BY <1>1

\* Steps that touch no operation, or push or pop no completion queue event.
LEMMA QuietPending ==
  ASSUME TypeInv', PendingIsOutstanding, UNCHANGED <<event_queue, events_queue, pending>>,
         active_rpcs' \subseteq active_rpcs,
         \A s \in Rpcs : \A e \in {"READ", "WRITE", "FINISH"} :
           /\ e \in ops'[s] <=> e \in ops[s]
           /\ Queued(s, e)' <=> Queued(s, e)
  PROVE  PendingIsOutstanding'
<1>1. \A s \in Rpcs : \A e \in {"READ", "WRITE", "FINISH"} : FlagKept(s, e)
  BY DEF FlagKept, Outstanding
<1>2. \A s \in Rpcs : SameQueue(s)' <=> SameQueue(s)
  BY DEF SameQueue
<1>3. active_rpcs' \in SUBSET Rpcs
  BY DEF TypeInv, TypeOK, RpcTypeOK
<1> QED BY <1>1, <1>2, <1>3, PendingFrame

\* No step of the server makes a flag of an active Rpc wrong.
LEMMA NextPending ==
  /\ ~RequestsMayFail
  /\ TypeInv
  /\ TypeInv'
  /\ EventsInv
  /\ PendingIsOutstanding
  /\ fault = "none"
  /\ Next
  => PendingIsOutstanding'
\* PerformWrite, PerformFinish and RequestStreamingRead set the flag of what they
\* start.
<1>StartPending. ASSUME TypeInv, TypeInv', PendingIsOutstanding, NEW r \in Rpcs, NEW f \in {"READ", "WRITE", "FINISH"},
             pending' = [pending EXCEPT ![r] = @ \cup {f}], ops' = [ops EXCEPT ![r] = @ \cup {f}],
             UNCHANGED <<event_queue, events_queue, active_rpcs, queue>>
      PROVE  PendingIsOutstanding'
  <2> USE <1>StartPending
  <2>1. /\ \A s \in Rpcs : s # r => pending'[s] = pending[s] /\ ops'[s] = ops[s]
        /\ pending'[r] = pending[r] \cup {f} /\ ops'[r] = ops[r] \cup {f}
    BY DEF TypeInv, TypeOK, GrpcTypeOK, RpcTypeOK
  <2>2. \A s \in Rpcs : SameQueue(s)' <=> SameQueue(s)
    BY DEF SameQueue
  <2>3. ASSUME NEW s \in Rpcs, NEW e \in {"READ", "WRITE", "FINISH"}
        PROVE  FlagKept(s, e) \/ FlagExact(s, e)'
    <3>1. CASE s # r \/ e # f
      BY <2>1, <3>1 DEF FlagKept, Outstanding, Queued
    <3>2. CASE s = r /\ e = f
      BY <2>1, <3>2 DEF FlagExact, Outstanding
    <3> QED BY <3>1, <3>2
  <2>4. active_rpcs' \in SUBSET Rpcs
    BY DEF TypeInv, TypeOK, RpcTypeOK
  <2> QED BY <2>2, <2>3, <2>4, PendingFrame
\* A new Rpc has no operation of a call.
<1>CreatePending. ASSUME TypeInv, TypeInv', EventsInv, PendingIsOutstanding, NEW r \in Rpcs, NEW m, NEW c, NEW eq, NEW rq,
             Construct(r, m, c, eq, rq), RequestNextMethodInvocation(r, c), Add(r), UNCHANGED queue
      PROVE  PendingIsOutstanding'
  <2> USE <1>CreatePending
  <2>1. /\ pending'[r] = {"DONE", "NEW_CONNECTION"} /\ ops'[r] = ops[r] \cup {"NEW_CONNECTION"}
        /\ \A s \in Rpcs : s # r =>
             /\ ops'[s] = ops[s] /\ pending'[s] = pending[s]
             /\ SameQueue(s)' <=> SameQueue(s)
             /\ s \in active_rpcs' => s \in active_rpcs
    BY Zenon
       DEF Construct, RequestNextMethodInvocation, StartOp, Add, SameQueue, TypeInv, TypeOK, GrpcTypeOK,
           RpcTypeOK
  <2>2. \A e \in CqEvents : ~Outstanding(r, e)
    BY DEF Construct, EventsInv, ConnectionInv, ConnectionOK
  <2>3. \A e \in {"READ", "WRITE", "FINISH"} : FlagExact(r, e)'
    BY <2>1, <2>2 DEF FlagExact, Outstanding, Queued, CqEvents
  <2>4. \A s \in Rpcs : s # r => \A e \in {"READ", "WRITE", "FINISH"} : FlagKept(s, e)
    BY <2>1 DEF FlagKept, Outstanding, Queued
  <2>5. active_rpcs' \in SUBSET Rpcs
    BY DEF TypeInv, TypeOK, RpcTypeOK
  <2> QED BY <2>1, <2>3, <2>4, <2>5, PendingFrame
\* CompletionQueueRpcEvent::Handle clears the flag of the event it takes.
<1>TakePending. ASSUME TypeInv', PendingIsOutstanding, NEW q \in EventQueues, NEW r \in Rpcs, NEW f, NEW ok, NEW label,
             EventTaken(q, r, f, ok, label)
      PROVE  PendingIsOutstanding'
  <2> USE <1>TakePending
  <2>1. \A s \in Rpcs : SameQueue(s)' <=> SameQueue(s)
    BY DEF SameQueue, EventTaken
  <2>2. UNCHANGED <<ops, active_rpcs>>
    BY DEF EventTaken, grpcVars
  <2>3. ASSUME NEW s \in Rpcs, SameQueue(s), NEW e \in {"READ", "WRITE", "FINISH"}
        PROVE  FlagKept(s, e) \/ FlagExact(s, e)'
    <3>1. CASE s # r \/ e # f
      BY <2>2, <3>1 DEF FlagKept, Outstanding, EventTaken
    <3>2. CASE s = r /\ e = f
      <4>1. e \notin pending'[s] /\ e \notin ops'[s] /\ ~Queued(s, e)'
        BY <2>2, <2>3, <3>2 DEF EventTaken
      <4> QED BY <4>1 DEF FlagExact, Outstanding
    <3> QED BY <3>1, <3>2
  <2>4. active_rpcs' \in SUBSET Rpcs
    BY DEF TypeInv, TypeOK, RpcTypeOK
  <2> QED BY <2>1, <2>2, <2>3, <2>4, PendingFrame
\* Server::RunCompletionQueue hands an event on; that of an active Rpc is not lost.
<1>RunCompletionQueuePending. ASSUME TypeInv, TypeInv', PendingIsOutstanding, NEW r \in Rpcs, NEW f \in CqEvents,
             NEW ok \in BOOLEAN, RunCompletionQueue(r, f, ok)
      PROVE  PendingIsOutstanding'
  <2> USE <1>RunCompletionQueuePending
  <2>1. /\ f \in ops[r] /\ ops' = [ops EXCEPT ![r] = @ \ {f}]
        /\ UNCHANGED <<event_queue, events_queue, pending, active_rpcs>>
    BY DEF RunCompletionQueue, MayReturn
  <2>2. \A s \in Rpcs : SameQueue(s)' <=> SameQueue(s)
    BY <2>1 DEF SameQueue
  <2>3. /\ \A s \in Rpcs : s # r => ops'[s] = ops[s]
        /\ ops'[r] = ops[r] \ {f}
    BY <2>1 DEF TypeInv, TypeOK, GrpcTypeOK
  <2>4. active_rpcs' \in SUBSET Rpcs
    BY DEF TypeInv, TypeOK, RpcTypeOK
  <2>5. CASE Destroyed(r)
    <3>1. r \notin active_rpcs /\ UNCHANGED queue
      BY <2>5 DEF RunCompletionQueue, Destroyed
    <3>2. \A s \in Rpcs : s # r => \A e \in {"READ", "WRITE", "FINISH"} : FlagKept(s, e)
      BY <2>1, <2>3, <3>1 DEF FlagKept, Outstanding, Queued
    <3> QED BY <2>1, <2>2, <2>4, <3>1, <3>2, PendingFrame
  <2>6. CASE ~Destroyed(r)
    <3>1. Push(events_queue[r], f, r, ok) /\ events_queue[r] \in EventQueues
      BY <2>6 DEF RunCompletionQueue, TypeInv, TypeOK, RpcTypeOK
    <3>2. \A s, e : Queued(s, e)' <=> Queued(s, e) \/ (s = r /\ e = f)
      <4>1. \A s, e : QueuedIn(queue', s, e) <=> QueuedIn(queue, s, e) \/ (s = r /\ e = f)
        <5>1. f \in CqEvents \cup {"WRITE_NEEDED"}
          OBVIOUS
        <5> QED BY SMT, <3>1, <5>1, PushQueued
      <4> QED BY <4>1 DEF Queued
    <3>3. \A s \in Rpcs : \A e : Outstanding(s, e)' <=> Outstanding(s, e)
      <4>1. ASSUME NEW s \in Rpcs, NEW e PROVE Outstanding(s, e)' <=> Outstanding(s, e)
        <5>1. CASE s # r \/ e # f
          BY <2>3, <3>2, <5>1 DEF Outstanding
        <5>2. CASE s = r /\ e = f
          BY <2>1, <3>2, <5>2 DEF Outstanding
        <5> QED BY <5>1, <5>2
      <4> QED BY <4>1
    <3>4. \A s \in Rpcs : \A e \in {"READ", "WRITE", "FINISH"} : FlagKept(s, e)
      BY <2>1, <3>3 DEF FlagKept
    <3> QED BY <2>1, <2>2, <2>4, <3>4, PendingFrame
  <2> QED BY <2>5, <2>6
<1> SUFFICES ASSUME ~RequestsMayFail,
                    TypeInv,
                    TypeInv',
                    EventsInv,
                    PendingIsOutstanding,
                    fault = "none",
                    Next
             PROVE  PendingIsOutstanding'
  OBVIOUS
<1>1. ASSUME UNCHANGED <<event_queue, events_queue, pending, ops, queue>>,
             active_rpcs' \subseteq active_rpcs
      PROVE  PendingIsOutstanding'
  BY <1>1, QuietPending DEF Queued
<1>2. CASE StartServing
  BY <1>2, <1>CreatePending DEF StartServing
<1>3. CASE Stopped \/ StartThreads \/ Shutdown \/ ShutdownGrpcServer \/ GrpcServerIsDown
           \/ CompletionQueuesJoined \/ EventQueuesJoined
           \/ (\E s \in Services : StopService(s))
           \/ (\E c \in CompletionQueues : ShutdownCompletionQueue(c))
  <2>1. UNCHANGED <<event_queue, events_queue, pending, ops, queue, active_rpcs>>
    BY <1>3 DEF Stopped, StartThreads, Shutdown, ShutdownGrpcServer, GrpcServerIsDown,
                       CompletionQueuesJoined, EventQueuesJoined, StopService,
                       ShutdownCompletionQueue, vars, grpcVars, rpcVars
  <2> QED BY <1>1, <2>1
<1>4. ASSUME NEW q \in EventQueues, HandleEvent(q) PROVE PendingIsOutstanding'
  <2>1. CASE HandleCompletionQueueEvent(q)
    BY <2>1, TakesEvent, <1>TakePending
  <2>2. CASE HandleInternalEvent(q)
    <3>1. /\ queue[q] # <<>> /\ Head(queue[q]).ev = "WRITE_NEEDED"
          /\ queue' = [queue EXCEPT ![q] = Tail(@)]
          /\ UNCHANGED <<event_queue, events_queue, pending, ops, active_rpcs>>
      BY <2>2 DEF HandleInternalEvent, grpcVars
    <3>2. \A s \in Rpcs : \A e \in {"READ", "WRITE", "FINISH"} : Queued(s, e)' <=> Queued(s, e)
      BY <3>1, PopExact DEF Queued
    <3> QED BY <3>1, <3>2, QuietPending
  <2> QED BY <1>4, <2>1, <2>2 DEF HandleEvent
<1>5. ASSUME NEW q \in EventQueues, ServiceStep(q) PROVE PendingIsOutstanding'
  <2>1. CASE HandleSendQueue(q) \/ RemoveIfNotPending(q) \/ RemoveAndReturn(q) \/ RemoveAndClone(q)
             \/ UseAfterFree(q) \/ CallbackReturns(q)
    <3>1. /\ UNCHANGED <<event_queue, events_queue, pending, ops, queue>>
          /\ active_rpcs' \subseteq active_rpcs
      BY <2>1 DEF HandleSendQueue, RemoveIfNotPending, RemoveAndReturn, RemoveAndClone,
                         UseAfterFree, CallbackReturns, Remove, grpcVars, rpcVars
    <3> QED BY <1>1, <3>1
  <2>2. CASE Perform(q) \/ Read(q)
    <3>1. PICK r \in Rpcs : r = thread[q].rpc
      BY <2>2 DEF Perform, Read, At, Busy, TypeInv, BusyHaveRpcs
    <3>2. PICK f \in {"READ", "WRITE", "FINISH"} :
            /\ pending' = [pending EXCEPT ![r] = @ \cup {f}]
            /\ ops' = [ops EXCEPT ![r] = @ \cup {f}]
      BY <2>2, <3>1
         DEF Perform, Read, PerformFinish, PerformWrite, RequestStreamingRead, StartOp
    <3>3. UNCHANGED <<event_queue, events_queue, active_rpcs, queue>>
      BY <2>2 DEF Perform, Read
    <3> QED BY <3>2, <3>3, <1>StartPending
  <2>3. CASE Clone(q)
    BY <2>3, <1>CreatePending DEF Clone, CloneTo
  <2> QED BY <1>5, <2>1, <2>2, <2>3 DEF ServiceStep
<1>6. ASSUME NEW r \in Rpcs, PushWriteNeeded(r),
             UNCHANGED <<event_queue, events_queue, pending, ops, active_rpcs>>
      PROVE  PendingIsOutstanding'
  <2>1. event_queue[r] \in EventQueues
    BY DEF TypeInv, TypeOK, RpcTypeOK
  <2>2. \A s \in Rpcs : \A e \in {"READ", "WRITE", "FINISH"} : Queued(s, e)' <=> Queued(s, e)
    BY <1>6, <2>1, PushQueued DEF Queued, PushWriteNeeded
  <2> QED BY <1>6, <2>2, QuietPending
<1>7. ASSUME NEW q \in EventQueues, CallbackStep(q) PROVE PendingIsOutstanding'
  <2>1. ASSUME NEW msg \in BOOLEAN, HandlerSend(q, msg) PROVE PendingIsOutstanding'
    <3>1. thread[q].rpc \in Rpcs
      BY <2>1, CallbackRpc DEF HandlerSend, At
    <3> QED BY <1>6, <2>1, <3>1 DEF HandlerSend
  <2>2. ASSUME NEW w \in Writers, GetWriter(q, w) PROVE PendingIsOutstanding'
    BY <1>1, <2>2 DEF GetWriter, rpcVars
  <2> QED BY <1>7, <2>1, <2>2 DEF CallbackStep
<1>8. ASSUME NEW w \in Writers, WriterStep(w) PROVE PendingIsOutstanding'
  <2>1. CASE WriterPush(w)
    <3>1. writer[w].rpc \in Rpcs
      BY <2>1 DEF WriterPush, TypeInv, BusyHaveRpcs
    <3> QED BY <1>6, <2>1, <3>1 DEF WriterPush
  <2>2. ASSUME NEW msg \in BOOLEAN, WriterEnqueue(w, msg) PROVE PendingIsOutstanding'
    BY <1>1, <2>2 DEF WriterEnqueue, grpcVars
  <2> QED BY <1>8, <2>1, <2>2 DEF WriterStep
<1>9. ASSUME NEW q \in EventQueues, EventThreadReturns(q) PROVE PendingIsOutstanding'
  BY <1>1, <1>9 DEF EventThreadReturns, grpcVars, rpcVars
<1>10. ASSUME NEW r \in Rpcs, ClientStep(r) PROVE PendingIsOutstanding'
  <2>1. /\ UNCHANGED <<event_queue, events_queue, pending, queue, active_rpcs>>
        /\ ops' = ops \/ ops' = [ops EXCEPT ![r] = @ \cup {"DONE"}]
    BY <1>10 DEF ClientStep, ClientCall, CallCloses, rpcVars
  <2>2. \A s \in Rpcs : \A e \in {"READ", "WRITE", "FINISH"} : e \in ops'[s] <=> e \in ops[s]
    BY SMT, <2>1 DEF TypeInv, TypeOK, GrpcTypeOK
  <2> QED BY <2>1, <2>2, QuietPending DEF Queued
<1>11. ASSUME NEW r \in Rpcs, NEW e \in CqEvents, NEW ok \in BOOLEAN, RunCompletionQueue(r, e, ok)
       PROVE  PendingIsOutstanding'
  BY <1>11, <1>RunCompletionQueuePending
<1> QED
  BY <1>2, <1>3, <1>4, <1>5, <1>7, <1>8, <1>9, <1>10, <1>11 DEF Next, Step, MainStep

\* The pending_ flags of a call are exact in every state, the one in which the
\* process stops included.
THEOREM FlagsAreExact ==
  ASSUME ~RequestsMayFail
  PROVE  Spec => []PendingIsOutstanding
<1> DEFINE Inv == TypeInv /\ LifetimeInv
<1>1. Init => PendingIsOutstanding
  BY DEF Init, RpcInit, PendingIsOutstanding
<1>2. ASSUME Inv, Inv', PendingIsOutstanding, [Next]_vars PROVE PendingIsOutstanding'
  <2>1. CASE UNCHANGED vars
    BY <1>2, <2>1, QuietPending DEF vars, grpcVars, rpcVars, Queued
  <2>2. CASE fault # "none"
    BY <1>2, <2>1, <2>2 DEF Next, Stopped
  <2>3. CASE fault = "none" /\ Next
    BY <1>2, <2>3, NextPending DEF LifetimeInv
  <2> QED BY <1>2, <2>1, <2>2, <2>3
<1>3. Inv /\ Inv' /\ PendingIsOutstanding /\ [Next]_vars => PendingIsOutstanding'
  BY <1>2
<1>4. Spec => []Inv
  BY LifetimeInvariance
<1> HIDE DEF Inv
<1> QED BY <1>1, <1>3, <1>4, PTL DEF Spec

-----------------------------------------------------------------------------
(* Listeners and responses *)

\* Nothing refers to an Rpc that was not created yet.
Unused(r) ==
  /\ ops[r] = {} /\ send_queue[r] = <<>>
  /\ \A e \in CqEvents \cup {"WRITE_NEEDED"} : ~Queued(r, e)
  /\ \A q \in EventQueues : ~BusyOn(q, r)
  /\ \A w \in Writers : writer[w].rpc # r

UnusedInv == \A r \in Rpcs : call[r] = "none" => Unused(r)

\* The labels at which the handlers of NEW_CONNECTION and READ can be.
LabelOK(q) ==
  Busy(q) =>
    /\ thread[q].ev = "NEW_CONNECTION" => thread[q].pc \in ConnectionLabels
    /\ thread[q].pc \in {"Initialize", "Clone", "RemoveAndClone"} => thread[q].ev = "NEW_CONNECTION"
    /\ thread[q].pc \in {"OnRequest", "OnReadsDone", "Read"} =>
         thread[q].ev \in {"NEW_CONNECTION", "READ"}
    /\ thread[q].ev = "NEW_CONNECTION" /\ thread[q].pc = "Remove" =>
         ServiceOf[method[thread[q].rpc]] \in stopped

LabelsInv == \A q \in EventQueues : LabelOK(q)

HandlesConnection(q, r) == BusyOn(q, r) /\ thread[q].ev = "NEW_CONNECTION"

\* The NEW_CONNECTION event of an Rpc is with gRPC, in an event queue or with an
\* event thread, and pending_ is set in the first two cases.
ConnectionTagOK(r) ==
  /\ Outstanding(r, "NEW_CONNECTION") => "NEW_CONNECTION" \in pending[r]
  /\ Queued(r, "NEW_CONNECTION") => "NEW_CONNECTION" \notin ops[r]
  /\ \A q \in EventQueues : HandlesConnection(q, r) =>
       /\ "NEW_CONNECTION" \notin pending[r]
       /\ \A p \in EventQueues : HandlesConnection(p, r) => p = q

ConnectionTagsInv == \A r \in Rpcs : ConnectionTagOK(r)

\* The event queues hold no NEW_CONNECTION event twice.
QueuedOnce ==
  \A p, q \in EventQueues : \A i \in 1 .. Len(queue[p]) : \A j \in 1 .. Len(queue[q]) :
    (/\ queue[p][i].ev = "NEW_CONNECTION" /\ queue[q][j].ev = "NEW_CONNECTION"
     /\ queue[p][i].rpc = queue[q][j].rpc)
    => p = q /\ i = j

\* A method has no Rpcs yet, its service was stopped, or it has one listener.
ListenerOK(m, c) ==
  \/ main = "starting" /\ RpcsFor(m, c) = {}
  \/ ServiceOf[m] \in stopped
  \/ \E r \in Rpcs : Listeners(m, c) = {r}

ListenersInv == \A m \in Methods, c \in CompletionQueues : ListenerOK(m, c)

FinishInv == \A r \in Rpcs : "FINISH" \in pending[r] => r \in status_sent

\* Something will make the send queue of r move.
Moves(r) ==
  \/ "WRITE" \in pending[r]
  \/ Queued(r, "WRITE_NEEDED")
  \/ \E q \in EventQueues :
       thread[q].rpc = r /\ thread[q].pc \in {"HandleSendQueue", "Perform"}
  \/ \E w \in Writers : writer[w] = [pc |-> "enqueued", rpc |-> r]

\* The inductive invariant.
ServingInv ==
  /\ UnusedInv /\ LabelsInv /\ ConnectionTagsInv /\ QueuedOnce /\ ListenersInv
  /\ FinishInv /\ NoStuckResponse

IsListener(r) == "NEW_CONNECTION" \in pending[r] \/ \E q \in EventQueues : HandlesConnection(q, r)

\* The Writers keep their Rpcs, and those of other Rpcs than r do nothing.
WritersKeep(r) ==
  /\ \A w \in Writers : writer'[w].rpc = writer[w].rpc
  /\ \A w \in Writers : writer[w].rpc # r => writer'[w] = writer[w]

\* The event queues gain nothing but e of r.
QueuesGain(r, e) ==
  /\ \A s, f : QueuedIn(queue, s, f) => QueuedIn(queue', s, f)
  /\ \A s, f : QueuedIn(queue', s, f) => QueuedIn(queue, s, f) \/ (s = r /\ f = e)

\* Every step of the server preserves the invariant. One step per action, after what
\* they have in common.
LEMMA NextServingInv ==
  TypeInv /\ ServingInv /\ [Next]_vars => ServingInv'
\* A step that leaves the event queues alone.
<1>OnceFrame. ASSUME QueuedOnce, queue' = queue
      PROVE  QueuedOnce'
  BY SMT, <1>OnceFrame DEF QueuedOnce
\* PushToEventQueue of an event that is not queued yet, or of another kind.
<1>PushOnce. ASSUME TypeInv, QueuedOnce, NEW q \in EventQueues, NEW e \in CqEvents \cup {"WRITE_NEEDED"},
             NEW r \in Rpcs, NEW ok \in BOOLEAN, Push(q, e, r, ok),
             e = "NEW_CONNECTION" => ~Queued(r, e)
      PROVE  QueuedOnce'
  <2> USE <1>PushOnce
  <2>1. /\ \A p \in EventQueues : p # q => queue'[p] = queue[p]
        /\ Len(queue[q]) \in Nat
        /\ Len(queue'[q]) = Len(queue[q]) + 1
        /\ queue'[q][Len(queue[q]) + 1] = [ev |-> e, rpc |-> r, ok |-> ok]
        /\ \A i \in 1 .. Len(queue[q]) : queue'[q][i] = queue[q][i]
    BY PushEntries
  <2>2. \A p \in EventQueues : \A i \in 1 .. Len(queue'[p]) :
          \/ i \in 1 .. Len(queue[p]) /\ queue'[p][i] = queue[p][i]
          \/ p = q /\ i = Len(queue[q]) + 1 /\ queue'[p][i].ev = e /\ queue'[p][i].rpc = r
    BY SMT, <2>1
  <2>3. \A p \in EventQueues : \A i \in 1 .. Len(queue[p]) :
          e = "NEW_CONNECTION" => ~(queue[p][i].ev = "NEW_CONNECTION" /\ queue[p][i].rpc = r)
    BY DEF Queued, QueuedIn
  <2> SUFFICES ASSUME NEW p \in EventQueues, NEW s \in EventQueues,
                      NEW i \in 1 .. Len(queue'[p]), NEW j \in 1 .. Len(queue'[s]),
                      queue'[p][i].ev = "NEW_CONNECTION", queue'[s][j].ev = "NEW_CONNECTION",
                      queue'[p][i].rpc = queue'[s][j].rpc
               PROVE  p = s /\ i = j
    BY SMT DEF QueuedOnce
  <2>4. CASE i \in 1 .. Len(queue[p]) /\ queue'[p][i] = queue[p][i]
    <3>1. CASE j \in 1 .. Len(queue[s]) /\ queue'[s][j] = queue[s][j]
      BY SMT, <2>4, <3>1 DEF QueuedOnce
    <3>2. CASE s = q /\ queue'[s][j].ev = e /\ queue'[s][j].rpc = r
      BY <2>3, <2>4, <3>2
    <3> QED BY <2>2, <3>1, <3>2
  <2>5. CASE p = q /\ i = Len(queue[q]) + 1 /\ queue'[p][i].ev = e /\ queue'[p][i].rpc = r
    <3>1. CASE j \in 1 .. Len(queue[s]) /\ queue'[s][j] = queue[s][j]
      BY <2>3, <2>5, <3>1
    <3>2. CASE s = q /\ j = Len(queue[q]) + 1
      BY <2>5, <3>2
    <3> QED BY <2>2, <3>1, <3>2
  <2> QED BY <2>2, <2>4, <2>5
\* PopWithTimeout keeps NEW_CONNECTION events single, and takes the last one away.
<1>PopOnce. ASSUME TypeInv, QueuedOnce, NEW q \in EventQueues, queue[q] # <<>>,
             queue' = [queue EXCEPT ![q] = Tail(@)]
      PROVE  /\ QueuedOnce'
             /\ Head(queue[q]).ev = "NEW_CONNECTION" =>
                  ~QueuedIn(queue', Head(queue[q]).rpc, "NEW_CONNECTION")
  <2> USE <1>PopOnce
  <2> DEFINE Old(p, i) == IF p = q THEN i + 1 ELSE i
  <2>1. /\ \A p \in EventQueues : \A i \in 1 .. Len(queue'[p]) :
             Old(p, i) \in 1 .. Len(queue[p]) /\ queue'[p][i] = queue[p][Old(p, i)]
        /\ 1 \in 1 .. Len(queue[q]) /\ Head(queue[q]) = queue[q][1]
    BY PoppedFrom
  <2>2. \A p \in EventQueues : \A i, j \in 1 .. Len(queue'[p]) : Old(p, i) = Old(p, j) => i = j
    BY SMT
  <2>3. \A i \in 1 .. Len(queue'[q]) : Old(q, i) # 1
    BY SMT
  <2> HIDE DEF Old
  <2>4. QueuedOnce'
    <3> SUFFICES ASSUME NEW p \in EventQueues, NEW s \in EventQueues,
                        NEW i \in 1 .. Len(queue'[p]), NEW j \in 1 .. Len(queue'[s]),
                        queue'[p][i].ev = "NEW_CONNECTION", queue'[s][j].ev = "NEW_CONNECTION",
                        queue'[p][i].rpc = queue'[s][j].rpc
                 PROVE  p = s /\ i = j
      BY SMT DEF QueuedOnce
    <3>1. /\ Old(p, i) \in 1 .. Len(queue[p]) /\ queue'[p][i] = queue[p][Old(p, i)]
          /\ Old(s, j) \in 1 .. Len(queue[s]) /\ queue'[s][j] = queue[s][Old(s, j)]
      BY <2>1
    <3>2. p = s /\ Old(p, i) = Old(s, j)
      <4>1. \A a, b \in EventQueues : \A k \in 1 .. Len(queue[a]) : \A l \in 1 .. Len(queue[b]) :
              (/\ queue[a][k].ev = "NEW_CONNECTION" /\ queue[b][l].ev = "NEW_CONNECTION"
               /\ queue[a][k].rpc = queue[b][l].rpc)
              => a = b /\ k = l
        BY SMT DEF QueuedOnce
      <4> HIDE DEF QueuedOnce
      <4> QED BY SMT, <3>1, <4>1
    <3> QED BY <2>2, <3>2
  <2>5. ASSUME Head(queue[q]).ev = "NEW_CONNECTION", NEW p \in EventQueues,
               NEW i \in 1 .. Len(queue'[p]), queue'[p][i].ev = "NEW_CONNECTION",
               queue'[p][i].rpc = Head(queue[q]).rpc
        PROVE  FALSE
    <3>1. p = q /\ Old(p, i) = 1
      BY SMT, <2>1, <2>5 DEF QueuedOnce
    <3> QED BY <2>3, <3>1
  <2> QED BY <2>4, <2>5 DEF QueuedIn
\* A step that makes use of x only, which has been created, keeps the others unused.
<1>UnusedStep. ASSUME UnusedInv, NEW x, x \in Rpcs => call'[x] # "none",
             \A s \in Rpcs : call'[s] = "none" => call[s] = "none",
             \A s \in Rpcs : s # x =>
               /\ ops[s] = {} => ops'[s] = {}
               /\ send_queue[s] = <<>> => send_queue'[s] = <<>>
               /\ \A e : QueuedIn(queue', s, e) => QueuedIn(queue, s, e)
               /\ \A q \in EventQueues : BusyOn(q, s)' => BusyOn(q, s)
               /\ \A w \in Writers : writer'[w].rpc = s => writer[w].rpc = s
      PROVE  UnusedInv'
  <2> USE <1>UnusedStep
  <2> SUFFICES ASSUME NEW s \in Rpcs, call'[s] = "none" PROVE Unused(s)'
    BY DEF UnusedInv
  <2>1. s # x /\ Unused(s)
    BY DEF UnusedInv
  <2> QED BY <2>1 DEF Unused, Queued
\* A step that leaves NEW_CONNECTION events and their flags where they are.
<1>ConnectionTagsFrame. ASSUME ConnectionTagsInv,
             \A s \in Rpcs :
               /\ "NEW_CONNECTION" \in ops'[s] <=> "NEW_CONNECTION" \in ops[s]
               /\ "NEW_CONNECTION" \in pending'[s] <=> "NEW_CONNECTION" \in pending[s]
               /\ QueuedIn(queue', s, "NEW_CONNECTION") => QueuedIn(queue, s, "NEW_CONNECTION")
               /\ \A q \in EventQueues : HandlesConnection(q, s)' => HandlesConnection(q, s)
      PROVE  ConnectionTagsInv'
  <2> USE <1>ConnectionTagsFrame
  <2> SUFFICES ASSUME NEW s \in Rpcs PROVE ConnectionTagOK(s)'
    BY DEF ConnectionTagsInv
  <2>1. ConnectionTagOK(s)
    BY DEF ConnectionTagsInv
  <2> QED BY <2>1 DEF ConnectionTagOK, Outstanding, Queued
\* The listeners, in the words of this module.
<1>ListenersOf. ASSUME NEW m, NEW c, NEW s
      PROVE  /\ s \in Listeners(m, c) <=> s \in RpcsFor(m, c) /\ IsListener(s)
             /\ s \in RpcsFor(m, c) <=> s \in Rpcs /\ call[s] # "none" /\ method[s] = m /\ cq[s] = c
  BY <1>ListenersOf DEF Listeners, RpcsFor, IsListener, HandlesConnection, BusyOn
\* A step that leaves the listeners of a method as they are.
<1>ListenerFrame. ASSUME NEW m, NEW c, ListenerOK(m, c),
             main = "starting" => main' = "starting" \/ RpcsFor(m, c) # {},
             stopped \subseteq stopped',
             \A s \in Rpcs : s \in RpcsFor(m, c)' <=> s \in RpcsFor(m, c),
             \A s \in RpcsFor(m, c) : IsListener(s)' <=> IsListener(s)
      PROVE  ListenerOK(m, c)'
  <2> USE <1>ListenerFrame
  <2>1. RpcsFor(m, c)' = RpcsFor(m, c)
    BY DEF RpcsFor
  <2>2. Listeners(m, c)' = Listeners(m, c)
    <3>1. \A s : s \in Listeners(m, c)' <=> s \in Listeners(m, c)
      BY <2>1 DEF Listeners, IsListener, HandlesConnection, BusyOn
    <3> QED BY <3>1
  <2> QED BY <2>1, <2>2 DEF ListenerOK
\* A step of the running server that leaves all listeners as they are.
<1>ListenersFrame. ASSUME ListenersInv,
             main = "starting" =>
               main' = "starting" \/ \A m \in Methods, c \in CompletionQueues : RpcsFor(m, c) # {},
             stopped \subseteq stopped', method' = method, cq' = cq,
             \A s \in Rpcs : call'[s] = "none" <=> call[s] = "none",
             \A s \in Rpcs : IsListener(s)' <=> IsListener(s)
      PROVE  ListenersInv'
  <2> USE <1>ListenersFrame
  <2> SUFFICES ASSUME NEW m \in Methods, NEW c \in CompletionQueues PROVE ListenerOK(m, c)'
    BY DEF ListenersInv
  <2>1. ListenerOK(m, c)
    BY DEF ListenersInv
  <2>2. \A s \in Rpcs : s \in RpcsFor(m, c)' <=> s \in RpcsFor(m, c)
    BY DEF RpcsFor
  <2>3. \A s \in RpcsFor(m, c) : IsListener(s)' <=> IsListener(s)
    BY DEF RpcsFor
  <2>4. main = "starting" => main' = "starting" \/ RpcsFor(m, c) # {}
    OBVIOUS
  <2> QED BY <2>1, <2>2, <2>3, <2>4, <1>ListenerFrame
\* A step that keeps the send queues of all Rpcs but x moving.
<1>StuckStep. ASSUME NoStuckResponse, NEW x,
             \A s \in active_rpcs' : s # x =>
               /\ s \in active_rpcs \/ send_queue'[s] = <<>>
               /\ send_queue'[s] = send_queue[s]
               /\ s \in status_sent => s \in status_sent'
               /\ Moves(s) => Moves(s)',
             x \in active_rpcs' /\ send_queue'[x] # <<>> /\ x \notin status_sent' => Moves(x)'
      PROVE  NoStuckResponse'
  <2> USE <1>StuckStep
  <2>1. \A s \in active_rpcs : send_queue[s] # <<>> /\ s \notin status_sent => Moves(s)
    BY DEF NoStuckResponse, Moves
  <2>2. \A s \in active_rpcs' : send_queue'[s] # <<>> /\ s \notin status_sent' => Moves(s)'
    BY <2>1
  <2> QED BY <2>2 DEF NoStuckResponse, Moves
\* A step that touches no event, no flag, no send queue and no busy thread.
<1>FrameServing. ASSUME TypeInv, ServingInv,
             UNCHANGED <<cq, status_sent, method, pending, send_queue, active_rpcs, queue>>,
             \A s \in Rpcs : call'[s] = "none" <=> call[s] = "none",
             \A s \in Rpcs : "NEW_CONNECTION" \in ops'[s] <=> "NEW_CONNECTION" \in ops[s],
             \A s \in Rpcs : call[s] = "none" => ops'[s] = ops[s],
             \A q \in EventQueues : Busy(q)' \/ Busy(q) => thread'[q] = thread[q],
             NEW x \in Rpcs \cup {NoRpc}, x \in Rpcs => call[x] # "none",
             \A w \in Writers : writer'[w] = writer[w] \/
               (writer[w].pc # "enqueued" /\ writer'[w].rpc = x),
             stopped \subseteq stopped',
             main = "starting" =>
               main' = "starting" \/ \A m \in Methods, c \in CompletionQueues : RpcsFor(m, c) # {}
      PROVE  ServingInv'
  <2> USE <1>FrameServing
  <2>1. /\ UnusedInv /\ LabelsInv /\ ConnectionTagsInv /\ QueuedOnce /\ ListenersInv
        /\ FinishInv /\ NoStuckResponse
    BY DEF ServingInv
  <2>2. \A q \in EventQueues : /\ Busy(q)' <=> Busy(q)
                               /\ Busy(q) => thread'[q] = thread[q]
    BY DEF Busy
  <2>3. \A s : \A q \in EventQueues : /\ BusyOn(q, s)' <=> BusyOn(q, s)
                                      /\ HandlesConnection(q, s)' <=> HandlesConnection(q, s)
    BY <2>2 DEF BusyOn, HandlesConnection
  <2>4. UnusedInv'
    <3> SUFFICES ASSUME NEW s \in Rpcs, call'[s] = "none" PROVE Unused(s)'
      BY DEF UnusedInv
    <3>1. Unused(s) /\ ops'[s] = ops[s] /\ s # x
      BY <2>1 DEF UnusedInv
    <3> QED BY <2>3, <3>1 DEF Unused, Queued
  <2>5. LabelsInv'
    BY <2>1, <2>2 DEF LabelsInv, LabelOK
  <2>6. ConnectionTagsInv'
    BY <2>1, <2>3, <1>ConnectionTagsFrame
  <2>7. QueuedOnce'
    BY <2>1, <1>OnceFrame
  <2>8. ListenersInv'
    <3>1. \A s \in Rpcs : IsListener(s)' <=> IsListener(s)
      BY <2>3 DEF IsListener
    <3> QED BY <2>1, <3>1, <1>ListenersFrame
  <2>9. FinishInv'
    BY <2>1 DEF FinishInv
  <2>10. NoStuckResponse'
    <3>1. ASSUME NEW s, Moves(s) PROVE Moves(s)'
      <4>1. \A q \in EventQueues : thread[q].pc \in {"HandleSendQueue", "Perform"} =>
              thread'[q] = thread[q]
        BY <2>2 DEF Busy
      <4>2. \A w \in Writers : writer[w] = [pc |-> "enqueued", rpc |-> s] => writer'[w] = writer[w]
        <5>1. [pc |-> "enqueued", rpc |-> s].pc = "enqueued"
          OBVIOUS
        <5> QED BY <5>1
      <4> QED BY <3>1, <4>1, <4>2 DEF Moves, Queued
    <3> QED BY <2>1, <3>1 DEF NoStuckResponse, Moves
  <2> QED BY <2>4, <2>5, <2>6, <2>7, <2>8, <2>9, <2>10 DEF ServingInv
\* A step of the event thread q in the middle of a handler.  It gives the
\* NEW_CONNECTION event up only when the service was stopped.
<1>HandlerStepServing. ASSUME TypeInv, ServingInv, NEW q \in EventQueues, NEW r \in Rpcs, BusyOn(q, r),
             \A p \in EventQueues : p # q => thread'[p] = thread[p],
             Busy(q)' => thread'[q].rpc = r /\ thread'[q].ev = thread[q].ev,
             ~Busy(q)' /\ thread[q].ev = "NEW_CONNECTION" => ServiceOf[method[r]] \in stopped,
             LabelOK(q)',
             UNCHANGED <<call, cq, method, queue, stopped, writer, main>>,
             \A s \in Rpcs : s # r =>
               /\ ops'[s] = ops[s] /\ pending'[s] = pending[s] /\ send_queue'[s] = send_queue[s],
             "NEW_CONNECTION" \in ops'[r] <=> "NEW_CONNECTION" \in ops[r],
             "NEW_CONNECTION" \in pending'[r] <=> "NEW_CONNECTION" \in pending[r],
             "FINISH" \in pending'[r] => "FINISH" \in pending[r] \/ r \in status_sent',
             status_sent \subseteq status_sent',
             active_rpcs' \subseteq active_rpcs,
             r \in active_rpcs' /\ send_queue'[r] # <<>> /\ r \notin status_sent' => Moves(r)'
      PROVE  ServingInv'
  <2> USE <1>HandlerStepServing
  <2>1. /\ UnusedInv /\ LabelsInv /\ ConnectionTagsInv /\ QueuedOnce /\ ListenersInv
        /\ FinishInv /\ NoStuckResponse
    BY DEF ServingInv
  <2>2. \A p \in EventQueues : \A s : BusyOn(p, s)' => BusyOn(p, s) /\ thread'[p].ev = thread[p].ev
    BY DEF BusyOn, Busy
  <2>3. call[r] # "none"
    BY <2>1 DEF UnusedInv, Unused
  <2>4. UnusedInv'
    BY <2>1, <2>2, <2>3, <1>UnusedStep
  <2>5. LabelsInv'
    <3> SUFFICES ASSUME NEW p \in EventQueues, p # q PROVE LabelOK(p)'
      BY DEF LabelsInv
    <3>1. LabelOK(p) /\ thread'[p] = thread[p]
      BY <2>1 DEF LabelsInv
    <3> QED BY <3>1 DEF LabelOK, Busy
  <2>6. ConnectionTagsInv'
    <3>1. \A s \in Rpcs :
            /\ "NEW_CONNECTION" \in ops'[s] <=> "NEW_CONNECTION" \in ops[s]
            /\ "NEW_CONNECTION" \in pending'[s] <=> "NEW_CONNECTION" \in pending[s]
      OBVIOUS
    <3>2. \A s \in Rpcs : \A p \in EventQueues : HandlesConnection(p, s)' => HandlesConnection(p, s)
      BY <2>2 DEF HandlesConnection
    <3> QED BY <2>1, <3>1, <3>2, <1>ConnectionTagsFrame
  <2>7. QueuedOnce'
    BY <2>1, <1>OnceFrame
  <2>8. ListenersInv'
    <3> SUFFICES ASSUME NEW m \in Methods, NEW c \in CompletionQueues, ServiceOf[m] \notin stopped
                 PROVE  ListenerOK(m, c)'
      BY DEF ListenersInv, ListenerOK
    <3>1. ListenerOK(m, c)
      BY <2>1 DEF ListenersInv
    <3>2. ASSUME NEW s \in RpcsFor(m, c) PROVE IsListener(s)' <=> IsListener(s)
      <4>1. s \in Rpcs /\ method[s] = m
        BY DEF RpcsFor
      <4>2. \A p \in EventQueues : HandlesConnection(p, s)' <=> HandlesConnection(p, s)
        BY <2>2, <4>1 DEF HandlesConnection, BusyOn, Busy
      <4>3. "NEW_CONNECTION" \in pending'[s] <=> "NEW_CONNECTION" \in pending[s]
        BY <4>1
      <4> QED BY <4>2, <4>3 DEF IsListener
    <3>3. \A s \in Rpcs : s \in RpcsFor(m, c)' <=> s \in RpcsFor(m, c)
      BY DEF RpcsFor
    <3> QED BY <3>1, <3>2, <3>3, <1>ListenerFrame
  <2>9. FinishInv'
    BY <2>1 DEF FinishInv
  <2>10. NoStuckResponse'
    <3>1. ASSUME NEW s \in active_rpcs', s # r
          PROVE  s \in active_rpcs /\ send_queue'[s] = send_queue[s] /\ (Moves(s) => Moves(s)')
      <4>1. s \in active_rpcs /\ s \in Rpcs
        BY DEF TypeInv, TypeOK, RpcTypeOK
      <4>2. \A p \in EventQueues :
              thread[p].rpc = s /\ thread[p].pc \in {"HandleSendQueue", "Perform"} =>
                thread'[p] = thread[p]
        BY <3>1 DEF BusyOn
      <4>3. send_queue'[s] = send_queue[s] /\ pending'[s] = pending[s]
        BY <3>1, <4>1
      <4> QED BY <4>1, <4>2, <4>3 DEF Moves, Queued
    <3> QED BY <2>1, <3>1, <1>StuckStep
  <2> QED BY <2>4, <2>5, <2>6, <2>7, <2>8, <2>9, <2>10 DEF ServingInv
\* A send queue that moved still does, unless the step is about its flags.
<1>StillMoves. ASSUME NoStuckResponse, NEW r, NEW q \in EventQueues,
             r \in active_rpcs, send_queue[r] # <<>>, r \notin status_sent,
             "WRITE" \in pending[r] => "WRITE" \in pending'[r],
             \A p \in EventQueues : p # q => thread'[p] = thread[p],
             thread[q].pc \notin {"HandleSendQueue", "Perform"},
             UNCHANGED <<queue, writer>>
      PROVE  Moves(r)'
  <2> USE <1>StillMoves
  <2>1. Moves(r)
    BY DEF NoStuckResponse, Moves
  <2> QED BY <2>1 DEF Moves, Queued
\* A callback of user code returns to Service.
<1>CallbackReturnsServing. ASSUME TypeInv, ServingInv, NEW q \in EventQueues, CallbackReturns(q), UNCHANGED main
      PROVE  ServingInv'
  <2> USE <1>CallbackReturnsServing
  <2>0. PICK r \in Rpcs : r = thread[q].rpc /\ BusyOn(q, r)
    BY DEF CallbackReturns, At, Callbacks, Busy, BusyOn, TypeInv, BusyHaveRpcs
  <2>1. /\ thread[q].pc \in Callbacks /\ Goto(q, NextLabel(q))
        /\ UNCHANGED <<call, cq, ops, status_sent, method, pending, send_queue, active_rpcs, queue,
                       stopped, writer>>
    BY DEF CallbackReturns, At, grpcVars, rpcVars
  <2>2. /\ thread'[q].pc = NextLabel(q)
        /\ \A p \in EventQueues : thread'[p].rpc = thread[p].rpc /\ thread'[p].ev = thread[p].ev
        /\ \A p \in EventQueues : p # q => thread'[p] = thread[p]
    BY <2>1, GotoThreads, NextLabelType
  <2>3. LabelOK(q) /\ Busy(q)
    BY <2>0 DEF ServingInv, LabelsInv, BusyOn
  <2>4. NextLabel(q) \in {"Read", "OnRequest", "OnReadsDone", "RemoveIfNotPending", "Clone"}
    BY DEF NextLabel
  <2>5. NextLabel(q) \in {"OnRequest", "Read", "OnReadsDone"} =>
          thread[q].ev \in {"NEW_CONNECTION", "READ"}
    <3>1. NextLabel(q) \in {"OnRequest", "Read", "OnReadsDone"} =>
            thread[q].pc \in {"Initialize", "OnRequest"}
      BY <2>1 DEF NextLabel, Callbacks
    <3> QED BY <2>3, <3>1 DEF LabelOK
  <2>6. NextLabel(q) = "Clone" => thread[q].ev = "NEW_CONNECTION"
    <3>1. NextLabel(q) = "Clone" => thread[q].pc = "OnReadsDone" /\ thread[q].ev # "READ"
      BY <2>1 DEF NextLabel, Callbacks
    <3> QED BY <2>3, <3>1 DEF LabelOK
  <2>7. thread[q].ev = "NEW_CONNECTION" => NextLabel(q) # "RemoveIfNotPending"
    <3>1. thread[q].ev = "NEW_CONNECTION" => thread[q].pc \in {"Initialize", "OnRequest", "OnReadsDone"}
      BY <2>1, <2>3 DEF LabelOK, ConnectionLabels, Callbacks
    <3> QED BY <3>1 DEF NextLabel
  <2>8. LabelOK(q)'
    BY <2>2, <2>4, <2>5, <2>6, <2>7 DEF LabelOK, ConnectionLabels
  <2>9. Busy(q)'
    BY <2>2, <2>4 DEF Busy
  <2>10. r \in active_rpcs' /\ send_queue'[r] # <<>> /\ r \notin status_sent' => Moves(r)'
    <3>1. thread[q].pc \notin {"HandleSendQueue", "Perform"}
      BY <2>1 DEF Callbacks
    <3> QED BY <2>1, <2>2, <3>1, <1>StillMoves DEF ServingInv
  <2> QED BY <2>0, <2>1, <2>2, <2>8, <2>9, <2>10, <1>HandlerStepServing
\* HandleSendQueue returns without sending only when there is nothing to send,
\* or a write or the final status is under way.
<1>HandleSendQueueServing. ASSUME TypeInv, ServingInv, NEW q \in EventQueues, HandleSendQueue(q), UNCHANGED main
      PROVE  ServingInv'
  <2> USE <1>HandleSendQueueServing
  <2>0. PICK r \in Rpcs : r = thread[q].rpc /\ BusyOn(q, r)
    BY DEF HandleSendQueue, At, Busy, BusyOn, TypeInv, BusyHaveRpcs
  <2>1. /\ thread[q].pc = "HandleSendQueue"
        /\ UNCHANGED <<call, cq, ops, status_sent, method, pending, active_rpcs, queue, stopped, writer>>
    BY DEF HandleSendQueue, At, grpcVars
  <2>2. PICK label \in {"RemoveIfNotPending", "Perform"} : \E item :
          /\ Goto(q, label) \/ GotoWith(q, label, item)
          /\ label = "RemoveIfNotPending" => NothingToSend(r) /\ send_queue' = send_queue
    BY <2>0 DEF HandleSendQueue
  <2>3. /\ thread'[q].pc = label
        /\ \A p \in EventQueues : thread'[p].rpc = thread[p].rpc /\ thread'[p].ev = thread[p].ev
        /\ \A p \in EventQueues : p # q => thread'[p] = thread[p]
    BY <2>2, GotoThreads DEF Labels
  <2>4. thread[q].ev # "NEW_CONNECTION"
    BY <2>0, <2>1 DEF ServingInv, LabelsInv, LabelOK, ConnectionLabels, BusyOn
  <2>5. LabelOK(q)' /\ Busy(q)'
    BY <2>3, <2>4 DEF LabelOK, Busy
  <2>6. \A s \in Rpcs : s # r => send_queue'[s] = send_queue[s]
    <3>1. send_queue' = send_queue \/ send_queue' = [send_queue EXCEPT ![r] = Tail(@)]
      BY <2>0 DEF HandleSendQueue
    <3> QED BY <3>1 DEF TypeInv, TypeOK, RpcTypeOK
  <2>7. send_queue'[r] # <<>> /\ r \notin status_sent' => Moves(r)'
    <3>1. CASE label = "Perform"
      BY <2>0, <2>3, <3>1 DEF Moves
    <3>2. CASE label = "RemoveIfNotPending"
      BY <2>0, <2>1, <2>2, <3>2 DEF Moves, NothingToSend, ServingInv, FinishInv
    <3> QED BY <3>1, <3>2
  <2> QED BY <2>0, <2>1, <2>3, <2>5, <2>6, <2>7, <1>HandlerStepServing
\* A write is pending after PerformWrite, and the call is over after PerformFinish.
<1>PerformServing. ASSUME TypeInv, ServingInv, NEW q \in EventQueues, Perform(q), UNCHANGED main
      PROVE  ServingInv'
  <2> USE <1>PerformServing
  <2>0. PICK r \in Rpcs : r = thread[q].rpc /\ BusyOn(q, r)
    BY DEF Perform, At, Busy, BusyOn, TypeInv, BusyHaveRpcs
  <2>1. /\ thread[q].pc = "Perform" /\ GotoWith(q, "RemoveIfNotPending", NoItem)
        /\ UNCHANGED <<call, cq, method, send_queue, active_rpcs, queue, stopped, writer>>
    BY DEF Perform, At
  <2>2. PICK e \in {"WRITE", "FINISH"} :
          /\ ops' = [ops EXCEPT ![r] = @ \cup {e}]
          /\ pending' = [pending EXCEPT ![r] = @ \cup {e}]
          /\ status_sent' = IF e = "FINISH" THEN status_sent \cup {r} ELSE status_sent
    BY <2>0 DEF Perform, PerformFinish, PerformWrite, StartOp
  <2>3. /\ thread'[q].pc = "RemoveIfNotPending"
        /\ \A p \in EventQueues : thread'[p].rpc = thread[p].rpc /\ thread'[p].ev = thread[p].ev
        /\ \A p \in EventQueues : p # q => thread'[p] = thread[p]
    BY <2>1, GotoThreads DEF Labels
  <2>4. thread[q].ev # "NEW_CONNECTION"
    BY <2>0, <2>1 DEF ServingInv, LabelsInv, LabelOK, ConnectionLabels, BusyOn
  <2>5. LabelOK(q)' /\ Busy(q)'
    BY <2>3, <2>4 DEF LabelOK, Busy
  <2>6. /\ \A s \in Rpcs : s # r => ops'[s] = ops[s] /\ pending'[s] = pending[s]
        /\ ops'[r] = ops[r] \cup {e} /\ pending'[r] = pending[r] \cup {e}
    BY <2>2 DEF TypeInv, TypeOK, GrpcTypeOK, RpcTypeOK
  <2>7. /\ "NEW_CONNECTION" \in ops'[r] <=> "NEW_CONNECTION" \in ops[r]
        /\ "NEW_CONNECTION" \in pending'[r] <=> "NEW_CONNECTION" \in pending[r]
        /\ "FINISH" \in pending'[r] => "FINISH" \in pending[r] \/ r \in status_sent'
        /\ status_sent \subseteq status_sent'
        /\ r \notin status_sent' => Moves(r)'
    BY <2>2, <2>6 DEF Moves
  <2>8. /\ \A p \in EventQueues : p # q => thread'[p] = thread[p]
        /\ Busy(q)' => thread'[q].rpc = r /\ thread'[q].ev = thread[q].ev
        /\ ~Busy(q)' /\ thread[q].ev = "NEW_CONNECTION" => ServiceOf[method[r]] \in stopped
        /\ active_rpcs' \subseteq active_rpcs
        /\ \A s \in Rpcs : s # r =>
             ops'[s] = ops[s] /\ pending'[s] = pending[s] /\ send_queue'[s] = send_queue[s]
        /\ UNCHANGED <<call, cq, method, queue, stopped, writer, main>>
    BY <2>0, <2>1, <2>3, <2>5, <2>6
  <2> QED BY <2>0, <2>5, <2>7, <2>8, <1>HandlerStepServing
\* RequestStreamingReadIfNeeded.
<1>ReadServing. ASSUME TypeInv, ServingInv, NEW q \in EventQueues, Read(q), UNCHANGED main
      PROVE  ServingInv'
  <2> USE <1>ReadServing
  <2>0. PICK r \in Rpcs : r = thread[q].rpc /\ BusyOn(q, r)
    BY DEF Read, At, Busy, BusyOn, TypeInv, BusyHaveRpcs
  <2>1. /\ thread[q].pc = "Read"
        /\ UNCHANGED <<call, cq, status_sent, method, send_queue, active_rpcs, queue, stopped, writer>>
        /\ ops' = [ops EXCEPT ![r] = @ \cup {"READ"}]
        /\ pending' = [pending EXCEPT ![r] = @ \cup {"READ"}]
        /\ IF thread[q].ev = "NEW_CONNECTION" THEN Goto(q, "Clone") ELSE Return(q)
    BY <2>0 DEF Read, At, RequestStreamingRead, StartOp
  <2>2. /\ \A p \in EventQueues : p # q => thread'[p] = thread[p]
        /\ IF thread[q].ev = "NEW_CONNECTION"
           THEN thread'[q].pc = "Clone" /\ thread'[q].rpc = r /\ thread'[q].ev = thread[q].ev
           ELSE ~Busy(q)'
    <3>1. CASE thread[q].ev = "NEW_CONNECTION"
      BY <2>0, <2>1, <3>1, GotoThreads DEF Labels
    <3>2. CASE thread[q].ev # "NEW_CONNECTION"
      BY <2>1, <3>2, ReturnThreads
    <3> QED BY <3>1, <3>2
  <2>3. LabelOK(q)'
    BY <2>2 DEF LabelOK, ConnectionLabels
  <2>4. Busy(q)' <=> thread[q].ev = "NEW_CONNECTION"
    BY <2>2 DEF Busy
  <2>5. /\ \A s \in Rpcs : s # r => ops'[s] = ops[s] /\ pending'[s] = pending[s]
        /\ ops'[r] = ops[r] \cup {"READ"} /\ pending'[r] = pending[r] \cup {"READ"}
    BY <2>1 DEF TypeInv, TypeOK, GrpcTypeOK, RpcTypeOK
  <2>6. /\ "NEW_CONNECTION" \in ops'[r] <=> "NEW_CONNECTION" \in ops[r]
        /\ "NEW_CONNECTION" \in pending'[r] <=> "NEW_CONNECTION" \in pending[r]
        /\ "FINISH" \in pending'[r] => "FINISH" \in pending[r]
    BY <2>5
  <2>7. r \in active_rpcs' /\ send_queue'[r] # <<>> /\ r \notin status_sent' => Moves(r)'
    BY <2>1, <2>2, <2>5, <1>StillMoves DEF ServingInv
  <2>8. /\ \A p \in EventQueues : p # q => thread'[p] = thread[p]
        /\ Busy(q)' => thread'[q].rpc = r /\ thread'[q].ev = thread[q].ev
        /\ ~Busy(q)' /\ thread[q].ev = "NEW_CONNECTION" => ServiceOf[method[r]] \in stopped
        /\ status_sent \subseteq status_sent' /\ active_rpcs' \subseteq active_rpcs
        /\ \A s \in Rpcs : s # r =>
             ops'[s] = ops[s] /\ pending'[s] = pending[s] /\ send_queue'[s] = send_queue[s]
        /\ UNCHANGED <<call, cq, method, queue, stopped, writer, main>>
    BY <2>1, <2>2, <2>4, <2>5
  <2> QED BY <2>0, <2>3, <2>6, <2>7, <2>8, <1>HandlerStepServing
\* RemoveIfNotPending and the removal.  A request that was not matched is removed
\* only when the service was stopped, or when it is cloned afterwards.
<1>RemoveServing. ASSUME TypeInv, ServingInv, NEW q \in EventQueues,
             RemoveIfNotPending(q) \/ RemoveAndReturn(q) \/ RemoveAndClone(q), UNCHANGED main
      PROVE  ServingInv'
  <2> USE <1>RemoveServing
  <2>0. PICK r \in Rpcs : r = thread[q].rpc /\ BusyOn(q, r)
    BY DEF RemoveIfNotPending, RemoveAndReturn, RemoveAndClone, At, Busy, BusyOn, TypeInv,
       BusyHaveRpcs
  <2>1. /\ thread[q].pc \in {"RemoveIfNotPending", "Remove", "RemoveAndClone"}
        /\ UNCHANGED <<call, cq, ops, status_sent, method, pending, send_queue, queue, stopped, writer>>
        /\ active_rpcs' \subseteq active_rpcs
    <3>1. CASE RemoveIfNotPending(q)
      BY <3>1 DEF RemoveIfNotPending, At, grpcVars, rpcVars
    <3>2. CASE RemoveAndReturn(q) \/ RemoveAndClone(q)
      BY <3>2 DEF RemoveAndReturn, RemoveAndClone, Remove, At, grpcVars
    <3> QED BY <3>1, <3>2
  <2>2. LabelOK(q) /\ Busy(q)
    BY <2>0 DEF ServingInv, LabelsInv, BusyOn
  <2>3. \/ Return(q) /\ thread[q].pc \in {"RemoveIfNotPending", "Remove"}
        \/ Goto(q, "Remove") /\ thread[q].pc = "RemoveIfNotPending"
        \/ Goto(q, "Clone") /\ thread[q].pc = "RemoveAndClone"
    BY DEF RemoveIfNotPending, RemoveAndReturn, RemoveAndClone, At
  <2>4. /\ \A p \in EventQueues : p # q => thread'[p] = thread[p]
        /\ Busy(q)' => thread'[q].rpc = r /\ thread'[q].ev = thread[q].ev
        /\ ~Busy(q)' /\ thread[q].ev = "NEW_CONNECTION" => ServiceOf[method[r]] \in stopped
        /\ LabelOK(q)'
    <3>1. CASE Return(q) /\ thread[q].pc \in {"RemoveIfNotPending", "Remove"}
      <4>1. ~Busy(q)' /\ \A p \in EventQueues : p # q => thread'[p] = thread[p]
        BY <3>1, ReturnThreads
      <4>2. thread[q].ev = "NEW_CONNECTION" => ServiceOf[method[r]] \in stopped
        BY <2>0, <2>2, <3>1 DEF LabelOK, ConnectionLabels
      <4> QED BY <4>1, <4>2 DEF LabelOK
    <3>2. CASE Goto(q, "Remove") /\ thread[q].pc = "RemoveIfNotPending"
      <4>1. /\ thread'[q].pc = "Remove"
            /\ \A p \in EventQueues : thread'[p].rpc = thread[p].rpc /\ thread'[p].ev = thread[p].ev
            /\ \A p \in EventQueues : p # q => thread'[p] = thread[p]
        BY <3>2, GotoThreads DEF Labels
      <4>2. thread[q].ev # "NEW_CONNECTION" /\ Busy(q)'
        BY <2>2, <3>2, <4>1 DEF LabelOK, ConnectionLabels, Busy
      <4> QED BY <2>0, <4>1, <4>2 DEF LabelOK
    <3>3. CASE Goto(q, "Clone") /\ thread[q].pc = "RemoveAndClone"
      <4>1. /\ thread'[q].pc = "Clone"
            /\ \A p \in EventQueues : thread'[p].rpc = thread[p].rpc /\ thread'[p].ev = thread[p].ev
            /\ \A p \in EventQueues : p # q => thread'[p] = thread[p]
        BY <3>3, GotoThreads DEF Labels
      <4>2. thread[q].ev = "NEW_CONNECTION" /\ Busy(q)'
        BY <2>2, <3>3, <4>1 DEF LabelOK, Busy
      <4> QED BY <2>0, <4>1, <4>2 DEF LabelOK, ConnectionLabels
    <3> QED BY <2>3, <3>1, <3>2, <3>3
  <2>5. r \in active_rpcs' /\ send_queue'[r] # <<>> /\ r \notin status_sent' => Moves(r)'
    <3>1. thread[q].pc \notin {"HandleSendQueue", "Perform"}
      BY <2>1
    <3> QED BY <2>1, <2>4, <3>1, <1>StillMoves DEF ServingInv
  <2> QED BY <2>0, <2>1, <2>4, <2>5, <1>HandlerStepServing
\* A new Rpc for method m and completion queue c takes the place of the listener
\* that StartServing does not find, or that thread q gives up.
<1>CreateServing. ASSUME TypeInv, ServingInv, NEW r \in Rpcs, NEW m \in Methods, NEW c \in CompletionQueues,
             NEW eq, NEW rq,
             Construct(r, m, c, eq, rq), Add(r), RequestNextMethodInvocation(r, c),
             UNCHANGED <<status_sent, send_queue, queue, stopped, writer, main>>,
             \A p \in EventQueues : Busy(p)' => Busy(p) /\ thread'[p] = thread[p],
             \A p \in EventQueues : thread[p].pc \in {"HandleSendQueue", "Perform"} =>
               thread'[p] = thread[p],
             \A s \in Rpcs : IsListener(s) => s = r \/ IsListener(s)' \/ s \in RpcsFor(m, c),
             \A s \in RpcsFor(m, c) : ServiceOf[m] \in stopped \/ ~IsListener(s)'
      PROVE  ServingInv'
  <2> USE <1>CreateServing
  <2>0. /\ UnusedInv /\ LabelsInv /\ ConnectionTagsInv /\ QueuedOnce /\ ListenersInv
        /\ FinishInv /\ NoStuckResponse
    BY DEF ServingInv
  <2>1. /\ call[r] = "none"
        /\ method' = [method EXCEPT ![r] = m]
        /\ cq' = [cq EXCEPT ![r] = c]
        /\ ops' = [ops EXCEPT ![r] = @ \cup {"NEW_CONNECTION"}]
        /\ pending' = [pending EXCEPT ![r] = {"DONE", "NEW_CONNECTION"}]
        /\ call' = [call EXCEPT ![r] = "requested"]
        /\ active_rpcs' = active_rpcs \cup {r}
    BY DEF Construct, Add, RequestNextMethodInvocation, StartOp
  <2>2. /\ ops'[r] = ops[r] \cup {"NEW_CONNECTION"}
        /\ pending'[r] = {"DONE", "NEW_CONNECTION"} /\ call'[r] = "requested"
        /\ method'[r] = m /\ cq'[r] = c
        /\ \A s \in Rpcs : s # r =>
             /\ ops'[s] = ops[s] /\ pending'[s] = pending[s] /\ call'[s] = call[s]
             /\ method'[s] = method[s] /\ cq'[s] = cq[s]
    BY <2>1 DEF TypeInv, TypeOK, GrpcTypeOK, RpcTypeOK
  <2>3. Unused(r)
    BY <2>0, <2>1 DEF UnusedInv
  <2>4. \A p \in EventQueues : \A s : BusyOn(p, s)' => BusyOn(p, s) /\ thread'[p] = thread[p]
    BY DEF BusyOn
  <2>5. \A p \in EventQueues : \A s : HandlesConnection(p, s)' => HandlesConnection(p, s) /\ s # r
    BY <2>3, <2>4 DEF HandlesConnection, Unused
  <2>6. UnusedInv'
    <3>1. \A s \in Rpcs : call'[s] = "none" => call[s] = "none"
      BY <2>2
    <3> QED BY <2>0, <2>2, <2>4, <3>1, <1>UnusedStep
  <2>7. LabelsInv'
    <3> SUFFICES ASSUME NEW p \in EventQueues, Busy(p)' PROVE LabelOK(p)'
      BY DEF LabelsInv, LabelOK
    <3>1. LabelOK(p) /\ Busy(p) /\ thread'[p] = thread[p]
      BY <2>0 DEF LabelsInv
    <3>2. thread[p].rpc \in Rpcs /\ thread[p].rpc # r
      BY <2>3, <3>1 DEF TypeInv, BusyHaveRpcs, Unused, BusyOn
    <3>3. method'[thread[p].rpc] = method[thread[p].rpc]
      BY <2>2, <3>2
    <3> QED BY <3>1, <3>3 DEF LabelOK
  <2>8. ConnectionTagsInv'
    <3> SUFFICES ASSUME NEW s \in Rpcs PROVE ConnectionTagOK(s)'
      BY DEF ConnectionTagsInv
    <3>1. CASE s = r
      <4>1. ~QueuedIn(queue, r, "NEW_CONNECTION")
        BY <2>3 DEF Unused, Queued, CqEvents
      <4> QED BY <2>2, <2>5, <3>1, <4>1 DEF ConnectionTagOK, Queued
    <3>2. CASE s # r
      <4>1. ConnectionTagOK(s)
        BY <2>0 DEF ConnectionTagsInv
      <4> QED BY <2>2, <2>5, <3>2, <4>1 DEF ConnectionTagOK, Outstanding, Queued
    <3> QED BY <3>1, <3>2
  <2>9. QueuedOnce'
    BY <2>0, <1>OnceFrame
  <2>10. ListenersInv'
    <3> SUFFICES ASSUME NEW n \in Methods, NEW d \in CompletionQueues, ServiceOf[n] \notin stopped
                 PROVE  ListenerOK(n, d)'
      BY DEF ListenersInv, ListenerOK
    <3>1. ListenerOK(n, d)
      BY <2>0 DEF ListenersInv
    <3>2. CASE n = m /\ d = c
      <4>1. r \in Listeners(m, c)'
        BY <2>2 DEF Listeners, RpcsFor
      <4>2. ASSUME NEW s \in Listeners(m, c)', s # r PROVE FALSE
        <5>1. s \in RpcsFor(m, c)' /\ IsListener(s)'
          BY DEF Listeners, RpcsFor, IsListener, HandlesConnection, BusyOn
        <5>2. s \in RpcsFor(m, c)
          BY <2>2, <4>2, <5>1 DEF RpcsFor
        <5> QED BY <3>2, <5>1, <5>2
      <4>3. Listeners(m, c)' = {r}
        BY <4>1, <4>2
      <4> QED BY <3>2, <4>3 DEF ListenerOK
    <3>3. CASE ~(n = m /\ d = c)
      <4>1. \A s \in Rpcs : s \in RpcsFor(n, d)' <=> s \in RpcsFor(n, d)
        BY <2>1, <2>2, <3>3 DEF RpcsFor
      <4>2. ASSUME NEW s \in RpcsFor(n, d) PROVE IsListener(s)' <=> IsListener(s)
        <5>1. s \in Rpcs /\ s # r /\ s \notin RpcsFor(m, c)
          BY <2>1, <3>3 DEF RpcsFor
        <5>2. IsListener(s)' => IsListener(s)
          BY <2>2, <2>5, <5>1 DEF IsListener
        <5> QED BY <5>1, <5>2
      <4> QED BY <3>1, <4>1, <4>2, <1>ListenerFrame
    <3> QED BY <3>2, <3>3
  <2>11. FinishInv'
    BY <2>0, <2>2 DEF FinishInv
  <2>12. NoStuckResponse'
    <3>1. ASSUME NEW s \in active_rpcs', s # r
          PROVE  s \in active_rpcs /\ (Moves(s) => Moves(s)')
      <4>1. s \in active_rpcs /\ s \in Rpcs
        BY <2>1, <3>1 DEF TypeInv, TypeOK, RpcTypeOK
      <4>2. pending'[s] = pending[s]
        BY <2>2, <3>1, <4>1
      <4> QED BY <4>1, <4>2 DEF Moves, Queued
    <3>2. send_queue'[r] = <<>>
      BY <2>3 DEF Unused
    <3> QED BY <2>0, <3>1, <3>2, <1>StuckStep
  <2> QED BY <2>6, <2>7, <2>8, <2>9, <2>10, <2>11, <2>12 DEF ServingInv
\* One iteration of Service::StartServing.
<1>StartServingServing. ASSUME TypeInv, ServingInv, StartServing
      PROVE  ServingInv'
  <2> USE <1>StartServingServing
  <2>1. PICK r \in Rpcs, m \in Methods, c \in CompletionQueues :
          /\ RpcsFor(m, c) = {}
          /\ Construct(r, m, c, current_event_queue_id', current_event_queue_id')
          /\ Add(r)
          /\ RequestNextMethodInvocation(r, c)
    BY DEF StartServing
  <2>2. UNCHANGED <<status_sent, send_queue, queue, stopped, writer, main, thread>>
    BY DEF StartServing
  <2>3. \A p \in EventQueues : Busy(p)' => Busy(p) /\ thread'[p] = thread[p]
    BY <2>2 DEF Busy
  <2>4. ASSUME NEW s \in Rpcs, IsListener(s) PROVE s = r \/ IsListener(s)'
    <3>1. s # r => pending'[s] = pending[s]
      BY <2>1 DEF RequestNextMethodInvocation, TypeInv, TypeOK, RpcTypeOK
    <3> QED BY <2>2, <2>4, <3>1 DEF IsListener, HandlesConnection, BusyOn, Busy
  <2> QED BY <2>1, <2>2, <2>3, <2>4, <1>CreateServing
\* The end of HandleNewConnection: the new Rpc listens in place of the one that
\* thread q has handled.
<1>CloneServing. ASSUME TypeInv, ServingInv, NEW q \in EventQueues, Clone(q), UNCHANGED main
      PROVE  ServingInv'
  <2> USE <1>CloneServing
  <2>0. PICK r \in Rpcs : r = thread[q].rpc /\ BusyOn(q, r)
    BY DEF Clone, At, Busy, BusyOn, TypeInv, BusyHaveRpcs
  <2>1. PICK m \in Methods, c \in CompletionQueues : m = method[r] /\ c = cq[r]
    BY DEF TypeInv, TypeOK, GrpcTypeOK, RpcTypeOK
  <2>2. PICK new \in Rpcs :
          /\ Construct(new, m, c, event_queue[r], current_event_queue_id')
          /\ Add(new)
          /\ RequestNextMethodInvocation(new, c)
    BY <2>0, <2>1 DEF Clone, CloneTo
  <2>3. /\ thread[q].pc = "Clone" /\ Return(q)
        /\ UNCHANGED <<status_sent, send_queue, queue, stopped, writer>>
    BY DEF Clone, At
  <2>4. ~Busy(q)' /\ \A p \in EventQueues : p # q => thread'[p] = thread[p]
    BY <2>3, ReturnThreads
  <2>5. /\ \A p \in EventQueues : Busy(p)' => Busy(p) /\ thread'[p] = thread[p]
        /\ \A p \in EventQueues : thread[p].pc \in {"HandleSendQueue", "Perform"} =>
             thread'[p] = thread[p]
    BY <2>3, <2>4 DEF Busy
  <2>6. /\ HandlesConnection(q, r) /\ call[r] # "none" /\ r \in RpcsFor(m, c)
        /\ "NEW_CONNECTION" \notin pending[r]
        /\ \A p \in EventQueues : HandlesConnection(p, r) => p = q
    <3>1. HandlesConnection(q, r)
      BY <2>0, <2>3 DEF HandlesConnection, BusyOn, ServingInv, LabelsInv, LabelOK
    <3>2. call[r] # "none"
      BY <2>0 DEF ServingInv, UnusedInv, Unused
    <3>3. r \in RpcsFor(m, c)
      BY <2>1, <3>2 DEF RpcsFor
    <3> QED BY <3>1, <3>2, <3>3 DEF ServingInv, ConnectionTagsInv, ConnectionTagOK
  <2>7. call[new] = "none" /\ \A s \in Rpcs : s # new => pending'[s] = pending[s]
    BY <2>2 DEF Construct, RequestNextMethodInvocation, TypeInv, TypeOK, RpcTypeOK
  <2>8. \A p \in EventQueues : \A s : HandlesConnection(p, s)' <=> HandlesConnection(p, s) /\ p # q
    BY <2>4 DEF HandlesConnection, BusyOn, Busy
  <2>9. ~IsListener(r)'
    BY <2>6, <2>7, <2>8 DEF IsListener
  <2>10. ASSUME NEW s \in Rpcs, IsListener(s)
         PROVE  s = new \/ IsListener(s)' \/ s \in RpcsFor(m, c)
    <3>1. CASE "NEW_CONNECTION" \in pending[s]
      BY <2>7, <3>1 DEF IsListener
    <3>2. ASSUME NEW p \in EventQueues, HandlesConnection(p, s)
          PROVE  IsListener(s)' \/ s \in RpcsFor(m, c)
      <4>1. p = q => s = r
        BY <2>0, <3>2 DEF HandlesConnection, BusyOn
      <4> QED BY <2>6, <2>8, <3>2, <4>1 DEF IsListener
    <3> QED BY <2>10, <3>1, <3>2 DEF IsListener
  <2>11. ASSUME NEW s \in RpcsFor(m, c), ServiceOf[m] \notin stopped PROVE ~IsListener(s)'
    <3>1. s \in Rpcs /\ s # new
      BY <2>7 DEF RpcsFor
    <3>2. IsListener(s)' => IsListener(s)
      BY <2>7, <2>8, <3>1 DEF IsListener
    <3>3. ListenerOK(m, c) /\ RpcsFor(m, c) # {}
      BY <2>6 DEF ServingInv, ListenersInv
    <3>4. PICK t \in Rpcs : Listeners(m, c) = {t}
      BY <2>11, <3>3 DEF ListenerOK
    <3>5. r \in Listeners(m, c)
      BY <2>6, <1>ListenersOf DEF IsListener
    <3>6. IsListener(s) => s \in Listeners(m, c)
      BY <1>ListenersOf
    <3> QED BY <2>9, <3>2, <3>4, <3>5, <3>6
  <2> QED BY <2>2, <2>3, <2>5, <2>10, <2>11, <1>CreateServing
\* User code or the completion queue thread adds to the queues of r.
<1>PushServing. ASSUME TypeInv, ServingInv, NEW r \in Rpcs, call[r] # "none", NEW e,
             UNCHANGED <<call, cq, status_sent, method, pending, active_rpcs, stopped, thread, main>>,
             \A s \in Rpcs : s # r => ops'[s] = ops[s] /\ send_queue'[s] = send_queue[s],
             ops'[r] \subseteq ops[r],
             WritersKeep(r), QueuedOnce', QueuesGain(r, e),
             e = "NEW_CONNECTION" => "NEW_CONNECTION" \in pending[r] /\ "NEW_CONNECTION" \notin ops'[r],
             r \in active_rpcs' /\ send_queue'[r] # <<>> /\ r \notin status_sent' => Moves(r)'
      PROVE  ServingInv'
  <2> USE <1>PushServing
  <2>1. /\ UnusedInv /\ LabelsInv /\ ConnectionTagsInv /\ QueuedOnce /\ ListenersInv
        /\ FinishInv /\ NoStuckResponse
    BY DEF ServingInv
  <2>0. /\ \A w \in Writers : writer'[w].rpc = writer[w].rpc
        /\ \A w \in Writers : writer[w].rpc # r => writer'[w] = writer[w]
        /\ \A s, f : QueuedIn(queue, s, f) => QueuedIn(queue', s, f)
        /\ \A s, f : QueuedIn(queue', s, f) => QueuedIn(queue, s, f) \/ (s = r /\ f = e)
    BY DEF WritersKeep, QueuesGain
  <2>2. \A s : \A q \in EventQueues : /\ BusyOn(q, s)' <=> BusyOn(q, s)
                                      /\ HandlesConnection(q, s)' <=> HandlesConnection(q, s)
    BY DEF BusyOn, HandlesConnection, Busy
  <2>3. UnusedInv'
    <3>1. \A s \in Rpcs : s # r => \A f : QueuedIn(queue', s, f) => QueuedIn(queue, s, f)
      BY <2>0
    <3> QED BY <2>0, <2>1, <2>2, <3>1, <1>UnusedStep
  <2>4. LabelsInv'
    BY <2>1 DEF LabelsInv, LabelOK, Busy
  <2>5. ConnectionTagsInv'
    <3> SUFFICES ASSUME NEW s \in Rpcs PROVE ConnectionTagOK(s)'
      BY DEF ConnectionTagsInv
    <3>1. ConnectionTagOK(s)
      BY <2>1 DEF ConnectionTagsInv
    <3>2. "NEW_CONNECTION" \in ops'[s] => "NEW_CONNECTION" \in ops[s]
      OBVIOUS
    <3>3. CASE s = r /\ e = "NEW_CONNECTION"
      BY <2>2, <3>1, <3>3 DEF ConnectionTagOK
    <3>4. CASE ~(s = r /\ e = "NEW_CONNECTION")
      <4>1. QueuedIn(queue', s, "NEW_CONNECTION") => QueuedIn(queue, s, "NEW_CONNECTION")
        BY <2>0, <3>4
      <4> QED BY <2>2, <3>1, <3>2, <4>1 DEF ConnectionTagOK, Outstanding, Queued
    <3> QED BY <3>3, <3>4
  <2>6. ListenersInv'
    <3>1. \A s \in Rpcs : IsListener(s)' <=> IsListener(s)
      BY <2>2 DEF IsListener
    <3> QED BY <2>1, <3>1, <1>ListenersFrame
  <2>7. FinishInv'
    BY <2>1 DEF FinishInv
  <2>8. NoStuckResponse'
    <3>1. ASSUME NEW s \in active_rpcs', s # r
          PROVE  s \in active_rpcs /\ send_queue'[s] = send_queue[s] /\ (Moves(s) => Moves(s)')
      <4>1. s \in active_rpcs /\ s \in Rpcs
        BY DEF TypeInv, TypeOK, RpcTypeOK
      <4>2. ASSUME NEW w \in Writers, writer[w] = [pc |-> "enqueued", rpc |-> s]
            PROVE  writer'[w] = writer[w]
        <5>1. [pc |-> "enqueued", rpc |-> s].rpc = s
          OBVIOUS
        <5> QED BY <2>0, <3>1, <4>2, <5>1
      <4> QED BY <2>0, <3>1, <4>1, <4>2 DEF Moves, Queued
    <3> QED BY <2>1, <3>1, <1>StuckStep
  <2> QED BY <2>3, <2>4, <2>5, <2>6, <2>7, <2>8 DEF ServingInv
\* Only the Writer w changes, and it keeps its Rpc.
<1>WriterThreads. ASSUME TypeInv, NEW w \in Writers, NEW pc, writer' = [writer EXCEPT ![w].pc = pc]
      PROVE  /\ \A v \in Writers : writer'[v].rpc = writer[v].rpc
             /\ \A v \in Writers : v # w => writer'[v] = writer[v]
             /\ writer'[w] = [pc |-> pc, rpc |-> writer[w].rpc]
  <2> USE <1>WriterThreads
  <2> DEFINE WriterType == [pc : {"idle", "enqueued"}, rpc : Rpcs \cup {NoRpc}]
  <2>1. writer \in [Writers -> WriterType]
    BY DEF TypeInv, TypeOK, ServiceTypeOK
  <2>2. writer'[w] = [writer[w] EXCEPT !.pc = pc] /\ \A v \in Writers : v # w => writer'[v] = writer[v]
    BY <2>1
  <2>3. writer[w] \in WriterType
    BY <2>1
  <2>4. writer'[w] = [pc |-> pc, rpc |-> writer[w].rpc]
    BY SMT, <2>2, <2>3
  <2> QED BY SMT, <2>2, <2>4
\* The WRITE_NEEDED event that a sent item needs is pushed.
<1>WriteNeededServing. ASSUME TypeInv, QueuedOnce, NEW r \in Rpcs, PushWriteNeeded(r)
      PROVE  QueuedOnce' /\ Moves(r)' /\ QueuesGain(r, "WRITE_NEEDED")
  <2> USE <1>WriteNeededServing
  <2>1. event_queue[r] \in EventQueues /\ Push(event_queue[r], "WRITE_NEEDED", r, TRUE)
    BY DEF PushWriteNeeded, TypeInv, TypeOK, RpcTypeOK
  <2>2. QueuedOnce'
    BY <2>1, <1>PushOnce
  <2>3. \A s, f : QueuedIn(queue', s, f) <=> QueuedIn(queue, s, f) \/ (s = r /\ f = "WRITE_NEEDED")
    BY <2>1, PushQueued
  <2> QED BY <2>2, <2>3 DEF Moves, Queued, QueuesGain
\* RpcHandler::Send and RpcHandler::Finish in a callback.
<1>HandlerSendServing. ASSUME TypeInv, ServingInv, NEW q \in EventQueues, NEW msg \in BOOLEAN, HandlerSend(q, msg),
             UNCHANGED main
      PROVE  ServingInv'
  <2> USE <1>HandlerSendServing
  <2>0. PICK r \in Rpcs : r = thread[q].rpc /\ BusyOn(q, r)
    BY DEF HandlerSend, At, Callbacks, Busy, BusyOn, TypeInv, BusyHaveRpcs
  <2>1. /\ UNCHANGED <<call, cq, ops, status_sent, method, pending, active_rpcs, stopped, thread, writer>>
        /\ EnqueueMessage(r, msg) /\ PushWriteNeeded(r)
    BY <2>0 DEF HandlerSend
  <2>2. call[r] # "none"
    BY <2>0 DEF ServingInv, UnusedInv, Unused
  <2>3. \A s \in Rpcs : s # r => send_queue'[s] = send_queue[s]
    BY <2>1 DEF EnqueueMessage, TypeInv, TypeOK, RpcTypeOK
  <2>4. QueuedOnce' /\ Moves(r)' /\ QueuesGain(r, "WRITE_NEEDED")
    BY <2>1, <1>WriteNeededServing DEF ServingInv
  <2>5. "WRITE_NEEDED" # "NEW_CONNECTION"
    OBVIOUS
  <2>6. WritersKeep(r)
    BY <2>1 DEF WritersKeep
  <2> QED BY <2>1, <2>2, <2>3, <2>4, <2>5, <2>6, <1>PushServing
\* Writer::Write, WritesDone and Finish: the rest of the call, which pushes the event.
<1>WriterPushServing. ASSUME TypeInv, ServingInv, NEW w \in Writers, WriterPush(w), UNCHANGED main
      PROVE  ServingInv'
  <2> USE <1>WriterPushServing
  <2>0. PICK r \in Rpcs : r = writer[w].rpc
    BY DEF WriterPush, TypeInv, BusyHaveRpcs
  <2>1. /\ UNCHANGED <<call, cq, ops, status_sent, method, pending, active_rpcs, stopped, thread,
                       send_queue>>
        /\ PushWriteNeeded(r) /\ writer' = [writer EXCEPT ![w].pc = "idle"]
    BY <2>0 DEF WriterPush
  <2>2. call[r] # "none"
    BY <2>0 DEF ServingInv, UnusedInv, Unused
  <2>3. WritersKeep(r)
    BY <2>0, <2>1, <1>WriterThreads DEF WritersKeep
  <2>4. QueuedOnce' /\ Moves(r)' /\ QueuesGain(r, "WRITE_NEEDED")
    BY <2>1, <1>WriteNeededServing DEF ServingInv
  <2>5. "WRITE_NEEDED" # "NEW_CONNECTION"
    OBVIOUS
  <2>6. /\ \A s \in Rpcs : s # r => ops'[s] = ops[s] /\ send_queue'[s] = send_queue[s]
        /\ ops'[r] \subseteq ops[r]
    BY <2>1
  <2>8. UNCHANGED <<call, cq, status_sent, method, pending, active_rpcs, stopped, thread, main>>
    BY <2>1
  <2> QED BY <2>8, <2>2, <2>3, <2>4, <2>5, <2>6, <1>PushServing
\* The first half of those calls: the Writer is going to push the event.
<1>WriterEnqueueServing. ASSUME TypeInv, ServingInv, NEW w \in Writers, NEW msg \in BOOLEAN, WriterEnqueue(w, msg),
             UNCHANGED main
      PROVE  ServingInv'
  <2> USE <1>WriterEnqueueServing
  <2>0. PICK r \in Rpcs : r = writer[w].rpc
    <3>1. writer[w].rpc \in Rpcs \cup {NoRpc}
      BY SMT DEF TypeInv, TypeOK, ServiceTypeOK
    <3> QED BY <3>1 DEF WriterEnqueue
  <2>1. /\ UNCHANGED <<call, cq, ops, status_sent, method, pending, active_rpcs, stopped, thread,
                       queue>>
        /\ EnqueueMessage(r, msg) /\ writer' = [writer EXCEPT ![w].pc = "enqueued"]
    BY <2>0 DEF WriterEnqueue, grpcVars
  <2>2. call[r] # "none" /\ QueuedOnce'
    <3>1. call[r] # "none"
      BY <2>0 DEF ServingInv, UnusedInv, Unused
    <3>2. QueuedOnce
      BY DEF ServingInv
    <3>3. queue' = queue
      BY <2>1
    <3>4. QueuedOnce'
      BY <3>2, <3>3, <1>OnceFrame
    <3> QED BY <3>1, <3>4
  <2>3. \A s \in Rpcs : s # r => send_queue'[s] = send_queue[s]
    BY <2>1 DEF EnqueueMessage, TypeInv, TypeOK, RpcTypeOK
  <2>4. WritersKeep(r) /\ writer'[w] = [pc |-> "enqueued", rpc |-> r]
    BY <2>0, <2>1, <1>WriterThreads DEF WritersKeep
  <2>5. Moves(r)'
    BY <2>4 DEF Moves
  <2>6. /\ \A s \in Rpcs : s # r => ops'[s] = ops[s] /\ send_queue'[s] = send_queue[s]
        /\ ops'[r] \subseteq ops[r]
    BY <2>1, <2>3
  <2>7. "WRITE_NEEDED" # "NEW_CONNECTION"
    OBVIOUS
  <2>8. UNCHANGED <<call, cq, status_sent, method, pending, active_rpcs, stopped, thread, main>>
    BY <2>1
  <2>9. QueuesGain(r, "WRITE_NEEDED")
    BY <2>1 DEF QueuesGain
  <2> QED BY <2>8, <2>9, <2>2, <2>3, <2>4, <2>5, <2>6, <2>7, <1>PushServing
\* The completion queue thread takes a tag from gRPC and pushes its event.
<1>RunCompletionQueueServing. ASSUME TypeInv, ServingInv, NEW r \in Rpcs, NEW e \in CqEvents, NEW ok \in BOOLEAN,
             RunCompletionQueue(r, e, ok)
      PROVE  ServingInv'
  <2> USE <1>RunCompletionQueueServing
  <2>1. /\ UNCHANGED <<call, cq, status_sent, method, pending, send_queue, active_rpcs, stopped,
                       thread, writer, main>>
        /\ e \in ops[r] /\ ops' = [ops EXCEPT ![r] = @ \ {e}]
        /\ \/ Destroyed(r) /\ queue' = queue
           \/ Push(events_queue[r], e, r, ok)
    BY DEF RunCompletionQueue, MayReturn, serviceVars
  <2>2. /\ UnusedInv /\ ConnectionTagsInv /\ QueuedOnce /\ NoStuckResponse
    BY DEF ServingInv
  <2>3. call[r] # "none"
    BY <2>1, <2>2 DEF UnusedInv, Unused
  <2>4. /\ ops'[r] = ops[r] \ {e}
        /\ \A s \in Rpcs : s # r => ops'[s] = ops[s]
    BY <2>1 DEF TypeInv, TypeOK, GrpcTypeOK
  <2>5. /\ \A s \in Rpcs : s # r => ops'[s] = ops[s] /\ send_queue'[s] = send_queue[s]
        /\ ops'[r] \subseteq ops[r]
        /\ e = "NEW_CONNECTION" => "NEW_CONNECTION" \in pending[r] /\ "NEW_CONNECTION" \notin ops'[r]
        /\ e = "NEW_CONNECTION" => ~Queued(r, e)
    BY <2>1, <2>2, <2>4 DEF ConnectionTagsInv, ConnectionTagOK, Outstanding
  <2>6. WritersKeep(r)
    BY <2>1 DEF WritersKeep
  <2>7. QueuedOnce' /\ QueuesGain(r, e)
    <3>1. CASE queue' = queue
      BY <2>2, <3>1, <1>OnceFrame DEF QueuesGain
    <3>2. CASE Push(events_queue[r], e, r, ok)
      <4>1. events_queue[r] \in EventQueues
        BY DEF TypeInv, TypeOK, RpcTypeOK
      <4>2. e \in CqEvents \cup {"WRITE_NEEDED"}
        OBVIOUS
      <4>3. QueuedOnce'
        BY <2>2, <2>5, <3>2, <4>1, <4>2, <1>PushOnce
      <4>4. \A s, f : QueuedIn(queue', s, f) <=> QueuedIn(queue, s, f) \/ (s = r /\ f = e)
        BY <3>2, <4>1, <4>2, PushQueued
      <4> QED BY <4>3, <4>4 DEF QueuesGain
    <3> QED BY <2>1, <3>1, <3>2
  <2>8. r \in active_rpcs' /\ send_queue'[r] # <<>> /\ r \notin status_sent' => Moves(r)'
    <3> SUFFICES ASSUME r \in active_rpcs, send_queue[r] # <<>>, r \notin status_sent PROVE Moves(r)'
      BY <2>1
    <3>1. Moves(r)
      BY <2>2 DEF NoStuckResponse, Moves
    <3>2. Queued(r, "WRITE_NEEDED") => QueuedIn(queue', r, "WRITE_NEEDED")
      BY <2>7 DEF QueuesGain, Queued
    <3> QED BY <2>1, <3>1, <3>2 DEF Moves, Queued
  <2>9. UNCHANGED <<call, cq, status_sent, method, pending, active_rpcs, stopped, thread, main>>
    BY <2>1
  <2> QED BY <2>3, <2>5, <2>6, <2>7, <2>8, <2>9, <1>PushServing
\* The event thread q pops an event e of r and begins to handle it.
<1>BeginServing. ASSUME TypeInv, ServingInv, NEW q \in EventQueues, ~Busy(q),
             queue[q] # <<>>, queue' = [queue EXCEPT ![q] = Tail(@)],
             NEW r \in Rpcs, NEW e, r = Head(queue[q]).rpc, e = Head(queue[q]).ev,
             UNCHANGED <<call, cq, ops, status_sent, method, send_queue, active_rpcs, stopped, writer, main>>,
             \A s \in Rpcs : s # r => pending'[s] = pending[s],
             \A f \in CqEvents : f \in pending'[r] <=> f \in pending[r] /\ f # e,
             \A p \in EventQueues : p # q => thread'[p] = thread[p],
             Busy(q)', thread'[q].rpc = r, thread'[q].ev = e, LabelOK(q)',
             e \in {"WRITE", "WRITE_NEEDED"} => thread'[q].pc = "HandleSendQueue"
      PROVE  ServingInv'
  <2> USE <1>BeginServing
  <2>1. /\ UnusedInv /\ LabelsInv /\ ConnectionTagsInv /\ QueuedOnce /\ ListenersInv
        /\ FinishInv /\ NoStuckResponse
    BY DEF ServingInv
  <2>2. /\ \A s, f : QueuedIn(queue', s, f) => QueuedIn(queue, s, f)
        /\ QueuedIn(queue, r, e)
    BY PopQueued
  <2>3. e \in CqEvents \cup {"WRITE_NEEDED"}
    <3>1. Head(queue[q]) \in Events
      BY PopType DEF TypeInv, TypeOK, RpcTypeOK
    <3> QED BY SMT, <3>1 DEF Events
  <2>4. call[r] # "none"
    BY <2>1, <2>2, <2>3 DEF UnusedInv, Unused, Queued
  <2>5. \A p \in EventQueues : \A s :
          BusyOn(p, s)' => (BusyOn(p, s) /\ p # q /\ thread'[p].ev = thread[p].ev) \/ (p = q /\ s = r)
    BY DEF BusyOn, Busy
  <2>6. \A p \in EventQueues : \A s :
          HandlesConnection(p, s)' <=>
            (HandlesConnection(p, s) \/ (p = q /\ s = r /\ e = "NEW_CONNECTION"))
    BY DEF HandlesConnection, BusyOn, Busy
  <2>7. UnusedInv'
    <3>1. ASSUME NEW s \in Rpcs, s # r, NEW p \in EventQueues, BusyOn(p, s)' PROVE BusyOn(p, s)
      BY SMT, <2>5, <3>1
    <3> QED BY <2>1, <2>2, <2>4, <3>1, <1>UnusedStep
  <2>8. LabelsInv'
    <3> SUFFICES ASSUME NEW p \in EventQueues, p # q PROVE LabelOK(p)'
      BY DEF LabelsInv
    <3>1. LabelOK(p) /\ thread'[p] = thread[p]
      BY <2>1 DEF LabelsInv
    <3> QED BY <3>1 DEF LabelOK, Busy
  <2>9. QueuedOnce' /\ (e = "NEW_CONNECTION" => ~QueuedIn(queue', r, "NEW_CONNECTION"))
    BY <2>1, <1>PopOnce
  <2>10. ConnectionTagsInv'
    <3> SUFFICES ASSUME NEW s \in Rpcs PROVE ConnectionTagOK(s)'
      BY DEF ConnectionTagsInv
    <3>1. ConnectionTagOK(s)
      BY <2>1 DEF ConnectionTagsInv
    <3>2. CASE s = r /\ e = "NEW_CONNECTION"
      <4>1. "NEW_CONNECTION" \notin ops[r] /\ "NEW_CONNECTION" \in pending[r]
        BY <2>2, <3>1, <3>2 DEF ConnectionTagOK, Outstanding, Queued
      <4>2. \A p \in EventQueues : ~HandlesConnection(p, r)
        BY <3>1, <3>2, <4>1 DEF ConnectionTagOK
      <4>3. "NEW_CONNECTION" \notin pending'[r]
        BY <3>2 DEF CqEvents
      <4>4. "NEW_CONNECTION" \notin ops'[r] /\ ~Queued(r, "NEW_CONNECTION")'
        BY <2>9, <3>2, <4>1 DEF Queued
      <4> QED BY <2>6, <3>2, <4>2, <4>3, <4>4 DEF ConnectionTagOK, Outstanding
    <3>3. CASE ~(s = r /\ e = "NEW_CONNECTION")
      <4>1. "NEW_CONNECTION" \in pending'[s] <=> "NEW_CONNECTION" \in pending[s]
        BY <3>3 DEF CqEvents
      <4>2. \A p \in EventQueues : HandlesConnection(p, s)' <=> HandlesConnection(p, s)
        BY <2>6, <3>3
      <4>3. QueuedIn(queue', s, "NEW_CONNECTION") => QueuedIn(queue, s, "NEW_CONNECTION")
        BY <2>2
      <4> QED BY <3>1, <4>1, <4>2, <4>3 DEF ConnectionTagOK, Outstanding, Queued
    <3> QED BY <3>2, <3>3
  <2>11. ListenersInv'
    <3>1. ASSUME NEW s \in Rpcs PROVE IsListener(s)' <=> IsListener(s)
      <4>1. CASE s = r /\ e = "NEW_CONNECTION"
        <5>1. IsListener(r)
          BY <2>1, <2>2, <4>1 DEF IsListener, ConnectionTagsInv, ConnectionTagOK, Outstanding,
             Queued
        <5>2. IsListener(r)'
          BY <2>6, <4>1 DEF IsListener
        <5> QED BY <4>1, <5>1, <5>2
      <4>2. CASE ~(s = r /\ e = "NEW_CONNECTION")
        <5>1. "NEW_CONNECTION" \in pending'[s] <=> "NEW_CONNECTION" \in pending[s]
          BY <4>2 DEF CqEvents
        <5> QED BY <2>6, <4>2, <5>1 DEF IsListener
      <4> QED BY <4>1, <4>2
    <3> QED BY <2>1, <3>1, <1>ListenersFrame
  <2>12. FinishInv'
    <3>1. \A s \in Rpcs : "FINISH" \in pending'[s] => "FINISH" \in pending[s]
      BY DEF CqEvents
    <3> QED BY <2>1, <3>1 DEF FinishInv
  <2>13. NoStuckResponse'
    <3>1. ASSUME NEW s \in active_rpcs', s # r \/ e \notin {"WRITE", "WRITE_NEEDED"}
          PROVE  s \in active_rpcs /\ (Moves(s) => Moves(s)')
      <4>1. s \in active_rpcs /\ s \in Rpcs
        BY DEF TypeInv, TypeOK, RpcTypeOK
      <4>2. "WRITE" \in pending[s] => "WRITE" \in pending'[s]
        BY <3>1, <4>1 DEF CqEvents
      <4>3. Queued(s, "WRITE_NEEDED") => QueuedIn(queue', s, "WRITE_NEEDED")
        BY <3>1, PopExact DEF Queued
      <4>4. \A p \in EventQueues : thread[p].pc \in {"HandleSendQueue", "Perform"} =>
              thread'[p] = thread[p]
        BY DEF Busy
      <4> QED BY <4>1, <4>2, <4>3, <4>4 DEF Moves, Queued
    <3>2. r \in active_rpcs' /\ send_queue'[r] # <<>> /\ r \notin status_sent' => Moves(r)'
      <4>1. CASE e \in {"WRITE", "WRITE_NEEDED"}
        BY <4>1 DEF Moves
      <4>2. CASE e \notin {"WRITE", "WRITE_NEEDED"}
        BY <2>1, <3>1, <4>2 DEF NoStuckResponse, Moves
      <4> QED BY <4>1, <4>2
    <3> QED BY <2>1, <3>1, <3>2, <1>StuckStep
  <2> QED BY <2>7, <2>8, <2>9, <2>10, <2>11, <2>12, <2>13 DEF ServingInv
\* InternalRpcEvent::Handle finds that the Rpc of the WRITE_NEEDED event is gone.
<1>DropServing. ASSUME TypeInv, ServingInv, NEW q \in EventQueues,
             queue[q] # <<>>, queue' = [queue EXCEPT ![q] = Tail(@)],
             Head(queue[q]).rpc \notin active_rpcs,
             UNCHANGED <<call, cq, ops, status_sent, method, pending, send_queue, active_rpcs, stopped,
                         thread, writer, main>>
      PROVE  ServingInv'
  <2> USE <1>DropServing
  <2>1. /\ UnusedInv /\ LabelsInv /\ ConnectionTagsInv /\ QueuedOnce /\ ListenersInv
        /\ FinishInv /\ NoStuckResponse
    BY DEF ServingInv
  <2>2. \A s, f : QueuedIn(queue', s, f) => QueuedIn(queue, s, f)
    BY PopQueued
  <2>3. \A s : \A p \in EventQueues : /\ BusyOn(p, s)' <=> BusyOn(p, s)
                                      /\ HandlesConnection(p, s)' <=> HandlesConnection(p, s)
    BY DEF BusyOn, HandlesConnection, Busy
  <2>4. UnusedInv'
    BY <2>1, <2>2, <2>3, NoRpcAssumption, <1>UnusedStep
  <2>5. LabelsInv'
    BY <2>1 DEF LabelsInv, LabelOK, Busy
  <2>6. ConnectionTagsInv'
    BY <2>1, <2>2, <2>3, <1>ConnectionTagsFrame
  <2>7. QueuedOnce'
    BY <2>1, <1>PopOnce
  <2>8. ListenersInv'
    <3>1. \A s \in Rpcs : IsListener(s)' <=> IsListener(s)
      BY <2>3 DEF IsListener
    <3> QED BY <2>1, <3>1, <1>ListenersFrame
  <2>9. FinishInv'
    BY <2>1 DEF FinishInv
  <2>10. NoStuckResponse'
    <3>1. ASSUME NEW s \in active_rpcs' PROVE s \in active_rpcs /\ (Moves(s) => Moves(s)')
      <4>1. s \in active_rpcs /\ s # Head(queue[q]).rpc
        OBVIOUS
      <4>2. Queued(s, "WRITE_NEEDED") => QueuedIn(queue', s, "WRITE_NEEDED")
        BY <4>1, PopExact DEF Queued
      <4> QED BY <4>1, <4>2 DEF Moves, Queued
    <3> QED BY <2>1, <3>1 DEF NoStuckResponse, Moves
  <2> QED BY <2>4, <2>5, <2>6, <2>7, <2>8, <2>9, <2>10 DEF ServingInv
\* The label at which the handling of a completion queue event begins.
<1>FirstLabelServing. ASSUME NEW q \in EventQueues, NEW r \in Rpcs, NEW ok \in BOOLEAN, NEW e \in CqEvents,
             NEW down \in ShuttingDownReads(r, ok),
             thread'[q] = [pc |-> FirstLabel(e, ok, down), ev |-> e, rpc |-> r, item |-> NoItem],
             UNCHANGED <<method, stopped>>
      PROVE  /\ Busy(q)' /\ thread'[q].rpc = r /\ thread'[q].ev = e /\ LabelOK(q)'
             /\ e = "WRITE" => thread'[q].pc = "HandleSendQueue"
  <2> USE <1>FirstLabelServing
  <2>1. down \in BOOLEAN /\ (down => ServiceOf[method[r]] \in stopped)
    BY DEF ShuttingDownReads
  <2>2. thread'[q].pc = FirstLabel(e, ok, down) /\ thread'[q].ev = e /\ thread'[q].rpc = r
    BY SMT
  <2>3. /\ e = "NEW_CONNECTION" => FirstLabel(e, ok, down) =
                                     IF down THEN "Remove" ELSE IF ok THEN "Initialize" ELSE "RemoveAndClone"
        /\ e = "READ" => FirstLabel(e, ok, down) = IF ok THEN "OnRequest" ELSE "OnReadsDone"
        /\ e = "WRITE" => FirstLabel(e, ok, down) = "HandleSendQueue"
        /\ e = "FINISH" => FirstLabel(e, ok, down) = "OnFinish"
        /\ e = "DONE" => FirstLabel(e, ok, down) = "RemoveIfNotPending"
    BY SMT DEF FirstLabel
  <2>4. CASE e = "NEW_CONNECTION"
    BY SMT, <2>1, <2>2, <2>3, <2>4 DEF LabelOK, Busy, ConnectionLabels
  <2>5. CASE e = "READ"
    BY SMT, <2>2, <2>3, <2>5 DEF LabelOK, Busy
  <2>6. CASE e \in {"WRITE", "FINISH", "DONE"}
    BY SMT, <2>2, <2>3, <2>6 DEF LabelOK, Busy
  <2> QED BY <2>2, <2>4, <2>5, <2>6 DEF CqEvents
\* CompletionQueueRpcEvent::Handle.
<1>CompletionQueueEventServing. ASSUME TypeInv, ServingInv, NEW q \in EventQueues, HandleCompletionQueueEvent(q), UNCHANGED main
      PROVE  ServingInv'
  <2> USE <1>CompletionQueueEventServing
  <2> DEFINE e == Head(queue[q])
  <2>1. /\ thread[q].pc = "idle" /\ queue[q] # <<>>
        /\ queue' = [queue EXCEPT ![q] = Tail(@)]
        /\ e.ev # "WRITE_NEEDED"
        /\ pending' = [pending EXCEPT ![e.rpc] = @ \ {e.ev}]
        /\ UNCHANGED <<call, cq, ops, status_sent, method, send_queue, active_rpcs, stopped, writer>>
    BY DEF HandleCompletionQueueEvent, grpcVars
  <2>2. PICK down \in ShuttingDownReads(e.rpc, e.ok) :
          thread' = [thread EXCEPT ![q] = [pc |-> FirstLabel(e.ev, e.ok, down), ev |-> e.ev,
                                           rpc |-> e.rpc, item |-> NoItem]]
    BY DEF HandleCompletionQueueEvent
  <2>3. e.rpc \in Rpcs /\ e.ev \in CqEvents /\ e.ok \in BOOLEAN
    <3>1. e \in Events
      BY <2>1, PopType DEF TypeInv, TypeOK, RpcTypeOK
    <3> QED BY SMT, <2>1, <3>1 DEF Events
  <2> HIDE DEF e
  <2>4. /\ thread'[q] = [pc |-> FirstLabel(e.ev, e.ok, down), ev |-> e.ev, rpc |-> e.rpc,
                         item |-> NoItem]
        /\ \A p \in EventQueues : p # q => thread'[p] = thread[p]
    BY <2>2 DEF TypeInv, TypeOK, ServiceTypeOK
  <2>5. /\ Busy(q)' /\ thread'[q].rpc = e.rpc /\ thread'[q].ev = e.ev /\ LabelOK(q)'
        /\ e.ev = "WRITE" => thread'[q].pc = "HandleSendQueue"
    <3>1. UNCHANGED <<method, stopped>>
      BY <2>1
    <3> QED BY SMT, <2>3, <2>4, <3>1, <1>FirstLabelServing
  <2>6. /\ \A s \in Rpcs : s # e.rpc => pending'[s] = pending[s]
        /\ pending'[e.rpc] = pending[e.rpc] \ {e.ev}
    BY <2>1, <2>3 DEF TypeInv, TypeOK, RpcTypeOK
  <2>7. \A f \in CqEvents : f \in pending'[e.rpc] <=> f \in pending[e.rpc] /\ f # e.ev
    BY <2>6
  <2>8. ~Busy(q) /\ (e.ev \in {"WRITE", "WRITE_NEEDED"} => thread'[q].pc = "HandleSendQueue")
    BY <2>1, <2>5 DEF Busy
  <2>9. e.rpc = Head(queue[q]).rpc /\ e.ev = Head(queue[q]).ev
    BY DEF e
  <2> QED BY <2>1, <2>3, <2>4, <2>5, <2>6, <2>7, <2>8, <2>9, <1>BeginServing
\* InternalRpcEvent::Handle.
<1>InternalEventServing. ASSUME TypeInv, ServingInv, NEW q \in EventQueues, HandleInternalEvent(q), UNCHANGED main
      PROVE  ServingInv'
  <2> USE <1>InternalEventServing
  <2> DEFINE e == Head(queue[q])
  <2>1. /\ thread[q].pc = "idle" /\ queue[q] # <<>>
        /\ queue' = [queue EXCEPT ![q] = Tail(@)]
        /\ e.ev = "WRITE_NEEDED"
        /\ UNCHANGED <<call, cq, ops, status_sent, method, pending, send_queue, active_rpcs, stopped,
                       writer>>
        /\ thread' = IF Destroyed(e.rpc) THEN thread
                     ELSE [thread EXCEPT ![q] = [pc |-> "HandleSendQueue", ev |-> e.ev,
                                                 rpc |-> e.rpc, item |-> NoItem]]
    BY DEF HandleInternalEvent, grpcVars
  <2>2. e.rpc \in Rpcs
    <3>1. e \in Events
      BY <2>1, PopType DEF TypeInv, TypeOK, RpcTypeOK
    <3> QED BY SMT, <3>1 DEF Events
  <2>3. CASE Destroyed(e.rpc)
    BY <2>1, <2>3, <1>DropServing DEF Destroyed
  <2>4. CASE ~Destroyed(e.rpc)
    <3>0. e.rpc = Head(queue[q]).rpc /\ e.ev = Head(queue[q]).ev
      OBVIOUS
    <3> HIDE DEF e
    <3>1. /\ thread'[q] = [pc |-> "HandleSendQueue", ev |-> e.ev, rpc |-> e.rpc, item |-> NoItem]
          /\ \A p \in EventQueues : p # q => thread'[p] = thread[p]
      BY <2>1, <2>4 DEF TypeInv, TypeOK, ServiceTypeOK
    <3>2. thread'[q].pc = "HandleSendQueue" /\ thread'[q].ev = e.ev /\ thread'[q].rpc = e.rpc
      BY SMT, <3>1
    <3>3. Busy(q)' /\ LabelOK(q)' /\ ~Busy(q)
      BY <2>1, <3>2 DEF Busy, LabelOK
    <3>4. \A f \in CqEvents : f \in pending'[e.rpc] <=> f \in pending[e.rpc] /\ f # e.ev
      BY <2>1 DEF CqEvents
    <3> QED BY <2>1, <2>2, <3>0, <3>1, <3>2, <3>3, <3>4, <1>BeginServing
  <2> QED BY <2>3, <2>4
\* What the thread that owns the Server does after StartServing, and the client.
<1>OwnerServing. ASSUME TypeInv, ServingInv,
             \/ UNCHANGED vars
             \/ StartThreads \/ Shutdown \/ GrpcServerIsDown \/ CompletionQueuesJoined
             \/ EventQueuesJoined \/ ShutdownGrpcServer
             \/ \E s \in Services : StopService(s)
             \/ \E c \in CompletionQueues : ShutdownCompletionQueue(c)
             \/ \E q \in EventQueues : UseAfterFree(q) /\ UNCHANGED main
      PROVE  ServingInv'
  <2> USE <1>OwnerServing
  <2>1. /\ UNCHANGED <<cq, status_sent, method, pending, send_queue, active_rpcs, queue, call, ops,
                       thread, writer>>
        /\ stopped \subseteq stopped'
    BY DEF vars, grpcVars, rpcVars, serviceVars, StartThreads, Shutdown, GrpcServerIsDown,
       CompletionQueuesJoined, EventQueuesJoined, ShutdownGrpcServer, StopService, StopServing,
       ShutdownCompletionQueue, UseAfterFree
  <2>2. main = "starting" =>
          main' = "starting" \/ \A m \in Methods, c \in CompletionQueues : RpcsFor(m, c) # {}
    BY DEF vars, StartThreads, Shutdown, GrpcServerIsDown, CompletionQueuesJoined,
       EventQueuesJoined, ShutdownGrpcServer, StopService, ShutdownCompletionQueue
  <2>3. NoRpc \in Rpcs \cup {NoRpc} /\ NoRpc \notin Rpcs
    BY NoRpcAssumption
  <2> QED BY <2>1, <2>2, <2>3, <1>FrameServing
\* A client calls, or its call is over.
<1>ClientStepServing. ASSUME TypeInv, ServingInv, NEW r \in Rpcs, ClientStep(r)
      PROVE  ServingInv'
  <2> USE <1>ClientStepServing
  <2>1. /\ UNCHANGED <<cq, status_sent, method, pending, send_queue, active_rpcs, queue, thread,
                       writer, stopped, main>>
        /\ call[r] \in {"requested", "open"}
        /\ \E state \in {"open", "closed"} : call' = [call EXCEPT ![r] = state]
        /\ ops' = ops \/ ops' = [ops EXCEPT ![r] = @ \cup {"DONE"}]
    BY DEF ClientStep, ClientCall, CallCloses, rpcVars, serviceVars
  <2>2. \A s \in Rpcs : call'[s] = "none" <=> call[s] = "none"
    BY <2>1 DEF TypeInv, TypeOK, GrpcTypeOK
  <2>3. \A s \in Rpcs : ops'[s] = ops[s] \/ (s = r /\ ops'[s] = ops[s] \cup {"DONE"})
    BY <2>1 DEF TypeInv, TypeOK, GrpcTypeOK
  <2>4. /\ \A s \in Rpcs : "NEW_CONNECTION" \in ops'[s] <=> "NEW_CONNECTION" \in ops[s]
        /\ \A s \in Rpcs : call[s] = "none" => ops'[s] = ops[s]
    <3>1. call[r] # "none"
      BY <2>1
    <3>2. \A s \in Rpcs : "NEW_CONNECTION" \in ops'[s] <=> "NEW_CONNECTION" \in ops[s]
      BY SMT, <2>3
    <3> QED BY <2>3, <3>1, <3>2
  <2>5. /\ UNCHANGED <<cq, status_sent, method, pending, send_queue, active_rpcs, queue>>
        /\ UNCHANGED <<thread, writer, main>> /\ stopped \subseteq stopped'
    BY <2>1
  <2>6. NoRpc \in Rpcs \cup {NoRpc} /\ NoRpc \notin Rpcs
    BY NoRpcAssumption
  <2> QED BY <2>2, <2>4, <2>5, <2>6, <1>FrameServing
\* An event thread returns.
<1>EventThreadReturnsServing. ASSUME TypeInv, ServingInv, NEW q \in EventQueues, EventThreadReturns(q)
      PROVE  ServingInv'
  <2> USE <1>EventThreadReturnsServing
  <2>1. /\ UNCHANGED <<cq, status_sent, method, pending, send_queue, active_rpcs, queue, call, ops,
                       writer, stopped, main>>
        /\ thread[q].pc = "idle" /\ Goto(q, "exited")
    BY DEF EventThreadReturns, grpcVars, rpcVars
  <2>2. thread'[q].pc = "exited" /\ \A p \in EventQueues : p # q => thread'[p] = thread[p]
    BY <2>1, GotoThreads DEF Labels
  <2>3. \A p \in EventQueues : Busy(p)' \/ Busy(p) => thread'[p] = thread[p]
    BY <2>1, <2>2 DEF Busy
  <2>4. NoRpc \in Rpcs \cup {NoRpc} /\ NoRpc \notin Rpcs
    BY NoRpcAssumption
  <2> QED BY <2>1, <2>3, <2>4, <1>FrameServing
\* RpcHandler::GetWriter.
<1>GetWriterServing. ASSUME TypeInv, ServingInv, NEW q \in EventQueues, NEW w \in Writers, GetWriter(q, w),
             UNCHANGED main
      PROVE  ServingInv'
  <2> USE <1>GetWriterServing
  <2>0. PICK r \in Rpcs : r = thread[q].rpc /\ BusyOn(q, r)
    BY DEF GetWriter, At, Callbacks, Busy, BusyOn, TypeInv, BusyHaveRpcs
  <2>1. /\ UNCHANGED <<cq, status_sent, method, pending, send_queue, active_rpcs, queue, call, ops,
                       thread, stopped>>
        /\ writer[w].rpc = NoRpc /\ writer' = [writer EXCEPT ![w].rpc = r]
    BY <2>0 DEF GetWriter, rpcVars
  <2>2. writer[w].pc # "enqueued"
    BY <2>1, NoRpcAssumption DEF TypeInv, BusyHaveRpcs
  <2>3. writer'[w].rpc = r /\ \A v \in Writers : v # w => writer'[v] = writer[v]
    BY SMT, <2>1 DEF TypeInv, TypeOK, ServiceTypeOK
  <2>4. \A v \in Writers : writer'[v] = writer[v] \/ (writer[v].pc # "enqueued" /\ writer'[v].rpc = r)
    BY <2>2, <2>3
  <2>5. r \in Rpcs \cup {NoRpc} /\ call[r] # "none"
    BY <2>0 DEF ServingInv, UnusedInv, Unused
  <2>6. /\ UNCHANGED <<cq, status_sent, method, pending, send_queue, active_rpcs, queue>>
        /\ UNCHANGED <<call, ops, thread, main>> /\ stopped \subseteq stopped'
    BY <2>1
  <2> QED BY <2>4, <2>5, <2>6, <1>FrameServing
<1> SUFFICES ASSUME TypeInv, ServingInv, [Next]_vars
             PROVE  ServingInv'
  OBVIOUS
<1>1. CASE \/ UNCHANGED vars
           \/ StartThreads \/ Shutdown \/ GrpcServerIsDown \/ CompletionQueuesJoined
           \/ EventQueuesJoined \/ ShutdownGrpcServer
           \/ \E s \in Services : StopService(s)
           \/ \E c \in CompletionQueues : ShutdownCompletionQueue(c)
  BY <1>1, <1>OwnerServing
<1>2. CASE StartServing
  BY <1>2, <1>StartServingServing
<1>3. ASSUME NEW q \in EventQueues, HandleEvent(q) PROVE ServingInv'
  BY <1>3, <1>InternalEventServing, <1>CompletionQueueEventServing DEF HandleEvent
<1>4. ASSUME NEW q \in EventQueues, UseAfterFree(q), UNCHANGED main PROVE ServingInv'
  BY <1>4, <1>OwnerServing
<1>5. ASSUME NEW q \in EventQueues, ServiceStep(q) PROVE ServingInv'
  BY <1>4, <1>5, <1>HandleSendQueueServing, <1>PerformServing, <1>ReadServing, <1>CloneServing,
     <1>RemoveServing, <1>CallbackReturnsServing DEF ServiceStep
<1>6. ASSUME NEW q \in EventQueues, CallbackStep(q) PROVE ServingInv'
  BY <1>6, <1>HandlerSendServing, <1>GetWriterServing DEF CallbackStep
<1>7. ASSUME NEW q \in EventQueues, EventThreadReturns(q) PROVE ServingInv'
  BY <1>7, <1>EventThreadReturnsServing
<1>8. ASSUME NEW w \in Writers, WriterStep(w) PROVE ServingInv'
  BY <1>8, <1>WriterPushServing, <1>WriterEnqueueServing DEF WriterStep
<1>9. ASSUME NEW r \in Rpcs, ClientStep(r) PROVE ServingInv'
  BY <1>9, <1>ClientStepServing
<1>10. ASSUME NEW r \in Rpcs, NEW e \in CqEvents, NEW ok \in BOOLEAN, RunCompletionQueue(r, e, ok)
       PROVE  ServingInv'
  BY <1>10, <1>RunCompletionQueueServing
<1> QED
  BY <1>1, <1>2, <1>3, <1>5, <1>6, <1>7, <1>8, <1>9, <1>10
     DEF Next, Step, Stopped, MainStep

\* Before Server::Start nothing exists.
LEMMA InitServingInv == Init => ServingInv
<1> SUFFICES ASSUME Init PROVE ServingInv
  OBVIOUS
<1>1. /\ main = "starting" /\ active_rpcs = {}
      /\ \A q \in EventQueues : thread[q].pc = "idle" /\ queue[q] = <<>>
      /\ \A r \in Rpcs : call[r] = "none" /\ ops[r] = {} /\ send_queue[r] = <<>> /\ pending[r] = {}
      /\ \A w \in Writers : writer[w].rpc = NoRpc
  BY DEF Init, GrpcInit, RpcInit, ServiceInit, Idle
<1>2. \A q \in EventQueues : \A i : i \notin 1 .. Len(queue[q])
  BY SMT, <1>1
<1>3. /\ \A r, e : ~QueuedIn(queue, r, e)
      /\ \A q \in EventQueues : ~Busy(q)
  BY <1>1, <1>2 DEF QueuedIn, Busy
<1>4. UnusedInv /\ LabelsInv /\ ConnectionTagsInv /\ FinishInv /\ NoStuckResponse
  BY <1>1, <1>3, NoRpcAssumption
     DEF UnusedInv, Unused, LabelsInv, LabelOK, ConnectionTagsInv, ConnectionTagOK, FinishInv,
         NoStuckResponse, BusyOn, HandlesConnection, Outstanding, Queued
<1>5. QueuedOnce
  BY SMT, <1>2 DEF QueuedOnce
<1>6. ListenersInv
  BY <1>1 DEF ListenersInv, ListenerOK, RpcsFor
<1> QED BY <1>4, <1>5, <1>6 DEF ServingInv

\* One listener is a set of cardinality one, by the definition of Cardinality.
LEMMA CardinalityOfOne ==
  ASSUME NEW r
  PROVE  Cardinality({r}) = 1
<1> DEFINE CS[T \in SUBSET {r}] == IF T = {} THEN 0 ELSE 1 + CS[T \ {CHOOSE x : x \in T}]
           F == [T \in SUBSET {r} |-> IF T = {} THEN 0 ELSE 1]
<1>1. Cardinality({r}) = CS[{r}]
  BY SMT DEF Cardinality
<1>2. F = [T \in SUBSET {r} |-> IF T = {} THEN 0 ELSE 1 + F[T \ {CHOOSE x : x \in T}]]
  <2>1. \A T \in SUBSET {r} : T = {} \/ (T = {r} /\ T \ {CHOOSE x : x \in T} = {})
    BY SMT
  <2> QED BY SMT, <2>1
<1>3. CS = [T \in SUBSET {r} |-> IF T = {} THEN 0 ELSE 1 + CS[T \ {CHOOSE x : x \in T}]]
  <2> HIDE DEF F
  <2> QED BY <1>2
<1> HIDE DEF CS
<1>4. CS[{}] = 0 /\ CS[{r}] = 1 + CS[{r} \ {CHOOSE x : x \in {r}}]
  BY SMT, <1>3
<1>5. {r} \ {CHOOSE x : x \in {r}} = {}
  BY SMT
<1> QED BY SMT, <1>1, <1>4, <1>5

\* The inductive invariant holds of every behaviour of the server.
THEOREM ServingInvariance == Spec => [](TypeInv /\ ServingInv)
<1>1. Init => TypeInv /\ ServingInv
  BY SMT, InitTypeOK, InitServingInv DEF TypeInv, BusyHaveRpcs, Init, ServiceInit, Idle, Busy
<1>2. TypeInv /\ ServingInv /\ [Next]_vars => (TypeInv /\ ServingInv)'
  BY NextTypeInv, NextServingInv
<1> QED BY <1>1, <1>2, PTL DEF Spec

\* A response that user code has put into the send queue of an active Rpc never
\* waits for an event that will not come: HandleSendQueue, Write and the handling
\* of WRITE hand the work on in every interleaving, with any number of threads,
\* queues and Writers, misbehaving user code included.
THEOREM ResponsesAreNotStuck == Spec => []NoStuckResponse
<1>1. TypeInv /\ ServingInv => NoStuckResponse
  BY DEF ServingInv
<1> QED BY <1>1, ServingInvariance, PTL

\* Until its service is stopped, every method has exactly one listener on every
\* completion queue: HandleNewConnection clones the Rpc once, for a call and for a
\* request that failed.
THEOREM MethodsKeepOneListener == Spec => []OneListener
<1>1. TypeInv /\ ServingInv => OneListener
  <2> SUFFICES ASSUME ListenersInv, main # "starting", NEW m \in Methods,
                      NEW c \in CompletionQueues, ServiceOf[m] \notin stopped
               PROVE  Cardinality(Listeners(m, c)) = 1
    BY DEF ServingInv, OneListener
  <2>1. PICK r \in Rpcs : Listeners(m, c) = {r}
    BY DEF ListenersInv, ListenerOK
  <2> QED BY <2>1, CardinalityOfOne
<1> QED BY <1>1, ServingInvariance, PTL
=============================================================================
