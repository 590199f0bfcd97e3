------------------------- MODULE EventThreadProofs --------------------------
(***************************************************************************)
(* The event thread keeps the delivery invariant: handling events, running *)
(* the callbacks of handlers and performing their responses neither loses  *)
(* nor invents a request or a response.                                    *)
(***************************************************************************)
EXTENDS DeliveryProofs

\* Leaves without arithmetic are Zenon's; the others name SMT.
USE Zenon

\* The labels at which Progress is about something to be sent.
RequestCallbacks == {"Initialize", "OnRequest", "OnReadsDone"}

\* The event thread goes one step on between callbacks, for x.
MovesOn(x) ==
  /\ Busy(EventThread) => thread[EventThread].rpc = x
  /\ Busy(EventThread)' =>
       /\ thread'[EventThread].rpc = x
       /\ thread'[EventThread].ev = "WRITE_NEEDED"
            \/ (Busy(EventThread) /\ thread'[EventThread].ev = thread[EventThread].ev)
  /\ thread[EventThread].pc \notin RequestCallbacks
  /\ thread'[EventThread].pc \notin RequestCallbacks \cup {"Read"}
  /\ replied'[EventThread] = 0
  /\ UNCHANGED <<handler, requests, sends, reads_done>>
  /\ \A r \in Rpcs : \A ok \in BOOLEAN : ReadQueued(r, ok)' <=> ReadQueued(r, ok)
  /\ \A r \in Rpcs : "READ" \in ops'[r] => "READ" \in ops[r] \/ (r = x /\ StreamsRequests(r))

\* The event thread handles the events and runs the handlers. One step per action of
\* its own, after what they need.
LEMMA EventThreadDelivery ==
  /\ NumEventThreads = 1
  /\ ~RequestsMayFail
  /\ Overrun = "nothing"
  /\ Healthy
  /\ TypeInv'
  /\ RepliedOK
  /\ fault' = "none"
  /\ DeliveryInv
  => \A q \in EventQueues : HandlerReplies(q) \/ EventThreadStep(q) => DeliveryInv'
\* The event thread takes an event.
<1>ReadPopped. ASSUME NumEventThreads = 1, TypeInv, queue[EventThread] # <<>>,
             queue' = [queue EXCEPT ![EventThread] = Tail(@)], NEW r \in Rpcs, NEW b \in BOOLEAN
      PROVE  /\ ReadQueued(r, b)' => ReadQueued(r, b)
             /\ ReadQueued(r, b) =>
                  ReadQueued(r, b)' \/ Head(queue[EventThread]) = [ev |-> "READ", rpc |-> r, ok |-> b]
             /\ Head(queue[EventThread]) = [ev |-> "READ", rpc |-> r, ok |-> b] => ReadQueued(r, b)
  <2> USE <1>ReadPopped
  <2> DEFINE old == queue[EventThread]
             new == queue'[EventThread]
             entry == [ev |-> "READ", rpc |-> r, ok |-> b]
  <2>1. /\ Len(old) \in Nat /\ Len(old) >= 1 /\ Len(new) = Len(old) - 1 /\ Head(old) = old[1]
        /\ \A i \in 1 .. Len(new) : new[i] = old[i + 1]
    BY OneEventQueue, PopEntries
  <2>2. ReadQueued(r, b) <=> \E i \in 1 .. Len(old) : old[i] = entry
    BY DEF ReadQueued
  <2>3. ReadQueued(r, b)' <=> \E i \in 1 .. Len(new) : new[i] = entry
    BY DEF ReadQueued, EventThread
  <2> HIDE DEF old, new, entry
  <2>4. (\E i \in 1 .. Len(new) : new[i] = entry) => \E i \in 1 .. Len(old) : old[i] = entry
    BY SMT, <2>1
  <2>5. ASSUME NEW i \in 1 .. Len(old), old[i] = entry
        PROVE  (\E j \in 1 .. Len(new) : new[j] = entry) \/ Head(old) = entry
    <3>1. i = 1 \/ (i - 1 \in 1 .. Len(new) /\ new[i - 1] = old[i])
      BY SMT, <2>1
    <3> QED BY <2>1, <2>5, <3>1
  <2>6. Head(old) = entry => \E i \in 1 .. Len(old) : old[i] = entry
    BY SMT, <2>1
  <2>7. Head(queue[EventThread]) = [ev |-> "READ", rpc |-> r, ok |-> b] <=> Head(old) = entry
    BY DEF old, entry
  <2> QED BY <2>2, <2>3, <2>4, <2>5, <2>6, <2>7
\* A step of the thread between callbacks.
<1>RestingProgress. ASSUME NumEventThreads = 1, TypeInv, RepliedOK, NEW r \in Rpcs, HandlerProgress(r), HandlerStateKept(r),
             Label(r) \notin RequestCallbacks, Label(r)' \notin RequestCallbacks, RepliedFor(r)' = 0,
             ReadsByEvent(r)'
      PROVE  HandlerProgress(r)'
  <2> USE <1>RestingProgress
  <2>1. /\ RepliedFor(r) = 0
        /\ Progress(RpcType[method[r]], handler[r], Taken(r), r \in reads_done, Label(r)', RepliedFor(r),
                    sends[r])
    <3> DEFINE type == RpcType[method[r]]
               done == r \in reads_done
               now == Label(r)
               next == Label(r)'
    <3>1. type \in RpcTypes /\ Taken(r) \in Int /\ done \in BOOLEAN /\ RepliedFor(r) \in Nat /\ sends[r] \in Nat
      BY ProgressTypes
    <3>2. Progress(type, handler[r], Taken(r), done, now, RepliedFor(r), sends[r])
      BY DEF HandlerProgress
    <3>3. now \notin RequestCallbacks /\ next \notin RequestCallbacks
      BY SMT
    <3> HIDE DEF type, done, now, next
    <3>4. RepliedFor(r) = 0 /\ Progress(type, handler[r], Taken(r), done, next, RepliedFor(r), sends[r])
      BY SMT, <3>1, <3>2, <3>3, HandlerRests DEF RequestCallbacks
    <3> QED BY <3>4 DEF type, done, next
  <2>2. Progress(RpcType[method[r]]', handler'[r], Taken(r)', (r \in reads_done)', Label(r)',
                 RepliedFor(r)', sends'[r])
    BY <2>1, KeptValues DEF HandlerStateKept
  <2>3. Progress(RpcType[method[r]], handler[r], Taken(r), r \in reads_done, Label(r), RepliedFor(r),
                 sends[r])'
    BY <2>2 DEF Progress
  <2> QED BY <2>3 DEF HandlerProgress
\* The thread works for one Rpc at a time.
<1>OthersKept. ASSUME NEW r, NEW s, r # s, Busy(EventThread) => thread[EventThread].rpc = r,
             Busy(EventThread)' => thread'[EventThread].rpc = r
      PROVE  Doing(s) = Idle /\ ThreadKept(s)
  <2> USE <1>OthersKept
  <2>1. ~BusyOn(EventThread, s)
    BY DEF BusyOn
  <2>2. ~BusyOn(EventThread, s)'
    BY DEF BusyOn, EventThread
  <2> QED BY <2>1, <2>2 DEF ThreadKept, Doing, RepliedFor
\* The thread, when it works for r.
<1>DoingNow. ASSUME NEW r, BusyOn(EventThread, r)
      PROVE  /\ Doing(r) = thread[EventThread] /\ Label(r) = thread[EventThread].pc
             /\ RepliedFor(r) = replied[EventThread]
  BY <1>DoingNow DEF Doing, Label, RepliedFor
\* ... and does in the next state, ...
<1>DoingNext. ASSUME NEW r, BusyOn(EventThread, r)'
      PROVE  /\ Doing(r)' = thread'[EventThread] /\ Label(r)' = thread'[EventThread].pc
             /\ RepliedFor(r)' = replied'[EventThread]
  BY <1>DoingNext DEF Doing, Label, RepliedFor, EventThread
\* Such a step is none for the handlers.
<1>MovingProgress. ASSUME NumEventThreads = 1, TypeInv, TypeInv', RepliedOK, NEW x \in Rpcs, MovesOn(x),
             NEW r \in Rpcs, HandlerProgress(r), method'[r] = method[r]
      PROVE  HandlerProgress(r)' /\ (ToldAll(r)' => ToldAll(r)) /\ HandlerStateKept(r)
  <2> USE <1>MovingProgress
  <2>1. HandlerStateKept(r)
    BY DEF MovesOn, HandlerStateKept
  <2>2. CASE r # x
    <3>1. ThreadKept(r)
      BY <2>2, <1>OthersKept DEF MovesOn
    <3>2. "READ" \in ops'[r] => "READ" \in ops[r]
      BY <2>2 DEF MovesOn
    <3>3. HandlerProgress(r)'
      BY <2>1, <3>1, <3>2, KeptProgress
    <3>4. Label(r)' = Label(r)
      BY <3>1 DEF ThreadKept, Label
    <3> QED BY <2>1, <3>3, <3>4 DEF ToldAll, HandlerStateKept
  <2>3. CASE r = x
    <3>1. Label(r) \notin RequestCallbacks
      <4>1. CASE BusyOn(EventThread, r)
        BY <4>1, <1>DoingNow DEF MovesOn
      <4>2. CASE ~BusyOn(EventThread, r)
        <5>1. "idle" \notin RequestCallbacks
          BY SMT DEF RequestCallbacks
        <5> QED BY <4>2, <5>1, DoingNothing
      <4> QED BY <4>1, <4>2
    <3>2. /\ Label(r)' \notin RequestCallbacks \cup {"Read"} /\ RepliedFor(r)' = 0
          /\ Doing(r)'.ev = "READ" => Doing(r).ev = "READ"
      <4>1. CASE BusyOn(EventThread, r)'
        <5>1. Doing(r)' = thread'[EventThread] /\ Busy(EventThread)'
          BY <4>1, <1>DoingNext DEF BusyOn
        <5>2. Doing(r)'.ev = "READ" => Busy(EventThread) /\ thread[EventThread].ev = "READ"
          BY <5>1 DEF MovesOn
        <5>3. Busy(EventThread) => BusyOn(EventThread, r)
          BY <2>3 DEF MovesOn, BusyOn
        <5>4. Doing(r)'.ev = "READ" => Doing(r).ev = "READ"
          BY <5>2, <5>3, <1>DoingNow
        <5> QED BY <4>1, <5>4, <1>DoingNext DEF MovesOn
      <4>2. CASE ~BusyOn(EventThread, r)'
        <5>1. "idle" \notin RequestCallbacks \cup {"Read"} /\ Idle.ev # "READ"
          BY SMT DEF RequestCallbacks, Idle
        <5> QED BY <4>2, <5>1, DoingNothingNext
      <4> QED BY <4>1, <4>2
    <3>3. ReadsByEvent(r)'
      <4>1. StreamsRequests(r)' <=> StreamsRequests(r)
        BY <2>1, KeptValues
      <4>2. CASE StreamsRequests(r)
        BY <3>2, <4>1, <4>2 DEF ReadsByEvent, RequestCallbacks
      <4>3. CASE ~StreamsRequests(r)
        <5>1. ~Outstanding(r, "READ") /\ Doing(r).ev # "READ"
          BY <4>3 DEF HandlerProgress, ReadsByEvent
        <5>2. ~Queued(r, "READ")'
          BY <2>1, <5>1, ReadsQueued, ReadsQueuedNext DEF HandlerStateKept, Outstanding
        <5>3. "READ" \notin ops'[r]
          BY <4>3, <5>1 DEF MovesOn, Outstanding
        <5> QED BY <3>2, <4>1, <4>3, <5>1, <5>2, <5>3 DEF ReadsByEvent, Outstanding
      <4> QED BY <4>2, <4>3
    <3>4. HandlerProgress(r)'
      BY <2>1, <3>1, <3>2, <3>3, <1>RestingProgress
    <3>5. Label(r)' # "OnReadsDone"
      BY <3>2 DEF RequestCallbacks
    <3> QED BY <2>1, <3>4, <3>5 DEF ToldAll, HandlerStateKept
  <2> QED BY <2>2, <2>3
\* Nor for the client, if gRPC does not get a response.
<1>MovingKeeps. ASSUME NumEventThreads = 1, TypeInv, TypeInv', RepliedOK, UNCHANGED clientVars, NEW x \in Rpcs, MovesOn(x),
             NEW r \in Rpcs, HandlerProgress(r), Matched(r) => CallProgress(r), CallKept(r),
             method'[r] = method[r]
      PROVE  ServerKeeps(r)
  <2> USE <1>MovingKeeps
  <2>1. HandlerProgress(r)' /\ (ToldAll(r)' => ToldAll(r)) /\ HandlerStateKept(r)
    BY <1>MovingProgress
  <2>2. Matched(r) => CallProgress(r)'
    BY <2>1, KeptCall DEF HandlerStateKept
  <2>3. Matched(r)' <=> Matched(r)
    BY DEF Matched, CallKept
  <2> QED BY <2>1, <2>2, <2>3 DEF ServerKeeps
\* The thread takes a WRITE_NEEDED event.
<1>HandleInternalEventKeeps. ASSUME NumEventThreads = 1, Healthy, TypeInv', RepliedOK, UNCHANGED clientVars,
             HandleInternalEvent(EventThread), replied'[EventThread] = 0,
             NEW r \in Rpcs, Delivering(r)
      PROVE  ServerKeeps(r)
  <2> USE <1>HandleInternalEventKeeps
  <2> DEFINE q == EventThread
             e == Head(queue[q])
  <2>1. /\ thread[q].pc = "idle" /\ queue[q] # <<>> /\ e.ev = "WRITE_NEEDED"
        /\ \/ thread' = thread
           \/ thread' = [thread EXCEPT ![q] = [pc |-> "HandleSendQueue", ev |-> e.ev, rpc |-> e.rpc,
                                               item |-> NoItem]]
        /\ queue' = [queue EXCEPT ![q] = Tail(@)]
        /\ UNCHANGED <<call, ops, status_sent, requests, method, sends, sent, handler, reads_done>>
    BY DEF HandleInternalEvent, grpcVars
  <2>2. q \in EventQueues /\ TypeInv /\ EventsInv
    BY OneEventQueue DEF Healthy
  <2>3. e.rpc \in Rpcs
    BY <2>1, <2>2, HeadEvent
  <2>4. \A s \in Rpcs : \A ok \in BOOLEAN : ReadQueued(s, ok)' <=> ReadQueued(s, ok)
    <3>1. \A s, ok : e # [ev |-> "READ", rpc |-> s, ok |-> ok]
      BY SMT, <2>1
    <3> QED BY <2>1, <2>2, <3>1, <1>ReadPopped
  <2>5. ~Busy(q)
    BY SMT, <2>1 DEF Busy
  <2>6. /\ Busy(q)' => thread'[q].rpc = e.rpc /\ thread'[q].ev = "WRITE_NEEDED"
        /\ thread'[q].pc \in {"idle", "HandleSendQueue"}
    BY SMT, <2>1, <2>2 DEF Busy, TypeInv, TypeOK, ServiceTypeOK
  <2>7. thread[q].pc \notin RequestCallbacks /\ thread'[q].pc \notin RequestCallbacks \cup {"Read"}
    BY SMT, <2>1, <2>6 DEF RequestCallbacks
  <2>8. MovesOn(e.rpc)
    BY <2>1, <2>4, <2>5, <2>6, <2>7 DEF MovesOn
  <2>9. CallKept(r) /\ method'[r] = method[r]
    BY <2>1 DEF CallKept
  <2> QED BY <2>2, <2>3, <2>8, <2>9, <1>MovingKeeps DEF Delivering
\* What the thread does for an Rpc when it leaves the event queue and the handlers
\* alone.
<1>BusyMovesOn. ASSUME NumEventThreads = 1, Healthy, NEW x \in Rpcs, BusyOn(EventThread, x),
             thread[EventThread].pc \notin RequestCallbacks,
             Return(EventThread)
               \/ \E label \in {"RemoveIfNotPending", "Perform", "Remove", "Clone"} : \E item :
                    Goto(EventThread, label) \/ GotoWith(EventThread, label, item),
             replied'[EventThread] = 0,
             UNCHANGED <<queue, handler, requests, sends, reads_done>>,
             \A r \in Rpcs : "READ" \in ops'[r] => "READ" \in ops[r] \/ (r = x /\ StreamsRequests(r))
      PROVE  MovesOn(x)
  <2> USE <1>BusyMovesOn
  <2> DEFINE q == EventThread
  <2>1. q \in EventQueues /\ TypeInv
    BY OneEventQueue DEF Healthy
  <2>2. Busy(q) /\ thread[q].rpc = x
    BY DEF BusyOn
  <2>3. /\ Busy(q)' => thread'[q].rpc = x /\ thread'[q].ev = thread[q].ev
        /\ thread'[q].pc \notin RequestCallbacks \cup {"Read"}
    <3>1. CASE Return(q)
      <4>1. ~Busy(q)'
        BY <2>1, <3>1, ReturnThreads
      <4>2. thread'[q].pc \in {"idle", "exited"}
        BY <4>1 DEF Busy
      <4> QED BY SMT, <4>1, <4>2 DEF RequestCallbacks
    <3>2. ASSUME NEW label \in {"RemoveIfNotPending", "Perform", "Remove", "Clone"}, NEW item,
                 Goto(q, label) \/ GotoWith(q, label, item)
          PROVE  /\ Busy(q)' => thread'[q].rpc = x /\ thread'[q].ev = thread[q].ev
                 /\ thread'[q].pc \notin RequestCallbacks \cup {"Read"}
      <4>1. label \in Labels /\ label \notin RequestCallbacks \cup {"Read"}
        BY SMT DEF Labels, RequestCallbacks
      <4> QED BY <2>1, <2>2, <3>2, <4>1, GotoThreads
    <3> QED BY <3>1, <3>2
  <2>4. \A r \in Rpcs : \A ok \in BOOLEAN : ReadQueued(r, ok)' <=> ReadQueued(r, ok)
    BY ReadsStay
  <2> QED BY <2>2, <2>3, <2>4 DEF MovesOn
\* The thread looks at the send queue, or at the flags, or asks for the next request
\* of a stream.
<1>LookingKeeps. ASSUME NumEventThreads = 1, Healthy, TypeInv', RepliedOK, UNCHANGED clientVars,
             \/ HandleSendQueue(EventThread) \/ RemoveIfNotPending(EventThread)
             \/ RemoveAndReturn(EventThread) \/ Read(EventThread),
             replied'[EventThread] = 0, NEW r \in Rpcs, Delivering(r), \A s \in Rpcs : HandlerProgress(s)
      PROVE  ServerKeeps(r)
  <2> USE <1>LookingKeeps
  <2> DEFINE q == EventThread
             x == thread[q].rpc
  <2>1. q \in EventQueues /\ TypeInv
    BY OneEventQueue DEF Healthy
  <2>2. /\ thread[q].pc \in {"HandleSendQueue", "RemoveIfNotPending", "Remove", "Read"}
        /\ UNCHANGED <<queue, handler, requests, sends, reads_done, method, call, sent, status_sent>>
    BY DEF HandleSendQueue, RemoveIfNotPending, RemoveAndReturn, Read, At, grpcVars, rpcVars
  <2>3. BusyOn(q, x) /\ x \in Rpcs
    BY SMT, <2>1, <2>2 DEF BusyOn, Busy, TypeInv, BusyHaveRpcs
  <2>4. thread[q].pc \notin RequestCallbacks
    BY SMT, <2>2 DEF RequestCallbacks
  <2>5. Return(q) \/ \E label \in {"RemoveIfNotPending", "Perform", "Remove", "Clone"} : \E item :
                       Goto(q, label) \/ GotoWith(q, label, item)
    BY DEF HandleSendQueue, RemoveIfNotPending, RemoveAndReturn, Read
  <2>6. UNCHANGED ops \/ (Read(q) /\ ops' = [ops EXCEPT ![x] = @ \cup {"READ"}])
    BY DEF HandleSendQueue, RemoveIfNotPending, RemoveAndReturn, Read, RequestStreamingRead, StartOp,
       grpcVars
  <2>7. Read(q) => StreamsRequests(x)
    <3>1. Read(q) => Label(x) = "Read"
      BY <2>3, <1>DoingNow DEF Read, At
    <3> QED BY <2>3, <3>1 DEF HandlerProgress, ReadsByEvent
  <2>8. /\ \A s \in Rpcs : "READ" \in ops'[s] => "READ" \in ops[s] \/ (s = x /\ StreamsRequests(s))
        /\ \A s \in Rpcs : ops'[s] \cap {"WRITE", "FINISH"} = ops[s] \cap {"WRITE", "FINISH"}
    <3>1. CASE UNCHANGED ops
      BY <3>1
    <3>2. CASE Read(q) /\ ops' = [ops EXCEPT ![x] = @ \cup {"READ"}]
      <4>1. ops'[x] = ops[x] \cup {"READ"} /\ \A s \in Rpcs : s # x => ops'[s] = ops[s]
        BY <2>1, <2>3, <3>2 DEF TypeInv, TypeOK, GrpcTypeOK
      <4>2. ops'[x] \cap {"WRITE", "FINISH"} = ops[x] \cap {"WRITE", "FINISH"}
        BY SMT, <4>1
      <4> QED BY <2>7, <3>2, <4>1, <4>2
    <3> QED BY <2>6, <3>1, <3>2
  <2>9. MovesOn(x)
    BY <2>2, <2>3, <2>4, <2>5, <2>8, <1>BusyMovesOn
  <2>10. CallKept(r) /\ method'[r] = method[r]
    BY <2>2, <2>8 DEF CallKept
  <2> QED BY <2>1, <2>3, <2>9, <2>10, <1>MovingKeeps DEF Delivering
\* The thread gives the next response, or the status, to gRPC, which has none of
\* this call at that time.
<1>PerformKeeps. ASSUME NumEventThreads = 1, Healthy, TypeInv', RepliedOK, UNCHANGED clientVars,
             Perform(EventThread), replied'[EventThread] = 0, ClientTypeOK,
             NEW r \in Rpcs, Delivering(r)
      PROVE  ServerKeeps(r)
  <2> USE <1>PerformKeeps
  <2> DEFINE q == EventThread
  <2>1. q \in EventQueues /\ TypeInv /\ EventsInv
    BY OneEventQueue DEF Healthy
  <2>2. PICK x \in Rpcs : \E item, e : Performs(q, x, item, e)
    BY <2>1, PerformEffect
  <2>3. PICK item, e : Performs(q, x, item, e)
    BY <2>2
  <2>4. /\ BusyOn(q, x) /\ thread[q].pc = "Perform" /\ item = thread[q].item
        /\ e \in {"WRITE", "FINISH"} /\ (e = "FINISH" <=> Finishes(x, item))
        /\ sent'[x] = item.n /\ ops'[x] = ops[x] \cup {e}
        /\ \A s \in Rpcs : s # x => ops'[s] = ops[s] /\ sent'[s] = sent[s]
        /\ x \in status_sent' <=> x \in status_sent \/ Finishes(x, item)
        /\ \A s \in Rpcs : s # x => (s \in status_sent' <=> s \in status_sent)
        /\ UNCHANGED <<call, method, sends, queue, handler, reads_done>>
    BY SMT, <2>3 DEF Performs
  <2>5. requests' = requests /\ GotoWith(q, "RemoveIfNotPending", NoItem)
    BY DEF Perform
  <2>6. \A s \in Rpcs : "READ" \in ops'[s] => "READ" \in ops[s]
    <3>1. e # "READ"
      BY SMT, <2>4
    <3> QED BY <2>4, <3>1
  <2>7. MovesOn(x)
    <3>1. thread[q].pc \notin RequestCallbacks
      BY SMT, <2>4 DEF RequestCallbacks
    <3> QED BY <2>4, <2>5, <2>6, <3>1, <1>BusyMovesOn
  <2>8. CASE r # x
    <3>1. CallKept(r) /\ method'[r] = method[r]
      BY <2>4, <2>8 DEF CallKept
    <3> QED BY <2>1, <2>7, <3>1, <1>MovingKeeps DEF Delivering
  <2>9. CASE r = x
    <3>1. HandlerProgress(r)' /\ (ToldAll(r)' => ToldAll(r)) /\ HandlerStateKept(r)
      BY <2>1, <2>4, <2>7, <1>MovingProgress DEF Delivering
    <3>2. Matched(r)' <=> Matched(r)
      BY <2>4 DEF Matched
    <3>3. ASSUME Matched(r) PROVE CallProgress(r)'
      <4>1. CallOK(r, "Perform", item)
        BY <2>4, <2>9, CallNow, <1>DoingNow
      <4>2. item.n = sent[r] + 1 /\ r \notin status_sent
        BY <4>1 DEF CallOK, NumberOK, FinishOK
      <4>3. SameQueue(r)
        BY <2>1, OneQueue
      <4>4. ops[r] \cap {"WRITE", "FINISH"} = {}
        <5>1. pending[r] \cap {"WRITE", "FINISH"} = {}
          BY <2>1, <2>4, <2>9, <4>3 DEF EventsInv, ThreadInv, ThreadOK, BusyOn
        <5>2. \A f \in {"WRITE", "FINISH"} : f \in ops[r] => f \in pending[r]
          <6>1. {"WRITE", "FINISH"} \subseteq CqEvents
            BY SMT DEF CqEvents
          <6> QED BY <2>1, <4>3, <6>1 DEF EventsInv, FlagsInv, Outstanding
        <5> QED BY <5>1, <5>2
      <4>5. CallProgress(r)
        BY <3>3 DEF Delivering
      <4>6. /\ stream' = stream /\ rpc_type' = rpc_type /\ uplink' = uplink /\ written' = written
            /\ received' = received /\ downlink' = downlink /\ half_closed' = half_closed
            /\ (Waiting' <=> Waiting) /\ (WritesStream' <=> WritesStream)
        BY DEF clientVars, Waiting, WritesStream
      <4>7. ASSUME Waiting PROVE sent'[r] = received + Len(downlink)
                                    + (IF ops'[r] \cap {"WRITE", "FINISH"} # {} THEN 1 ELSE 0)
        <5>1. sent[r] = received + Len(downlink) + 0
          BY <4>4, <4>5, <4>7 DEF CallProgress
        <5>2. ops'[r] \cap {"WRITE", "FINISH"} # {}
          BY <2>4, <2>9
        <5>3. received + Len(downlink) + 0 + 1 = received + Len(downlink) + 1
          BY SMT DEF ClientTypeOK
        <5> QED BY <2>4, <2>9, <4>2, <5>1, <5>2, <5>3
      <4>8. r \in status_sent' => "FINISH" \in ops'[r]
        BY <2>4, <2>9, <4>2
      <4>9. call'[r] = call[r] /\ requests'[r] = requests[r] /\ method'[r] = method[r]
        BY <2>4, <2>5
      <4> QED BY <3>1, <4>5, <4>6, <4>7, <4>8, <4>9 DEF CallProgress
    <3> QED BY <3>1, <3>2, <3>3 DEF ServerKeeps
  <2> QED BY <2>8, <2>9
\* HandleNewConnection ends with the next Rpc of the method.
<1>CloneKeeps. ASSUME NumEventThreads = 1, Healthy, TypeInv', RepliedOK, UNCHANGED clientVars,
             Clone(EventThread), replied'[EventThread] = 0, NEW r \in Rpcs, Delivering(r)
      PROVE  ServerKeeps(r)
  <2> USE <1>CloneKeeps
  <2> DEFINE q == EventThread
             x == thread[q].rpc
  <2>1. /\ thread[q].pc = "Clone" /\ Return(q)
        /\ UNCHANGED <<queue, handler, requests, sends, sent, status_sent, reads_done>>
    BY DEF Clone, At
  <2>2. PICK new \in Rpcs :
          /\ Construct(new, method[x], cq[x], event_queue[x], current_event_queue_id')
          /\ RequestNextMethodInvocation(new, cq[x])
    BY DEF Clone, CloneTo
  <2>3. TypeInv /\ q \in EventQueues
    BY OneEventQueue DEF Healthy
  <2>4. /\ call[new] = "none" /\ call'[new] = "requested"
        /\ ops'[new] = ops[new] \cup {"NEW_CONNECTION"}
        /\ \A s \in Rpcs : s # new => method'[s] = method[s] /\ call'[s] = call[s] /\ ops'[s] = ops[s]
    BY <2>2, <2>3, Constructs
  <2>5. "READ" \notin ops[new] /\ "READ" \notin ops'[new]
    <3>1. "READ" \notin ops[new]
      BY <2>4, NoneStarted
    <3> QED BY SMT, <2>4, <3>1
  <2>6. CASE r = new
    <3>1. ~BusyOn(EventThread, r)'
      BY <2>1, <2>3, ReturnThreads DEF BusyOn, EventThread
    <3> QED BY <2>1, <2>4, <2>5, <2>6, <3>1, ConstructedKeeps DEF Delivering
  <2>7. CASE r # new
    <3>1. BusyOn(q, x) /\ x \in Rpcs /\ thread[q].pc \notin RequestCallbacks
      BY SMT, <2>1, <2>3 DEF BusyOn, Busy, TypeInv, BusyHaveRpcs, RequestCallbacks
    <3>2. \A s \in Rpcs : "READ" \in ops'[s] => "READ" \in ops[s]
      BY <2>4, <2>5
    <3>3. MovesOn(x)
      BY <2>1, <3>1, <3>2, <1>BusyMovesOn
    <3>4. CallKept(r)
      BY <2>1, <2>4, <2>7 DEF CallKept
    <3> QED BY <2>3, <2>4, <2>7, <3>1, <3>3, <3>4, <1>MovingKeeps DEF Delivering
  <2> QED BY <2>6, <2>7
\* The thread takes a READ event: a request, or the end of the requests.
<1>TakesRead. ASSUME NumEventThreads = 1, Healthy, TypeInv', RepliedOK, replied'[EventThread] = 0, NEW r \in Rpcs,
             NEW ok \in BOOLEAN, NEW label, EventTaken(EventThread, r, "READ", ok, label),
             label = IF ok THEN "OnRequest" ELSE "OnReadsDone", HandlerProgress(r)
      PROVE  HandlerProgress(r)' /\ (ToldAll(r)' => ToldAll(r))
  <2> USE <1>TakesRead
  <2> DEFINE q == EventThread
             type == RpcType[method[r]]
             done == r \in reads_done
             n == Taken(r)
  <2>1. /\ ~Busy(q) /\ Queued(r, "READ") /\ queue[q] # <<>>
        /\ Head(queue[q]).rpc = r /\ Head(queue[q]).ev = "READ" /\ Head(queue[q]).ok = ok
        /\ queue' = [queue EXCEPT ![q] = Tail(@)]
        /\ Busy(q)' /\ thread'[q] = [pc |-> label, ev |-> "READ", rpc |-> r, item |-> NoItem]
        /\ UNCHANGED <<requests, method, sends, reads_done>>
        /\ label # "Initialize" /\ handler' = handler
        /\ ~Queued(r, "READ")'
    <3>1. SameQueue(r) /\ label # "Initialize"
      BY OneQueue DEF Healthy
    <3> QED BY <3>1 DEF EventTaken, grpcVars
  <2>2. TypeInv /\ Doing(r) = Idle /\ Label(r) = "idle" /\ RepliedFor(r) = 0
    BY <2>1, DoingNothing DEF Healthy, BusyOn
  <2>3. thread'[q].pc = label /\ thread'[q].ev = "READ" /\ thread'[q].rpc = r
    BY SMT, <2>1
  <2>4. Doing(r)'.ev = "READ" /\ Label(r)' = label /\ RepliedFor(r)' = 0
    <3>1. BusyOn(EventThread, r)'
      BY <2>1, <2>3 DEF BusyOn, EventThread
    <3> QED BY <2>3, <3>1, <1>DoingNext
  <2>5. StreamsRequests(r) /\ StreamsRequests(r)' /\ type \in {"CLIENT_STREAMING", "BIDI_STREAMING"}
    <3>1. StreamsRequests(r)
      BY <2>1 DEF HandlerProgress, ReadsByEvent, Outstanding
    <3> QED BY <2>1, <3>1 DEF StreamsRequests
  <2>6. handler[r] # "none"
    BY <2>1, <2>2, CallNow DEF CallOK, HandlerOK, Outstanding
  <2>7. ~ReadQueued(r, TRUE)' /\ ~ReadQueued(r, FALSE)'
    BY <2>1, ReadsQueuedNext
  <2>8. Head(queue[q]) = [ev |-> "READ", rpc |-> r, ok |-> ok]
    <3>1. Head(queue[q]) \in Events
      <4>1. q \in EventQueues /\ queue \in [EventQueues -> Seq(Events)]
        BY <2>2, OneEventQueue DEF TypeInv, TypeOK, RpcTypeOK
      <4> QED BY SMT, <2>1, <4>1
    <3> QED BY SMT, <2>1, <3>1 DEF Events
  <2>9. ReadQueued(r, ok) /\ \A b \in BOOLEAN : b # ok => ~ReadQueued(r, b)
    <3>1. \A b \in BOOLEAN : b # ok => Head(queue[q]) # [ev |-> "READ", rpc |-> r, ok |-> b]
      BY SMT, <2>8
    <3>2. \A b \in BOOLEAN : ~ReadQueued(r, b)'
      BY <2>7
    <3> QED BY <2>1, <2>2, <2>8, <3>1, <3>2, <1>ReadPopped
  <2>10. requests[r] \in Nat /\ n \in Int /\ done \in BOOLEAN /\ sends[r] \in Nat
    BY <2>2, ProgressTypes
  <2>11. Progress(type, handler[r], n, done, "idle", 0, sends[r])
    BY <2>2 DEF HandlerProgress
  <2>12. type = RpcType[method[r]]' /\ done = (r \in reads_done)' /\ handler'[r] = handler[r]
         /\ sends'[r] = sends[r] /\ requests'[r] = requests[r]
    BY <2>1
  <2>13. Taken(r)' = requests[r]
    BY <2>7, <2>12 DEF Taken
  <2>14. Progress(RpcType[method[r]], handler[r], Taken(r), r \in reads_done, Label(r), RepliedFor(r),
                  sends[r])'
    <3>1. CASE ok
      <4>1. n = requests[r] - 1
        BY <2>9, <3>1 DEF Taken
      <4>2. n + 1 = Taken(r)'
        BY SMT, <2>10, <2>13, <4>1
      <4> HIDE DEF n, done, type
      <4>3. Progress(type, handler[r], n + 1, done, "OnRequest", 0, sends[r])
        BY SMT, <2>5, <2>6, <2>10, <2>11, HandlerIsAsked
      <4> QED BY <2>4, <2>12, <3>1, <4>2, <4>3, ProgressNext
    <3>2. CASE ~ok
      <4>1. ~ReadQueued(r, TRUE)
        BY <2>9, <3>2
      <4>2. n = Taken(r)'
        BY <2>13, <4>1 DEF Taken
      <4> HIDE DEF n, done, type
      <4>3. Progress(type, handler[r], n, done, "OnReadsDone", 0, sends[r])
        BY SMT, <2>5, <2>6, <2>10, <2>11, HandlerIsToldAll
      <4> QED BY <2>4, <2>12, <3>2, <4>2, <4>3, ProgressNext
    <3> QED BY <3>1, <3>2
  <2>15. ToldAll(r)' => ToldAll(r)
    <3>1. CASE ok
      <4>1. Label(r)' # "OnReadsDone"
        BY SMT, <2>4, <3>1
      <4> QED BY <2>1, <2>7, <4>1 DEF ToldAll
    <3>2. CASE ~ok
      <4>1. ReadQueued(r, FALSE)
        BY <2>9, <3>2
      <4> QED BY <4>1 DEF ToldAll
    <3> QED BY <3>1, <3>2
  <2> QED BY <2>4, <2>5, <2>14, <2>15 DEF HandlerProgress, ReadsByEvent
\* The thread takes any other event.
<1>TakesOther. ASSUME NumEventThreads = 1, Healthy, TypeInv', RepliedOK, replied'[EventThread] = 0, NEW r \in Rpcs,
             NEW e \in CqEvents, e # "READ", NEW ok \in BOOLEAN, NEW label,
             EventTaken(EventThread, r, e, ok, label), EventLabel(e, ok, label), HandlerProgress(r)
      PROVE  HandlerProgress(r)' /\ (ToldAll(r)' => ToldAll(r))
  <2> USE <1>TakesOther
  <2> DEFINE q == EventThread
  <2>1. /\ ~Busy(q) /\ Queued(r, e) /\ queue[q] # <<>> /\ Head(queue[q]).ev = e
        /\ queue' = [queue EXCEPT ![q] = Tail(@)]
        /\ Busy(q)' /\ thread'[q] = [pc |-> label, ev |-> e, rpc |-> r, item |-> NoItem]
        /\ UNCHANGED <<requests, method, sends, reads_done, ops>>
        /\ handler' = IF label = "Initialize" THEN [handler EXCEPT ![r] = "open"] ELSE handler
        /\ ~Queued(r, "READ") => ~Queued(r, "READ")'
    BY DEF EventTaken, grpcVars
  <2>2. TypeInv /\ Doing(r) = Idle /\ Label(r) = "idle" /\ RepliedFor(r) = 0
    BY <2>1, DoingNothing DEF Healthy, BusyOn
  <2>3. thread'[q].pc = label /\ thread'[q].ev = e /\ thread'[q].rpc = r
    <3> DEFINE doing == [pc |-> label, ev |-> e, rpc |-> r, item |-> NoItem]
    <3>1. doing.pc = label /\ doing.ev = e /\ doing.rpc = r
      OBVIOUS
    <3>2. thread'[q] = doing
      BY <2>1
    <3> HIDE DEF doing, q
    <3> QED BY <3>1, <3>2
  <2>4. Doing(r)'.ev = e /\ Label(r)' = label /\ RepliedFor(r)' = 0
    <3>1. BusyOn(EventThread, r)'
      BY <2>1, <2>3 DEF BusyOn, EventThread
    <3> QED BY <2>3, <3>1, <1>DoingNext
  <2>5. label \in {"Remove", "Initialize", "HandleSendQueue", "OnFinish", "RemoveIfNotPending"}
        /\ (label = "Initialize" => e = "NEW_CONNECTION")
    BY SMT DEF EventLabel, CqEvents
  <2>6. \A b \in BOOLEAN : ReadQueued(r, b)' <=> ReadQueued(r, b)
    <3>1. ASSUME NEW b PROVE Head(queue[q]) # [ev |-> "READ", rpc |-> r, ok |-> b]
      <4>1. [ev |-> "READ", rpc |-> r, ok |-> b].ev = "READ"
        OBVIOUS
      <4> QED BY <2>1, <4>1
    <3> QED BY <2>1, <2>2, <3>1, <1>ReadPopped
  <2>7. ReadsByEvent(r)'
    <3>1. StreamsRequests(r)' <=> StreamsRequests(r)
      BY <2>1 DEF StreamsRequests
    <3>2. label \notin {"OnRequest", "OnReadsDone", "Read"}
      BY SMT, <2>5
    <3> QED BY <2>1, <2>4, <3>1, <3>2 DEF HandlerProgress, ReadsByEvent, Outstanding
  <2>8. ToldAll(r)' => ToldAll(r)
    <3>1. label # "OnReadsDone"
      BY SMT, <2>5
    <3> QED BY <2>1, <2>4, <2>6, <3>1 DEF ToldAll
  <2>9. CASE label # "Initialize"
    <3>1. HandlerStateKept(r)
      BY <2>1, <2>6, <2>9 DEF HandlerStateKept
    <3>2. Label(r) \notin RequestCallbacks /\ Label(r)' \notin RequestCallbacks
      BY SMT, <2>2, <2>4, <2>5, <2>9 DEF RequestCallbacks
    <3> QED BY <2>2, <2>4, <2>7, <2>8, <3>1, <3>2, <1>RestingProgress
  <2>10. CASE label = "Initialize"
    <3> DEFINE type == RpcType[method[r]]
               done == r \in reads_done
               n == Taken(r)
    <3>1. handler[r] = "none" /\ r \notin reads_done
      BY <2>1, <2>2, <2>5, <2>10, CallNow DEF CallOK, HandlerOK, Outstanding
    <3>2. ~done /\ done \in BOOLEAN /\ type \in RpcTypes /\ n \in Int /\ sends[r] \in Nat
      BY <2>2, <3>1, ProgressTypes
    <3>3. Progress(type, "none", n, done, "idle", 0, sends[r])
      BY <2>2, <3>1 DEF HandlerProgress
    <3>4. /\ type = RpcType[method[r]]' /\ done = (r \in reads_done)' /\ "open" = handler'[r]
          /\ sends'[r] = sends[r] /\ n = Taken(r)'
      BY <2>1, <2>2, <2>6, <2>10 DEF Taken, TypeInv, TypeOK, ServiceTypeOK
    <3> HIDE DEF n, done, type
    <3>5. Progress(type, "open", n, done, "Initialize", 0, sends[r])
      BY SMT, <3>2, <3>3, HandlerBegins
    <3>6. Progress(RpcType[method[r]], handler[r], Taken(r), r \in reads_done, Label(r), RepliedFor(r),
                   sends[r])'
      BY <2>4, <2>10, <3>4, <3>5, ProgressNext
    <3> QED BY <2>7, <2>8, <3>6 DEF HandlerProgress
  <2> QED BY <2>9, <2>10
\* CompletionQueueRpcEvent::Handle.
<1>HandleCompletionQueueEventKeeps. ASSUME NumEventThreads = 1, ~RequestsMayFail, Healthy, TypeInv', RepliedOK, UNCHANGED clientVars,
             HandleCompletionQueueEvent(EventThread), replied'[EventThread] = 0,
             NEW r \in Rpcs, Delivering(r)
      PROVE  ServerKeeps(r)
  <2> USE <1>HandleCompletionQueueEventKeeps
  <2> DEFINE q == EventThread
  <2>1. q \in EventQueues /\ TypeInv /\ EventsInv
    BY OneEventQueue DEF Healthy
  <2>2. PICK x \in Rpcs, e \in CqEvents, ok \in BOOLEAN, label \in Labels :
          EventTaken(q, x, e, ok, label) /\ EventLabel(e, ok, label)
    BY <2>1, TakesEvent
  <2>3. /\ ~Busy(q) /\ queue[q] # <<>> /\ Head(queue[q]).rpc = x
        /\ queue' = [queue EXCEPT ![q] = Tail(@)]
        /\ thread'[q] = [pc |-> label, ev |-> e, rpc |-> x, item |-> NoItem]
        /\ UNCHANGED <<call, ops, status_sent, requests, method, sends, sent, reads_done>>
        /\ handler' = IF label = "Initialize" THEN [handler EXCEPT ![x] = "open"] ELSE handler
    BY <2>2 DEF EventTaken, grpcVars
  <2>4. CallKept(r)
    BY <2>3 DEF CallKept
  <2>5. CASE r # x
    <3>1. thread'[q].rpc = x
      BY SMT, <2>3
    <3>2. ThreadKept(r)
      BY <2>3, <2>5, <3>1, <1>OthersKept
    <3>3. \A b : Head(queue[q]) # [ev |-> "READ", rpc |-> r, ok |-> b]
      BY SMT, <2>3, <2>5
    <3>4. \A b \in BOOLEAN : ReadQueued(r, b)' <=> ReadQueued(r, b)
      BY <2>1, <2>3, <3>3, <1>ReadPopped
    <3>5. handler'[r] = handler[r]
      BY <2>1, <2>3, <2>5 DEF TypeInv, TypeOK, ServiceTypeOK
    <3>6. HandlerStateKept(r)
      BY <2>3, <3>4, <3>5 DEF HandlerStateKept
    <3> QED BY <2>1, <2>3, <2>4, <3>2, <3>6, KeptKeeps
  <2>6. CASE r = x
    <3>1. HandlerProgress(r)' /\ (ToldAll(r)' => ToldAll(r))
      <4>1. CASE e = "READ"
        <5>1. label = IF ok THEN "OnRequest" ELSE "OnReadsDone"
          BY <2>2, <4>1 DEF EventLabel
        <5> QED BY <2>2, <2>6, <4>1, <5>1, <1>TakesRead DEF Delivering
      <4>2. CASE e # "READ"
        BY <2>2, <2>6, <4>2, <1>TakesOther DEF Delivering
      <4> QED BY <4>1, <4>2
    <3>2. method'[r] = method[r] /\ requests'[r] = requests[r]
      BY <2>3
    <3>3. Matched(r) => CallProgress(r)'
      BY <2>4, <3>1, <3>2, KeptCall DEF Delivering
    <3>4. Matched(r)' <=> Matched(r)
      BY <2>3 DEF Matched
    <3> QED BY <3>1, <3>3, <3>4 DEF ServerKeeps
  <2> QED BY <2>5, <2>6
\* A callback sends the next item of its script.
<1>HandlerRepliesKeeps. ASSUME NumEventThreads = 1, Overrun = "nothing", Healthy, TypeInv', RepliedOK, UNCHANGED clientVars,
             HandlerReplies(EventThread), NEW r \in Rpcs, Delivering(r)
      PROVE  ServerKeeps(r)
  <2> USE <1>HandlerRepliesKeeps
  <2> DEFINE q == EventThread
             label == thread[q].pc
  <2>0. PICK x \in Rpcs : x = thread[q].rpc
    <3>1. TypeInv /\ q \in EventQueues /\ label \in Callbacks
      BY OneEventQueue DEF Healthy, HandlerReplies
    <3> QED BY <3>1 DEF Busy, TypeInv, BusyHaveRpcs, Callbacks
  <2> DEFINE type == RpcType[method[x]]
             msg == Script(type, label)[replied[q] + 1]
             done == x \in reads_done
             n == Taken(x)
  <2>1. /\ label \in Callbacks /\ replied[q] < Len(Script(type, label))
        /\ handler[x] = "open" /\ EnqueueMessage(x, msg)
        /\ Push(event_queue[x], "WRITE_NEEDED", x, TRUE)
        /\ handler' = IF Finishes(x, [msg |-> msg]) THEN [handler EXCEPT ![x] = "ending"] ELSE handler
        /\ UNCHANGED <<call, ops, status_sent, requests, method, sent, thread, reads_done>>
        /\ replied' = [replied EXCEPT ![q] = @ + 1]
    <3>1. HandlerMaySend(x) => handler[x] = "open"
      BY SMT DEF HandlerMaySend
    <3> QED BY <2>0, <3>1 DEF HandlerReplies, HandlerSend, ScriptOf, PushWriteNeeded
  <2>2. TypeInv /\ q \in EventQueues /\ x \in Rpcs /\ BusyOn(q, x) /\ event_queue[x] = q
    <3>1. TypeInv /\ q \in EventQueues
      BY OneEventQueue DEF Healthy
    <3>2. BusyOn(q, x) /\ x \in Rpcs
      BY <2>0, <2>1, <3>1 DEF BusyOn, Busy, TypeInv, BusyHaveRpcs, Callbacks
    <3>3. event_queue[x] \in EventQueues
      BY <3>1, <3>2 DEF TypeInv, TypeOK, RpcTypeOK
    <3> QED BY <3>1, <3>2, <3>3, OneEventQueue
  <2>3. sends'[x] = sends[x] + 1 /\ \A s \in Rpcs : s # x => sends'[s] = sends[s]
    BY <2>1, <2>2, EnqueueEffect
  <2>4. \A s \in Rpcs : \A b \in BOOLEAN : ReadQueued(s, b)' <=> ReadQueued(s, b)
    <3>1. PICK yes \in BOOLEAN : yes = TRUE
      OBVIOUS
    <3>2. PICK e \in CqEvents \cup {"WRITE_NEEDED"} : e = "WRITE_NEEDED"
      BY SMT
    <3>3. Push(q, e, x, yes) /\ e # "READ"
      BY <2>1, <2>2, <3>1, <3>2
    <3> QED BY <2>2, <3>3, OtherPushed
  <2>5. CallKept(r)
    BY <2>1 DEF CallKept
  <2>6. CASE r # x
    <3>1. ThreadKept(r)
      BY <2>0, <2>1, <2>6, <1>OthersKept DEF EventThread
    <3>2. handler'[r] = handler[r]
      BY <2>1, <2>2, <2>6 DEF TypeInv, TypeOK, ServiceTypeOK
    <3>3. HandlerStateKept(r)
      BY <2>1, <2>3, <2>4, <2>6, <3>2 DEF HandlerStateKept
    <3> QED BY <2>1, <2>2, <2>5, <3>1, <3>3, KeptKeeps
  <2>7. CASE r = x
    <3>1. /\ Doing(x) = thread[q] /\ Label(x) = label /\ RepliedFor(x) = replied[q]
          /\ Doing(x)' = thread[q] /\ Label(x)' = label /\ RepliedFor(x)' = replied[q] + 1
      <4>1. BusyOn(EventThread, x)'
        BY <2>1, <2>2 DEF BusyOn, Busy, EventThread
      <4>2. replied'[q] = replied[q] + 1
        BY <2>1, <2>2 DEF RepliedOK
      <4>3. thread'[q] = thread[q] /\ thread'[q].pc = label
        BY <2>1
      <4>4. /\ Doing(x)' = thread'[q] /\ Label(x)' = thread'[q].pc /\ RepliedFor(x)' = replied'[q]
        BY SMT, <4>1, <1>DoingNext
      <4> QED BY <2>2, <4>2, <4>3, <4>4, <1>DoingNow
    <3>2. /\ type \in RpcTypes /\ n \in Int /\ done \in BOOLEAN /\ replied[q] \in Nat /\ sends[x] \in Nat
      BY <2>2, <3>1, ProgressTypes
    <3>3. Progress(type, "open", n, done, label, replied[q], sends[x])
      BY <2>1, <2>7, <3>1 DEF Delivering, HandlerProgress
    <3>4. Finishes(x, [msg |-> msg]) <=> EndsCall(type, msg)
      <4> HIDE DEF msg
      <4>1. [msg |-> msg].msg = msg
        BY SMT
      <4> QED BY <4>1 DEF Finishes, EndsCall
    <3>5. handler'[x] = IF EndsCall(type, msg) THEN "ending" ELSE "open"
      BY <2>1, <2>2, <3>4 DEF TypeInv, TypeOK, ServiceTypeOK
    <3>6. /\ type = RpcType[method[x]]' /\ done = (x \in reads_done)' /\ n = Taken(x)'
      BY <2>1, <2>2, <2>4 DEF Taken
    <3>7. replied[q] < Len(Script(type, label))
      BY <2>1
    <3> HIDE DEF type, done, n, label
    <3>8. Progress(type, IF EndsCall(type, Script(type, label)[replied[q] + 1]) THEN "ending" ELSE "open",
                   n, done, label, replied[q] + 1, sends[x] + 1)
      BY SMT, <3>2, <3>3, <3>7, HandlerProceeds
    <3>9. Progress(RpcType[method[x]], handler[x], Taken(x), x \in reads_done, Label(x), RepliedFor(x),
                   sends[x])'
      BY <2>2, <2>3, <3>1, <3>5, <3>6, <3>8, ProgressNext
    <3>10. ReadsByEvent(x)'
      <4>1. Queued(x, "READ")' <=> Queued(x, "READ")
        BY <2>2, <2>4, ReadsQueued, ReadsQueuedNext
      <4>2. StreamsRequests(x)' <=> StreamsRequests(x)
        BY <2>1 DEF StreamsRequests
      <4> QED BY <2>1, <2>7, <3>1, <4>1, <4>2 DEF Delivering, HandlerProgress, ReadsByEvent, Outstanding
    <3>11. ToldAll(x)' => ToldAll(x)
      BY <2>1, <2>2, <2>4, <3>1 DEF ToldAll
    <3>12. method'[x] = method[x] /\ requests'[x] = requests[x] /\ (Matched(x)' <=> Matched(x))
      BY <2>1 DEF Matched
    <3>13. Matched(x) => CallProgress(x)'
      BY <2>2, <2>5, <2>7, <3>11, <3>12, KeptCall DEF Delivering
    <3> QED BY <2>7, <3>9, <3>10, <3>12, <3>13 DEF ServerKeeps, HandlerProgress
  <2> QED BY <2>6, <2>7
\* A callback that has sent everything returns.
<1>CallbackReturnsKeeps. ASSUME NumEventThreads = 1, Healthy, TypeInv', RepliedOK, UNCHANGED clientVars,
             CallbackReturns(EventThread), replied[EventThread] = Len(ScriptOf(EventThread)),
             replied'[EventThread] = 0, NEW r \in Rpcs, Delivering(r)
      PROVE  ServerKeeps(r)
  <2> USE <1>CallbackReturnsKeeps
  <2> DEFINE q == EventThread
  <2>1. TypeInv /\ q \in EventQueues
    BY OneEventQueue DEF Healthy
  <2>2. PICK x \in Rpcs, label \in Callbacks,
             label2 \in {"Read", "OnRequest", "OnReadsDone", "RemoveIfNotPending", "Clone"} :
          CallbackEnds(q, x, label, label2)
    BY <2>1, CallbackReturnsEffect
  <2>3. /\ thread[q].rpc = x /\ BusyOn(q, x) /\ thread[q].pc = label
        /\ handler'[x] = IF handler[x] = "ending" THEN "ended" ELSE handler[x]
        /\ x \in reads_done' <=> x \in reads_done \/ label = "OnReadsDone"
        /\ \A s \in Rpcs : s # x => handler'[s] = handler[s] /\ (s \in reads_done' <=> s \in reads_done)
        /\ Busy(q)' /\ thread'[q].rpc = x /\ thread'[q].pc = label2
        /\ UNCHANGED <<call, ops, status_sent, method, sends, sent, queue>>
    BY <2>2 DEF CallbackEnds
  <2>4. Goto(q, NextLabel(q)) /\ requests' = requests
    BY DEF CallbackReturns, grpcVars
  <2>5. CallKept(r)
    BY <2>3 DEF CallKept
  <2>6. CASE r # x
    <3>1. ThreadKept(r)
      BY <2>3, <2>6, <1>OthersKept DEF EventThread
    <3>2. HandlerStateKept(r)
      BY <2>3, <2>4, <2>6, ReadsStay DEF HandlerStateKept
    <3> QED BY <2>1, <2>3, <2>5, <3>1, <3>2, KeptKeeps
  <2>7. CASE r = x
    <3> DEFINE type == RpcType[method[r]]
               done == r \in reads_done
               n == Taken(r)
               total == sends[r]
               h == handler[r]
    <3>1. thread'[q].ev = thread[q].ev /\ label2 = NextLabel(q)
      <4>1. NextLabel(q) \in Labels
        BY SMT DEF NextLabel, Labels, Callbacks
      <4>2. thread'[q].pc = NextLabel(q) /\ thread'[q].ev = thread[q].ev
        BY <2>1, <2>4, <4>1, GotoThreads
      <4> QED BY <2>3, <4>2
    <3>2. /\ Doing(r) = thread[q] /\ Label(r) = label /\ RepliedFor(r) = Len(Script(type, label))
          /\ Doing(r)' = thread'[q] /\ Label(r)' = label2 /\ RepliedFor(r)' = 0
      <4>1. BusyOn(EventThread, r)'
        BY <2>3, <2>7 DEF BusyOn, EventThread
      <4>2. Doing(r)' = thread'[q] /\ Label(r)' = thread'[q].pc /\ RepliedFor(r)' = replied'[q]
        BY <4>1, <1>DoingNext
      <4> QED BY <2>3, <2>7, <4>2, <1>DoingNow DEF ScriptOf
    <3>3. StreamsRequests(r) <=> type \in {"CLIENT_STREAMING", "BIDI_STREAMING"}
      BY DEF StreamsRequests
    <3>4. IF StreamsRequests(r) THEN label \in {"OnRequest", "OnReadsDone"} => thread[q].ev = "READ"
          ELSE ~Outstanding(r, "READ") /\ thread[q].ev # "READ"
      BY <3>2 DEF Delivering, HandlerProgress, ReadsByEvent
    <3>5. label2 = After(type, label)
      <4>1. NextLabel(q) = CASE label = "Initialize" -> IF StreamsRequests(r) THEN "Read" ELSE "OnRequest"
               [] label = "OnRequest" -> IF thread[q].ev = "READ" THEN "Read" ELSE "OnReadsDone"
               [] label = "OnReadsDone" -> IF thread[q].ev = "READ" THEN "RemoveIfNotPending" ELSE "Clone"
               [] OTHER -> "RemoveIfNotPending"
        BY <2>3, <2>7 DEF NextLabel
      <4> DEFINE ev == thread[q].ev
                 streams == StreamsRequests(r)
                 next == NextLabel(q)
      <4>2. next = CASE label = "Initialize" -> IF streams THEN "Read" ELSE "OnRequest"
               [] label = "OnRequest" -> IF ev = "READ" THEN "Read" ELSE "OnReadsDone"
               [] label = "OnReadsDone" -> IF ev = "READ" THEN "RemoveIfNotPending" ELSE "Clone"
               [] OTHER -> "RemoveIfNotPending"
        BY <4>1
      <4>3. IF streams THEN label \in {"OnRequest", "OnReadsDone"} => ev = "READ" ELSE ev # "READ"
        BY <3>4
      <4>4. streams <=> type \in {"CLIENT_STREAMING", "BIDI_STREAMING"}
        BY <3>3
      <4>5. label2 = next
        BY <3>1
      <4> HIDE DEF ev, streams, next, type
      <4> QED BY SMT, <4>2, <4>3, <4>4, <4>5 DEF After
    <3>6. /\ type \in RpcTypes /\ n \in Int /\ done \in BOOLEAN /\ total \in Nat /\ h \in HandlerStates
      BY <2>1, ProgressTypes
    <3>7. h # "none" /\ (done => label = "OnFinish")
      <4>1. HandlerOK(r, label) /\ ReadsOK(r, label)
        BY <3>2, CallNow DEF CallOK
      <4>2. h # "none"
        BY <4>1 DEF HandlerOK
      <4>3. done => label \notin RequestLabels
        BY <4>1 DEF ReadsOK
      <4> HIDE DEF done
      <4>4. done => label = "OnFinish"
        BY SMT, <4>3 DEF RequestLabels, Callbacks
      <4> QED BY <4>2, <4>4
    <3>8. Progress(type, h, n, done, label, Len(Script(type, label)), total)
      BY <3>2 DEF Delivering, HandlerProgress
    <3> DEFINE done2 == done \/ label = "OnReadsDone"
               h2 == IF h = "ending" THEN "ended" ELSE h
    <3>9. /\ type = RpcType[method[r]]' /\ h2 = handler'[r] /\ n = Taken(r)' /\ total = sends'[r]
      BY <2>3, <2>4, <2>7, ReadsStay DEF Taken
    <3>10. done2 = (r \in reads_done)'
      <4>1. done2 <=> r \in reads_done'
        BY <2>3, <2>7
      <4>2. done2 \in BOOLEAN /\ (r \in reads_done') \in BOOLEAN
        BY SMT
      <4> HIDE DEF done2
      <4> QED BY SMT, <4>1, <4>2
    <3>11. Progress(type, h2, n, done2, After(type, label), 0, total)
      <4> HIDE DEF type, done, n, total, h
      <4> QED BY SMT, <3>6, <3>7, <3>8, HandlerReturns
    <3> HIDE DEF done2, h2
    <3>12. Progress(RpcType[method[r]], handler[r], Taken(r), r \in reads_done, Label(r), RepliedFor(r),
                    sends[r])'
      BY <3>2, <3>5, <3>9, <3>10, <3>11, ProgressNext
    <3>13. StreamsRequests(r) => label2 \notin {"OnRequest", "OnReadsDone"}
      <4> HIDE DEF type
      <4>1. type \in {"CLIENT_STREAMING", "BIDI_STREAMING"} => label2 \notin {"OnRequest", "OnReadsDone"}
        BY SMT, <3>5 DEF After
      <4> QED BY <3>3, <4>1
    <3>14. ~StreamsRequests(r) => label2 # "Read"
      <4> HIDE DEF type
      <4>1. type \notin {"CLIENT_STREAMING", "BIDI_STREAMING"} => label2 # "Read"
        BY SMT, <3>5 DEF After
      <4> QED BY <3>3, <4>1
    <3>15. ReadsByEvent(r)'
      <4>1. Outstanding(r, "READ")' <=> Outstanding(r, "READ")
        BY <2>3 DEF Outstanding, Queued, QueuedIn
      <4>2. StreamsRequests(r)' <=> StreamsRequests(r)
        BY <2>3 DEF StreamsRequests
      <4> QED BY <3>1, <3>2, <3>4, <3>13, <3>14, <4>1, <4>2 DEF ReadsByEvent
    <3>16. ASSUME Matched(r) PROVE CallProgress(r)'
      <4>1. CallProgress(r)
        BY <3>16 DEF Delivering
      <4>2. WritesStream => StreamsRequests(r)
        BY <4>1 DEF CallProgress, WritesStream, StreamsRequests
      <4>3. WritesStream /\ ToldAll(r)' => ToldAll(r)
        BY <2>3, <2>7, <3>2, <3>13, <4>2, ReadsStay DEF ToldAll
      <4>4. method'[r] = method[r] /\ requests'[r] = requests[r]
        BY <2>3, <2>4
      <4> QED BY <2>5, <4>1, <4>3, <4>4, KeptCall
    <3>17. Matched(r)' <=> Matched(r)
      BY <2>3 DEF Matched
    <3> QED BY <3>12, <3>15, <3>16, <3>17 DEF ServerKeeps, HandlerProgress
  <2> QED BY <2>6, <2>7
<1> SUFFICES ASSUME NumEventThreads = 1,
                    ~RequestsMayFail,
                    Overrun = "nothing",
                    Healthy,
                    TypeInv',
                    RepliedOK,
                    fault' = "none",
                    DeliveryInv,
                    NEW q \in EventQueues,
                    HandlerReplies(q) \/ EventThreadStep(q)
             PROVE  DeliveryInv'
  OBVIOUS
<1>1. q = EventThread
  BY OneEventQueue
<1>2. UNCHANGED clientVars
  BY DEF HandlerReplies, EventThreadStep
<1>3. ClientTypeOK /\ \A r \in Rpcs : Delivering(r) /\ HandlerProgress(r)
  BY DEF DeliveryInv, Delivering
<1>4. ASSUME NEW r \in Rpcs PROVE ServerKeeps(r)
  <2>1. CASE HandlerReplies(q)
    BY <1>1, <1>2, <1>3, <2>1, <1>HandlerRepliesKeeps
  <2>2. CASE EventThreadStep(q)
    <3>1. replied'[EventThread] = 0
      BY <1>1, <2>2 DEF EventThreadStep, RepliedOK
    <3>2. CASE HandleInternalEvent(q)
      BY <1>1, <1>2, <1>3, <3>1, <3>2, <1>HandleInternalEventKeeps
    <3>3. CASE HandleCompletionQueueEvent(q)
      BY <1>1, <1>2, <1>3, <3>1, <3>3, <1>HandleCompletionQueueEventKeeps
    <3>4. CASE HandleSendQueue(q) \/ RemoveIfNotPending(q) \/ RemoveAndReturn(q) \/ Read(q)
      BY <1>1, <1>2, <1>3, <3>1, <3>4, <1>LookingKeeps
    <3>5. CASE Perform(q)
      BY <1>1, <1>2, <1>3, <3>1, <3>5, <1>PerformKeeps
    <3>6. CASE Clone(q)
      BY <1>1, <1>2, <1>3, <3>1, <3>6, <1>CloneKeeps
    <3>7. CASE CallbackReturns(q)
      <4>1. replied[EventThread] = Len(ScriptOf(EventThread))
        BY <1>1, <2>2, <3>7 DEF EventThreadStep, CallbackReturns, At
      <4> QED BY <1>1, <1>2, <1>3, <3>1, <3>7, <4>1, <1>CallbackReturnsKeeps
    <3>8. ~UseAfterFree(q) /\ ~RemoveAndClone(q)
      <4>1. fault' # "use_after_free"
        BY SMT
      <4>2. thread[q].pc # "RemoveAndClone"
        BY DEF Healthy, EventsInv, ShutdownInv
      <4> QED BY <4>1, <4>2 DEF UseAfterFree, RemoveAndClone, At
    <3> QED
      BY <2>2, <3>2, <3>3, <3>4, <3>5, <3>6, <3>7, <3>8
         DEF EventThreadStep, HandleEvent, ServiceStep
  <2> QED BY <2>1, <2>2
<1> QED BY <1>2, <1>4, ServerKeepsDelivery
=============================================================================
