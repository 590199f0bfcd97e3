----------------------------- MODULE CallProofs -----------------------------
(***************************************************************************)
(* Calls whose events go through one event queue, for any number of Rpcs,  *)
(* threads, requests and responses: every step of the server preserves the *)
(* invariant behind module Call, uses gRPC's asynchronous API as it may be *)
(* used, and is a step of module Call, or none, for each Rpc.              *)
(***************************************************************************)
EXTENDS CallInvariant, StepProofs

\* Leaves without arithmetic are Zenon's; the others name SMT.
USE Zenon

\* A step leaves the call of s alone, ...
Untouched(s) ==
  /\ call'[s] = "none" => call[s] = "none"
  /\ SameQueue(s)' <=> SameQueue(s)
  /\ method'[s] = method[s] /\ handler'[s] = handler[s]
  /\ "FINISH" \in pending'[s] <=> "FINISH" \in pending[s]
  /\ "WRITE" \in pending'[s] => "WRITE" \in pending[s]
  /\ send_queue'[s] = send_queue[s] /\ sends'[s] = sends[s] /\ sent'[s] = sent[s]
  /\ s \in status_sent' <=> s \in status_sent
  /\ s \in reads_done' <=> s \in reads_done
  /\ s \in refused' <=> s \in refused
  /\ \A e \in {"NEW_CONNECTION", "READ", "WRITE", "FINISH"} :
       Outstanding(s, e)' => Outstanding(s, e)

\* ... asks for its send queue no more than before, ...
NothingAsked(s) ==
  Writers = {} =>
    /\ Queued(s, "WRITE_NEEDED")' => Queued(s, "WRITE_NEEDED")
    /\ FinishIsLast(s) => FinishIsLast(s)'

\* ... and does not move its threads.
ThreadsStay(s) ==
  \A q \in EventQueues : BusyOn(q, s) \/ BusyOn(q, s)' =>
    BusyOn(q, s) /\ BusyOn(q, s)' /\ thread'[q] = thread[q]

\* The call of s, but for its threads and its place in the event queues.
Kept(s) ==
  /\ handler'[s] = handler[s] /\ pending'[s] = pending[s] /\ ops'[s] = ops[s]
  /\ send_queue'[s] = send_queue[s] /\ sends'[s] = sends[s] /\ sent'[s] = sent[s]
  /\ s \in status_sent' <=> s \in status_sent
  /\ s \in reads_done' <=> s \in reads_done
  /\ s \in refused' <=> s \in refused

\* Every step of the server keeps the invariant.
LEMMA NextCallInv ==
  /\ ~RequestsMayFail
  /\ Overrun = "nothing" \/ Writers = {}
  /\ TypeInv
  /\ LifetimeInv
  /\ CallInv
  /\ [Next]_vars
  => CallInv'
\* Steps that leave the event queues alone.
<1>QueuesKept. ASSUME queue' = queue, NEW s
      PROVE  /\ FinishIsLast(s)' <=> FinishIsLast(s)
             /\ \A e : Queued(s, e)' <=> Queued(s, e)
  <2> USE <1>QueuesKept
  <2>1. FinishIsLast(s)' <=> FinishIsLast(s)
    BY SMT DEF FinishIsLast
  <2>2. \A e : Queued(s, e)' <=> Queued(s, e)
    BY DEF Queued
  <2> QED BY <2>1, <2>2
\* PushToEventQueue does not put WRITE_NEEDED behind FINISH.
<1>PushFinishIsLast. ASSUME TypeInv, NEW s \in Rpcs, FinishIsLast(s), NEW q \in EventQueues,
             NEW e \in CqEvents \cup {"WRITE_NEEDED"}, NEW r \in Rpcs, NEW ok \in BOOLEAN,
             Push(q, e, r, ok), s = r /\ e = "WRITE_NEEDED" => ~Queued(s, "FINISH")
      PROVE  FinishIsLast(s)'
  <2> USE <1>PushFinishIsLast
  <2>1. /\ \A p \in EventQueues : p # q => queue'[p] = queue[p]
        /\ Len(queue[q]) \in Nat
        /\ Len(queue'[q]) = Len(queue[q]) + 1
        /\ queue'[q][Len(queue[q]) + 1] = [ev |-> e, rpc |-> r, ok |-> ok]
        /\ \A i \in 1 .. Len(queue[q]) : queue'[q][i] = queue[q][i]
    BY PushEntries
  <2>2. \A p \in EventQueues : \A i \in 1 .. Len(queue'[p]) :
          \/ i \in 1 .. Len(queue[p]) /\ queue'[p][i] = queue[p][i]
          \/ p = q /\ i = Len(queue[q]) + 1 /\ queue'[p][i].ev = e /\ queue'[p][i].rpc = r
    BY SMT, <2>1
  <2> SUFFICES ASSUME NEW p \in EventQueues, NEW i \in 1 .. Len(queue'[p]),
                      NEW j \in 1 .. Len(queue'[p]),
                      queue'[p][i].rpc = s, queue'[p][i].ev = "FINISH",
                      queue'[p][j].rpc = s, queue'[p][j].ev = "WRITE_NEEDED"
               PROVE  j < i
    BY DEF FinishIsLast
  <2>3. CASE i \in 1 .. Len(queue[p]) /\ queue'[p][i] = queue[p][i]
    <3>1. CASE j \in 1 .. Len(queue[p]) /\ queue'[p][j] = queue[p][j]
      BY <2>3, <3>1 DEF FinishIsLast
    <3>2. CASE queue'[p][j].ev = e /\ queue'[p][j].rpc = r
      <4>1. Queued(s, "FINISH")
        BY <2>3 DEF Queued, QueuedIn
      <4> QED BY <3>2, <4>1
    <3> QED BY <2>2, <3>1, <3>2
  <2>4. CASE p = q /\ i = Len(queue[q]) + 1
    <3>1. j # i
      OBVIOUS
    <3>2. j \in 1 .. Len(queue'[q]) /\ Len(queue'[q]) = i /\ i \in Nat
      BY SMT, <2>1, <2>4
    <3> QED BY SMT, <3>1, <3>2
  <2> QED BY <2>2, <2>3, <2>4
\* PopWithTimeout keeps the order of what it leaves.
<1>PopFinishIsLast. ASSUME TypeInv, NEW s \in Rpcs, FinishIsLast(s), NEW q \in EventQueues, queue[q] # <<>>,
             queue' = [queue EXCEPT ![q] = Tail(@)]
      PROVE  FinishIsLast(s)'
  <2> USE <1>PopFinishIsLast
  <2> SUFFICES ASSUME NEW p \in EventQueues, NEW i \in 1 .. Len(queue'[p]),
                      NEW j \in 1 .. Len(queue'[p]),
                      queue'[p][i].rpc = s, queue'[p][i].ev = "FINISH",
                      queue'[p][j].rpc = s, queue'[p][j].ev = "WRITE_NEEDED"
               PROVE  j < i
    BY DEF FinishIsLast
  <2> DEFINE Old(k) == IF p = q THEN k + 1 ELSE k
  <2>1. /\ Old(i) \in 1 .. Len(queue[p]) /\ queue'[p][i] = queue[p][Old(i)]
        /\ Old(j) \in 1 .. Len(queue[p]) /\ queue'[p][j] = queue[p][Old(j)]
    BY PopOld
  <2>2. Old(j) < Old(i) => j < i
    BY SMT
  <2> HIDE DEF Old
  <2>3. Old(j) < Old(i)
    BY <2>1 DEF FinishIsLast
  <2> QED BY <2>2, <2>3
\* What a thread knows of a call survives a step that leaves the call alone.
<1>UntouchedCallOK. ASSUME NEW s \in Rpcs, Untouched(s), NothingAsked(s), NEW label, NEW item,
             CallOK(s, label, item)
      PROVE  CallOK(s, label, item)'
  <2> USE <1>UntouchedCallOK
  <2>1. \A i : Finishes(s, i)' <=> Finishes(s, i)
    BY DEF Untouched, Finishes
  <2>2. HandlerOK(s, label)'
    BY DEF CallOK, HandlerOK, Untouched
  <2>3. ReadsOK(s, label)'
    BY DEF CallOK, ReadsOK, Untouched
  <2>4. FinishTaken(s, label, item)' <=> FinishTaken(s, label, item)
    BY <2>1 DEF FinishTaken, Untouched
  <2>5. FinishOK(s, label, item)'
    <3>1. LastFinishes(s, label, item) => LastFinishes(s, label, item)'
      BY <2>1, <2>4 DEF LastFinishes, Untouched
    <3>2. Writers = {} /\ NothingAfterFinish(s, label) => NothingAfterFinish(s, label)'
      BY DEF NothingAfterFinish, NothingAsked, Untouched
    <3> QED BY <2>1, <2>4, <3>1, <3>2 DEF CallOK, FinishOK, Untouched
  <2>6. NumberOK(s, label, item)'
    BY DEF CallOK, NumberOK, Untouched
  <2> QED BY <2>2, <2>3, <2>5, <2>6 DEF CallOK
\* A step of another Rpc, of gRPC or of the thread that owns the Server.
<1>UntouchedCallState. ASSUME NEW s \in Rpcs, Untouched(s), NothingAsked(s), ThreadsStay(s), CallStateOK(s)
      PROVE  CallStateOK(s)'
  <2> USE <1>UntouchedCallState
  <2>1. call'[s] = "none" => Fresh(s)'
    BY DEF CallStateOK, Fresh, Untouched
  <2>2. ASSUME SameQueue(s)', NEW q \in EventQueues, BusyOn(q, s)'
        PROVE  CallOK(s, thread[q].pc, thread[q].item)'
    <3>1. /\ thread'[q] = thread[q]
          /\ CallOK(s, thread[q].pc, thread[q].item)
      BY <2>2 DEF ThreadsStay, CallStateOK, Untouched
    <3> QED BY <3>1, <1>UntouchedCallOK
  <2>3. ASSUME SameQueue(s)', \A q \in EventQueues : ~BusyOn(q, s)'
        PROVE  CallOK(s, "idle", NoItem)'
    <3>1. CallOK(s, "idle", NoItem)
      BY <2>3 DEF ThreadsStay, CallStateOK, Untouched
    <3> QED BY <3>1, <1>UntouchedCallOK
  <2> QED BY <2>1, <2>2, <2>3 DEF CallStateOK
\* The thread of r goes to another label than Perform, from another one.
<1>RelabelCallOK. ASSUME NEW r \in Rpcs, NEW label, NEW item, NEW label2, NEW item2,
             CallOK(r, label, item)', label # "Perform", label2 # "Perform",
             handler'[r] = "none" => label2 \notin Callbacks \cup {"Read"},
             handler'[r] = "ending" => label2 \in Callbacks,
             label2 \in RequestLabels => ~Outstanding(r, "READ")' /\ r \notin reads_done',
             Writers = {} /\ label2 = "HandleSendQueue" /\ r \in status_sent' => "FINISH" \in pending'[r]
      PROVE  CallOK(r, label2, item2)'
  <2> USE <1>RelabelCallOK
  <2>1. HandlerOK(r, label2)'
    BY DEF CallOK, HandlerOK
  <2>2. ReadsOK(r, label2)'
    BY DEF CallOK, ReadsOK
  <2>3. FinishTaken(r, label2, item2)' <=> FinishTaken(r, label, item)'
    BY DEF FinishTaken
  <2>4. FinishOK(r, label2, item2)'
    <3>1. LastFinishes(r, label, item)' => LastFinishes(r, label2, item2)'
      BY <2>3 DEF LastFinishes
    <3>2. Writers = {} /\ NothingAfterFinish(r, label)' => NothingAfterFinish(r, label2)'
      BY DEF NothingAfterFinish
    <3> QED BY <2>3, <3>1, <3>2 DEF CallOK, FinishOK
  <2>5. NumberOK(r, label2, item2)'
    BY DEF CallOK, NumberOK
  <2> QED BY <2>1, <2>2, <2>4, <2>5 DEF CallOK
\* Between testing the flags and returning, a thread changes nothing of the call.
<1>MoveOnCallOK. ASSUME NEW r \in Rpcs, Untouched(r), NothingAsked(r), NEW label, NEW item, NEW label2, NEW item2,
             CallOK(r, label, item), label \notin Callbacks \cup {"Perform"},
             label2 \notin Callbacks \cup {"Perform", "Read", "HandleSendQueue"}
      PROVE  CallOK(r, label2, item2)'
  <2> USE <1>MoveOnCallOK
  <2>1. CallOK(r, label, item)'
    BY <1>UntouchedCallOK
  <2>2. handler'[r] # "ending"
    BY DEF CallOK, HandlerOK, Untouched
  <2>3. label # "Perform" /\ label2 # "Perform" /\ label2 # "HandleSendQueue"
    OBVIOUS
  <2>4. label2 \notin RequestLabels
    BY DEF RequestLabels, Callbacks
  <2> QED BY <2>1, <2>2, <2>3, <2>4, <1>RelabelCallOK
\* Only the thread that works on r moves: what it does to the call is what
\* happens to it.
<1>ThreadCallState. ASSUME RoutingInv, NEW q \in EventQueues, NEW r \in Rpcs, BusyOn(q, r), CallStateOK(r),
             call'[r] # "none", SameQueue(r)' <=> SameQueue(r),
             \A p \in EventQueues : p # q => thread'[p] = thread[p],
             Busy(q)' => thread'[q].rpc = r,
             SameQueue(r) /\ CallOK(r, thread[q].pc, thread[q].item) /\ Busy(q)' =>
               CallOK(r, thread[q].pc, thread[q].item)',
             SameQueue(r) /\ CallOK(r, thread[q].pc, thread[q].item) /\ ~Busy(q)' =>
               CallOK(r, "idle", NoItem)'
      PROVE  CallStateOK(r)'
  <2> USE <1>ThreadCallState
  <2> SUFFICES ASSUME SameQueue(r)
               PROVE  /\ \A p \in EventQueues : BusyOn(p, r)' => CallOK(r, thread[p].pc, thread[p].item)'
                      /\ (\A p \in EventQueues : ~BusyOn(p, r)') => CallOK(r, "idle", NoItem)'
    BY DEF CallStateOK
  <2>1. \A p \in EventQueues : BusyOn(p, r)' => p = q
    BY OneThread DEF BusyOn, Busy
  <2>2. CallOK(r, thread[q].pc, thread[q].item)
    BY DEF CallStateOK
  <2>3. BusyOn(q, r)' <=> Busy(q)'
    BY DEF BusyOn
  <2>4. ASSUME NEW p \in EventQueues, BusyOn(p, r)'
        PROVE  CallOK(r, thread[p].pc, thread[p].item)'
    <3>1. p = q /\ CallOK(r, thread[q].pc, thread[q].item)'
      BY <2>1, <2>2, <2>3, <2>4
    <3> QED BY <3>1
  <2> QED BY <2>2, <2>3, <2>4
\* An idle thread takes an event of r: no thread was working on r.
<1>BeginCallState. ASSUME RoutingInv, NEW q \in EventQueues, NEW r \in Rpcs, CallStateOK(r),
             ~Busy(q), q = event_queue[r] \/ q = events_queue[r],
             call'[r] # "none", SameQueue(r)' <=> SameQueue(r),
             \A p \in EventQueues : p # q => thread'[p] = thread[p],
             Busy(q)', thread'[q].rpc = r,
             SameQueue(r) /\ CallOK(r, "idle", NoItem) => CallOK(r, thread[q].pc, thread[q].item)'
      PROVE  CallStateOK(r)'
  <2> USE <1>BeginCallState
  <2> SUFFICES ASSUME SameQueue(r)
               PROVE  \A p \in EventQueues : BusyOn(p, r)' => CallOK(r, thread[p].pc, thread[p].item)'
    BY DEF CallStateOK, BusyOn
  <2>1. ASSUME NEW p \in EventQueues, BusyOn(p, r)
        PROVE  FALSE
    <3>1. Busy(p) /\ thread[p].rpc = r
      BY <2>1 DEF BusyOn
    <3>2. p = event_queue[r] \/ p = events_queue[r]
      BY <3>1 DEF RoutingInv
    <3>3. p = q
      BY SMT, <3>2 DEF SameQueue
    <3> QED BY <3>1, <3>3
  <2>2. \A p \in EventQueues : BusyOn(p, r)' => p = q
    BY <2>1 DEF BusyOn, Busy
  <2>3. CallOK(r, thread[q].pc, thread[q].item)'
    BY <2>1 DEF CallStateOK
  <2>4. ASSUME NEW p \in EventQueues, BusyOn(p, r)'
        PROVE  CallOK(r, thread[p].pc, thread[p].item)'
    <3>1. p = q
      BY <2>2, <2>4
    <3> QED BY <2>3, <3>1
  <2> QED BY <2>4
\* A send queue without items is the empty one.
<1>EmptySendQueue. ASSUME NEW s \in Seq(SendItems), Len(s) = 0
      PROVE  s = <<>>
  BY SMT, <1>EmptySendQueue
\* HandleSendQueue takes the first item of the queue.
<1>TakeItemCallOK. ASSUME TypeInv, NEW r \in Rpcs, NEW item, CallOK(r, "HandleSendQueue", item), ~NothingToSend(r),
             Overrun = "nothing" \/ Writers = {},
             NEW first, first = Head(send_queue[r]), send_queue'[r] = Tail(send_queue[r]),
             UNCHANGED <<method, handler, pending, sends, sent, status_sent, reads_done, refused,
                         queue, ops>>
      PROVE  CallOK(r, "Perform", first)'
  <2> USE <1>TakeItemCallOK
  <2>1. /\ send_queue[r] # <<>> /\ "WRITE" \notin pending[r] /\ "FINISH" \notin pending[r]
        /\ handler[r] # "none"
    BY DEF CallOK, HandlerOK, NothingToSend
  <2>2. /\ Len(send_queue[r]) \in Nat /\ Len(send_queue[r]) > 0
        /\ first = send_queue[r][1]
        /\ Len(send_queue'[r]) = Len(send_queue[r]) - 1
        /\ \A i \in 1 .. Len(send_queue'[r]) :
             i + 1 \in 1 .. Len(send_queue[r]) /\ send_queue'[r][i] = send_queue[r][i + 1]
        /\ 1 \in 1 .. Len(send_queue[r])
    <3>1. send_queue[r] \in Seq(SendItems)
      BY DEF TypeInv, TypeOK, RpcTypeOK
    <3> QED BY SMT, <2>1, <3>1
  <2>3. r \notin status_sent
    BY <2>1 DEF CallOK, FinishOK, LastFinishes, FinishTaken, NothingAfterFinish
  <2>4. \A e \in CqEvents : Outstanding(r, e)' <=> Outstanding(r, e)
    BY DEF Outstanding, Queued, QueuedIn
  <2>5. \A i : Finishes(r, i)' <=> Finishes(r, i)
    BY DEF Finishes
  <2>6. HandlerOK(r, "Perform")'
    <3>1. handler[r] # "ending"
      BY DEF CallOK, HandlerOK, Callbacks
    <3>2. "NEW_CONNECTION" \in CqEvents
      BY DEF CqEvents
    <3> QED BY <2>1, <2>4, <3>1, <3>2 DEF CallOK, HandlerOK
  <2>7. ReadsOK(r, "Perform")'
    <3>1. "READ" \in CqEvents /\ "Perform" \notin RequestLabels
      BY DEF CqEvents, RequestLabels
    <3> QED BY <2>4, <3>1 DEF CallOK, ReadsOK
  <2>8. FinishTaken(r, "Perform", first)' <=> Finishes(r, first)
    BY <2>3, <2>5 DEF FinishTaken
  <2>9. FinishOK(r, "Perform", first)'
    <3>1. ASSUME handler'[r] = "open"
          PROVE  ~Finishes(r, first) /\ \A i \in 1 .. Len(send_queue'[r]) : ~Finishes(r, send_queue'[r][i])
      <4>1. \A i \in 1 .. Len(send_queue[r]) : ~Finishes(r, send_queue[r][i])
        BY <3>1 DEF CallOK, FinishOK
      <4> QED BY <2>2, <4>1
    <3>2. ASSUME Overrun = "nothing"
          PROVE  LastFinishes(r, "Perform", first)'
      <4>1. \A i \in 1 .. Len(send_queue[r]) : Finishes(r, send_queue[r][i]) => i = Len(send_queue[r])
        BY <3>2 DEF CallOK, FinishOK, LastFinishes
      <4>2. ASSUME NEW i \in 1 .. Len(send_queue'[r]), Finishes(r, send_queue'[r][i])
            PROVE  i = Len(send_queue'[r])
        <5>1. i + 1 = Len(send_queue[r])
          BY <2>2, <4>1, <4>2
        <5> QED BY SMT, <2>2, <5>1
      <4>3. Finishes(r, first) => send_queue'[r] = <<>>
        <5>1. Finishes(r, first) => 1 = Len(send_queue[r])
          BY <2>2, <4>1
        <5>2. send_queue[r] \in Seq(SendItems)
          BY DEF TypeInv, TypeOK, RpcTypeOK
        <5>3. send_queue'[r] \in Seq(SendItems)
          BY SMT, <2>1, <5>2
        <5>4. Finishes(r, first) => Len(send_queue'[r]) = 0
          BY SMT, <2>2, <5>1
        <5>5. Len(send_queue'[r]) = 0 => send_queue'[r] = <<>>
          BY <5>3, <1>EmptySendQueue
        <5> QED BY <5>4, <5>5
      <4> QED BY <2>5, <2>8, <4>2, <4>3 DEF LastFinishes
    <3>3. NothingAfterFinish(r, "Perform")'
      BY <2>3 DEF NothingAfterFinish
    <3> QED BY <2>3, <2>5, <2>8, <3>1, <3>2, <3>3 DEF FinishOK
  <2>10. NumberOK(r, "Perform", first)'
    <3>1. /\ sends[r] = sent[r] + Len(send_queue[r])
          /\ \A i \in 1 .. Len(send_queue[r]) : send_queue[r][i].n = sent[r] + i
      BY DEF CallOK, NumberOK
    <3>2. sent[r] \in Nat /\ sent'[r] = sent[r] /\ sends'[r] = sends[r]
      BY DEF TypeInv, TypeOK, RpcTypeOK
    <3>3. first.n = sent'[r] + 1
      BY <2>2, <3>1, <3>2
    <3>4. sends'[r] = (sent'[r] + 1) + Len(send_queue'[r])
      BY SMT, <2>2, <3>1, <3>2
    <3>5. ASSUME NEW i \in 1 .. Len(send_queue'[r])
          PROVE  send_queue'[r][i].n = (sent'[r] + 1) + i
      <4>1. send_queue'[r][i].n = sent[r] + (i + 1)
        BY <2>2, <3>1
      <4>2. i \in Nat
        BY SMT, <2>2
      <4> QED BY SMT, <3>2, <4>1, <4>2
    <3> QED BY <3>3, <3>4, <3>5 DEF NumberOK
  <2> QED BY <2>6, <2>7, <2>9, <2>10 DEF CallOK
\* HandleSendQueue gives the item that it took to gRPC, with Finish or with Write.
<1>PerformCallOK. ASSUME TypeInv, FlagsInv, NEW r \in Rpcs, NEW item, CallOK(r, "Perform", item), SameQueue(r),
             "WRITE" \notin pending[r], "FINISH" \notin pending[r],
             NEW e, e = IF Finishes(r, item) THEN "FINISH" ELSE "WRITE",
             pending'[r] = pending[r] \cup {e}, ops'[r] = ops[r] \cup {e},
             r \in status_sent' <=> r \in status_sent \/ Finishes(r, item),
             sent'[r] = item.n,
             UNCHANGED <<method, handler, sends, send_queue, reads_done, refused, queue>>,
             NEW item2
      PROVE  CallOK(r, "RemoveIfNotPending", item2)'
  <2> USE <1>PerformCallOK
  <2>1. /\ handler[r] # "none" /\ handler[r] # "ending"
        /\ r \notin status_sent
        /\ ~Queued(r, "FINISH")
    <3>1. handler[r] # "none" /\ handler[r] # "ending"
      BY DEF CallOK, HandlerOK, Callbacks
    <3>2. r \notin status_sent
      BY DEF CallOK, FinishOK
    <3>3. ~Outstanding(r, "FINISH")
      BY DEF FlagsInv, CqEvents
    <3> QED BY <3>1, <3>2, <3>3 DEF Outstanding
  <2>2. \A f \in {"NEW_CONNECTION", "READ"} : Outstanding(r, f)' <=> Outstanding(r, f)
    <3>1. \A f \in {"NEW_CONNECTION", "READ"} : f \in ops'[r] <=> f \in ops[r]
      BY SMT
    <3> QED BY <3>1 DEF Outstanding, Queued, QueuedIn
  <2>3. \A i : Finishes(r, i)' <=> Finishes(r, i)
    BY DEF Finishes
  <2>4. /\ "FINISH" \in pending'[r] <=> Finishes(r, item)
        /\ "WRITE" \in pending'[r] <=> ~Finishes(r, item)
        /\ r \in status_sent' <=> Finishes(r, item)
    BY SMT, <2>1
  <2>5. HandlerOK(r, "RemoveIfNotPending")'
    BY <2>1, <2>2, <2>4 DEF CallOK, HandlerOK
  <2>6. ReadsOK(r, "RemoveIfNotPending")'
    <3>1. "RemoveIfNotPending" \notin RequestLabels
      BY DEF RequestLabels
    <3> QED BY <2>2, <3>1 DEF CallOK, ReadsOK
  <2>7. FinishTaken(r, "Perform", item) <=> Finishes(r, item)
    BY <2>1 DEF FinishTaken
  <2>8. FinishTaken(r, "RemoveIfNotPending", item2)' <=> Finishes(r, item)
    BY <2>4 DEF FinishTaken
  <2>9. FinishOK(r, "RemoveIfNotPending", item2)'
    <3>1. handler[r] \in HandlerStates
      BY DEF TypeInv, TypeOK, ServiceTypeOK
    <3>2. Finishes(r, item) => handler[r] = "ended"
      BY <2>1, <2>7, <3>1 DEF CallOK, FinishOK, HandlerStates
    <3>3. Overrun = "nothing" => LastFinishes(r, "RemoveIfNotPending", item2)'
      BY <2>3, <2>7, <2>8 DEF CallOK, FinishOK, LastFinishes
    <3>4. FinishIsLast(r)'
      <4>1. FinishIsLast(r)
        BY <2>1 DEF FinishIsLast, Queued, QueuedIn
      <4> QED BY <4>1, <1>QueuesKept
    <3>5. NothingAfterFinish(r, "RemoveIfNotPending")'
      BY <2>4, <3>4 DEF NothingAfterFinish
    <3> QED BY <2>3, <2>4, <2>7, <2>8, <3>2, <3>3, <3>5 DEF CallOK, FinishOK
  <2>10. NumberOK(r, "RemoveIfNotPending", item2)'
    <3>1. /\ item.n = sent[r] + 1
          /\ sends[r] = (sent[r] + 1) + Len(send_queue[r])
          /\ \A i \in 1 .. Len(send_queue[r]) : send_queue[r][i].n = (sent[r] + 1) + i
      BY DEF CallOK, NumberOK
    <3> QED BY <3>1 DEF NumberOK
  <2> QED BY <2>5, <2>6, <2>9, <2>10 DEF CallOK
\* RequestStreamingReadIfNeeded asks for the next request.
<1>ReadCallOK. ASSUME NEW r \in Rpcs, NEW item, CallOK(r, "Read", item),
             pending'[r] = pending[r] \cup {"READ"}, ops'[r] = ops[r] \cup {"READ"},
             UNCHANGED <<method, handler, sends, sent, send_queue, status_sent, reads_done, refused, queue>>,
             NEW label2 \in {"Clone", "idle"}, NEW item2
      PROVE  CallOK(r, label2, item2)'
  <2> USE <1>ReadCallOK
  <2>1. label2 \notin RequestLabels \cup Callbacks \cup {"Perform", "HandleSendQueue"}
    BY DEF RequestLabels, Callbacks
  <2>2. handler[r] # "none" /\ handler[r] # "ending" /\ r \notin reads_done
    BY DEF CallOK, HandlerOK, ReadsOK, Callbacks, RequestLabels
  <2>3. /\ "NEW_CONNECTION" \in ops'[r] <=> "NEW_CONNECTION" \in ops[r]
        /\ "FINISH" \in pending'[r] <=> "FINISH" \in pending[r]
        /\ "WRITE" \in pending'[r] <=> "WRITE" \in pending[r]
    BY SMT
  <2>4. Outstanding(r, "NEW_CONNECTION")' <=> Outstanding(r, "NEW_CONNECTION")
    BY <2>3 DEF Outstanding, Queued, QueuedIn
  <2>5. \A i : Finishes(r, i)' <=> Finishes(r, i)
    BY DEF Finishes
  <2>6. HandlerOK(r, label2)'
    BY <2>2, <2>3, <2>4 DEF CallOK, HandlerOK
  <2>7. ReadsOK(r, label2)'
    BY <2>1, <2>2 DEF ReadsOK
  <2>8. FinishTaken(r, label2, item2)' <=> FinishTaken(r, "Read", item)
    BY <2>1 DEF FinishTaken
  <2>9. FinishOK(r, label2, item2)'
    <3>1. Overrun = "nothing" => LastFinishes(r, label2, item2)'
      BY <2>5, <2>8 DEF CallOK, FinishOK, LastFinishes
    <3>2. Writers = {} => NothingAfterFinish(r, label2)'
      <4>1. Writers = {} => NothingAfterFinish(r, "Read")
        BY DEF CallOK, FinishOK
      <4>2. label2 # "HandleSendQueue"
        BY <2>1
      <4> QED BY <2>3, <4>1, <4>2, <1>QueuesKept DEF NothingAfterFinish
    <3> QED BY <2>1, <2>3, <2>5, <2>8, <3>1, <3>2 DEF CallOK, FinishOK
  <2>10. NumberOK(r, label2, item2)'
    BY <2>1 DEF CallOK, NumberOK
  <2> QED BY <2>6, <2>7, <2>9, <2>10 DEF CallOK
\* A callback returns: a handler that has sent the last item is done with the
\* call, and OnReadsDone is the last callback for requests.
<1>ReturnCallOK. ASSUME NEW r \in Rpcs, NEW label \in Callbacks, NEW item, CallOK(r, label, item),
             handler'[r] = IF handler[r] = "ending" THEN "ended" ELSE handler[r],
             r \in reads_done' <=> r \in reads_done \/ label = "OnReadsDone",
             UNCHANGED <<method, pending, ops, sends, sent, send_queue, status_sent, refused, queue>>,
             NEW label2 \in {"Read", "OnRequest", "OnReadsDone", "RemoveIfNotPending", "Clone"},
             label2 \in RequestLabels => label \in {"Initialize", "OnRequest"}, NEW item2
      PROVE  CallOK(r, label2, item2)'
  <2> USE <1>ReturnCallOK
  <2>1. label2 # "Perform" /\ label2 # "HandleSendQueue" /\ label # "Perform"
    BY DEF Callbacks
  <2>2. handler[r] # "none" /\ handler'[r] # "none" /\ handler'[r] # "ending"
    BY DEF CallOK, HandlerOK
  <2>3. \A e : Outstanding(r, e)' <=> Outstanding(r, e)
    BY DEF Outstanding, Queued, QueuedIn
  <2>4. \A i : Finishes(r, i)' <=> Finishes(r, i)
    BY DEF Finishes
  <2>5. HandlerOK(r, label2)'
    BY <2>2, <2>3 DEF CallOK, HandlerOK
  <2>6. ReadsOK(r, label2)'
    <3>1. "Initialize" \in RequestLabels /\ "OnRequest" \in RequestLabels /\ "OnReadsDone" \in RequestLabels
      BY DEF RequestLabels
    <3>2. r \in reads_done' => label2 \notin RequestLabels
      BY <3>1 DEF CallOK, ReadsOK
    <3> QED BY <2>3, <3>1, <3>2 DEF CallOK, ReadsOK
  <2>7. FinishTaken(r, label2, item2)' <=> FinishTaken(r, label, item)
    BY <2>1 DEF FinishTaken
  <2>8. FinishOK(r, label2, item2)'
    <3>1. Overrun = "nothing" => LastFinishes(r, label2, item2)'
      BY <2>4, <2>7 DEF CallOK, FinishOK, LastFinishes
    <3>2. Writers = {} => NothingAfterFinish(r, label2)'
      BY <2>1 DEF CallOK, FinishOK, NothingAfterFinish, FinishIsLast, Queued, QueuedIn
    <3>3. handler'[r] = "open" => handler[r] = "open"
      OBVIOUS
    <3>4. handler[r] = "ended" => handler'[r] = "ended"
      OBVIOUS
    <3> QED BY <2>1, <2>4, <2>7, <3>1, <3>2, <3>3, <3>4 DEF CallOK, FinishOK
  <2>9. NumberOK(r, label2, item2)'
    BY <2>1 DEF CallOK, NumberOK
  <2> QED BY <2>5, <2>6, <2>8, <2>9 DEF CallOK
\* Send, Finish or a Writer puts an item into the send queue of a call that is
\* still open, or of one that its callback has just ended.
<1>SendCallOK. ASSUME TypeInv, NEW r \in Rpcs, NEW label, NEW item, CallOK(r, label, item), NEW msg \in BOOLEAN,
             handler[r] = "open" \/ (handler[r] = "ending" /\ Overrun # "nothing"),
             handler'[r] = handler[r] \/ (Finishes(r, [msg |-> msg]) /\ handler'[r] \in {"ending", "ended"}),
             handler[r] = "open" /\ Finishes(r, [msg |-> msg]) => handler'[r] # "open",
             handler'[r] = "ending" => label \in Callbacks,
             sends'[r] = sends[r] + 1,
             send_queue'[r] = Append(send_queue[r], [msg |-> msg, n |-> sends[r] + 1]),
             \A e \in CqEvents : Outstanding(r, e)' <=> Outstanding(r, e),
             UNCHANGED <<method, pending, sent, status_sent, reads_done, refused>>
      PROVE  CallOK(r, label, item)'
  <2> USE <1>SendCallOK
  <2>1. handler[r] # "none" /\ handler'[r] # "none" /\ r \notin status_sent
    BY DEF CallOK, FinishOK
  <2>2. \A i : Finishes(r, i)' <=> Finishes(r, i)
    BY DEF Finishes
  <2>3. /\ Len(send_queue[r]) \in Nat
        /\ Len(send_queue'[r]) = Len(send_queue[r]) + 1
        /\ \A i \in 1 .. Len(send_queue'[r]) :
             i \in 1 .. Len(send_queue[r]) \/ i = Len(send_queue[r]) + 1
        /\ \A i \in 1 .. Len(send_queue[r]) : send_queue'[r][i] = send_queue[r][i]
        /\ send_queue'[r][Len(send_queue[r]) + 1] = [msg |-> msg, n |-> sends[r] + 1]
    <3>1. send_queue[r] \in Seq(SendItems) /\ sends[r] \in Nat
      BY DEF TypeInv, TypeOK, RpcTypeOK
    <3>2. [msg |-> msg, n |-> sends[r] + 1] \in SendItems
      BY SMT, <3>1 DEF SendItems
    <3> QED BY SMT, <3>1, <3>2
  <2>4. Finishes(r, [msg |-> msg, n |-> sends[r] + 1]) <=> Finishes(r, [msg |-> msg])
    BY SMT DEF Finishes
  <2>5. HandlerOK(r, label)'
    <3>1. "NEW_CONNECTION" \in CqEvents
      BY DEF CqEvents
    <3> QED BY <2>1, <3>1 DEF CallOK, HandlerOK
  <2>6. ReadsOK(r, label)'
    <3>1. "READ" \in CqEvents
      BY DEF CqEvents
    <3> QED BY <3>1 DEF CallOK, ReadsOK
  <2>7. FinishTaken(r, label, item)' <=> FinishTaken(r, label, item)
    BY <2>2 DEF FinishTaken
  <2>8. FinishOK(r, label, item)'
    <3>1. handler'[r] = "open" => handler[r] = "open" /\ ~Finishes(r, [msg |-> msg])
      OBVIOUS
    <3>2. ASSUME handler[r] = "open"
          PROVE  /\ ~FinishTaken(r, label, item)
                 /\ \A i \in 1 .. Len(send_queue[r]) : ~Finishes(r, send_queue'[r][i])
      BY <2>3, <3>2 DEF CallOK, FinishOK
    <3>3. ASSUME handler'[r] = "open", NEW i \in 1 .. Len(send_queue'[r])
          PROVE  ~Finishes(r, send_queue'[r][i])
      BY <2>3, <2>4, <3>1, <3>2, <3>3
    <3>4. ASSUME Overrun = "nothing"
          PROVE  LastFinishes(r, label, item)'
      <4>1. handler[r] = "open"
        BY <3>4
      <4>2. \A i \in 1 .. Len(send_queue'[r]) : Finishes(r, send_queue'[r][i]) => i = Len(send_queue'[r])
        BY <2>3, <3>2, <4>1
      <4> QED BY <2>2, <2>7, <3>2, <4>1, <4>2 DEF LastFinishes
    <3>5. NothingAfterFinish(r, label)'
      BY <2>1 DEF NothingAfterFinish
    <3> QED BY <2>1, <2>2, <2>7, <3>1, <3>2, <3>3, <3>4, <3>5 DEF FinishOK
  <2>9. NumberOK(r, label, item)'
    <3> DEFINE n == IF label = "Perform" THEN sent[r] + 1 ELSE sent[r]
    <3>1. /\ label = "Perform" => item.n = n
          /\ sends[r] = n + Len(send_queue[r])
          /\ \A i \in 1 .. Len(send_queue[r]) : send_queue[r][i].n = n + i
      BY DEF CallOK, NumberOK
    <3>2. n \in Nat
      <4>1. sent[r] \in Nat
        BY DEF TypeInv, TypeOK, RpcTypeOK
      <4> QED BY SMT, <4>1
    <3>3. n' = n
      OBVIOUS
    <3> HIDE DEF n
    <3>4. sends'[r] = n + Len(send_queue'[r])
      BY SMT, <2>3, <3>1, <3>2
    <3>5. send_queue'[r][Len(send_queue[r]) + 1].n = n + (Len(send_queue[r]) + 1)
      BY SMT, <2>3, <3>1, <3>2
    <3>6. \A i \in 1 .. Len(send_queue'[r]) : send_queue'[r][i].n = n + i
      BY <2>3, <3>1, <3>5
    <3> QED BY <3>1, <3>3, <3>4, <3>6 DEF NumberOK, n
  <2> QED BY <2>5, <2>6, <2>8, <2>9 DEF CallOK
\* HandleFinish: nothing of the call is left in the event queue.
<1>FinishEventCallOK. ASSUME NEW r \in Rpcs, CallOK(r, "idle", NoItem), Outstanding(r, "FINISH"),
             pending'[r] = pending[r] \ {"FINISH"},
             FinishIsLast(r) => FinishIsLast(r)' /\ ~Queued(r, "WRITE_NEEDED")',
             \A e : Outstanding(r, e)' => Outstanding(r, e),
             UNCHANGED <<method, handler, sends, sent, send_queue, status_sent, reads_done, refused>>,
             NEW item2
      PROVE  CallOK(r, "OnFinish", item2)'
  <2> USE <1>FinishEventCallOK
  <2>1. handler[r] # "none"
    BY DEF CallOK, HandlerOK
  <2>2. \A i : Finishes(r, i)' <=> Finishes(r, i)
    BY DEF Finishes
  <2>3. "FINISH" \notin pending'[r] /\ ("WRITE" \in pending'[r] => "WRITE" \in pending[r])
    OBVIOUS
  <2>4. HandlerOK(r, "OnFinish")'
    BY <2>1, <2>3 DEF CallOK, HandlerOK, Callbacks
  <2>5. ReadsOK(r, "OnFinish")'
    BY DEF CallOK, ReadsOK, RequestLabels
  <2>6. FinishTaken(r, "OnFinish", item2)' <=> FinishTaken(r, "idle", NoItem)
    BY DEF FinishTaken
  <2>7. FinishOK(r, "OnFinish", item2)'
    <3>1. Overrun = "nothing" => LastFinishes(r, "OnFinish", item2)'
      BY <2>2, <2>6 DEF CallOK, FinishOK, LastFinishes
    <3>2. Writers = {} => NothingAfterFinish(r, "OnFinish")'
      BY <2>3 DEF CallOK, FinishOK, NothingAfterFinish
    <3> QED BY <2>2, <2>3, <2>6, <3>1, <3>2 DEF CallOK, FinishOK
  <2>8. NumberOK(r, "OnFinish", item2)'
    BY DEF CallOK, NumberOK
  <2> QED BY <2>4, <2>5, <2>7, <2>8 DEF CallOK
\* HandleNewConnection: the handler of a call is created once, and none is for a
\* call that is refused.
<1>ConnectionCallOK. ASSUME NEW r \in Rpcs, CallOK(r, "idle", NoItem), Outstanding(r, "NEW_CONNECTION"),
             ~Outstanding(r, "NEW_CONNECTION")', \A e : Outstanding(r, e)' => Outstanding(r, e),
             pending'[r] = pending[r] \ {"NEW_CONNECTION"},
             NEW label2 \in {"Initialize", "Remove"}, NEW item2,
             handler'[r] = IF label2 = "Initialize" THEN "open" ELSE handler[r],
             label2 = "Initialize" => (r \in refused' <=> r \in refused),
             UNCHANGED <<method, sends, sent, send_queue, status_sent, reads_done>>
      PROVE  CallOK(r, label2, item2)'
  <2> USE <1>ConnectionCallOK
  <2>1. /\ handler[r] = "none" /\ r \notin refused
        /\ r \notin status_sent /\ r \notin reads_done /\ send_queue[r] = <<>>
        /\ \A e \in {"READ", "WRITE", "FINISH"} : ~Outstanding(r, e)
        /\ "FINISH" \notin pending[r]
    BY DEF CallOK, HandlerOK
  <2>2. "FINISH" \notin pending'[r]
    BY <2>1
  <2>3. HandlerOK(r, label2)'
    <3>1. CASE label2 = "Initialize"
      BY <2>1, <2>2, <3>1 DEF HandlerOK, Callbacks
    <3>2. CASE label2 = "Remove"
      <4>1. handler'[r] = "none"
        BY <2>1, <3>2
      <4> QED BY <2>1, <2>2, <3>2, <4>1 DEF HandlerOK, Callbacks
    <3> QED BY <3>1, <3>2
  <2>4. ReadsOK(r, label2)'
    BY <2>1 DEF ReadsOK
  <2>5. ~FinishTaken(r, label2, item2)' /\ \A i \in 1 .. Len(send_queue'[r]) : FALSE
    BY SMT, <2>1 DEF FinishTaken
  <2>6. FinishOK(r, label2, item2)'
    BY <2>1, <2>5 DEF FinishOK, LastFinishes, NothingAfterFinish
  <2>7. NumberOK(r, label2, item2)'
    BY DEF CallOK, NumberOK
  <2> QED BY <2>3, <2>4, <2>6, <2>7 DEF CallOK
\* When FINISH is at the head of the queue of an Rpc, no WRITE_NEEDED is behind it.
<1>FinishAtHead. ASSUME TypeInv, RoutingInv, NEW q \in EventQueues, NEW r \in Rpcs, SameQueue(r), queue[q] # <<>>,
             Head(queue[q]).rpc = r, Head(queue[q]).ev = "FINISH", FinishIsLast(r)
      PROVE  ~Queued(r, "WRITE_NEEDED")
  <2> USE <1>FinishAtHead
  <2>1. 1 \in 1 .. Len(queue[q]) /\ Head(queue[q]) = queue[q][1]
    BY SMT DEF TypeInv, TypeOK, RpcTypeOK
  <2> SUFFICES ASSUME NEW p \in EventQueues, NEW j \in 1 .. Len(queue[p]),
                      queue[p][j].rpc = r, queue[p][j].ev = "WRITE_NEEDED"
               PROVE  FALSE
    BY DEF Queued, QueuedIn
  <2>2. p = event_queue[r]
    BY SMT DEF RoutingInv
  <2>3. q = events_queue[r]
    BY SMT, <2>1 DEF RoutingInv
  <2>4. p = q
    BY SMT, <2>2, <2>3 DEF SameQueue
  <2>5. j < 1
    BY <2>1, <2>4 DEF FinishIsLast
  <2> QED BY SMT, <2>5 DEF TypeInv, TypeOK, RpcTypeOK
\* CompletionQueueRpcEvent::Handle.
<1>HandleCompletionQueueEventCall. ASSUME TypeInv, EventsInv, ~RequestsMayFail, \A s \in Rpcs : CallStateOK(s),
             NEW q \in EventQueues, HandleCompletionQueueEvent(q)
      PROVE  \A s \in Rpcs : CallStateOK(s)'
  <2> USE <1>HandleCompletionQueueEventCall
  <2>1. PICK r \in Rpcs, e \in CqEvents, ok \in BOOLEAN, label \in Labels :
          EventTaken(q, r, e, ok, label) /\ EventLabel(e, ok, label)
    BY TakesEvent
  <2>2. /\ ~Busy(q) /\ q = events_queue[r] /\ Queued(r, e)
        /\ queue[q] # <<>> /\ Head(queue[q]).rpc = r /\ Head(queue[q]).ev = e
        /\ queue' = [queue EXCEPT ![q] = Tail(@)]
        /\ Busy(q)'
        /\ \A p \in EventQueues : p # q => thread'[p] = thread[p]
        /\ pending'[r] = pending[r] \ {e}
        /\ \A s \in Rpcs : s # r => pending'[s] = pending[s]
        /\ \A s, f : Queued(s, f)' => Queued(s, f)
        /\ SameQueue(r) => e \notin ops[r] /\ ~Queued(r, e)'
        /\ UNCHANGED <<call, ops, status_sent, method, event_queue, events_queue, send_queue, sends,
                       sent, reads_done>>
    BY <2>1 DEF EventTaken, grpcVars
  <2>3. thread'[q].pc = label /\ thread'[q].rpc = r /\ thread'[q].item = NoItem
    <3>1. thread'[q] = [pc |-> label, ev |-> e, rpc |-> r, item |-> NoItem]
      BY <2>1 DEF EventTaken
    <3> QED BY SMT, <3>1
  <2>4. /\ handler'[r] = IF label = "Initialize" THEN "open" ELSE handler[r]
        /\ label # "Remove" => (r \in refused' <=> r \in refused)
        /\ \A s \in Rpcs : s # r => handler'[s] = handler[s] /\ (s \in refused' <=> s \in refused)
    <3>1. /\ handler' = IF label = "Initialize" THEN [handler EXCEPT ![r] = "open"] ELSE handler
          /\ refused' = IF label = "Remove" /\ ok THEN refused \cup {r} ELSE refused
      BY <2>1 DEF EventTaken
    <3> QED BY SMT, <3>1 DEF TypeInv, TypeOK, ServiceTypeOK
  <2>5. \A s, f : Outstanding(s, f)' => Outstanding(s, f)
    BY <2>2 DEF Outstanding
  <2>6. \A s \in Rpcs : FinishIsLast(s) => FinishIsLast(s)'
    BY <2>2, <1>PopFinishIsLast
  <2>7. \A s \in Rpcs : NothingAsked(s)
    BY <2>2, <2>6 DEF NothingAsked
  <2>8. \A s \in Rpcs : SameQueue(s)' <=> SameQueue(s)
    BY <2>2 DEF SameQueue
  <2>9. ASSUME NEW s \in Rpcs, s # r PROVE CallStateOK(s)'
    <3>1. Untouched(s)
      BY <2>2, <2>4, <2>5, <2>8, <2>9 DEF Untouched
    <3>2. ThreadsStay(s)
      BY <2>2, <2>3, <2>9 DEF ThreadsStay, BusyOn, Busy
    <3> QED BY <2>7, <3>1, <3>2, <1>UntouchedCallState
  <2>10. ASSUME SameQueue(r), CallOK(r, "idle", NoItem) PROVE CallOK(r, label, NoItem)'
    <3>1. Outstanding(r, e) /\ e \in pending[r] /\ ~Outstanding(r, e)'
      BY <2>2, <2>10 DEF Outstanding, EventsInv, FlagsInv
    <3>2. CASE e = "NEW_CONNECTION"
      <4>1. label \in {"Initialize", "Remove"} /\ (label = "Initialize" => (r \in refused' <=> r \in refused))
        BY <2>1, <2>4, <3>2 DEF EventLabel
      <4> QED BY <2>2, <2>4, <2>5, <2>10, <3>1, <3>2, <4>1, <1>ConnectionCallOK
    <3>3. CASE e = "FINISH"
      <4>1. label = "OnFinish"
        BY <2>1, <3>3 DEF EventLabel
      <4>2. FinishIsLast(r) => FinishIsLast(r)' /\ ~Queued(r, "WRITE_NEEDED")'
        BY <2>2, <2>6, <2>10, <3>3, <1>FinishAtHead DEF EventsInv
      <4>3. UNCHANGED <<method, sends, sent, send_queue, status_sent, reads_done>>
        BY <2>2
      <4>4. handler' = handler /\ refused' = refused
        BY <2>1, <4>1 DEF EventTaken
      <4> QED BY <2>2, <2>5, <2>10, <3>1, <3>3, <4>1, <4>2, <4>3, <4>4, <1>FinishEventCallOK
    <3>4. CASE e \in {"READ", "WRITE", "DONE"}
      <4>1. /\ label \notin {"Initialize", "Remove", "OnFinish", "Perform", "Read"}
            /\ label = "HandleSendQueue" => e = "WRITE"
            /\ label \in RequestLabels \cup Callbacks => e = "READ"
            /\ e = "READ" => label \in Callbacks
        BY <2>1, <3>4 DEF EventLabel, RequestLabels, Callbacks
      <4>2. /\ "FINISH" \in pending'[r] <=> "FINISH" \in pending[r]
            /\ "WRITE" \in pending'[r] => "WRITE" \in pending[r]
        BY <2>2, <3>4
      <4>3. Untouched(r)
        BY <2>2, <2>4, <2>5, <2>8, <4>1, <4>2 DEF Untouched
      <4>4. CallOK(r, "idle", NoItem)'
        BY <2>7, <2>10, <4>3, <1>UntouchedCallOK
      <4>5. handler'[r] = handler[r] /\ handler[r] # "ending" /\ (e = "READ" => handler[r] # "none")
        BY <2>4, <2>10, <3>1, <4>1 DEF CallOK, HandlerOK, Callbacks
      <4>6. label \in RequestLabels => ~Outstanding(r, "READ")' /\ r \notin reads_done'
        BY <2>2, <2>10, <3>1, <4>1 DEF CallOK, ReadsOK
      <4>7. label = "HandleSendQueue" => r \notin status_sent'
        BY <2>2, <2>10, <3>1, <4>1 DEF CallOK, FinishOK
      <4>8. handler'[r] = "none" => label \notin Callbacks \cup {"Read"}
        BY <4>1, <4>5
      <4> QED BY <4>1, <4>4, <4>5, <4>6, <4>7, <4>8, <1>RelabelCallOK
    <3> QED BY <3>2, <3>3, <3>4 DEF CqEvents
  <2>11. CallStateOK(r)'
    <3>1. call'[r] # "none"
      BY <2>2 DEF EventsInv, ConnectionInv, ConnectionOK, Outstanding
    <3>2. SameQueue(r) /\ CallOK(r, "idle", NoItem) => CallOK(r, thread[q].pc, thread[q].item)'
      BY <2>3, <2>10
    <3>3. CallStateOK(r)
      OBVIOUS
    <3> QED BY <2>2, <2>3, <2>8, <3>1, <3>2, <3>3, <1>BeginCallState DEF EventsInv
  <2> QED BY <2>9, <2>11
\* Steps that leave every call alone.
<1>QuietCall. ASSUME \A s \in Rpcs : CallStateOK(s),
             UNCHANGED <<method, event_queue, events_queue, handler, pending, send_queue, sends, sent,
                         status_sent, reads_done, refused>>,
             \A s \in Rpcs : call'[s] = "none" => call[s] = "none",
             \A s \in Rpcs : \A e \in CqEvents \ {"DONE"} : Outstanding(s, e)' => Outstanding(s, e),
             \A s \in Rpcs : NothingAsked(s) /\ ThreadsStay(s)
      PROVE  \A s \in Rpcs : CallStateOK(s)'
  <2> USE <1>QuietCall
  <2> TAKE s \in Rpcs
  <2>1. \A e \in {"NEW_CONNECTION", "READ", "WRITE", "FINISH"} : e \in CqEvents \ {"DONE"}
    BY DEF CqEvents
  <2>2. SameQueue(s)' <=> SameQueue(s)
    BY DEF SameQueue
  <2>3. Untouched(s)
    BY <2>1, <2>2 DEF Untouched
  <2> QED BY <2>3, <1>UntouchedCallState
\* Most steps of the thread that owns the Server leave the Rpcs alone.
<1>FrameCall. ASSUME \A s \in Rpcs : CallStateOK(s),
             UNCHANGED <<method, event_queue, events_queue, handler, pending, send_queue, sends, sent,
                         status_sent, reads_done, refused, ops, queue, thread>>,
             \A s \in Rpcs : call'[s] = "none" => call[s] = "none"
      PROVE  \A s \in Rpcs : CallStateOK(s)'
  <2> USE <1>FrameCall
  <2>1. \A s \in Rpcs : NothingAsked(s)
    BY DEF NothingAsked, Queued, FinishIsLast
  <2>2. \A s \in Rpcs : ThreadsStay(s)
    BY DEF ThreadsStay, BusyOn, Busy
  <2>3. \A s \in Rpcs : \A e \in CqEvents \ {"DONE"} : Outstanding(s, e)' => Outstanding(s, e)
    BY DEF Outstanding, Queued
  <2>4. \A s \in Rpcs : NothingAsked(s) /\ ThreadsStay(s)
    BY <2>1, <2>2
  <2> QED BY <2>3, <2>4, <1>QuietCall
\* A thread goes one step on with the Rpc that it handles.
<1>StepCall. ASSUME EventsInv, \A s \in Rpcs : CallStateOK(s), NEW q \in EventQueues, NEW r \in Rpcs, BusyOn(q, r),
             \A p \in EventQueues : p # q => thread'[p] = thread[p],
             Busy(q)' => thread'[q].rpc = r,
             UNCHANGED <<call, method, event_queue, events_queue, queue>>,
             \A s \in Rpcs : s # r => Kept(s),
             SameQueue(r) /\ CallOK(r, thread[q].pc, thread[q].item) /\ Busy(q)' =>
               CallOK(r, thread[q].pc, thread[q].item)',
             SameQueue(r) /\ CallOK(r, thread[q].pc, thread[q].item) /\ ~Busy(q)' =>
               CallOK(r, "idle", NoItem)'
      PROVE  \A s \in Rpcs : CallStateOK(s)'
  <2> USE <1>StepCall
  <2>1. \A s \in Rpcs : SameQueue(s)' <=> SameQueue(s)
    BY DEF SameQueue
  <2>2. ASSUME NEW s \in Rpcs, s # r PROVE CallStateOK(s)'
    <3>1. Kept(s)
      BY <2>2
    <3>2. \A e : Outstanding(s, e)' <=> Outstanding(s, e)
      BY <3>1 DEF Outstanding, Queued, Kept
    <3>3. Untouched(s)
      BY <2>1, <3>1, <3>2 DEF Untouched, Kept
    <3>4. NothingAsked(s)
      BY DEF NothingAsked, Queued, FinishIsLast
    <3>5. ThreadsStay(s)
      BY <2>2 DEF ThreadsStay, BusyOn, Busy
    <3>6. CallStateOK(s)
      OBVIOUS
    <3> QED BY <3>3, <3>4, <3>5, <3>6, <1>UntouchedCallState
  <2>3. CallStateOK(r)'
    <3>1. call'[r] # "none"
      BY DEF EventsInv, ConnectionInv, ConnectionOK, Quiet
    <3>2. CallStateOK(r) /\ RoutingInv
      BY DEF EventsInv
    <3> QED BY <2>1, <3>1, <3>2, <1>ThreadCallState
  <2> QED BY <2>2, <2>3
\* HandleSendQueue, up to the item that it takes.
<1>HandleSendQueueCall. ASSUME TypeInv, EventsInv, Overrun = "nothing" \/ Writers = {}, \A s \in Rpcs : CallStateOK(s),
             NEW q \in EventQueues, HandleSendQueue(q)
      PROVE  \A s \in Rpcs : CallStateOK(s)'
  <2> USE <1>HandleSendQueueCall
  <2>1. /\ thread[q].pc = "HandleSendQueue"
        /\ UNCHANGED <<call, ops, status_sent, method, event_queue, events_queue, pending, sends, sent,
                       queue, refused, handler, reads_done>>
    BY DEF HandleSendQueue, At, grpcVars
  <2>2. PICK r \in Rpcs : r = thread[q].rpc /\ BusyOn(q, r)
    BY <2>1 DEF BusyOn, Busy, TypeInv, BusyHaveRpcs
  <2>3. CASE NothingToSend(r)
    <3>1. Goto(q, "RemoveIfNotPending") /\ send_queue' = send_queue
      BY <2>2, <2>3 DEF HandleSendQueue
    <3>2. /\ thread'[q].pc = "RemoveIfNotPending"
          /\ \A p \in EventQueues : thread'[p].rpc = thread[p].rpc
          /\ \A p \in EventQueues : p # q => thread'[p] = thread[p]
      BY <3>1, GotoThreads DEF Labels
    <3>3. \A s \in Rpcs : s # r => Kept(s)
      BY <2>1, <3>1 DEF Kept
    <3>4. Busy(q)' /\ thread'[q].rpc = r
      BY <2>2, <3>2 DEF Busy
    <3>5. ASSUME CallOK(r, thread[q].pc, thread[q].item)
          PROVE  CallOK(r, thread[q].pc, thread[q].item)'
      <4>1. Untouched(r)
        BY <2>1, <3>1 DEF Untouched, SameQueue, Outstanding, Queued
      <4>2. NothingAsked(r)
        BY <2>1 DEF NothingAsked, Queued, FinishIsLast
      <4>3. /\ thread[q].pc \notin Callbacks \cup {"Perform"}
            /\ thread'[q].pc \notin Callbacks \cup {"Perform", "Read", "HandleSendQueue"}
        BY <2>1, <3>2 DEF Callbacks
      <4> QED BY <2>2, <3>5, <4>1, <4>2, <4>3, <1>MoveOnCallOK
    <3> QED BY <2>1, <2>2, <3>2, <3>3, <3>4, <3>5, <1>StepCall
  <2>4. CASE ~NothingToSend(r)
    <3>1. /\ GotoWith(q, "Perform", Head(send_queue[r]))
          /\ send_queue' = [send_queue EXCEPT ![r] = Tail(@)]
      BY <2>2, <2>4 DEF HandleSendQueue
    <3>2. /\ thread'[q].pc = "Perform" /\ thread'[q].item = Head(send_queue[r])
          /\ \A p \in EventQueues : thread'[p].rpc = thread[p].rpc
          /\ \A p \in EventQueues : p # q => thread'[p] = thread[p]
      BY <3>1 DEF GotoWith, TypeInv, TypeOK, ServiceTypeOK
    <3>3. /\ send_queue'[r] = Tail(send_queue[r])
          /\ \A s \in Rpcs : s # r => send_queue'[s] = send_queue[s]
      BY <2>2, <3>1 DEF TypeInv, TypeOK, RpcTypeOK
    <3>4. \A s \in Rpcs : s # r => Kept(s)
      BY <2>1, <3>3 DEF Kept
    <3>5. Busy(q)' /\ thread'[q].rpc = r
      BY <2>2, <3>2 DEF Busy
    <3>6. ASSUME CallOK(r, thread[q].pc, thread[q].item)
          PROVE  CallOK(r, thread[q].pc, thread[q].item)'
      <4>1. CallOK(r, "HandleSendQueue", thread[q].item)
        BY <2>1, <3>6
      <4>2. \A first : first = Head(send_queue[r]) => CallOK(r, "Perform", first)'
        BY <2>1, <2>2, <2>4, <3>3, <4>1, <1>TakeItemCallOK
      <4> QED BY <3>2, <4>2
    <3> QED BY <2>1, <2>2, <3>2, <3>4, <3>5, <3>6, <1>StepCall
  <2> QED BY <2>3, <2>4
\* The rest of HandleSendQueue.
<1>PerformCall. ASSUME TypeInv, EventsInv, \A s \in Rpcs : CallStateOK(s), NEW q \in EventQueues, Perform(q)
      PROVE  \A s \in Rpcs : CallStateOK(s)'
  <2> USE <1>PerformCall
  <2>0. PICK r \in Rpcs : \E item, e : Performs(q, r, item, e)
    BY PerformEffect
  <2>1. PICK item, e : Performs(q, r, item, e)
    BY <2>0
  <2>2. /\ thread[q].pc = "Perform" /\ BusyOn(q, r) /\ item = thread[q].item
        /\ thread'[q].pc = "RemoveIfNotPending"
        /\ \A p \in EventQueues : p # q => thread'[p] = thread[p]
        /\ UNCHANGED <<call, method, event_queue, events_queue, sends, send_queue, queue, refused,
                       handler, reads_done>>
    BY <2>1 DEF Performs
  <2>3. /\ e = IF Finishes(r, item) THEN "FINISH" ELSE "WRITE"
        /\ pending'[r] = pending[r] \cup {e} /\ ops'[r] = ops[r] \cup {e} /\ sent'[r] = item.n
        /\ r \in status_sent' <=> r \in status_sent \/ Finishes(r, item)
    BY <2>1 DEF Performs
  <2>4. \A s \in Rpcs : s # r => Kept(s)
    BY <2>1 DEF Kept, Performs
  <2>5. Busy(q)' /\ thread'[q].rpc = r
    BY <2>1 DEF Busy, Performs
  <2>6. ASSUME SameQueue(r), CallOK(r, thread[q].pc, thread[q].item)
        PROVE  CallOK(r, thread[q].pc, thread[q].item)'
    <3>1. CallOK(r, "Perform", item)
      BY <2>2, <2>6
    <3>2. pending[r] \cap {"WRITE", "FINISH"} = {}
      BY <2>2, <2>6 DEF EventsInv, ThreadInv, ThreadOK, BusyOn
    <3>3. "WRITE" \notin pending[r] /\ "FINISH" \notin pending[r] /\ FlagsInv
      BY <3>2 DEF EventsInv
    <3>4. \A item2 : CallOK(r, "RemoveIfNotPending", item2)'
      BY <2>2, <2>3, <2>6, <3>1, <3>3, <1>PerformCallOK
    <3> QED BY <2>2, <3>4
  <2> QED BY <2>2, <2>4, <2>5, <2>6, <1>StepCall
\* RequestStreamingReadIfNeeded.
<1>ReadCall. ASSUME TypeInv, EventsInv, \A s \in Rpcs : CallStateOK(s), NEW q \in EventQueues, Read(q)
      PROVE  \A s \in Rpcs : CallStateOK(s)'
  <2> USE <1>ReadCall
  <2>1. /\ thread[q].pc = "Read"
        /\ IF thread[q].ev = "NEW_CONNECTION" THEN Goto(q, "Clone") ELSE Return(q)
        /\ UNCHANGED <<call, method, event_queue, events_queue, status_sent, sends, sent, send_queue,
                       queue, refused, handler, reads_done>>
    BY DEF Read, At
  <2>2. PICK r \in Rpcs : r = thread[q].rpc /\ BusyOn(q, r)
    BY <2>1 DEF BusyOn, Busy, TypeInv, BusyHaveRpcs
  <2>3. /\ pending' = [pending EXCEPT ![r] = @ \cup {"READ"}]
        /\ ops' = [ops EXCEPT ![r] = @ \cup {"READ"}]
    BY <2>2 DEF Read, RequestStreamingRead, StartOp
  <2>4. /\ pending'[r] = pending[r] \cup {"READ"} /\ ops'[r] = ops[r] \cup {"READ"}
        /\ \A s \in Rpcs : s # r => pending'[s] = pending[s] /\ ops'[s] = ops[s]
    BY <2>3 DEF TypeInv, TypeOK, RpcTypeOK, GrpcTypeOK
  <2>5. \A s \in Rpcs : s # r => Kept(s)
    BY <2>1, <2>4 DEF Kept
  <2>6. /\ Busy(q)' => thread'[q].pc = "Clone" /\ thread'[q].rpc = r
        /\ \A p \in EventQueues : p # q => thread'[p] = thread[p]
    <3>1. CASE Goto(q, "Clone")
      BY <2>2, <3>1, GotoThreads DEF Labels
    <3>2. CASE Return(q)
      BY <3>2, ReturnThreads
    <3> QED BY <2>1, <3>1, <3>2
  <2>7. ASSUME CallOK(r, thread[q].pc, thread[q].item)
        PROVE  \A label2 \in {"Clone", "idle"} : \A item2 : CallOK(r, label2, item2)'
    <3>1. CallOK(r, "Read", thread[q].item)
      BY <2>1, <2>7
    <3> QED BY <2>1, <2>4, <3>1, <1>ReadCallOK
  <2>8. CallOK(r, thread[q].pc, thread[q].item) /\ Busy(q)' =>
          CallOK(r, thread[q].pc, thread[q].item)'
    BY <2>6, <2>7
  <2>9. CallOK(r, thread[q].pc, thread[q].item) /\ ~Busy(q)' => CallOK(r, "idle", NoItem)'
    BY <2>7
  <2> QED BY <2>1, <2>2, <2>5, <2>6, <2>8, <2>9, <1>StepCall
\* A callback of user code returns to Service.
<1>CallbackReturnsCall. ASSUME TypeInv, EventsInv, \A s \in Rpcs : CallStateOK(s), NEW q \in EventQueues,
             CallbackReturns(q)
      PROVE  \A s \in Rpcs : CallStateOK(s)'
  <2> USE <1>CallbackReturnsCall
  <2>1. PICK r \in Rpcs, label \in Callbacks,
             label2 \in {"Read", "OnRequest", "OnReadsDone", "RemoveIfNotPending", "Clone"} :
          CallbackEnds(q, r, label, label2)
    BY CallbackReturnsEffect
  <2>2. /\ BusyOn(q, r) /\ thread[q].pc = label
        /\ \A p \in EventQueues : p # q => thread'[p] = thread[p]
        /\ UNCHANGED <<call, ops, status_sent, method, event_queue, events_queue, pending, sends, sent,
                       send_queue, queue, refused>>
    BY <2>1 DEF CallbackEnds
  <2>3. /\ label2 \in RequestLabels => label \in {"Initialize", "OnRequest"}
        /\ handler'[r] = IF handler[r] = "ending" THEN "ended" ELSE handler[r]
        /\ r \in reads_done' <=> r \in reads_done \/ label = "OnReadsDone"
        /\ Busy(q)' /\ thread'[q].rpc = r /\ thread'[q].pc = label2
    BY <2>1 DEF CallbackEnds
  <2>4. \A s \in Rpcs : s # r => Kept(s)
    BY <2>1 DEF Kept, CallbackEnds
  <2>5. ASSUME CallOK(r, thread[q].pc, thread[q].item)
        PROVE  CallOK(r, thread[q].pc, thread[q].item)'
    <3>1. CallOK(r, label, thread[q].item)
      BY <2>2, <2>5
    <3>2. \A item2 : CallOK(r, label2, item2)'
      BY <2>2, <2>3, <3>1, <1>ReturnCallOK
    <3> QED BY <2>3, <3>2
  <2> QED BY <2>2, <2>3, <2>4, <2>5, <1>StepCall
\* RemoveIfNotPending, and the removal that follows.
<1>RemoveCall. ASSUME TypeInv, EventsInv, \A s \in Rpcs : CallStateOK(s), NEW q \in EventQueues,
             RemoveIfNotPending(q) \/ RemoveAndReturn(q)
      PROVE  \A s \in Rpcs : CallStateOK(s)'
  <2> USE <1>RemoveCall
  <2>1. /\ thread[q].pc \in {"RemoveIfNotPending", "Remove"}
        /\ Goto(q, "Remove") \/ Return(q)
        /\ UNCHANGED <<call, ops, status_sent, method, event_queue, events_queue, pending, sends, sent,
                       send_queue, queue, refused, handler, reads_done>>
    BY DEF RemoveIfNotPending, RemoveAndReturn, At, grpcVars, rpcVars
  <2>2. PICK r \in Rpcs : r = thread[q].rpc /\ BusyOn(q, r)
    BY <2>1 DEF BusyOn, Busy, TypeInv, BusyHaveRpcs
  <2>3. \A s \in Rpcs : s # r => Kept(s)
    BY <2>1 DEF Kept
  <2>4. /\ Busy(q)' => thread'[q].pc = "Remove" /\ thread'[q].rpc = r
        /\ \A p \in EventQueues : p # q => thread'[p] = thread[p]
    <3>1. CASE Goto(q, "Remove")
      BY <2>2, <3>1, GotoThreads DEF Labels
    <3>2. CASE Return(q)
      BY <3>2, ReturnThreads
    <3> QED BY <2>1, <3>1, <3>2
  <2>5. ASSUME CallOK(r, thread[q].pc, thread[q].item)
        PROVE  \A label2 \in {"Remove", "idle"} : \A item2 : CallOK(r, label2, item2)'
    <3>1. Untouched(r)
      BY <2>1 DEF Untouched, SameQueue, Outstanding, Queued
    <3>2. NothingAsked(r)
      BY <2>1 DEF NothingAsked, Queued, FinishIsLast
    <3>3. /\ thread[q].pc \notin Callbacks \cup {"Perform"}
          /\ \A label2 \in {"Remove", "idle"} :
               label2 \notin Callbacks \cup {"Perform", "Read", "HandleSendQueue"}
      BY <2>1 DEF Callbacks
    <3> QED BY <2>5, <3>1, <3>2, <3>3, <1>MoveOnCallOK
  <2>6. CallOK(r, thread[q].pc, thread[q].item) /\ Busy(q)' =>
          CallOK(r, thread[q].pc, thread[q].item)'
    BY <2>4, <2>5
  <2>7. CallOK(r, thread[q].pc, thread[q].item) /\ ~Busy(q)' => CallOK(r, "idle", NoItem)'
    BY <2>5
  <2> QED BY <2>1, <2>2, <2>3, <2>4, <2>6, <2>7, <1>StepCall
\* InternalRpcEvent::Handle.
<1>HandleInternalEventCall. ASSUME TypeInv, EventsInv, \A s \in Rpcs : CallStateOK(s), NEW q \in EventQueues,
             HandleInternalEvent(q)
      PROVE  \A s \in Rpcs : CallStateOK(s)'
  <2> USE <1>HandleInternalEventCall
  <2>1. /\ thread[q].pc = "idle" /\ queue[q] # <<>> /\ Head(queue[q]).ev = "WRITE_NEEDED"
        /\ queue' = [queue EXCEPT ![q] = Tail(@)]
        /\ UNCHANGED <<call, ops, status_sent, method, event_queue, events_queue, pending, sends, sent,
                       send_queue, refused, handler, reads_done>>
    BY DEF HandleInternalEvent, grpcVars
  <2>2. PICK r \in Rpcs : r = Head(queue[q]).rpc /\ Queued(r, "WRITE_NEEDED") /\ q = event_queue[r]
    BY <2>1, HeadEvent
  <2>3. \A s, f : Queued(s, f)' => Queued(s, f)
    BY <2>1, PopQueued DEF Queued
  <2>4. \A s, f : Outstanding(s, f)' => Outstanding(s, f)
    BY <2>1, <2>3 DEF Outstanding
  <2>5. \A s \in Rpcs : NothingAsked(s)
    BY <2>1, <2>3, <1>PopFinishIsLast DEF NothingAsked
  <2>6. CASE thread' = thread
    <3>1. \A s \in Rpcs : NothingAsked(s) /\ ThreadsStay(s)
      BY <2>5, <2>6 DEF ThreadsStay, BusyOn, Busy
    <3> QED BY <2>1, <2>4, <3>1, <1>QuietCall
  <2>7. CASE thread' = [thread EXCEPT ![q] = [pc |-> "HandleSendQueue", ev |-> "WRITE_NEEDED",
                                              rpc |-> r, item |-> NoItem]]
    <3>1. /\ thread'[q].pc = "HandleSendQueue" /\ thread'[q].rpc = r
          /\ \A p \in EventQueues : p # q => thread'[p] = thread[p]
      BY SMT, <2>7 DEF TypeInv, TypeOK, ServiceTypeOK
    <3>2. Busy(q)' /\ ~Busy(q)
      BY <2>1, <3>1 DEF Busy
    <3>3. \A s \in Rpcs : Untouched(s)
      BY <2>1, <2>4 DEF Untouched, SameQueue
    <3>4. ASSUME NEW s \in Rpcs, s # r PROVE CallStateOK(s)'
      <4>1. ThreadsStay(s)
        BY <3>1, <3>2, <3>4 DEF ThreadsStay, BusyOn, Busy
      <4> QED BY <2>5, <3>3, <4>1, <1>UntouchedCallState
    <3>5. ASSUME SameQueue(r), CallOK(r, "idle", NoItem)
          PROVE  CallOK(r, thread[q].pc, thread[q].item)'
      <4>1. CallOK(r, "idle", NoItem)'
        BY <2>5, <3>3, <3>5, <1>UntouchedCallOK
      <4>2. handler'[r] # "ending"
        BY <2>1, <3>5 DEF CallOK, HandlerOK, Callbacks
      <4>3. "HandleSendQueue" \notin RequestLabels \cup Callbacks \cup {"Read", "Perform"}
        BY DEF RequestLabels, Callbacks
      <4>4. Writers = {} /\ r \in status_sent' => "FINISH" \in pending'[r]
        BY <2>1, <2>2, <3>5 DEF CallOK, FinishOK, NothingAfterFinish
      <4>5. \A item2 : CallOK(r, "HandleSendQueue", item2)'
        <5> HIDE <2>7
        <5>1. TAKE item2
        <5>2. /\ "idle" # "Perform" /\ "HandleSendQueue" # "Perform"
              /\ handler'[r] = "none" => "HandleSendQueue" \notin Callbacks \cup {"Read"}
              /\ handler'[r] = "ending" => "HandleSendQueue" \in Callbacks
          BY <4>2, <4>3
        <5> QED BY <4>1, <4>3, <4>4, <5>2, <1>RelabelCallOK
      <4> QED BY <3>1, <4>5
    <3>6. call'[r] # "none" /\ (SameQueue(r)' <=> SameQueue(r)) /\ RoutingInv /\ CallStateOK(r)
      <4>1. ConnectionOK(r)
        BY DEF EventsInv, ConnectionInv
      <4>2. call[r] # "none"
        <5>1. /\ "WRITE_NEEDED" \in CqEvents \cup {"WRITE_NEEDED"}
              /\ "WRITE_NEEDED" \notin {"NEW_CONNECTION", "DONE"}
          OBVIOUS
        <5>2. ~Quiet(r)
          BY <2>2, <5>1 DEF Quiet
        <5> QED BY <4>1, <5>2 DEF ConnectionOK
      <4> QED BY <2>1, <4>2 DEF SameQueue, EventsInv
    <3>7. CallStateOK(r)'
      BY <2>2, <3>1, <3>2, <3>5, <3>6, <1>BeginCallState
    <3> QED BY <3>4, <3>7
  <2> QED BY <2>1, <2>2, <2>6, <2>7 DEF HandleInternalEvent
\* StartServing or Clone constructs an Rpc.
<1>CreateCall. ASSUME TypeInv, EventsInv, \A s \in Rpcs : CallStateOK(s), NEW r \in Rpcs, NEW c, NEW m,
             NEW eq \in EventQueues, NEW rq \in EventQueues,
             Construct(r, m, c, eq, rq), RequestNextMethodInvocation(r, c),
             UNCHANGED <<queue, handler, send_queue, sends, sent, status_sent, reads_done, refused>>,
             \A s \in Rpcs : s # r /\ CallStateOK(s) /\ SameQueue(s) =>
               \/ ThreadsStay(s)
               \/ /\ \A p \in EventQueues : ~BusyOn(p, s)'
                  /\ CallOK(s, "idle", NoItem),
             \A p \in EventQueues : BusyOn(p, r)' => BusyOn(p, r)
      PROVE  \A s \in Rpcs : CallStateOK(s)'
  <2> USE <1>CreateCall
  <2>1. /\ call[r] = "none"
        /\ ops' = [ops EXCEPT ![r] = @ \cup {"NEW_CONNECTION"}]
        /\ pending' = [pending EXCEPT ![r] = {"DONE", "NEW_CONNECTION"}]
        /\ call' = [call EXCEPT ![r] = "requested"]
        /\ events_queue' = [events_queue EXCEPT ![r] = eq]
        /\ event_queue' = [event_queue EXCEPT ![r] = rq]
        /\ method' = [method EXCEPT ![r] = m]
    BY DEF Construct, RequestNextMethodInvocation, StartOp
  <2>2. /\ ops'[r] = ops[r] \cup {"NEW_CONNECTION"}
        /\ pending'[r] = {"DONE", "NEW_CONNECTION"} /\ call'[r] = "requested"
        /\ \A s \in Rpcs : s # r =>
             /\ ops'[s] = ops[s] /\ pending'[s] = pending[s] /\ call'[s] = call[s]
             /\ events_queue'[s] = events_queue[s] /\ event_queue'[s] = event_queue[s]
             /\ method'[s] = method[s]
    BY <2>1 DEF TypeInv, TypeOK, GrpcTypeOK, RpcTypeOK
  <2>3. \A s \in Rpcs : NothingAsked(s)
    BY DEF NothingAsked, Queued, FinishIsLast
  <2>4. ASSUME NEW s \in Rpcs, s # r PROVE CallStateOK(s)'
    <3>1. SameQueue(s)' <=> SameQueue(s)
      BY <2>2, <2>4 DEF SameQueue
    <3>2. Untouched(s)
      BY <2>2, <2>4, <3>1 DEF Untouched, Outstanding, Queued
    <3>3. CASE ~SameQueue(s)
      BY <2>2, <2>4, <3>1, <3>3 DEF CallStateOK, Fresh
    <3>4. CASE ThreadsStay(s)
      BY <2>3, <3>2, <3>4, <1>UntouchedCallState
    <3>5. CASE (\A p \in EventQueues : ~BusyOn(p, s)') /\ CallOK(s, "idle", NoItem)
      <4>1. CallOK(s, "idle", NoItem)'
        BY <2>3, <3>2, <3>5, <1>UntouchedCallOK
      <4>2. call'[s] = "none" => Fresh(s)'
        BY <2>2, <2>4 DEF CallStateOK, Fresh
      <4> QED BY <3>5, <4>1, <4>2 DEF CallStateOK
    <3> QED BY <2>4, <3>3, <3>4, <3>5
  <2>5. CallStateOK(r)'
    <3>1. Fresh(r) /\ ConnectionOK(r)
      BY <2>1 DEF CallStateOK, EventsInv, ConnectionInv
    <3>2. /\ \A p \in EventQueues : ~BusyOn(p, r)'
          /\ \A e \in CqEvents : ~Outstanding(r, e)
      BY <2>1, <3>1 DEF ConnectionOK, Quiet
    <3>3. \A e \in {"READ", "WRITE", "FINISH"} : ~Outstanding(r, e)'
      BY <2>2, <3>2 DEF Outstanding, Queued, CqEvents
    <3>4. "FINISH" \notin pending'[r]
      BY <2>2
    <3>5. "idle" \notin Callbacks \cup {"Read", "Perform", "HandleSendQueue"} \cup RequestLabels
      BY DEF Callbacks, RequestLabels
    <3>6. HandlerOK(r, "idle")' /\ ReadsOK(r, "idle")'
      BY <3>1, <3>3, <3>4, <3>5 DEF HandlerOK, ReadsOK, Fresh
    <3>7. ~FinishTaken(r, "idle", NoItem)' /\ \A i \in 1 .. Len(send_queue'[r]) : FALSE
      BY SMT, <3>1 DEF FinishTaken, Fresh
    <3>8. FinishOK(r, "idle", NoItem)'
      BY <3>1, <3>7 DEF FinishOK, LastFinishes, NothingAfterFinish, Fresh
    <3>9. NumberOK(r, "idle", NoItem)'
      BY SMT, <3>1 DEF NumberOK, Fresh
    <3> QED BY <2>2, <3>2, <3>6, <3>8, <3>9 DEF CallStateOK, CallOK
  <2> QED BY <2>4, <2>5
\* A thread that has ended its work on an Rpc, and the others.
<1>ReturnedCall. ASSUME TypeInv, EventsInv, \A s \in Rpcs : CallStateOK(s), NEW q \in EventQueues,
             thread[q].pc = "Clone", Return(q), NEW s \in Rpcs, SameQueue(s)
      PROVE  \/ ThreadsStay(s)
             \/ (\A p \in EventQueues : ~BusyOn(p, s)') /\ CallOK(s, "idle", NoItem)
  <2> USE <1>ReturnedCall
  <2>1. ~Busy(q)' /\ \A p \in EventQueues : p # q => thread'[p] = thread[p]
    BY ReturnThreads
  <2>2. CASE thread[q].rpc # s
    BY <2>1, <2>2 DEF ThreadsStay, BusyOn, Busy
  <2>3. CASE thread[q].rpc = s
    <3>1. BusyOn(q, s)
      BY <2>3 DEF BusyOn, Busy
    <3>2. \A p \in EventQueues : BusyOn(p, s) => p = q
      BY <3>1, OneThread DEF EventsInv, BusyOn
    <3>3. \A p \in EventQueues : ~BusyOn(p, s)'
      BY <2>1, <3>2 DEF BusyOn, Busy
    <3>4. CallOK(s, "Clone", thread[q].item)
      BY <3>1 DEF CallStateOK
    <3>5. "Clone" \notin Callbacks \cup RequestLabels \cup {"Perform", "Read", "HandleSendQueue"}
          /\ "idle" \notin Callbacks \cup RequestLabels \cup {"Perform", "Read", "HandleSendQueue"}
      BY DEF Callbacks, RequestLabels
    <3>6. HandlerOK(s, "idle") /\ ReadsOK(s, "idle") /\ NumberOK(s, "idle", NoItem)
      BY <3>4, <3>5 DEF CallOK, HandlerOK, ReadsOK, NumberOK
    <3>7. FinishOK(s, "idle", NoItem)
      BY <3>4, <3>5 DEF CallOK, FinishOK, FinishTaken, LastFinishes, NothingAfterFinish
    <3> QED BY <3>3, <3>6, <3>7 DEF CallOK
  <2> QED BY <2>2, <2>3
\* HandleNewConnection ends with the clone.
<1>CloneCall. ASSUME TypeInv, EventsInv, \A s \in Rpcs : CallStateOK(s), NEW q \in EventQueues, Clone(q)
      PROVE  \A s \in Rpcs : CallStateOK(s)'
  <2> USE <1>CloneCall
  <2>1. /\ thread[q].pc = "Clone" /\ Return(q)
        /\ UNCHANGED <<queue, handler, send_queue, sends, sent, status_sent, reads_done, refused>>
    BY DEF Clone, At
  <2>2. current_event_queue_id' \in EventQueues
    BY RoundRobinType DEF Clone, TypeInv, TypeOK, ServiceTypeOK
  <2>3. event_queue[thread[q].rpc] \in EventQueues
    BY <2>1 DEF Busy, TypeInv, TypeOK, RpcTypeOK, BusyHaveRpcs
  <2>4. PICK new \in Rpcs :
          /\ Construct(new, method[thread[q].rpc], cq[thread[q].rpc], event_queue[thread[q].rpc],
                       current_event_queue_id')
          /\ RequestNextMethodInvocation(new, cq[thread[q].rpc])
    BY DEF Clone, CloneTo
  <2>5. \A s \in Rpcs : s # new /\ CallStateOK(s) /\ SameQueue(s) =>
          \/ ThreadsStay(s)
          \/ (\A p \in EventQueues : ~BusyOn(p, s)') /\ CallOK(s, "idle", NoItem)
    BY <2>1, <1>ReturnedCall
  <2>6. \A p \in EventQueues : BusyOn(p, new)' => BusyOn(p, new)
    BY <2>1, ReturnThreads DEF BusyOn, Busy
  <2> QED BY <2>1, <2>2, <2>3, <2>4, <2>5, <2>6, <1>CreateCall
\* Service::StartServing.
<1>StartServingCall. ASSUME TypeInv, EventsInv, \A s \in Rpcs : CallStateOK(s), StartServing
      PROVE  \A s \in Rpcs : CallStateOK(s)'
  <2> USE <1>StartServingCall
  <2>1. UNCHANGED <<queue, handler, send_queue, sends, sent, status_sent, reads_done, refused, thread>>
    BY DEF StartServing
  <2>2. current_event_queue_id' \in EventQueues
    BY RoundRobinType DEF StartServing, TypeInv, TypeOK, ServiceTypeOK
  <2>3. PICK r \in Rpcs, m \in Methods, c \in CompletionQueues :
          /\ Construct(r, m, c, current_event_queue_id', current_event_queue_id')
          /\ RequestNextMethodInvocation(r, c)
    BY DEF StartServing
  <2>4. \A s \in Rpcs : ThreadsStay(s)
    BY <2>1 DEF ThreadsStay, BusyOn, Busy
  <2>5. \A p \in EventQueues : BusyOn(p, r)' => BusyOn(p, r)
    BY <2>1 DEF BusyOn, Busy
  <2>6. \A s \in Rpcs : s # r /\ CallStateOK(s) /\ SameQueue(s) =>
          \/ ThreadsStay(s)
          \/ (\A p \in EventQueues : ~BusyOn(p, s)') /\ CallOK(s, "idle", NoItem)
    BY <2>4
  <2> QED BY <2>1, <2>2, <2>3, <2>5, <2>6, <1>CreateCall
\* RpcHandler::Send and RpcHandler::Finish, in a callback.
<1>HandlerSendCall. ASSUME TypeInv, EventsInv, \A s \in Rpcs : CallStateOK(s), NEW q \in EventQueues,
             NEW msg \in BOOLEAN, HandlerSend(q, msg)
      PROVE  \A s \in Rpcs : CallStateOK(s)'
  <2> USE <1>HandlerSendCall
  <2>1. /\ thread[q].pc \in Callbacks
        /\ UNCHANGED <<call, ops, status_sent, method, event_queue, events_queue, pending, sent,
                       refused, thread, reads_done>>
    BY DEF HandlerSend, At
  <2>2. PICK r \in Rpcs : r = thread[q].rpc /\ BusyOn(q, r)
    BY <2>1 DEF BusyOn, Busy, TypeInv, BusyHaveRpcs, Callbacks
  <2>3. /\ HandlerMaySend(r) /\ EnqueueMessage(r, msg)
        /\ Push(event_queue[r], "WRITE_NEEDED", r, TRUE)
        /\ handler' = IF handler[r] = "open" /\ Finishes(r, [msg |-> msg])
                      THEN [handler EXCEPT ![r] = "ending"] ELSE handler
    BY <2>2 DEF HandlerSend, PushWriteNeeded
  <2>4. /\ handler'[r] = IF handler[r] = "open" /\ Finishes(r, [msg |-> msg]) THEN "ending" ELSE handler[r]
        /\ \A s \in Rpcs : s # r => handler'[s] = handler[s]
    BY SMT, <2>3 DEF TypeInv, TypeOK, ServiceTypeOK
  <2>5. /\ sends'[r] = sends[r] + 1
        /\ send_queue'[r] = Append(send_queue[r], [msg |-> msg, n |-> sends[r] + 1])
        /\ \A s \in Rpcs : s # r => sends'[s] = sends[s] /\ send_queue'[s] = send_queue[s]
    BY <2>3, EnqueueEffect
  <2>6. \A s, f : Queued(s, f)' <=> Queued(s, f) \/ (s = r /\ f = "WRITE_NEEDED")
    <3>1. event_queue[r] \in EventQueues
      BY DEF TypeInv, TypeOK, RpcTypeOK
    <3> QED BY <2>3, <3>1, PushQueued DEF Queued
  <2>7. "WRITE_NEEDED" \notin CqEvents
    BY DEF CqEvents
  <2>8. \A s : \A e \in CqEvents : Outstanding(s, e)' <=> Outstanding(s, e)
    BY <2>1, <2>6, <2>7 DEF Outstanding
  <2>9. \A s \in Rpcs : SameQueue(s)' <=> SameQueue(s)
    BY <2>1 DEF SameQueue
  <2>10. ASSUME NEW s \in Rpcs, s # r PROVE CallStateOK(s)'
    <3>1. \A e \in {"NEW_CONNECTION", "READ", "WRITE", "FINISH"} : e \in CqEvents
      BY DEF CqEvents
    <3>2. Untouched(s)
      BY <2>1, <2>4, <2>5, <2>8, <2>9, <2>10, <3>1 DEF Untouched
    <3>3. event_queue[r] \in EventQueues
      BY DEF TypeInv, TypeOK, RpcTypeOK
    <3>4. FinishIsLast(s) => FinishIsLast(s)'
      BY <2>3, <2>10, <3>3, <1>PushFinishIsLast
    <3>5. NothingAsked(s)
      BY <2>6, <2>10, <3>4 DEF NothingAsked
    <3>6. ThreadsStay(s)
      BY <2>1 DEF ThreadsStay, BusyOn, Busy
    <3> QED BY <3>2, <3>5, <3>6, <1>UntouchedCallState
  <2>11. ASSUME CallOK(r, thread[q].pc, thread[q].item)
         PROVE  CallOK(r, thread[q].pc, thread[q].item)'
    <3>1. /\ handler[r] = "open" \/ (handler[r] = "ending" /\ Overrun # "nothing")
          /\ handler'[r] = handler[r] \/ (Finishes(r, [msg |-> msg]) /\ handler'[r] \in {"ending", "ended"})
          /\ handler[r] = "open" /\ Finishes(r, [msg |-> msg]) => handler'[r] # "open"
          /\ handler'[r] = "ending" => thread[q].pc \in Callbacks
      <4>1. handler[r] = "open" \/ (handler[r] = "ending" /\ Overrun # "nothing")
        BY <2>3 DEF HandlerMaySend
      <4> QED BY SMT, <2>1, <2>4, <4>1
    <3>2. CallOK(r, thread[q].pc, thread[q].item) => CallOK(r, thread[q].pc, thread[q].item)'
      <4>1. ASSUME NEW label, NEW item, label = thread[q].pc, item = thread[q].item
            PROVE  CallOK(r, label, item)'
        <5>1. CallOK(r, label, item) /\ (handler'[r] = "ending" => label \in Callbacks)
          BY <2>11, <3>1, <4>1
        <5> QED BY <2>1, <2>5, <2>8, <3>1, <5>1, <1>SendCallOK
      <4> QED BY <2>1, <4>1
    <3> QED BY <2>11, <3>2
  <2>12. CallStateOK(r)'
    <3>1. call'[r] # "none"
      BY <2>1, <2>2, CallbackRpc
    <3>2. /\ \A p \in EventQueues : p # q => thread'[p] = thread[p]
          /\ Busy(q)' /\ thread'[q].rpc = r /\ CallStateOK(r) /\ RoutingInv
      BY <2>1, <2>2 DEF EventsInv, BusyOn, Busy
    <3> QED BY <2>2, <2>9, <2>11, <3>1, <3>2, <1>ThreadCallState
  <2> QED BY <2>10, <2>12
\* A Writer enqueues a message, on a call that it knows to be open.
<1>WriterEnqueueCall. ASSUME TypeInv, EventsInv, Overrun = "nothing" \/ Writers = {}, \A s \in Rpcs : CallStateOK(s),
             NEW w \in Writers, NEW msg \in BOOLEAN, WriterEnqueue(w, msg)
      PROVE  \A s \in Rpcs : CallStateOK(s)'
  <2> USE <1>WriterEnqueueCall
  <2>1. PICK r \in Rpcs : r = writer[w].rpc
    BY DEF WriterEnqueue, TypeInv, TypeOK, ServiceTypeOK
  <2>2. /\ handler[r] = "open" /\ EnqueueMessage(r, msg)
        /\ handler' = IF handler[r] = "open" /\ Finishes(r, [msg |-> msg])
                      THEN [handler EXCEPT ![r] = "ended"] ELSE handler
        /\ UNCHANGED <<call, ops, status_sent, method, event_queue, events_queue, pending, sent,
                       queue, refused, thread, reads_done>>
    BY <2>1 DEF WriterEnqueue, WriterMaySend, grpcVars
  <2>3. /\ handler'[r] = IF Finishes(r, [msg |-> msg]) THEN "ended" ELSE "open"
        /\ \A s \in Rpcs : s # r => handler'[s] = handler[s]
    BY SMT, <2>2 DEF TypeInv, TypeOK, ServiceTypeOK
  <2>4. /\ sends'[r] = sends[r] + 1
        /\ send_queue'[r] = Append(send_queue[r], [msg |-> msg, n |-> sends[r] + 1])
        /\ \A s \in Rpcs : s # r => sends'[s] = sends[s] /\ send_queue'[s] = send_queue[s]
    BY <2>2, EnqueueEffect
  <2>5. \A s, e : Outstanding(s, e)' <=> Outstanding(s, e)
    BY <2>2 DEF Outstanding, Queued
  <2>6. \A s \in Rpcs : SameQueue(s)' <=> SameQueue(s)
    BY <2>2 DEF SameQueue
  <2>7. ASSUME NEW s \in Rpcs, s # r PROVE CallStateOK(s)'
    <3>1. Untouched(s)
      BY <2>2, <2>3, <2>4, <2>5, <2>6, <2>7 DEF Untouched
    <3>2. NothingAsked(s)
      BY <2>2 DEF NothingAsked, Queued, FinishIsLast
    <3>3. ThreadsStay(s)
      BY <2>2 DEF ThreadsStay, BusyOn, Busy
    <3> QED BY <3>1, <3>2, <3>3, <1>UntouchedCallState
  <2>8. ASSUME NEW label, NEW item, CallOK(r, label, item)
        PROVE  CallOK(r, label, item)'
    <3>1. /\ handler'[r] = handler[r] \/ (Finishes(r, [msg |-> msg]) /\ handler'[r] \in {"ending", "ended"})
          /\ handler[r] = "open" /\ Finishes(r, [msg |-> msg]) => handler'[r] # "open"
          /\ handler'[r] = "ending" => label \in Callbacks
      BY SMT, <2>2, <2>3
    <3>2. \A e \in CqEvents : Outstanding(r, e)' <=> Outstanding(r, e)
      BY <2>5
    <3> QED BY <2>2, <2>4, <2>8, <3>1, <3>2, <1>SendCallOK
  <2>9. CallStateOK(r)'
    <3>1. call'[r] # "none"
      BY <2>1, <2>2, WriterRpc
    <3>2. \A p \in EventQueues : BusyOn(p, r)' <=> BusyOn(p, r)
      BY <2>2 DEF BusyOn, Busy
    <3>3. ASSUME SameQueue(r), NEW p \in EventQueues, BusyOn(p, r)
          PROVE  CallOK(r, thread[p].pc, thread[p].item)'
      <4>1. CallOK(r, thread[p].pc, thread[p].item)
        BY <3>3 DEF CallStateOK
      <4>2. ASSUME NEW label, NEW item, label = thread[p].pc, item = thread[p].item
            PROVE  CallOK(r, label, item)'
        BY <2>8, <4>1, <4>2
      <4> QED BY <2>2, <4>2
    <3>4. ASSUME SameQueue(r), \A p \in EventQueues : ~BusyOn(p, r)
          PROVE  CallOK(r, "idle", NoItem)'
      BY <2>8, <3>4 DEF CallStateOK
    <3> QED BY <2>6, <3>1, <3>2, <3>3, <3>4 DEF CallStateOK
  <2> QED BY <2>7, <2>9
\* The rest of the Writer's call.
<1>WriterPushCall. ASSUME TypeInv, \A s \in Rpcs : CallStateOK(s), NEW w \in Writers, writer[w].rpc \in Rpcs, WriterPush(w)
      PROVE  \A s \in Rpcs : CallStateOK(s)'
  <2> USE <1>WriterPushCall
  <2>1. PICK r \in Rpcs : r = writer[w].rpc
    OBVIOUS
  <2>2. /\ Push(event_queue[r], "WRITE_NEEDED", r, TRUE)
        /\ UNCHANGED <<call, ops, status_sent, method, event_queue, events_queue, pending, sends, sent,
                       send_queue, refused, thread, handler, reads_done>>
    BY <2>1 DEF WriterPush, PushWriteNeeded
  <2>3. \A s, f : Queued(s, f)' <=> Queued(s, f) \/ (s = r /\ f = "WRITE_NEEDED")
    <3>1. event_queue[r] \in EventQueues
      BY DEF TypeInv, TypeOK, RpcTypeOK
    <3> QED BY <2>2, <3>1, PushQueued DEF Queued
  <2>4. "WRITE_NEEDED" \notin CqEvents
    BY DEF CqEvents
  <2>5. \A s \in Rpcs : \A e \in CqEvents \ {"DONE"} : Outstanding(s, e)' => Outstanding(s, e)
    BY <2>2, <2>3, <2>4 DEF Outstanding
  <2>6. \A s \in Rpcs : NothingAsked(s) /\ ThreadsStay(s)
    BY <2>2 DEF NothingAsked, ThreadsStay, BusyOn, Busy
  <2> QED BY <2>2, <2>5, <2>6, <1>QuietCall
\* A completion queue thread moves an event to the event queue.
<1>RunCompletionQueueCall. ASSUME TypeInv, \A s \in Rpcs : CallStateOK(s), fault' = "none", NEW r \in Rpcs, NEW e \in CqEvents,
             NEW ok \in BOOLEAN, RunCompletionQueue(r, e, ok)
      PROVE  \A s \in Rpcs : CallStateOK(s)'
  <2> USE <1>RunCompletionQueueCall
  <2>1. /\ e \in ops[r]
        /\ ops' = [ops EXCEPT ![r] = @ \ {e}]
        /\ Push(events_queue[r], e, r, ok)
        /\ UNCHANGED <<call, status_sent, method, event_queue, events_queue, pending, sends, sent,
                       send_queue, refused, thread, handler, reads_done>>
    BY DEF RunCompletionQueue, MayReturn, serviceVars
  <2>2. events_queue[r] \in EventQueues /\ e # "WRITE_NEEDED"
    BY DEF TypeInv, TypeOK, RpcTypeOK, CqEvents
  <2>3. \A s, f : Queued(s, f)' <=> Queued(s, f) \/ (s = r /\ f = e)
    BY <2>1, <2>2, PushQueued DEF Queued
  <2>4. \A s \in Rpcs : ops'[s] \subseteq ops[s]
    BY <2>1 DEF TypeInv, TypeOK, GrpcTypeOK
  <2>5. \A s \in Rpcs : \A f \in CqEvents \ {"DONE"} : Outstanding(s, f)' => Outstanding(s, f)
    BY <2>1, <2>3, <2>4 DEF Outstanding
  <2>6. \A s \in Rpcs : FinishIsLast(s) => FinishIsLast(s)'
    BY <2>1, <2>2, <1>PushFinishIsLast
  <2>7. \A s \in Rpcs : NothingAsked(s)
    BY <2>2, <2>3, <2>6 DEF NothingAsked
  <2>8. \A s \in Rpcs : ThreadsStay(s)
    BY <2>1 DEF ThreadsStay, BusyOn, Busy
  <2>9. \A s \in Rpcs : NothingAsked(s) /\ ThreadsStay(s)
    BY <2>7, <2>8
  <2>10. \A s \in Rpcs : call'[s] = "none" => call[s] = "none"
    BY <2>1
  <2> QED BY <2>1, <2>5, <2>9, <2>10, <1>QuietCall
\* What clients do to their calls.
<1>ClientStepCall. ASSUME TypeInv, \A s \in Rpcs : CallStateOK(s), NEW r \in Rpcs, ClientStep(r)
      PROVE  \A s \in Rpcs : CallStateOK(s)'
  <2> USE <1>ClientStepCall
  <2>1. /\ UNCHANGED <<status_sent, method, event_queue, events_queue, pending, sends, sent, send_queue,
                       queue, refused, thread, handler, reads_done>>
        /\ \E c \in {"open", "closed"} : call' = [call EXCEPT ![r] = c]
        /\ ops' = ops \/ ops' = [ops EXCEPT ![r] = @ \cup {"DONE"}]
    BY DEF ClientStep, ClientCall, CallCloses, rpcVars, serviceVars
  <2>2. \A s \in Rpcs : call'[s] = "none" => call[s] = "none"
    BY <2>1 DEF TypeInv, TypeOK, GrpcTypeOK
  <2>3. \A s \in Rpcs : \A e \in CqEvents \ {"DONE"} : e \in ops'[s] => e \in ops[s]
    <3>1. \A s \in Rpcs : ops'[s] = ops[s] \/ ops'[s] = ops[s] \cup {"DONE"}
      <4>1. ops \in [Rpcs -> SUBSET CqEvents]
        BY DEF TypeInv, TypeOK, GrpcTypeOK
      <4> QED BY <2>1, <4>1
    <3> QED BY <3>1
  <2>4. \A s \in Rpcs : \A e \in CqEvents \ {"DONE"} : Outstanding(s, e)' => Outstanding(s, e)
    BY <2>1, <2>3 DEF Outstanding, Queued
  <2>5. \A s \in Rpcs : NothingAsked(s)
    <3>1. \A s \in Rpcs : Queued(s, "WRITE_NEEDED")' <=> Queued(s, "WRITE_NEEDED")
      BY <2>1 DEF Queued
    <3>2. \A s \in Rpcs : FinishIsLast(s) => FinishIsLast(s)'
      BY <2>1 DEF FinishIsLast
    <3> QED BY <3>1, <3>2 DEF NothingAsked
  <2>6. \A s \in Rpcs : NothingAsked(s) /\ ThreadsStay(s)
    BY <2>1, <2>5 DEF ThreadsStay, BusyOn, Busy
  <2> QED BY <2>1, <2>2, <2>4, <2>6, <1>QuietCall
\* An event thread leaves RunEventQueue.
<1>EventThreadReturnsCall. ASSUME TypeInv, \A s \in Rpcs : CallStateOK(s), NEW q \in EventQueues, EventThreadReturns(q)
      PROVE  \A s \in Rpcs : CallStateOK(s)'
  <2> USE <1>EventThreadReturnsCall
  <2>1. /\ UNCHANGED <<call, ops, status_sent, method, event_queue, events_queue, pending, sends, sent,
                       send_queue, queue, refused, handler, reads_done>>
        /\ thread[q].pc = "idle" /\ Goto(q, "exited")
    BY DEF EventThreadReturns, grpcVars, rpcVars
  <2>2. thread'[q].pc = "exited" /\ \A p \in EventQueues : p # q => thread'[p] = thread[p]
    BY <2>1, GotoThreads DEF Labels
  <2>3. \A s \in Rpcs : ThreadsStay(s)
    BY <2>1, <2>2 DEF ThreadsStay, BusyOn, Busy
  <2>4. \A s \in Rpcs : NothingAsked(s)
    BY <2>1 DEF NothingAsked, Queued, FinishIsLast
  <2>5. \A s \in Rpcs : \A e \in CqEvents \ {"DONE"} : Outstanding(s, e)' => Outstanding(s, e)
    BY <2>1 DEF Outstanding, Queued
  <2>6. \A s \in Rpcs : NothingAsked(s) /\ ThreadsStay(s)
    BY <2>3, <2>4
  <2>7. \A s \in Rpcs : call'[s] = "none" => call[s] = "none"
    BY <2>1
  <2> QED BY <2>1, <2>5, <2>6, <2>7, <1>QuietCall
<1> SUFFICES ASSUME ~RequestsMayFail,
                    Overrun = "nothing" \/ Writers = {},
                    TypeInv,
                    LifetimeInv,
                    CallInv,
                    [Next]_vars
             PROVE  CallInv'
  OBVIOUS
<1> SUFFICES ASSUME fault' = "none" PROVE \A s \in Rpcs : CallStateOK(s)'
  BY DEF CallInv
<1>0. fault = "none" /\ EventsInv /\ \A s \in Rpcs : CallStateOK(s)
  BY DEF CallInv, LifetimeInv, Next, Stopped, vars, grpcVars
<1>1. CASE UNCHANGED vars
  BY <1>0, <1>1, <1>FrameCall DEF vars, grpcVars, rpcVars, serviceVars
<1>2. CASE StartThreads \/ Shutdown \/ GrpcServerIsDown \/ CompletionQueuesJoined
           \/ EventQueuesJoined
  BY <1>0, <1>2, <1>FrameCall
     DEF StartThreads, Shutdown, GrpcServerIsDown, CompletionQueuesJoined,
         EventQueuesJoined, grpcVars, rpcVars, serviceVars
<1>3. CASE ShutdownGrpcServer
  BY <1>0, <1>3, <1>FrameCall DEF ShutdownGrpcServer, rpcVars, serviceVars
<1>4. ASSUME NEW s \in Services, StopService(s) PROVE \A x \in Rpcs : CallStateOK(x)'
  BY <1>0, <1>4, <1>FrameCall DEF StopService, grpcVars, rpcVars
<1>5. ASSUME NEW c \in CompletionQueues, ShutdownCompletionQueue(c)
      PROVE  \A x \in Rpcs : CallStateOK(x)'
  BY <1>0, <1>5, <1>FrameCall DEF ShutdownCompletionQueue, rpcVars, serviceVars
<1>6. ASSUME NEW q \in EventQueues, HandleEvent(q) PROVE \A x \in Rpcs : CallStateOK(x)'
  BY <1>0, <1>6, <1>HandleInternalEventCall, <1>HandleCompletionQueueEventCall DEF HandleEvent
<1>7. ASSUME NEW q \in EventQueues, UseAfterFree(q) \/ RemoveAndClone(q) PROVE FALSE
  BY <1>0, <1>7 DEF UseAfterFree, RemoveAndClone, At, EventsInv, ShutdownInv
<1>8. ASSUME NEW q \in EventQueues, ServiceStep(q) PROVE \A x \in Rpcs : CallStateOK(x)'
  BY <1>0, <1>7, <1>8, <1>HandleSendQueueCall, <1>PerformCall, <1>ReadCall, <1>CloneCall, <1>RemoveCall,
     <1>CallbackReturnsCall DEF ServiceStep
<1>9. ASSUME NEW q \in EventQueues, CallbackStep(q) PROVE \A x \in Rpcs : CallStateOK(x)'
  <2>1. ASSUME NEW w \in Writers, GetWriter(q, w) PROVE \A x \in Rpcs : CallStateOK(x)'
    BY <1>0, <2>1, <1>FrameCall DEF GetWriter, rpcVars
  <2> QED BY <1>0, <1>9, <2>1, <1>HandlerSendCall DEF CallbackStep
<1>10. ASSUME NEW q \in EventQueues, EventThreadReturns(q) PROVE \A x \in Rpcs : CallStateOK(x)'
  BY <1>0, <1>10, <1>EventThreadReturnsCall
<1>11. ASSUME NEW w \in Writers, WriterStep(w) PROVE \A x \in Rpcs : CallStateOK(x)'
  <2>1. ASSUME WriterPush(w) PROVE writer[w].rpc \in Rpcs
    BY <2>1 DEF WriterPush, TypeInv, BusyHaveRpcs
  <2> QED BY <1>0, <1>11, <2>1, <1>WriterPushCall, <1>WriterEnqueueCall DEF WriterStep
<1>12. ASSUME NEW r \in Rpcs, ClientStep(r) PROVE \A x \in Rpcs : CallStateOK(x)'
  BY <1>0, <1>12, <1>ClientStepCall
<1>13. ASSUME NEW r \in Rpcs, NEW e \in CqEvents, NEW ok \in BOOLEAN, RunCompletionQueue(r, e, ok)
       PROVE  \A x \in Rpcs : CallStateOK(x)'
  BY <1>0, <1>13, <1>RunCompletionQueueCall
<1> QED
  BY <1>0, <1>1, <1>2, <1>3, <1>4, <1>5, <1>6, <1>8, <1>9, <1>10, <1>11, <1>12, <1>13,
     <1>StartServingCall DEF Next, Step, Stopped, MainStep

\* Before Server::Start nothing was sent, read or refused.
LEMMA InitCallInv == Init => CallInv
<1> SUFFICES ASSUME Init, NEW r \in Rpcs PROVE CallStateOK(r)
  BY DEF CallInv
<1>1. /\ \A q \in EventQueues : thread[q].pc = "idle" /\ Len(queue[q]) = 0
      /\ ops[r] = {} /\ pending[r] = {} /\ handler[r] = "none"
      /\ send_queue[r] = <<>> /\ sends[r] = 0 /\ sent[r] = 0
      /\ r \notin status_sent /\ r \notin reads_done /\ r \notin refused
  BY DEF Init, GrpcInit, RpcInit, ServiceInit, Idle
<1>2. \A e : ~Outstanding(r, e)
  BY SMT, <1>1 DEF Outstanding, Queued, QueuedIn
<1>3. \A q \in EventQueues : ~BusyOn(q, r)
  BY <1>1 DEF BusyOn, Busy
<1>4. Fresh(r)
  BY <1>1 DEF Fresh
<1>5. HandlerOK(r, "idle") /\ ReadsOK(r, "idle")
  BY SMT, <1>1, <1>2 DEF HandlerOK, ReadsOK, Callbacks, RequestLabels
<1>6. FinishOK(r, "idle", NoItem)
  BY SMT, <1>1 DEF FinishOK, FinishTaken, LastFinishes, NothingAfterFinish
<1>7. NumberOK(r, "idle", NoItem)
  BY SMT, <1>1 DEF NumberOK
<1> QED BY <1>3, <1>4, <1>5, <1>6, <1>7 DEF CallStateOK, CallOK

\* A thread that is about to start an operation on an Rpc without pending flag
\* and without final status keeps the contract of the asynchronous API.
LEMMA CallApi ==
  ASSUME TypeInv, EventsInv, \A s \in Rpcs : CallStateOK(s)
  PROVE  ApiRespected
<1> SUFFICES ASSUME NEW q \in EventQueues, Busy(q), SameQueue(thread[q].rpc)
             PROVE  /\ thread[q].pc = "Perform" =>
                         ~Misused(thread[q].rpc,
                                  IF Finishes(thread[q].rpc, thread[q].item) THEN "FINISH" ELSE "WRITE")
                    /\ thread[q].pc = "Read" => ~Misused(thread[q].rpc, "READ")
  BY DEF ApiRespected
<1> DEFINE r == thread[q].rpc
<1>1. r \in Rpcs /\ BusyOn(q, r)
  BY DEF TypeInv, BusyHaveRpcs, BusyOn
<1>2. CallOK(r, thread[q].pc, thread[q].item) /\ ThreadOK(q)
  BY <1>1 DEF CallStateOK, EventsInv, ThreadInv
<1>3. \A e \in CqEvents : e \in ops[r] => e \in pending[r]
  BY <1>1 DEF EventsInv, FlagsInv, Outstanding
<1>4. ASSUME thread[q].pc = "Perform"
      PROVE  "WRITE" \notin ops[r] /\ "FINISH" \notin ops[r] /\ r \notin status_sent
  BY <1>2, <1>3, <1>4 DEF ThreadOK, CallOK, FinishOK, CqEvents
<1>5. ASSUME thread[q].pc = "Read" PROVE "READ" \notin ops[r]
  BY <1>2, <1>3, <1>5 DEF ThreadOK, CqEvents
<1>6. ASSUME thread[q].pc = "Perform", NEW e \in {"WRITE", "FINISH"} PROVE ~Misused(r, e)
  BY <1>4, <1>6 DEF Misused
<1>7. ASSUME thread[q].pc = "Read" PROVE ~Misused(r, "READ")
  BY SMT, <1>5, <1>7 DEF Misused
<1> QED BY <1>6, <1>7

\* Nothing changes for thread p, which is about to start an operation on s.
ApiStays(p, s) ==
  /\ thread'[p] = thread[p] /\ SameQueue(s) /\ method'[s] = method[s]
  /\ ops'[s] \subseteq ops[s] /\ (s \in status_sent' => s \in status_sent)

\* Steps that start nothing on the Rpcs of other threads.
LEMMA ApiFrame ==
  ASSUME ApiRespected, TypeInv',
         \A p \in EventQueues : \A s \in Rpcs :
           /\ Busy(p)' /\ thread'[p].rpc = s /\ thread'[p].pc \in {"Perform", "Read"} /\ SameQueue(s)'
           => ApiStays(p, s)
  PROVE  ApiRespected'
<1> SUFFICES ASSUME NEW p \in EventQueues, Busy(p)', SameQueue(thread[p].rpc)'
             PROVE  /\ thread'[p].pc = "Perform" =>
                         ~Misused(thread[p].rpc,
                                  IF Finishes(thread[p].rpc, thread[p].item) THEN "FINISH" ELSE "WRITE")'
                    /\ thread'[p].pc = "Read" => ~Misused(thread[p].rpc, "READ")'
  BY DEF ApiRespected
<1>1. PICK s \in Rpcs : s = thread'[p].rpc
  BY DEF TypeInv, BusyHaveRpcs
<1>2. SUFFICES ASSUME thread'[p].pc \in {"Perform", "Read"}
               PROVE  /\ thread'[p].pc = "Perform" =>
                           ~Misused(thread[p].rpc,
                                    IF Finishes(thread[p].rpc, thread[p].item) THEN "FINISH" ELSE "WRITE")'
                      /\ thread'[p].pc = "Read" => ~Misused(thread[p].rpc, "READ")'
  OBVIOUS
<1>3. SameQueue(s)'
  BY <1>1 DEF SameQueue
<1>4. ApiStays(p, s)
  BY <1>1, <1>2, <1>3
<1>5. Busy(p) /\ thread[p].rpc = s
  BY <1>1, <1>4 DEF Busy, ApiStays
<1>6. /\ thread[p].pc = "Perform" =>
           ~Misused(s, IF Finishes(s, thread[p].item) THEN "FINISH" ELSE "WRITE")
      /\ thread[p].pc = "Read" => ~Misused(s, "READ")
  BY <1>4, <1>5 DEF ApiRespected, ApiStays
<1>7. \A e : ~Misused(s, e) => ~Misused(s, e)'
  BY <1>4 DEF Misused, ApiStays
<1>8. \A item : Finishes(s, item)' <=> Finishes(s, item)
  BY <1>4 DEF Finishes, ApiStays
<1>9. ASSUME thread'[p].pc = "Perform"
      PROVE  ~Misused(s, IF Finishes(s, thread[p].item) THEN "FINISH" ELSE "WRITE")'
  <2>1. thread'[p].item = thread[p].item /\ thread[p].pc = "Perform"
    BY <1>4, <1>9 DEF ApiStays
  <2>2. Finishes(s, thread[p].item)' <=> Finishes(s, thread[p].item)
    BY <1>8, <2>1
  <2>3. CASE Finishes(s, thread[p].item)
    BY <1>6, <1>7, <2>1, <2>2, <2>3
  <2>4. CASE ~Finishes(s, thread[p].item)
    BY <1>6, <1>7, <2>1, <2>2, <2>4
  <2> QED BY <2>3, <2>4
<1>10. ASSUME thread'[p].pc = "Read" PROVE ~Misused(s, "READ")'
  BY <1>4, <1>6, <1>7, <1>10 DEF ApiStays
<1> QED BY <1>1, <1>9, <1>10 DEF Misused, Finishes

\* The steps that can stop the process.
LEMMA FaultSources ==
  ASSUME Next
  PROVE  \/ UNCHANGED fault
         \/ StartServing
         \/ \E q \in EventQueues : Perform(q) \/ Read(q) \/ Clone(q) \/ UseAfterFree(q) \/ CallbackStep(q)
         \/ \E w \in Writers : WriterPush(w)
         \/ \E r \in Rpcs, e \in CqEvents, ok \in BOOLEAN : RunCompletionQueue(r, e, ok)
<1>1. CASE Stopped
  BY <1>1 DEF Stopped, vars, grpcVars
<1>2. CASE MainStep
  BY <1>2 DEF MainStep, StartThreads, ShutdownGrpcServer, GrpcServerIsDown,
                     CompletionQueuesJoined, EventQueuesJoined, StopService,
                     ShutdownCompletionQueue, grpcVars
<1>3. ASSUME NEW q \in EventQueues,
             HandleEvent(q) \/ ServiceStep(q) \/ CallbackStep(q) \/ EventThreadReturns(q)
      PROVE  UNCHANGED fault \/ Perform(q) \/ Read(q) \/ Clone(q) \/ UseAfterFree(q) \/ CallbackStep(q)
  BY <1>3 DEF HandleEvent, HandleInternalEvent, HandleCompletionQueueEvent, ServiceStep,
                     EventThreadReturns, HandleSendQueue, RemoveIfNotPending, RemoveAndReturn,
                     RemoveAndClone, CallbackReturns, grpcVars
<1>4. CASE Shutdown
  BY <1>4 DEF Shutdown, grpcVars
<1>5. ASSUME NEW w \in Writers, WriterStep(w) PROVE UNCHANGED fault \/ WriterPush(w)
  BY <1>5 DEF WriterStep, WriterEnqueue, grpcVars
<1>6. ASSUME NEW r \in Rpcs, ClientStep(r) PROVE UNCHANGED fault
  BY <1>6 DEF ClientStep, ClientCall, CallCloses
<1> QED BY <1>1, <1>2, <1>3, <1>4, <1>5, <1>6 DEF Next, Step

\* The step that stops the process leaves the other threads where they are.
LEMMA FaultApi ==
  ASSUME TypeInv, TypeInv', EventsInv, ApiRespected, fault = "none", fault' # "none", Next
  PROVE  ApiRespected'
<1>1. ASSUME UNCHANGED <<thread, status_sent, method, event_queue, events_queue>>,
             \A s \in Rpcs : ops'[s] \subseteq ops[s]
      PROVE  ApiRespected'
  BY <1>1, ApiFrame DEF ApiStays, SameQueue
<1>2. ASSUME NEW q \in EventQueues, Perform(q) \/ Read(q) PROVE ApiRespected'
  <2>1. PICK r \in Rpcs : BusyOn(q, r)
    BY <1>2 DEF Perform, Read, At, BusyOn, Busy, TypeInv, BusyHaveRpcs
  <2>2. \/ GotoWith(q, "RemoveIfNotPending", NoItem)
        \/ Goto(q, "Clone")
        \/ Return(q)
    BY <1>2 DEF Perform, Read
  <2>3. /\ thread'[q].pc \notin {"Perform", "Read"}
        /\ \A p \in EventQueues : p # q => thread'[p] = thread[p]
    <3>1. CASE GotoWith(q, "RemoveIfNotPending", NoItem)
      <4>1. /\ thread'[q].pc = "RemoveIfNotPending"
            /\ \A p \in EventQueues : p # q => thread'[p] = thread[p]
        BY <3>1, GotoThreads DEF Labels
      <4> QED BY SMT, <4>1
    <3>2. CASE Goto(q, "Clone")
      <4>1. thread'[q].pc = "Clone" /\ \A p \in EventQueues : p # q => thread'[p] = thread[p]
        BY <3>2, GotoThreads DEF Labels
      <4> QED BY SMT, <4>1
    <3>3. CASE Return(q)
      BY <3>3, ReturnThreads DEF Busy
    <3> QED BY <2>2, <3>1, <3>2, <3>3
  <2>4. /\ UNCHANGED <<method, event_queue, events_queue>>
        /\ \E e \in CqEvents : ops' = [ops EXCEPT ![r] = @ \cup {e}]
        /\ status_sent' = status_sent \/ status_sent' = status_sent \cup {r}
    BY <1>2, <2>1
       DEF Perform, Read, BusyOn, PerformFinish, PerformWrite, RequestStreamingRead, StartOp, CqEvents
  <2>5. \A s \in Rpcs : s # r => ops'[s] = ops[s] /\ (s \in status_sent' => s \in status_sent)
    BY <2>4 DEF TypeInv, TypeOK, GrpcTypeOK
  <2>6. ASSUME NEW p \in EventQueues, NEW s \in Rpcs, Busy(p)', thread'[p].rpc = s,
               thread'[p].pc \in {"Perform", "Read"}, SameQueue(s)'
        PROVE  ApiStays(p, s)
    <3>1. p # q /\ thread'[p] = thread[p]
      BY <2>3, <2>6
    <3>2. SameQueue(s) /\ Busy(p) /\ thread[p].rpc = s
      BY <2>4, <2>6, <3>1 DEF SameQueue, Busy
    <3>3. s # r
      BY <2>1, <3>1, <3>2, OneThread DEF BusyOn, EventsInv
    <3> QED BY <2>4, <2>5, <3>1, <3>2, <3>3 DEF ApiStays
  <2> QED BY <2>6, ApiFrame
<1>3. ASSUME NEW r \in Rpcs, NEW m, NEW c, NEW eq, NEW rq, Construct(r, m, c, eq, rq),
             RequestNextMethodInvocation(r, c), UNCHANGED status_sent,
             \A p \in EventQueues : Busy(p)' => thread'[p] = thread[p]
      PROVE  ApiRespected'
  <2>1. \A s \in Rpcs : s # r =>
          /\ ops'[s] = ops[s] /\ method'[s] = method[s]
          /\ SameQueue(s)' <=> SameQueue(s)
    BY <1>3
       DEF Construct, RequestNextMethodInvocation, StartOp, SameQueue, TypeInv, TypeOK, GrpcTypeOK,
           RpcTypeOK
  <2>2. \A p \in EventQueues : ~BusyOn(p, r)
    BY <1>3 DEF Construct, EventsInv, ConnectionInv, ConnectionOK, Quiet
  <2>3. \A p \in EventQueues : \A s \in Rpcs :
          Busy(p)' /\ thread'[p].rpc = s /\ SameQueue(s)' => ApiStays(p, s)
    BY <1>3, <2>1, <2>2 DEF ApiStays, BusyOn, Busy
  <2> QED BY <2>3, ApiFrame
<1>4. CASE StartServing
  BY <1>3, <1>4 DEF StartServing
<1>5. ASSUME NEW q \in EventQueues, Clone(q) PROVE ApiRespected'
  <2>1. ~Busy(q)' /\ \A p \in EventQueues : p # q => thread'[p] = thread[p]
    BY <1>5, ReturnThreads DEF Clone
  <2> QED BY <1>3, <1>5, <2>1 DEF Clone, CloneTo
<1>6. ASSUME NEW q \in EventQueues, UseAfterFree(q) PROVE ApiRespected'
  BY <1>1, <1>6 DEF UseAfterFree, rpcVars, serviceVars
<1>7. ASSUME NEW q \in EventQueues, CallbackStep(q) PROVE ApiRespected'
  <2>1. UNCHANGED <<thread, status_sent, method, event_queue, events_queue, ops>>
    BY <1>7 DEF CallbackStep, HandlerSend, GetWriter, rpcVars
  <2> QED BY <1>1, <2>1
<1>8. ASSUME NEW w \in Writers, WriterPush(w) PROVE ApiRespected'
  BY <1>1, <1>8 DEF WriterPush
<1>9. ASSUME NEW r \in Rpcs, NEW e \in CqEvents, NEW ok \in BOOLEAN, RunCompletionQueue(r, e, ok)
      PROVE  ApiRespected'
  <2>1. \A s \in Rpcs : ops'[s] \subseteq ops[s]
    BY <1>9 DEF RunCompletionQueue, TypeInv, TypeOK, GrpcTypeOK
  <2> QED BY <1>1, <1>9, <2>1 DEF RunCompletionQueue, serviceVars
<1> QED BY <1>2, <1>4, <1>5, <1>6, <1>7, <1>8, <1>9, FaultSources

\* The server is not being shut down, and nothing has stopped the process.
Serving == main \in {"starting", "serving"}

ServesWithoutFault == Serving => fault = "none"

\* Before Shutdown no service is stopped, no call refused and no queue shut down.
SafeInv == Serving => fault = "none" /\ stopped = {} /\ refused = {} /\ cq_down = {}

\* An Rpc that somebody uses is active, as long as there are no Writers and no call
\* was refused.
LEMMA UsedIsActive ==
  ASSUME TypeInv, EventsInv, Writers = {}, refused = {}, NEW r \in Rpcs, SameQueue(r),
         (\E e \in CqEvents : Outstanding(r, e)) \/ \E q \in EventQueues : BusyOn(q, r)
  PROVE  r \in active_rpcs /\ ~Destroyed(r)
<1>1. ~HeldByWriter(r) /\ r \notin refused
  BY SMT DEF HeldByWriter
<1>2. r \in active_rpcs
  BY <1>1 DEF EventsInv, HeldInv
<1> QED BY <1>2 DEF Destroyed

\* No step of a serving process stops it.
LEMMA NoFaultServing ==
  ASSUME NumEventThreads = 1, Writers = {}, TypeInv, EventsInv, ApiRespected,
         fault = "none", refused = {}, cq_down = {}, Next
  PROVE  fault' = "none"
<1>1. \A r \in Rpcs : SameQueue(r)
  BY OneQueue
<1>2. ASSUME NEW r, NEW c, NEW e, StartOp(r, c, e), ~Misused(r, e) PROVE fault' = "none"
  <2>1. c \notin cq_down
    BY SMT
  <2> QED BY <1>2, <2>1 DEF StartOp
<1>3. ASSUME NEW r \in Rpcs, NEW m, NEW c, NEW eq, NEW rq, Construct(r, m, c, eq, rq),
             RequestNextMethodInvocation(r, c)
      PROVE  fault' = "none"
  <2>1. "NEW_CONNECTION" \notin ops[r]
    BY <1>3 DEF Construct, EventsInv, ConnectionInv, ConnectionOK, Outstanding, CqEvents
  <2>2. ~Misused(r, "NEW_CONNECTION")
    BY SMT, <2>1 DEF Misused
  <2> QED BY <1>2, <1>3, <2>2 DEF RequestNextMethodInvocation
<1>4. CASE StartServing
  BY <1>3, <1>4 DEF StartServing
<1>5. ASSUME NEW q \in EventQueues, Clone(q) PROVE fault' = "none"
  BY <1>3, <1>5 DEF Clone, CloneTo
<1>6. ASSUME NEW q \in EventQueues, Perform(q) PROVE fault' = "none"
  <2>1. PICK r \in Rpcs : r = thread[q].rpc /\ Busy(q) /\ thread[q].pc = "Perform"
    BY <1>6 DEF Perform, At, Busy, TypeInv, BusyHaveRpcs
  <2>2. ~Misused(r, IF Finishes(r, thread[q].item) THEN "FINISH" ELSE "WRITE")
    BY <1>1, <2>1 DEF ApiRespected
  <2>3. StartOp(r, cq[r], IF Finishes(r, thread[q].item) THEN "FINISH" ELSE "WRITE")
    BY <1>6, <2>1 DEF Perform, PerformFinish, PerformWrite
  <2> QED BY <1>2, <2>2, <2>3
<1>7. ASSUME NEW q \in EventQueues, Read(q) PROVE fault' = "none"
  <2>1. PICK r \in Rpcs : r = thread[q].rpc /\ Busy(q) /\ thread[q].pc = "Read"
    BY <1>7 DEF Read, At, Busy, TypeInv, BusyHaveRpcs
  <2>2. ~Misused(r, "READ")
    BY <1>1, <2>1 DEF ApiRespected
  <2> QED BY <1>2, <1>7, <2>1, <2>2 DEF Read, RequestStreamingRead
<1>8. ASSUME NEW q \in EventQueues, UseAfterFree(q) PROVE FALSE
  <2>1. CASE Busy(q) /\ Destroyed(thread[q].rpc)
    BY <1>1, <2>1, UsedIsActive DEF BusyOn, TypeInv, BusyHaveRpcs
  <2>2. CASE queue[q] # <<>> /\ Head(queue[q]).ev # "WRITE_NEEDED" /\ Destroyed(Head(queue[q]).rpc)
    <3>1. /\ Head(queue[q]).rpc \in Rpcs /\ Head(queue[q]).ev \in CqEvents
          /\ Queued(Head(queue[q]).rpc, Head(queue[q]).ev)
      BY <2>2, HeadEvent
    <3> QED BY <1>1, <2>2, <3>1, UsedIsActive DEF Outstanding
  <2> QED BY <1>8, <2>1, <2>2 DEF UseAfterFree
<1>9. ASSUME NEW q \in EventQueues, CallbackStep(q) PROVE fault' = "none"
  <2>1. PICK msg \in BOOLEAN : HandlerSend(q, msg)
    BY SMT, <1>9 DEF CallbackStep
  <2>2. PICK r \in Rpcs : r = thread[q].rpc /\ BusyOn(q, r)
    BY <2>1 DEF HandlerSend, At, Callbacks, BusyOn, Busy, TypeInv, BusyHaveRpcs
  <2>3. r \in active_rpcs
    BY <1>1, <2>2, UsedIsActive
  <2> QED BY <2>1, <2>2, <2>3 DEF HandlerSend, PushWriteNeeded, GetWeakPtr
<1>10. ASSUME NEW r \in Rpcs, NEW e \in CqEvents, NEW ok \in BOOLEAN, RunCompletionQueue(r, e, ok)
      PROVE  fault' = "none"
  <2>1. ~Destroyed(r)
    BY <1>1, <1>10, UsedIsActive DEF RunCompletionQueue, MayReturn, Outstanding
  <2> QED BY <1>10, <2>1 DEF RunCompletionQueue
<1>11. ~\E w \in Writers : WriterPush(w)
  BY SMT
<1> QED BY <1>4, <1>5, <1>6, <1>7, <1>8, <1>9, <1>10, <1>11, FaultSources

\* Only Shutdown makes a server stop its services, refuse calls and shut queues down.
LEMMA NextServing ==
  ASSUME TypeInv, EventsInv, fault = "none", Next, Serving', SafeInv
  PROVE  Serving /\ stopped' = {} /\ refused' = {} /\ cq_down' = {}
<1>1. CASE Stopped
  BY <1>1 DEF Stopped, vars, grpcVars, serviceVars, Serving, SafeInv
<1>2. CASE MainStep \/ Shutdown
  <2>1. CASE StartServing \/ StartThreads
    BY <2>1 DEF StartServing, StartThreads, Serving, SafeInv, grpcVars, serviceVars
  <2>2. CASE \E c \in CompletionQueues : ShutdownCompletionQueue(c)
    BY SMT, <2>2 DEF ShutdownCompletionQueue, Serving
  <2>3. CASE \E s \in Services : StopService(s)
    BY SMT, <2>3 DEF StopService, Serving
  <2>4. CASE \/ Shutdown \/ ShutdownGrpcServer \/ GrpcServerIsDown \/ CompletionQueuesJoined
             \/ EventQueuesJoined
    BY SMT, <2>4 DEF Shutdown, ShutdownGrpcServer, GrpcServerIsDown, CompletionQueuesJoined,
                EventQueuesJoined, Serving
  <2> QED BY <1>2, <2>1, <2>2, <2>3, <2>4 DEF MainStep
<1>3. ASSUME NEW q \in EventQueues,
             HandleEvent(q) \/ ServiceStep(q) \/ CallbackStep(q) \/ EventThreadReturns(q)
      PROVE  Serving /\ stopped' = {} /\ refused' = {} /\ cq_down' = {}
  <2>1. main' = main
    BY <1>3 DEF HandleEvent, ServiceStep, CallbackStep, EventThreadReturns
  <2>2. Serving /\ stopped = {} /\ refused = {} /\ cq_down = {}
    BY <2>1 DEF Serving, SafeInv
  <2>3. CASE HandleCompletionQueueEvent(q)
    <3>0. PICK r \in Rpcs, e \in CqEvents, ok \in BOOLEAN :
            r = Head(queue[q]).rpc /\ e = Head(queue[q]).ev /\ ok = Head(queue[q]).ok
      BY <2>3, HeadEvent DEF HandleCompletionQueueEvent
    <3>1. PICK down \in ShuttingDownReads(r, ok) :
            refused' = IF FirstLabel(e, ok, down) = "Remove" /\ ok THEN refused \cup {r} ELSE refused
      BY <2>3, <3>0 DEF HandleCompletionQueueEvent
    <3>2. down = FALSE
      <4>1. ServiceOf[method[r]] \notin stopped
        BY SMT, <2>2
      <4> QED BY <3>1, <4>1 DEF ShuttingDownReads
    <3>3. FirstLabel(e, ok, FALSE) # "Remove"
      BY DEF FirstLabel, CqEvents
    <3> QED BY <2>2, <2>3, <3>1, <3>2, <3>3 DEF HandleCompletionQueueEvent, grpcVars
  <2>4. CASE ~HandleCompletionQueueEvent(q)
    BY <1>3, <2>2, <2>4
       DEF HandleEvent, HandleInternalEvent, ServiceStep, CallbackStep, EventThreadReturns,
           HandleSendQueue, Perform, Read, Clone, RemoveIfNotPending, RemoveAndReturn,
           RemoveAndClone, UseAfterFree, CallbackReturns, HandlerSend, GetWriter, grpcVars,
           serviceVars
  <2> QED BY <2>3, <2>4
<1>4. ASSUME NEW w \in Writers, WriterStep(w)
      PROVE  Serving /\ stopped' = {} /\ refused' = {} /\ cq_down' = {}
  BY <1>4 DEF WriterStep, WriterEnqueue, WriterPush, Serving, SafeInv, grpcVars
<1>5. ASSUME NEW r \in Rpcs, ClientStep(r)
      PROVE  Serving /\ stopped' = {} /\ refused' = {} /\ cq_down' = {}
  BY <1>5 DEF ClientStep, ClientCall, CallCloses, Serving, SafeInv, serviceVars
<1>6. ASSUME NEW r \in Rpcs, NEW e \in CqEvents, NEW ok \in BOOLEAN, RunCompletionQueue(r, e, ok)
      PROVE  Serving /\ stopped' = {} /\ refused' = {} /\ cq_down' = {}
  BY <1>6 DEF RunCompletionQueue, Serving, SafeInv, serviceVars
<1> QED BY <1>1, <1>2, <1>3, <1>4, <1>5, <1>6 DEF Next, Step

-----------------------------------------------------------------------------
(* The server implements module Call for each of its Rpcs. *)

\* The part of the state of a call that is the same before and after a step.
ViewStays(r) ==
  /\ RunningCallback(r)' = RunningCallback(r)
  /\ ReadsOf(r)' = ReadsOf(r)

DeliveryStays(r) ==
  /\ sent'[r] = sent[r]
  /\ r \in status_sent' <=> r \in status_sent

FinishSeen(r) == r \in status_sent /\ ~Outstanding(r, "FINISH")

\* The step is one of module Call, for r.
CallStep(r) == [CallOf(r)!Next]_(CallOf(r)!vars)

\* The callbacks of r that run are c, or none.
RunsOnly(r, c) == \A callback \in Callbacks : InCallback(r, callback) <=> callback = c

\* The running callback of the refinement mapping, before and after a step.
LEMMA RunningOnly ==
  ASSUME NEW r, NEW c \in Callbacks \cup {"none"}
  PROVE  /\ RunsOnly(r, c) => RunningCallback(r) = c
         /\ RunsOnly(r, c)' => RunningCallback(r)' = c
<1>1. "none" \notin Callbacks
  BY DEF Callbacks
<1>2. ASSUME RunsOnly(r, c) PROVE RunningCallback(r) = c
  <2>1. CASE c = "none"
    BY <1>1, <1>2, <2>1 DEF RunsOnly, RunningCallback
  <2>2. CASE c \in Callbacks
    BY <1>2, <2>2 DEF RunsOnly, RunningCallback
  <2> QED BY <2>1, <2>2
<1>3. ASSUME RunsOnly(r, c)' PROVE RunningCallback(r)' = c
  <2>1. CASE c = "none"
    BY <1>1, <1>3, <2>1 DEF RunsOnly, RunningCallback
  <2>2. CASE c \in Callbacks
    BY <1>3, <2>2 DEF RunsOnly, RunningCallback
  <2> QED BY <2>1, <2>2
<1> QED BY <1>2, <1>3

\* Nobody works on r.
LEMMA NoCallback ==
  ASSUME NEW r \in Rpcs, \A q \in EventQueues : ~BusyOn(q, r)
  PROVE  RunsOnly(r, "none")
<1>1. "none" \notin Callbacks /\ \A callback \in Callbacks : callback \notin {"idle", "exited"}
  BY DEF Callbacks
<1> QED BY <1>1 DEF RunsOnly, InCallback, BusyOn, Busy

\* What the handler of r has been told stays the same.
HandlerStays(r) ==
  /\ handler'[r] = "none" <=> handler[r] = "none"
  /\ r \in reads_done' <=> r \in reads_done

FinishStays(r) == r \in status_sent => (Outstanding(r, "FINISH")' <=> Outstanding(r, "FINISH"))

\* Every step of the server is a step of module Call, or of no concern, for every
\* Rpc with one event queue.
LEMMA NextSteps ==
  /\ ~RequestsMayFail
  /\ Overrun = "nothing" \/ Writers = {}
  /\ TypeInv
  /\ LifetimeInv
  /\ CallInv
  /\ [Next]_vars
  => \A r \in Rpcs : SameQueue(r) => CallStep(r)
\* Whether the final status was sent, as a value.
<1>StatusSentEqual. ASSUME NEW r, r \in status_sent' <=> r \in status_sent
      PROVE  (r \in status_sent)' = (r \in status_sent)
  <2> USE <1>StatusSentEqual
  <2>1. CASE r \in status_sent
    <3>1. (r \in status_sent) = TRUE /\ (r \in status_sent)' = TRUE
      BY <2>1
    <3> QED BY <3>1
  <2>2. CASE r \notin status_sent
    <3>1. (r \in status_sent) = FALSE /\ (r \in status_sent)' = FALSE
      BY SMT, <2>2
    <3> QED BY <3>1
  <2> QED BY <2>1, <2>2
\* Steps that do nothing for a call.
<1>CallStutters. ASSUME NEW r \in Rpcs, ViewStays(r), DeliveryStays(r), sends'[r] = sends[r],
             FinishSeen(r)' <=> FinishSeen(r)
      PROVE  CallStep(r)
  <2> USE <1>CallStutters
  <2>1. (r \in status_sent)' = (r \in status_sent)
    BY <1>StatusSentEqual DEF DeliveryStays
  <2>2. (r \in status_sent /\ ~Outstanding(r, "FINISH"))' = (r \in status_sent /\ ~Outstanding(r, "FINISH"))
    BY DEF FinishSeen
  <2> QED BY <2>1, <2>2 DEF ViewStays, DeliveryStays, CallStep, CallOf!vars
\* User code sends a response.
<1>CallAccepts. ASSUME NEW r \in Rpcs, ViewStays(r), DeliveryStays(r), sends'[r] = sends[r] + 1, ReadsOf(r) # "none",
             FinishSeen(r)' <=> FinishSeen(r)
      PROVE  CallStep(r)
  <2> USE <1>CallAccepts
  <2>1. (r \in status_sent)' = (r \in status_sent)
    BY <1>StatusSentEqual DEF DeliveryStays
  <2>2. (r \in status_sent /\ ~Outstanding(r, "FINISH"))' = (r \in status_sent /\ ~Outstanding(r, "FINISH"))
    BY DEF FinishSeen
  <2>3. CallOf(r)!Accept
    BY <2>1, <2>2 DEF ViewStays, DeliveryStays, CallOf!Accept
  <2> QED BY <2>3 DEF CallStep, CallOf!Next
\* A response is given to gRPC.
<1>CallDelivers. ASSUME NEW r \in Rpcs, ViewStays(r), sends'[r] = sends[r], r \notin status_sent, sent[r] < sends[r],
             sent'[r] = sent[r] + 1, ~FinishSeen(r)'
      PROVE  CallStep(r)
  <2> USE <1>CallDelivers
  <2>0. FinishSeen(r)' <=> FinishSeen(r)
    BY DEF FinishSeen
  <2>1. (r \in status_sent)' \in BOOLEAN
    BY SMT
  <2>2. (r \in status_sent /\ ~Outstanding(r, "FINISH"))' = (r \in status_sent /\ ~Outstanding(r, "FINISH"))
    BY <2>0 DEF FinishSeen
  <2>3. CallOf(r)!Deliver
    BY <2>1, <2>2 DEF ViewStays, CallOf!Deliver
  <2> QED BY <2>3 DEF CallStep, CallOf!Next
\* A callback returns and no other is invoked.
<1>CallReturns. ASSUME NEW r \in Rpcs, RunningCallback(r) # "none", RunningCallback(r)' = "none",
             ReadsOf(r)' = ReadsOf(r), DeliveryStays(r), sends'[r] = sends[r],
             FinishSeen(r)' <=> FinishSeen(r)
      PROVE  CallStep(r)
  <2> USE <1>CallReturns
  <2>1. (r \in status_sent)' = (r \in status_sent)
    BY <1>StatusSentEqual DEF DeliveryStays
  <2>2. (r \in status_sent /\ ~Outstanding(r, "FINISH"))' = (r \in status_sent /\ ~Outstanding(r, "FINISH"))
    BY DEF FinishSeen
  <2>3. CallOf(r)!Return
    BY <2>1, <2>2 DEF DeliveryStays, CallOf!Return
  <2> QED BY <2>3 DEF CallStep, CallOf!Next
\* A callback is invoked.
<1>CallInvokes. ASSUME NEW r \in Rpcs, NEW callback \in Callbacks, RunningCallback(r)' = callback,
             DeliveryStays(r), sends'[r] = sends[r],
             callback = "Initialize" => ReadsOf(r) = "none" /\ ReadsOf(r)' = "open",
             callback = "OnRequest" => ReadsOf(r) = "open" /\ ReadsOf(r)' = "open",
             callback = "OnReadsDone" => ReadsOf(r) = "open" /\ ReadsOf(r)' = "done",
             callback = "OnFinish" =>
               ReadsOf(r)' = ReadsOf(r) /\ r \in status_sent /\ ~FinishSeen(r) /\ FinishSeen(r)',
             callback # "OnFinish" => (FinishSeen(r)' <=> FinishSeen(r))
      PROVE  CallStep(r)
  <2> USE <1>CallInvokes
  <2>1. (r \in status_sent)' = (r \in status_sent)
    BY <1>StatusSentEqual DEF DeliveryStays
  <2>2. callback # "OnFinish" =>
          (r \in status_sent /\ ~Outstanding(r, "FINISH"))' = (r \in status_sent /\ ~Outstanding(r, "FINISH"))
    BY DEF FinishSeen
  <2>3. callback = "OnFinish" => (r \in status_sent /\ ~Outstanding(r, "FINISH"))' = TRUE
    BY DEF FinishSeen
  <2>4. CallOf(r)!Invoke(callback)
    <3>1. CASE callback = "Initialize"
      BY <2>1, <2>2, <3>1 DEF DeliveryStays, CallOf!Invoke
    <3>2. CASE callback = "OnRequest"
      BY <2>1, <2>2, <3>2 DEF DeliveryStays, CallOf!Invoke
    <3>3. CASE callback = "OnReadsDone"
      BY <2>1, <2>2, <3>3 DEF DeliveryStays, CallOf!Invoke
    <3>4. CASE callback = "OnFinish"
      BY <2>1, <2>3, <3>4 DEF DeliveryStays, FinishSeen, CallOf!Invoke
    <3> QED BY <3>1, <3>2, <3>3, <3>4 DEF Callbacks
  <2> QED BY <2>4 DEF CallStep, CallOf!Next, Callbacks
\* With one event queue, an Rpc is in one callback at a time.
<1>OneCallback. ASSUME RoutingInv, NEW r \in Rpcs, SameQueue(r), NEW q \in EventQueues, BusyOn(q, r)
      PROVE  RunsOnly(r, IF thread[q].pc \in Callbacks THEN thread[q].pc ELSE "none")
  <2> USE <1>OneCallback
  <2>1. ASSUME NEW callback \in Callbacks, InCallback(r, callback) PROVE thread[q].pc = callback
    <3>1. PICK p \in EventQueues : thread[p].rpc = r /\ thread[p].pc = callback
      BY <2>1 DEF InCallback
    <3>2. Busy(p)
      BY <3>1 DEF Busy, Callbacks
    <3>3. p = q
      BY <3>1, <3>2, OneThread DEF BusyOn
    <3> QED BY <3>1, <3>3
  <2>2. "none" \notin Callbacks
    BY DEF Callbacks
  <2>3. CASE thread[q].pc \in Callbacks
    <3>1. InCallback(r, thread[q].pc)
      BY DEF InCallback, BusyOn
    <3> QED BY <2>1, <2>3, <3>1 DEF RunsOnly
  <2>4. CASE thread[q].pc \notin Callbacks
    BY <2>1, <2>2, <2>4 DEF RunsOnly
  <2> QED BY <2>3, <2>4
\* The callback in which a call is.
<1>SomeCallback. ASSUME RoutingInv, NEW r \in Rpcs, SameQueue(r)
      PROVE  \E c \in Callbacks \cup {"none"} : RunsOnly(r, c)
  <2> USE <1>SomeCallback
  <2>1. CASE \A q \in EventQueues : ~BusyOn(q, r)
    BY <2>1, NoCallback
  <2>2. ASSUME NEW q \in EventQueues, BusyOn(q, r)
        PROVE  \E c \in Callbacks \cup {"none"} : RunsOnly(r, c)
    <3>1. (IF thread[q].pc \in Callbacks THEN thread[q].pc ELSE "none") \in Callbacks \cup {"none"}
      OBVIOUS
    <3> QED BY <2>2, <3>1, <1>OneCallback
  <2> QED BY <2>1, <2>2
\* No callback of r begins or ends.
<1>NoCallbackStep. ASSUME RoutingInv, NEW r \in Rpcs, SameQueue(r), HandlerStays(r),
             \A callback \in Callbacks : InCallback(r, callback)' <=> InCallback(r, callback)
      PROVE  ViewStays(r)
  <2> USE <1>NoCallbackStep
  <2>1. PICK c \in Callbacks \cup {"none"} : RunsOnly(r, c)
    BY <1>SomeCallback
  <2>2. RunsOnly(r, c)'
    BY <2>1 DEF RunsOnly
  <2>3. RunningCallback(r)' = RunningCallback(r)
    BY <2>1, <2>2, RunningOnly
  <2>4. InCallback(r, "OnReadsDone")' <=> InCallback(r, "OnReadsDone")
    BY DEF Callbacks
  <2>5. ReadsOf(r)' = ReadsOf(r)
    <3>1. CASE handler[r] = "none"
      BY <3>1 DEF ReadsOf, HandlerStays
    <3>2. CASE handler[r] # "none" /\ (r \in reads_done \/ InCallback(r, "OnReadsDone"))
      BY <2>4, <3>2 DEF ReadsOf, HandlerStays
    <3>3. CASE handler[r] # "none" /\ ~(r \in reads_done \/ InCallback(r, "OnReadsDone"))
      BY <2>4, <3>3 DEF ReadsOf, HandlerStays
    <3> QED BY <3>1, <3>2, <3>3
  <2> QED BY <2>3, <2>5 DEF ViewStays
\* Nothing happens to the call of r.
<1>NothingForCall. ASSUME RoutingInv, NEW r \in Rpcs, SameQueue(r), HandlerStays(r), DeliveryStays(r), FinishStays(r),
             sends'[r] = sends[r],
             \A callback \in Callbacks : InCallback(r, callback)' <=> InCallback(r, callback)
      PROVE  CallStep(r)
  <2> USE <1>NothingForCall
  <2>1. ViewStays(r)
    BY <1>NoCallbackStep
  <2>2. FinishSeen(r)' <=> FinishSeen(r)
    BY DEF FinishSeen, FinishStays, DeliveryStays
  <2> QED BY <2>1, <2>2, <1>CallStutters
\* Thread q moves, but in no callback of r.
<1>CallbacksStay. ASSUME NEW q \in EventQueues, NEW r, thread[q].rpc # r \/ thread[q].pc \notin Callbacks,
             thread'[q].rpc # r \/ thread'[q].pc \notin Callbacks,
             \A p \in EventQueues : p # q => thread'[p] = thread[p]
      PROVE  \A callback \in Callbacks : InCallback(r, callback)' <=> InCallback(r, callback)
  BY <1>CallbacksStay DEF InCallback
\* Steps that change nothing that a call is about.
<1>FrameSteps. ASSUME RoutingInv, UNCHANGED <<handler, reads_done, sends, sent, status_sent, thread>>,
             \A s \in Rpcs : Outstanding(s, "FINISH")' <=> Outstanding(s, "FINISH"),
             NEW r \in Rpcs, SameQueue(r)
      PROVE  CallStep(r)
  <2> USE <1>FrameSteps
  <2>1. HandlerStays(r) /\ DeliveryStays(r)
    BY DEF HandlerStays, DeliveryStays
  <2>2. FinishStays(r)
    BY DEF FinishStays
  <2>3. \A callback \in Callbacks : InCallback(r, callback)' <=> InCallback(r, callback)
    BY DEF InCallback
  <2> QED BY <2>1, <2>2, <2>3, <1>NothingForCall
\* A thread goes from one label to another, and invokes or ends no callback.
<1>LabelSteps. ASSUME RoutingInv, NEW q \in EventQueues, thread[q].pc \notin Callbacks, thread'[q].pc \notin Callbacks,
             \A p \in EventQueues : p # q => thread'[p] = thread[p],
             UNCHANGED <<handler, reads_done, sends, sent, status_sent>>,
             \A s \in Rpcs : Outstanding(s, "FINISH")' <=> Outstanding(s, "FINISH"),
             NEW r \in Rpcs, SameQueue(r)
      PROVE  CallStep(r)
  <2> USE <1>LabelSteps
  <2>1. HandlerStays(r) /\ DeliveryStays(r)
    BY DEF HandlerStays, DeliveryStays
  <2>2. FinishStays(r)
    BY DEF FinishStays
  <2>3. \A callback \in Callbacks : InCallback(r, callback)' <=> InCallback(r, callback)
    BY <1>CallbacksStay
  <2> QED BY <2>1, <2>2, <2>3, <1>NothingForCall
\* Service::HandleEvent invokes the first callback for an event.
<1>HandleCompletionQueueEventSteps. ASSUME TypeInv, EventsInv, ~RequestsMayFail, \A s \in Rpcs : CallStateOK(s),
             NEW q \in EventQueues, HandleCompletionQueueEvent(q), NEW r \in Rpcs, SameQueue(r)
      PROVE  CallStep(r)
  <2> USE <1>HandleCompletionQueueEventSteps
  <2>1. PICK x \in Rpcs, e \in CqEvents, ok \in BOOLEAN, label \in Labels :
          EventTaken(q, x, e, ok, label) /\ EventLabel(e, ok, label)
    BY TakesEvent
  <2>2. /\ ~Busy(q) /\ q = events_queue[x] /\ Queued(x, e)
        /\ thread'[q] = [pc |-> label, ev |-> e, rpc |-> x, item |-> NoItem]
        /\ \A p \in EventQueues : p # q => thread'[p] = thread[p]
        /\ UNCHANGED <<ops, status_sent, sends, sent, reads_done>>
        /\ handler' = IF label = "Initialize" THEN [handler EXCEPT ![x] = "open"] ELSE handler
        /\ \A s, f : s # x \/ f # e => (Queued(s, f)' <=> Queued(s, f))
        /\ SameQueue(x) => e \notin ops[x] /\ ~Queued(x, e)'
    BY <2>1 DEF EventTaken, grpcVars
  <2>3. thread'[q].pc = label /\ thread'[q].rpc = x
    BY SMT, <2>2
  <2>4. DeliveryStays(r) /\ sends'[r] = sends[r]
    BY <2>2 DEF DeliveryStays
  <2>5. /\ \A s \in Rpcs : s # x => handler'[s] = handler[s]
        /\ handler'[x] = IF label = "Initialize" THEN "open" ELSE handler[x]
    <3>1. handler \in [Rpcs -> HandlerStates]
      BY DEF TypeInv, TypeOK, ServiceTypeOK
    <3>2. CASE label = "Initialize"
      <4>1. handler' = [handler EXCEPT ![x] = "open"]
        BY <2>2, <3>2
      <4> QED BY <3>1, <3>2, <4>1
    <3>3. CASE label # "Initialize"
      BY <2>2, <3>3
    <3> QED BY <3>2, <3>3
  <2>6. thread[q].pc \notin Callbacks /\ RoutingInv
    BY <2>2 DEF Busy, Callbacks, EventsInv
  <2>7. CASE r # x
    <3>1. HandlerStays(r)
      BY <2>2, <2>5, <2>7 DEF HandlerStays
    <3>2. FinishStays(r)
      BY <2>2, <2>7 DEF FinishStays, Outstanding
    <3>3. \A callback \in Callbacks : InCallback(r, callback)' <=> InCallback(r, callback)
      BY <2>2, <2>3, <2>6, <2>7, <1>CallbacksStay
    <3> QED BY <2>4, <2>6, <3>1, <3>2, <3>3, <1>NothingForCall
  <2>8. CASE r = x
    <3>1. ASSUME NEW p \in EventQueues PROVE ~BusyOn(p, r)
      <4>1. BusyOn(p, r) => p = events_queue[r]
        BY <2>6 DEF RoutingInv, BusyOn, SameQueue
      <4> QED BY <2>2, <2>8, <4>1 DEF BusyOn
    <3>2. CallOK(r, "idle", NoItem)
      BY <3>1 DEF CallStateOK
    <3>3. RunsOnly(r, "none")
      BY <3>1, NoCallback
    <3>4. \A callback \in Callbacks : InCallback(r, callback)' <=> callback = label
      <4>1. \A p \in EventQueues : p # q => (thread'[p].rpc = r => thread'[p].pc \notin Callbacks)
        BY <2>2, <3>1 DEF BusyOn, Busy, Callbacks
      <4> QED BY <2>3, <2>8, <4>1 DEF InCallback
    <3>5. ~InCallback(r, "OnReadsDone") /\ "OnReadsDone" \in Callbacks /\ "none" \notin Callbacks
      BY <3>3 DEF RunsOnly, Callbacks
    <3>6. Outstanding(r, e)
      BY <2>2, <2>8 DEF Outstanding
    <3>7. e # "FINISH" => (FinishSeen(r)' <=> FinishSeen(r)) /\ FinishStays(r)
      BY <2>2 DEF FinishSeen, FinishStays, Outstanding
    <3>8. CASE label \notin Callbacks
      <4>1. \A callback \in Callbacks : InCallback(r, callback)' <=> InCallback(r, callback)
        BY <2>3, <2>2, <2>6, <3>8, <1>CallbacksStay
      <4>2. HandlerStays(r)
        BY <2>2, <2>5, <2>8, <3>8 DEF HandlerStays, Callbacks
      <4>3. e # "FINISH"
        BY <2>1, <3>8 DEF EventLabel, Callbacks
      <4> QED BY <2>4, <2>6, <3>7, <4>1, <4>2, <4>3, <1>NothingForCall
    <3>9. ASSUME label \in Callbacks PROVE RunningCallback(r)' = label
      <4>1. RunsOnly(r, label)'
        BY <3>4, <3>9 DEF RunsOnly
      <4> QED BY <3>9, <4>1, RunningOnly
    <3>10. CASE e = "NEW_CONNECTION" /\ label = "Initialize"
      <4>1. handler[r] = "none" /\ r \notin reads_done
        BY <3>2, <3>6, <3>10 DEF CallOK, HandlerOK
      <4>2. handler'[r] = "open" /\ ~InCallback(r, "OnReadsDone")'
        BY SMT, <2>5, <2>8, <3>4, <3>5, <3>10
      <4>3. ReadsOf(r) = "none" /\ ReadsOf(r)' = "open"
        BY <2>2, <4>1, <4>2 DEF ReadsOf
      <4>4. FinishSeen(r)' <=> FinishSeen(r)
        BY <3>7, <3>10
      <4>5. "Initialize" \in Callbacks /\ RunningCallback(r)' = "Initialize"
        BY <3>9, <3>10 DEF Callbacks
      <4> QED BY <2>4, <4>3, <4>4, <4>5, <1>CallInvokes
    <3>11. CASE e = "READ"
      <4>1. handler[r] # "none" /\ r \notin reads_done
        BY <3>2, <3>6, <3>11 DEF CallOK, HandlerOK, ReadsOK
      <4>2. label \in {"OnRequest", "OnReadsDone"} /\ label \in Callbacks
        BY <2>1, <3>11 DEF EventLabel, Callbacks
      <4>3. handler'[r] = handler[r] /\ (InCallback(r, "OnReadsDone")' <=> label = "OnReadsDone")
        BY <2>5, <2>8, <3>4, <3>5, <4>2
      <4>4. /\ ReadsOf(r) = "open"
            /\ label = "OnRequest" => ReadsOf(r)' = "open"
            /\ label = "OnReadsDone" => ReadsOf(r)' = "done"
        <5>1. reads_done' = reads_done
          BY <2>2
        <5>2. ReadsOf(r) = "open"
          BY <3>5, <4>1 DEF ReadsOf
        <5>3. ASSUME label = "OnRequest" PROVE ReadsOf(r)' = "open"
          BY <4>1, <4>3, <5>1, <5>3 DEF ReadsOf
        <5>4. ASSUME label = "OnReadsDone" PROVE ReadsOf(r)' = "done"
          BY <4>1, <4>3, <5>1, <5>4 DEF ReadsOf
        <5> QED BY <5>2, <5>3, <5>4
      <4>5. FinishSeen(r)' <=> FinishSeen(r)
        BY <3>7, <3>11
      <4>6. label # "Initialize" /\ label # "OnFinish"
        BY <4>2
      <4> QED BY <2>4, <3>9, <4>2, <4>4, <4>5, <4>6, <1>CallInvokes
    <3>12. CASE e = "FINISH"
      <4>1. "FINISH" \in pending[r]
        BY <3>6, <3>12 DEF EventsInv, FlagsInv, CqEvents
      <4>2. r \in status_sent
        BY <3>2, <4>1 DEF CallOK, HandlerOK
      <4>3. ~FinishSeen(r) /\ FinishSeen(r)'
        BY <2>2, <2>8, <3>6, <3>12, <4>2 DEF FinishSeen, Outstanding
      <4>4. label = "OnFinish" /\ label \in Callbacks
        BY <2>1, <3>12 DEF EventLabel, Callbacks
      <4>5. handler'[r] = handler[r] /\ ~InCallback(r, "OnReadsDone")'
        BY SMT, <2>5, <2>8, <3>4, <3>5, <4>4
      <4>6. ReadsOf(r)' = ReadsOf(r)
        BY <2>2, <3>5, <4>5 DEF ReadsOf
      <4>7. RunningCallback(r)' = "OnFinish" /\ "OnFinish" \in Callbacks
        BY <3>9, <4>4
      <4> QED BY <2>4, <4>2, <4>3, <4>6, <4>7, <1>CallInvokes
    <3> QED BY <2>1, <3>8, <3>10, <3>11, <3>12 DEF CqEvents, EventLabel, Callbacks
  <2> QED BY <2>7, <2>8
\* A callback returns: the next one is invoked, or none runs.
<1>CallbackReturnsSteps. ASSUME TypeInv, EventsInv, \A s \in Rpcs : CallStateOK(s), NEW q \in EventQueues,
             CallbackReturns(q), NEW r \in Rpcs, SameQueue(r)
      PROVE  CallStep(r)
  <2> USE <1>CallbackReturnsSteps
  <2>1. PICK x \in Rpcs, label \in Callbacks,
             label2 \in {"Read", "OnRequest", "OnReadsDone", "RemoveIfNotPending", "Clone"} :
          CallbackEnds(q, x, label, label2)
    BY CallbackReturnsEffect
  <2>2. /\ BusyOn(q, x) /\ thread[q].rpc = x /\ thread[q].pc = label
        /\ thread'[q].rpc = x /\ thread'[q].pc = label2
        /\ \A p \in EventQueues : p # q => thread'[p] = thread[p]
        /\ UNCHANGED <<ops, queue, status_sent, sends, sent>>
    BY <2>1 DEF CallbackEnds
  <2>3. /\ DeliveryStays(r) /\ sends'[r] = sends[r] /\ FinishStays(r)
        /\ FinishSeen(r)' <=> FinishSeen(r)
    BY <2>2 DEF DeliveryStays, FinishStays, FinishSeen, Outstanding, Queued
  <2>4. RoutingInv
    BY DEF EventsInv
  <2>5. CASE r # x
    <3>1. HandlerStays(r)
      BY <2>1, <2>5 DEF HandlerStays, CallbackEnds
    <3>2. \A callback \in Callbacks : InCallback(r, callback)' <=> InCallback(r, callback)
      BY <2>2, <2>5, <1>CallbacksStay
    <3> QED BY <2>3, <2>4, <3>1, <3>2, <1>NothingForCall
  <2>6. CASE r = x
    <3>1. CallOK(r, label, thread[q].item)
      BY <2>2, <2>6 DEF CallStateOK
    <3>2. RunsOnly(r, label)
      BY <2>2, <2>4, <2>6, <1>OneCallback
    <3>3. RunningCallback(r) = label /\ label # "none"
      BY <3>2, RunningOnly DEF Callbacks
    <3>4. \A callback \in Callbacks : InCallback(r, callback)' <=> callback = label2
      <4>1. ASSUME NEW p \in EventQueues, p # q, thread'[p].rpc = r PROVE thread'[p].pc \notin Callbacks
        <5>1. ~Busy(p)
          BY <2>2, <2>4, <2>6, <4>1, OneThread DEF BusyOn
        <5> QED BY <2>2, <4>1, <5>1 DEF Busy, Callbacks
      <4> QED BY <2>2, <2>6, <4>1 DEF InCallback
    <3>5. /\ handler[r] # "none" /\ handler'[r] # "none"
          /\ r \in reads_done' <=> r \in reads_done \/ label = "OnReadsDone"
          /\ label2 \in RequestLabels => label \in {"Initialize", "OnRequest"}
      <4>1. handler[r] # "none"
        BY <3>1 DEF CallOK, HandlerOK
      <4>2. handler'[r] = IF handler[r] = "ending" THEN "ended" ELSE handler[r]
        BY <2>1, <2>6 DEF CallbackEnds
      <4> QED BY <2>1, <2>6, <4>1, <4>2 DEF CallbackEnds
    <3>6. /\ InCallback(r, "OnReadsDone") <=> label = "OnReadsDone"
          /\ InCallback(r, "OnReadsDone")' <=> label2 = "OnReadsDone"
      BY <3>2, <3>4 DEF RunsOnly, Callbacks
    <3>7. CASE label2 \in {"OnRequest", "OnReadsDone"}
      <4>1. label \in {"Initialize", "OnRequest"} /\ label2 \in Callbacks
        BY <3>5, <3>7 DEF RequestLabels, Callbacks
      <4>2. label \in RequestLabels /\ label # "OnReadsDone"
        BY SMT, <4>1 DEF RequestLabels
      <4>3. r \notin reads_done /\ r \notin reads_done'
        BY <3>1, <3>5, <4>2 DEF CallOK, ReadsOK
      <4>4. /\ ReadsOf(r) = "open"
            /\ label2 = "OnRequest" => ReadsOf(r)' = "open"
            /\ label2 = "OnReadsDone" => ReadsOf(r)' = "done"
        BY SMT, <3>5, <3>6, <4>2, <4>3 DEF ReadsOf
      <4>5. RunningCallback(r)' = label2
        <5>1. RunsOnly(r, label2)'
          BY <3>4 DEF RunsOnly
        <5> QED BY <4>1, <5>1, RunningOnly
      <4>6. label2 # "Initialize" /\ label2 # "OnFinish"
        BY <3>7
      <4> QED BY <2>3, <4>1, <4>4, <4>5, <4>6, <1>CallInvokes
    <3>8. CASE label2 \notin {"OnRequest", "OnReadsDone"}
      <4>1. label2 \notin Callbacks /\ "none" \notin Callbacks
        BY <3>8 DEF Callbacks
      <4>2. RunningCallback(r)' = "none"
        <5>1. RunsOnly(r, "none")'
          BY <3>4, <4>1 DEF RunsOnly
        <5> QED BY <5>1, RunningOnly
      <4>3. ReadsOf(r)' = ReadsOf(r)
        <5>1. CASE r \in reads_done \/ label = "OnReadsDone"
          BY <3>5, <3>6, <5>1 DEF ReadsOf
        <5>2. CASE ~(r \in reads_done \/ label = "OnReadsDone")
          BY <3>5, <3>6, <3>8, <5>2 DEF ReadsOf
        <5> QED BY <5>1, <5>2
      <4> QED BY <2>3, <3>3, <4>2, <4>3, <1>CallReturns
    <3> QED BY <3>7, <3>8
  <2> QED BY <2>5, <2>6
\* PerformWrite and PerformFinish deliver the response that is next.
<1>PerformSteps. ASSUME TypeInv, EventsInv, \A s \in Rpcs : CallStateOK(s), NEW q \in EventQueues, Perform(q),
             NEW r \in Rpcs, SameQueue(r)
      PROVE  CallStep(r)
  <2> USE <1>PerformSteps
  <2>0. PICK x \in Rpcs : \E item, e : Performs(q, x, item, e)
    BY PerformEffect
  <2>1. PICK item, e : Performs(q, x, item, e)
    BY <2>0
  <2>2. /\ BusyOn(q, x) /\ thread[q].pc = "Perform" /\ item = thread[q].item
        /\ thread'[q].pc = "RemoveIfNotPending"
        /\ \A p \in EventQueues : p # q => thread'[p] = thread[p]
        /\ UNCHANGED <<handler, reads_done, sends, queue>>
        /\ e = IF Finishes(x, item) THEN "FINISH" ELSE "WRITE"
        /\ ops'[x] = ops[x] \cup {e} /\ sent'[x] = item.n
        /\ x \in status_sent' <=> x \in status_sent \/ Finishes(x, item)
    BY <2>1 DEF Performs
  <2>3. HandlerStays(r) /\ RoutingInv
    BY <2>2 DEF HandlerStays, EventsInv
  <2>4. \A callback \in Callbacks : InCallback(r, callback)' <=> InCallback(r, callback)
    <3>1. thread[q].pc \notin Callbacks /\ thread'[q].pc \notin Callbacks
      BY SMT, <2>2 DEF Callbacks
    <3> QED BY <2>2, <3>1, <1>CallbacksStay
  <2>5. CASE r # x
    <3>1. DeliveryStays(r) /\ FinishStays(r) /\ sends'[r] = sends[r]
      BY <2>1, <2>2, <2>5 DEF Performs, DeliveryStays, FinishStays, Outstanding, Queued
    <3> QED BY <2>3, <2>4, <3>1, <1>NothingForCall
  <2>6. CASE r = x
    <3>1. CallOK(r, "Perform", item)
      BY <2>2, <2>6 DEF CallStateOK
    <3>2. r \notin status_sent
      BY <3>1 DEF CallOK, FinishOK
    <3>3. item.n = sent[r] + 1 /\ sends[r] = sent[r] + 1 + Len(send_queue[r])
      BY SMT, <3>1 DEF CallOK, NumberOK
    <3>4. sent[r] \in Nat /\ Len(send_queue[r]) \in Nat
      BY SMT DEF TypeInv, TypeOK, RpcTypeOK
    <3>5. sent[r] < sends[r] /\ sent'[r] = sent[r] + 1
      BY SMT, <2>2, <2>6, <3>3, <3>4
    <3>6. ~FinishSeen(r)'
      BY <2>2, <2>6, <3>2 DEF FinishSeen, Outstanding
    <3>7. ViewStays(r)
      BY <2>3, <2>4, <1>NoCallbackStep
    <3> QED BY <2>2, <3>2, <3>5, <3>6, <3>7, <1>CallDelivers
  <2> QED BY <2>5, <2>6
\* Rpc::Write and Rpc::Finish accept a response of x.
<1>EnqueueSteps. ASSUME TypeInv, EventsInv, NEW x \in Rpcs, NEW msg, EnqueueMessage(x, msg), handler[x] # "none",
             \A s \in Rpcs : handler'[s] = "none" <=> handler[s] = "none",
             UNCHANGED <<thread, reads_done, sent, status_sent, ops>>,
             \A s \in Rpcs : Queued(s, "FINISH")' <=> Queued(s, "FINISH"),
             NEW r \in Rpcs, SameQueue(r)
      PROVE  CallStep(r)
  <2> USE <1>EnqueueSteps
  <2>1. HandlerStays(r) /\ DeliveryStays(r) /\ RoutingInv
    BY DEF HandlerStays, DeliveryStays, EventsInv
  <2>2. FinishStays(r) /\ (FinishSeen(r)' <=> FinishSeen(r))
    BY DEF FinishStays, FinishSeen, Outstanding
  <2>3. \A callback \in Callbacks : InCallback(r, callback)' <=> InCallback(r, callback)
    BY DEF InCallback
  <2>4. /\ sends'[x] = sends[x] + 1
        /\ \A s \in Rpcs : s # x => sends'[s] = sends[s]
    BY EnqueueEffect
  <2>5. CASE r # x
    BY <2>1, <2>2, <2>3, <2>4, <2>5, <1>NothingForCall
  <2>6. CASE r = x
    <3>1. ViewStays(r)
      BY <2>1, <2>3, <1>NoCallbackStep
    <3>2. ReadsOf(r) # "none"
      BY SMT, <2>6 DEF ReadsOf
    <3> QED BY <2>1, <2>2, <2>4, <2>6, <3>1, <3>2, <1>CallAccepts
  <2> QED BY <2>5, <2>6
\* RpcHandler::Send and RpcHandler::Finish, in a callback.
<1>HandlerSendSteps. ASSUME TypeInv, EventsInv, NEW q \in EventQueues, NEW msg \in BOOLEAN, HandlerSend(q, msg),
             NEW r \in Rpcs, SameQueue(r)
      PROVE  CallStep(r)
  <2> USE <1>HandlerSendSteps
  <2>1. PICK x \in Rpcs : x = thread[q].rpc
    BY CallbackRpc DEF HandlerSend, At
  <2>2. /\ handler[x] \in {"open", "ending"} /\ EnqueueMessage(x, msg)
        /\ Push(event_queue[x], "WRITE_NEEDED", x, TRUE)
        /\ handler' = handler \/ handler' = [handler EXCEPT ![x] = "ending"]
        /\ UNCHANGED <<thread, reads_done, sent, status_sent, ops>>
    BY <2>1 DEF HandlerSend, HandlerMaySend, PushWriteNeeded
  <2>3. handler[x] # "none" /\ \A s \in Rpcs : handler'[s] = "none" <=> handler[s] = "none"
    BY SMT, <2>2 DEF TypeInv, TypeOK, ServiceTypeOK
  <2>4. \A s \in Rpcs : Queued(s, "FINISH")' <=> Queued(s, "FINISH")
    <3>1. event_queue[x] \in EventQueues
      BY DEF TypeInv, TypeOK, RpcTypeOK
    <3> QED BY <2>2, <3>1, PushQueued DEF Queued
  <2> QED BY <2>2, <2>3, <2>4, <1>EnqueueSteps
\* A Writer enqueues a message.
<1>WriterEnqueueSteps. ASSUME TypeInv, EventsInv, Overrun = "nothing" \/ Writers = {}, NEW w \in Writers,
             NEW msg \in BOOLEAN, WriterEnqueue(w, msg), NEW r \in Rpcs, SameQueue(r)
      PROVE  CallStep(r)
  <2> USE <1>WriterEnqueueSteps
  <2>1. PICK x \in Rpcs : x = writer[w].rpc
    BY DEF WriterEnqueue, TypeInv, TypeOK, ServiceTypeOK
  <2>2. /\ handler[x] = "open" /\ EnqueueMessage(x, msg)
        /\ handler' = handler \/ handler' = [handler EXCEPT ![x] = "ended"]
        /\ UNCHANGED <<thread, reads_done, sent, status_sent, ops, queue>>
    BY <2>1 DEF WriterEnqueue, WriterMaySend, grpcVars
  <2>3. handler[x] # "none" /\ \A s \in Rpcs : handler'[s] = "none" <=> handler[s] = "none"
    BY SMT, <2>2 DEF TypeInv, TypeOK, ServiceTypeOK
  <2>4. \A s \in Rpcs : Queued(s, "FINISH")' <=> Queued(s, "FINISH")
    BY <2>2 DEF Queued
  <2> QED BY <2>2, <2>3, <2>4, <1>EnqueueSteps
\* A completion queue thread hands an event on.  What it loses with a destroyed
\* Rpc is nothing that its handler was told of.
<1>RunCompletionQueueSteps. ASSUME TypeInv, EventsInv, \A s \in Rpcs : CallStateOK(s), NEW x \in Rpcs, NEW e \in CqEvents,
             NEW ok \in BOOLEAN, RunCompletionQueue(x, e, ok), NEW r \in Rpcs, SameQueue(r)
      PROVE  CallStep(r)
  <2> USE <1>RunCompletionQueueSteps
  <2>1. /\ e \in ops[x] /\ ops' = [ops EXCEPT ![x] = @ \ {e}]
        /\ UNCHANGED <<handler, reads_done, sends, sent, status_sent, thread>>
    BY DEF RunCompletionQueue, MayReturn, serviceVars
  <2>2. HandlerStays(r) /\ DeliveryStays(r) /\ RoutingInv /\ sends'[r] = sends[r]
    BY <2>1 DEF HandlerStays, DeliveryStays, EventsInv
  <2>3. \A callback \in Callbacks : InCallback(r, callback)' <=> InCallback(r, callback)
    BY <2>1 DEF InCallback
  <2>4. /\ \A s \in Rpcs : s # x => ops'[s] = ops[s]
        /\ ops'[x] = ops[x] \ {e}
    BY <2>1 DEF TypeInv, TypeOK, GrpcTypeOK
  <2>5. FinishStays(r)
    <3>1. CASE Destroyed(x)
      <4>1. UNCHANGED queue
        BY <3>1 DEF RunCompletionQueue
      <4>2. CASE r # x
        BY <2>4, <4>1, <4>2 DEF FinishStays, Outstanding, Queued
      <4>3. CASE r = x
        <5>1. r \notin active_rpcs /\ ~HeldByWriter(r) /\ Outstanding(r, e)
          BY <2>1, <3>1, <4>3 DEF Destroyed, HeldByWriter, Outstanding
        <5>2. r \in refused
          BY <5>1 DEF EventsInv, HeldInv
        <5>3. \E label, item : CallOK(r, label, item)
          BY DEF CallStateOK
        <5>4. r \notin status_sent
          BY <5>2, <5>3 DEF CallOK, HandlerOK
        <5> QED BY <5>4 DEF FinishStays
      <4> QED BY <4>2, <4>3
    <3>2. CASE ~Destroyed(x)
      <4>1. Push(events_queue[x], e, x, ok) /\ events_queue[x] \in EventQueues
        BY <3>2 DEF RunCompletionQueue, TypeInv, TypeOK, RpcTypeOK
      <4>2. e \in CqEvents \cup {"WRITE_NEEDED"}
        OBVIOUS
      <4>3. \A s, f : QueuedIn(queue', s, f) <=> QueuedIn(queue, s, f) \/ (s = x /\ f = e)
        BY SMT, <4>1, <4>2, PushQueued
      <4>4. CASE r = x /\ e = "FINISH"
        BY <2>1, <4>3, <4>4 DEF FinishStays, Outstanding, Queued
      <4>5. CASE r # x \/ e # "FINISH"
        BY <2>4, <4>3, <4>5 DEF FinishStays, Outstanding, Queued
      <4> QED BY <4>4, <4>5
    <3> QED BY <3>1, <3>2
  <2> QED BY <2>2, <2>3, <2>5, <1>NothingForCall
\* Steps of event threads between callbacks.
<1>BetweenCallbacksSteps. ASSUME TypeInv, EventsInv, NEW q \in EventQueues,
             \/ HandleInternalEvent(q) \/ HandleSendQueue(q) \/ Read(q) \/ Clone(q)
             \/ RemoveIfNotPending(q) \/ RemoveAndReturn(q) \/ EventThreadReturns(q),
             NEW r \in Rpcs, SameQueue(r)
      PROVE  CallStep(r)
  <2> USE <1>BetweenCallbacksSteps
  <2>1. RoutingInv
    BY DEF EventsInv
  <2>2. /\ thread[q].pc \in {"idle", "HandleSendQueue", "Read", "Clone", "RemoveIfNotPending", "Remove"}
        /\ UNCHANGED <<handler, reads_done, sends, sent, status_sent>>
    BY DEF HandleInternalEvent, HandleSendQueue, Read, Clone, RemoveIfNotPending, RemoveAndReturn,
                 EventThreadReturns, At, grpcVars, rpcVars
  <2>3. thread[q].pc \notin Callbacks
    BY <2>2 DEF Callbacks
  <2>4. /\ thread'[q].pc \notin Callbacks
        /\ \A p \in EventQueues : p # q => thread'[p] = thread[p]
    <3>1. CASE Return(q)
      BY <3>1, ReturnThreads DEF Busy, Callbacks
    <3>2. ASSUME NEW label \in {"RemoveIfNotPending", "Perform", "Clone", "Remove", "exited"}, NEW item,
                 Goto(q, label) \/ GotoWith(q, label, item)
          PROVE  /\ thread'[q].pc \notin Callbacks
                 /\ \A p \in EventQueues : p # q => thread'[p] = thread[p]
      <4>1. label \in Labels /\ label \notin Callbacks
        BY <3>2 DEF Labels, Callbacks
      <4> QED BY <3>2, <4>1, GotoThreads
    <3>3. CASE HandleInternalEvent(q)
      <4>1. CASE thread' = thread
        BY <2>3, <4>1
      <4>2. CASE thread' = [thread EXCEPT ![q] = [pc |-> "HandleSendQueue", ev |-> Head(queue[q]).ev,
                                                  rpc |-> Head(queue[q]).rpc, item |-> NoItem]]
        BY SMT, <4>2 DEF TypeInv, TypeOK, ServiceTypeOK, Callbacks
      <4> QED BY <3>3, <4>1, <4>2 DEF HandleInternalEvent
    <3>4. CASE HandleSendQueue(q)
      BY <3>2, <3>4 DEF HandleSendQueue
    <3>5. CASE Read(q)
      BY <3>1, <3>2, <3>5 DEF Read
    <3>6. CASE Clone(q) \/ RemoveAndReturn(q)
      BY <3>1, <3>6 DEF Clone, RemoveAndReturn
    <3>7. CASE RemoveIfNotPending(q)
      BY <3>1, <3>2, <3>7 DEF RemoveIfNotPending
    <3>8. CASE EventThreadReturns(q)
      BY <3>2, <3>8 DEF EventThreadReturns
    <3> QED BY <3>3, <3>4, <3>5, <3>6, <3>7, <3>8
  <2>5. \A s \in Rpcs : Outstanding(s, "FINISH")' <=> Outstanding(s, "FINISH")
    <3>1. CASE UNCHANGED <<ops, queue>>
      BY <3>1 DEF Outstanding, Queued
    <3>2. CASE HandleInternalEvent(q)
      <4>1. /\ queue[q] # <<>> /\ Head(queue[q]).ev = "WRITE_NEEDED"
            /\ queue' = [queue EXCEPT ![q] = Tail(@)] /\ UNCHANGED ops
        BY <3>2 DEF HandleInternalEvent, grpcVars
      <4>2. \A s \in Rpcs : Queued(s, "FINISH")' <=> Queued(s, "FINISH")
        BY <4>1, PopExact DEF Queued
      <4> QED BY <4>1, <4>2 DEF Outstanding
    <3>3. CASE Read(q) \/ Clone(q)
      <4>1. /\ UNCHANGED queue
            /\ \E x : \E e \in {"READ", "NEW_CONNECTION"} : ops' = [ops EXCEPT ![x] = @ \cup {e}]
        BY <3>3 DEF Read, RequestStreamingRead, Clone, RequestNextMethodInvocation, StartOp
      <4>2. \A s \in Rpcs : "FINISH" \in ops'[s] <=> "FINISH" \in ops[s]
        BY SMT, <4>1 DEF TypeInv, TypeOK, GrpcTypeOK
      <4> QED BY <4>1, <4>2 DEF Outstanding, Queued
    <3> QED
      BY <3>1, <3>2, <3>3
         DEF HandleSendQueue, RemoveIfNotPending, RemoveAndReturn, EventThreadReturns, grpcVars, rpcVars
  <2> QED BY <2>1, <2>2, <2>3, <2>4, <2>5, <1>LabelSteps
\* Steps of other threads that are of no concern to a call.
<1>OtherSteps. ASSUME TypeInv, EventsInv,
             \/ UNCHANGED vars \/ MainStep \/ Shutdown
             \/ \E q \in EventQueues : UseAfterFree(q) \/ \E w \in Writers : GetWriter(q, w)
             \/ \E w \in Writers : WriterPush(w)
             \/ \E s \in Rpcs : ClientStep(s),
             NEW r \in Rpcs, SameQueue(r)
      PROVE  CallStep(r)
  <2> USE <1>OtherSteps
  <2>0. RoutingInv
    BY DEF EventsInv
  <2>1. ASSUME UNCHANGED <<handler, reads_done, sends, sent, status_sent, thread, ops, queue>>
        PROVE  CallStep(r)
    BY <2>0, <2>1, <1>FrameSteps DEF Outstanding, Queued
  <2>2. ASSUME UNCHANGED <<handler, reads_done, sends, sent, status_sent, thread, queue>>,
               \E x : \E e \in {"DONE", "NEW_CONNECTION"} : ops' = [ops EXCEPT ![x] = @ \cup {e}]
        PROVE  CallStep(r)
    <3>1. \A s \in Rpcs : "FINISH" \in ops'[s] <=> "FINISH" \in ops[s]
      BY SMT, <2>2 DEF TypeInv, TypeOK, GrpcTypeOK
    <3> QED BY <2>0, <2>2, <3>1, <1>FrameSteps DEF Outstanding, Queued
  <2>3. CASE UNCHANGED vars
    BY <2>1, <2>3 DEF vars, grpcVars, rpcVars, serviceVars
  <2>4. CASE StartServing
    BY <2>2, <2>4 DEF StartServing, RequestNextMethodInvocation, StartOp
  <2>5. CASE MainStep \/ Shutdown
    <3>1. CASE StartThreads \/ Shutdown \/ ShutdownGrpcServer \/ GrpcServerIsDown
               \/ CompletionQueuesJoined \/ EventQueuesJoined
      BY <2>1, <3>1
         DEF StartThreads, Shutdown, ShutdownGrpcServer, GrpcServerIsDown, CompletionQueuesJoined,
             EventQueuesJoined, grpcVars, rpcVars, serviceVars
    <3>2. ASSUME NEW s \in Services, StopService(s) PROVE CallStep(r)
      BY <2>1, <3>2 DEF StopService, grpcVars, rpcVars
    <3>3. ASSUME NEW c \in CompletionQueues, ShutdownCompletionQueue(c) PROVE CallStep(r)
      BY <2>1, <3>3 DEF ShutdownCompletionQueue, rpcVars, serviceVars
    <3> QED BY <2>4, <2>5, <3>1, <3>2, <3>3 DEF MainStep
  <2>6. ASSUME NEW q \in EventQueues, UseAfterFree(q) \/ \E w \in Writers : GetWriter(q, w)
        PROVE  CallStep(r)
    BY <2>1, <2>6 DEF UseAfterFree, GetWriter, rpcVars, serviceVars
  <2>7. ASSUME NEW w \in Writers, WriterPush(w) PROVE CallStep(r)
    <3>1. PICK x \in Rpcs : x = writer[w].rpc
      BY <2>7 DEF WriterPush, TypeInv, BusyHaveRpcs
    <3>2. /\ Push(event_queue[x], "WRITE_NEEDED", x, TRUE) /\ event_queue[x] \in EventQueues
          /\ UNCHANGED <<handler, reads_done, sends, sent, status_sent, thread, ops>>
      BY <2>7, <3>1 DEF WriterPush, PushWriteNeeded, TypeInv, TypeOK, RpcTypeOK
    <3>3. \A s \in Rpcs : Queued(s, "FINISH")' <=> Queued(s, "FINISH")
      <4>1. \A s, e : QueuedIn(queue', s, e) <=>
                        QueuedIn(queue, s, e) \/ (s = x /\ e = "WRITE_NEEDED")
        BY <3>2, PushQueued
      <4>2. \A s \in Rpcs : QueuedIn(queue', s, "FINISH") <=> QueuedIn(queue, s, "FINISH")
        BY SMT, <4>1
      <4> QED BY <4>2 DEF Queued
    <3> QED BY <2>0, <3>2, <3>3, <1>FrameSteps DEF Outstanding
  <2>8. ASSUME NEW s \in Rpcs, ClientStep(s) PROVE CallStep(r)
    <3>1. /\ UNCHANGED <<handler, reads_done, sends, sent, status_sent, thread, queue>>
          /\ ops' = ops \/ ops' = [ops EXCEPT ![s] = @ \cup {"DONE"}]
      BY <2>8 DEF ClientStep, ClientCall, CallCloses, rpcVars, serviceVars
    <3> QED BY <2>1, <2>2, <3>1
  <2> QED BY <2>3, <2>5, <2>6, <2>7, <2>8
<1> SUFFICES ASSUME ~RequestsMayFail,
                    Overrun = "nothing" \/ Writers = {},
                    TypeInv,
                    LifetimeInv,
                    CallInv,
                    [Next]_vars,
                    NEW r \in Rpcs,
                    SameQueue(r)
             PROVE  CallStep(r)
  OBVIOUS
<1>1. CASE UNCHANGED vars
  <2>1. /\ RunningCallback(r)' = RunningCallback(r) /\ ReadsOf(r)' = ReadsOf(r)
        /\ sends'[r] = sends[r] /\ sent'[r] = sent[r]
        /\ r \in status_sent' <=> r \in status_sent
        /\ FinishSeen(r)' <=> FinishSeen(r)
    BY <1>1
       DEF vars, grpcVars, rpcVars, serviceVars, RunningCallback, ReadsOf, InCallback, FinishSeen,
           Outstanding, Queued
  <2> QED BY <2>1, <1>CallStutters DEF ViewStays, DeliveryStays
<1>2. CASE fault = "none" /\ Step
  <2>1. EventsInv /\ \A s \in Rpcs : CallStateOK(s)
    BY <1>2 DEF LifetimeInv, CallInv
  <2>2. CASE MainStep \/ Shutdown
    BY <2>1, <2>2, <1>OtherSteps
  <2>3. ASSUME NEW q \in EventQueues, HandleEvent(q) PROVE CallStep(r)
    BY <2>1, <2>3, <1>HandleCompletionQueueEventSteps, <1>BetweenCallbacksSteps DEF HandleEvent
  <2>4. ASSUME NEW q \in EventQueues, RemoveAndClone(q) PROVE CallStep(r)
    BY <2>1, <2>4 DEF RemoveAndClone, At, EventsInv, ShutdownInv
  <2>5. ASSUME NEW q \in EventQueues, ServiceStep(q) PROVE CallStep(r)
    <3>1. CASE UseAfterFree(q)
      BY <2>1, <3>1, <1>OtherSteps
    <3>2. CASE HandleSendQueue(q) \/ Read(q) \/ Clone(q) \/ RemoveIfNotPending(q) \/ RemoveAndReturn(q)
      BY <2>1, <3>2, <1>BetweenCallbacksSteps
    <3> QED BY <2>1, <2>4, <2>5, <3>1, <3>2, <1>PerformSteps, <1>CallbackReturnsSteps DEF ServiceStep
  <2>6. ASSUME NEW q \in EventQueues, CallbackStep(q) PROVE CallStep(r)
    <3>1. ASSUME NEW w \in Writers, GetWriter(q, w) PROVE CallStep(r)
      BY <2>1, <3>1, <1>OtherSteps
    <3> QED BY <2>1, <2>6, <3>1, <1>HandlerSendSteps DEF CallbackStep
  <2>7. ASSUME NEW q \in EventQueues, EventThreadReturns(q) PROVE CallStep(r)
    BY <2>1, <2>7, <1>BetweenCallbacksSteps
  <2>8. ASSUME NEW w \in Writers, WriterStep(w) PROVE CallStep(r)
    <3>1. CASE WriterPush(w)
      BY <2>1, <3>1, <1>OtherSteps
    <3> QED BY <2>1, <2>8, <3>1, <1>WriterEnqueueSteps DEF WriterStep
  <2>9. ASSUME NEW s \in Rpcs, ClientStep(s) PROVE CallStep(r)
    BY <2>1, <2>9, <1>OtherSteps
  <2>10. ASSUME NEW x \in Rpcs, NEW e \in CqEvents, NEW ok \in BOOLEAN, RunCompletionQueue(x, e, ok)
         PROVE  CallStep(r)
    BY <2>1, <2>10, <1>RunCompletionQueueSteps
  <2> QED BY <1>2, <2>2, <2>3, <2>5, <2>6, <2>7, <2>8, <2>9, <2>10 DEF Step
<1> QED BY <1>1, <1>2 DEF Next, Stopped

\* Before Server::Start no call was made.
LEMMA InitCalls == Init => \A r \in Rpcs : CallOf(r)!Init
<1> SUFFICES ASSUME Init, NEW r \in Rpcs PROVE CallOf(r)!Init
  OBVIOUS
<1>1. /\ \A q \in EventQueues : thread[q].pc = "idle"
      /\ handler[r] = "none" /\ sends[r] = 0 /\ sent[r] = 0 /\ r \notin status_sent
  BY DEF Init, GrpcInit, RpcInit, ServiceInit, Idle
<1>2. \A q \in EventQueues : ~BusyOn(q, r)
  BY <1>1 DEF BusyOn, Busy
<1>3. RunningCallback(r) = "none"
  BY <1>2, NoCallback, RunningOnly
<1>4. ReadsOf(r) = "none"
  BY <1>1 DEF ReadsOf
<1>5. (r \in status_sent) = FALSE
  BY SMT, <1>1
<1>6. (r \in status_sent /\ ~Outstanding(r, "FINISH")) = FALSE
  BY SMT, <1>1
<1> QED BY <1>1, <1>3, <1>4, <1>5, <1>6 DEF CallOf!Init
=============================================================================
