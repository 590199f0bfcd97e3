---------------------------- MODULE CallInvariant ---------------------------
(***************************************************************************)
(* The inductive invariant behind ApiRespected and ImplementsCall: how far *)
(* the handler of an Rpc has got, which of its callbacks can still come,   *)
(* and which items are in its send queue and behind the final status.      *)
(*                                                                         *)
(* One thread at a time works on an Rpc whose events go through one event  *)
(* queue.  The operators take the label and the item of that thread, "idle" *)
(* and NoItem when there is none.                                          *)
(***************************************************************************)
EXTENDS LifetimeInvariant, CallRefinement

\* Nothing was read, written or sent for r before Initialize, which is invoked
\* for NEW_CONNECTION and no other event.
HandlerOK(r, label) ==
  /\ handler[r] = "none" =>
       /\ r \notin status_sent /\ r \notin reads_done /\ send_queue[r] = <<>>
       /\ \A e \in {"READ", "WRITE", "FINISH"} : ~Outstanding(r, e)
       /\ label \notin Callbacks \cup {"Read", "Perform"}
  /\ Outstanding(r, "NEW_CONNECTION") => handler[r] = "none" /\ r \notin refused
  /\ r \in refused => handler[r] = "none"
  /\ handler[r] = "ending" => label \in Callbacks
  /\ "FINISH" \in pending[r] => r \in status_sent

\* No request is read, and no other callback for requests comes, after
\* OnReadsDone.
ReadsOK(r, label) ==
  /\ r \in reads_done \/ label \in RequestLabels => ~Outstanding(r, "READ")
  /\ r \in reads_done => label \notin RequestLabels

\* The item that finishes the call is with the thread or was given to gRPC.
FinishTaken(r, label, item) ==
  r \in status_sent \/ (label = "Perform" /\ Finishes(r, item))

\* User code that sends nothing after the item that ends a call: that item is
\* the last one of all.
LastFinishes(r, label, item) ==
  /\ \A i \in 1 .. Len(send_queue[r]) :
       Finishes(r, send_queue[r][i]) => i = Len(send_queue[r])
  /\ FinishTaken(r, label, item) => send_queue[r] = <<>>

\* The events of r that ask for the send queue precede FINISH.
FinishIsLast(r) ==
  \A q \in EventQueues : \A i, j \in 1 .. Len(queue[q]) :
    /\ queue[q][i].rpc = r /\ queue[q][i].ev = "FINISH"
    /\ queue[q][j].rpc = r /\ queue[q][j].ev = "WRITE_NEEDED"
    => j < i

\* Without Writers, whatever was sent in addition came with its WRITE_NEEDED event
\* before the final status was given to gRPC: when FINISH comes back, there is no
\* reason left to look at the send queue.
NothingAfterFinish(r, label) ==
  r \in status_sent =>
    /\ "FINISH" \notin pending[r] =>
         ~Queued(r, "WRITE_NEEDED") /\ label # "HandleSendQueue"
    /\ FinishIsLast(r)

\* Only a handler that has ended its call can have an item that finishes it, and
\* nothing is sent when that was given to gRPC.
FinishOK(r, label, item) ==
  /\ handler[r] = "open" =>
       /\ ~FinishTaken(r, label, item)
       /\ \A i \in 1 .. Len(send_queue[r]) : ~Finishes(r, send_queue[r][i])
  /\ r \in status_sent =>
       handler[r] = "ended" /\ "WRITE" \notin pending[r] /\ label # "Perform"
  /\ Overrun = "nothing" => LastFinishes(r, label, item)
  /\ Writers = {} => NothingAfterFinish(r, label)

\* The items between the last one that was sent and the last one that was
\* enqueued are with the thread that is about to send one, and in the send queue,
\* in order.
NumberOK(r, label, item) ==
  LET n == IF label = "Perform" THEN sent[r] + 1 ELSE sent[r]
  IN  /\ label = "Perform" => item.n = n
      /\ sends[r] = n + Len(send_queue[r])
      /\ \A i \in 1 .. Len(send_queue[r]) : send_queue[r][i].n = n + i

CallOK(r, label, item) ==
  HandlerOK(r, label) /\ ReadsOK(r, label) /\ FinishOK(r, label, item) /\ NumberOK(r, label, item)

\* Before r was created.
Fresh(r) ==
  /\ handler[r] = "none" /\ send_queue[r] = <<>> /\ sends[r] = 0 /\ sent[r] = 0
  /\ r \notin status_sent /\ r \notin reads_done /\ r \notin refused

CallStateOK(r) ==
  /\ call[r] = "none" => Fresh(r)
  /\ SameQueue(r) =>
       /\ \A q \in EventQueues : BusyOn(q, r) => CallOK(r, thread[q].pc, thread[q].item)
       /\ (\A q \in EventQueues : ~BusyOn(q, r)) => CallOK(r, "idle", NoItem)

\* Where a call is, as its handler, its flags, its send queue and its thread
\* have it, in every state of a process that runs: the reason why the server
\* keeps the promise of module Call.
CallInv == fault = "none" => \A r \in Rpcs : CallStateOK(r)
=============================================================================
