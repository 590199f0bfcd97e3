----------------------------- MODULE RpcHandler -----------------------------
(***************************************************************************)
(* User code: the callbacks of a RpcHandler, which run on the event thread *)
(* that handles an event of the Rpc, and user threads that hold a Writer   *)
(* (rpc_handler.h).  User code is free to send when it likes; Overrun says *)
(* what it may still send once it has sent the item that ends the call.    *)
(***************************************************************************)
EXTENDS Service

CONSTANT Overrun

\* "nothing": nothing at all.  "callback": the callback that ended the call may
\* go on sending, as GetSquareHandler in server_test.cc does (Finish and then
\* Send).  "writer": Writers do not know that the call was ended.
ASSUME OverrunAssumption == Overrun \in {"nothing", "callback", "writer"}

HandlerMaySend(r) ==
  handler[r] = "open" \/ (handler[r] = "ending" /\ Overrun = "callback")

WriterMaySend(r) == handler[r] = "open" \/ Overrun = "writer"

\* RpcHandler::Send (msg) or RpcHandler::Finish (~msg) in a callback.
HandlerSend(q, msg) ==
  LET r == thread[q].rpc
  IN  /\ \E callback \in Callbacks : At(q, callback)
      /\ HandlerMaySend(r)
      /\ EnqueueMessage(r, msg)
      /\ PushWriteNeeded(r)
      /\ handler' = IF handler[r] = "open" /\ Finishes(r, [msg |-> msg])
                    THEN [handler EXCEPT ![r] = "ending"] ELSE handler
      /\ UNCHANGED <<call, cq, ops, status_sent, requests, server_down, cq_down,
                     method, event_queue, events_queue, pending, sent, active_rpcs,
                     stopped, refused, thread, reads_done, writer,
                     current_event_queue_id>>

\* Mutants: HandleNewConnection forgets the clone; HandleRead goes on to the
\* next read after OnReadsDone; HandleFinish forgets RemoveIfNotPending.
NextLabelWithoutClone(q) ==
  CASE thread[q].pc = "Initialize" ->
         IF StreamsRequests(thread[q].rpc) THEN "Read" ELSE "OnRequest"
    [] thread[q].pc = "OnRequest" -> IF thread[q].ev = "READ" THEN "Read" ELSE "OnReadsDone"
    [] OTHER -> "RemoveIfNotPending"
NextLabelReadsOn(q) ==
  CASE thread[q].pc = "Initialize" ->
         IF StreamsRequests(thread[q].rpc) THEN "Read" ELSE "OnRequest"
    [] thread[q].pc = "OnRequest" -> IF thread[q].ev = "READ" THEN "Read" ELSE "OnReadsDone"
    [] thread[q].pc = "OnReadsDone" -> IF thread[q].ev = "READ" THEN "Read" ELSE "Clone"
    [] OTHER -> "RemoveIfNotPending"
NextLabelWithoutRemove(q) ==
  CASE thread[q].pc = "Initialize" ->
         IF StreamsRequests(thread[q].rpc) THEN "Read" ELSE "OnRequest"
    [] thread[q].pc = "OnRequest" -> IF thread[q].ev = "READ" THEN "Read" ELSE "OnReadsDone"
    [] thread[q].pc = "OnReadsDone" -> IF thread[q].ev = "READ" THEN "RemoveIfNotPending" ELSE "Clone"
    [] OTHER -> "idle"

\* What the event thread does when a callback returns: OnConnection runs
\* Initialize and then asks for the first message of a stream, or runs
\* OnRequest and OnReadsDone for the single request that it already has.
NextLabel(q) ==
  LET r == thread[q].rpc
      ev == thread[q].ev
  IN  CASE thread[q].pc = "Initialize" -> IF StreamsRequests(r) THEN "Read" ELSE "OnRequest"
        [] thread[q].pc = "OnRequest" -> IF ev = "READ" THEN "Read" ELSE "OnReadsDone"
        [] thread[q].pc = "OnReadsDone" -> IF ev = "READ" THEN "RemoveIfNotPending" ELSE "Clone"
        [] OTHER -> "RemoveIfNotPending"

CallbackReturns(q) ==
  LET r == thread[q].rpc
  IN  /\ \E callback \in Callbacks : At(q, callback)
      /\ Goto(q, NextLabel(q))
      /\ handler' = IF handler[r] = "ending"
                    THEN [handler EXCEPT ![r] = "ended"] ELSE handler
      /\ reads_done' = IF thread[q].pc = "OnReadsDone"
                       THEN reads_done \cup {r} ELSE reads_done
      /\ UNCHANGED <<grpcVars, rpcVars, stopped, refused, writer,
                     current_event_queue_id>>

\* RpcHandler::GetWriter in a callback: the Writer is handed to thread w.
GetWriter(q, w) ==
  LET r == thread[q].rpc
  IN  /\ \E callback \in Callbacks : At(q, callback)
      /\ writer[w].rpc = NoRpc
      /\ GetWeakPtr(r)
      /\ writer' = [writer EXCEPT ![w].rpc = r]
      /\ UNCHANGED <<call, cq, ops, status_sent, requests, server_down, cq_down,
                     rpcVars, stopped, refused, thread, handler, reads_done,
                     current_event_queue_id>>

\* Writer::Write (msg), or Writer::WritesDone and Writer::Finish (~msg), up to
\* the enqueued message.  With a weak_ptr that has expired they return false
\* and change nothing.
WriterEnqueue(w, msg) ==
  LET r == writer[w].rpc
  IN  /\ writer[w].pc = "idle" /\ r # NoRpc
      /\ ~Destroyed(r)
      /\ WriterMaySend(r)
      /\ EnqueueMessage(r, msg)
      /\ writer' = [writer EXCEPT ![w].pc = "enqueued"]
      /\ handler' = IF handler[r] = "open" /\ Finishes(r, [msg |-> msg])
                    THEN [handler EXCEPT ![r] = "ended"] ELSE handler
      /\ UNCHANGED <<grpcVars, method, event_queue, events_queue, pending, sent,
                     active_rpcs, queue, stopped, refused, thread, reads_done,
                     current_event_queue_id>>

\* The rest of the call; returning releases the shared_ptr.
WriterPush(w) ==
  /\ writer[w].pc = "enqueued"
  /\ PushWriteNeeded(writer[w].rpc)
  /\ writer' = [writer EXCEPT ![w].pc = "idle"]
  /\ UNCHANGED <<call, cq, ops, status_sent, requests, server_down, cq_down,
                 method, event_queue, events_queue, pending, send_queue, sends,
                 sent, active_rpcs, stopped, refused, thread, handler, reads_done,
                 current_event_queue_id>>
=============================================================================
