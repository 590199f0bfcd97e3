-------------------------- MODULE DeliveryInvariant -------------------------
(***************************************************************************)
(* The inductive invariant behind Delivered, for a server with one event   *)
(* thread: where the requests and the responses of the one call are, from  *)
(* the application's Write to the handler and back, and how far the        *)
(* handler has got with what it sends.                                     *)
(***************************************************************************)
EXTENDS LifetimeInvariant, ClientServer

\* The event thread, what it does for r, and what the callback that it runs for r
\* has sent.
EventThread == 0
Doing(r) == IF BusyOn(EventThread, r) THEN thread[EventThread] ELSE Idle
Label(r) == Doing(r).pc
RepliedFor(r) == IF BusyOn(EventThread, r) THEN replied[EventThread] ELSE 0

\* What a callback has sent is a number of items.
RepliedOK == replied \in [EventQueues -> Nat]

Matched(r) == call[r] \in {"open", "closed"}

\* The client waits for the rest of its call.
Waiting == status = "none" /\ op # "destroyed"

\* The event thread has not taken the outcome of a read yet.
ReadQueued(r, ok) ==
  \E i \in 1 .. Len(queue[EventThread]) :
    queue[EventThread][i] = [ev |-> "READ", rpc |-> r, ok |-> ok]

\* The requests of r that OnRequest was or is invoked with.
Taken(r) == IF ReadQueued(r, TRUE) THEN requests[r] - 1 ELSE requests[r]

\* What the handler of a call has sent after n of its requests: everything that the
\* callbacks that have returned had to send, and what is behind the callback at
\* label.  The item that ends the call is the last one of OnReadsDone, or of
\* OnRequest for a single request.
Progress(type, state, n, reads_are_done, label, behind, total) ==
  LET all == Len(Script(type, "OnRequest"))
  IN  /\ behind \in 0 .. Len(Script(type, label))
      /\ IF state = "none" THEN total = 0 /\ n = 0
         ELSE IF type \in {"CLIENT_STREAMING", "BIDI_STREAMING"}
         THEN /\ n >= IF label = "OnRequest" THEN 1 ELSE 0
              /\ total = all * (IF label = "OnRequest" THEN n - 1 ELSE n)
                           + (IF reads_are_done THEN 1 ELSE 0) + behind
              /\ state = IF reads_are_done THEN "ended"
                         ELSE IF label = "OnReadsDone" /\ behind = 1 THEN "ending"
                         ELSE "open"
         ELSE /\ total = IF label = "Initialize" THEN 0
                         ELSE IF label = "OnRequest" THEN behind ELSE all
              /\ state = IF label = "Initialize" \/ (label = "OnRequest" /\ behind < all)
                         THEN "open"
                         ELSE IF label = "OnRequest" THEN "ending" ELSE "ended"

\* A stream is read event by event, a single request comes with NEW_CONNECTION.
ReadsByEvent(r) ==
  IF StreamsRequests(r)
  THEN Label(r) \in {"OnRequest", "OnReadsDone"} => Doing(r).ev = "READ"
  ELSE ~Outstanding(r, "READ") /\ Doing(r).ev # "READ" /\ Label(r) # "Read"

HandlerProgress(r) ==
  /\ Progress(RpcType[method[r]], handler[r], Taken(r), r \in reads_done, Label(r),
              RepliedFor(r), sends[r])
  /\ ReadsByEvent(r)

\* The handler knows, or is about to be told, that there are no more requests.
ToldAll(r) == r \in reads_done \/ Label(r) = "OnReadsDone" \/ ReadQueued(r, FALSE)

\* Every request that the stream took is on its way or was read, every response
\* that gRPC got is with gRPC, on its way or was read, and the requests are all
\* there when the handler is told so.
CallProgress(r) ==
  /\ stream
  /\ RpcType[method[r]] = rpc_type
  /\ WritesStream => requests[r] + uplink = written
  /\ Waiting =>
       /\ call[r] = "open"
       /\ sent[r] = received + Len(downlink)
                      + (IF ops[r] \cap {"WRITE", "FINISH"} # {} THEN 1 ELSE 0)
       /\ r \in status_sent => "FINISH" \in ops[r]
       /\ WritesStream /\ ToldAll(r) => half_closed /\ uplink = 0

NotConnected ==
  /\ WritesStream => uplink = written
  /\ received = 0 /\ downlink = <<>> /\ status # "ok"

ClientTypeOK ==
  /\ rpc_type \in RpcTypes
  /\ written \in Nat /\ uplink \in Nat /\ received \in Nat /\ downlink \in Seq(Nat)

\* The application's side: a stream that is closed takes no more requests, a call that
\* is finished has no more responses, and with the status OK everything has arrived
\* that will.
StreamsOK ==
  /\ downlink = [i \in 1 .. Len(downlink) |-> received + i]
  /\ op = "Write" => WritesStream /\ ~half_closed
  /\ ~WritesStream /\ stream => written = 1
  /\ op = "finished" => status # "none" /\ downlink = <<>>
  /\ status = "ok" => received + Len(downlink) = ResponsesTo(written) /\ (WritesStream => uplink = 0)

\* Where everything is that was written and sent, in every state of a process that
\* runs: the reason why a call that ends with OK has lost nothing.
DeliveryInv ==
  /\ ClientTypeOK /\ StreamsOK
  /\ \A r, s \in Rpcs : Matched(r) /\ Matched(s) => r = s
  /\ \A r \in Rpcs : HandlerProgress(r) /\ (Matched(r) => CallProgress(r))
  /\ (\A r \in Rpcs : ~Matched(r)) => NotConnected
=============================================================================
