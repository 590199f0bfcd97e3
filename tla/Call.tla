-------------------------------- MODULE Call --------------------------------
(***************************************************************************)
(* What the server promises to the author of a RpcHandler for one call: in *)
(* which order callbacks are invoked, and that responses reach gRPC in the *)
(* order in which they were sent, up to the one that finishes the call.    *)
(* There are no threads, queues or events here.                            *)
(***************************************************************************)
EXTENDS Naturals

VARIABLES
  running,      \* the callback that is running
  reads,        \* whether requests may come: "none" before Initialize, "open", "done"
  accepted,     \* responses that user code has sent
  delivered,    \* responses that were given to gRPC
  closed,       \* the last of them was given to gRPC with the final status
  finish_seen   \* OnFinish was invoked

vars == <<running, reads, accepted, delivered, closed, finish_seen>>

Init ==
  /\ running = "none"
  /\ reads = "none"
  /\ accepted = 0
  /\ delivered = 0
  /\ closed = FALSE
  /\ finish_seen = FALSE

\* One callback at a time; the next may follow on the return of another.
Invoke(callback) ==
  /\ \/ callback = "Initialize" /\ reads = "none" /\ reads' = "open" /\ UNCHANGED finish_seen
     \/ callback = "OnRequest" /\ reads = "open" /\ UNCHANGED <<reads, finish_seen>>
     \/ callback = "OnReadsDone" /\ reads = "open" /\ reads' = "done" /\ UNCHANGED finish_seen
     \/ callback = "OnFinish" /\ closed /\ ~finish_seen /\ finish_seen' = TRUE /\ UNCHANGED reads
  /\ running' = callback
  /\ UNCHANGED <<accepted, delivered, closed>>

Return ==
  /\ running # "none"
  /\ running' = "none"
  /\ UNCHANGED <<reads, accepted, delivered, closed, finish_seen>>

\* User code sends in a callback, or from another thread.
Accept ==
  /\ reads # "none"
  /\ accepted' = accepted + 1
  /\ UNCHANGED <<running, reads, delivered, closed, finish_seen>>

Deliver ==
  /\ ~closed
  /\ delivered < accepted
  /\ delivered' = delivered + 1
  /\ closed' \in BOOLEAN
  /\ UNCHANGED <<running, reads, accepted, finish_seen>>

Next ==
  \/ \E callback \in {"Initialize", "OnRequest", "OnReadsDone", "OnFinish"} : Invoke(callback)
  \/ Return \/ Accept \/ Deliver

Spec == Init /\ [][Next]_vars
=============================================================================
