-------------------------- MODULE LifetimeInvariant -------------------------
(***************************************************************************)
(* The inductive invariant behind NoDanglingEvents: where the events of an *)
(* Rpc can be, what the pending_ flags say of them, and what a thread that *)
(* is about to act on the flags can rely on.                               *)
(***************************************************************************)
EXTENDS ServerProperties

BusyOn(q, r) == Busy(q) /\ thread[q].rpc = r

HeldByWriter(r) == \E w \in Writers : writer[w].pc = "enqueued" /\ writer[w].rpc = r

\* The labels on the way from a request to the next read.
RequestLabels == {"Initialize", "OnRequest", "OnReadsDone", "Read"}

\* Requests fail only after every service was stopped, so the branch that
\* clones a removed Rpc is never taken.
ShutdownInv ==
  /\ server_down => stopped = Services
  /\ \A q \in EventQueues : thread[q].pc # "RemoveAndClone"
  /\ \A q \in EventQueues : \A i \in 1 .. Len(queue[q]) :
       queue[q][i].ev = "NEW_CONNECTION" =>
         IF queue[q][i].ok THEN call[queue[q][i].rpc] # "requested"
         ELSE server_down /\ call[queue[q][i].rpc] = "requested"

\* Completion queue events go through events_queue, WRITE_NEEDED through
\* event_queue.
RoutingInv ==
  /\ \A q \in EventQueues : \A i \in 1 .. Len(queue[q]) :
       LET e == queue[q][i]
       IN  q = IF e.ev = "WRITE_NEEDED" THEN event_queue[e.rpc] ELSE events_queue[e.rpc]
  /\ \A q \in EventQueues : Busy(q) =>
       /\ thread[q].rpc \in Rpcs
       /\ q = IF thread[q].ev = "WRITE_NEEDED" THEN event_queue[thread[q].rpc]
              ELSE events_queue[thread[q].rpc]

\* A tag is in one place at a time, and DONE follows NEW_CONNECTION.
TagOK(q, i) ==
  LET e == queue[q][i]
  IN  e.ev \in {"NEW_CONNECTION", "DONE"} \/ (e.ev # "WRITE_NEEDED" /\ SameQueue(e.rpc)) =>
        /\ e.ev \notin ops[e.rpc]
        /\ e.ev = "DONE" => "NEW_CONNECTION" \notin ops[e.rpc]
        /\ \A j \in 1 .. Len(queue[q]) : queue[q][j].rpc = e.rpc =>
             /\ queue[q][j].ev = e.ev => i = j
             /\ e.ev = "DONE" /\ queue[q][j].ev = "NEW_CONNECTION" => j < i

TagsInv == \A q \in EventQueues : \A i \in 1 .. Len(queue[q]) : TagOK(q, i)

\* Nothing but NEW_CONNECTION and DONE happens to r.
Quiet(r) ==
  /\ ops[r] \subseteq {"NEW_CONNECTION", "DONE"}
  /\ \A e \in CqEvents \cup {"WRITE_NEEDED"} :
       Queued(r, e) => e \in {"NEW_CONNECTION", "DONE"}
  /\ \A q \in EventQueues : ~BusyOn(q, r)
  /\ \A w \in Writers : writer[w].rpc # r

\* Before and while r waits for its call.
ConnectionOK(r) ==
  /\ call[r] = "none" =>
       /\ Quiet(r)
       /\ r \notin active_rpcs
       /\ \A e \in CqEvents : ~Outstanding(r, e)
  /\ Outstanding(r, "NEW_CONNECTION") =>
       Quiet(r) /\ (SameQueue(r) => pending[r] = {"NEW_CONNECTION", "DONE"})
  /\ call[r] = "requested" =>
       /\ \A e \in CqEvents : Outstanding(r, e) => e = "NEW_CONNECTION"
       /\ ~Queued(r, "WRITE_NEEDED")
       /\ \A q \in EventQueues : BusyOn(q, r) => thread[q].pc = "Remove"
       /\ \A w \in Writers : writer[w].rpc # r

ConnectionInv == \A r \in Rpcs : ConnectionOK(r)

\* The flags do not miss an outstanding operation.
FlagsInv ==
  \A r \in Rpcs : SameQueue(r) => \A e \in CqEvents : Outstanding(r, e) => e \in pending[r]

\* The labels of HandleNewConnection.
ConnectionLabels ==
  {"Initialize", "OnRequest", "OnReadsDone", "Read", "Clone", "Remove", "RemoveAndClone"}

\* What a thread relies on between testing the flags and acting on them.
ThreadOK(q) ==
  LET r == thread[q].rpc
      label == thread[q].pc
  IN  Busy(q) =>
        /\ thread[q].ev = "NEW_CONNECTION" => label \in ConnectionLabels
        /\ SameQueue(r) =>
             /\ label \in {"Initialize", "OnRequest", "Read"} =>
                  "READ" \notin pending[r] /\ thread[q].ev \in {"NEW_CONNECTION", "READ"}
             /\ label = "Perform" => pending[r] \cap {"WRITE", "FINISH"} = {}
             /\ label = "Remove" /\ thread[q].ev # "NEW_CONNECTION" => ~IsAnyEventPending(r)
             /\ label = "Remove" /\ thread[q].ev = "NEW_CONNECTION" /\ r \notin refused =>
                  call[r] = "requested"

ThreadInv == \A q \in EventQueues : ThreadOK(q)

\* An Rpc that is gone from ActiveRpcs and is still in use is kept by a Writer.
HeldInv ==
  \A r \in Rpcs :
    /\ SameQueue(r) /\ r \notin refused /\ r \notin active_rpcs
    /\ \/ \E e \in CqEvents : Outstanding(r, e)
       \/ \E q \in EventQueues : BusyOn(q, r)
    => HeldByWriter(r)

EventsInv ==
  /\ ShutdownInv
  /\ RoutingInv
  /\ TagsInv
  /\ ConnectionInv
  /\ FlagsInv
  /\ ThreadInv
  /\ HeldInv

\* Where the events of an Rpc are, what its pending_ flags say of them and who
\* keeps it alive, in every state of a process that runs: the reason why
\* RemoveIfNotPending can trust the flags.
LifetimeInv == fault = "none" => EventsInv
=============================================================================
