-------------------------- MODULE ServerProperties --------------------------
(***************************************************************************)
(* What the server promises.                                               *)
(***************************************************************************)
EXTENDS Server

\* The event e of r is in one of these event queues.
QueuedIn(queues, r, e) ==
  \E q \in EventQueues : \E i \in 1 .. Len(queues[q]) :
    queues[q][i].rpc = r /\ queues[q][i].ev = e

Queued(r, e) == QueuedIn(queue, r, e)

\* gRPC or an event queue has the address of the event e of r.
Outstanding(r, e) == e \in ops[r] \/ Queued(r, e)

\* The completion queue events and the WRITE_NEEDED events of r go through one
\* event queue.  True of every Rpc when there is one event thread, and of the
\* Rpcs that StartServing creates.
SameQueue(r) == events_queue[r] = event_queue[r]

\* Someone holds a raw pointer to r: the address of one of its events, or an
\* event thread that handles one of them.
RawPointerTo(r) ==
  \/ \E e \in CqEvents : Outstanding(r, e)
  \/ \E q \in EventQueues :
       Busy(q) /\ thread[q].rpc = r /\ thread[q].ev # "WRITE_NEEDED"

\* No Rpc is destroyed while a raw pointer to it is about.  RemoveIfNotPending
\* decides from the pending_ flags, across callbacks, Writers and reordered
\* completions.  The exception are Rpcs that HandleNewConnection refuses during
\* shutdown.  (A Writer call that outlives the membership of its Rpc in
\* ActiveRpcs stops the process; see WriterIsSafe.)
NoDanglingEvents ==
  fault = "none" =>
    \A r \in Rpcs : SameQueue(r) /\ r \notin refused /\ Destroyed(r) => ~RawPointerTo(r)

\* The same without the exception: the lifetime of an Rpc as service.h has it.
NoDanglingEventsEver == \A r \in Rpcs : Destroyed(r) => ~RawPointerTo(r)

\* The pending_ flag of an operation is set exactly while its tag is with gRPC
\* or in an event queue; the flags are all that Service knows of that.
PendingIsOutstanding ==
  \A r \in active_rpcs : SameQueue(r) =>
    \A e \in {"READ", "WRITE", "FINISH"} : e \in pending[r] <=> Outstanding(r, e)

\* PerformWrite, PerformFinish and the streaming Read keep the contract of the
\* asynchronous API: HandleSendQueue tests the flags under a lock and acts on
\* them after releasing it.
ApiRespected ==
  \A q \in EventQueues :
    LET r == thread[q].rpc
    IN  Busy(q) /\ SameQueue(r) =>
          /\ thread[q].pc = "Perform" =>
               ~Misused(r, IF Finishes(r, thread[q].item) THEN "FINISH" ELSE "WRITE")
          /\ thread[q].pc = "Read" => ~Misused(r, "READ")

\* A response never waits for a push that will not come: while one is in the
\* send queue of an active Rpc, and the call is not finished, a write is
\* pending, a WRITE_NEEDED event is queued, or a thread is about to look at the
\* send queue or to push the event.
NoStuckResponse ==
  \A r \in active_rpcs : send_queue[r] # <<>> /\ r \notin status_sent =>
    \/ "WRITE" \in pending[r]
    \/ Queued(r, "WRITE_NEEDED")
    \/ \E q \in EventQueues :
         thread[q].rpc = r /\ thread[q].pc \in {"HandleSendQueue", "Perform"}
    \/ \E w \in Writers : writer[w] = [pc |-> "enqueued", rpc |-> r]

\* The Rpcs that wait for a call of m on c, or whose NEW_CONNECTION event is
\* being handled and has not led to a clone yet.
Listeners(m, c) ==
  {r \in RpcsFor(m, c) :
     \/ "NEW_CONNECTION" \in pending[r]
     \/ \E q \in EventQueues :
          Busy(q) /\ thread[q].rpc = r /\ thread[q].ev = "NEW_CONNECTION"}

\* While a service is not stopped, every one of its methods has exactly one
\* listener on every completion queue: HandleNewConnection neither loses the
\* listener nor makes two.
OneListener ==
  main # "starting" =>
    \A m \in Methods, c \in CompletionQueues :
      ServiceOf[m] \notin stopped => Cardinality(Listeners(m, c)) = 1

\* HandleNewConnection never meets a failed request while its service is not
\* shutting down, the case in which it would clone an Rpc it has removed:
\* Shutdown stops the services before it shuts gRPC down.
FailedRequestsOnlyInShutdown ==
  \A q \in EventQueues : thread[q].pc # "RemoveAndClone"

\* "For a given Rpc object everything looks single-threaded" (README.md:132).
SingleThreaded ==
  \A p, q \in EventQueues : Busy(p) /\ Busy(q) /\ thread[p].rpc = thread[q].rpc => p = q

\* A Writer can be called from any thread at any time (README.md:175): it neither
\* runs into the CHECK of ActiveRpcs::GetWeakPtr nor makes Service break the
\* contract of the asynchronous API.
WriterIsSafe == fault \notin {"check_failed", "api_misuse"}

\* Shutdown leaves nothing in ActiveRpcs, whose destructor is fatal otherwise.
NoRpcInFlight == main = "complete" => active_rpcs = {}

\* While the server is up, the Rpc of a call that is over is removed: no order
\* of events leaves it in ActiveRpcs.
ClosedCallsAreRemoved ==
  \A r \in Rpcs :
    call[r] = "closed" ~> (r \notin active_rpcs \/ shutting_down)

\* While the server is up, a response that user code has sent reaches gRPC,
\* unless the call was finished before it or is over.
ResponsesAreSent ==
  \A r \in Rpcs : \A n \in 1 .. MaxSends :
    sends[r] >= n ~> (sent[r] >= n \/ r \in status_sent \/ call[r] = "closed"
                      \/ shutting_down)

\* A Shutdown that has waited for the gRPC server comes to its end: every
\* completion queue drains, whatever the event threads and Writers still do, and
\* every event thread leaves.
JoinsReturn == main = "joining_cqs" ~> (main = "complete" \/ fault # "none")
=============================================================================
