--------------------------- MODULE CallRefinement ---------------------------
(***************************************************************************)
(* The server implements Call for every Rpc.                               *)
(***************************************************************************)
EXTENDS ServerProperties

InCallback(r, callback) ==
  \E q \in EventQueues : thread[q].rpc = r /\ thread[q].pc = callback

RunningCallback(r) ==
  IF \E callback \in Callbacks : InCallback(r, callback)
  THEN CHOOSE callback \in Callbacks : InCallback(r, callback)
  ELSE "none"

ReadsOf(r) ==
  IF handler[r] = "none" THEN "none"
  ELSE IF r \in reads_done \/ InCallback(r, "OnReadsDone") THEN "done" ELSE "open"

CallOf(r) == INSTANCE Call WITH
  running <- RunningCallback(r),
  reads <- ReadsOf(r),
  accepted <- sends[r],
  delivered <- sent[r],
  closed <- r \in status_sent,
  finish_seen <- r \in status_sent /\ ~Outstanding(r, "FINISH")

\* Every Rpc whose events go through one event queue keeps the promise of module
\* Call to its handler: Initialize, requests, OnReadsDone and OnFinish in order,
\* each of the others once, one callback at a time, responses in the order in
\* which they were sent and none after the final status.  The handlers of
\* Service, the pending flags and the events that cross threads implement it.
ImplementsCall ==
  /\ \A r \in Rpcs : CallOf(r)!Init
  /\ [][\A r \in Rpcs : SameQueue(r) => [CallOf(r)!Next]_(CallOf(r)!vars)]_vars
=============================================================================
