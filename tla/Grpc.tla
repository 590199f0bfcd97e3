-------------------------------- MODULE Grpc --------------------------------
(***************************************************************************)
(* The part of the gRPC library that the server code in async_grpc relies  *)
(* on, as the code uses it: asynchronous operations are started with the   *)
(* address of a CompletionQueueRpcEvent as their tag, and the tag comes    *)
(* back from the completion queue exactly once.  gRPC is external code;    *)
(* everything here is an assumption about it.                              *)
(*                                                                         *)
(* An Rpc object serves one call and is then destroyed, so operations and  *)
(* call states are kept per Rpc object.                                    *)
(***************************************************************************)
EXTENDS Naturals, Sequences, FiniteSets

CONSTANTS
  Rpcs,              \* identities of Rpc objects; an identity is used once
  CompletionQueues,  \* Server::completion_queue_threads_
  RequestsMayFail,   \* requests fail for other reasons than a shutdown, too
  MaxConnections,    \* bound: calls that clients make
  MaxRequests        \* bound: messages that a client streams on one call

ASSUME RpcsAssumption == Rpcs # {}
ASSUME CompletionQueuesAssumption == CompletionQueues # {}
ASSUME RequestsMayFailAssumption == RequestsMayFail \in BOOLEAN

VARIABLES
  call,         \* what gRPC knows of the call served by an Rpc
  cq,           \* the completion queue that an Rpc gave to gRPC
  ops,          \* operations started and not yet returned by Next
  status_sent,  \* Rpcs whose final status was given to gRPC
  requests,     \* messages of a client stream read so far
  server_down,  \* ::grpc::Server::Shutdown was called
  cq_down,      \* completion queues that were told to shut down
  fault         \* why the process stopped, "none" while it runs

grpcVars ==
  <<call, cq, ops, status_sent, requests, server_down, cq_down, fault>>

\* The events that have a CompletionQueueRpcEvent and serve as tags.
CqEvents == {"NEW_CONNECTION", "READ", "WRITE", "FINISH", "DONE"}

CallStates == {"none", "requested", "open", "closed"}

\* check_failed: a CHECK of this code; api_misuse: an assertion of gRPC on
\* its asynchronous API; dead_queue: an operation started on a completion
\* queue that has shut down; use_after_free: a destroyed Rpc is accessed.
Faults ==
  {"none", "check_failed", "api_misuse", "dead_queue", "use_after_free"}

GrpcTypeOK ==
  /\ call \in [Rpcs -> CallStates]
  /\ cq \in [Rpcs -> CompletionQueues]
  /\ ops \in [Rpcs -> SUBSET CqEvents]
  /\ status_sent \in SUBSET Rpcs
  /\ requests \in [Rpcs -> Nat]
  /\ server_down \in BOOLEAN
  /\ cq_down \in SUBSET CompletionQueues
  /\ fault \in Faults

GrpcInit ==
  /\ call = [r \in Rpcs |-> "none"]
  /\ cq = [r \in Rpcs |-> CHOOSE c \in CompletionQueues : TRUE]
  /\ ops = [r \in Rpcs |-> {}]
  /\ status_sent = {}
  /\ requests = [r \in Rpcs |-> 0]
  /\ server_down = FALSE
  /\ cq_down = {}
  /\ fault = "none"

\* Every operation started on c has been returned.  Once a queue that was
\* told to shut down is drained, Next returns false and the queue is dead.
Drained(c) == \A r \in Rpcs : cq[r] = c => ops[r] = {}

\* The contract of the asynchronous API: one outstanding operation of each
\* kind, no Finish during a Write, nothing sent after Finish.
Misused(r, e) ==
  \/ e \in ops[r]
  \/ e \in {"WRITE", "FINISH"} /\ r \in status_sent
  \/ e = "FINISH" /\ "WRITE" \in ops[r]

\* Start operation e for r on completion queue c.
StartOp(r, c, e) ==
  /\ ops' = [ops EXCEPT ![r] = @ \cup {e}]
  /\ fault' = IF c \in cq_down /\ Drained(c) THEN "dead_queue"
              ELSE IF Misused(r, e) THEN "api_misuse" ELSE fault

\* A client call is matched with the request of r.  The DONE notification
\* is outstanding from here on: gRPC never returns it for a request that
\* matched no call.
ClientCall(r) ==
  /\ call[r] = "requested" /\ "NEW_CONNECTION" \in ops[r]
  /\ ~server_down
  /\ Cardinality({s \in Rpcs : call[s] \in {"open", "closed"}}) < MaxConnections
  /\ call' = [call EXCEPT ![r] = "open"]
  /\ ops' = [ops EXCEPT ![r] = @ \cup {"DONE"}]
  /\ UNCHANGED <<cq, status_sent, requests, server_down, cq_down, fault>>

\* The call is over: the client cancelled it or went away, or it has
\* received the final status.
CallCloses(r) ==
  /\ call[r] = "open"
  /\ call' = [call EXCEPT ![r] = "closed"]
  /\ UNCHANGED <<cq, ops, status_sent, requests, server_down, cq_down, fault>>

\* Next may return the tag e of r with this value of ok.  The server code
\* only logs ok for WRITE and FINISH and ignores it for DONE, so TRUE stands
\* for both values there.
MayReturn(r, e, ok) ==
  /\ e \in ops[r]
  /\ CASE e = "NEW_CONNECTION" ->
            IF call[r] = "requested" THEN ~ok /\ (server_down \/ RequestsMayFail) ELSE ok
       [] e = "READ" -> ok => requests[r] < MaxRequests
       [] e = "DONE" -> ok /\ call[r] = "closed" /\ "NEW_CONNECTION" \notin ops[r]
       [] OTHER -> ok

\* ::grpc::Server::Shutdown() returns when no call is open any more.
ServerShutdownReturns == server_down /\ \A r \in Rpcs : call[r] # "open"
=============================================================================
