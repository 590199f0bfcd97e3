---------------------------- MODULE ClientServer ----------------------------
(***************************************************************************)
(* A client and the server together, as the tests of server_test.cc run    *)
(* them: the application makes one call and the handler answers it.  What  *)
(* module Server leaves to chance, when messages arrive and when a call is *)
(* over, is determined here by what the client does, and responses wait    *)
(* for the client to read.  The server is not shut down here.              *)
(***************************************************************************)
EXTENDS ServerProperties, StreamClient

VARIABLE replied  \* items that the running callback of an event thread has sent

allVars == <<vars, clientVars, replied>>

CSInit == Init /\ ClientInit /\ replied = [q \in EventQueues |-> 0]

\* What the handlers of server_test.cc send in their callbacks: TRUE is Send,
\* FALSE is Finish.  GetSum, GetRunningSum, GetSequence (for the request 2),
\* GetSquare.
Script(type, callback) ==
  CASE type = "CLIENT_STREAMING" /\ callback = "OnReadsDone" -> <<TRUE>>
    [] type = "BIDI_STREAMING" /\ callback = "OnRequest" -> <<TRUE, TRUE>>
    [] type = "BIDI_STREAMING" /\ callback = "OnReadsDone" -> <<FALSE>>
    [] type = "SERVER_STREAMING" /\ callback = "OnRequest" -> <<TRUE, TRUE, FALSE>>
    [] type = "NORMAL_RPC" /\ callback = "OnRequest" -> <<TRUE>>
    [] OTHER -> <<>>

ScriptOf(q) == Script(RpcType[method[thread[q].rpc]], thread[q].pc)

\* The responses that the handler gives to this many requests.
ResponsesTo(n) ==
  CASE rpc_type = "BIDI_STREAMING" -> 2 * n
    [] rpc_type = "SERVER_STREAMING" -> 2
    [] OTHER -> 1

\* The application uses a Client for one invocation, as its comment demands
\* (client.h:37), and calls its operations in any order.
ApplicationCalls ==
  /\ main = "serving"
  /\ \/ ~stream /\ (UnaryWrite \/ ServerStreamingWrite)
     \/ ServerStreamingRead \/ ClientStreamingClient \/ BidiStreamingClient

OperationReturns == WriteReturns \/ ReadReturns \/ FinishReturns

\* The one call of the client reaches the listener of its method.
Connect(r) ==
  /\ stream /\ status = "none" /\ op # "destroyed"
  /\ \A s \in Rpcs : call[s] \notin {"open", "closed"}
  /\ RpcType[method[r]] = rpc_type
  /\ ClientCall(r)
  /\ UNCHANGED <<rpcVars, serviceVars, main, clientVars, replied>>

\* The client has its status, or the server has lost it.
Disconnect(r) ==
  /\ status # "none" \/ op = "destroyed"
  /\ CallCloses(r)
  /\ UNCHANGED <<rpcVars, serviceVars, main, clientVars, replied>>

RequestArrives(r) ==
  /\ call[r] = "open" /\ uplink > 0
  /\ RunCompletionQueue(r, "READ", TRUE)
  /\ uplink' = uplink - 1
  /\ UNCHANGED <<rpc_type, stream, op, written, half_closed, downlink, received, status,
                 replied>>

RequestsEnd(r) ==
  /\ call[r] = "closed" \/ (half_closed /\ uplink = 0)
  /\ RunCompletionQueue(r, "READ", FALSE)
  /\ UNCHANGED <<clientVars, replied>>

\* A Write completes when the stream has room for the response.
ResponseLeaves(r) ==
  /\ RunCompletionQueue(r, "WRITE", TRUE)
  /\ IF status = "none" /\ op # "destroyed"
     THEN Len(downlink) < Window /\ downlink' = Append(downlink, sent[r])
     ELSE UNCHANGED downlink
  /\ UNCHANGED <<rpc_type, stream, op, written, uplink, half_closed, received, status, replied>>

\* A Finish completes; a single response travels with the status.
StatusLeaves(r) ==
  /\ RunCompletionQueue(r, "FINISH", TRUE)
  /\ IF status = "none" /\ op # "destroyed"
     THEN /\ status' = "ok"
          /\ downlink' = IF rpc_type \in {"NORMAL_RPC", "CLIENT_STREAMING"}
                         THEN Append(downlink, sent[r]) ELSE downlink
     ELSE UNCHANGED <<status, downlink>>
  /\ UNCHANGED <<rpc_type, stream, op, written, uplink, half_closed, received, replied>>

OtherTag(r) ==
  /\ \E e \in {"NEW_CONNECTION", "DONE"}, ok \in BOOLEAN : RunCompletionQueue(r, e, ok)
  /\ UNCHANGED <<clientVars, replied>>

CompletionQueueStep(r) ==
  RequestArrives(r) \/ RequestsEnd(r) \/ ResponseLeaves(r) \/ StatusLeaves(r) \/ OtherTag(r)

\* The handler sends what its script says, and only then returns.
HandlerReplies(q) ==
  /\ thread[q].pc \in Callbacks
  /\ replied[q] < Len(ScriptOf(q))
  /\ HandlerSend(q, ScriptOf(q)[replied[q] + 1])
  /\ replied' = [replied EXCEPT ![q] = @ + 1]
  /\ UNCHANGED <<main, clientVars>>

EventThreadStep(q) ==
  /\ HandleEvent(q) \/ ServiceStep(q)
  /\ thread[q].pc \in Callbacks => replied[q] = Len(ScriptOf(q))
  /\ replied' = [replied EXCEPT ![q] = 0]
  /\ UNCHANGED clientVars

\* Methods are served in the order of their names, and identities of Rpcs are
\* taken in a fixed order: which one a new Rpc has makes no difference.
InOrder ==
  \A r \in active_rpcs' \ active_rpcs :
    /\ r = CHOOSE s \in Rpcs : call[s] = "none"
    /\ main = "starting" =>
         method'[r] = CHOOSE m \in Methods : \E c \in CompletionQueues : RpcsFor(m, c) = {}

CSStep ==
  \/ MainStep /\ InOrder /\ UNCHANGED <<clientVars, replied>>
  \/ \E q \in EventQueues :
       HandlerReplies(q) \/ (EventThreadStep(q) /\ InOrder)
  \/ \E r \in Rpcs : Connect(r) \/ Disconnect(r) \/ CompletionQueueStep(r)
  \/ (ApplicationCalls \/ OperationReturns \/ Destroy \/ ConnectionLost)
       /\ UNCHANGED <<vars, replied>>

\* StreamFinish waits for the rest of the responses to be read, which only the
\* caller could do.
Stuck == op = "StreamFinish" /\ downlink # <<>>

CSNext ==
  \/ fault = "none" /\ CSStep
  \/ (fault # "none" \/ op \in {"finished", "destroyed"} \/ Stuck) /\ UNCHANGED allVars

\* The threads of the server run, gRPC carries what it can and returns from what
\* need not wait.  The application need not call anything.
CSFairness ==
  /\ WF_allVars(fault = "none" /\ MainStep /\ InOrder /\ UNCHANGED <<clientVars, replied>>)
  /\ \A q \in EventQueues :
       WF_allVars(fault = "none" /\ (HandlerReplies(q) \/ (EventThreadStep(q) /\ InOrder)))
  /\ \A r \in Rpcs :
       /\ WF_allVars(fault = "none" /\ (Connect(r) \/ Disconnect(r)))
       /\ WF_allVars(fault = "none" /\ CompletionQueueStep(r))
  /\ WF_allVars(fault = "none" /\ OperationReturns /\ UNCHANGED <<vars, replied>>)

CSSpec == CSInit /\ [][CSNext]_allVars /\ CSFairness

\* What the operation waits for is going to come: room for the request; a response,
\* or the end of the stream; the status, which comes after the last request and,
\* where responses are read, after the last response.
Answered ==
  CASE op = "StreamRead" -> half_closed \/ received < ResponsesTo(written)
    [] op = "StreamFinish" -> half_closed /\ (ReadsStream => received = ResponsesTo(written))
    [] OTHER -> TRUE

\* Every operation that the application calls returns if the handler answers it,
\* whichever operation comes first, whether the client writes all requests before it
\* reads or reads in between, with streams that hold one message: the server goes on
\* reading while its responses wait and sends what was held up; and no broken
\* connection leaves any operation waiting.
OperationsReturn ==
  op \in Blocking /\ (Answered \/ status = "unavailable") ~> op \notin Blocking

\* Responses arrive at the application in the order in which the handler sent
\* them, and when a call ends with OK the handler has got every request and the
\* application every response, across send queue, events and both streams.
Delivered ==
  /\ downlink = [i \in 1 .. Len(downlink) |-> received + i]
  /\ op = "finished" /\ status = "ok" =>
       /\ received = ResponsesTo(written)
       /\ WritesStream => \E r \in Rpcs : requests[r] = written

\* Neither a client that goes away nor a connection that breaks, at any moment of
\* a call, makes a serving process with one event thread and no Writers fail a CHECK,
\* break the contract of gRPC or touch a destroyed Rpc.
ServingIsSafe == fault = "none"
=============================================================================
