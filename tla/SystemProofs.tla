---------------------------- MODULE SystemProofs ----------------------------
(***************************************************************************)
(* The system as a whole, for every value of the constants. The server     *)
(* serves its calls: it implements module Call for each of its Rpcs,       *)
(* respects gRPC's API and is not stopped by a fault. A client and the     *)
(* server together: the server behaves as it does alone, so what was       *)
(* proved of it holds here as well; a client starts one call; and a call   *)
(* that ends with OK has lost nothing.                                     *)
(***************************************************************************)
EXTENDS ServerProofs, CallProofs, EventThreadProofs

\* Leaves without arithmetic are Zenon's; the others name SMT.
USE Zenon

\* The invariant of calls holds of every behaviour of the server.
THEOREM CallInvariance ==
  ASSUME ~RequestsMayFail, Overrun = "nothing" \/ Writers = {}
  PROVE  Spec => [](TypeInv /\ LifetimeInv /\ CallInv)
<1>1. Init => TypeInv
  BY SMT, InitTypeOK DEF TypeInv, BusyHaveRpcs, Init, ServiceInit, Idle, Busy
<1>2. Init => LifetimeInv
  BY InitLifetimeInv DEF LifetimeInv
<1>3. TypeInv /\ LifetimeInv /\ CallInv /\ [Next]_vars => (TypeInv /\ LifetimeInv /\ CallInv)'
  BY NextTypeInv, NextLifetimeInv, NextCallInv
<1> QED BY <1>1, <1>2, <1>3, InitCallInv, PTL DEF Spec

\* Service never starts an operation that the asynchronous API forbids, whatever
\* the numbers of calls, event threads and responses, if no request fails
\* outside a shutdown, and user code sends nothing after the end of a call or has
\* no Writers: HandleSendQueue acts on flags that are still true.
THEOREM ApiIsRespected ==
  ASSUME ~RequestsMayFail, Overrun = "nothing" \/ Writers = {}
  PROVE  Spec => []ApiRespected
<1> DEFINE Inv == TypeInv /\ LifetimeInv /\ CallInv
           Runs == fault = "none"
<1>1. Inv /\ Runs => ApiRespected
  BY CallApi DEF LifetimeInv, CallInv
<1>2. Init => Runs
  BY DEF Init, GrpcInit
<1>3. ASSUME Inv, Inv', ~Runs', ApiRespected, [Next]_vars PROVE ApiRespected'
  <2>1. CASE UNCHANGED vars
    <3>1. UNCHANGED <<thread, status_sent, method, event_queue, events_queue, ops>>
      BY <2>1 DEF vars, grpcVars, rpcVars, serviceVars
    <3> QED BY <1>3, <3>1, ApiFrame DEF ApiStays, SameQueue
  <2>2. CASE fault # "none"
    BY <1>3, <2>1, <2>2 DEF Next, Stopped
  <2>3. CASE fault = "none" /\ Next
    BY <1>3, <2>3, FaultApi DEF LifetimeInv
  <2> QED BY <1>3, <2>1, <2>2, <2>3
<1>4. Inv /\ Inv' /\ ~Runs' /\ ApiRespected /\ [Next]_vars => ApiRespected'
  BY <1>3
<1>5. Spec => []Inv
  BY CallInvariance
<1> HIDE DEF Inv, Runs
<1> QED BY <1>1, <1>2, <1>4, <1>5, PTL DEF Spec

\* A server with one event thread whose handlers use no Writers is never stopped by a
\* CHECK, by gRPC or by a destroyed Rpc before somebody calls Shutdown, whatever
\* clients and handlers do.
THEOREM ServerServesSafely ==
  ASSUME ~RequestsMayFail, NumEventThreads = 1, Writers = {}
  PROVE  Spec => []ServesWithoutFault
<1> DEFINE Inv == TypeInv /\ LifetimeInv /\ CallInv
<1>1. Init => SafeInv
  BY DEF Init, GrpcInit, ServiceInit, SafeInv
<1>2. ASSUME Inv, ApiRespected, SafeInv, [Next]_vars PROVE SafeInv'
  <2> SUFFICES ASSUME Serving' PROVE (fault = "none" /\ stopped = {} /\ refused = {} /\ cq_down = {})'
    BY DEF SafeInv
  <2>1. CASE UNCHANGED vars
    BY <1>2, <2>1 DEF vars, grpcVars, serviceVars, SafeInv, Serving
  <2>2. CASE fault # "none"
    BY <1>2, <2>1, <2>2 DEF Next, Stopped
  <2>3. CASE fault = "none" /\ Next
    <3>1. Serving /\ stopped' = {} /\ refused' = {} /\ cq_down' = {}
      BY <1>2, <2>3, NextServing DEF LifetimeInv
    <3>2. fault' = "none"
      BY <1>2, <2>3, <3>1, NoFaultServing DEF SafeInv, LifetimeInv
    <3> QED BY <3>1, <3>2
  <2> QED BY <1>2, <2>1, <2>2, <2>3
<1>3. Inv /\ ApiRespected /\ SafeInv /\ [Next]_vars => SafeInv'
  BY <1>2
<1>4. Spec => []Inv
  BY CallInvariance
<1>5. Spec => []ApiRespected
  BY ApiIsRespected
<1>6. SafeInv => ServesWithoutFault
  BY DEF SafeInv, ServesWithoutFault
<1> HIDE DEF Inv
<1> QED BY <1>1, <1>3, <1>4, <1>5, <1>6, PTL DEF Spec

\* The server keeps the promise of module Call for every Rpc whose events go
\* through one event queue: the callbacks of its handler come one at a time and
\* in order, its responses are delivered in order and none after the final
\* status, whatever the numbers of calls, threads, requests and responses.
THEOREM ServerImplementsCall ==
  ASSUME ~RequestsMayFail, Overrun = "nothing" \/ Writers = {}
  PROVE  Spec => ImplementsCall
<1> DEFINE Inv == TypeInv /\ LifetimeInv /\ CallInv
           AllSteps == \A r \in Rpcs : SameQueue(r) => CallStep(r)
           AllInit == \A r \in Rpcs : CallOf(r)!Init
<1>1. Inv /\ [Next]_vars => AllSteps
  BY NextSteps
<1>2. Spec => []Inv
  BY CallInvariance
<1>3. Init => AllInit
  BY InitCalls
<1> HIDE DEF Inv, AllSteps, AllInit
<1>4. Spec => AllInit /\ [][AllSteps]_vars
  BY <1>1, <1>2, <1>3, PTL DEF Spec
<1> QED BY <1>4 DEF ImplementsCall, AllSteps, AllInit, CallStep

\* What a callback of server_test.cc sends is a sequence of Send and Finish.
LEMMA ScriptsSendOrFinish ==
  ASSUME NEW type, NEW callback
  PROVE  Script(type, callback) \in Seq(BOOLEAN)
<1>1. Script(type, callback) \in
        {<<TRUE>>, <<TRUE, TRUE>>, <<FALSE>>, <<TRUE, TRUE, FALSE>>, <<>>}
  BY DEF Script
<1>2. {<<TRUE>>, <<TRUE, TRUE>>, <<FALSE>>, <<TRUE, TRUE, FALSE>>, <<>>} \subseteq Seq(BOOLEAN)
  BY SMT
<1> QED BY <1>1, <1>2

\* What the client and the streams let a completion queue return, the server knows
\* from gRPC alone.
LEMMA CompletionQueueStepsAreServerSteps ==
  ASSUME NEW r \in Rpcs, CompletionQueueStep(r)
  PROVE  \E e \in CqEvents, ok \in BOOLEAN : RunCompletionQueue(r, e, ok)
BY DEF CompletionQueueStep, RequestArrives, RequestsEnd, ResponseLeaves, StatusLeaves,
   OtherTag, CqEvents

\* What the script of a callback says next is Send or Finish, which the server lets
\* any callback do.
LEMMA RepliesAreServerSteps ==
  ASSUME NEW q \in EventQueues, RepliedOK, HandlerReplies(q)
  PROVE  CallbackStep(q)
<1>1. ScriptOf(q) \in Seq(BOOLEAN)
  BY ScriptsSendOrFinish DEF ScriptOf
<1>2. replied[q] < Len(ScriptOf(q))
  BY DEF HandlerReplies
<1>3. ScriptOf(q)[replied[q] + 1] \in BOOLEAN
  BY SMT, <1>1, <1>2 DEF RepliedOK
<1> QED BY <1>3 DEF HandlerReplies, CallbackStep

\* The count of what a callback has sent stays a number.
LEMMA RepliedType == RepliedOK /\ [CSNext]_allVars => RepliedOK'
<1> SUFFICES ASSUME RepliedOK, [CSNext]_allVars, replied' # replied
             PROVE  RepliedOK'
  BY DEF RepliedOK
<1>1. PICK q \in EventQueues : HandlerReplies(q) \/ EventThreadStep(q)
  BY DEF CSNext, CSStep, Connect, Disconnect, CompletionQueueStep, RequestArrives,
     RequestsEnd, ResponseLeaves, StatusLeaves, OtherTag, allVars
<1>2. replied' = [replied EXCEPT ![q] = replied[q] + 1] \/ replied' = [replied EXCEPT ![q] = 0]
  BY <1>1 DEF HandlerReplies, EventThreadStep
<1> QED BY SMT, <1>2 DEF RepliedOK

\* Every step of client and server is a step of the server or none of its steps.
LEMMA StepsAreServerSteps ==
  ASSUME RepliedOK, [CSNext]_allVars
  PROVE  [Next]_vars
<1> SUFFICES ASSUME fault = "none", CSStep, vars' # vars
             PROVE  Step
  BY DEF CSNext, Next, allVars
<1>1. CASE MainStep
  BY <1>1 DEF Step
<1>2. CASE \E q \in EventQueues : HandlerReplies(q)
  BY <1>2, RepliesAreServerSteps DEF Step
<1>3. CASE \E q \in EventQueues : EventThreadStep(q)
  BY <1>3 DEF Step, EventThreadStep
<1>4. CASE \E r \in Rpcs : Connect(r) \/ Disconnect(r)
  BY <1>4 DEF Step, Connect, Disconnect, ClientStep
<1>5. CASE \E r \in Rpcs : CompletionQueueStep(r)
  BY <1>5, CompletionQueueStepsAreServerSteps DEF Step
<1> QED BY <1>1, <1>2, <1>3, <1>4, <1>5 DEF CSStep

\* A client and the server together behave, as far as the server goes, like the
\* server alone: coupling it with a client and with given handlers adds nothing to
\* its behaviours.
THEOREM CompositionRunsServer == CSSpec => Spec
<1>1. CSInit => Init /\ RepliedOK
  BY SMT DEF CSInit, RepliedOK
<1>2. RepliedOK /\ [CSNext]_allVars => [Next]_vars
  BY SMT, StepsAreServerSteps
<1> QED BY <1>1, <1>2, RepliedType, PTL DEF CSSpec, Spec

\* No Rpc of a server with a client is destroyed while gRPC, an event queue or an
\* event thread refers to it: RemoveIfNotPending judges rightly.
THEOREM EventsOfCallsNeverDangle ==
  ASSUME ~RequestsMayFail
  PROVE  CSSpec => []NoDanglingEvents
BY CompositionRunsServer, EventsNeverDangle, PTL

\* Nobody calls Shutdown here.
LEMMA KeepsServing == Serving /\ [CSNext]_allVars => Serving'
<1> SUFFICES ASSUME Serving, [CSNext]_allVars, main' # main
             PROVE  Serving'
  BY DEF Serving
<1>1. MainStep
  BY Zenon
     DEF CSNext, CSStep, allVars, vars, HandlerReplies, EventThreadStep, HandleEvent, ServiceStep,
         Connect, Disconnect, CompletionQueueStep, RequestArrives, RequestsEnd, ResponseLeaves,
         StatusLeaves, OtherTag, RunCompletionQueue
<1>2. CASE StartServing \/ StartThreads
  BY <1>2 DEF StartServing, StartThreads, Serving
<1>3. CASE \/ ShutdownGrpcServer \/ GrpcServerIsDown \/ CompletionQueuesJoined \/ EventQueuesJoined
           \/ (\E s \in Services : StopService(s))
           \/ \E c \in CompletionQueues : ShutdownCompletionQueue(c)
  <2>1. main \in {"stopping", "waiting", "joining_cqs", "joining_event_queues"}
    BY <1>3 DEF ShutdownGrpcServer, GrpcServerIsDown, CompletionQueuesJoined,
                       EventQueuesJoined, StopService, ShutdownCompletionQueue
  <2> QED BY SMT, <2>1 DEF Serving
<1> QED BY <1>1, <1>2, <1>3 DEF MainStep

\* Neither a client that goes away nor a connection that breaks, at any moment of a
\* call, stops a server with one event thread whose handlers use no Writers.
THEOREM CallsAreServedSafely ==
  ASSUME ~RequestsMayFail, NumEventThreads = 1, Writers = {}
  PROVE  CSSpec => []ServingIsSafe
<1>1. CSInit => Serving
  BY DEF CSInit, Init, Serving
<1>2. Serving /\ ServesWithoutFault => ServingIsSafe
  BY DEF ServesWithoutFault, ServingIsSafe
<1>3. Spec => []ServesWithoutFault
  BY ServerServesSafely
<1> QED BY <1>1, <1>2, <1>3, KeepsServing, CompositionRunsServer, PTL DEF CSSpec

-----------------------------------------------------------------------------
\* The main thread starts the server; the rest of Shutdown does not come.
LEMMA MainStepDelivery ==
  ASSUME NumEventThreads = 1, Healthy, TypeInv', RepliedOK, Serving, DeliveryInv, MainStep,
         UNCHANGED <<clientVars, replied>>
  PROVE  DeliveryInv'
<1>1. StartServing \/ (StartThreads /\ UNCHANGED <<grpcVars, rpcVars, serviceVars>>)
  <2>1. main \notin {"stopping", "waiting", "joining_cqs", "joining_event_queues"}
    BY SMT DEF Serving
  <2> QED
    BY <2>1 DEF MainStep, StartThreads, ShutdownGrpcServer, GrpcServerIsDown,
       CompletionQueuesJoined, EventQueuesJoined, StopService, ShutdownCompletionQueue
<1>2. ASSUME NEW r \in Rpcs PROVE Delivering(r)
  BY DEF DeliveryInv, Delivering
<1>3. ASSUME NEW r \in Rpcs PROVE ServerKeeps(r)
  <2>1. CASE StartServing
    BY <1>2, <2>1, StartServingKeeps
  <2>2. CASE UNCHANGED <<grpcVars, rpcVars, serviceVars>>
    <3>1. UNCHANGED <<call, ops, status_sent, requests, method, sends, sent, queue, thread, handler,
                      reads_done>>
      BY <2>2 DEF grpcVars, rpcVars, serviceVars
    <3>2. CallKept(r) /\ TypeInv
      BY <3>1 DEF CallKept, Healthy
    <3> QED BY <1>2, <3>1, <3>2, NothingKeeps
  <2> QED BY <1>1, <2>1, <2>2
<1> QED BY <1>3, ServerKeepsDelivery

\* Every step of client, streams and server keeps the invariant.
LEMMA DeliveryInductive ==
  ASSUME NumEventThreads = 1, ~RequestsMayFail, Overrun = "nothing", Healthy, TypeInv', RepliedOK, Serving,
         fault' = "none", DeliveryInv, [CSNext]_allVars
  PROVE  DeliveryInv'
<1>1. CASE UNCHANGED allVars
  <2>1. UNCHANGED <<vars, replied>> /\ UNCHANGED clientVars
    BY <1>1 DEF allVars
  <2>2. ClientTypeOK' /\ StreamsOK' /\ ClientKeeps
    BY <2>1 DEF DeliveryInv, ClientTypeOK, StreamsOK, ResponsesTo, ClientKeeps, Waiting,
       WritesStream, NotConnected, clientVars
  <2> QED BY <2>1, <2>2, ClientDelivery
<1>2. CASE MainStep /\ UNCHANGED <<clientVars, replied>>
  BY <1>2, MainStepDelivery
<1>3. CASE \E q \in EventQueues : HandlerReplies(q) \/ EventThreadStep(q)
  BY <1>3, EventThreadDelivery
<1>4. CASE \E r \in Rpcs : Connect(r)
  BY <1>4, ConnectDelivery
<1>5. CASE \E r \in Rpcs : Disconnect(r)
  BY <1>5, DisconnectDelivery
<1>6. CASE \E r \in Rpcs : CompletionQueueStep(r)
  BY <1>6, CompletionQueueDelivery
<1>7. CASE (ApplicationCalls \/ OperationReturns \/ Destroy \/ ConnectionLost)
             /\ UNCHANGED <<vars, replied>>
  BY <1>7, ClientStepDelivery
<1> QED
  BY <1>1, <1>2, <1>3, <1>4, <1>5, <1>6, <1>7 DEF CSNext, CSStep

\* Where the requests and the responses of a call are, in every behaviour of a client
\* and a server with one event thread: nothing is lost, invented or overtaken between
\* the application's Write, the handler and the application's StreamRead.
THEOREM DeliveryInvariance ==
  ASSUME ~RequestsMayFail, NumEventThreads = 1, Writers = {}, Overrun = "nothing"
  PROVE  CSSpec => []DeliveryInv
<1> DEFINE Inv == TypeInv /\ LifetimeInv /\ CallInv
<1>1. CSInit => DeliveryInv /\ Serving /\ RepliedOK
  <2>1. CSInit => Serving /\ RepliedOK
    BY SMT DEF CSInit, Init, Serving, RepliedOK
  <2> QED BY <2>1, InitDelivery
<1>2. Inv /\ ServingIsSafe => Healthy
  BY DEF ServingIsSafe, LifetimeInv, CallInv, Healthy
<1>3. Inv' /\ ServingIsSafe' => TypeInv' /\ fault' = "none"
  BY DEF ServingIsSafe
<1>4. Healthy /\ TypeInv' /\ RepliedOK /\ Serving /\ fault' = "none" /\ DeliveryInv /\ [CSNext]_allVars
        => DeliveryInv'
  BY DeliveryInductive
<1>5. Inv /\ ServingIsSafe /\ Inv' /\ ServingIsSafe' /\ RepliedOK /\ Serving /\ DeliveryInv
        /\ [CSNext]_allVars => DeliveryInv'
  BY <1>2, <1>3, <1>4
<1>6. Spec => []Inv
  BY CallInvariance
<1>7. CSSpec => []ServingIsSafe
  BY CallsAreServedSafely
<1> HIDE DEF Inv
<1> QED BY <1>1, <1>5, <1>6, <1>7, RepliedType, KeepsServing, CompositionRunsServer, PTL DEF CSSpec

\* Responses reach the application in the order in which the handler sent them, and
\* when a call ends with OK the handler has got every request and the application
\* every response, for any sizes of the streams and any number of requests.
THEOREM CallsAreDelivered ==
  ASSUME ~RequestsMayFail, NumEventThreads = 1, Writers = {}, Overrun = "nothing"
  PROVE  CSSpec => []Delivered
<1>1. CSSpec => []DeliveryInv
  BY DeliveryInvariance
<1>2. Spec => []TypeInv
  <2> DEFINE Inv == TypeInv /\ LifetimeInv /\ CallInv
  <2>1. Spec => []Inv
    BY CallInvariance
  <2>2. Inv => TypeInv
    BY SMT
  <2> HIDE DEF Inv
  <2> QED BY <2>1, <2>2, PTL
<1>3. TypeInv /\ DeliveryInv => Delivered
  BY DeliveryInvDelivers
<1> QED BY <1>1, <1>2, <1>3, CompositionRunsServer, PTL
=============================================================================
