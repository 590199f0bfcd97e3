--------------------------- MODULE DeliveryProofs ---------------------------
(***************************************************************************)
(* Steps of a client and of gRPC keep DeliveryInv: where the requests and  *)
(* the responses of a call are, on both streams, in the event queue, in    *)
(* the handler and in the send queue. The lemmas on handlers and on what   *)
(* steps of the server keep are for the event thread as well.              *)
(***************************************************************************)
EXTENDS CallInvariant, DeliveryInvariant, StepProofs, Integers

\* Leaves without arithmetic are Zenon's; the others name SMT.
USE Zenon

-----------------------------------------------------------------------------
(* The client *)

\* What holds of the server while it serves.
Healthy == TypeInv /\ EventsInv /\ \A s \in Rpcs : CallStateOK(s)

\* What a step of the client must leave as it is for the server: every request it
\* writes is on its way, it takes no response but the next one, and it writes
\* nothing after StreamWritesDone.
ClientKeeps ==
  /\ rpc_type' = rpc_type /\ (stream => stream')
  /\ WritesStream => \/ uplink' = uplink /\ written' = written
                     \/ uplink' = uplink + 1 /\ written' = written + 1
  /\ Waiting' => Waiting /\ received' + Len(downlink') = received + Len(downlink)
  /\ WritesStream /\ half_closed => half_closed' /\ uplink' = uplink
  /\ NotConnected => NotConnected'

\* The parts of the invariant, put together.
LEMMA DeliveryNext ==
  ASSUME DeliveryInv, ClientTypeOK', StreamsOK',
         \A r \in Rpcs : HandlerProgress(r)',
         \A r \in Rpcs : Matched(r)' <=> Matched(r),
         \A r \in Rpcs : Matched(r) => CallProgress(r)',
         (\A r \in Rpcs : ~Matched(r)) => NotConnected'
  PROVE  DeliveryInv'
<1>1. \A r, s \in Rpcs : Matched(r)' /\ Matched(s)' => r = s
  BY DEF DeliveryInv
<1>2. \A r \in Rpcs : HandlerProgress(r)' /\ (Matched(r)' => CallProgress(r)')
  OBVIOUS
<1>3. (\A r \in Rpcs : ~Matched(r)') => NotConnected'
  OBVIOUS
<1> QED BY <1>1, <1>2, <1>3 DEF DeliveryInv

\* Such a step keeps the invariant if it keeps the client's own part.
LEMMA ClientDelivery ==
  ASSUME Healthy, DeliveryInv, UNCHANGED <<vars, replied>>, ClientTypeOK', StreamsOK', ClientKeeps
  PROVE  DeliveryInv'
<1>1. UNCHANGED <<call, ops, status_sent, requests, method, sends, sent, queue, thread, handler,
                  reads_done, replied>>
  BY DEF vars, grpcVars, rpcVars, serviceVars
<1>2. WritesStream' <=> WritesStream
  BY DEF ClientKeeps, WritesStream
<1>3. ASSUME NEW r \in Rpcs
      PROVE  HandlerProgress(r)' /\ (Matched(r)' <=> Matched(r)) /\ (ToldAll(r)' <=> ToldAll(r))
  <2>1. Doing(r)' = Doing(r) /\ RepliedFor(r)' = RepliedFor(r)
    BY <1>1 DEF Doing, RepliedFor, BusyOn, Busy
  <2>2. Label(r)' = Label(r)
    BY <2>1 DEF Label
  <2>3. \A ok \in BOOLEAN : ReadQueued(r, ok)' <=> ReadQueued(r, ok)
    BY <1>1 DEF ReadQueued
  <2>4. Taken(r)' = Taken(r)
    BY <1>1, <2>3 DEF Taken
  <2>5. (r \in reads_done)' = (r \in reads_done)
    BY <1>1
  <2>6. ReadsByEvent(r)' <=> ReadsByEvent(r)
    BY <1>1, <2>1, <2>2 DEF ReadsByEvent, StreamsRequests, Outstanding, Queued
  <2>7. HandlerProgress(r)
    BY DEF DeliveryInv
  <2>8. Progress(RpcType[method[r]], handler[r], Taken(r), r \in reads_done, Label(r),
                 RepliedFor(r), sends[r])'
    BY <1>1, <2>1, <2>2, <2>4, <2>5, <2>7 DEF HandlerProgress
  <2> QED BY <1>1, <2>2, <2>3, <2>6, <2>7, <2>8 DEF HandlerProgress, Matched, ToldAll
<1>4. ASSUME NEW r \in Rpcs, Matched(r) PROVE CallProgress(r)'
  <2>1. CallProgress(r) /\ ClientTypeOK
    BY <1>4 DEF DeliveryInv
  <2>2. WritesStream => requests[r] + uplink' = written'
    <3>1. requests[r] \in Nat /\ uplink \in Nat
      BY <2>1 DEF Healthy, ClientTypeOK, TypeInv, TypeOK, GrpcTypeOK
    <3>2. CASE uplink' = uplink /\ written' = written
      BY <2>1, <3>2 DEF CallProgress
    <3>3. CASE uplink' = uplink + 1 /\ written' = written + 1
      <4>1. WritesStream => requests[r] + uplink = written
        BY <2>1 DEF CallProgress
      <4> QED BY SMT, <3>1, <3>3, <4>1
    <3> QED BY <3>2, <3>3 DEF ClientKeeps
  <2>3. Waiting' => /\ call[r] = "open"
                    /\ sent[r] = received' + Len(downlink')
                                   + (IF ops[r] \cap {"WRITE", "FINISH"} # {} THEN 1 ELSE 0)
                    /\ r \in status_sent => "FINISH" \in ops[r]
                    /\ WritesStream /\ ToldAll(r) => half_closed' /\ uplink' = 0
    BY <2>1 DEF CallProgress, ClientKeeps
  <2>4. stream' /\ RpcType[method[r]] = rpc_type'
    BY <2>1 DEF CallProgress, ClientKeeps
  <2> QED BY <1>1, <1>2, <1>3, <2>2, <2>3, <2>4 DEF CallProgress
<1>5. (\A r \in Rpcs : ~Matched(r)) => NotConnected'
  BY DEF DeliveryInv, ClientKeeps
<1> QED BY <1>3, <1>4, <1>5, DeliveryNext

\* The client takes a step, which changes nothing at the server. One step per action
\* of the client, after what they need.
LEMMA ClientStepDelivery ==
  /\ Healthy /\ DeliveryInv /\ UNCHANGED <<vars, replied>>
  /\ ApplicationCalls \/ OperationReturns \/ Destroy \/ ConnectionLost
  => DeliveryInv'
\* ... and the first one taken away.
<1>NumbersTaken. ASSUME NEW d \in Seq(Nat), NEW n \in Nat, d = [i \in 1 .. Len(d) |-> n + i], d # <<>>
      PROVE  /\ Head(d) = n + 1 /\ Tail(d) \in Seq(Nat) /\ Len(d) = Len(Tail(d)) + 1
             /\ Tail(d) = [i \in 1 .. Len(Tail(d)) |-> n + 1 + i]
  <2> USE <1>NumbersTaken
  <2> DEFINE new == Tail(d)
  <2>1. new \in Seq(Nat) /\ Len(new) = Len(d) - 1 /\ Len(d) \in Nat /\ Len(d) >= 1 /\ Head(d) = d[1]
    BY SMT
  <2>2. \A i \in 1 .. Len(d) - 1 : new[i] = d[i + 1]
    BY SMT
  <2>3. \A i \in 1 .. Len(d) : d[i] = n + i
    OBVIOUS
  <2> HIDE DEF new
  <2>4. DOMAIN new = 1 .. Len(new) /\ new = [i \in DOMAIN new |-> new[i]]
    BY SMT, <2>1
  <2>5. \A i \in 1 .. Len(new) : new[i] = n + 1 + i
    BY SMT, <2>1, <2>2, <2>3
  <2>6. new = [i \in 1 .. Len(new) |-> n + 1 + i]
    BY <2>4, <2>5
  <2>7. Head(d) = n + 1 /\ Len(d) = Len(new) + 1
    BY SMT, <2>1, <2>3
  <2> QED BY <2>1, <2>6, <2>7 DEF new
\* The application calls an operation on the stream.
<1>ApplicationCallsDelivery. ASSUME Healthy, DeliveryInv, UNCHANGED <<vars, replied>>, ApplicationCalls
      PROVE  DeliveryInv'
  <2> USE <1>ApplicationCallsDelivery
  <2>1. ClientTypeOK /\ StreamsOK
    BY DEF DeliveryInv
  <2>2. ASSUME NEW o, Begin(o), o # "finished", o # "destroyed", WritesStream \/ stream,
               o = "Write" => WritesStream /\ ~half_closed
        PROVE  ClientTypeOK' /\ StreamsOK' /\ ClientKeeps
    <3>1. /\ stream' = TRUE /\ op = "none" /\ op' = o
          /\ UNCHANGED <<rpc_type, written, uplink, half_closed, downlink, received, status>>
      BY <2>2 DEF Begin, InstantiateIfNeeded
    <3>2. ClientTypeOK'
      BY <2>1, <3>1 DEF ClientTypeOK
    <3>3. StreamsOK'
      BY <2>1, <2>2, <3>1 DEF StreamsOK, WritesStream, ResponsesTo
    <3>4. op # "destroyed"
      BY SMT, <3>1
    <3>5. ClientKeeps
      BY <3>1, <3>4 DEF ClientKeeps, Waiting, WritesStream, NotConnected
    <3> QED BY <3>2, <3>3, <3>5
  <2>3. ASSUME StreamWritesDone, WritesStream
        PROVE  ClientTypeOK' /\ StreamsOK' /\ ClientKeeps
    <3>1. /\ stream' = TRUE /\ op = "none" /\ half_closed' = TRUE
          /\ UNCHANGED <<rpc_type, op, written, uplink, downlink, received, status>>
      BY <2>3 DEF StreamWritesDone, InstantiateIfNeeded
    <3>2. op # "Write"
      BY SMT, <3>1
    <3>3. StreamsOK'
      BY <2>1, <2>3, <3>1, <3>2 DEF StreamsOK, WritesStream, ResponsesTo
    <3> QED BY <2>1, <3>1, <3>3 DEF ClientTypeOK, ClientKeeps, Waiting, WritesStream, NotConnected
  <2>4. ASSUME NEW o \in {"none", "StreamFinish"}, WriteSingle(o), ~WritesStream
        PROVE  ClientTypeOK' /\ StreamsOK' /\ ClientKeeps
    <3>1. /\ stream' = TRUE /\ op = "none" /\ op' = o /\ written' = 1 /\ half_closed' = TRUE
          /\ UNCHANGED <<rpc_type, uplink, downlink, received, status>>
      BY <2>4 DEF WriteSingle
    <3>2. op # "destroyed" /\ op' \notin {"Write", "finished"}
      BY SMT, <3>1
    <3>3. ClientTypeOK'
      BY SMT, <2>1, <3>1 DEF ClientTypeOK
    <3>4. ResponsesTo(written)' = ResponsesTo(written) /\ ~WritesStream'
      <4>1. rpc_type # "BIDI_STREAMING"
        BY SMT, <2>4 DEF WritesStream
      <4> QED BY <2>4, <3>1, <4>1 DEF ResponsesTo, WritesStream
    <3>5. StreamsOK'
      BY <2>1, <3>1, <3>2, <3>4 DEF StreamsOK
    <3>6. ClientKeeps
      BY <2>4, <3>1, <3>2 DEF ClientKeeps, Waiting, WritesStream, NotConnected
    <3> QED BY <3>3, <3>5, <3>6
  <2>5. CASE UnaryWrite \/ ServerStreamingWrite
    <3>1. PICK o \in {"none", "StreamFinish"} : WriteSingle(o)
      BY SMT, <2>5 DEF UnaryWrite, ServerStreamingWrite
    <3>2. ~WritesStream
      BY SMT, <2>5 DEF UnaryWrite, ServerStreamingWrite, WritesStream
    <3> QED BY <2>4, <3>1, <3>2, ClientDelivery
  <2>6. CASE ClientStreamingClient \/ BidiStreamingClient
    <3>1. WritesStream
      BY SMT, <2>6 DEF ClientStreamingClient, BidiStreamingClient, WritesStream
    <3>2. CASE StreamWritesDone
      BY <2>3, <3>1, <3>2, ClientDelivery
    <3>3. CASE BeginWrite \/ Begin("StreamRead") \/ Begin("StreamFinish")
      <4>1. PICK o \in {"Write", "StreamRead", "StreamFinish"} :
              Begin(o) /\ (o = "Write" => ~half_closed)
        BY SMT, <3>3 DEF BeginWrite
      <4> QED BY SMT, <2>2, <3>1, <4>1, ClientDelivery
    <3> QED BY <2>6, <3>2, <3>3 DEF ClientStreamingClient, BidiStreamingClient
  <2>7. CASE ServerStreamingRead
    <3>1. PICK o \in {"StreamRead", "StreamFinish"} : Begin(o)
      BY SMT, <2>7 DEF ServerStreamingRead
    <3>2. stream
      BY <2>7 DEF ServerStreamingRead
    <3> QED BY SMT, <2>2, <3>1, <3>2, ClientDelivery
  <2> QED BY <2>5, <2>6, <2>7 DEF ApplicationCalls
\* The stream takes a request, or is broken.
<1>WriteReturnsDelivery. ASSUME Healthy, DeliveryInv, UNCHANGED <<vars, replied>>, WriteReturns
      PROVE  DeliveryInv'
  <2> USE <1>WriteReturnsDelivery
  <2>1. ClientTypeOK /\ StreamsOK
    BY DEF DeliveryInv
  <2>2. /\ op = "Write" /\ op' = "none"
        /\ UNCHANGED <<rpc_type, stream, half_closed, downlink, received, status>>
        /\ \/ status = "none" /\ uplink' = uplink + 1 /\ written' = written + 1
           \/ uplink' = uplink /\ written' = written
    BY DEF WriteReturns
  <2>3. WritesStream /\ ~half_closed
    BY <2>1, <2>2 DEF StreamsOK
  <2>4. op' \notin {"Write", "StreamFinish", "finished"} /\ op # "destroyed" /\ WritesStream'
    BY <2>2, <2>3 DEF WritesStream
  <2>5. ClientTypeOK'
    <3>1. uplink' \in Nat /\ written' \in Nat
      BY SMT, <2>1, <2>2 DEF ClientTypeOK
    <3> QED BY <2>1, <2>2, <3>1 DEF ClientTypeOK
  <2>6. status' = "ok" => uplink' = uplink /\ written' = written
    BY SMT, <2>2
  <2>7. StreamsOK'
    BY <2>1, <2>2, <2>3, <2>4, <2>6 DEF StreamsOK, ResponsesTo
  <2>8. ClientKeeps
    <3>1. NotConnected => NotConnected'
      BY SMT, <2>2 DEF NotConnected, WritesStream
    <3>2. Waiting' => Waiting
      BY <2>2, <2>4 DEF Waiting
    <3> QED BY <2>2, <2>3, <3>1, <3>2 DEF ClientKeeps
  <2> QED BY <2>5, <2>7, <2>8, ClientDelivery
\* StreamRead returns the next response, or that there is none.
<1>ReadReturnsDelivery. ASSUME Healthy, DeliveryInv, UNCHANGED <<vars, replied>>, ReadReturns
      PROVE  DeliveryInv'
  <2> USE <1>ReadReturnsDelivery
  <2>1. ClientTypeOK /\ StreamsOK
    BY DEF DeliveryInv
  <2>2. /\ op = "StreamRead" /\ op' = "none"
        /\ UNCHANGED <<rpc_type, stream, written, uplink, half_closed, status>>
    BY DEF ReadReturns
  <2>3. op' \notin {"Write", "StreamFinish", "finished"} /\ op # "destroyed" /\ (WritesStream' <=> WritesStream)
    BY <2>2 DEF WritesStream
  <2>4. CASE downlink # <<>> /\ received' = Head(downlink) /\ downlink' = Tail(downlink)
    <3>1. /\ Head(downlink) = received + 1 /\ Tail(downlink) \in Seq(Nat)
          /\ Len(downlink) = Len(Tail(downlink)) + 1
          /\ Tail(downlink) = [i \in 1 .. Len(Tail(downlink)) |-> received + 1 + i]
      BY <2>1, <2>4, <1>NumbersTaken DEF ClientTypeOK, StreamsOK
    <3>2. received' = received + 1 /\ received' \in Nat /\ downlink' \in Seq(Nat)
      BY SMT, <2>1, <2>4, <3>1 DEF ClientTypeOK
    <3>3. received' + Len(downlink') = received + Len(downlink)
      <4> DEFINE k == Len(downlink')
      <4>1. Len(downlink) = k + 1 /\ k \in Nat /\ received \in Nat
        BY SMT, <2>1, <2>4, <3>1, <3>2 DEF ClientTypeOK
      <4> HIDE DEF k
      <4> QED BY SMT, <3>2, <4>1 DEF k
    <3>4. downlink' = [i \in 1 .. Len(downlink') |-> received' + i]
      BY <2>4, <3>1, <3>2
    <3>5. ClientTypeOK'
      BY <2>1, <2>2, <3>2 DEF ClientTypeOK
    <3>6. StreamsOK'
      BY <2>1, <2>2, <2>3, <3>3, <3>4 DEF StreamsOK, ResponsesTo
    <3>7. ClientKeeps
      BY <2>2, <2>3, <2>4, <3>3 DEF ClientKeeps, Waiting, NotConnected
    <3> QED BY <3>5, <3>6, <3>7, ClientDelivery
  <2>5. CASE downlink = <<>> /\ status # "none" /\ UNCHANGED <<received, downlink>>
    <3>1. ClientTypeOK'
      BY <2>1, <2>2, <2>5 DEF ClientTypeOK
    <3>2. StreamsOK'
      BY <2>1, <2>2, <2>3, <2>5 DEF StreamsOK, ResponsesTo
    <3>3. ClientKeeps
      BY <2>2, <2>3, <2>5 DEF ClientKeeps, Waiting, NotConnected
    <3> QED BY <3>1, <3>2, <3>3, ClientDelivery
  <2> QED BY <2>4, <2>5 DEF ReadReturns
\* StreamFinish returns the status, with the response if there is just one.
<1>FinishReturnsDelivery. ASSUME Healthy, DeliveryInv, UNCHANGED <<vars, replied>>, FinishReturns
      PROVE  DeliveryInv'
  <2> USE <1>FinishReturnsDelivery
  <2>1. ClientTypeOK /\ StreamsOK
    BY DEF DeliveryInv
  <2>2. /\ op = "StreamFinish" /\ status # "none" /\ op' = "finished" /\ downlink' = <<>>
        /\ received' = IF downlink # <<>> THEN Head(downlink) ELSE received
        /\ UNCHANGED <<rpc_type, stream, written, uplink, half_closed, status>>
    BY DEF FinishReturns
  <2>3. op' # "Write" /\ op' # "StreamFinish" /\ (WritesStream' <=> WritesStream)
    BY <2>2 DEF WritesStream
  <2>4. /\ downlink # <<>> => Head(downlink) = received + 1
        /\ Len(downlink) \in Nat /\ received \in Nat /\ (downlink # <<>> => Len(downlink) > 0)
        /\ downlink = <<>> => Len(downlink) = 0
    <3>1. downlink # <<>> => Head(downlink) = received + 1
      BY <2>1, <1>NumbersTaken DEF ClientTypeOK, StreamsOK
    <3> QED BY SMT, <2>1, <3>1 DEF ClientTypeOK
  <2>5. received' \in Nat
    BY SMT, <2>2, <2>4
  <2>6. status = "ok" => received' = ResponsesTo(written)
    <3>1. CASE downlink = <<>>
      <4>1. status = "ok" => received + Len(downlink) = ResponsesTo(written)
        BY <2>1 DEF StreamsOK
      <4>2. received + Len(downlink) = received
        BY SMT, <2>4, <3>1
      <4> QED BY <2>2, <3>1, <4>1, <4>2
    <3>2. CASE downlink # <<>>
      <4>1. rpc_type \notin {"SERVER_STREAMING", "BIDI_STREAMING"}
        BY <3>2 DEF FinishReturns, ReadsStream
      <4>2. ResponsesTo(written) = 1
        BY <4>1 DEF ResponsesTo
      <4>3. status = "ok" => received + Len(downlink) = 1
        BY <2>1, <4>2 DEF StreamsOK
      <4>4. received' = received + 1
        BY <2>2, <2>4, <3>2
      <4>5. Len(downlink) > 0
        BY <2>4, <3>2
      <4> DEFINE k == Len(downlink)
      <4>6. k \in Nat /\ k > 0 /\ (status = "ok" => received + k = 1)
        BY <2>4, <4>3, <4>5
      <4> HIDE DEF k
      <4>7. status = "ok" => received' = 1
        BY SMT, <2>4, <4>4, <4>6
      <4> QED BY <4>2, <4>7
    <3> QED BY <3>1, <3>2
  <2>7. /\ downlink' \in Seq(Nat) /\ received' + Len(downlink') = received'
        /\ downlink' = [i \in 1 .. Len(downlink') |-> received' + i]
    BY SMT, <2>2, <2>5
  <2>8. ClientTypeOK'
    BY <2>1, <2>2, <2>5, <2>7 DEF ClientTypeOK
  <2>9. status' = "ok" => received' + Len(downlink') = ResponsesTo(written)'
    BY <2>2, <2>6, <2>7 DEF ResponsesTo
  <2>10. StreamsOK'
    BY <2>1, <2>2, <2>3, <2>7, <2>9 DEF StreamsOK
  <2>11. ClientKeeps
    <3>1. ~Waiting'
      BY <2>2 DEF Waiting
    <3>2. NotConnected => NotConnected'
      BY <2>2, <2>3 DEF NotConnected
    <3> QED BY <2>2, <3>1, <3>2 DEF ClientKeeps
  <2> QED BY <2>8, <2>10, <2>11, ClientDelivery
\* ~Client cancels the call, or the connection breaks: the client waits no more.
<1>EndsDelivery. ASSUME Healthy, DeliveryInv, UNCHANGED <<vars, replied>>, Destroy \/ ConnectionLost
      PROVE  DeliveryInv'
  <2> USE <1>EndsDelivery
  <2>1. ClientTypeOK /\ StreamsOK
    BY DEF DeliveryInv
  <2>2. UNCHANGED <<rpc_type, stream, written, uplink, half_closed, received>>
    BY DEF Destroy, ConnectionLost
  <2>3. WritesStream' <=> WritesStream
    BY <2>2 DEF WritesStream
  <2>4. CASE Destroy
    <3>1. op' = "destroyed" /\ downlink' = downlink /\ status' = status
      BY <2>4 DEF Destroy
    <3>2. op' \notin {"Write", "StreamFinish", "finished"}
      BY SMT, <3>1
    <3>3. ClientTypeOK'
      BY <2>1, <2>2, <3>1 DEF ClientTypeOK
    <3>4. StreamsOK'
      BY <2>1, <2>2, <2>3, <3>1, <3>2 DEF StreamsOK, ResponsesTo
    <3>5. ClientKeeps
      BY <2>2, <2>3, <3>1 DEF ClientKeeps, Waiting, NotConnected
    <3> QED BY <3>3, <3>4, <3>5, ClientDelivery
  <2>5. CASE ConnectionLost
    <3>1. status = "none" /\ status' = "unavailable" /\ downlink' = <<>> /\ op' = op
      BY <2>5 DEF ConnectionLost
    <3>2. status' # "none" /\ status' # "ok"
      BY SMT, <3>1
    <3>3. downlink' \in Seq(Nat) /\ downlink' = [i \in 1 .. Len(downlink') |-> received' + i]
      BY SMT, <3>1
    <3>4. ClientTypeOK'
      BY <2>1, <2>2, <3>3 DEF ClientTypeOK
    <3>5. StreamsOK'
      BY <2>1, <2>2, <2>3, <3>1, <3>2, <3>3 DEF StreamsOK
    <3>6. ClientKeeps
      BY <2>2, <2>3, <3>1, <3>2 DEF ClientKeeps, Waiting, NotConnected
    <3> QED BY <3>4, <3>5, <3>6, ClientDelivery
  <2> QED BY <2>4, <2>5
<1> QED
  BY <1>ApplicationCallsDelivery, <1>WriteReturnsDelivery, <1>ReadReturnsDelivery,
     <1>FinishReturnsDelivery, <1>EndsDelivery DEF OperationReturns

-----------------------------------------------------------------------------
(* Handlers *)

\* The single callbacks of server_test.cc, by the number of items that they send.
LEMMA ScriptLengths ==
  /\ Len(Script("CLIENT_STREAMING", "OnRequest")) = 0
  /\ Len(Script("CLIENT_STREAMING", "OnReadsDone")) = 1
  /\ Len(Script("BIDI_STREAMING", "OnRequest")) = 2
  /\ Len(Script("BIDI_STREAMING", "OnReadsDone")) = 1
  /\ Len(Script("SERVER_STREAMING", "OnRequest")) = 3
  /\ Len(Script("SERVER_STREAMING", "OnReadsDone")) = 0
  /\ Len(Script("NORMAL_RPC", "OnRequest")) = 1
  /\ Len(Script("NORMAL_RPC", "OnReadsDone")) = 0
  /\ \A type, label : label \notin {"OnRequest", "OnReadsDone"} => Len(Script(type, label)) = 0
BY SMT DEF Script

\* Progress, type by type.
StreamState(done, label, behind) ==
  IF done THEN "ended" ELSE IF label = "OnReadsDone" /\ behind = 1 THEN "ending" ELSE "open"

SingleState(all, label, behind) ==
  IF label = "Initialize" \/ (label = "OnRequest" /\ behind < all) THEN "open"
  ELSE IF label = "OnRequest" THEN "ending" ELSE "ended"

SingleTotal(all, label, behind) ==
  IF label = "Initialize" THEN 0 ELSE IF label = "OnRequest" THEN behind ELSE all

\* What Progress says of a handler that exists, with the numbers.
LEMMA ProgressOfStream ==
  ASSUME NEW type \in {"CLIENT_STREAMING", "BIDI_STREAMING"}, NEW h, NEW n \in Int, NEW done \in BOOLEAN,
         NEW label, NEW behind \in Nat, NEW total \in Nat, h # "none"
  PROVE  Progress(type, h, n, done, label, behind, total) <=>
           /\ n >= IF label = "OnRequest" THEN 1 ELSE 0
           /\ label = "OnRequest" => behind <= (IF type = "BIDI_STREAMING" THEN 2 ELSE 0)
           /\ label = "OnReadsDone" => behind <= 1
           /\ label \notin {"OnRequest", "OnReadsDone"} => behind = 0
           /\ total = (IF type = "CLIENT_STREAMING" THEN 0
                       ELSE IF label = "OnRequest" THEN 2 * n - 2 ELSE 2 * n)
                        + (IF done THEN 1 ELSE 0) + behind
           /\ h = StreamState(done, label, behind)
<1> DEFINE all == Len(Script(type, "OnRequest"))
           mine == Len(Script(type, label))
<1>1. all = IF type = "BIDI_STREAMING" THEN 2 ELSE 0
  BY ScriptLengths
<1>2. mine = IF label = "OnRequest" THEN all ELSE IF label = "OnReadsDone" THEN 1 ELSE 0
  BY ScriptLengths
<1>3. Progress(type, h, n, done, label, behind, total) <=>
        /\ behind \in 0 .. mine
        /\ n >= IF label = "OnRequest" THEN 1 ELSE 0
        /\ total = all * (IF label = "OnRequest" THEN n - 1 ELSE n)
                     + (IF done THEN 1 ELSE 0) + behind
        /\ h = StreamState(done, label, behind)
  BY DEF Progress, StreamState
<1> HIDE DEF all, mine
<1>4. CASE type = "CLIENT_STREAMING"
  BY SMT, <1>1, <1>2, <1>3, <1>4
<1>5. CASE type = "BIDI_STREAMING"
  BY SMT, <1>1, <1>2, <1>3, <1>5
<1> QED BY <1>4, <1>5

\* For a handler with a single request everything is sent in OnRequest.
LEMMA ProgressOfSingle ==
  ASSUME NEW type \in {"NORMAL_RPC", "SERVER_STREAMING"}, NEW h, NEW n \in Int, NEW done \in BOOLEAN,
         NEW label, NEW behind \in Nat, NEW total \in Nat, h # "none"
  PROVE  LET all == IF type = "NORMAL_RPC" THEN 1 ELSE 3
         IN  Progress(type, h, n, done, label, behind, total) <=>
               /\ behind <= (IF label = "OnRequest" THEN all ELSE 0)
               /\ total = SingleTotal(all, label, behind)
               /\ h = SingleState(all, label, behind)
<1> DEFINE all == Len(Script(type, "OnRequest"))
           mine == Len(Script(type, label))
<1>1. all = IF type = "NORMAL_RPC" THEN 1 ELSE 3
  BY ScriptLengths
<1>2. mine = IF label = "OnRequest" THEN all ELSE 0
  BY ScriptLengths
<1>3. type \notin {"CLIENT_STREAMING", "BIDI_STREAMING"}
  BY SMT
<1>4. Progress(type, h, n, done, label, behind, total) <=>
        /\ behind \in 0 .. mine
        /\ total = SingleTotal(all, label, behind)
        /\ h = SingleState(all, label, behind)
  BY <1>3 DEF Progress, SingleState, SingleTotal
<1> HIDE DEF all, mine
<1> QED BY SMT, <1>1, <1>2, <1>4

\* Before there is a handler, nothing was sent and no request was taken.
LEMMA ProgressOfNone ==
  ASSUME NEW type, NEW n, NEW done, NEW label, NEW behind \in Nat, NEW total, label \notin Callbacks
  PROVE  Progress(type, "none", n, done, label, behind, total) <=> behind = 0 /\ total = 0 /\ n = 0
<1>1. label \notin {"OnRequest", "OnReadsDone"}
  BY SMT DEF Callbacks
<1> QED BY SMT, <1>1, ScriptLengths DEF Progress

\* The item that ends a call, by its place in the script.
EndsCall(type, msg) == ~msg \/ type \in {"NORMAL_RPC", "CLIENT_STREAMING"}

\* A stream of requests is answered to the end by OnReadsDone, a single request by
\* the last item of OnRequest.
LEMMA ScriptEnds ==
  /\ EndsCall("CLIENT_STREAMING", Script("CLIENT_STREAMING", "OnReadsDone")[1])
  /\ EndsCall("BIDI_STREAMING", Script("BIDI_STREAMING", "OnReadsDone")[1])
  /\ \A k \in {1, 2} : ~EndsCall("BIDI_STREAMING", Script("BIDI_STREAMING", "OnRequest")[k])
  /\ EndsCall("NORMAL_RPC", Script("NORMAL_RPC", "OnRequest")[1])
  /\ \A k \in {1, 2, 3} :
       EndsCall("SERVER_STREAMING", Script("SERVER_STREAMING", "OnRequest")[k]) <=> k = 3
<1>1. /\ Script("CLIENT_STREAMING", "OnReadsDone") = <<TRUE>>
      /\ Script("BIDI_STREAMING", "OnRequest") = <<TRUE, TRUE>>
      /\ Script("BIDI_STREAMING", "OnReadsDone") = <<FALSE>>
      /\ Script("SERVER_STREAMING", "OnRequest") = <<TRUE, TRUE, FALSE>>
      /\ Script("NORMAL_RPC", "OnRequest") = <<TRUE>>
  BY DEF Script
<1>2. /\ <<TRUE>>[1] = TRUE /\ <<FALSE>>[1] = FALSE
      /\ <<TRUE, TRUE>>[1] = TRUE /\ <<TRUE, TRUE>>[2] = TRUE
      /\ <<TRUE, TRUE, FALSE>>[1] = TRUE /\ <<TRUE, TRUE, FALSE>>[2] = TRUE
      /\ <<TRUE, TRUE, FALSE>>[3] = FALSE
  BY SMT
<1>3. \A k \in {1, 2} : ~EndsCall("BIDI_STREAMING", Script("BIDI_STREAMING", "OnRequest")[k])
  BY <1>1, <1>2 DEF EndsCall
<1>4. \A k \in {1, 2, 3} :
        EndsCall("SERVER_STREAMING", Script("SERVER_STREAMING", "OnRequest")[k]) <=> k = 3
  BY <1>1, <1>2 DEF EndsCall
<1> QED BY <1>1, <1>2, <1>3, <1>4 DEF EndsCall

\* HandleNewConnection makes a handler for the call.
LEMMA HandlerBegins ==
  ASSUME NEW type \in RpcTypes, NEW done \in BOOLEAN, ~done, NEW behind \in Nat, NEW total \in Nat,
         NEW n \in Int, Progress(type, "none", n, done, "idle", behind, total)
  PROVE  Progress(type, "open", n, done, "Initialize", behind, total)
<1>1. behind = 0 /\ total = 0 /\ n = 0
  <2>1. "idle" \notin Callbacks
    BY SMT DEF Callbacks
  <2> QED BY SMT, <2>1, ProgressOfNone
<1>2. CASE type \in {"CLIENT_STREAMING", "BIDI_STREAMING"}
  BY SMT, <1>1, <1>2, ProgressOfStream DEF StreamState
<1>3. CASE type \in {"NORMAL_RPC", "SERVER_STREAMING"}
  BY SMT, <1>1, <1>3, ProgressOfSingle DEF SingleState, SingleTotal
<1> QED BY <1>2, <1>3 DEF RpcTypes

\* A callback sends what its script says next.
LEMMA HandlerProceeds ==
  ASSUME NEW type \in RpcTypes, NEW n \in Int, NEW done \in BOOLEAN, NEW label, NEW behind \in Nat,
         NEW total \in Nat, Progress(type, "open", n, done, label, behind, total),
         behind < Len(Script(type, label))
  PROVE  Progress(type,
                  IF EndsCall(type, Script(type, label)[behind + 1]) THEN "ending" ELSE "open",
                  n, done, label, behind + 1, total + 1)
<1> DEFINE ends == EndsCall(type, Script(type, label)[behind + 1])
           h == IF ends THEN "ending" ELSE "open"
<1>0. h # "none" /\ behind + 1 \in Nat /\ total + 1 \in Nat
  BY SMT
<1>1. CASE type \in {"CLIENT_STREAMING", "BIDI_STREAMING"}
  <2>1. /\ n >= IF label = "OnRequest" THEN 1 ELSE 0
        /\ total = (IF type = "CLIENT_STREAMING" THEN 0
                    ELSE IF label = "OnRequest" THEN 2 * n - 2 ELSE 2 * n)
                     + (IF done THEN 1 ELSE 0) + behind
        /\ "open" = StreamState(done, label, behind)
    BY SMT, <1>1, ProgressOfStream
  <2>2. \/ type = "BIDI_STREAMING" /\ label = "OnRequest" /\ behind < 2
        \/ label = "OnReadsDone" /\ behind = 0
    <3> DEFINE mine == Len(Script(type, label))
    <3>1. mine = IF label = "OnRequest" THEN IF type = "BIDI_STREAMING" THEN 2 ELSE 0
                 ELSE IF label = "OnReadsDone" THEN 1 ELSE 0
      BY <1>1, ScriptLengths
    <3>2. behind < mine
      BY SMT
    <3> HIDE DEF mine
    <3> QED BY SMT, <1>1, <3>1, <3>2
  <2>3. ends <=> label = "OnReadsDone"
    BY SMT, <1>1, <2>2, ScriptEnds
  <2>4. h = StreamState(done, label, behind + 1)
    BY SMT, <2>1, <2>2, <2>3 DEF StreamState
  <2> HIDE DEF h
  <2>5. /\ label = "OnRequest" =>
             n > 0 /\ behind + 1 <= (IF type = "BIDI_STREAMING" THEN 2 ELSE 0)
        /\ label = "OnReadsDone" => behind + 1 <= 1
        /\ label \notin {"OnRequest", "OnReadsDone"} => behind + 1 = 0
        /\ total + 1 = (IF type = "CLIENT_STREAMING" THEN 0
                        ELSE IF label = "OnRequest" THEN 2 * n - 2 ELSE 2 * n)
                         + (IF done THEN 1 ELSE 0) + (behind + 1)
    BY SMT, <1>1, <2>1, <2>2
  <2>6. Progress(type, h, n, done, label, behind + 1, total + 1)
    BY SMT, <1>0, <1>1, <2>4, <2>5, ProgressOfStream
  <2> QED BY <2>6 DEF h
<1>2. CASE type \in {"NORMAL_RPC", "SERVER_STREAMING"}
  <2> DEFINE all == IF type = "NORMAL_RPC" THEN 1 ELSE 3
  <2>1. total = SingleTotal(all, label, behind)
    BY SMT, <1>2, ProgressOfSingle
  <2>2. label = "OnRequest" /\ behind < all
    <3> DEFINE mine == Len(Script(type, label))
    <3>1. mine = IF label = "OnRequest" THEN all ELSE 0
      BY <1>2, ScriptLengths
    <3>2. behind < mine
      BY SMT
    <3> HIDE DEF mine
    <3> QED BY SMT, <3>1, <3>2
  <2>3. ends <=> behind + 1 = all
    BY SMT, <1>2, <2>2, ScriptEnds
  <2>4. h = SingleState(all, label, behind + 1)
    BY SMT, <2>2, <2>3 DEF SingleState
  <2>5. behind + 1 <= (IF label = "OnRequest" THEN all ELSE 0)
        /\ total + 1 = SingleTotal(all, label, behind + 1)
    BY SMT, <2>1, <2>2 DEF SingleTotal
  <2> HIDE DEF h
  <2>6. Progress(type, h, n, done, label, behind + 1, total + 1)
    BY SMT, <1>0, <1>2, <2>4, <2>5, ProgressOfSingle
  <2> QED BY <2>6 DEF h
<1> QED BY <1>1, <1>2 DEF RpcTypes

\* What the event thread does after a callback, by the type of the call.
After(type, label) ==
  LET streams == type \in {"CLIENT_STREAMING", "BIDI_STREAMING"}
  IN  CASE label = "Initialize" -> IF streams THEN "Read" ELSE "OnRequest"
        [] label = "OnRequest" -> IF streams THEN "Read" ELSE "OnReadsDone"
        [] label = "OnReadsDone" -> IF streams THEN "RemoveIfNotPending" ELSE "Clone"
        [] OTHER -> "RemoveIfNotPending"

\* A callback that has sent everything returns.
LEMMA HandlerReturns ==
  ASSUME NEW type \in RpcTypes, NEW h \in HandlerStates, h # "none", NEW n \in Int, NEW done \in BOOLEAN,
         NEW label \in Callbacks, NEW total \in Nat,
         Progress(type, h, n, done, label, Len(Script(type, label)), total),
         done => label = "OnFinish"
  PROVE  Progress(type, IF h = "ending" THEN "ended" ELSE h, n, done \/ label = "OnReadsDone",
                  After(type, label), 0, total)
<1> DEFINE h2 == IF h = "ending" THEN "ended" ELSE h
           done2 == done \/ label = "OnReadsDone"
           label2 == After(type, label)
<1>0. h2 # "none" /\ done2 \in BOOLEAN
  BY SMT DEF HandlerStates
<1>1. CASE type \in {"CLIENT_STREAMING", "BIDI_STREAMING"}
  <2>1. label2 = IF label \in {"Initialize", "OnRequest"} THEN "Read" ELSE "RemoveIfNotPending"
    BY SMT, <1>1 DEF After, Callbacks
  <2> DEFINE behind == Len(Script(type, label))
  <2>2. behind = IF label = "OnRequest" THEN IF type = "BIDI_STREAMING" THEN 2 ELSE 0
                 ELSE IF label = "OnReadsDone" THEN 1 ELSE 0
    BY <1>1, ScriptLengths
  <2>3. Progress(type, h, n, done, label, behind, total)
    BY SMT
  <2> HIDE DEF behind, label2
  <2>4. behind \in Nat
    BY SMT, <2>2
  <2>5. /\ n >= IF label = "OnRequest" THEN 1 ELSE 0
        /\ total = (IF type = "CLIENT_STREAMING" THEN 0
                    ELSE IF label = "OnRequest" THEN 2 * n - 2 ELSE 2 * n)
                     + (IF done THEN 1 ELSE 0) + behind
        /\ h = StreamState(done, label, behind)
    BY SMT, <1>1, <2>3, <2>4, ProgressOfStream
  <2>6. h2 = StreamState(done2, label2, 0)
    BY SMT, <2>1, <2>2, <2>5 DEF StreamState, Callbacks
  <2>7. total = (IF type = "CLIENT_STREAMING" THEN 0
                 ELSE IF label2 = "OnRequest" THEN 2 * n - 2 ELSE 2 * n)
                  + (IF done2 THEN 1 ELSE 0) + 0
    BY SMT, <1>1, <2>1, <2>2, <2>5 DEF Callbacks
  <2>8. label2 \notin {"OnRequest", "OnReadsDone"} /\ n >= IF label2 = "OnRequest" THEN 1 ELSE 0
    BY SMT, <2>1, <2>5
  <2> HIDE DEF h2, done2
  <2>9. Progress(type, h2, n, done2, label2, 0, total)
    BY SMT, <1>0, <1>1, <2>6, <2>7, <2>8, ProgressOfStream
  <2> QED BY <2>9 DEF h2, done2, label2
<1>2. CASE type \in {"NORMAL_RPC", "SERVER_STREAMING"}
  <2> DEFINE all == IF type = "NORMAL_RPC" THEN 1 ELSE 3
             behind == Len(Script(type, label))
  <2>1. label2 = IF label = "Initialize" THEN "OnRequest" ELSE IF label = "OnRequest" THEN "OnReadsDone"
                 ELSE IF label = "OnReadsDone" THEN "Clone" ELSE "RemoveIfNotPending"
    BY SMT, <1>2 DEF After, Callbacks
  <2>2. behind = IF label = "OnRequest" THEN all ELSE 0
    BY <1>2, ScriptLengths
  <2>3. Progress(type, h, n, done, label, behind, total)
    BY SMT
  <2> HIDE DEF behind, label2
  <2>4. behind \in Nat
    BY SMT, <2>2
  <2>5. total = SingleTotal(all, label, behind) /\ h = SingleState(all, label, behind)
    BY SMT, <1>2, <2>3, <2>4, ProgressOfSingle
  <2>6. h2 = SingleState(all, label2, 0)
    BY SMT, <2>1, <2>2, <2>5 DEF SingleState, Callbacks
  <2>7. total = SingleTotal(all, label2, 0)
    BY SMT, <2>1, <2>2, <2>5 DEF SingleTotal, Callbacks
  <2>8. 0 <= (IF label2 = "OnRequest" THEN all ELSE 0)
    BY SMT
  <2> HIDE DEF h2, done2
  <2>9. Progress(type, h2, n, done2, label2, 0, total)
    BY SMT, <1>0, <1>2, <2>6, <2>7, <2>8, ProgressOfSingle
  <2> QED BY <2>9 DEF h2, done2, label2
<1> QED BY <1>1, <1>2 DEF RpcTypes

\* Between callbacks nothing is sent.
LEMMA HandlerRests ==
  ASSUME NEW type \in RpcTypes, NEW h, NEW n \in Int, NEW done \in BOOLEAN, NEW behind \in Nat,
         NEW total \in Nat, NEW label, NEW label2,
         label \notin {"Initialize", "OnRequest", "OnReadsDone"},
         label2 \notin {"Initialize", "OnRequest", "OnReadsDone"},
         Progress(type, h, n, done, label, behind, total)
  PROVE  behind = 0 /\ Progress(type, h, n, done, label2, behind, total)
<1>0. Len(Script(type, label)) = 0 /\ Len(Script(type, label2)) = 0
  BY ScriptLengths
<1>1. behind = 0
  BY SMT, <1>0 DEF Progress
<1> QED BY <1>0, <1>1 DEF Progress

\* A request of a stream is handed to OnRequest, ...
LEMMA HandlerIsAsked ==
  ASSUME NEW type \in {"CLIENT_STREAMING", "BIDI_STREAMING"}, NEW h, h # "none", NEW n \in Int,
         NEW done \in BOOLEAN, NEW total \in Nat, Progress(type, h, n, done, "idle", 0, total)
  PROVE  Progress(type, h, n + 1, done, "OnRequest", 0, total)
<1>1. /\ n >= 0
      /\ total = (IF type = "CLIENT_STREAMING" THEN 0 ELSE 2 * n) + (IF done THEN 1 ELSE 0) + 0
      /\ h = StreamState(done, "idle", 0)
  BY SMT, ProgressOfStream
<1>2. h = StreamState(done, "OnRequest", 0)
  BY SMT, <1>1 DEF StreamState
<1>3. n + 1 >= 1 /\ n + 1 \in Int
      /\ total = (IF type = "CLIENT_STREAMING" THEN 0 ELSE 2 * (n + 1) - 2) + (IF done THEN 1 ELSE 0) + 0
  BY SMT, <1>1
<1> QED BY SMT, <1>2, <1>3, ProgressOfStream

\* ... and the end of the requests to OnReadsDone.
LEMMA HandlerIsToldAll ==
  ASSUME NEW type \in {"CLIENT_STREAMING", "BIDI_STREAMING"}, NEW h, h # "none", NEW n \in Int,
         NEW done \in BOOLEAN, NEW total \in Nat, Progress(type, h, n, done, "idle", 0, total)
  PROVE  Progress(type, h, n, done, "OnReadsDone", 0, total)
<1>1. /\ n >= 0
      /\ total = (IF type = "CLIENT_STREAMING" THEN 0 ELSE 2 * n) + (IF done THEN 1 ELSE 0) + 0
      /\ h = StreamState(done, "idle", 0)
  BY SMT, ProgressOfStream
<1>2. h = StreamState(done, "OnReadsDone", 0)
  BY SMT, <1>1 DEF StreamState
<1> QED BY SMT, <1>1, <1>2, ProgressOfStream

-----------------------------------------------------------------------------
(* Events, and what steps of the server keep *)

\* There is one event thread, and everything goes through its queue.
LEMMA OneEventQueue ==
  ASSUME NumEventThreads = 1
  PROVE  EventQueues = {EventThread} /\ EventThread \in EventQueues
BY SMT DEF EventQueues, EventThread

\* What the server guarantees of the call of r, with the one event thread.
LEMMA CallNow ==
  ASSUME NumEventThreads = 1, Healthy, NEW r \in Rpcs
  PROVE  CallOK(r, Label(r), Doing(r).item)
<1>1. SameQueue(r)
  BY OneQueue DEF Healthy
<1>2. CASE BusyOn(EventThread, r)
  <2>1. Label(r) = thread[EventThread].pc /\ Doing(r).item = thread[EventThread].item
    BY <1>2 DEF Label, Doing
  <2> QED BY <1>1, <1>2, <2>1, OneEventQueue DEF Healthy, CallStateOK
<1>3. CASE ~BusyOn(EventThread, r)
  <2>1. Label(r) = "idle" /\ Doing(r).item = NoItem
    BY <1>3 DEF Label, Doing, Idle
  <2>2. \A q \in EventQueues : ~BusyOn(q, r)
    BY <1>3, OneEventQueue
  <2> QED BY <1>1, <2>1, <2>2 DEF Healthy, CallStateOK
<1> QED BY <1>2, <1>3

\* A READ event in the queue has one of the two outcomes.
ReadIn(queues, r, ok) ==
  \E i \in 1 .. Len(queues[EventThread]) :
    queues[EventThread][i] = [ev |-> "READ", rpc |-> r, ok |-> ok]

\* A READ event in the queue says whether it brings a request.
LEMMA ReadsIn ==
  ASSUME NumEventThreads = 1, NEW queues \in [EventQueues -> Seq(Events)], NEW r \in Rpcs
  PROVE  QueuedIn(queues, r, "READ") <=> ReadIn(queues, r, TRUE) \/ ReadIn(queues, r, FALSE)
<1> DEFINE all == queues[EventThread]
<1>1. ASSUME QueuedIn(queues, r, "READ") PROVE ReadIn(queues, r, TRUE) \/ ReadIn(queues, r, FALSE)
  <2>1. PICK i \in 1 .. Len(all) : all[i].rpc = r /\ all[i].ev = "READ"
    BY <1>1, OneEventQueue DEF QueuedIn
  <2>2. all \in Seq(Events)
    BY OneEventQueue
  <2> HIDE DEF all
  <2>3. all[i] \in Events
    BY SMT, <2>1, <2>2
  <2>4. all[i] = [ev |-> "READ", rpc |-> r, ok |-> TRUE]
        \/ all[i] = [ev |-> "READ", rpc |-> r, ok |-> FALSE]
    BY <2>1, <2>3 DEF Events
  <2> QED BY <2>4 DEF ReadIn, all
<1>2. ASSUME NEW ok \in BOOLEAN, ReadIn(queues, r, ok) PROVE QueuedIn(queues, r, "READ")
  <2>1. PICK i \in 1 .. Len(all) : all[i] = [ev |-> "READ", rpc |-> r, ok |-> ok]
    BY <1>2 DEF ReadIn
  <2>2. all[i].rpc = r /\ all[i].ev = "READ"
    BY SMT, <2>1
  <2> QED BY <2>2, OneEventQueue DEF QueuedIn
<1> QED BY <1>1, <1>2

\* The same for the queue of the event thread, before and after a step.
LEMMA ReadsQueued ==
  ASSUME NumEventThreads = 1, TypeInv, NEW r \in Rpcs
  PROVE  Queued(r, "READ") <=> ReadQueued(r, TRUE) \/ ReadQueued(r, FALSE)
<1>1. queue \in [EventQueues -> Seq(Events)]
  BY DEF TypeInv, TypeOK, RpcTypeOK
<1>2. \A ok : ReadQueued(r, ok) <=> ReadIn(queue, r, ok)
  BY DEF ReadQueued, ReadIn
<1> QED BY <1>1, <1>2, ReadsIn DEF Queued

\* The same of the next state.
LEMMA ReadsQueuedNext ==
  ASSUME NumEventThreads = 1, TypeInv', NEW r \in Rpcs
  PROVE  Queued(r, "READ")' <=> ReadQueued(r, TRUE)' \/ ReadQueued(r, FALSE)'
<1>1. queue' \in [EventQueues -> Seq(Events)]
  BY DEF TypeInv, TypeOK, RpcTypeOK
<1>2. \A ok : ReadQueued(r, ok)' <=> ReadIn(queue', r, ok)
  BY DEF ReadQueued, ReadIn, EventThread
<1> QED BY <1>1, <1>2, ReadsIn DEF Queued

\* Server::RunCompletionQueue or a handler pushes an event.
LEMMA ReadPushed ==
  ASSUME NumEventThreads = 1, TypeInv, NEW e \in CqEvents \cup {"WRITE_NEEDED"}, NEW x \in Rpcs,
         NEW ok \in BOOLEAN, Push(EventThread, e, x, ok), NEW r \in Rpcs, NEW b \in BOOLEAN
  PROVE  ReadQueued(r, b)' <=> ReadQueued(r, b) \/ (r = x /\ e = "READ" /\ b = ok)
<1> DEFINE old == queue[EventThread]
           new == queue'[EventThread]
           entry == [ev |-> "READ", rpc |-> r, ok |-> b]
<1>1. /\ Len(old) \in Nat /\ Len(new) = Len(old) + 1
      /\ new[Len(old) + 1] = [ev |-> e, rpc |-> x, ok |-> ok]
      /\ \A i \in 1 .. Len(old) : new[i] = old[i]
  BY OneEventQueue, PushEntries
<1>2. ReadQueued(r, b) <=> \E i \in 1 .. Len(old) : old[i] = entry
  BY DEF ReadQueued
<1>3. ReadQueued(r, b)' <=> \E i \in 1 .. Len(new) : new[i] = entry
  BY DEF ReadQueued, EventThread
<1>4. new[Len(old) + 1] = entry <=> r = x /\ e = "READ" /\ b = ok
  BY SMT, <1>1
<1> HIDE DEF old, new, entry
<1>5. (\E i \in 1 .. Len(new) : new[i] = entry) <=>
        (\E i \in 1 .. Len(old) : old[i] = entry) \/ new[Len(old) + 1] = entry
  BY SMT, <1>1
<1> QED BY <1>2, <1>3, <1>4, <1>5

\* Events of other Rpcs, and other events, make no difference.
LEMMA OtherPushed ==
  ASSUME NumEventThreads = 1, TypeInv, NEW e \in CqEvents \cup {"WRITE_NEEDED"}, NEW x \in Rpcs,
         NEW ok \in BOOLEAN, Push(EventThread, e, x, ok), NEW r \in Rpcs, r # x \/ e # "READ"
  PROVE  \A b \in BOOLEAN : ReadQueued(r, b)' <=> ReadQueued(r, b)
<1>1. ASSUME NEW b \in BOOLEAN
      PROVE  ReadQueued(r, b)' <=> ReadQueued(r, b)
  <2> DEFINE same == b = ok
  <2>1. ReadQueued(r, b)' <=> ReadQueued(r, b) \/ (r = x /\ e = "READ" /\ same)
    BY SMT, ReadPushed
  <2> HIDE DEF same
  <2> QED BY <2>1
<1> QED BY <1>1

\* What HandlerProgress depends on, apart from the thread, stays as it is, ...
HandlerStateKept(r) ==
  /\ method'[r] = method[r] /\ handler'[r] = handler[r] /\ requests'[r] = requests[r]
  /\ sends'[r] = sends[r]
  /\ r \in reads_done' <=> r \in reads_done
  /\ \A ok \in BOOLEAN : ReadQueued(r, ok)' <=> ReadQueued(r, ok)

\* ... and so does what the thread does for r.
ThreadKept(r) == Doing(r)' = Doing(r) /\ RepliedFor(r)' = RepliedFor(r)

\* The same for what CallProgress says of the server.
CallKept(r) ==
  /\ call'[r] = call[r] /\ sent'[r] = sent[r]
  /\ r \in status_sent' <=> r \in status_sent
  /\ ops'[r] \cap {"WRITE", "FINISH"} = ops[r] \cap {"WRITE", "FINISH"}

\* The values that Progress is about.
LEMMA ProgressTypes ==
  ASSUME TypeInv, RepliedOK, NumEventThreads = 1, NEW r \in Rpcs
  PROVE  /\ RpcType[method[r]] \in RpcTypes
         /\ handler[r] \in HandlerStates
         /\ requests[r] \in Nat /\ Taken(r) \in Int
         /\ (r \in reads_done) \in BOOLEAN
         /\ RepliedFor(r) \in Nat
         /\ sends[r] \in Nat /\ sent[r] \in Nat
<1>1. RpcType[method[r]] \in RpcTypes /\ handler[r] \in HandlerStates
  BY MethodsAssumption DEF TypeInv, TypeOK, RpcTypeOK, ServiceTypeOK
<1>2. requests[r] \in Nat /\ sends[r] \in Nat /\ sent[r] \in Nat
  BY DEF TypeInv, TypeOK, RpcTypeOK, GrpcTypeOK
<1>3. Taken(r) \in Int
  <2>1. requests[r] \in Int /\ requests[r] - 1 \in Int
    BY SMT, <1>2
  <2> QED BY <2>1 DEF Taken
<1>4. RepliedFor(r) \in Nat
  <2>1. replied[EventThread] \in Nat
    BY OneEventQueue DEF RepliedOK
  <2> QED BY SMT, <2>1 DEF RepliedFor
<1>5. (r \in reads_done) \in BOOLEAN
  BY SMT
<1> QED BY <1>1, <1>2, <1>3, <1>4, <1>5

\* The values as they are after a step.
LEMMA KeptValues ==
  ASSUME NEW r \in Rpcs, HandlerStateKept(r)
  PROVE  /\ Taken(r)' = Taken(r)
         /\ (r \in reads_done)' = (r \in reads_done)
         /\ RpcType[method[r]]' = RpcType[method[r]]
         /\ StreamsRequests(r)' <=> StreamsRequests(r)
<1>1. Taken(r)' = Taken(r)
  BY DEF HandlerStateKept, Taken
<1>2. (r \in reads_done)' = (r \in reads_done)
  <2>1. CASE r \in reads_done
    <3>1. (r \in reads_done) = TRUE /\ (r \in reads_done)' = TRUE
      BY <2>1 DEF HandlerStateKept
    <3> QED BY <3>1
  <2>2. CASE r \notin reads_done
    <3>1. (r \in reads_done) = FALSE /\ (r \in reads_done)' = FALSE
      BY SMT, <2>2 DEF HandlerStateKept
    <3> QED BY <3>1
  <2> QED BY <2>1, <2>2
<1>3. RpcType[method[r]]' = RpcType[method[r]]
  BY DEF HandlerStateKept
<1> QED BY <1>1, <1>2, <1>3 DEF StreamsRequests

\* A step that is none of the handler's.
LEMMA KeptProgress ==
  ASSUME NumEventThreads = 1, TypeInv, TypeInv', NEW r \in Rpcs, HandlerProgress(r),
         HandlerStateKept(r), ThreadKept(r), "READ" \in ops'[r] => "READ" \in ops[r]
  PROVE  HandlerProgress(r)'
<1>1. Label(r)' = Label(r) /\ Doing(r)' = Doing(r) /\ RepliedFor(r)' = RepliedFor(r)
  BY DEF Label, ThreadKept
<1>2. Progress(RpcType[method[r]], handler[r], Taken(r), r \in reads_done, Label(r), RepliedFor(r),
               sends[r])'
  <2>1. Progress(RpcType[method[r]]', handler'[r], Taken(r)', (r \in reads_done)', Label(r)',
                 RepliedFor(r)', sends'[r])
    BY <1>1, KeptValues DEF HandlerStateKept, HandlerProgress
  <2> QED BY <2>1 DEF Progress
<1>3. Queued(r, "READ")' => Queued(r, "READ")
  <2>1. Queued(r, "READ") <=> ReadQueued(r, TRUE) \/ ReadQueued(r, FALSE)
    BY ReadsQueued
  <2>2. Queued(r, "READ")' <=> ReadQueued(r, TRUE)' \/ ReadQueued(r, FALSE)'
    BY ReadsQueuedNext
  <2> QED BY <2>1, <2>2 DEF HandlerStateKept
<1>4. ReadsByEvent(r)'
  BY <1>1, <1>3, KeptValues DEF HandlerProgress, ReadsByEvent, Outstanding
<1> QED BY <1>2, <1>4 DEF HandlerProgress

\* A step of the server that gRPC does not see.
LEMMA KeptCall ==
  ASSUME NEW r \in Rpcs, CallProgress(r), UNCHANGED clientVars, CallKept(r), method'[r] = method[r],
         requests'[r] = requests[r], WritesStream /\ ToldAll(r)' => ToldAll(r)
  PROVE  CallProgress(r)'
<1>1. (RpcType[method[r]])' = RpcType[method[r]]
  OBVIOUS
<1>2. WritesStream' <=> WritesStream
  BY DEF WritesStream, clientVars
<1>3. "FINISH" \in ops'[r] <=> "FINISH" \in ops[r]
  BY DEF CallKept
<1>4. /\ stream' = stream /\ rpc_type' = rpc_type /\ uplink' = uplink /\ written' = written
      /\ received' = received /\ downlink' = downlink /\ half_closed' = half_closed
      /\ Waiting' <=> Waiting
  BY DEF clientVars, Waiting
<1> QED BY <1>1, <1>2, <1>3, <1>4 DEF CallProgress, CallKept

\* The thread, when it does not.
LEMMA DoingNothing ==
  ASSUME NEW r, ~BusyOn(EventThread, r)
  PROVE  Doing(r) = Idle /\ Label(r) = "idle" /\ RepliedFor(r) = 0
BY DEF Doing, Label, RepliedFor, Idle

\* ... and does not in the next state.
LEMMA DoingNothingNext ==
  ASSUME NEW r, ~BusyOn(EventThread, r)'
  PROVE  Doing(r)' = Idle /\ Label(r)' = "idle" /\ RepliedFor(r)' = 0
BY DEF Doing, Label, RepliedFor, Idle

\* For a step that the client has no part in, it is enough to look at the Rpcs.
ServerKeeps(r) ==
  /\ HandlerProgress(r)'
  /\ Matched(r)' <=> Matched(r)
  /\ Matched(r) => CallProgress(r)'

\* A step of the server that does so for every Rpc keeps the invariant.
LEMMA ServerKeepsDelivery ==
  ASSUME DeliveryInv, UNCHANGED clientVars, \A r \in Rpcs : ServerKeeps(r)
  PROVE  DeliveryInv'
<1>1. ClientTypeOK' /\ (NotConnected => NotConnected')
  BY DEF DeliveryInv, ClientTypeOK, NotConnected, clientVars, WritesStream
<1>2. StreamsOK'
  BY DEF DeliveryInv, StreamsOK, ResponsesTo, clientVars, WritesStream
<1>3. /\ \A r, s \in Rpcs : Matched(r)' /\ Matched(s)' => r = s
      /\ \A r \in Rpcs : HandlerProgress(r)' /\ (Matched(r)' => CallProgress(r)')
      /\ (\A r \in Rpcs : ~Matched(r)') => \A r \in Rpcs : ~Matched(r)
  BY DEF DeliveryInv, ServerKeeps
<1>4. (\A r \in Rpcs : ~Matched(r)') => NotConnected'
  BY <1>1, <1>3 DEF DeliveryInv
<1> QED BY <1>1, <1>2, <1>3, <1>4 DEF DeliveryInv

\* The invariant, as far as it is about r.
Delivering(r) == HandlerProgress(r) /\ (Matched(r) => CallProgress(r))

\* Nothing of READ changes hands.
LEMMA ReadsStay ==
  ASSUME UNCHANGED queue, NEW r \in Rpcs, NEW ok \in BOOLEAN
  PROVE  ReadQueued(r, ok)' <=> ReadQueued(r, ok)
BY DEF ReadQueued, EventThread

\* A step that neither the handler of r, nor its thread, nor gRPC has a part in.
LEMMA KeptKeeps ==
  ASSUME NumEventThreads = 1, TypeInv, TypeInv', UNCHANGED clientVars, NEW r \in Rpcs, Delivering(r),
         HandlerStateKept(r), ThreadKept(r), CallKept(r), "READ" \in ops'[r] => "READ" \in ops[r]
  PROVE  ServerKeeps(r)
<1>1. HandlerProgress(r)'
  BY KeptProgress DEF Delivering
<1>2. ToldAll(r)' => ToldAll(r)
  BY DEF ToldAll, HandlerStateKept, ThreadKept, Label
<1>3. Matched(r) => CallProgress(r)'
  BY <1>2, KeptCall DEF Delivering, HandlerStateKept
<1>4. Matched(r)' <=> Matched(r)
  BY DEF Matched, CallKept
<1> QED BY <1>1, <1>3, <1>4 DEF ServerKeeps

\* The thread and the event queue stay as they are.
LEMMA NothingKeeps ==
  ASSUME NumEventThreads = 1, TypeInv, TypeInv', UNCHANGED clientVars,
         UNCHANGED <<queue, thread, replied>>, NEW r \in Rpcs, Delivering(r), CallKept(r),
         method'[r] = method[r], handler'[r] = handler[r], requests'[r] = requests[r],
         sends'[r] = sends[r], r \in reads_done' <=> r \in reads_done,
         "READ" \in ops'[r] => "READ" \in ops[r]
  PROVE  ServerKeeps(r)
<1>1. HandlerStateKept(r)
  BY ReadsStay DEF HandlerStateKept
<1>2. ThreadKept(r)
  BY DEF ThreadKept, Doing, RepliedFor, BusyOn, Busy, EventThread
<1> QED BY <1>1, <1>2, KeptKeeps

\* An Rpc is constructed and waits for its call: there is no handler yet.
LEMMA ConstructedKeeps ==
  ASSUME NumEventThreads = 1, Healthy, TypeInv', RepliedOK, UNCHANGED <<queue, handler, requests, sends>>,
         NEW r \in Rpcs, HandlerProgress(r), call[r] = "none", call'[r] = "requested",
         ~BusyOn(EventThread, r)', "READ" \notin ops'[r]
  PROVE  ServerKeeps(r)
<1>1. handler[r] = "none" /\ ~BusyOn(EventThread, r) /\ ~Queued(r, "READ")
  <2>1. Fresh(r) /\ Quiet(r)
    BY DEF Healthy, CallStateOK, EventsInv, ConnectionInv, ConnectionOK
  <2>2. \A e \in CqEvents : ~Outstanding(r, e)
    BY DEF Healthy, EventsInv, ConnectionInv, ConnectionOK
  <2>3. "READ" \in CqEvents
    BY SMT DEF CqEvents
  <2> QED BY <2>1, <2>2, <2>3, OneEventQueue DEF Fresh, Quiet, Outstanding
<1>2. "idle" \notin Callbacks \cup {"Read", "OnRequest", "OnReadsDone"} /\ Idle.ev # "READ" /\ 0 \in Nat
  BY SMT DEF Callbacks, Idle
<1>3. Taken(r) = 0 /\ sends[r] = 0
  <2> DEFINE type == RpcType[method[r]]
             done == r \in reads_done
  <2>1. Progress(type, "none", Taken(r), done, "idle", 0, sends[r])
    BY <1>1, DoingNothing DEF HandlerProgress
  <2> HIDE DEF type, done
  <2> QED BY SMT, <1>2, <2>1, ProgressOfNone
<1>4. Taken(r)' = 0 /\ sends'[r] = 0 /\ handler'[r] = "none"
  <2>1. Taken(r)' = Taken(r)
    BY ReadsStay DEF Taken
  <2> QED BY <1>1, <1>3, <2>1
<1>5. Progress(RpcType[method[r]]', handler'[r], Taken(r)', (r \in reads_done)', Label(r)',
               RepliedFor(r)', sends'[r])
  <2> DEFINE type == RpcType[method[r]]'
             done == (r \in reads_done)'
             next == Label(r)'
             behind == RepliedFor(r)'
             taken == Taken(r)'
             total == sends'[r]
             h == handler'[r]
  <2>1. next \notin Callbacks /\ behind = 0 /\ taken = 0 /\ total = 0 /\ h = "none"
    BY <1>2, <1>4, DoingNothingNext
  <2> HIDE DEF type, done, next, behind, taken, total, h
  <2>2. Progress(type, h, taken, done, next, behind, total)
    BY SMT, <2>1, ProgressOfNone
  <2> QED BY <2>2 DEF type, done, next, behind, taken, total, h
<1>6. Progress(RpcType[method[r]], handler[r], Taken(r), r \in reads_done, Label(r), RepliedFor(r),
               sends[r])'
  BY <1>5 DEF Progress
<1>7. ~Queued(r, "READ")'
  BY <1>1 DEF Queued, QueuedIn
<1>8. ReadsByEvent(r)'
  BY <1>2, <1>7, DoingNothingNext DEF ReadsByEvent, Outstanding
<1>9. ~Matched(r) /\ ~Matched(r)'
  BY SMT DEF Matched
<1> QED BY <1>6, <1>8, <1>9 DEF ServerKeeps, HandlerProgress

\* The constructor and the request for the next call, for new.
LEMMA Constructs ==
  ASSUME TypeInv, NEW new \in Rpcs, NEW m, NEW c, NEW eq, NEW rq,
         Construct(new, m, c, eq, rq), RequestNextMethodInvocation(new, c)
  PROVE  /\ call[new] = "none" /\ call'[new] = "requested"
         /\ ops'[new] = ops[new] \cup {"NEW_CONNECTION"}
         /\ \A r \in Rpcs : r # new =>
              method'[r] = method[r] /\ call'[r] = call[r] /\ ops'[r] = ops[r]
<1>1. /\ call[new] = "none" /\ call' = [call EXCEPT ![new] = "requested"]
      /\ ops' = [ops EXCEPT ![new] = @ \cup {"NEW_CONNECTION"}]
      /\ method' = [method EXCEPT ![new] = m]
  BY DEF Construct, RequestNextMethodInvocation, StartOp
<1> QED BY <1>1 DEF TypeInv, TypeOK, GrpcTypeOK, RpcTypeOK

\* Before it has a call, an Rpc has no operation.
LEMMA NoneStarted ==
  ASSUME Healthy, NEW r \in Rpcs, call[r] = "none"
  PROVE  "READ" \notin ops[r] /\ \A q \in EventQueues : ~BusyOn(q, r)
<1>1. "READ" \in CqEvents
  BY SMT DEF CqEvents
<1> QED BY <1>1 DEF Healthy, EventsInv, ConnectionInv, ConnectionOK, Quiet, Outstanding

\* Server::Start makes the first Rpcs.
LEMMA StartServingKeeps ==
  ASSUME NumEventThreads = 1, Healthy, TypeInv', RepliedOK, UNCHANGED <<clientVars, replied>>,
         StartServing, NEW r \in Rpcs, Delivering(r)
  PROVE  ServerKeeps(r)
<1>1. UNCHANGED <<queue, handler, requests, sends, sent, status_sent, reads_done, thread>>
  BY DEF StartServing
<1>2. PICK new \in Rpcs, m \in Methods, c \in CompletionQueues :
        /\ Construct(new, m, c, current_event_queue_id', current_event_queue_id')
        /\ RequestNextMethodInvocation(new, c)
  BY DEF StartServing
<1>3. TypeInv
  BY SMT DEF Healthy
<1>4. /\ call[new] = "none" /\ call'[new] = "requested"
      /\ ops'[new] = ops[new] \cup {"NEW_CONNECTION"}
      /\ \A s \in Rpcs : s # new => method'[s] = method[s] /\ call'[s] = call[s] /\ ops'[s] = ops[s]
  BY <1>2, <1>3, Constructs
<1>5. CASE r = new
  <2>1. "READ" \notin ops[r] /\ ~BusyOn(EventThread, r)
    BY <1>4, <1>5, NoneStarted, OneEventQueue
  <2>2. ~BusyOn(EventThread, r)'
    BY <1>1, <2>1 DEF BusyOn, Busy, EventThread
  <2>3. "READ" \notin ops'[r]
    BY SMT, <1>4, <1>5, <2>1
  <2> QED BY <1>1, <1>4, <1>5, <2>2, <2>3, ConstructedKeeps DEF Delivering
<1>6. CASE r # new
  <2>1. CallKept(r)
    BY <1>1, <1>4, <1>6 DEF CallKept
  <2> QED BY <1>1, <1>3, <1>4, <1>6, <2>1, NothingKeeps
<1> QED BY <1>5, <1>6

\* The values that Progress is about, put together.
LEMMA ProgressNext ==
  ASSUME NEW r \in Rpcs, NEW type, NEW h, NEW n, NEW done, NEW label, NEW behind, NEW total,
         Progress(type, h, n, done, label, behind, total),
         type = RpcType[method[r]]', h = handler'[r], n = Taken(r)', done = (r \in reads_done)',
         label = Label(r)', behind = RepliedFor(r)', total = sends'[r]
  PROVE  Progress(RpcType[method[r]], handler[r], Taken(r), r \in reads_done, Label(r), RepliedFor(r),
                  sends[r])'
<1>1. Progress(RpcType[method[r]]', handler'[r], Taken(r)', (r \in reads_done)', Label(r)',
               RepliedFor(r)', sends'[r])
  OBVIOUS
<1> QED BY <1>1 DEF Progress

-----------------------------------------------------------------------------
(* gRPC *)

\* RunCompletionQueue hands the tag e of r to the event thread.
TagReturned(r, e, ok) ==
  /\ e \in ops[r] /\ ops'[r] = ops[r] \ {e}
  /\ \A s \in Rpcs : s # r => ops'[s] = ops[s]
  /\ requests'[r] = IF e = "READ" /\ ok THEN requests[r] + 1 ELSE requests[r]
  /\ \A s \in Rpcs : s # r => requests'[s] = requests[s]
  /\ Push(EventThread, e, r, ok)
  /\ UNCHANGED <<call, status_sent, method, sends, sent, thread, handler, reads_done>>

\* A tag that comes back from gRPC makes no difference to the handlers.
LEMMA TagKeepsThread ==
  ASSUME UNCHANGED <<thread, replied>>, NEW r
  PROVE  ThreadKept(r) /\ Label(r)' = Label(r)
BY DEF ThreadKept, Label, Doing, RepliedFor, BusyOn, Busy, EventThread

\* The call of the client reaches the server: nothing was read or sent for it yet.
LEMMA ConnectDelivery ==
  ASSUME NumEventThreads = 1, Healthy, TypeInv', RepliedOK, DeliveryInv, NEW x \in Rpcs, Connect(x)
  PROVE  DeliveryInv'
<1>1. /\ stream /\ RpcType[method[x]] = rpc_type /\ \A s \in Rpcs : ~Matched(s)
      /\ call[x] = "requested" /\ "NEW_CONNECTION" \in ops[x]
      /\ call' = [call EXCEPT ![x] = "open"] /\ ops' = [ops EXCEPT ![x] = @ \cup {"DONE"}]
      /\ UNCHANGED <<status_sent, requests, method, sends, sent, queue, thread, handler, reads_done,
                     clientVars, replied>>
  BY DEF Connect, ClientCall, Matched, rpcVars, serviceVars
<1>2. TypeInv
  BY SMT DEF Healthy
<1>3. /\ call'[x] = "open" /\ ops'[x] = ops[x] \cup {"DONE"}
      /\ \A r \in Rpcs : r # x => call'[r] = call[r] /\ ops'[r] = ops[r]
  BY <1>1, <1>2 DEF TypeInv, TypeOK, GrpcTypeOK
<1>4. NotConnected /\ ClientTypeOK /\ StreamsOK /\ \A r \in Rpcs : HandlerProgress(r)
  BY <1>1 DEF DeliveryInv
<1>5. ASSUME NEW r \in Rpcs
      PROVE  HandlerProgress(r)' /\ HandlerStateKept(r) /\ ThreadKept(r) /\ Label(r)' = Label(r)
  <2>1. HandlerStateKept(r)
    BY <1>1, ReadsStay DEF HandlerStateKept
  <2>2. ThreadKept(r) /\ Label(r)' = Label(r)
    BY <1>1, TagKeepsThread
  <2>3. "READ" \in ops'[r] => "READ" \in ops[r]
    <3>1. ops'[r] = ops[r] \/ ops'[r] = ops[r] \cup {"DONE"}
      BY <1>3
    <3> QED BY SMT, <3>1
  <2> QED BY <1>2, <1>4, <2>1, <2>2, <2>3, KeptProgress
<1>6. \A r \in Rpcs : Matched(r)' <=> r = x
  <2>1. \A r \in Rpcs : r # x => ~Matched(r)'
    BY <1>1, <1>3 DEF Matched
  <2>2. Matched(x)'
    BY SMT, <1>3 DEF Matched
  <2> QED BY <2>1, <2>2
<1>7. /\ \A e \in {"READ", "WRITE", "FINISH"} : ~Outstanding(x, e)
      /\ handler[x] = "none" /\ x \notin status_sent /\ x \notin reads_done /\ send_queue[x] = <<>>
      /\ Label(x) \notin Callbacks /\ Label(x) # "Perform"
  BY <1>1, CallNow DEF CallOK, HandlerOK, Outstanding
<1>8. ~ReadQueued(x, TRUE) /\ ~ReadQueued(x, FALSE)
  BY <1>2, <1>7, ReadsQueued DEF Outstanding
<1>9. requests[x] = 0 /\ sends[x] = 0
  <2> DEFINE type == RpcType[method[x]]
             done == x \in reads_done
             n == Taken(x)
             label == Label(x)
             behind == RepliedFor(x)
             total == sends[x]
  <2>1. Progress(type, "none", n, done, label, behind, total) /\ label \notin Callbacks /\ behind \in Nat
    BY <1>2, <1>4, <1>7, ProgressTypes DEF HandlerProgress
  <2>2. n = requests[x]
    BY <1>8 DEF Taken
  <2> HIDE DEF type, done, n, label, behind, total
  <2>3. n = 0 /\ total = 0
    BY SMT, <2>1, ProgressOfNone
  <2> QED BY <2>2, <2>3 DEF total
<1>10. sent[x] = 0
  <2>1. sends[x] = sent[x] + Len(send_queue[x])
    BY <1>7, CallNow DEF CallOK, NumberOK
  <2>2. sent[x] \in Nat
    BY <1>2, ProgressTypes
  <2> QED BY SMT, <1>7, <1>9, <2>1, <2>2
<1>11. CallProgress(x)'
  <2>1. /\ stream' = stream /\ rpc_type' = rpc_type /\ uplink' = uplink /\ written' = written
        /\ received' = received /\ downlink' = downlink /\ half_closed' = half_closed
        /\ (Waiting' <=> Waiting) /\ (WritesStream' <=> WritesStream)
    BY <1>1 DEF clientVars, Waiting, WritesStream
  <2>2. ops'[x] \cap {"WRITE", "FINISH"} = {}
    <3>1. "WRITE" \notin ops[x] /\ "FINISH" \notin ops[x]
      BY <1>7 DEF Outstanding
    <3> QED BY SMT, <1>3, <3>1
  <2>3. ~ToldAll(x)'
    <3>1. Label(x) # "OnReadsDone"
      BY <1>7 DEF Callbacks
    <3> QED BY <1>1, <1>5, <1>7, <1>8, <3>1 DEF ToldAll, HandlerStateKept
  <2>4. WritesStream => requests'[x] + uplink' = written'
    <3>1. WritesStream => uplink = written
      BY <1>4 DEF NotConnected
    <3>2. requests'[x] = 0 /\ uplink \in Nat
      BY <1>1, <1>4, <1>9 DEF ClientTypeOK
    <3> QED BY SMT, <2>1, <3>1, <3>2
  <2>5. sent'[x] = received' + Len(downlink')
                     + (IF ops'[x] \cap {"WRITE", "FINISH"} # {} THEN 1 ELSE 0)
    <3>1. received' = 0 /\ downlink' = <<>> /\ sent'[x] = 0
      BY <1>1, <1>4, <1>10, <2>1 DEF NotConnected
    <3>2. sent'[x] = received' + Len(downlink') + 0
      BY SMT, <3>1
    <3> QED BY <2>2, <3>2
  <2>6. stream' /\ RpcType[method[x]]' = rpc_type' /\ x \notin status_sent' /\ call'[x] = "open"
    BY <1>1, <1>3, <1>7, <2>1
  <2> QED BY <2>1, <2>3, <2>4, <2>5, <2>6 DEF CallProgress
<1>12. ClientTypeOK' /\ StreamsOK'
  BY <1>1, <1>4 DEF ClientTypeOK, StreamsOK, ResponsesTo, WritesStream, clientVars
<1> QED BY <1>5, <1>6, <1>11, <1>12 DEF DeliveryInv

\* The call of a client that does not wait any more is over.
LEMMA DisconnectDelivery ==
  ASSUME NumEventThreads = 1, Healthy, TypeInv', DeliveryInv, NEW x \in Rpcs, Disconnect(x)
  PROVE  DeliveryInv'
<1>1. /\ ~Waiting /\ call[x] = "open" /\ call' = [call EXCEPT ![x] = "closed"]
      /\ UNCHANGED <<ops, status_sent, requests, method, sends, sent, queue, thread, handler, reads_done,
                     clientVars, replied>>
  BY DEF Disconnect, CallCloses, Waiting, rpcVars, serviceVars
<1>2. TypeInv
  BY SMT DEF Healthy
<1>3. call'[x] = "closed" /\ \A r \in Rpcs : r # x => call'[r] = call[r]
  BY <1>1, <1>2 DEF TypeInv, TypeOK, GrpcTypeOK
<1>4. ASSUME NEW r \in Rpcs PROVE ServerKeeps(r)
  <2>1. Delivering(r)
    BY DEF DeliveryInv, Delivering
  <2>2. HandlerStateKept(r) /\ ThreadKept(r)
    BY <1>1, ReadsStay, TagKeepsThread DEF HandlerStateKept
  <2>3. CASE r # x
    <3>1. CallKept(r)
      BY <1>1, <1>3, <2>3 DEF CallKept
    <3> QED BY <1>1, <1>2, <2>1, <2>2, <3>1, KeptKeeps
  <2>4. CASE r = x
    <3>1. HandlerProgress(r)'
      BY <1>1, <1>2, <2>1, <2>2, KeptProgress DEF Delivering
    <3>2. Matched(r) /\ Matched(r)'
      BY SMT, <1>1, <1>3, <2>4 DEF Matched
    <3>3. ~Waiting' /\ (WritesStream' <=> WritesStream)
      BY <1>1 DEF Waiting, WritesStream, clientVars
    <3>4. CallProgress(r)'
      BY <1>1, <2>1, <3>2, <3>3 DEF Delivering, CallProgress, clientVars
    <3> QED BY <3>1, <3>2, <3>4 DEF ServerKeeps
  <2> QED BY <2>3, <2>4
<1>5. UNCHANGED clientVars
  BY <1>1
<1> QED BY <1>4, <1>5, ServerKeepsDelivery

\* A completion queue returns a tag of gRPC. One step per tag, after what they need.
LEMMA CompletionQueueDelivery ==
  /\ NumEventThreads = 1 /\ ~RequestsMayFail /\ Overrun = "nothing" /\ Healthy /\ TypeInv'
  /\ RepliedOK /\ fault' = "none" /\ DeliveryInv
  => \A x \in Rpcs : CompletionQueueStep(x) => DeliveryInv'
\* One iteration of Server::RunCompletionQueue, taken apart.
<1>RunCompletionQueueEffect. ASSUME NumEventThreads = 1, TypeInv, fault' = "none", NEW r \in Rpcs, NEW e, NEW ok,
             RunCompletionQueue(r, e, ok)
      PROVE  TagReturned(r, e, ok)
  <2> USE <1>RunCompletionQueueEffect
  <2>1. e \in ops[r]
    BY DEF RunCompletionQueue, MayReturn
  <2>2. ops'[r] = ops[r] \ {e} /\ \A s \in Rpcs : s # r => ops'[s] = ops[s]
    BY DEF RunCompletionQueue, TypeInv, TypeOK, GrpcTypeOK
  <2>3. /\ requests'[r] = IF e = "READ" /\ ok THEN requests[r] + 1 ELSE requests[r]
        /\ \A s \in Rpcs : s # r => requests'[s] = requests[s]
    <3>1. requests' = IF e = "READ" /\ ok THEN [requests EXCEPT ![r] = @ + 1] ELSE requests
      BY DEF RunCompletionQueue
    <3> QED BY <3>1 DEF TypeInv, TypeOK, GrpcTypeOK
  <2>4. Push(EventThread, e, r, ok)
    <3>1. events_queue[r] = EventThread
      <4>1. events_queue[r] \in EventQueues
        BY DEF TypeInv, TypeOK, RpcTypeOK
      <4> QED BY <4>1, OneEventQueue
    <3>2. ~Destroyed(r)
      BY SMT DEF RunCompletionQueue
    <3> QED BY <3>1, <3>2 DEF RunCompletionQueue
  <2>5. UNCHANGED <<call, status_sent, method, sends, sent, thread, handler, reads_done>>
    BY DEF RunCompletionQueue, serviceVars
  <2> QED BY <2>1, <2>2, <2>3, <2>4, <2>5 DEF TagReturned
\* The handlers do not notice what is returned, unless it is a READ of theirs.
<1>TagKeepsOthers. ASSUME NumEventThreads = 1, TypeInv, TypeInv', replied' = replied, NEW x \in Rpcs, NEW e \in CqEvents,
             NEW ok \in BOOLEAN, TagReturned(x, e, ok), NEW r \in Rpcs, r # x \/ e # "READ"
      PROVE  HandlerStateKept(r) /\ ThreadKept(r) /\ ("READ" \in ops'[r] => "READ" \in ops[r])
  <2> USE <1>TagKeepsOthers
  <2>1. \A b \in BOOLEAN : ReadQueued(r, b)' <=> ReadQueued(r, b)
    BY OtherPushed DEF TagReturned
  <2>2. requests'[r] = requests[r]
    BY DEF TagReturned
  <2>3. HandlerStateKept(r)
    BY <2>1, <2>2 DEF HandlerStateKept, TagReturned
  <2>4. "READ" \in ops'[r] => "READ" \in ops[r]
    BY DEF TagReturned
  <2>5. ThreadKept(r)
    BY TagKeepsThread DEF TagReturned
  <2> QED BY <2>3, <2>4, <2>5
\* The outcome of a read is on its way to the handler.
<1>ReadReturned. ASSUME NumEventThreads = 1, Healthy, TypeInv', replied' = replied, NEW r \in Rpcs, NEW ok \in BOOLEAN,
             TagReturned(r, "READ", ok), HandlerProgress(r)
      PROVE  /\ HandlerProgress(r)' /\ StreamsRequests(r)
             /\ ok => (ToldAll(r)' => ToldAll(r))
  <2> USE <1>ReadReturned
  <2>1. TypeInv /\ "READ" \in CqEvents
    BY SMT DEF Healthy, CqEvents
  <2>2. /\ Push(EventThread, "READ", r, ok) /\ "READ" \in ops[r]
        /\ UNCHANGED <<method, sends, thread, handler, reads_done>>
        /\ requests'[r] = IF ok THEN requests[r] + 1 ELSE requests[r]
    BY DEF TagReturned
  <2>3. /\ Label(r)' = Label(r) /\ Doing(r)' = Doing(r) /\ RepliedFor(r)' = RepliedFor(r)
    BY <2>2, TagKeepsThread DEF ThreadKept
  <2>4. ~ReadQueued(r, TRUE) /\ ~ReadQueued(r, FALSE)
    <3>1. ~Queued(r, "READ")
      <4>1. SUFFICES ASSUME Queued(r, "READ") PROVE FALSE
        OBVIOUS
      <4>2. PICK q \in EventQueues : \E i \in 1 .. Len(queue[q]) :
                   queue[q][i].rpc = r /\ queue[q][i].ev = "READ"
        BY <4>1 DEF Queued, QueuedIn
      <4>3. PICK i \in 1 .. Len(queue[q]) : queue[q][i].rpc = r /\ queue[q][i].ev = "READ"
        BY <4>2
      <4>4. TagOK(q, i)
        BY DEF Healthy, EventsInv, TagsInv
      <4>5. SameQueue(queue[q][i].rpc) /\ "READ" # "WRITE_NEEDED"
        BY <2>1, <4>3, OneQueue
      <4>6. queue[q][i].ev \notin ops[queue[q][i].rpc]
        BY <4>3, <4>4, <4>5 DEF TagOK
      <4> QED BY <2>2, <4>3, <4>6
    <3> QED BY <2>1, <3>1, ReadsQueued
  <2>5. /\ ReadQueued(r, TRUE)' <=> ok
        /\ ReadQueued(r, FALSE)' <=> ~ok
    <3>1. \A b \in BOOLEAN : ReadQueued(r, b)' <=> ReadQueued(r, b) \/ b = ok
      BY SMT, <2>1, <2>2, ReadPushed
    <3>2. TRUE \in BOOLEAN /\ FALSE \in BOOLEAN
      BY SMT
    <3>3. CASE ok
      <4>1. FALSE # ok /\ TRUE = ok
        BY SMT, <3>3
      <4> QED BY <2>4, <3>1, <3>2, <3>3, <4>1
    <3>4. CASE ~ok
      <4>1. TRUE # ok /\ FALSE = ok
        BY <3>4
      <4> QED BY <2>4, <3>1, <3>2, <3>4, <4>1
    <3> QED BY <3>3, <3>4
  <2>6. Taken(r)' = Taken(r)
    <3>1. requests[r] \in Nat
      BY <2>1 DEF TypeInv, TypeOK, GrpcTypeOK
    <3>2. Taken(r) = requests[r]
      BY <2>4 DEF Taken
    <3>3. Taken(r)' = IF ok THEN requests'[r] - 1 ELSE requests'[r]
      BY <2>5 DEF Taken
    <3> QED BY SMT, <2>2, <3>1, <3>2, <3>3
  <2>7. StreamsRequests(r) /\ StreamsRequests(r)'
    <3>1. StreamsRequests(r)
      BY <2>2 DEF HandlerProgress, ReadsByEvent, Outstanding
    <3> QED BY <2>2, <3>1 DEF StreamsRequests
  <2>8. ReadsByEvent(r)'
    BY <2>3, <2>7 DEF HandlerProgress, ReadsByEvent
  <2>9. Progress(RpcType[method[r]], handler[r], Taken(r), r \in reads_done, Label(r), RepliedFor(r),
                 sends[r])'
    <3>1. /\ RpcType[method[r]] = RpcType[method[r]]' /\ handler'[r] = handler[r]
          /\ (r \in reads_done) = (r \in reads_done)' /\ sends'[r] = sends[r]
      BY <2>2
    <3> QED BY <2>3, <2>6, <3>1, ProgressNext DEF HandlerProgress
  <2>10. ok => (ToldAll(r)' => ToldAll(r))
    BY <2>2, <2>3, <2>5 DEF ToldAll
  <2> QED BY <2>7, <2>8, <2>9, <2>10 DEF HandlerProgress
\* gRPC has operations of a call, not of an Rpc that waits for one.
<1>OperationsOfCalls. ASSUME Healthy, NEW r \in Rpcs, NEW e \in {"READ", "WRITE", "FINISH"}, e \in ops[r]
      PROVE  Matched(r)
  <2> USE <1>OperationsOfCalls
  <2>1. e \in CqEvents /\ e # "NEW_CONNECTION" /\ Outstanding(r, e)
    BY SMT DEF CqEvents, Outstanding
  <2>2. call[r] \notin {"none", "requested"}
    BY <2>1 DEF Healthy, EventsInv, ConnectionInv, ConnectionOK
  <2>3. call[r] \in CallStates
    BY DEF Healthy, TypeInv, TypeOK, GrpcTypeOK
  <2> QED BY SMT, <2>2, <2>3 DEF Matched, CallStates
\* The next number at the end of consecutive numbers, ...
<1>NumbersAppended. ASSUME NEW d \in Seq(Nat), NEW n \in Nat, d = [i \in 1 .. Len(d) |-> n + i], NEW m \in Nat,
             m = n + Len(d) + 1
      PROVE  /\ Append(d, m) \in Seq(Nat) /\ Len(Append(d, m)) = Len(d) + 1
             /\ Append(d, m) = [i \in 1 .. Len(Append(d, m)) |-> n + i]
  <2> USE <1>NumbersAppended
  <2> DEFINE new == Append(d, m)
  <2>1. new \in Seq(Nat) /\ Len(new) = Len(d) + 1 /\ Len(d) \in Nat
    BY SMT
  <2>2. \A i \in 1 .. Len(d) + 1 : new[i] = IF i <= Len(d) THEN d[i] ELSE m
    BY SMT
  <2>3. \A i \in 1 .. Len(d) : d[i] = n + i
    OBVIOUS
  <2> HIDE DEF new
  <2>4. DOMAIN new = 1 .. Len(new) /\ new = [i \in DOMAIN new |-> new[i]]
    BY SMT, <2>1
  <2>5. \A i \in 1 .. Len(new) : new[i] = n + i
    BY SMT, <2>1, <2>2, <2>3
  <2>6. new = [i \in 1 .. Len(new) |-> n + i]
    BY <2>4, <2>5
  <2> QED BY <2>1, <2>6 DEF new
\* A handler that has ended its call has sent everything.
<1>HandlerHasEnded. ASSUME NEW type \in RpcTypes, NEW n \in Int, NEW done \in BOOLEAN, NEW label, NEW behind \in Nat,
             NEW total \in Nat, Progress(type, "ended", n, done, label, behind, total),
             done => label \notin RequestLabels
      PROVE  /\ type \in {"CLIENT_STREAMING", "BIDI_STREAMING"} => done
             /\ total = IF type = "BIDI_STREAMING" THEN 2 * n + 1
                        ELSE IF type = "SERVER_STREAMING" THEN 3 ELSE 1
  <2> USE <1>HandlerHasEnded
  <2>1. CASE type \in {"CLIENT_STREAMING", "BIDI_STREAMING"}
    <3>1. /\ label \notin {"OnRequest", "OnReadsDone"} => behind = 0
          /\ total = (IF type = "CLIENT_STREAMING" THEN 0
                      ELSE IF label = "OnRequest" THEN 2 * n - 2 ELSE 2 * n)
                       + (IF done THEN 1 ELSE 0) + behind
          /\ "ended" = StreamState(done, label, behind)
      BY SMT, <2>1, ProgressOfStream
    <3>2. done
      BY SMT, <3>1 DEF StreamState
    <3>3. label \notin {"OnRequest", "OnReadsDone"}
      BY SMT, <3>2 DEF RequestLabels
    <3> QED BY SMT, <2>1, <3>1, <3>2, <3>3
  <2>2. CASE type \in {"NORMAL_RPC", "SERVER_STREAMING"}
    <3> DEFINE all == IF type = "NORMAL_RPC" THEN 1 ELSE 3
    <3>1. total = SingleTotal(all, label, behind) /\ "ended" = SingleState(all, label, behind)
      BY SMT, <2>2, ProgressOfSingle
    <3>2. total = all
      BY SMT, <3>1 DEF SingleTotal, SingleState
    <3> QED BY SMT, <2>2, <3>2
  <2> QED BY <2>1, <2>2 DEF RpcTypes
\* NEW_CONNECTION and DONE come back from gRPC.
<1>OtherTagDelivery. ASSUME NumEventThreads = 1, Healthy, TypeInv', fault' = "none", DeliveryInv, NEW x \in Rpcs, OtherTag(x)
      PROVE  DeliveryInv'
  <2> USE <1>OtherTagDelivery
  <2>1. PICK e \in {"NEW_CONNECTION", "DONE"}, ok \in BOOLEAN : RunCompletionQueue(x, e, ok)
    BY DEF OtherTag
  <2>2. TypeInv /\ e \in CqEvents /\ e \notin {"READ", "WRITE", "FINISH"}
    BY SMT DEF Healthy, CqEvents
  <2>3. TagReturned(x, e, ok)
    BY <2>1, <2>2, <1>RunCompletionQueueEffect
  <2>4. UNCHANGED <<clientVars, replied>>
    BY DEF OtherTag
  <2>5. ASSUME NEW r \in Rpcs PROVE ServerKeeps(r)
    <3>1. HandlerStateKept(r) /\ ThreadKept(r) /\ ("READ" \in ops'[r] => "READ" \in ops[r])
      <4>1. e # "READ"
        BY SMT, <2>2
      <4> QED BY <2>2, <2>3, <2>4, <4>1, <1>TagKeepsOthers
    <3>2. ops'[r] \cap {"WRITE", "FINISH"} = ops[r] \cap {"WRITE", "FINISH"}
      <4>1. ops'[r] = ops[r] \/ ops'[r] = ops[r] \ {e}
        BY <2>3 DEF TagReturned
      <4> QED BY SMT, <2>2, <4>1
    <3>3. CallKept(r)
      BY <2>3, <3>2 DEF CallKept, TagReturned
    <3>4. Delivering(r)
      BY DEF DeliveryInv, Delivering
    <3> QED BY <2>2, <2>4, <3>1, <3>3, <3>4, KeptKeeps
  <2> QED BY <2>4, <2>5, ServerKeepsDelivery
\* There are no more requests: the handler is going to be told when it has all of
\* them, or when nobody waits for its answer.
<1>RequestsEndDelivery. ASSUME NumEventThreads = 1, Healthy, TypeInv', fault' = "none", DeliveryInv, NEW x \in Rpcs, RequestsEnd(x)
      PROVE  DeliveryInv'
  <2> USE <1>RequestsEndDelivery
  <2>1. /\ RunCompletionQueue(x, "READ", FALSE) /\ UNCHANGED <<clientVars, replied>>
        /\ call[x] = "closed" \/ (half_closed /\ uplink = 0)
    BY DEF RequestsEnd
  <2>2. TypeInv /\ "READ" \in CqEvents /\ FALSE \in BOOLEAN
    BY SMT DEF Healthy, CqEvents
  <2>3. TagReturned(x, "READ", FALSE)
    BY <2>1, <2>2, <1>RunCompletionQueueEffect
  <2>4. ASSUME NEW r \in Rpcs PROVE CallKept(r) /\ requests'[r] = requests[r] /\ method'[r] = method[r]
    <3>1. ops'[r] = ops[r] \/ ops'[r] = ops[r] \ {"READ"}
      BY <2>3 DEF TagReturned
    <3>2. ops'[r] \cap {"WRITE", "FINISH"} = ops[r] \cap {"WRITE", "FINISH"}
      BY SMT, <3>1
    <3> QED BY <2>3, <3>2 DEF CallKept, TagReturned
  <2>5. ASSUME NEW r \in Rpcs PROVE ServerKeeps(r)
    <3>1. Delivering(r)
      BY DEF DeliveryInv, Delivering
    <3>2. CASE r # x
      <4>1. HandlerStateKept(r) /\ ThreadKept(r) /\ ("READ" \in ops'[r] => "READ" \in ops[r])
        BY <2>1, <2>2, <2>3, <3>2, <1>TagKeepsOthers
      <4> QED BY <2>1, <2>2, <2>4, <3>1, <4>1, KeptKeeps
    <3>3. CASE r = x
      <4>1. HandlerProgress(r)'
        BY <2>1, <2>2, <2>3, <3>1, <3>3, <1>ReadReturned DEF Delivering
      <4>2. Matched(r)' <=> Matched(r)
        BY <2>3 DEF Matched, TagReturned
      <4>3. ASSUME Matched(r) PROVE CallProgress(r)'
        <5>1. CallProgress(r)
          BY <3>1, <4>3 DEF Delivering
        <5>2. Waiting => half_closed /\ uplink = 0
          <6>1. Waiting => call[r] = "open"
            BY <5>1 DEF CallProgress
          <6> QED BY SMT, <2>1, <3>3, <6>1
        <5>3. /\ stream' = stream /\ rpc_type' = rpc_type /\ uplink' = uplink /\ written' = written
              /\ received' = received /\ downlink' = downlink /\ half_closed' = half_closed
              /\ (Waiting' <=> Waiting) /\ (WritesStream' <=> WritesStream)
          BY <2>1 DEF clientVars, Waiting, WritesStream
        <5>4. "FINISH" \in ops'[r] <=> "FINISH" \in ops[r]
          BY <2>4 DEF CallKept
        <5> QED BY <2>4, <5>1, <5>2, <5>3, <5>4 DEF CallProgress, CallKept
      <4> QED BY <4>1, <4>2, <4>3 DEF ServerKeeps
    <3> QED BY <3>2, <3>3
  <2> QED BY <2>1, <2>5, ServerKeepsDelivery
\* A read, a write or a finish completes: it is one of the one call of the client.
<1>TagOfTheCall. ASSUME NumEventThreads = 1, Healthy, TypeInv', replied' = replied, NEW x \in Rpcs,
             NEW e \in {"READ", "WRITE", "FINISH"}, NEW ok \in BOOLEAN, TagReturned(x, e, ok), DeliveryInv
      PROVE  /\ \A r \in Rpcs : HandlerProgress(r)' /\ (Matched(r)' <=> Matched(r))
             /\ Matched(x) /\ CallProgress(x) /\ \A r \in Rpcs : Matched(r) => r = x
  <2> USE <1>TagOfTheCall
  <2>1. TypeInv /\ e \in CqEvents
    BY SMT DEF Healthy, CqEvents
  <2>2. ASSUME NEW r \in Rpcs PROVE HandlerProgress(r)'
    <3>1. HandlerProgress(r)
      BY DEF DeliveryInv
    <3>2. CASE r # x \/ e # "READ"
      <4>1. HandlerStateKept(r) /\ ThreadKept(r) /\ ("READ" \in ops'[r] => "READ" \in ops[r])
        BY <2>1, <3>2, <1>TagKeepsOthers
      <4> QED BY <2>1, <3>1, <4>1, KeptProgress
    <3>3. CASE r = x /\ e = "READ"
      BY <3>1, <3>3, <1>ReadReturned
    <3> QED BY <3>2, <3>3
  <2>3. \A r \in Rpcs : Matched(r)' <=> Matched(r)
    BY DEF Matched, TagReturned
  <2>4. Matched(x)
    BY <1>OperationsOfCalls DEF TagReturned
  <2> QED BY <2>2, <2>3, <2>4 DEF DeliveryInv
\* A request arrives at the server, and is going to be handed to the handler.
<1>RequestArrivesDelivery. ASSUME NumEventThreads = 1, Healthy, TypeInv', fault' = "none", DeliveryInv, NEW x \in Rpcs,
             RequestArrives(x)
      PROVE  DeliveryInv'
  <2> USE <1>RequestArrivesDelivery
  <2>1. /\ RunCompletionQueue(x, "READ", TRUE) /\ uplink > 0 /\ uplink' = uplink - 1
        /\ UNCHANGED <<rpc_type, stream, op, written, half_closed, downlink, received, status, replied>>
    BY DEF RequestArrives
  <2>2. TypeInv /\ "READ" \in {"READ", "WRITE", "FINISH"} /\ TRUE \in BOOLEAN
    BY SMT DEF Healthy
  <2>3. TagReturned(x, "READ", TRUE)
    BY <2>1, <2>2, <1>RunCompletionQueueEffect
  <2>4. /\ \A r \in Rpcs : HandlerProgress(r)' /\ (Matched(r)' <=> Matched(r))
        /\ Matched(x) /\ CallProgress(x) /\ \A r \in Rpcs : Matched(r) => r = x
    BY <2>1, <2>2, <2>3, <1>TagOfTheCall
  <2>5. ClientTypeOK /\ StreamsOK /\ HandlerProgress(x)
    BY DEF DeliveryInv
  <2>6. uplink \in Nat /\ uplink' \in Nat /\ uplink = uplink' + 1 /\ uplink # 0
    BY SMT, <2>1, <2>5 DEF ClientTypeOK
  <2>7. (WritesStream' <=> WritesStream) /\ (Waiting' <=> Waiting)
    BY <2>1 DEF WritesStream, Waiting
  <2>8. ClientTypeOK'
    BY <2>1, <2>5, <2>6 DEF ClientTypeOK
  <2>9. StreamsOK'
    BY <2>1, <2>5, <2>6, <2>7 DEF StreamsOK, ResponsesTo
  <2>10. CallProgress(x)'
    <3>1. /\ requests'[x] = requests[x] + 1 /\ requests[x] \in Nat
          /\ method'[x] = method[x] /\ call'[x] = call[x] /\ sent'[x] = sent[x]
          /\ x \in status_sent' <=> x \in status_sent
      BY <2>2, <2>3 DEF TagReturned, TypeInv, TypeOK, GrpcTypeOK
    <3>2. WritesStream => requests'[x] + uplink' = written
      <4>1. WritesStream => requests[x] + uplink = written
        BY <2>4 DEF CallProgress
      <4>2. ASSUME NEW m \in Nat, NEW n \in Nat PROVE (m + 1) + n = m + (n + 1)
        BY SMT
      <4> QED BY <2>6, <3>1, <4>1, <4>2
    <3>3. /\ ops'[x] \cap {"WRITE", "FINISH"} = ops[x] \cap {"WRITE", "FINISH"}
          /\ "FINISH" \in ops'[x] <=> "FINISH" \in ops[x]
      <4>1. ops'[x] = ops[x] \ {"READ"}
        BY <2>3 DEF TagReturned
      <4> QED BY SMT, <4>1
    <3>4. ~(Waiting /\ WritesStream /\ ToldAll(x)')
      <4>1. ToldAll(x)' => ToldAll(x)
        BY <2>1, <2>2, <2>3, <2>5, <1>ReadReturned
      <4> QED BY <2>4, <2>6, <4>1 DEF CallProgress
    <3> QED BY <2>1, <2>4, <2>7, <3>1, <3>2, <3>3, <3>4 DEF CallProgress
  <2> QED BY <2>4, <2>8, <2>9, <2>10, DeliveryNext
\* gRPC has a response or the status of a call, not both, and it has the status when
\* its tag is outstanding.
<1>OneOperation. ASSUME NumEventThreads = 1, Healthy, NEW r \in Rpcs
      PROVE  /\ "WRITE" \in ops[r] => r \notin status_sent /\ "FINISH" \notin ops[r]
             /\ "FINISH" \in ops[r] => r \in status_sent
  <2> USE <1>OneOperation
  <2>1. \A f \in {"WRITE", "FINISH"} : f \in ops[r] => f \in pending[r]
    <3>1. SameQueue(r)
      BY OneQueue DEF Healthy
    <3>2. {"WRITE", "FINISH"} \subseteq CqEvents
      BY SMT DEF CqEvents
    <3> QED BY <3>1, <3>2 DEF Healthy, EventsInv, FlagsInv, Outstanding
  <2>2. "FINISH" \in pending[r] => r \in status_sent
    BY CallNow DEF CallOK, HandlerOK
  <2>3. r \in status_sent => "WRITE" \notin pending[r]
    BY CallNow DEF CallOK, FinishOK
  <2> QED BY <2>1, <2>2, <2>3
\* A response leaves the server.
<1>ResponseLeavesDelivery. ASSUME NumEventThreads = 1, Healthy, TypeInv', fault' = "none", DeliveryInv, NEW x \in Rpcs,
             ResponseLeaves(x)
      PROVE  DeliveryInv'
  <2> USE <1>ResponseLeavesDelivery
  <2>1. /\ RunCompletionQueue(x, "WRITE", TRUE)
        /\ UNCHANGED <<rpc_type, stream, op, written, uplink, half_closed, received, status, replied>>
        /\ Waiting => downlink' = Append(downlink, sent[x])
        /\ ~Waiting => downlink' = downlink
    BY DEF ResponseLeaves, Waiting
  <2>2. TypeInv /\ "WRITE" \in {"READ", "WRITE", "FINISH"} /\ TRUE \in BOOLEAN
    BY SMT DEF Healthy
  <2>3. TagReturned(x, "WRITE", TRUE)
    BY <2>1, <2>2, <1>RunCompletionQueueEffect
  <2>4. /\ \A r \in Rpcs : HandlerProgress(r)' /\ (Matched(r)' <=> Matched(r))
        /\ Matched(x) /\ CallProgress(x) /\ \A r \in Rpcs : Matched(r) => r = x
    BY <2>1, <2>2, <2>3, <1>TagOfTheCall
  <2>5. ClientTypeOK /\ StreamsOK
    BY DEF DeliveryInv
  <2>6. (WritesStream' <=> WritesStream) /\ (Waiting' <=> Waiting)
    BY <2>1 DEF WritesStream, Waiting
  <2>7. x \notin status_sent /\ "FINISH" \notin ops[x] /\ "WRITE" \in ops[x]
    BY <2>3, <1>OneOperation DEF TagReturned
  <2>8. /\ requests'[x] = requests[x] /\ method'[x] = method[x] /\ call'[x] = call[x] /\ sent'[x] = sent[x]
        /\ x \notin status_sent'
    <3>1. "WRITE" # "READ"
      BY SMT
    <3> QED BY <2>3, <2>7, <3>1 DEF TagReturned
  <2>9. ToldAll(x)' => ToldAll(x)
    <3>1. "WRITE" # "READ" /\ "WRITE" \in CqEvents
      BY SMT DEF CqEvents
    <3>2. HandlerStateKept(x) /\ ThreadKept(x)
      BY <2>1, <2>2, <2>3, <3>1, <1>TagKeepsOthers
    <3> QED BY <3>2 DEF ToldAll, HandlerStateKept, ThreadKept, Label
  <2>10. ops'[x] \cap {"WRITE", "FINISH"} = {}
    <3>1. ops'[x] = ops[x] \ {"WRITE"}
      BY <2>3 DEF TagReturned
    <3> QED BY SMT, <2>7, <3>1
  <2>11. CASE ~Waiting
    <3>1. ClientTypeOK' /\ StreamsOK'
      BY <2>1, <2>5, <2>6, <2>11 DEF ClientTypeOK, StreamsOK, ResponsesTo
    <3>2. CallProgress(x)'
      BY <2>1, <2>4, <2>6, <2>8, <2>11 DEF CallProgress
    <3> QED BY <2>4, <3>1, <3>2, DeliveryNext
  <2>12. CASE Waiting
    <3>1. sent[x] = received + Len(downlink) + 1
      <4>1. ops[x] \cap {"WRITE", "FINISH"} # {}
        BY <2>7
      <4> QED BY <2>4, <2>12, <4>1 DEF CallProgress
    <3>2. /\ downlink \in Seq(Nat) /\ received \in Nat /\ sent[x] \in Nat
          /\ downlink = [i \in 1 .. Len(downlink) |-> received + i]
      BY <2>2, <2>5 DEF ClientTypeOK, StreamsOK, TypeInv, TypeOK, RpcTypeOK
    <3>3. /\ downlink' \in Seq(Nat) /\ Len(downlink') = Len(downlink) + 1
          /\ downlink' = [i \in 1 .. Len(downlink') |-> received + i]
      <4> DEFINE m == sent[x]
      <4>1. m = received + Len(downlink) + 1 /\ m \in Nat
        BY <3>1, <3>2
      <4>2. downlink' = Append(downlink, m)
        BY <2>1, <2>12
      <4> HIDE DEF m
      <4>3. /\ Append(downlink, m) \in Seq(Nat) /\ Len(Append(downlink, m)) = Len(downlink) + 1
            /\ Append(downlink, m) = [i \in 1 .. Len(Append(downlink, m)) |-> received + i]
        BY SMT, <3>2, <4>1, <1>NumbersAppended
      <4> QED BY <4>2, <4>3
    <3>4. op # "finished" /\ status # "ok"
      BY <2>5, <2>12 DEF StreamsOK, Waiting
    <3>5. ClientTypeOK'
      BY <2>1, <2>5, <3>3 DEF ClientTypeOK
    <3>6. downlink' = [i \in 1 .. Len(downlink') |-> received' + i]
      BY <2>1, <3>3
    <3>7. StreamsOK'
      BY <2>1, <2>5, <2>6, <3>4, <3>6 DEF StreamsOK
    <3>8. sent'[x] = received' + Len(downlink') + (IF ops'[x] \cap {"WRITE", "FINISH"} # {} THEN 1 ELSE 0)
      <4>1. sent'[x] = received' + Len(downlink') + 0
        <5>1. received' = received /\ sent'[x] = sent[x]
          BY <2>1, <2>8
        <5> QED BY SMT, <3>1, <3>2, <3>3, <5>1
      <4> QED BY <2>10, <4>1
    <3>9. CallProgress(x)'
      BY <2>1, <2>4, <2>6, <2>8, <2>9, <2>12, <3>8 DEF CallProgress
    <3> QED BY <2>4, <3>5, <3>7, <3>9, DeliveryNext
  <2> QED BY <2>11, <2>12
\* When gRPC has the status of a call, it has or had everything before it, and the
\* handler has got all requests.
<1>EverythingSent. ASSUME NumEventThreads = 1, Overrun = "nothing", Healthy, RepliedOK, NEW r \in Rpcs, r \in status_sent,
             HandlerProgress(r)
      PROVE  /\ StreamsRequests(r) => r \in reads_done
             /\ sent[r] = IF RpcType[method[r]] = "BIDI_STREAMING" THEN 2 * requests[r] + 1
                          ELSE IF RpcType[method[r]] = "SERVER_STREAMING" THEN 3 ELSE 1
  <2> USE <1>EverythingSent
  <2> DEFINE type == RpcType[method[r]]
             done == r \in reads_done
             n == Taken(r)
             label == Label(r)
             total == sends[r]
             behind == RepliedFor(r)
  <2>1. CallOK(r, label, Doing(r).item)
    BY CallNow
  <2>2. handler[r] = "ended" /\ label # "Perform" /\ send_queue[r] = <<>>
    BY <2>1 DEF CallOK, FinishOK, LastFinishes, FinishTaken
  <2>3. done => ~Outstanding(r, "READ") /\ label \notin RequestLabels
    BY <2>1 DEF CallOK, ReadsOK
  <2>4. total = sent[r]
    <3>1. total = sent[r] + Len(send_queue[r])
      BY <2>1, <2>2 DEF CallOK, NumberOK
    <3>2. sent[r] \in Nat
      BY ProgressTypes DEF Healthy
    <3> QED BY SMT, <2>2, <3>1, <3>2
  <2>5. type \in RpcTypes /\ n \in Int /\ done \in BOOLEAN /\ behind \in Nat /\ total \in Nat
    BY ProgressTypes DEF Healthy
  <2>6. Progress(type, "ended", n, done, label, behind, total)
    BY <2>2 DEF HandlerProgress
  <2>7. StreamsRequests(r) <=> type \in {"CLIENT_STREAMING", "BIDI_STREAMING"}
    BY DEF StreamsRequests
  <2>8. done => n = requests[r]
    BY <2>3, ReadsQueued DEF Taken, Outstanding, Healthy
  <2>9. /\ type \in {"CLIENT_STREAMING", "BIDI_STREAMING"} => done
        /\ total = IF type = "BIDI_STREAMING" THEN 2 * n + 1
                   ELSE IF type = "SERVER_STREAMING" THEN 3 ELSE 1
    <3>1. done => label \notin RequestLabels
      BY <2>3
    <3> HIDE DEF type, done, n, label, total, behind
    <3> QED BY <2>5, <2>6, <3>1, <1>HandlerHasEnded
  <2>10. type = "BIDI_STREAMING" => n = requests[r]
    BY <2>8, <2>9
  <2> QED BY <2>4, <2>7, <2>9, <2>10
\* The status leaves the server, with the response if there is just one.
<1>StatusLeavesDelivery. ASSUME NumEventThreads = 1, Overrun = "nothing", Healthy, TypeInv', RepliedOK, fault' = "none",
             DeliveryInv, NEW x \in Rpcs, StatusLeaves(x)
      PROVE  DeliveryInv'
  <2> USE <1>StatusLeavesDelivery
  <2>1. /\ RunCompletionQueue(x, "FINISH", TRUE)
        /\ UNCHANGED <<rpc_type, stream, op, written, uplink, half_closed, received, replied>>
        /\ Waiting => /\ status' = "ok"
                      /\ downlink' = IF rpc_type \in {"NORMAL_RPC", "CLIENT_STREAMING"}
                                     THEN Append(downlink, sent[x]) ELSE downlink
        /\ ~Waiting => downlink' = downlink /\ status' = status
    BY DEF StatusLeaves, Waiting
  <2>2. TypeInv /\ "FINISH" \in {"READ", "WRITE", "FINISH"} /\ TRUE \in BOOLEAN
    BY SMT DEF Healthy
  <2>3. TagReturned(x, "FINISH", TRUE)
    BY <2>1, <2>2, <1>RunCompletionQueueEffect
  <2>4. /\ \A r \in Rpcs : HandlerProgress(r)' /\ (Matched(r)' <=> Matched(r))
        /\ Matched(x) /\ CallProgress(x) /\ \A r \in Rpcs : Matched(r) => r = x
    BY <2>1, <2>2, <2>3, <1>TagOfTheCall
  <2>5. ClientTypeOK /\ StreamsOK /\ HandlerProgress(x)
    BY DEF DeliveryInv
  <2>6. WritesStream' <=> WritesStream
    BY <2>1 DEF WritesStream
  <2>7. ~Waiting'
    <3>1. Waiting => status' # "none"
      BY SMT, <2>1
    <3> QED BY <2>1, <3>1 DEF Waiting
  <2>8. CallProgress(x)'
    <3>1. requests'[x] = requests[x] /\ method'[x] = method[x]
      <4>1. "FINISH" # "READ"
        BY SMT
      <4> QED BY <2>3, <4>1 DEF TagReturned
    <3> QED BY <2>1, <2>4, <2>6, <2>7, <3>1 DEF CallProgress
  <2>9. CASE ~Waiting
    <3>1. ClientTypeOK' /\ StreamsOK'
      BY <2>1, <2>5, <2>6, <2>9 DEF ClientTypeOK, StreamsOK, ResponsesTo
    <3> QED BY <2>4, <2>8, <3>1, DeliveryNext
  <2>10. CASE Waiting
    <3>1. "FINISH" \in ops[x] /\ x \in status_sent
      BY <2>3, <1>OneOperation DEF TagReturned
    <3>2. sent[x] = received + Len(downlink) + 1
      <4>1. ops[x] \cap {"WRITE", "FINISH"} # {}
        BY <3>1
      <4> QED BY <2>4, <2>10, <4>1 DEF CallProgress
    <3>3. RpcType[method[x]] = rpc_type /\ (WritesStream <=> StreamsRequests(x))
      BY <2>4 DEF CallProgress, WritesStream, StreamsRequests
    <3>4. /\ WritesStream => x \in reads_done
          /\ sent[x] = IF rpc_type = "BIDI_STREAMING" THEN 2 * requests[x] + 1
                       ELSE IF rpc_type = "SERVER_STREAMING" THEN 3 ELSE 1
      BY <2>5, <3>1, <3>3, <1>EverythingSent
    <3>5. WritesStream => uplink = 0 /\ requests[x] + uplink = written
      BY <2>4, <2>10, <3>4 DEF CallProgress, ToldAll
    <3>6. /\ downlink \in Seq(Nat) /\ received \in Nat /\ sent[x] \in Nat /\ requests[x] \in Nat
          /\ downlink = [i \in 1 .. Len(downlink) |-> received + i]
          /\ rpc_type \in RpcTypes
      BY <2>2, <2>5 DEF ClientTypeOK, StreamsOK, TypeInv, TypeOK, RpcTypeOK, GrpcTypeOK
    <3>7. rpc_type = "BIDI_STREAMING" => requests[x] = written
      <4>1. rpc_type = "BIDI_STREAMING" => WritesStream
        BY SMT DEF WritesStream
      <4> QED BY SMT, <3>5, <3>6, <4>1
    <3>8. /\ downlink' \in Seq(Nat)
          /\ downlink' = [i \in 1 .. Len(downlink') |-> received + i]
          /\ Len(downlink') = IF rpc_type \in {"NORMAL_RPC", "CLIENT_STREAMING"}
                              THEN Len(downlink) + 1 ELSE Len(downlink)
      <4> DEFINE m == sent[x]
      <4>1. m = received + Len(downlink) + 1 /\ m \in Nat
        BY <3>2, <3>6
      <4>2. downlink' = IF rpc_type \in {"NORMAL_RPC", "CLIENT_STREAMING"}
                        THEN Append(downlink, m) ELSE downlink
        BY <2>1, <2>10
      <4> HIDE DEF m
      <4>3. /\ Append(downlink, m) \in Seq(Nat) /\ Len(Append(downlink, m)) = Len(downlink) + 1
            /\ Append(downlink, m) = [i \in 1 .. Len(Append(downlink, m)) |-> received + i]
        BY SMT, <3>6, <4>1, <1>NumbersAppended
      <4> QED BY <3>6, <4>2, <4>3
    <3>9. received + Len(downlink') = ResponsesTo(written)
      <4> DEFINE m == sent[x]
                 k == requests[x]
                 old == Len(downlink)
                 new == Len(downlink')
      <4>1. /\ m = received + old + 1 /\ old \in Nat /\ k \in Nat
            /\ m = IF rpc_type = "BIDI_STREAMING" THEN 2 * k + 1
                   ELSE IF rpc_type = "SERVER_STREAMING" THEN 3 ELSE 1
            /\ rpc_type = "BIDI_STREAMING" => k = written
            /\ new = IF rpc_type \in {"NORMAL_RPC", "CLIENT_STREAMING"} THEN old + 1 ELSE old
        <5>1. old \in Nat
          BY SMT, <3>6
        <5> QED BY <3>2, <3>4, <3>6, <3>7, <3>8, <5>1
      <4> HIDE DEF m, k, old, new
      <4>2. received + new = IF rpc_type = "BIDI_STREAMING" THEN 2 * k
                             ELSE IF rpc_type = "SERVER_STREAMING" THEN 2 ELSE 1
        BY SMT, <3>6, <4>1 DEF RpcTypes
      <4> QED BY SMT, <4>1, <4>2 DEF ResponsesTo, new
    <3>10. op # "finished" /\ status' = "ok"
      BY <2>1, <2>5, <2>10 DEF StreamsOK, Waiting
    <3>11. ClientTypeOK'
      BY <2>1, <2>5, <3>8 DEF ClientTypeOK
    <3>12. StreamsOK'
      <4>1. downlink' = [i \in 1 .. Len(downlink') |-> received' + i]
        BY <2>1, <3>8
      <4>2. received' + Len(downlink') = ResponsesTo(written)' /\ (WritesStream' => uplink' = 0)
        BY <2>1, <2>6, <3>5, <3>9 DEF ResponsesTo
      <4> QED BY <2>1, <2>5, <2>6, <3>10, <4>1, <4>2 DEF StreamsOK
    <3> QED BY <2>4, <2>8, <3>11, <3>12, DeliveryNext
  <2> QED BY <2>9, <2>10
<1> QED
  BY <1>RequestArrivesDelivery, <1>RequestsEndDelivery, <1>ResponseLeavesDelivery,
     <1>StatusLeavesDelivery, <1>OtherTagDelivery DEF CompletionQueueStep

-----------------------------------------------------------------------------
(* The beginning and the end *)

\* Before Server::Start nothing was written, sent or read.
LEMMA InitDelivery ==
  ASSUME NumEventThreads = 1, CSInit
  PROVE  DeliveryInv
<1>1. /\ call = [r \in Rpcs |-> "none"] /\ ops = [r \in Rpcs |-> {}] /\ requests = [r \in Rpcs |-> 0]
      /\ sends = [r \in Rpcs |-> 0] /\ queue = [q \in EventQueues |-> <<>>]
      /\ thread = [q \in EventQueues |-> Idle] /\ handler = [r \in Rpcs |-> "none"] /\ reads_done = {}
  BY DEF CSInit, Init, GrpcInit, RpcInit, ServiceInit
<1>2. /\ rpc_type \in RpcTypes /\ stream = FALSE /\ op = "none" /\ written = 0 /\ uplink = 0
      /\ downlink = <<>> /\ received = 0 /\ status = "none"
  BY DEF CSInit, ClientInit, RpcTypes
<1>3. EventThread \in EventQueues
  BY OneEventQueue
<1>4. ClientTypeOK
  BY SMT, <1>2 DEF ClientTypeOK
<1>5. StreamsOK
  BY SMT, <1>2 DEF StreamsOK
<1>6. NotConnected
  BY SMT, <1>2 DEF NotConnected
<1>7. ASSUME NEW r \in Rpcs PROVE ~Matched(r)
  BY SMT, <1>1 DEF Matched
<1>8. ASSUME NEW r \in Rpcs PROVE HandlerProgress(r)
  <2>1. thread[EventThread] = Idle /\ queue[EventThread] = <<>> /\ Idle.pc = "idle" /\ Idle.ev = "DONE"
    BY SMT, <1>1, <1>3 DEF Idle
  <2>2. ~BusyOn(EventThread, r)
    BY SMT, <2>1 DEF BusyOn, Busy
  <2>3. Doing(r) = Idle /\ Label(r) = "idle" /\ RepliedFor(r) = 0
    BY <2>1, <2>2 DEF Doing, Label, RepliedFor
  <2>4. ~ReadQueued(r, TRUE)
    BY SMT, <2>1 DEF ReadQueued
  <2>5. Taken(r) = 0
    BY <1>1, <2>4 DEF Taken
  <2>6. Progress(RpcType[method[r]], handler[r], Taken(r), r \in reads_done, Label(r), RepliedFor(r),
                 sends[r])
    <3> DEFINE type == RpcType[method[r]]
               done == r \in reads_done
               n == Taken(r)
               label == Label(r)
               behind == RepliedFor(r)
               total == sends[r]
    <3>1. n = 0 /\ behind = 0 /\ total = 0 /\ label = "idle" /\ handler[r] = "none"
      BY <1>1, <2>3, <2>5
    <3> HIDE DEF type, done, n, label, behind, total
    <3>2. label \notin Callbacks /\ behind \in Nat
      BY SMT, <3>1 DEF Callbacks
    <3>3. Progress(type, "none", n, done, label, behind, total)
      BY SMT, <3>1, <3>2, ProgressOfNone
    <3> QED BY <3>1, <3>3 DEF type, done, n, label, behind, total
  <2>7. ReadsByEvent(r)
    <3>1. ~Outstanding(r, "READ")
      <4>1. ops[r] = {} /\ \A q \in EventQueues : queue[q] = <<>>
        BY <1>1
      <4>2. ~Queued(r, "READ")
        BY SMT, <4>1 DEF Queued, QueuedIn
      <4> QED BY <4>1, <4>2 DEF Outstanding
    <3>2. Label(r) \notin {"OnRequest", "OnReadsDone", "Read"} /\ Doing(r).ev # "READ"
      BY SMT, <2>1, <2>3
    <3> QED BY <3>1, <3>2 DEF ReadsByEvent
  <2> QED BY <2>6, <2>7 DEF HandlerProgress
<1> QED BY <1>4, <1>5, <1>6, <1>7, <1>8 DEF DeliveryInv

\* A call that has ended with OK left nothing behind.
LEMMA DeliveryInvDelivers ==
  ASSUME TypeInv, DeliveryInv
  PROVE  Delivered
<1>1. StreamsOK /\ ClientTypeOK
  BY DEF DeliveryInv
<1>2. downlink = [i \in 1 .. Len(downlink) |-> received + i]
  BY <1>1 DEF StreamsOK
<1>3. ASSUME op = "finished", status = "ok"
      PROVE  /\ received = ResponsesTo(written)
             /\ WritesStream => \E r \in Rpcs : requests[r] = written
  <2>1. downlink = <<>> /\ received + Len(downlink) = ResponsesTo(written) /\ (WritesStream => uplink = 0)
    BY <1>1, <1>3 DEF StreamsOK
  <2>2. received + Len(downlink) = received
    BY SMT, <1>1, <2>1 DEF ClientTypeOK
  <2>3. PICK r \in Rpcs : Matched(r)
    BY <1>3 DEF DeliveryInv, NotConnected
  <2>4. WritesStream => requests[r] + uplink = written
    BY <2>3 DEF DeliveryInv, CallProgress
  <2>5. requests[r] \in Nat
    BY <2>3 DEF TypeInv, TypeOK, GrpcTypeOK
  <2>6. WritesStream => requests[r] = written
    BY SMT, <2>1, <2>4, <2>5
  <2> QED BY <2>1, <2>2, <2>6
<1> QED BY <1>2, <1>3 DEF Delivered
=============================================================================
