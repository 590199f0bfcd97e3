---------------------------- MODULE StreamClient ----------------------------
(***************************************************************************)
(* The synchronous Client of client.h in its four specialisations, and the *)
(* stream that gRPC gives it.  (The timeout and the retries of a unary     *)
(* Write are in module Client.)  The stream is external code: it holds up  *)
(* to Window messages in each direction, and an operation that blocks      *)
(* returns when the stream lets it.                                        *)
(***************************************************************************)
EXTENDS Naturals, Sequences

CONSTANTS
  Window,     \* bound: messages on their way in one direction
  MaxWrites   \* bound: requests that the application writes

ASSUME WindowAssumption == Window \in Nat \ {0}

VARIABLES
  rpc_type,     \* the specialisation of Client
  stream,       \* client_writer_, client_reader_ or client_reader_writer_ is set
  op,           \* the operation that the application is in
  written,      \* requests that the stream has taken
  uplink,       \* requests on their way to the server
  half_closed,  \* no more requests will follow
  downlink,     \* responses on their way to the client
  received,     \* the last response that the application got
  status        \* the status of the call, as gRPC has it for the client

clientVars == <<rpc_type, stream, op, written, uplink, half_closed, downlink, received, status>>

\* The operations that block; Write of a unary client waits for the status, too.
Blocking == {"Write", "StreamRead", "StreamFinish"}

ClientInit ==
  /\ rpc_type \in {"NORMAL_RPC", "CLIENT_STREAMING", "SERVER_STREAMING", "BIDI_STREAMING"}
  /\ stream = FALSE
  /\ op = "none"
  /\ written = 0
  /\ uplink = 0
  /\ half_closed = FALSE
  /\ downlink = <<>>
  /\ received = 0
  /\ status = "none"

WritesStream == rpc_type \in {"CLIENT_STREAMING", "BIDI_STREAMING"}
ReadsStream == rpc_type \in {"SERVER_STREAMING", "BIDI_STREAMING"}

\* InstantiateClientWriterIfNeeded and InstantiateClientReaderWriterIfNeeded: the
\* first operation makes the stream, the later ones go on with it.
InstantiateIfNeeded == stream' = TRUE

\* The application calls an operation on the stream that may block.
Begin(operation) ==
  /\ op = "none"
  /\ InstantiateIfNeeded
  /\ op' = operation
  /\ UNCHANGED <<rpc_type, written, uplink, half_closed, downlink, received, status>>

\* gRPC takes no request after WritesDone.
BeginWrite == ~half_closed /\ written < MaxWrites /\ Begin("Write")

\* Write of a streaming client returns true, whether the stream takes the
\* request or is broken.
WriteReturns ==
  /\ op = "Write"
  /\ \/ status = "none" /\ uplink < Window /\ uplink' = uplink + 1 /\ written' = written + 1
     \/ status # "none" /\ UNCHANGED <<uplink, written>>
  /\ op' = "none"
  /\ UNCHANGED <<rpc_type, stream, half_closed, downlink, received, status>>

StreamWritesDone ==
  /\ op = "none" /\ ~half_closed
  /\ InstantiateIfNeeded
  /\ half_closed' = TRUE
  /\ UNCHANGED <<rpc_type, op, written, uplink, downlink, received, status>>

\* StreamRead gets the next response, or returns false when there will be none.
ReadReturns ==
  /\ op = "StreamRead"
  /\ \/ /\ downlink # <<>>
        /\ received' = Head(downlink) /\ downlink' = Tail(downlink)
     \/ /\ downlink = <<>> /\ status # "none"
        /\ UNCHANGED <<received, downlink>>
  /\ op' = "none"
  /\ UNCHANGED <<rpc_type, stream, written, uplink, half_closed, status>>

\* StreamFinish gets the status, which gRPC gives only when a stream of responses
\* has been read; a single response comes with it.
FinishReturns ==
  /\ op = "StreamFinish"
  /\ status # "none" /\ (ReadsStream => downlink = <<>>)
  /\ op' = "finished"
  /\ received' = IF downlink # <<>> THEN Head(downlink) ELSE received
  /\ downlink' = <<>>
  /\ UNCHANGED <<rpc_type, stream, written, uplink, half_closed, status>>

\* The single request of a call starts it: InstantiateClientReader, after which
\* Write returns, and BlockingUnaryCall, which waits for the status.
WriteSingle(then) ==
  /\ op = "none"
  /\ stream' = TRUE
  /\ written' = 1
  /\ half_closed' = TRUE
  /\ op' = then
  /\ UNCHANGED <<rpc_type, uplink, downlink, received, status>>

\* The operations of the specialisations.
UnaryWrite ==
  rpc_type = "NORMAL_RPC" /\ WriteSingle("StreamFinish")

ClientStreamingClient ==
  /\ rpc_type = "CLIENT_STREAMING"
  /\ BeginWrite \/ StreamWritesDone \/ Begin("StreamFinish")

ServerStreamingWrite ==
  rpc_type = "SERVER_STREAMING" /\ WriteSingle("none")

\* StreamRead and StreamFinish CHECK(client_reader_).
ServerStreamingRead ==
  /\ rpc_type = "SERVER_STREAMING" /\ stream
  /\ Begin("StreamRead") \/ Begin("StreamFinish")

BidiStreamingClient ==
  /\ rpc_type = "BIDI_STREAMING"
  /\ BeginWrite \/ StreamWritesDone \/ Begin("StreamRead") \/ Begin("StreamFinish")

\* ~Client destroys the context of the call, and gRPC cancels the call.
Destroy ==
  /\ op = "none"
  /\ op' = "destroyed"
  /\ UNCHANGED <<rpc_type, stream, written, uplink, half_closed, downlink, received, status>>

\* The connection breaks; what was on its way to the client is lost.
ConnectionLost ==
  /\ stream /\ status = "none" /\ op # "destroyed"
  /\ status' = "unavailable"
  /\ downlink' = <<>>
  /\ UNCHANGED <<rpc_type, stream, op, written, uplink, half_closed, received>>
=============================================================================
