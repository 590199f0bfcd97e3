------------------------------- MODULE Builder -------------------------------
(***************************************************************************)
(* How a server comes to serve its methods (server.h, server.cc and the    *)
(* constructor of Service): Server::Builder collects options and handlers, *)
(* Build makes the services, Start the listeners of their methods.  The    *)
(* methods of Server that the application may call before, during and      *)
(* after that are here with their CHECKs; what runs in between is in       *)
(* module Server.  Names are sequences of characters because they are      *)
(* parsed.                                                                 *)
(***************************************************************************)
EXTENDS Integers, Sequences, FiniteSets, SequencesExt

CONSTANTS
  Characters,    \* what names are made of
  Names,         \* names that MethodName() of a handler type returns
  ThreadCounts,  \* bound: numbers of threads, what garbage can be included
  Contexts,      \* ExecutionContexts that the application may set
  MaxHandlers,   \* bound: calls of RegisterHandler
  Unset          \* an option or a context that nobody has set

ASSUME CharactersAssumption == "/" \in Characters
ASSUME NamesAssumption == \A name \in Names : name \in Seq(Characters)

VARIABLES
  options,            \* numbers of threads, in Builder::options_ and in the Server
  registered,         \* handler types in the order of RegisterHandler
  rpc_handlers,       \* Builder::rpc_handlers_: handlers by service and method
  services,           \* the rpc_handler_infos_ of every service, in map order
  listeners,          \* Rpcs that Start has created, one for a method and a queue
  phase,              \* how far the owner of the Server has got
  execution_context,  \* Server::execution_context_
  rpc_context         \* the ExecutionContext* that Rpcs were created with

builderVars == <<options, registered, rpc_handlers>>
contextVars == <<execution_context, rpc_context>>
serverVars == <<builderVars, services, listeners, phase, contextVars>>

Options == {"num_grpc_threads", "num_event_threads"}

\* The types that an RPC service method concept gives: the message types are
\* plain or wrapped in Stream.
MessageTypes == {"Message", "Stream"}
HandlerTypes == [name : Names, incoming : MessageTypes, outgoing : MessageTypes]

RpcType(incoming, outgoing) ==
  CASE incoming = "Message" /\ outgoing = "Message" -> "NORMAL_RPC"
    [] incoming = "Stream" /\ outgoing = "Message" -> "CLIENT_STREAMING"
    [] incoming = "Message" /\ outgoing = "Stream" -> "SERVER_STREAMING"
    [] incoming = "Stream" /\ outgoing = "Stream" -> "BIDI_STREAMING"

\* RpcServiceMethodTraits::StreamType.
StreamType(h) == RpcType(h.incoming, h.outgoing)

\* std::getline(stream, line, '/'): the line, and what is left of the stream.
FirstSlash(s) == SelectInSeq(s \o <<"/">>, LAMBDA c : c = "/")
Line(s) == SubSeq(s, 1, FirstSlash(s) - 1)
AfterLine(s) == SubSeq(s, FirstSlash(s) + 1, Len(s))

\* Mutant: the method is all that follows the service.
ParseToTheEnd(name) == [service |-> Line(Tail(name)), method |-> AfterLine(Tail(name))]

ParseMethodFullName(name) ==
  [service |-> Line(Tail(name)), method |-> Line(AfterLine(Tail(name)))]

\* The CHECKs of ParseMethodFullName; at(0) throws for an empty name.
NameIsValid(name) ==
  /\ name # <<>>
  /\ name[1] = "/"
  /\ LET slot == ParseMethodFullName(name) IN slot.service # <<>> /\ slot.method # <<>>

BuilderInit ==
  /\ options = [o \in Options |-> Unset]
  /\ registered = <<>>
  /\ rpc_handlers = <<>>
  /\ services = <<>>
  /\ listeners = {}
  /\ phase = "building"
  /\ execution_context = Unset
  /\ rpc_context = Unset

\* A CHECK fails, or the hardware stops the process.
Crash == phase' = "crashed" /\ UNCHANGED <<builderVars, services, listeners, contextVars>>

\* SetServerAddress and the setters for tracing store a value in the same way.
SetOption(option, n) ==
  /\ phase = "building"
  /\ options' = [options EXCEPT ![option] = n]
  /\ UNCHANGED <<registered, rpc_handlers, services, listeners, phase, contextVars>>

SetNumGrpcThreads(n) == SetOption("num_grpc_threads", n)
SetNumEventThreads(n) == SetOption("num_event_threads", n)

\* SetMaxReceiveMessageSize and SetMaxSendMessageSize, whose values only gRPC uses,
\* insist on a positive one, and EnableTracing on a build with tracing.
SetMaxMessageSize(size) == phase = "building" /\ IF size > 0 THEN UNCHANGED serverVars ELSE Crash
EnableTracing == phase = "building" /\ Crash

\* Mutant: operator[] in the place of emplace.
EmplaceOver(slot, h) == rpc_handlers' = (slot :> h) @@ rpc_handlers

\* rpc_handlers_[service].emplace(method, info) keeps what is there.
Emplace(slot, h) ==
  rpc_handlers' = [x \in DOMAIN rpc_handlers \cup {slot} |->
                     IF x \in DOMAIN rpc_handlers THEN rpc_handlers[x] ELSE h]

RegisterHandler(h) ==
  /\ phase = "building" /\ Len(registered) < MaxHandlers
  /\ IF NameIsValid(h.name)
     THEN /\ Emplace(ParseMethodFullName(h.name), h)
          /\ registered' = Append(registered, h)
          /\ UNCHANGED <<options, services, listeners, phase, contextVars>>
     ELSE Crash

\* The order of a map, the same whenever it is iterated.  Which one it is makes no
\* difference: a method is known by its place in it.
MapOrder(slots) == SetToSeq(slots)

\* Build: the constructor of Server, which adds num_grpc_threads completion queues,
\* and AddService for every service.  An option that was not set is read
\* uninitialised.
Build ==
  /\ phase = "building"
  /\ options' \in [Options -> ThreadCounts]
  /\ \A o \in Options : options[o] # Unset => options'[o] = options[o]
  /\ services' =
       [s \in {slot.service : slot \in DOMAIN rpc_handlers} |->
          LET slots == MapOrder({slot \in DOMAIN rpc_handlers : slot.service = s})
          IN  [i \in DOMAIN slots |-> rpc_handlers[slots[i]]]]
  /\ phase' = "built"
  /\ UNCHANGED <<registered, rpc_handlers, listeners, contextVars>>

\* Mutant: the context can be changed at any time.
SetContextAnyTime(c) ==
  /\ phase \in {"built", "serving", "unserved"}
  /\ execution_context' = c
  /\ UNCHANGED <<builderVars, services, listeners, phase, rpc_context>>

\* CHECK(!server_): a server that failed to start is no server.
SetExecutionContext(c) ==
  /\ phase \in {"built", "serving", "unserved"}
  /\ IF phase = "serving" THEN Crash
     ELSE /\ execution_context' = c
          /\ UNCHANGED <<builderVars, services, listeners, phase, rpc_context>>

\* The constructor of Service adds a gRPC method for every info; gRPC knows a
\* method by its index.
AddedMethods(s) == [i \in DOMAIN services[s] |-> services[s][i].name]

\* The completion queues of the server, one for a gRPC thread.
CompletionQueues == 1 .. options.num_grpc_threads

\* Mutant: the index of the method is not advanced.
StartServingAtZero(s) ==
  {[name |-> AddedMethods(s)[1], handler |-> services[s][i],
    type |-> StreamType(services[s][i]), queue |-> q]
     : i \in DOMAIN services[s], q \in CompletionQueues}

\* Service::StartServing: the factory of the i-th info makes an Rpc for every
\* completion queue, which listens there for calls of the method with index i.
StartServing(s) ==
  {[name |-> AddedMethods(s)[i], handler |-> services[s][i],
    type |-> StreamType(services[s][i]), queue |-> q]
     : i \in DOMAIN services[s], q \in CompletionQueues}

\* Start, given the phase in which BuildAndStart leaves the owner: "unserved" when
\* it returns nullptr, for instance because the address is taken.  Start does not
\* look.  Without event threads the selection of an event queue for an Rpc divides by
\* zero; an Rpc that listens where there is no server uses one that gRPC has
\* destroyed, which may stop the process and may not.
Start(started) ==
  /\ phase = "built"
  /\ \/ /\ options.num_event_threads > 0 \/ services = <<>> \/ CompletionQueues = {}
        /\ listeners' = UNION {StartServing(s) : s \in DOMAIN services}
        /\ rpc_context' = execution_context
        /\ phase' = started
        /\ UNCHANGED <<builderVars, services, execution_context>>
     \/ /\ services # <<>> /\ CompletionQueues # {}
        /\ options.num_event_threads = 0 \/ started = "unserved"
        /\ Crash

\* server_->Shutdown() needs a server.
Shutdown ==
  /\ phase \in {"built", "serving", "unserved"}
  /\ IF phase = "serving"
     THEN phase' = "stopped" /\ UNCHANGED <<builderVars, services, listeners, contextVars>>
     ELSE Crash

Done == phase \in {"crashed", "stopped"} /\ UNCHANGED serverVars

BuilderNext ==
  \/ \E n \in ThreadCounts : SetNumGrpcThreads(n) \/ SetNumEventThreads(n)
  \/ \E size \in -1 .. 1 : SetMaxMessageSize(size)
  \/ EnableTracing
  \/ \E h \in HandlerTypes : RegisterHandler(h)
  \/ \E c \in Contexts : SetExecutionContext(c)
  \/ \E started \in {"serving", "unserved"} : Start(started)
  \/ Build \/ Shutdown \/ Done

BuilderSpec == BuilderInit /\ [][BuilderNext]_serverVars

\* There is a server, or there was one until Shutdown.
Serving == phase \in {"serving", "stopped"}

\* A call reaches a handler that was registered for its method: the name that
\* gRPC routes by, the handler that the Rpc runs and the type with which the Rpc
\* reads and writes belong together, across two maps, the index of the method
\* and the type traits; no method has two.
CallsReachTheirHandler ==
  \A l \in listeners :
    /\ l.name = l.handler.name
    /\ l.type \in {"CLIENT_STREAMING", "BIDI_STREAMING"} <=> l.handler.incoming = "Stream"
    /\ l.type \in {"SERVER_STREAMING", "BIDI_STREAMING"} <=> l.handler.outgoing = "Stream"
    /\ \A k \in listeners : k.name = l.name => k.handler = l.handler

\* name has the documented structure "'/<<full service name>>/<<method name>>'"
\* (rpc_service_method_traits.h:55), as far as a third slash if there is one.
IsNamed(name, service, method) ==
  LET structure == <<"/">> \o service \o <<"/">> \o method
  IN  /\ service # <<>> /\ method # <<>>
      /\ "/" \notin ToSet(service) \cup ToSet(method)
      /\ IsPrefix(structure, name)
      /\ Len(name) > Len(structure) => name[Len(structure) + 1] = "/"

\* Handlers are filed under the service and the method that their names say.
HandlersAreFiled ==
  \A slot \in DOMAIN rpc_handlers :
    IsNamed(rpc_handlers[slot].name, slot.service, slot.method)

\* A registered handler is served on every completion queue, unless one that was
\* registered before it is for the same service and method.  A server with no gRPC
\* threads has no completion queue, and serves nothing.
FirstComesServed ==
  Serving =>
    \A i \in DOMAIN registered :
      \/ \A q \in CompletionQueues :
           \E l \in listeners : l.handler = registered[i] /\ l.queue = q
      \/ \E j \in 1 .. i - 1 : \E slot \in DOMAIN rpc_handlers :
           /\ IsNamed(registered[j].name, slot.service, slot.method)
           /\ IsNamed(registered[i].name, slot.service, slot.method)

\* The context that Rpcs have a plain pointer to is the one that the server owns:
\* SetExecutionContext never destroys a context that handlers can get.  (It can
\* destroy the one that the Rpcs of a server that failed to start point to; no call
\* comes to these.)
HandlersContextIsLive == Serving => rpc_context = execution_context
=============================================================================
