# async_grpc in TLA+

A TLA+ model of `src/async_grpc`: an asynchronous gRPC server, the clients that
go with it, and the queue they are built on. TLC checks the models on small
instances; TLAPS proves the central properties for every value of the constants.
`PROJECT.json` maps definitions to source lines and lists the runs, the mutants
(a plausible bug for each property, in a definition next to the one it
replaces), the hazards, the findings and the theorems.

## 1. The system

| Part | Source | State | Operations |
|---|---|---|---|
| Server | `server.cc`, `completion_queue_thread.cc`, `event_queue_thread.cc` | `shutting_down_`, threads, round-robin index | `Start`, `Shutdown`, the loops of completion queue and event threads |
| Service | `service.cc` | `shutting_down_` (a plain bool), `active_rpcs_` | `StartServing`, `StopServing`, `HandleEvent` and its handlers |
| Rpc, ActiveRpcs | `rpc.h` | one flag `pending_` per event, `send_queue_`, two event queue pointers; the set of active Rpcs | request, read, write, finish, clone, `IsAnyEventPending`, `GetWeakPtr` |
| Events | `events.cc`, `rpc_interface.h` | queue contents | push to an event queue, `Handle` |
| RpcHandler, Writer | `rpc_handler.h` | `weak_ptr` of a Writer | callbacks, `Send`, `Finish`, `GetWriter`, `Write`, `WritesDone` |
| BlockingQueue, Mutex | `common/blocking_queue.h`, `common/mutex.h` | `deque_`, waiting threads | push, pop, with and without timeout, `Peek`, `Size`, `WaitUntilEmpty` |
| Builder, registration | `server.h`, `server.cc`, `type_traits.h`, `service.cc` | options, handlers by service and method, the execution context | setters, `RegisterHandler`, `Build`, `SetExecutionContext` |
| Streaming clients | `client.h` | `client_context_`, the stream, whether it was made | `Write`, `StreamRead`, `StreamWritesDone`, `StreamFinish` |
| Unary client, retries | `client.h`, `retry.cc` | `client_context_`, failed attempts | `Write`, the strategies, `RetryWithStrategy` |
| AsyncClient | `async_client.h` | `callback_`, the operation under way | `WriteAsync`, one handler per event |
| CompletionQueuePool | `completion_queue_pool.cc` | queues, threads, `initialized_` | `Start`, `GetCompletionQueue`, `SetNumberCompletionQueues`, `Shutdown` |

How they interact: a completion queue thread takes a tag from gRPC. The tag is
the address of an event *inside* an Rpc object; the thread pushes that pointer
to an event queue. An event thread pops it, clears the event's `pending_` flag
and runs a handler of Service, which calls user code, starts new operations,
makes a clone that listens for the next call, and destroys the Rpc when no flag
is set. User threads with a Writer reach the Rpc through a `weak_ptr` and push
WRITE_NEEDED events. Nothing but the flags tells Service whether a pointer to the
Rpc is still about.

What makes it hard: completions arrive in any order; cancellation and `Shutdown`
race with everything; tests of flags and acts on them are separate steps; one
Rpc's events can go through two event queues; timeouts race with late items and
late answers. The hazards in `PROJECT.json` give the lines.

## 2. Modules

### The server

- `Grpc` - what the code relies on in the gRPC library (external): an operation's
  tag returns exactly once; DONE only for a matched call; one operation of each
  kind at a time; `Shutdown` waits for open calls; a drained queue is dead. A
  breach sets `fault`, and the process stops.
- `Rpc` - member functions of Rpc and ActiveRpcs as operators over `pending`,
  `send_queue`, `event_queue` (target of WRITE_NEEDED) and `events_queue` (target
  of the five completion queue events). A clone has two different ones.
- `Service` - every event thread has a label, the next thing its handler does. A
  handler is a path of labels; there is a label wherever the code takes a lock or
  calls user code, and other threads can step in. The racy read of `shutting_down_`
  is a choice of values (`ShuttingDownReads`).
- `RpcHandler` - user code: callbacks send and return as they like, Writers are
  used on other threads. `Overrun` says whether user code stops once it has sent
  the item that ends its call. `HandlerSend` is one step, although `EnqueueMessage`,
  the lookup of the `weak_ptr` and the push of WRITE_NEEDED (`rpc.h:193`) take three
  locks one after the other: a callback runs with its Rpc in ActiveRpcs, and the thread
  that could see the states in between is the one that runs the callback, unless the
  Rpc has two event queues. Writers, on other threads, take a step for each.
- `Server` - start, shutdown step by step, the thread loops, `Next`, fairness.
- `ServerProperties`, the inductive invariants `LifetimeInvariant` and
  `CallInvariant`, and `MCServer` for the instances. The proofs are in
  `StepProofs`, `ServerProofs`, `CallProofs` and `SystemProofs`
  (section 5).
- `Call` - what the author of a handler is promised for one call: the order of the
  callbacks, and that responses reach gRPC in the order in which they were sent. It
  has no threads, queues or events. `CallRefinement` maps the state of each Rpc to
  it (`ImplementsCall`): the running callback comes from the labels of the event
  threads, the responses from the counts that go through `send_queue_`.
- `Builder` - the program before and around the server's run: setters with their
  CHECKs, registration with the parsing of `/service/method`, the computation of
  the call type from the message types, `Build`, and which handler a call reaches
  after `Start`, on which completion queue. The numbers of gRPC and of event threads
  may be zero or never set, which is read as any number. `BuildAndStart` may return
  nullptr; `Start` does not look, and goes on (phase `unserved`). Names are sequences of characters, as they are parsed; in
  `MCBuilder` there are two characters, and all names up to a length. A map is
  iterated in some order that is always the same (`MapOrder`).

An Rpc identity is used for one object only, so a pointer to a destroyed Rpc can
be told from one to its successor.

### The queue

- `BlockingQueue` - threads at the labels lock, wait, expired and notify. What
  happens under the mutex is one step; the locker's destructor unlocks in one
  step and notifies in the next, as `mutex.h:70` does. Spurious wakeups are
  allowed. `Size` stands for `Peek`: both only look.
- `Fifo` - the abstract queue: a call begins, takes effect in one step or gives
  up, and returns. `BlockingQueue` implements it (`IsFifo`). The proofs are in
  `ApplicationProofs`.

The server model uses plain sequences for its event queues; `IsFifo`,
`NoLostWakeup` and `PushReturns` are what justifies that.

### The clients

- `Retry` - the strategies of `retry.cc` as values, `Indicates` and `Delay`.
- `Client` - the unary `Write`, with time in units. Points in time are kept as
  the time left, so the state space needs no bound on the clock. `MaxRetries`
  stops the count of failures above every limit, where no strategy looks.
- `StreamClient` - the four specialisations of `Client`: each
  blocking operation has a begin and a return, and the operations come in any
  order. What restricts them is in the code or in gRPC: the CHECKs of the reader
  (client.h:212, 227), no `Write` or `WritesDone` after `WritesDone`, a `Finish`
  that waits until a stream of responses was read. The streams and the connection
  are external: bounded, in order, and they may break.
- `ClientServer` - such a client with the server of `Server`, and the handlers of
  `server_test.cc`. A client is used for one invocation, as its comment demands
  (client.h:37). The server's own actions are used unchanged; what the client
  and the streams hold decides which of gRPC's answers the server gets.
  `DeliveryInvariant` says where the requests and responses of the call are, and
  `MCClientServer` has the instance. Proofs are in `DeliveryProofs`,
  `EventThreadProofs` and `SystemProofs`.
- `CompletionQueuePool` - one step per queue under the mutex. What the code does
  without it is a step per access: the CHECKs and the assignment of
  `SetNumberCompletionQueues`, and the size and the element in `GetCompletionQueue`.
  Any thread may call anything at any moment. What stops the process is in
  `pool_fault`; the history variable `overtaken`, which no action reads, has the
  threads in `GetCompletionQueue` for which a `Shutdown` emptied the pool.
- `AsyncClient` - both kinds of client on top of the pool. Handling an event is one
  step, as only the queue's thread touches a client after `WriteAsync`. A client
  that starts an operation on a queue that was shut down or destroyed, which gRPC
  forbids, goes to `fault`, and the process stops; the history variable `exposed` has the
  clients that a `Shutdown` met before they were used or with an open stream.
  Proofs are in `AsyncClientProofs`.

## 3. Runs

Passing runs (bounds are in the `.cfg` files):

| Run | Instance | Shows |
|---|---|---|
| `ServerListeners` | two services, a unary and a client-streaming method, two event threads, requests that may fail at any time | types; exactly one listener per method and queue while a service is up (`OneListener`), up to the step in which the code uses an Rpc it has just removed |
| `ServerBidi` | one bidirectional call, three items sent, two requests | no event dangles, flags are exact, the API contract holds, failed requests only in a shutdown, the inductive invariants `LifetimeInv` and `CallInv`, each Rpc implements `Call` |
| `ServerWriter` | server streaming, a Writer on a user thread, three items, fairness | the same lifetime; no response is stranded, each is sent, in order (`ImplementsCall`); a `Shutdown` that has come to its joins returns |
| `ClientServer` | a client of any of the four types, streams that hold one message, two requests, a connection that may break, a client that may be destroyed, operations in any order | what is sent is what arrives, with the inductive invariant behind it; the serving process survives; every blocking operation that the handler answers returns, and every one when the connection breaks; Rpcs of closed calls are removed |
| `Builder` | names of up to five characters, three registrations, zero to two gRPC and event threads or none set, two execution contexts, a start that may fail | a call reaches the handler registered for it, handlers are filed under their service and method, the first registration of a name is the one that serves, on every completion queue, no handler has the pointer of a destroyed context |
| `Queue` | three threads, sizes unbounded and 1, three items | `NoLostWakeup`, `SizeRespected`, `IsFifo`, `PushReturns` |
| `Client` | seven strategies (limits 0, 1, 3, 5), timeouts none, 0, 1, 6 | fresh contexts, one deadline per Write, the documented delays, termination with a limited strategy |
| `AsyncClient` | two application threads that call anything at any moment, up to two queues, a unary and a streaming client, two responses | the pool's CHECKs, every event is served, one operation at a time, which clients a `Shutdown` can harm, callbacks in order and ended, `Shutdown` returns |

Why the bounds are enough to be of interest: a call needs its Rpc and the clone
that follows it, hence two Rpcs per call, three where two calls overlap, and five
for a server with four methods of which one is called. Two event threads give a
clone split queues. Three items reach the states in which one is being written,
one queued, one pushed late. A stream that holds one message makes both sides
wait for each other with the second. Five characters are the shortest
full name and one more; three registrations give two handlers of one service and one
of another, or a name registered twice. Three threads on the queue
have two waiters for the one place. `Symmetry` permutes Rpc identities, which
nothing but equality uses; it is not used in runs with liveness.

Runs that TLC must find violated, each a disagreement between the code and what
the repository says (quotes in `PROJECT.json`):

| Run | The repository says | The code |
|---|---|---|
| `SingleThreadedViolated` | everything about an Rpc looks single-threaded (README.md:132) | the five events of a clone keep the parent's event queue while WRITE_NEEDED goes to the next one, so two threads handle one Rpc |
| `WriterIsNotSafe` | a Writer may always be called (README.md:175) | between the `weak_ptr` lock and the lookup the Rpc leaves ActiveRpcs: a CHECK stops the process |
| `RefusedCallDangles` | Service manages the lifetime of Rpcs (service.h:29) | an Rpc refused in a shutdown is destroyed with its DONE tag still at gRPC |
| `RpcsInFlight` | all Rpcs are removed before ActiveRpcs goes (rpc.h:428) | event threads leave after one empty pop while events are still to come |

Known exposures for which no property is claimed, as the code has no guard against
them and, but for the first, no document promises otherwise:

- `Shutdown` waits for calls without a deadline (server.cc:222), although the comment
  above it (server.cc:220) speaks of a hard deadline;
- an event thread can start an operation on a drained completion queue (fault
  `dead_queue`);
- a request that fails outside a shutdown is removed and then cloned (service.cc:91);
- with an unlimited strategy `Write` goes on after its timeout (client.h:59);
- a stream that the server ended with an error is reported as OK (async_client.h:201);
- a callback that makes an AsyncClient during the pool's `Shutdown` would block it; a
  client destroyed in its last callback is touched afterwards;
- a `Shutdown` of the pool stops the process if it overtakes a thread that makes a
  client (completion_queue_pool.cc:73), or if a client starts an operation after it
  (async_client.h:189): `PoolIsSafe` and `ShutdownSparesCalls` say that nothing else does;
- `Write` of a streaming client reports success on a broken stream (client.h:149);
- zero event threads, or a number that was never set, make `Start` or the round-robin
  selection fail (server.h:56, server.cc:146); with zero gRPC threads nothing is served
  (server.cc:114);
- `Start` does not notice that `BuildAndStart` returned nullptr (server.cc:180), and
  `Shutdown` then uses the null pointer;
- `WaitForShutdown` returns while `Shutdown` is still joining the threads (server.cc:208).

The passing properties say where they stop. `NoDanglingEvents` and `ApiRespected`
are about Rpcs with one event queue (`SameQueue`), the first also about Rpcs that
were not refused. In `AsyncClient`, `PoolIsSafe` and `ShutdownSparesCalls` name the
threads and clients that a `Shutdown` of the pool can harm; `CallsEnd` and
`ShutdownReturns` hold unless the process has stopped.
`ServerWriter` has a user that stops sending once the call is ended: the run
`WriterIsNotSafe` shows what happens otherwise. `ClientServer` has one event thread, no Writers
and no shutdown of the server, whose races are in the server's own runs; a
`Client` in it makes one call, as the retries of `Write` are in `Client`.

## 4. Fairness

- Server: event threads, completion queue threads and the owner's `Shutdown`
  run when they can, and callbacks return. gRPC completes writes and finishes,
  notifies of closed calls and fails their reads; a call closes some time after
  its status was sent. No client has to call or to end a call, and nobody has to
  answer. All are weak fairness: the locks that the threads share are
  held for a few statements each, which the model takes as one step.
- Client and server: the threads of the server run; gRPC connects, carries what the
  streams have room for, and returns from operations that need not wait. The
  application need not call anything, and a handler that replies does as the
  handlers of `server_test.cc` do. Nothing is assumed about the connection, which
  may break or not.
- Queue: a thread that can run does; timeouts expire. Spurious wakeups are not
  fair. `PushReturns` is claimed for unbounded queues, the only ones the server
  makes.
- Client: time passes, sleeps end, and a call whose deadline is over returns.
  A call without a deadline may never return.
- AsyncClient: threads run; the server ends its calls. Nobody has to make or use
  a client, or to shut down.

## 5. Proofs

| Module | Theorem | For all | Argument |
|---|---|---|---|
| `StepProofs` | `TypeCorrect` | Rpcs, methods, queues, threads, Writers | one step per action |
| `ServerProofs` | `LifetimeInvariance`, `EventsNeverDangle`, `FailuresOnlyInShutdown`, `FlagsAreExact` | the same, if requests fail only in a shutdown (`~RequestsMayFail`) | `LifetimeInv` |
| `ServerProofs` | `ServingInvariance`, `MethodsKeepOneListener`, `ResponsesAreNotStuck` | the same, and requests may fail at any time | `ServingInv` |
| `SystemProofs` | `CallInvariance`, `ApiIsRespected`, `ServerServesSafely` | the same as for `ServerProofs`, with user code that stops at the end of a call | `CallInv`, `SafeInv`; the steps are in `CallProofs` |
| `SystemProofs` | `ServerImplementsCall` | the same | every step maps to a step of `Call` or to none (`CallProofs`) |
| `SystemProofs` | `CompositionRunsServer`, `EventsOfCallsNeverDangle`, `CallsAreServedSafely` | windows, numbers of writes, and all of the above | every step of the composition is a step of the server or leaves it alone, so that the theorems about the server carry over |
| `SystemProofs` | `DeliveryInvariance`, `CallsAreDelivered` | the same, with one event thread and no Writers | `DeliveryInv`; the steps are in `DeliveryProofs` and `EventThreadProofs` |
| `ApplicationProofs` | `HandlersAreFiledByName`, `CallsFindTheirHandler`, `FirstRegistrationServes`, `ContextOutlivesHandlers` | characters, names of any length, handlers, contexts, numbers of threads | `BuilderInv` |
| `ApplicationProofs` | `NoContextIsReused`, `RetriesShareTheTimeout`, `RetriesKeepSchedule`, `BackoffIsDocumented` | strategies, timeouts | `ClientInv`: the attempts of a limited strategy are counted by its delays, and the delays are powers of its factor |
| `ApplicationProofs` | `QueueTypeCorrect`, `WakeupsAreNotLost`, `BoundIsKept`, `QueueIsFifo` | threads, values, sizes | `QueueInv`, on labels; every step maps to a step of Fifo or to none |
| `AsyncClientProofs` | `PoolNeverFails`, `EventsHaveThreads`, `ShutdownIsSafeForCalls`, `OperationsInTurn`, `CallbacksKeepOrder`, `AsyncClientTypes` | threads, queues, clients, responses | `Inv` |

Each invariant has one lemma that a step keeps it (`NextLifetimeInv`, `NextServingInv`,
`NextCallInv`, `EventThreadDelivery`...). Its proof begins with named steps for what
actions have in common, such as `<1>FrameLifetime`, and for the single actions; the
last steps put them together.

### Who may destroy an Rpc

`NoDanglingEvents` is not inductive: from an arbitrary state with a flag missing,
`RemoveIfNotPending` destroys an Rpc that is referred to. `LifetimeInv` adds where
a tag can be (with gRPC or once in one event queue, DONE behind NEW_CONNECTION:
`TagsInv`), that flags miss no outstanding operation (`FlagsInv`), what a thread
may rely on between testing the flags and acting on them (`ThreadInv`), that an
Rpc waiting for its call is otherwise untouched (`ConnectionInv`), how events are
routed (`RoutingInv`), that services stop before gRPC does (`ShutdownInv`), and who
keeps an Rpc that has left ActiveRpcs (`HeldInv`). `ServerBidi` checks it with TLC,
with one event thread; the proof is for any number. `StepProofs` has the types
and the lemmas on event queues and on what a step does, `ServerProofs` the
preservation of `LifetimeInv`, action by action. `FlagsAreExact` is the other half of
`FlagsInv`: no flag is set without an operation behind it, so that no Rpc is kept
for ever by a flag that nobody will clear.

### Who listens, and who sends

`OneListener` counts listeners per method and queue. To be kept by a step it needs
what the step relies on: identities that were not used have no state, a thread at a
label has an Rpc that can be there, a NEW_CONNECTION tag is in one place, and the
one thread that is to make a clone counts as the listener it has not made yet.
`NoStuckResponse` needs that identities that were not used have nothing to send,
and that a finish is pending only after the final status (`FinishInv`). Both come from
`ServingInv`; it has no hypothesis, and Writers and shutdown run as they like.

### What a call is promised

`CallInv` says of each call with one event queue where it is, in terms of the five
things that have to agree: the state of the handler, the flags, the send queue, the
events on their way, and the label of the thread that works on it. From it follow
that gRPC is called only as it allows (`ApiRespected`) and that a step of the server
is a step of `Call` or leaves the call alone. Hypotheses: requests fail only in a
shutdown, and `Overrun = "nothing" \/ Writers = {}`, as user code that goes on
sending from another thread breaks the promise (`WriterIsNotSafe`).

`ServerServesSafely` puts the server's parts together: until `Shutdown`, no CHECK
fails, gRPC's contract is kept and no destroyed Rpc is touched. It needs one event
thread, so that no clone has two event queues (`SingleThreadedViolated` shows what two
do), and no Writers. `SafeInv` adds that while the server serves no service was
stopped, no call refused and no queue shut down. `CallsAreServedSafely`
is the same with a client, whose connection may break and which may go away.

### What arrives

`Delivered` says of the last state of a call that nothing was lost on the way. To be
kept by a step it needs to know of every state where each message is, and that is
`DeliveryInv`. Upwards, the requests that the stream took are on their way or were
read (`CallProgress`), and those that were read are with the handler or in the event
queue (`Taken`). In the handler, what it has sent is what its callbacks had to send
for the requests it has got, and what the running callback has sent so far
(`Progress`). Downwards, what gRPC got from the send queue is in a pending Write or
Finish, on its way or received; what was sent and not given to gRPC is in the send
queue, in order, as `CallInv` says. Two conjuncts make the end of the call
tell: the handler is told that there are no more requests only when the stream is
closed and empty (`ToldAll`), and the status travels behind everything else
(`StreamsOK`). The client's side is about a client that still waits for its
status (`Waiting`): a broken connection may lose messages, and then the status is
not OK. `DeliveryProofs` shows for the steps of the client and for gRPC's answers that
they preserve `DeliveryInv`, given `CallInv`, and `EventThreadProofs` shows it for the event
thread; what they need of the server's steps is in `StepProofs`. Hypotheses: requests fail only in a shutdown, one event thread, no
Writers, and handlers that stop at the end of the call, as those of `server_test.cc`
do. `ClientServer` checks `DeliveryInv` with TLC, for streams with one place.

### The application's side

For the builder, `ParsedIsNamed` shows that the two calls of `std::getline` find
exactly the service and the method of the documented structure, in names of any
length: the first slash is the least index with one, and that there is a least one
is an instance of well-foundedness rather than of induction. `BuilderInv` says that the
map has each handler at the slot of its name, that for each registered handler the
map has it or an earlier one, that services have the handlers of the map and no
others, and that listeners have them on each queue. `MapOrder` reaches every slot, as an injection between sets of
equal size is onto.

For the unary `Client`, `BackoffIsDocumented` is about `std::pow` in
the delay calculator, a recursive function of the model. `PowIs` shows that it has the
powers as values: there are powers up to every exponent, as a least exponent
without any would have one (`PowersExist`), two such sequences agree (`PowersAgree`), so that
the recursion has a solution, and what solves it has these values.

The properties of the AsyncClient come from one invariant. `PoolInv` says what
a thread of the application relies on at its label (the queues before the one it is
at have been started, or closed and joined, and the others have not) and that
the pool is all running or empty when nobody holds the mutex; a thread in
`GetCompletionQueue` relies on a pool that is not empty only if it was not overtaken.
`QueueOK` says that `Shutdown` waits for the queue of a client with something to do,
and that a client that will start more operations has a queue that is open, or is
exposed. `TurnsOK` and `CallsOK` count operations and callbacks:
a stream that still has its callback has got as many calls as responses were
received, but for the one in the completion queue.

### Assumptions and limits

The assumptions are the `ASSUME`s of the modules (nonempty sets, types of the
constants, names made of characters that include the slash, limits of strategies
below the counting bound). In `KeepsSchedule` the delays are those of the calculator.

In the modules on the server, leaves without arithmetic go to Zenon (`USE Zenon`):
tlapm's SMT encoding gets slower, and in the end fails, with the number of obligations
it has encoded for a module.

Every invariant that a run checks is proved, and so are the two refinements. Only
model-checked is liveness (`OperationsReturn`, `ClosedCallsAreRemoved`,
`ResponsesAreSent`, `JoinsReturn`, `PushReturns`, `LimitedWriteReturns`, `CallsEnd`,
`ShutdownReturns`): the prover has no support for fairness and `ENABLED`.

## 6. Not modelled

- The lock of `ExecutionContext`: a mutex held for the life of an object that user
  code has. The ownership of the context is in `Builder`.
- `Server::WaitForShutdown`: it returns at once without a server, waits for gRPC
  otherwise, and changes nothing.
- Tracing (compiled out by default); the traits that only decide whether a program
  compiles; time and optional wrappers; `testing/`, templates that nothing
  instantiates and that name members which the code no longer has.
- Destruction of an AsyncClient by the application, and clients made in callbacks.
- Contents of messages, codes of a status beyond what the code tests, rounding of
  durations, and memory orders other than the read of `Service::shutting_down_`.

## 7. Plan

1. Compose: the event queues of `Server` replaced by `BlockingQueue`, with its pop
   timeout in the shutdown; AsyncClients whose callbacks make clients, and clients
   that are destroyed; `AsyncClient` with the server, as `ClientServer` has the
   synchronous clients.
2. Extend: an owner that waits in `WaitForShutdown` and destroys the Server;
   `ClientServer` with a shutdown and with two calls at a time.
3. Prove: `Delivered` for several event threads, where a clone has two event queues.
