-------------------------- MODULE AsyncClientProofs ---------------------------
(***************************************************************************)
(* AsyncClients and their pool: what holds for every number of threads,    *)
(* clients, queues and responses.                                          *)
(***************************************************************************)
EXTENDS AsyncClient, FiniteSetTheorems, TLAPS

HoldsMutex(t) == at[t].label \in {"start", "close", "join"}

\* What a thread of the application relies on at its label: the queues before the
\* one it is at have been started, or closed and joined, the others have not.
AtOK(t) ==
  LET i == at[t].i
  IN  /\ HoldsMutex(t) => mutex = t
      /\ at[t].label = "start" =>
           /\ ~initialized /\ i \in 1 .. size /\ closed = {}
           /\ \A j \in Queues : thread[j] = IF j < i THEN "running" ELSE "none"
      /\ at[t].label \in {"close", "join"} =>
           /\ initialized /\ i \in 1 .. size
           /\ \A j \in Queues :
                /\ thread[j] = IF j < i THEN "joined" ELSE IF j <= size THEN "running" ELSE "none"
                /\ j < i => j \in closed
      /\ at[t].label \in {"set", "at"} => i \in Queues
      /\ Picking(t) /\ t \notin overtaken => initialized /\ (at[t].label = "at" => i <= size)

\* The pool when no thread is in its critical section: all queues or none.
Settled ==
  /\ closed = {}
  /\ initialized <=> size > 0
  /\ \A j \in Queues : thread[j] = IF j <= size THEN "running" ELSE "none"

PoolInv ==
  /\ PoolTypeOK
  /\ PoolIsSafe
  /\ \A t \in Threads : AtOK(t)
  /\ initialized => size > 0
  /\ mutex # NoThread => HoldsMutex(mutex)
  /\ mutex = NoThread => Settled

\* An operation of c is with gRPC, or its event in the completion queue.
Active(c) == op[c] # {} \/ event[c] # NoEvent

\* One operation at a time, and only those of the kind of client.
TurnsOK(c) ==
  /\ op[c] = {} \/ (event[c] = NoEvent /\ \E e \in Events : op[c] = {e})
  /\ event[c].event = "none" => event[c] = NoEvent
  /\ c \notin Streaming => op[c] \subseteq {"FINISH"} /\ event[c].event \in {"none", "FINISH"}
  /\ stage[c] # "open" => ~Active(c)

\* A client with something to do has a queue whose thread is not gone, and one that
\* will start more operations has one that is not about to go, unless it is exposed.
QueueOK(c) ==
  /\ queue[c] \in 0 .. size
  /\ Active(c) => queue[c] # 0 /\ thread[queue[c]] # "joined"
  /\ Unfinished(c) /\ c \notin exposed => queue[c] # 0 /\ ~ShuttingDown

Arguments == {Response(n) : n \in Nat} \cup {End(code) : code \in {"OK", "INTERNAL", "error"}}

Responses(s) == \A i \in 1 .. Len(s) : s[i] = Response(i)
InOrder(s) == \A i \in 1 .. Len(s) : s[i] = Response(i) \/ (i = Len(s) /\ s[i][1] = "end")

\* Callbacks have been made for what was received, but for a response that is in
\* the completion queue; a unary client waits for its only one.
CallsOK(c) ==
  /\ InOrder(calls[c])
  /\ c \in Streaming /\ callback[c] =>
       /\ Responses(calls[c])
       /\ received[c] = Len(calls[c]) + (IF event[c].event = "READ" /\ event[c].ok THEN 1 ELSE 0)
  /\ c \notin Streaming /\ (stage[c] # "open" \/ Active(c)) => calls[c] = <<>>

ClientTypes ==
  /\ stage \in [Clients -> {"none", "made", "open"}]
  /\ queue \in [Clients -> 0 .. MaxQueues]
  /\ op \in [Clients -> SUBSET Events]
  /\ event \in [Clients -> [event : Events \cup {"none"}, ok : BOOLEAN]]
  /\ received \in [Clients -> Nat]
  /\ status \in [Clients -> BOOLEAN] /\ callback \in [Clients -> BOOLEAN]
  /\ calls \in [Clients -> Seq(Arguments)]

ClientInv ==
  /\ ClientTypes
  /\ fault \subseteq exposed /\ exposed \subseteq Clients
  /\ \A c \in Clients : TurnsOK(c) /\ QueueOK(c) /\ CallsOK(c)

Inv == PoolInv /\ ClientInv

-----------------------------------------------------------------------------

\* A pool without queues, and no clients.
LEMMA InitInv == Init => Inv
<1> SUFFICES ASSUME Init PROVE Inv
  OBVIOUS
<1> USE ThreadsAssumption, MaxQueuesAssumption
<1>1. PoolInv
  <2> USE DEF Init, PoolInit
  <2>1. PoolTypeOK
    <3>1. thread \in [Queues -> {"none", "running", "joined"}]
      OBVIOUS
    <3>2. at \in [Threads -> [label : Labels, i : 0 .. MaxQueues, get : BOOLEAN]]
      BY DEF Idle, Pc, Labels
    <3>3. size \in 0 .. MaxQueues
      OBVIOUS
    <3> QED BY Zenon, <3>1, <3>2, <3>3 DEF PoolTypeOK
  <2>2. ASSUME NEW t \in Threads PROVE AtOK(t)
    BY DEF AtOK, HoldsMutex, Picking, Idle, Pc
  <2>3. Settled
    BY DEF Settled, Queues
  <2> QED BY <2>1, <2>2, <2>3 DEF PoolInv, PoolIsSafe
<1>2. ClientTypes
  <2>1. <<>> \in Seq(Arguments)
    OBVIOUS
  <2> QED BY <2>1 DEF Init, ClientTypes, NoEvent
<1>3. ASSUME NEW c \in Clients PROVE TurnsOK(c) /\ QueueOK(c) /\ CallsOK(c)
  <2>1. TurnsOK(c) /\ CallsOK(c)
    BY DEF Init, TurnsOK, CallsOK, Active, InOrder, Responses, NoEvent
  <2>2. queue[c] = 0 /\ size = 0 /\ ~Active(c) /\ ~Unfinished(c)
    BY DEF Init, PoolInit, Active, Unfinished
  <2> QED BY <2>1, <2>2 DEF QueueOK
<1> QED BY <1>1, <1>2, <1>3 DEF Inv, ClientInv, Init

\* A step of t leaves the others as they are: t has the mutex, or nobody has.
LEMMA OthersOK ==
  ASSUME PoolInv, NEW t \in Threads, NEW u \in Threads, u # t, at'[u] = at[u],
         mutex \in {NoThread, t},
         Picking(u) /\ u \notin overtaken' => u \notin overtaken /\ initialized' /\ size' = size
  PROVE  AtOK(u)'
<1>1. ~HoldsMutex(u)
  BY ThreadsAssumption DEF PoolInv, AtOK
<1> QED BY <1>1 DEF PoolInv, AtOK, HoldsMutex, Picking

\* A step of t that changes only where t is, to a label outside the critical section.
LEMMA OutsideOK ==
  ASSUME PoolInv, pool_fault = "none", NEW t \in Threads, ~HoldsMutex(t),
         NEW pc \in [label : Labels \ {"start", "close", "join"}, i : 0 .. MaxQueues, get : BOOLEAN],
         at' = [at EXCEPT ![t] = pc],
         number_completion_queues' \in Queues, overtaken' = overtaken \ {t} \/ overtaken' = overtaken,
         UNCHANGED <<mutex, initialized, size, thread, closed, pool_fault>>,
         pc.label \in {"set", "at"} => pc.i \in Queues,
         pc.label \in {"pick", "at"} /\ t \notin overtaken' =>
           initialized /\ (pc.label = "at" => pc.i <= size)
  PROVE  PoolInv'
<1> USE DEF PoolInv
<1>1. PoolTypeOK'
  BY DEF PoolTypeOK
<1>2. at'[t] = pc /\ \A u \in Threads : u # t => at'[u] = at[u]
  BY DEF PoolTypeOK
<1>3. ASSUME NEW u \in Threads PROVE AtOK(u)'
  <2>1. CASE u = t
    <3>1. pc.label \notin {"start", "close", "join"}
      OBVIOUS
    <3> QED BY <1>2, <2>1, <3>1 DEF AtOK, HoldsMutex, Picking
  <2>2. CASE u # t
    BY <1>2, <2>2 DEF AtOK, HoldsMutex, Picking
  <2> QED BY <2>1, <2>2
<1>4. (mutex # NoThread => HoldsMutex(mutex))'
  <2>1. mutex # NoThread => mutex \in Threads /\ mutex # t
    BY DEF PoolTypeOK
  <2> QED BY <1>2, <2>1 DEF HoldsMutex
<1>5. (mutex = NoThread => Settled)'
  BY Zenon DEF Settled
<1>6. PoolIsSafe'
  BY DEF PoolIsSafe
<1> QED BY Zenon, <1>1, <1>3, <1>4, <1>5, <1>6

\* A step that changes nothing but what has stopped the process.
LEMMA StoppedOK ==
  ASSUME PoolInv, PoolTypeOK', PoolIsSafe', UNCHANGED <<mutex, initialized, size, thread, closed, at, overtaken>>
  PROVE  PoolInv'
BY Zenon DEF PoolInv, AtOK, HoldsMutex, Picking, Settled

\* SetNumberCompletionQueues looks at the pool.
LEMMA SetNumberInv ==
  ASSUME PoolInv, pool_fault = "none", NEW t \in Threads, NEW n \in 0 .. MaxQueues,
         SetNumberCompletionQueues(t, n)
  PROVE  PoolInv'
<1> USE MaxQueuesAssumption
<1>1. CASE initialized \/ n = 0
  <2>1. /\ pool_fault' = "misconfigured"
        /\ UNCHANGED <<mutex, initialized, number_completion_queues, size, thread, closed, at, overtaken>>
    BY <1>1 DEF SetNumberCompletionQueues
  <2> QED BY <2>1, StoppedOK DEF PoolInv, PoolTypeOK, PoolIsSafe
<1>2. CASE ~(initialized \/ n = 0)
  <2> DEFINE pc == [label |-> "set", i |-> n, get |-> FALSE]
  <2>1. /\ at' = [at EXCEPT ![t] = pc] /\ ~HoldsMutex(t)
        /\ UNCHANGED <<mutex, initialized, number_completion_queues, size, thread, closed,
                       pool_fault, overtaken>>
    BY <1>2 DEF SetNumberCompletionQueues, Goto, Pc, Idle, HoldsMutex
  <2>2. pc \in [label : Labels \ {"start", "close", "join"}, i : 0 .. MaxQueues, get : BOOLEAN]
    BY DEF Labels
  <2>3. pc.label = "set" /\ pc.i \in Queues /\ number_completion_queues \in Queues
    BY <1>2 DEF Queues, PoolInv, PoolTypeOK
  <2> HIDE DEF pc
  <2> QED BY <2>1, <2>2, <2>3, OutsideOK
<1> QED BY <1>1, <1>2 DEF PoolInv, PoolTypeOK

\* SetNumberCompletionQueues stores what the next Initialize will make.
LEMMA StoreNumberInv ==
  ASSUME PoolInv, pool_fault = "none", NEW t \in Threads, StoreNumber(t)
  PROVE  PoolInv'
<1> USE MaxQueuesAssumption
<1> DEFINE pc == [label |-> "idle", i |-> 0, get |-> FALSE]
<1>1. /\ at' = [at EXCEPT ![t] = pc] /\ ~HoldsMutex(t)
      /\ UNCHANGED <<mutex, initialized, size, thread, closed, pool_fault, overtaken>>
  BY DEF StoreNumber, Goto, Pc, Idle, HoldsMutex
<1>2. number_completion_queues' \in Queues
  BY DEF StoreNumber, PoolInv, AtOK
<1>3. /\ pc \in [label : Labels \ {"start", "close", "join"}, i : 0 .. MaxQueues, get : BOOLEAN]
      /\ pc.label = "idle"
  BY DEF Labels
<1> HIDE DEF pc
<1> QED BY <1>1, <1>2, <1>3, OutsideOK

\* Start or GetCompletionQueue is called; the thread waits for the mutex.
LEMMA EnterInv ==
  ASSUME PoolInv, pool_fault = "none", NEW t \in Threads, NEW get \in BOOLEAN, Enter(t, get)
  PROVE  PoolInv'
<1> USE MaxQueuesAssumption
<1> DEFINE pc == [label |-> "lock", i |-> 0, get |-> get]
<1>1. /\ at' = [at EXCEPT ![t] = pc] /\ ~HoldsMutex(t)
      /\ UNCHANGED <<mutex, initialized, number_completion_queues, size, thread, closed,
                     pool_fault, overtaken>>
  BY DEF Enter, Goto, Pc, Idle, HoldsMutex
<1>2. /\ pc \in [label : Labels \ {"start", "close", "join"}, i : 0 .. MaxQueues, get : BOOLEAN]
      /\ pc.label = "lock" /\ number_completion_queues \in Queues
  BY DEF Labels, PoolInv, PoolTypeOK
<1> HIDE DEF pc
<1> QED BY <1>1, <1>2, OutsideOK

\* A thread gets the mutex in Initialize and finds the pool running, or makes it.
LEMMA InitializeInv ==
  ASSUME PoolInv, pool_fault = "none", NEW t \in Threads, Initialize(t)
  PROVE  PoolInv'
<1> USE ThreadsAssumption, MaxQueuesAssumption
<1>1. CASE initialized
  <2>1. PICK pc \in [label : {"idle", "pick"}, i : {0}, get : BOOLEAN] :
          at' = [at EXCEPT ![t] = pc]
    BY <1>1 DEF Initialize, Goto, AfterInitialize, Pc, Idle, PoolInv, PoolTypeOK
  <2>2. /\ UNCHANGED <<mutex, initialized, number_completion_queues, size, thread, closed,
                       pool_fault, overtaken>>
        /\ ~HoldsMutex(t) /\ number_completion_queues \in Queues
    BY <1>1 DEF Initialize, HoldsMutex, PoolInv, PoolTypeOK
  <2>3. /\ pc \in [label : Labels \ {"start", "close", "join"}, i : 0 .. MaxQueues, get : BOOLEAN]
        /\ pc.label \in {"idle", "pick"}
    BY DEF Labels
  <2> QED BY <1>1, <2>1, <2>2, <2>3, OutsideOK
<1>2. CASE ~initialized
  <2> USE DEF PoolInv
  <2>1. /\ at' = [at EXCEPT ![t] = [label |-> "start", i |-> 1, get |-> at[t].get]]
        /\ size' = number_completion_queues /\ mutex' = t /\ mutex = NoThread
        /\ UNCHANGED <<initialized, number_completion_queues, thread, closed, pool_fault, overtaken>>
    BY <1>2 DEF Initialize, Goto, Pc
  <2>2. PoolTypeOK'
    BY <2>1 DEF PoolTypeOK, Labels, Queues
  <2>3. /\ at'[t] = [label |-> "start", i |-> 1, get |-> at[t].get]
        /\ \A u \in Threads : u # t => at'[u] = at[u]
    BY <2>1 DEF PoolTypeOK
  <2>4. AtOK(t)'
    <3>1. size = 0
      BY <1>2, <2>1 DEF Settled, PoolTypeOK
    <3>2. \A j \in Queues : thread[j] = "none"
      BY <2>1, <3>1 DEF Settled, Queues
    <3>3. 1 \in 1 .. size' /\ closed = {}
      BY <2>1 DEF Settled, PoolTypeOK, Queues
    <3> QED BY <1>2, <2>1, <2>3, <3>2, <3>3 DEF AtOK, HoldsMutex, Picking, Queues
  <2>5. ASSUME NEW u \in Threads, u # t PROVE AtOK(u)'
    <3>1. Picking(u) => u \in overtaken
      BY <1>2 DEF AtOK
    <3> QED BY <2>1, <2>3, <2>5, <3>1, OthersOK
  <2>6. HoldsMutex(t)' /\ PoolIsSafe'
    BY <2>1, <2>3 DEF HoldsMutex, PoolIsSafe
  <2> QED BY <1>2, <2>1, <2>2, <2>4, <2>5, <2>6 DEF HoldsMutex
<1> QED BY <1>1, <1>2 DEF PoolInv, PoolTypeOK

\* Initialize starts the thread of one queue, and after the last releases the mutex.
LEMMA StartQueueInv ==
  ASSUME PoolInv, pool_fault = "none", NEW t \in Threads, StartQueue(t)
  PROVE  PoolInv'
<1> USE ThreadsAssumption, MaxQueuesAssumption DEF PoolInv
<1> DEFINE i == at[t].i
<1>1. /\ at[t].label = "start" /\ mutex = t /\ ~initialized /\ closed = {}
      /\ i \in 1 .. size /\ size \in 0 .. MaxQueues /\ i \in Queues
      /\ \A j \in Queues : thread[j] = IF j < i THEN "running" ELSE "none"
  BY DEF StartQueue, AtOK, HoldsMutex, PoolTypeOK, Queues
<1>2. /\ thread' = [thread EXCEPT ![i] = "running"] /\ pool_fault' = pool_fault
      /\ UNCHANGED <<number_completion_queues, size, closed, overtaken>>
  BY <1>1 DEF StartQueue
<1>3. \A j \in Queues : thread'[j] = IF j < i + 1 THEN "running" ELSE "none"
  BY <1>1, <1>2 DEF PoolTypeOK, Queues
<1>4. \A u \in Threads : Picking(u) => u \in overtaken'
  BY <1>1, <1>2 DEF AtOK
<1>5. PoolIsSafe'
  BY <1>2 DEF PoolIsSafe
<1>6. CASE i < size
  <2>1. /\ at' = [at EXCEPT ![t] = [label |-> "start", i |-> i + 1, get |-> at[t].get]]
        /\ UNCHANGED <<mutex, initialized>>
    BY <1>6 DEF StartQueue, Goto, Pc
  <2>2. PoolTypeOK'
    BY <1>1, <1>2, <1>6, <2>1 DEF PoolTypeOK, Labels, Queues
  <2>3. /\ at'[t] = [label |-> "start", i |-> i + 1, get |-> at[t].get]
        /\ \A u \in Threads : u # t => at'[u] = at[u]
    BY <2>1 DEF PoolTypeOK
  <2>4. AtOK(t)'
    BY <1>1, <1>2, <1>3, <1>6, <2>1, <2>3 DEF AtOK, HoldsMutex, Picking
  <2>5. ASSUME NEW u \in Threads, u # t PROVE AtOK(u)'
    BY <1>1, <1>4, <2>3, <2>5, OthersOK
  <2>6. HoldsMutex(t)'
    BY <2>3 DEF HoldsMutex
  <2> QED BY <1>1, <1>2, <1>5, <2>1, <2>2, <2>4, <2>5, <2>6 DEF HoldsMutex
<1>7. CASE ~(i < size)
  <2>1. mutex' = NoThread /\ initialized' = TRUE
    BY <1>7 DEF StartQueue
  <2>2. PICK pc \in [label : {"idle", "pick"}, i : {0}, get : BOOLEAN] :
          at' = [at EXCEPT ![t] = pc]
    BY <1>7 DEF StartQueue, Goto, AfterInitialize, Pc, Idle, PoolTypeOK
  <2>3. PoolTypeOK'
    BY <1>1, <1>2, <2>1, <2>2 DEF PoolTypeOK, Labels
  <2>4. at'[t] = pc /\ \A u \in Threads : u # t => at'[u] = at[u]
    BY <2>2 DEF PoolTypeOK
  <2>5. AtOK(t)'
    BY <2>1, <2>4 DEF AtOK, HoldsMutex, Picking
  <2>6. ASSUME NEW u \in Threads, u # t PROVE AtOK(u)'
    BY <1>1, <1>4, <2>4, <2>6, OthersOK
  <2>7. Settled' /\ size' > 0
    BY <1>1, <1>2, <1>3, <1>7, <2>1 DEF Settled, Queues
  <2> QED BY <1>2, <1>5, <2>1, <2>3, <2>5, <2>6, <2>7
<1> QED BY <1>6, <1>7

\* GetCompletionQueue picks a queue, without the mutex: the pool is empty only if
\* the thread was overtaken.
LEMMA PickInv ==
  ASSUME PoolInv, pool_fault = "none", NEW t \in Threads, NEW qid \in Queues, Pick(t, qid)
  PROVE  PoolInv'
<1> USE MaxQueuesAssumption
<1>1. Picking(t) /\ ~HoldsMutex(t) /\ size \in 0 .. MaxQueues
  BY DEF Pick, Picking, HoldsMutex, PoolInv, PoolTypeOK
<1>2. t \notin overtaken => initialized /\ size > 0
  BY <1>1 DEF PoolInv, AtOK
<1>3. CASE size = 0
  <2>1. /\ pool_fault' = "no_queue"
        /\ UNCHANGED <<mutex, initialized, number_completion_queues, size, thread, closed, at, overtaken>>
    BY <1>3 DEF Pick
  <2>2. t \in overtaken
    BY <1>2, <1>3
  <2>3. PoolIsSafe'
    BY <1>1, <2>1, <2>2 DEF PoolIsSafe, Picking
  <2>4. PoolTypeOK'
    BY <2>1 DEF PoolInv, PoolTypeOK
  <2> QED BY Zenon, <2>1, <2>3, <2>4, StoppedOK
<1>4. CASE size # 0
  <2> DEFINE pc == [label |-> "at", i |-> qid, get |-> TRUE]
  <2>1. /\ at' = [at EXCEPT ![t] = pc] /\ qid <= size
        /\ UNCHANGED <<mutex, initialized, number_completion_queues, size, thread, closed,
                       pool_fault, overtaken>>
    BY <1>4 DEF Pick, Goto, Pc
  <2>2. pc \in [label : Labels \ {"start", "close", "join"}, i : 0 .. MaxQueues, get : BOOLEAN]
    BY DEF Labels, Queues
  <2>3. pc.label = "at" /\ pc.i = qid /\ number_completion_queues \in Queues
    BY DEF PoolInv, PoolTypeOK
  <2> HIDE DEF pc
  <2> QED BY <1>1, <1>2, <2>1, <2>2, <2>3, OutsideOK
<1> QED BY <1>3, <1>4

\* at(qid): the queue is there, unless the thread was overtaken.
LEMMA ReturnQueueInv ==
  ASSUME PoolInv, pool_fault = "none", NEW t \in Threads, ReturnQueue(t)
  PROVE  /\ PoolInv' /\ UNCHANGED <<mutex, size, thread, closed>>
         /\ (ShuttingDown' => ShuttingDown)
         /\ (pool_fault' = "none" => at[t].i \in 1 .. size)
<1> USE MaxQueuesAssumption
<1>1. /\ Picking(t) /\ ~HoldsMutex(t) /\ size \in 0 .. MaxQueues /\ at[t].i \in Queues
      /\ at[t].label = "at" /\ UNCHANGED <<mutex, size, thread, closed>>
  BY DEF ReturnQueue, Picking, HoldsMutex, PoolInv, PoolTypeOK, AtOK
<1>2. CASE at[t].i > size
  <2>1. /\ pool_fault' = "no_queue"
        /\ UNCHANGED <<mutex, initialized, number_completion_queues, size, thread, closed, at, overtaken>>
    BY <1>2 DEF ReturnQueue
  <2>2. t \in overtaken
    BY <1>1, <1>2 DEF PoolInv, AtOK, Queues
  <2>3. PoolIsSafe'
    BY <1>1, <2>1, <2>2 DEF PoolIsSafe, Picking
  <2>4. PoolTypeOK'
    BY <2>1 DEF PoolInv, PoolTypeOK
  <2>5. PoolInv'
    BY Zenon, <2>1, <2>3, <2>4, StoppedOK
  <2> QED BY <1>1, <2>1, <2>5 DEF ShuttingDown
<1>3. CASE ~(at[t].i > size)
  <2> DEFINE pc == [label |-> "idle", i |-> 0, get |-> FALSE]
  <2>1. /\ at' = [at EXCEPT ![t] = pc] /\ overtaken' = overtaken \ {t}
        /\ UNCHANGED <<mutex, initialized, number_completion_queues, size, thread, closed, pool_fault>>
    BY <1>3 DEF ReturnQueue, Goto, Pc, Idle
  <2>2. /\ pc \in [label : Labels \ {"start", "close", "join"}, i : 0 .. MaxQueues, get : BOOLEAN]
        /\ pc.label = "idle" /\ number_completion_queues \in Queues
    BY DEF Labels, PoolInv, PoolTypeOK
  <2> HIDE DEF pc
  <2>3. PoolInv'
    BY <1>1, <2>1, <2>2, OutsideOK
  <2>4. ShuttingDown' => ShuttingDown
    BY <2>1, <2>2 DEF ShuttingDown, PoolInv, PoolTypeOK
  <2> QED BY <1>1, <1>3, <2>3, <2>4 DEF Queues
<1> QED BY <1>2, <1>3

\* Shutdown gets the mutex and finds queues to close, or none.
LEMMA ShutdownInv ==
  ASSUME PoolInv, pool_fault = "none", NEW t \in Threads, Shutdown(t)
  PROVE  PoolInv'
<1> USE ThreadsAssumption, MaxQueuesAssumption DEF PoolInv
<1>1. mutex = NoThread /\ UNCHANGED <<initialized, number_completion_queues, size, thread,
                                      closed, pool_fault, overtaken>>
  BY DEF Shutdown
<1>2. CASE ~(size > 0)
  BY <1>1, <1>2 DEF Shutdown, PoolTypeOK, PoolIsSafe, AtOK, HoldsMutex, Picking, Settled
<1>3. CASE size > 0
  <2>1. at' = [at EXCEPT ![t] = [label |-> "close", i |-> 1, get |-> FALSE]] /\ mutex' = t
    BY <1>3 DEF Shutdown, Goto, Pc
  <2>2. PoolTypeOK'
    BY <1>1, <2>1 DEF PoolTypeOK, Labels
  <2>3. /\ at'[t] = [label |-> "close", i |-> 1, get |-> FALSE]
        /\ \A u \in Threads : u # t => at'[u] = at[u]
    BY <2>1 DEF PoolTypeOK
  <2>4. initialized /\ 1 \in 1 .. size
    BY <1>1, <1>3 DEF Settled, PoolTypeOK
  <2>5. AtOK(t)'
    <3>1. \A j \in Queues :
            /\ thread[j] = IF j < 1 THEN "joined" ELSE IF j <= size THEN "running" ELSE "none"
            /\ ~(j < 1)
      BY <1>1 DEF Settled, Queues
    <3> QED BY <1>1, <2>1, <2>3, <2>4, <3>1 DEF AtOK, HoldsMutex, Picking, Queues
  <2>6. ASSUME NEW u \in Threads, u # t PROVE AtOK(u)'
    BY <1>1, <2>3, <2>4, <2>6, OthersOK
  <2>7. HoldsMutex(t)' /\ PoolIsSafe'
    BY <1>1, <2>3 DEF HoldsMutex, PoolIsSafe
  <2> QED BY <1>1, <2>1, <2>2, <2>5, <2>6, <2>7 DEF HoldsMutex
<1> QED BY <1>2, <1>3

\* Shutdown shuts one completion queue down.
LEMMA ShutdownQueueInv ==
  ASSUME PoolInv, pool_fault = "none", NEW t \in Threads, ShutdownQueue(t)
  PROVE  PoolInv'
<1> USE ThreadsAssumption, MaxQueuesAssumption DEF PoolInv
<1> DEFINE i == at[t].i
<1>1. /\ mutex = t /\ initialized /\ i \in 1 .. size /\ i \in Queues
      /\ \A j \in Queues :
           /\ thread[j] = IF j < i THEN "joined" ELSE IF j <= size THEN "running" ELSE "none"
           /\ j < i => j \in closed
  BY DEF ShutdownQueue, AtOK, HoldsMutex, PoolTypeOK, Queues
<1>2. /\ at' = [at EXCEPT ![t] = [label |-> "join", i |-> i, get |-> FALSE]]
      /\ pool_fault' = pool_fault /\ closed' = closed \cup {i}
      /\ UNCHANGED <<mutex, initialized, number_completion_queues, size, thread, overtaken>>
  BY <1>1 DEF ShutdownQueue, Goto, Pc
<1>3. PoolTypeOK'
  BY <1>1, <1>2 DEF PoolTypeOK, Labels
<1>4. /\ at'[t] = [label |-> "join", i |-> i, get |-> FALSE]
      /\ \A u \in Threads : u # t => at'[u] = at[u]
  BY <1>2 DEF PoolTypeOK
<1>5. AtOK(t)'
  BY <1>1, <1>2, <1>4 DEF AtOK, HoldsMutex, Picking
<1>6. ASSUME NEW u \in Threads, u # t PROVE AtOK(u)'
  BY <1>1, <1>2, <1>4, <1>6, OthersOK
<1>7. HoldsMutex(t)' /\ PoolIsSafe'
  BY <1>2, <1>4 DEF HoldsMutex, PoolIsSafe
<1> QED BY <1>1, <1>2, <1>3, <1>5, <1>6, <1>7 DEF HoldsMutex

\* Shutdown joins the thread of the queue, and after the last queue empties the pool.
LEMMA JoinInv ==
  ASSUME PoolInv, pool_fault = "none", NEW t \in Threads, NEW drained, Join(t, drained)
  PROVE  PoolInv'
<1> USE ThreadsAssumption, MaxQueuesAssumption DEF PoolInv
<1> DEFINE i == at[t].i
<1>1. /\ mutex = t /\ initialized /\ i \in 1 .. size /\ i \in Queues /\ size \in 0 .. MaxQueues
      /\ i \in closed
      /\ \A j \in Queues :
           /\ thread[j] = IF j < i THEN "joined" ELSE IF j <= size THEN "running" ELSE "none"
           /\ j < i => j \in closed
  BY DEF Join, AtOK, HoldsMutex, PoolTypeOK, Queues
<1>2. UNCHANGED <<number_completion_queues, pool_fault>> /\ PoolIsSafe'
  BY DEF Join, PoolIsSafe
<1>3. CASE i < size
  <2>1. /\ at' = [at EXCEPT ![t] = [label |-> "close", i |-> i + 1, get |-> FALSE]]
        /\ thread' = [thread EXCEPT ![i] = "joined"]
        /\ UNCHANGED <<mutex, initialized, size, closed, overtaken>>
    BY <1>3 DEF Join, Goto, Pc
  <2>2. PoolTypeOK'
    BY <1>1, <1>2, <1>3, <2>1 DEF PoolTypeOK, Labels, Queues
  <2>3. /\ at'[t] = [label |-> "close", i |-> i + 1, get |-> FALSE]
        /\ \A u \in Threads : u # t => at'[u] = at[u]
    BY <2>1 DEF PoolTypeOK
  <2>4. \A j \in Queues :
          /\ thread'[j] = IF j < i + 1 THEN "joined" ELSE IF j <= size THEN "running" ELSE "none"
          /\ j < i + 1 => j \in closed
    BY <1>1, <2>1 DEF PoolTypeOK, Queues
  <2>5. AtOK(t)'
    BY <1>1, <1>3, <2>1, <2>3, <2>4 DEF AtOK, HoldsMutex, Picking
  <2>6. ASSUME NEW u \in Threads, u # t PROVE AtOK(u)'
    BY <1>1, <2>1, <2>3, <2>6, OthersOK
  <2>7. HoldsMutex(t)'
    BY <2>3 DEF HoldsMutex
  <2> QED BY <1>1, <1>2, <2>1, <2>2, <2>5, <2>6, <2>7 DEF HoldsMutex
<1>4. CASE ~(i < size)
  <2>1. /\ at' = [at EXCEPT ![t] = [label |-> "idle", i |-> 0, get |-> FALSE]]
        /\ thread' = [j \in Queues |-> "none"]
        /\ mutex' = NoThread /\ initialized' = FALSE /\ size' = 0 /\ closed' = {}
        /\ overtaken' = overtaken \cup {u \in Threads : Picking(u)}
    BY <1>4 DEF Join, Goto, Pc, Idle
  <2>2. PoolTypeOK'
    <3>1. thread' \in [Queues -> {"none", "running", "joined"}]
      BY <2>1
    <3>2. at' \in [Threads -> [label : Labels, i : 0 .. MaxQueues, get : BOOLEAN]]
      BY <2>1 DEF PoolTypeOK, Labels
    <3>3. overtaken' \in SUBSET Threads
      BY <2>1 DEF PoolTypeOK
    <3> QED BY <1>2, <2>1, <3>1, <3>2, <3>3 DEF PoolTypeOK
  <2>3. /\ at'[t].label = "idle" /\ \A u \in Threads : u # t => at'[u] = at[u]
    BY <2>1 DEF PoolTypeOK
  <2>4. AtOK(t)'
    BY <2>3 DEF AtOK, HoldsMutex, Picking
  <2>5. ASSUME NEW u \in Threads, u # t PROVE AtOK(u)'
    <3>1. Picking(u) => u \in overtaken'
      BY <2>1
    <3> QED BY <1>1, <2>3, <2>5, <3>1, OthersOK
  <2>6. Settled'
    BY <2>1 DEF Settled, Queues
  <2> QED BY <1>2, <2>1, <2>2, <2>4, <2>5, <2>6
<1> QED BY <1>3, <1>4

\* A queue that is not shut down has not lost its thread, and none is shut down
\* when no Shutdown is under way.
LEMMA PoolQueues ==
  ASSUME PoolInv
  PROVE  /\ \A q \in 1 .. size : q \notin closed => thread[q] # "joined"
         /\ ~ShuttingDown => closed = {}
<1> USE ThreadsAssumption, MaxQueuesAssumption DEF PoolInv
<1>1. \A q \in 1 .. size : q \in Queues
  BY DEF PoolTypeOK, Queues
<1>2. CASE mutex = NoThread
  BY <1>1, <1>2 DEF Settled
<1>3. CASE mutex # NoThread
  <2>1. mutex \in Threads /\ AtOK(mutex) /\ HoldsMutex(mutex)
    BY <1>3 DEF PoolTypeOK
  <2>2. CASE at[mutex].label = "start"
    BY <1>1, <2>1, <2>2 DEF AtOK
  <2>3. CASE at[mutex].label \in {"close", "join"}
    BY <1>1, <2>1, <2>3 DEF AtOK, ShuttingDown
  <2> QED BY <2>1, <2>2, <2>3 DEF HoldsMutex
<1> QED BY <1>2, <1>3

-----------------------------------------------------------------------------

\* A step of the pool leaves the clients as they are; it must not take their
\* queues from them.
LEMMA ClientsFrame ==
  ASSUME ClientInv, UNCHANGED <<stage, op, event, received, status, callback, calls, fault>>,
         queue' \in [Clients -> 0 .. MaxQueues], exposed \subseteq exposed', exposed' \subseteq Clients,
         \A c \in Clients : QueueOK(c)'
  PROVE  ClientInv'
<1>1. ClientTypes'
  BY Zenon DEF ClientInv, ClientTypes
<1>2. ASSUME NEW c \in Clients PROVE TurnsOK(c)' /\ CallsOK(c)'
  BY Zenon DEF ClientInv, TurnsOK, CallsOK, Active
<1>3. fault' \subseteq exposed'
  BY Zenon DEF ClientInv
<1> QED BY Zenon, <1>1, <1>2, <1>3 DEF ClientInv

\* A step that changes nothing of the clients, and of the pool only where a thread
\* is that is not to begin a Shutdown.
LEMMA QueuesFrame ==
  ASSUME ClientInv, UNCHANGED clientVars, UNCHANGED <<size, thread>>, ShuttingDown' => ShuttingDown
  PROVE  ClientInv'
<1>1. UNCHANGED <<stage, queue, op, event, received, status, callback, calls, fault, exposed>>
  BY DEF clientVars
<1>2. ASSUME NEW c \in Clients PROVE QueueOK(c)'
  BY Zenon, <1>1 DEF ClientInv, QueueOK, Active, Unfinished
<1>3. queue' \in [Clients -> 0 .. MaxQueues] /\ exposed \subseteq exposed' /\ exposed' \subseteq Clients
  BY Zenon, <1>1 DEF ClientInv, ClientTypes
<1> QED BY Zenon, <1>1, <1>2, <1>3, ClientsFrame

\* Where the other threads are does not depend on a step of t.
LEMMA NoNewShutdown ==
  ASSUME PoolTypeOK, NEW t \in Threads, NEW pc, at' = [at EXCEPT ![t] = pc],
         pc.label \notin {"close", "join"} \/ at[t].label \in {"close", "join"}
  PROVE  ShuttingDown' => ShuttingDown
<1> SUFFICES ASSUME NEW u \in Threads, at'[u].label \in {"close", "join"} PROVE ShuttingDown
  BY DEF ShuttingDown
<1>1. at'[t] = pc /\ (u # t => at'[u] = at[u])
  BY DEF PoolTypeOK
<1> QED BY <1>1 DEF ShuttingDown

\* The steps of a call to the pool that change no queue.
LEMMA QuietStepInv ==
  ASSUME Inv, pool_fault = "none", NEW t \in Threads, UNCHANGED clientVars,
         \/ \E n \in 0 .. MaxQueues : SetNumberCompletionQueues(t, n)
         \/ StoreNumber(t) \/ ShutdownQueue(t)
         \/ \E get \in BOOLEAN : Enter(t, get)
         \/ \E qid \in Queues : Pick(t, qid)
  PROVE  Inv'
<1> USE DEF Inv
<1>1. PoolInv'
  BY Zenon, SetNumberInv, StoreNumberInv, ShutdownQueueInv, EnterInv, PickInv
<1>2. UNCHANGED <<size, thread>>
  BY Zenon DEF SetNumberCompletionQueues, StoreNumber, ShutdownQueue, Enter, Pick
<1>3. \/ at' = at
      \/ \E pc : /\ at' = [at EXCEPT ![t] = pc]
                 /\ pc.label \notin {"close", "join"} \/ at[t].label \in {"close", "join"}
  <2>1. CASE \E n \in 0 .. MaxQueues : SetNumberCompletionQueues(t, n)
    <3>1. PICK n \in 0 .. MaxQueues : SetNumberCompletionQueues(t, n)
      BY Zenon, <2>1
    <3>2. at' = at \/ at' = [at EXCEPT ![t] = Pc("set", n, FALSE)]
      BY Zenon, <3>1 DEF SetNumberCompletionQueues, Goto
    <3>3. Pc("set", n, FALSE).label = "set"
      BY DEF Pc
    <3>4. Pc("set", n, FALSE).label \notin {"close", "join"}
      BY <3>3
    <3> QED BY Zenon, <3>2, <3>4
  <2>2. CASE StoreNumber(t)
    <3>1. at' = [at EXCEPT ![t] = Idle] /\ Idle.label \notin {"close", "join"}
      BY <2>2 DEF StoreNumber, Goto, Idle, Pc
    <3> QED BY Zenon, <3>1
  <2>3. CASE ShutdownQueue(t)
    <3>1. at' = [at EXCEPT ![t] = Pc("join", at[t].i, FALSE)] /\ at[t].label \in {"close", "join"}
      BY <2>3 DEF ShutdownQueue, Goto
    <3> QED BY Zenon, <3>1
  <2>4. CASE \E get \in BOOLEAN : Enter(t, get)
    <3>1. PICK get \in BOOLEAN : Enter(t, get)
      BY Zenon, <2>4
    <3>2. at' = [at EXCEPT ![t] = Pc("lock", 0, get)] /\ Pc("lock", 0, get).label \notin {"close", "join"}
      BY <3>1 DEF Enter, Goto, Pc
    <3> QED BY Zenon, <3>2
  <2>5. CASE \E qid \in Queues : Pick(t, qid)
    <3>1. PICK qid \in Queues : Pick(t, qid)
      BY Zenon, <2>5
    <3>2. at' = at \/ at' = [at EXCEPT ![t] = Pc("at", qid, TRUE)]
      BY Zenon, <3>1 DEF Pick, Goto
    <3>3. Pc("at", qid, TRUE).label \notin {"close", "join"}
      BY DEF Pc
    <3> QED BY Zenon, <3>2, <3>3
  <2> QED BY Zenon, <2>1, <2>2, <2>3, <2>4, <2>5
<1>4. ShuttingDown' => ShuttingDown
  <2>1. CASE at' = at
    BY Zenon, <2>1 DEF ShuttingDown
  <2>2. CASE \E pc : /\ at' = [at EXCEPT ![t] = pc]
                     /\ pc.label \notin {"close", "join"} \/ at[t].label \in {"close", "join"}
    BY Zenon, <2>2, NoNewShutdown DEF PoolInv
  <2> QED BY Zenon, <1>3, <2>1, <2>2
<1> QED BY Zenon, <1>1, <1>2, <1>4, QueuesFrame

\* Initialize finds the pool running, or makes a pool to which no client points.
LEMMA InitializeStepInv ==
  ASSUME Inv, pool_fault = "none", NEW t \in Threads, UNCHANGED clientVars, Initialize(t)
  PROVE  Inv'
<1> USE DEF Inv
<1>1. PoolInv'
  BY Zenon, InitializeInv
<1>2. PICK pc : at' = [at EXCEPT ![t] = pc] /\ pc.label \notin {"close", "join"}
  <2>1. AfterInitialize(t).label \notin {"close", "join"} /\ Pc("start", 1, at[t].get).label \notin {"close", "join"}
    BY DEF AfterInitialize, Pc, Idle
  <2> QED BY Zenon, <2>1 DEF Initialize, Goto
<1>3. ShuttingDown' => ShuttingDown
  BY Zenon, <1>2, NoNewShutdown DEF PoolInv
<1>4. thread' = thread /\ mutex = NoThread
  BY Zenon DEF Initialize
<1>5. CASE initialized
  BY Zenon, <1>1, <1>3, <1>4, <1>5, QueuesFrame DEF Initialize
<1>6. CASE ~initialized
  <2>1. size = 0 /\ size' \in 0 .. MaxQueues
    BY <1>1, <1>4, <1>6, MaxQueuesAssumption DEF PoolInv, Settled, PoolTypeOK
  <2>2. UNCHANGED <<stage, queue, op, event, received, status, callback, calls, fault, exposed>>
    BY DEF clientVars
  <2>3. ASSUME NEW c \in Clients PROVE QueueOK(c)'
    <3>1. QueueOK(c) /\ queue[c] \in 0 .. size
      BY Zenon DEF ClientInv, QueueOK
    <3>2. queue[c] = 0 /\ queue[c] \in 0 .. size'
      BY <2>1, <3>1, MaxQueuesAssumption
    <3> QED BY Zenon, <2>2, <3>1, <3>2 DEF QueueOK, Active, Unfinished
  <2>4. queue' \in [Clients -> 0 .. MaxQueues] /\ exposed \subseteq exposed' /\ exposed' \subseteq Clients
    BY Zenon, <2>2 DEF ClientInv, ClientTypes
  <2> QED BY Zenon, <1>1, <2>2, <2>3, <2>4, ClientsFrame
<1> QED BY Zenon, <1>5, <1>6

\* Initialize starts the thread of one queue.
LEMMA StartQueueStepInv ==
  ASSUME Inv, pool_fault = "none", NEW t \in Threads, UNCHANGED clientVars, StartQueue(t)
  PROVE  Inv'
<1> USE DEF Inv
<1>1. PoolInv'
  BY Zenon, StartQueueInv
<1>2. PICK pc : at' = [at EXCEPT ![t] = pc] /\ pc.label \notin {"close", "join"}
  <2>1. /\ AfterInitialize(t).label \notin {"close", "join"}
        /\ Pc("start", at[t].i + 1, at[t].get).label \notin {"close", "join"}
    BY DEF AfterInitialize, Pc, Idle
  <2> QED BY Zenon, <2>1 DEF StartQueue, Goto
<1>3. ShuttingDown' => ShuttingDown
  BY Zenon, <1>2, NoNewShutdown DEF PoolInv
<1> DEFINE i == at[t].i
<1>4. size' = size /\ thread' = [thread EXCEPT ![i] = "running"]
  BY Zenon DEF StartQueue
<1>5. UNCHANGED <<stage, queue, op, event, received, status, callback, calls, fault, exposed>>
  BY DEF clientVars
<1> HIDE DEF i
<1>6. ASSUME NEW c \in Clients PROVE QueueOK(c)'
  <2>1. QueueOK(c) /\ "running" # "joined"
    BY DEF ClientInv
  <2>2. thread \in [Queues -> {"none", "running", "joined"}] /\ size \in 0 .. MaxQueues
    BY Zenon DEF PoolInv, PoolTypeOK
  <2>3. queue[c] \in 0 .. size /\ queue[c] # 0 => queue[c] \in Queues
    BY <2>2, MaxQueuesAssumption DEF Queues
  <2>4. thread[queue[c]] # "joined" /\ queue[c] \in Queues => thread'[queue[c]] # "joined"
    BY Zenon, <1>4, <2>1, <2>2
  <2> QED BY Zenon, <1>3, <1>4, <1>5, <2>1, <2>3, <2>4 DEF QueueOK, Active, Unfinished
<1>7. queue' \in [Clients -> 0 .. MaxQueues] /\ exposed \subseteq exposed' /\ exposed' \subseteq Clients
  BY Zenon, <1>5 DEF ClientInv, ClientTypes
<1> QED BY Zenon, <1>1, <1>5, <1>6, <1>7, ClientsFrame

\* Shutdown begins: it exposes the clients that will start more operations.
LEMMA ShutdownPoolInv ==
  ASSUME Inv, pool_fault = "none", NEW t \in Threads, ShutdownPool(t)
  PROVE  Inv'
<1> USE DEF Inv
<1>1. PoolInv'
  BY Zenon, ShutdownInv DEF ShutdownPool
<1>2. /\ UNCHANGED <<stage, queue, op, event, received, status, callback, calls, fault, size, thread>>
      /\ exposed' = exposed \cup {c \in Clients : Unfinished(c)}
  BY Zenon DEF ShutdownPool, Shutdown
<1>3. ASSUME NEW c \in Clients PROVE QueueOK(c)'
  <2>1. Unfinished(c)' => Unfinished(c) /\ c \in exposed'
    BY Zenon, <1>2 DEF Unfinished
  <2> QED BY Zenon, <1>2, <2>1 DEF ClientInv, QueueOK, Active
<1>4. queue' \in [Clients -> 0 .. MaxQueues] /\ exposed \subseteq exposed' /\ exposed' \subseteq Clients
  BY Zenon, <1>2 DEF ClientInv, ClientTypes
<1> QED BY Zenon, <1>1, <1>2, <1>3, <1>4, ClientsFrame

\* The thread joins only a drained queue, and the queues are destroyed after the
\* last join: no client with something to do loses its own.
LEMMA JoinAndDestroyInv ==
  ASSUME Inv, pool_fault = "none", NEW t \in Threads, JoinAndDestroy(t)
  PROVE  Inv'
<1> USE DEF Inv
<1> DEFINE i == at[t].i
<1>1. /\ Join(t, Drained(i)) /\ Drained(i) /\ at[t].label = "join"
      /\ UNCHANGED <<stage, op, event, received, status, callback, calls, fault, exposed>>
      /\ queue' = IF size' = 0 THEN [c \in Clients |-> 0] ELSE queue
  BY Zenon DEF JoinAndDestroy, Join
<1>2. PoolInv'
  BY Zenon, <1>1, JoinInv
<1>3. ShuttingDown
  BY <1>1 DEF ShuttingDown
<1>4. /\ i \in 1 .. size
      /\ \A j \in Queues :
           thread[j] = IF j < i THEN "joined" ELSE IF j <= size THEN "running" ELSE "none"
  BY <1>1 DEF PoolInv, AtOK
<1>5. size \in 0 .. MaxQueues /\ thread \in [Queues -> {"none", "running", "joined"}]
  BY Zenon DEF PoolInv, PoolTypeOK
<1>6. ASSUME NEW c \in Clients
      PROVE  /\ queue[c] \in 0 .. size /\ ~(Unfinished(c) /\ c \notin exposed)
             /\ Active(c) => queue[c] \in Queues /\ i < queue[c] /\ queue[c] <= size
  <2>1. QueueOK(c)
    BY Zenon DEF ClientInv
  <2>2. Active(c) => queue[c] # i
    BY Zenon, <1>1 DEF Drained, Active
  <2>3. queue[c] \in 0 .. size /\ queue[c] # 0 => queue[c] \in Queues /\ queue[c] <= size
    BY <1>5, MaxQueuesAssumption DEF Queues
  <2>4. Active(c) => ~(queue[c] < i)
    BY Zenon, <1>4, <2>1, <2>3 DEF QueueOK
  <2>5. queue[c] \in 0 .. size
    BY Zenon, <2>1 DEF QueueOK
  <2>6. queue[c] # i /\ ~(queue[c] < i) => i < queue[c]
    BY <1>4, <1>5, <2>5, MaxQueuesAssumption
  <2> HIDE DEF i
  <2> QED BY Zenon, <1>3, <2>1, <2>2, <2>3, <2>4, <2>5, <2>6 DEF QueueOK
<1>7. exposed \subseteq exposed' /\ exposed' \subseteq Clients
  BY Zenon, <1>1 DEF ClientInv
<1>8. ASSUME NEW c \in Clients
      PROVE  (Unfinished(c)' <=> Unfinished(c)) /\ (Active(c)' <=> Active(c))
  BY Zenon, <1>1 DEF Unfinished, Active
<1>9. CASE i < size
  <2>1. size' = size /\ thread' = [thread EXCEPT ![i] = "joined"]
    BY <1>1, <1>9 DEF Join
  <2>2. queue' = queue
    BY <1>1, <1>4, <1>5, <2>1, MaxQueuesAssumption
  <2>3. ASSUME NEW c \in Clients PROVE QueueOK(c)'
    <3>1. Active(c) => queue[c] # 0 /\ thread'[queue[c]] # "joined"
      <4> SUFFICES ASSUME Active(c) PROVE queue[c] # 0 /\ thread'[queue[c]] # "joined"
        OBVIOUS
      <4>1. queue[c] \in Queues /\ i < queue[c] /\ queue[c] <= size /\ queue[c] \in 0 .. size
        BY Zenon, <1>6
      <4>2. queue[c] # 0 /\ queue[c] # i /\ ~(queue[c] < i)
        BY <1>4, <1>5, <4>1, MaxQueuesAssumption
      <4>3. thread'[queue[c]] = thread[queue[c]]
        BY Zenon, <1>5, <2>1, <4>1, <4>2
      <4>4. thread[queue[c]] = "running" /\ "running" # "joined"
        BY <1>4, <4>1, <4>2
      <4> QED BY Zenon, <4>2, <4>3, <4>4
    <3> QED BY Zenon, <1>1, <1>6, <1>8, <2>1, <2>2, <3>1 DEF QueueOK
  <2>4. queue' \in [Clients -> 0 .. MaxQueues]
    BY Zenon, <2>2 DEF ClientInv, ClientTypes
  <2> QED BY Zenon, <1>1, <1>2, <1>7, <2>3, <2>4, ClientsFrame
<1>10. CASE ~(i < size)
  <2>1. size' = 0 /\ queue' = [c \in Clients |-> 0]
    BY <1>1, <1>10 DEF Join
  <2>2. ASSUME NEW c \in Clients PROVE QueueOK(c)'
    <3>1. ~Active(c)
      <4> SUFFICES ASSUME Active(c) PROVE FALSE
        OBVIOUS
      <4>1. i < queue[c] /\ queue[c] <= size /\ queue[c] \in 0 .. size
        BY Zenon, <1>6
      <4> QED BY <1>4, <1>5, <1>10, <4>1, MaxQueuesAssumption
    <3>2. queue'[c] \in 0 .. size'
      BY <2>1
    <3> QED BY Zenon, <1>1, <1>6, <1>8, <3>1, <3>2 DEF QueueOK
  <2>3. queue' \in [Clients -> 0 .. MaxQueues]
    BY <2>1, MaxQueuesAssumption
  <2> QED BY Zenon, <1>1, <1>2, <1>7, <2>2, <2>3, ClientsFrame
<1> QED BY Zenon, <1>9, <1>10

-----------------------------------------------------------------------------

\* The clients that a step is not about.
LEMMA OtherClients ==
  ASSUME ClientInv, NEW c \in Clients, UNCHANGED <<size, thread>>, ShuttingDown' => ShuttingDown,
         \A d \in Clients : d # c =>
           /\ stage'[d] = stage[d] /\ queue'[d] = queue[d] /\ op'[d] = op[d]
           /\ event'[d] = event[d] /\ received'[d] = received[d]
           /\ callback'[d] = callback[d] /\ calls'[d] = calls[d],
         ClientTypes', exposed \subseteq exposed', exposed' \subseteq Clients, fault' \subseteq exposed',
         TurnsOK(c)', QueueOK(c)', CallsOK(c)'
  PROVE  ClientInv'
<1>1. ASSUME NEW d \in Clients, d # c PROVE TurnsOK(d)' /\ QueueOK(d)' /\ CallsOK(d)'
  <2>1. TurnsOK(d) /\ QueueOK(d) /\ CallsOK(d)
    BY Zenon DEF ClientInv
  <2>2. /\ stage'[d] = stage[d] /\ queue'[d] = queue[d] /\ op'[d] = op[d]
        /\ event'[d] = event[d] /\ received'[d] = received[d]
        /\ callback'[d] = callback[d] /\ calls'[d] = calls[d]
    BY Zenon, <1>1
  <2>3. TurnsOK(d)'
    BY Zenon, <2>1, <2>2 DEF TurnsOK, Active
  <2>4. QueueOK(d)'
    BY Zenon, <2>1, <2>2 DEF QueueOK, Active, Unfinished
  <2>5. CallsOK(d)'
    BY Zenon, <2>1, <2>2 DEF CallsOK, Active
  <2> QED BY Zenon, <2>3, <2>4, <2>5
<1> QED BY Zenon, <1>1 DEF ClientInv

\* Steps of the clients leave the pool as it is.
LEMMA PoolFrame ==
  ASSUME PoolInv, UNCHANGED poolVars
  PROVE  PoolInv' /\ UNCHANGED <<size, thread>> /\ (ShuttingDown' <=> ShuttingDown)
<1>1. UNCHANGED <<mutex, initialized, number_completion_queues, size, thread, closed, at,
                  pool_fault, overtaken>>
  BY DEF poolVars
<1> QED BY Zenon, <1>1 DEF PoolInv, PoolTypeOK, PoolIsSafe, AtOK, HoldsMutex, Picking, Settled,
                           ShuttingDown

\* An operation is started on a queue that has its thread, or the client is exposed.
LEMMA StartOpOK ==
  ASSUME Inv, NEW c \in Clients, NEW e \in Events, Unfinished(c), StartOp(c, {e})
  PROVE  /\ fault' \subseteq exposed
         /\ \/ /\ op' = [op EXCEPT ![c] = op[c] \cup {e}]
               /\ queue[c] # 0 /\ thread[queue[c]] # "joined"
            \/ op' = [op EXCEPT ![c] = op[c] \cup {}]
<1> USE DEF Inv
<1>1. QueueOK(c) /\ fault \subseteq exposed /\ op \in [Clients -> SUBSET Events]
  BY Zenon DEF ClientInv, ClientTypes
<1>2. CASE queue[c] = 0 \/ queue[c] \in closed
  <2>1. fault' = fault \cup {c} /\ op' = op
    BY <1>2 DEF StartOp
  <2>2. op' = [op EXCEPT ![c] = op[c] \cup {}]
    BY <1>1, <2>1
  <2>3. c \in exposed
    BY Zenon, <1>1, <1>2, PoolQueues DEF QueueOK
  <2> QED BY Zenon, <1>1, <2>1, <2>2, <2>3
<1>3. CASE ~(queue[c] = 0 \/ queue[c] \in closed)
  <2>1. fault' = fault /\ op' = [op EXCEPT ![c] = op[c] \cup {e}]
    BY <1>3 DEF StartOp
  <2>2. queue[c] \in 0 .. size /\ size \in 0 .. MaxQueues
    BY Zenon, <1>1 DEF QueueOK, PoolInv, PoolTypeOK
  <2>3. queue[c] \in 1 .. size
    BY <1>3, <2>2, MaxQueuesAssumption
  <2> QED BY Zenon, <1>1, <1>3, <2>1, <2>3, PoolQueues
<1> QED BY Zenon, <1>2, <1>3

\* A callback with the next response keeps the order of the calls.
LEMMA AppendResponse ==
  ASSUME NEW s \in Seq(Arguments), Responses(s)
  PROVE  LET u == Append(s, Response(Len(s) + 1))
         IN  u \in Seq(Arguments) /\ Responses(u) /\ InOrder(u) /\ Len(u) = Len(s) + 1
<1>1. Response(Len(s) + 1) \in Arguments
  BY DEF Arguments
<1> QED BY <1>1 DEF Responses, InOrder

\* A callback without a response is the last of the calls.
LEMMA AppendEnd ==
  ASSUME NEW s \in Seq(Arguments), Responses(s), NEW code \in {"OK", "INTERNAL", "error"}
  PROVE  Append(s, End(code)) \in Seq(Arguments) /\ InOrder(Append(s, End(code)))
<1>1. End(code) \in Arguments /\ End(code)[1] = "end"
  BY DEF Arguments, End
<1> QED BY <1>1 DEF Responses, InOrder

\* A client is made with the queue that GetCompletionQueue returned, if it did.
LEMMA ConstructInv ==
  ASSUME Inv, pool_fault = "none", NEW t \in Threads, NEW c \in Clients, Construct(t, c)
  PROVE  Inv'
<1> USE DEF Inv
<1> DEFINE i == at[t].i
<1>1. /\ PoolInv' /\ UNCHANGED <<size, thread>> /\ (ShuttingDown' => ShuttingDown)
      /\ (pool_fault' = "none" => i \in 1 .. size)
  BY Zenon, ReturnQueueInv DEF Construct
<1>2. /\ stage[c] = "none" /\ UNCHANGED <<op, event, received, status, callback, calls, fault>>
  BY Zenon DEF Construct
<1> HIDE DEF i
<1>3. CASE pool_fault' # "none"
  <2>1. UNCHANGED clientVars
    BY Zenon, <1>2, <1>3 DEF Construct, clientVars
  <2> QED BY Zenon, <1>1, <2>1, QueuesFrame
<1>4. CASE pool_fault' = "none"
  <2>1. /\ stage' = [stage EXCEPT ![c] = "made"] /\ queue' = [queue EXCEPT ![c] = i]
        /\ exposed' = IF ShuttingDown THEN exposed \cup {c} ELSE exposed
    BY Zenon, <1>4 DEF Construct, i
  <2>2. i \in 0 .. MaxQueues /\ i \in 0 .. size /\ i # 0
    <3>1. size \in 0 .. MaxQueues
      BY Zenon DEF PoolInv, PoolTypeOK
    <3> QED BY <1>1, <1>4, <3>1, MaxQueuesAssumption
  <2>3. ClientTypes'
    BY Zenon, <1>2, <2>1, <2>2 DEF ClientInv, ClientTypes
  <2>4. stage'[c] = "made" /\ queue'[c] = i
    BY Zenon, <2>1 DEF ClientInv, ClientTypes
  <2>5. \A d \in Clients : d # c => stage'[d] = stage[d] /\ queue'[d] = queue[d]
    BY Zenon, <2>1 DEF ClientInv, ClientTypes
  <2>6. TurnsOK(c) /\ CallsOK(c) /\ ~Active(c) /\ "none" # "open" /\ "made" # "open"
    BY <1>2 DEF ClientInv, TurnsOK
  <2>7. exposed \subseteq exposed' /\ exposed' \subseteq Clients /\ fault' \subseteq exposed'
    BY <1>2, <2>1 DEF ClientInv
  <2>8. ~Active(c)'
    BY Zenon, <1>2, <2>6 DEF Active
  <2>9. c \notin exposed' => ~ShuttingDown'
    BY <1>1, <2>1
  <2>10. TurnsOK(c)' /\ CallsOK(c)'
    BY Zenon, <1>2, <2>4, <2>6, <2>8 DEF TurnsOK, CallsOK
  <2>11. QueueOK(c)'
    BY Zenon, <1>1, <2>2, <2>4, <2>8, <2>9 DEF QueueOK
  <2> QED BY Zenon, <1>1, <1>2, <2>3, <2>5, <2>7, <2>10, <2>11, OtherClients
<1> QED BY Zenon, <1>3, <1>4

\* WriteAsync starts the first operation of a client.
LEMMA WriteAsyncInv ==
  ASSUME Inv, NEW c \in Clients, WriteAsync(c)
  PROVE  Inv'
<1> USE DEF Inv
<1> DEFINE first == IF c \in Streaming THEN "WRITE" ELSE "FINISH"
<1>1. /\ stage[c] = "made" /\ stage' = [stage EXCEPT ![c] = "open"]
      /\ StartOp(c, {first}) /\ UNCHANGED poolVars
      /\ UNCHANGED <<queue, event, received, status, callback, calls, exposed>>
  BY Zenon DEF WriteAsync
<1>2. first \in Events /\ (c \notin Streaming => first = "FINISH")
  BY DEF Events
<1> HIDE DEF first
<1>3. PoolInv' /\ UNCHANGED <<size, thread>> /\ (ShuttingDown' <=> ShuttingDown)
  BY Zenon, <1>1, PoolFrame
<1>4. Unfinished(c)
  BY Zenon, <1>1 DEF Unfinished
<1>5. TurnsOK(c) /\ QueueOK(c) /\ CallsOK(c) /\ ~Active(c)
  <2>1. "made" # "open"
    OBVIOUS
  <2> QED BY Zenon, <1>1, <2>1 DEF ClientInv, TurnsOK
<1>6. PICK started \in {{}, {first}} :
        /\ fault' \subseteq exposed /\ op' = [op EXCEPT ![c] = op[c] \cup started]
        /\ started # {} => queue[c] # 0 /\ thread[queue[c]] # "joined"
  BY Zenon, <1>1, <1>2, <1>4, StartOpOK
<1>7. started \in SUBSET Events
  BY <1>2
<1>8. ClientTypes'
  BY Zenon, <1>1, <1>6, <1>7 DEF ClientInv, ClientTypes
<1>9. stage'[c] = "open" /\ op'[c] = started
  BY <1>1, <1>5, <1>6 DEF ClientInv, ClientTypes, Active
<1>10. \A d \in Clients : d # c => stage'[d] = stage[d] /\ op'[d] = op[d]
  BY Zenon, <1>1, <1>6 DEF ClientInv, ClientTypes
<1>11. event'[c] = NoEvent
  BY Zenon, <1>1, <1>5 DEF Active
<1>12. TurnsOK(c)'
  <2>1. event'[c].event = "none"
    BY <1>11 DEF NoEvent
  <2>2. started = {} \/ \E e \in Events : started = {e}
    BY Zenon, <1>2
  <2>3. c \notin Streaming => started \subseteq {"FINISH"}
    BY Zenon, <1>2
  <2> QED BY Zenon, <1>9, <1>11, <2>1, <2>2, <2>3 DEF TurnsOK
<1>13. QueueOK(c)'
  <2>1. Active(c)' => started # {}
    BY Zenon, <1>9, <1>11 DEF Active
  <2>2. (Unfinished(c) /\ c \notin exposed)' => Unfinished(c) /\ c \notin exposed
    BY Zenon, <1>1, <1>4
  <2> QED BY Zenon, <1>1, <1>3, <1>5, <1>6, <2>1, <2>2 DEF QueueOK
<1>14. CallsOK(c)'
  BY Zenon, <1>1, <1>5, <1>9 DEF CallsOK
<1>15. exposed \subseteq exposed' /\ exposed' \subseteq Clients /\ fault' \subseteq exposed'
  BY Zenon, <1>1, <1>6 DEF ClientInv
<1> QED BY Zenon, <1>1, <1>3, <1>8, <1>10, <1>12, <1>13, <1>14, <1>15, OtherClients

\* gRPC completes an operation: its event is in the completion queue.
LEMMA CompleteInv ==
  ASSUME Inv, NEW c \in Clients, NEW e \in Events, NEW ok \in BOOLEAN, Complete(c, e, ok)
  PROVE  Inv'
<1> USE DEF Inv
<1> DEFINE got == received[c] + (IF e = "READ" /\ ok THEN 1 ELSE 0)
<1>1. /\ e \in op[c] /\ op' = [op EXCEPT ![c] = op[c] \ {e}]
      /\ event' = [event EXCEPT ![c] = [event |-> e, ok |-> ok]]
      /\ received' = [received EXCEPT ![c] = IF e = "READ" /\ ok THEN received[c] + 1 ELSE received[c]]
      /\ status' = status \/ \E s \in BOOLEAN : status' = [status EXCEPT ![c] = s]
      /\ UNCHANGED <<stage, queue, callback, calls, fault, exposed>> /\ UNCHANGED poolVars
  BY DEF Complete
<1>2. PoolInv' /\ UNCHANGED <<size, thread>> /\ (ShuttingDown' <=> ShuttingDown)
  BY Zenon, <1>1, PoolFrame
<1>3. TurnsOK(c) /\ QueueOK(c) /\ CallsOK(c) /\ Active(c)
  BY Zenon, <1>1 DEF ClientInv, Active
<1>4. op[c] = {e} /\ event[c] = NoEvent
  BY Zenon, <1>1, <1>3 DEF TurnsOK
<1>5. received' = [received EXCEPT ![c] = got] /\ got \in Nat
  <2>1. received[c] \in Nat
    BY Zenon DEF ClientInv, ClientTypes
  <2>2. got \in Nat /\ got = IF e = "READ" /\ ok THEN received[c] + 1 ELSE received[c]
    BY <2>1
  <2> QED BY Zenon, <1>1, <2>2
<1>6. ClientTypes'
  <2>1. op' \in [Clients -> SUBSET Events]
    BY Zenon, <1>1 DEF ClientInv, ClientTypes
  <2>2. event' \in [Clients -> [event : Events \cup {"none"}, ok : BOOLEAN]]
    BY <1>1 DEF ClientInv, ClientTypes
  <2>3. status' \in [Clients -> BOOLEAN]
    BY Zenon, <1>1 DEF ClientInv, ClientTypes
  <2>4. received' \in [Clients -> Nat]
    <3> HIDE DEF got
    <3> QED BY Zenon, <1>5 DEF ClientInv, ClientTypes
  <2> QED BY Zenon, <1>1, <2>1, <2>2, <2>3, <2>4 DEF ClientInv, ClientTypes
<1>7. op'[c] = {} /\ event'[c] = [event |-> e, ok |-> ok] /\ received'[c] = got
  BY <1>1, <1>4, <1>5 DEF ClientInv, ClientTypes
<1>8. \A d \in Clients : d # c => op'[d] = op[d] /\ event'[d] = event[d] /\ received'[d] = received[d]
  BY Zenon, <1>1 DEF ClientInv, ClientTypes
<1>9. TurnsOK(c)'
  <2>1. e # "none" /\ stage[c] = "open" /\ (c \notin Streaming => e = "FINISH")
    BY <1>3, <1>4 DEF TurnsOK, Events
  <2> QED BY <1>1, <1>7, <2>1 DEF TurnsOK
<1>10. QueueOK(c)'
  <2>1. (Unfinished(c) /\ c \notin exposed)' => Unfinished(c) /\ c \notin exposed
    BY Zenon, <1>1, <1>3 DEF Unfinished, Active
  <2> QED BY Zenon, <1>1, <1>2, <1>3, <2>1 DEF QueueOK
<1>11. CallsOK(c)'
  <2>1. c \notin Streaming => calls[c] = <<>>
    BY Zenon, <1>3 DEF CallsOK
  <2>2. c \in Streaming /\ callback[c] => Responses(calls[c]) /\ received[c] = Len(calls[c])
    <3>1. event[c].event # "READ"
      BY <1>4 DEF NoEvent
    <3>2. Len(calls[c]) \in Nat
      <4>1. calls[c] \in Seq(Arguments)
        BY Zenon DEF ClientInv, ClientTypes
      <4> QED BY <4>1
    <3>3. (IF event[c].event = "READ" /\ event[c].ok THEN 1 ELSE 0) = 0
      BY Zenon, <3>1
    <3>4. Len(calls[c]) + 0 = Len(calls[c])
      BY <3>2
    <3> QED BY Zenon, <1>3, <3>3, <3>4 DEF CallsOK
  <2>3. event'[c].event = e /\ event'[c].ok = ok
    BY <1>7
  <2>4. c \in Streaming /\ callback[c] =>
          received'[c] = Len(calls[c]) + (IF event'[c].event = "READ" /\ event'[c].ok THEN 1 ELSE 0)
    BY Zenon, <1>7, <2>2, <2>3
  <2> QED BY Zenon, <1>1, <1>3, <2>1, <2>2, <2>4 DEF CallsOK
<1>12. exposed \subseteq exposed' /\ exposed' \subseteq Clients /\ fault' \subseteq exposed'
  BY Zenon, <1>1 DEF ClientInv
<1> QED BY Zenon, <1>1, <1>2, <1>6, <1>8, <1>9, <1>10, <1>11, <1>12, OtherClients

\* What holds of the client whose event a thread is about to handle.
LEMMA BeforeHandling ==
  ASSUME Inv, NEW c \in Clients, NEW e \in Events, event[c].event = e
  PROVE  /\ Active(c) /\ op[c] = {} /\ stage[c] = "open" /\ (e # "FINISH" => c \in Streaming)
         /\ calls[c] \in Seq(Arguments) /\ InOrder(calls[c]) /\ callback[c] \in BOOLEAN
         /\ c \in Streaming => Unfinished(c)
         /\ c \notin Streaming => calls[c] = <<>>
         /\ c \in Streaming /\ callback[c] =>
              /\ Responses(calls[c])
              /\ received[c] = Len(calls[c]) + (IF e = "READ" /\ event[c].ok THEN 1 ELSE 0)
<1> USE DEF Inv
<1>1. TurnsOK(c) /\ QueueOK(c) /\ CallsOK(c)
  BY Zenon DEF ClientInv
<1>2. event[c] # NoEvent
  BY DEF NoEvent, Events
<1>3. Active(c) /\ op[c] = {} /\ stage[c] = "open"
  BY Zenon, <1>1, <1>2 DEF Active, TurnsOK
<1>4. e # "FINISH" => c \in Streaming
  BY <1>1 DEF TurnsOK, Events
<1>5. calls[c] \in Seq(Arguments) /\ callback[c] \in BOOLEAN
  BY Zenon DEF ClientInv, ClientTypes
<1>6. c \in Streaming => Unfinished(c)
  BY Zenon, <1>3 DEF Active, Unfinished
<1> QED BY Zenon, <1>1, <1>3, <1>4, <1>5, <1>6 DEF CallsOK

\* A handler takes an event away, may start the next operation of a stream and
\* may call the callback.
LEMMA HandlingInv ==
  ASSUME Inv, NEW c \in Clients, NEW e \in Events, NextEvent(c, e),
         NEW started \in SUBSET Events, op' = [op EXCEPT ![c] = op[c] \cup started],
         started = {} \/ (c \in Streaming /\ \E x \in Events : started = {x}),
         fault' \subseteq exposed,
         NEW more \in BOOLEAN, callback' = [callback EXCEPT ![c] = more],
         NEW made \in Seq(Arguments), calls' = [calls EXCEPT ![c] = made], InOrder(made),
         c \in Streaming /\ more => Responses(made) /\ received[c] = Len(made)
  PROVE  Inv'
<1> USE DEF Inv
<1>1. /\ event[c].event = e /\ event' = [event EXCEPT ![c] = NoEvent]
      /\ UNCHANGED <<stage, queue, received, status, exposed>> /\ UNCHANGED poolVars
  BY DEF NextEvent
<1>2. PoolInv' /\ UNCHANGED <<size, thread>> /\ (ShuttingDown' <=> ShuttingDown)
  BY Zenon, <1>1, PoolFrame
<1>3. Active(c) /\ op[c] = {} /\ stage[c] = "open" /\ (c \in Streaming => Unfinished(c))
  BY Zenon, <1>1, BeforeHandling
<1>4. QueueOK(c)
  BY Zenon DEF ClientInv
<1>5. exposed \subseteq exposed' /\ exposed' \subseteq Clients /\ fault' \subseteq exposed'
  BY Zenon, <1>1 DEF ClientInv
<1>6. ClientTypes'
  <2>1. NoEvent \in [event : Events \cup {"none"}, ok : BOOLEAN]
    BY DEF NoEvent
  <2>2. event' \in [Clients -> [event : Events \cup {"none"}, ok : BOOLEAN]]
    BY Zenon, <1>1, <2>1 DEF ClientInv, ClientTypes
  <2>3. op' \in [Clients -> SUBSET Events]
    BY Zenon DEF ClientInv, ClientTypes
  <2>4. callback' \in [Clients -> BOOLEAN] /\ calls' \in [Clients -> Seq(Arguments)]
    BY Zenon DEF ClientInv, ClientTypes
  <2> QED BY Zenon, <1>1, <2>2, <2>3, <2>4 DEF ClientInv, ClientTypes
<1>7. op'[c] = started /\ event'[c] = NoEvent
  BY <1>1, <1>3 DEF ClientInv, ClientTypes
<1>8. callback'[c] = more /\ calls'[c] = made
  BY Zenon DEF ClientInv, ClientTypes
<1>9. \A d \in Clients : d # c =>
        /\ op'[d] = op[d] /\ event'[d] = event[d] /\ callback'[d] = callback[d] /\ calls'[d] = calls[d]
  BY Zenon, <1>1 DEF ClientInv, ClientTypes
<1>10. event'[c].event = "none" /\ event'[c].ok = FALSE
  BY <1>7 DEF NoEvent
<1>11. TurnsOK(c)'
  <2>1. started = {} \/ \E x \in Events : started = {x}
    BY Zenon
  <2>2. c \notin Streaming => started \subseteq {"FINISH"}
    BY Zenon
  <2> QED BY Zenon, <1>1, <1>3, <1>7, <1>10, <2>1, <2>2 DEF TurnsOK
<1>12. QueueOK(c)'
  <2>1. "open" # "made"
    OBVIOUS
  <2>2. Unfinished(c)' => Unfinished(c)
    BY Zenon, <1>1, <1>3, <2>1 DEF Unfinished
  <2> QED BY Zenon, <1>1, <1>2, <1>3, <1>4, <2>2 DEF QueueOK
<1>13. CallsOK(c)'
  <2>1. c \notin Streaming => ~(stage'[c] # "open" \/ Active(c)')
    BY Zenon, <1>1, <1>3, <1>7 DEF Active
  <2>2. c \in Streaming /\ more => Responses(made) /\ received[c] = Len(made) + 0
    BY DEF Arguments
  <2>3. (IF event'[c].event = "READ" /\ event'[c].ok THEN 1 ELSE 0) = 0
    BY <1>10
  <2> QED BY Zenon, <1>1, <1>8, <2>1, <2>2, <2>3 DEF CallsOK
<1> QED BY Zenon, <1>1, <1>2, <1>5, <1>6, <1>9, <1>11, <1>12, <1>13, OtherClients

\* A unary client handles FINISH: it makes its only call of the callback.
LEMMA HandleUnaryFinishInv ==
  ASSUME Inv, NEW c \in Clients, HandleUnaryFinishEvent(c)
  PROVE  Inv'
<1> DEFINE argument == IF status[c] THEN Response(1) ELSE End("error")
           made == IF callback[c] THEN Append(calls[c], argument) ELSE calls[c]
           more == callback[c] /\ ~FALSE
<1>1. /\ c \notin Streaming /\ NextEvent(c, "FINISH") /\ event[c].event = "FINISH"
      /\ calls' = [calls EXCEPT ![c] = made] /\ callback' = [callback EXCEPT ![c] = more]
      /\ op' = op /\ fault' = fault
  BY DEF HandleUnaryFinishEvent, Call, NextEvent
<1>2. "FINISH" \in Events
  BY DEF Events
<1>3. op[c] = {} /\ calls[c] = <<>> /\ callback[c] \in BOOLEAN
  BY Zenon, <1>1, <1>2, BeforeHandling
<1>4. op' = [op EXCEPT ![c] = op[c] \cup {}]
  BY <1>1 DEF Inv, ClientInv, ClientTypes
<1>5. made \in Seq(Arguments) /\ InOrder(made)
  <2>1. <<>> \in Seq(Arguments) /\ Responses(<<>>) /\ InOrder(<<>>) /\ Response(Len(<<>>) + 1) = Response(1)
    BY DEF Responses, InOrder
  <2>2. Append(<<>>, Response(1)) \in Seq(Arguments) /\ InOrder(Append(<<>>, Response(1)))
    BY Zenon, <2>1, AppendResponse
  <2>3. Append(<<>>, End("error")) \in Seq(Arguments) /\ InOrder(Append(<<>>, End("error")))
    BY <2>1, AppendEnd
  <2> QED BY Zenon, <1>3, <2>1, <2>2, <2>3
<1>6. more \in BOOLEAN /\ {} \in SUBSET Events
  OBVIOUS
<1>7. fault' \subseteq exposed
  BY Zenon, <1>1 DEF Inv, ClientInv
<1> HIDE DEF made, more
<1> QED BY Zenon, <1>1, <1>2, <1>4, <1>5, <1>6, <1>7, HandlingInv

\* The callback is called for the last time.
LEMMA LastCallInv ==
  ASSUME Inv, NEW c \in Clients, c \in Streaming, NEW e \in Events, NextEvent(c, e),
         NEW code \in {"OK", "INTERNAL", "error"}, Call(c, End(code), TRUE),
         NEW started \in SUBSET Events, op' = [op EXCEPT ![c] = op[c] \cup started],
         started = {} \/ (\E x \in Events : started = {x}), fault' \subseteq exposed
  PROVE  Inv'
<1> DEFINE made == IF callback[c] THEN Append(calls[c], End(code)) ELSE calls[c]
           more == callback[c] /\ ~TRUE
<1>1. /\ event[c].event = e
      /\ calls' = [calls EXCEPT ![c] = made] /\ callback' = [callback EXCEPT ![c] = more]
  BY DEF Call, NextEvent
<1>2. /\ calls[c] \in Seq(Arguments) /\ InOrder(calls[c])
      /\ callback[c] => Responses(calls[c])
  BY Zenon, <1>1, BeforeHandling
<1>3. made \in Seq(Arguments) /\ InOrder(made)
  BY Zenon, <1>2, AppendEnd
<1>4. more \in BOOLEAN /\ ~more
  OBVIOUS
<1> HIDE DEF made, more
<1> QED BY Zenon, <1>1, <1>3, <1>4, HandlingInv

\* A stream handles WRITE: it reads, or gives up.
LEMMA HandleWriteInv ==
  ASSUME Inv, NEW c \in Clients, HandleWriteEvent(c)
  PROVE  Inv'
<1>1. NextEvent(c, "WRITE") /\ event[c].event = "WRITE" /\ "WRITE" \in Events
  BY DEF HandleWriteEvent, NextEvent, Events
<1>2. /\ c \in Streaming /\ calls[c] \in Seq(Arguments) /\ InOrder(calls[c]) /\ callback[c] \in BOOLEAN
      /\ callback[c] => Responses(calls[c]) /\ received[c] = Len(calls[c]) + 0
      /\ Unfinished(c)
  <2>1. "WRITE" # "FINISH" /\ "WRITE" # "READ"
    OBVIOUS
  <2> QED BY Zenon, <1>1, <2>1, BeforeHandling
<1>3. {"READ"} \in SUBSET Events /\ {"FINISH"} \in SUBSET Events /\ "READ" \in Events /\ "FINISH" \in Events
  BY DEF Events
<1>4. CASE event[c].ok
  <2>1. StartOp(c, {"READ"}) /\ UNCHANGED <<callback, calls>>
    BY <1>4 DEF HandleWriteEvent
  <2>2. callback' = [callback EXCEPT ![c] = callback[c]] /\ calls' = [calls EXCEPT ![c] = calls[c]]
    BY <2>1 DEF Inv, ClientInv, ClientTypes
  <2>3. callback[c] => Responses(calls[c]) /\ received[c] = Len(calls[c])
    BY <1>2
  <2>4. PICK started \in {{}, {"READ"}} :
          fault' \subseteq exposed /\ op' = [op EXCEPT ![c] = op[c] \cup started]
    BY Zenon, <1>2, <1>3, <2>1, StartOpOK
  <2>5. started \in SUBSET Events /\ (started = {} \/ \E x \in Events : started = {x})
    BY <1>3
  <2> QED BY Zenon, <1>1, <1>2, <2>2, <2>3, <2>4, <2>5, HandlingInv
<1>5. CASE ~event[c].ok
  <2>1. StartOp(c, {"FINISH"}) /\ Call(c, End("INTERNAL"), TRUE)
    BY <1>5 DEF HandleWriteEvent
  <2>2. PICK started \in {{}, {"FINISH"}} :
          fault' \subseteq exposed /\ op' = [op EXCEPT ![c] = op[c] \cup started]
    BY Zenon, <1>2, <1>3, <2>1, StartOpOK
  <2>3. started \in SUBSET Events /\ (started = {} \/ \E x \in Events : started = {x})
    BY <1>3
  <2> QED BY Zenon, <1>1, <1>2, <2>1, <2>2, <2>3, LastCallInv
<1> QED BY <1>4, <1>5

\* A stream handles READ: it passes the response on and reads again, or finishes.
LEMMA HandleReadInv ==
  ASSUME Inv, NEW c \in Clients, HandleReadEvent(c)
  PROVE  Inv'
<1> DEFINE made == IF callback[c] THEN Append(calls[c], Response(received[c])) ELSE calls[c]
           more == callback[c] /\ ~FALSE
<1>1. NextEvent(c, "READ") /\ event[c].event = "READ" /\ "READ" \in Events
  BY DEF HandleReadEvent, NextEvent, Events
<1>2. /\ c \in Streaming /\ calls[c] \in Seq(Arguments) /\ InOrder(calls[c]) /\ callback[c] \in BOOLEAN
      /\ callback[c] => /\ Responses(calls[c])
                        /\ received[c] = Len(calls[c]) + (IF event[c].ok THEN 1 ELSE 0)
      /\ Unfinished(c)
  <2>1. "READ" # "FINISH"
    OBVIOUS
  <2> QED BY Zenon, <1>1, <2>1, BeforeHandling
<1>3. {"READ"} \in SUBSET Events /\ {"FINISH"} \in SUBSET Events /\ "READ" \in Events /\ "FINISH" \in Events
  BY DEF Events
<1>4. CASE event[c].ok
  <2>1. /\ StartOp(c, {"READ"})
        /\ calls' = [calls EXCEPT ![c] = made] /\ callback' = [callback EXCEPT ![c] = more]
    BY <1>4 DEF HandleReadEvent, Call
  <2>2. callback[c] => Responses(calls[c]) /\ received[c] = Len(calls[c]) + 1
    BY Zenon, <1>2, <1>4
  <2>3. callback[c] => /\ made \in Seq(Arguments) /\ Responses(made) /\ InOrder(made)
                       /\ Len(made) = received[c]
    BY Zenon, <1>2, <2>2, AppendResponse
  <2>4. ~callback[c] => made = calls[c] /\ ~more
    OBVIOUS
  <2>5. more \in BOOLEAN /\ (more => callback[c])
    OBVIOUS
  <2> HIDE DEF made, more
  <2>6. made \in Seq(Arguments) /\ InOrder(made) /\ (more => Responses(made) /\ received[c] = Len(made))
    BY Zenon, <1>2, <2>3, <2>4, <2>5
  <2>7. PICK started \in {{}, {"READ"}} :
          fault' \subseteq exposed /\ op' = [op EXCEPT ![c] = op[c] \cup started]
    BY Zenon, <1>2, <1>3, <2>1, StartOpOK
  <2>8. started \in SUBSET Events /\ (started = {} \/ \E x \in Events : started = {x})
    BY <1>3
  <2> QED BY Zenon, <1>1, <1>2, <2>1, <2>5, <2>6, <2>7, <2>8, HandlingInv
<1>5. CASE ~event[c].ok
  <2>1. StartOp(c, {"FINISH"}) /\ UNCHANGED <<callback, calls>>
    BY <1>5 DEF HandleReadEvent
  <2>2. callback' = [callback EXCEPT ![c] = callback[c]] /\ calls' = [calls EXCEPT ![c] = calls[c]]
    BY <2>1 DEF Inv, ClientInv, ClientTypes
  <2>3. callback[c] => Responses(calls[c]) /\ received[c] = Len(calls[c])
    BY <1>2, <1>5
  <2>4. PICK started \in {{}, {"FINISH"}} :
          fault' \subseteq exposed /\ op' = [op EXCEPT ![c] = op[c] \cup started]
    BY Zenon, <1>2, <1>3, <2>1, StartOpOK
  <2>5. started \in SUBSET Events /\ (started = {} \/ \E x \in Events : started = {x})
    BY <1>3
  <2> QED BY Zenon, <1>1, <1>2, <2>2, <2>3, <2>4, <2>5, HandlingInv
<1> QED BY <1>4, <1>5

\* A stream handles FINISH: the last call says whether the event was ok.
LEMMA HandleFinishInv ==
  ASSUME Inv, NEW c \in Clients, HandleFinishEvent(c)
  PROVE  Inv'
<1> DEFINE code == IF event[c].ok THEN "OK" ELSE "INTERNAL"
<1>1. /\ c \in Streaming /\ NextEvent(c, "FINISH") /\ Call(c, End(code), TRUE)
      /\ op' = op /\ fault' = fault
  BY DEF HandleFinishEvent
<1>2. "FINISH" \in Events /\ code \in {"OK", "INTERNAL", "error"} /\ {} \in SUBSET Events
  BY DEF Events
<1>3. op' = [op EXCEPT ![c] = op[c] \cup {}]
  BY <1>1 DEF Inv, ClientInv, ClientTypes
<1>4. fault' \subseteq exposed
  BY Zenon, <1>1 DEF Inv, ClientInv
<1> HIDE DEF code
<1> QED BY Zenon, <1>1, <1>2, <1>3, <1>4, LastCallInv

\* Every step of a thread in the pool keeps the invariant.
LEMMA PoolStepInv ==
  ASSUME Inv, NEW t \in Threads, PoolStep(t)
  PROVE  Inv'
<1>1. pool_fault = "none"
  BY Zenon DEF PoolStep, Running
<1> QED BY Zenon, <1>1, QuietStepInv, InitializeStepInv, StartQueueStepInv, JoinAndDestroyInv DEF PoolStep

\* So does every call of the application.
LEMMA ApplicationStepInv ==
  ASSUME Inv, Running, NEW t \in Threads, ApplicationStep(t)
  PROVE  Inv'
<1>1. pool_fault = "none"
  BY Zenon DEF Running
<1> QED BY Zenon, <1>1, QuietStepInv, ConstructInv, ShutdownPoolInv DEF ApplicationStep, EnterPool

\* Every step keeps the invariant: one lemma per action, put together.
LEMMA NextInv == Inv /\ [Next]_vars => Inv'
<1> SUFFICES ASSUME Inv, [Next]_vars PROVE Inv'
  OBVIOUS
<1>1. ASSUME NEW c \in Clients, HandleEvent(c) PROVE Inv'
  BY Zenon, <1>1, HandleUnaryFinishInv, HandleWriteInv, HandleReadInv, HandleFinishInv DEF HandleEvent
<1>2. ASSUME NEW c \in Clients, GrpcStep(c) PROVE Inv'
  BY Zenon, <1>2, CompleteInv DEF GrpcStep
<1>3. CASE UNCHANGED vars
  BY Zenon, <1>3, PoolFrame, QueuesFrame DEF Inv, vars
<1> QED BY Zenon, <1>1, <1>2, <1>3, PoolStepInv, ApplicationStepInv, WriteAsyncInv DEF Next

\* The invariant holds of the pool and its clients in every behaviour.
LEMMA Invariance == Spec => []Inv
BY InitInv, NextInv, PTL DEF Spec

-----------------------------------------------------------------------------

\* However many threads set the number of queues, make clients, start the pool, shut
\* it down and start it again, all at once: no thread of a queue is started twice or
\* shut down before it was started, and a client finds no queue only if a Shutdown
\* has emptied the pool after the client's own Initialize, in the unlocked part of
\* GetCompletionQueue (completion_queue_pool.cc:34, 40, 70-75 and 82-91).
THEOREM PoolNeverFails == Spec => []PoolIsSafe
<1>1. Inv => PoolIsSafe
  BY Zenon DEF Inv, PoolInv
<1> QED BY <1>1, Invariance, PTL

\* A Shutdown at any time takes the thread of no queue away from a client that has an
\* operation or an event (completion_queue_pool.cc:39-43, 82-91).
THEOREM EventsHaveThreads == Spec => []EventsAreServed
<1>1. ASSUME Inv, NEW c \in Clients, Active(c)
      PROVE  /\ queue[c] \in 1 .. size
             /\ \/ thread[queue[c]] = "running"
                \/ \E t \in Threads : at[t].label = "start" /\ at[t].i <= queue[c]
  <2> USE ThreadsAssumption, MaxQueuesAssumption
  <2>1. /\ queue[c] \in 0 .. size /\ queue[c] # 0 /\ thread[queue[c]] # "joined"
        /\ size \in 0 .. MaxQueues /\ thread \in [Queues -> {"none", "running", "joined"}]
    BY Zenon, <1>1 DEF Inv, ClientInv, QueueOK, PoolInv, PoolTypeOK
  <2>2. queue[c] \in 1 .. size /\ queue[c] \in Queues
    BY <2>1 DEF Queues
  <2>3. CASE mutex = NoThread
    BY <1>1, <2>2, <2>3 DEF Inv, PoolInv, Settled
  <2>4. CASE mutex # NoThread
    <3>1. mutex \in Threads /\ AtOK(mutex) /\ HoldsMutex(mutex) /\ at[mutex].i \in 0 .. MaxQueues
      BY <1>1, <2>4 DEF Inv, PoolInv, PoolTypeOK
    <3>2. CASE at[mutex].label = "start"
      <4>1. thread[queue[c]] = IF queue[c] < at[mutex].i THEN "running" ELSE "none"
        BY Zenon, <2>2, <3>1, <3>2 DEF AtOK
      <4> QED BY <2>1, <2>2, <3>1, <3>2, <4>1
    <3>3. CASE at[mutex].label \in {"close", "join"}
      BY <2>1, <2>2, <3>1, <3>3 DEF AtOK
    <3> QED BY <3>1, <3>2, <3>3 DEF HoldsMutex
  <2> QED BY <2>3, <2>4
<1>2. Inv => EventsAreServed
  BY Zenon, <1>1 DEF Active, EventsAreServed
<1> QED BY <1>2, Invariance, PTL

\* A Shutdown at any time makes no client start an operation on a queue that was shut
\* down or destroyed, but for those that had yet to be used, or had a stream open, when
\* it began, or were made during it (async_client.h:73-84, 180-192).
THEOREM ShutdownIsSafeForCalls == Spec => []ShutdownSparesCalls
<1>1. Inv => ShutdownSparesCalls
  BY Zenon DEF Inv, ClientInv, ShutdownSparesCalls
<1> QED BY <1>1, Invariance, PTL

\* A client has one operation at a time (async_client.h:166-194).
THEOREM OperationsInTurn == Spec => []OneOperation
<1>1. ASSUME Inv, NEW c \in Clients
      PROVE  Cardinality(op[c]) + (IF event[c] = NoEvent THEN 0 ELSE 1) <= 1
  <2>1. op[c] = {} \/ (event[c] = NoEvent /\ \E e \in Events : op[c] = {e})
    BY Zenon, <1>1 DEF Inv, ClientInv, TurnsOK
  <2>2. op[c] = {} => Cardinality(op[c]) = 0
    BY FS_EmptySet
  <2>3. (\E e \in Events : op[c] = {e}) => Cardinality(op[c]) = 1
    BY FS_Singleton
  <2> QED BY <2>1, <2>2, <2>3
<1>2. Inv => OneOperation
  BY Zenon, <1>1 DEF OneOperation
<1> QED BY <1>2, Invariance, PTL

\* The callback gets the responses in the order in which the server sent them,
\* none twice and none skipped, then one call without a response, and nothing
\* after it, for streams of any length (async_client.h:166-209).
THEOREM CallbacksKeepOrder == Spec => []CallbacksInOrder
<1>1. ASSUME Inv, NEW c \in Clients, NEW i \in DOMAIN calls[c]
      PROVE  calls[c][i] = Response(i) \/ (i = Len(calls[c]) /\ calls[c][i][1] = "end")
  <2>1. calls[c] \in Seq(Arguments) /\ InOrder(calls[c])
    BY Zenon, <1>1 DEF Inv, ClientInv, ClientTypes, CallsOK
  <2> QED BY <1>1, <2>1 DEF InOrder
<1>2. Inv => CallbacksInOrder
  BY Zenon, <1>1 DEF CallbacksInOrder
<1> QED BY <1>2, Invariance, PTL

\* A client gets no more than the responses there are, and makes one call of the
\* callback for each of them and one for the end.
Bounded(c) == received[c] <= MaxResponses /\ Len(calls[c]) <= MaxResponses + 1

\* No operation and no event takes a client over that bound.
LEMMA NextBounded ==
  ASSUME Inv, [Next]_vars, \A c \in Clients : Bounded(c)
  PROVE  \A c \in Clients : Bounded(c)'
<1>1. CASE UNCHANGED <<received, calls>>
  BY Zenon, <1>1 DEF Bounded
<1>2. ASSUME NEW c \in Clients, NEW e \in Events, NEW ok \in BOOLEAN, Complete(c, e, ok)
      PROVE  \A b \in Clients : Bounded(b)'
  <2>1. /\ e = "READ" /\ ok => received[c] < MaxResponses
        /\ received' = [received EXCEPT ![c] = IF e = "READ" /\ ok THEN received[c] + 1 ELSE received[c]]
        /\ calls' = calls
    BY Zenon, <1>2 DEF Complete
  <2>2. received \in [Clients -> Nat]
    BY Zenon DEF Inv, ClientInv, ClientTypes
  <2>3. \A b \in Clients : received'[b] <= MaxResponses
    BY <2>1, <2>2, MaxResponsesAssumption DEF Bounded
  <2> QED BY Zenon, <2>1, <2>3 DEF Bounded
<1>3. ASSUME NEW c \in Clients, HandleEvent(c), ~UNCHANGED <<received, calls>>
      PROVE  \A b \in Clients : Bounded(b)'
  <2>1. PICK e \in Events : event[c].event = e
    BY Zenon, <1>3 DEF HandleEvent, HandleUnaryFinishEvent, HandleWriteEvent, HandleReadEvent,
                       HandleFinishEvent, NextEvent, Events
  <2>2. received' = received
    BY Zenon, <1>3 DEF HandleEvent, HandleUnaryFinishEvent, HandleWriteEvent, HandleReadEvent,
                       HandleFinishEvent, NextEvent
  <2>3. PICK argument :
          calls' = [calls EXCEPT ![c] = IF callback[c] THEN Append(calls[c], argument) ELSE calls[c]]
    BY Zenon, <1>3, <2>2
       DEF HandleEvent, HandleUnaryFinishEvent, HandleWriteEvent, HandleReadEvent,
           HandleFinishEvent, Call
  <2>4. /\ calls \in [Clients -> Seq(Arguments)] /\ received[c] \in Nat
        /\ calls[c] \in Seq(Arguments)
    BY Zenon DEF Inv, ClientInv, ClientTypes
  <2>5. callback[c] => Len(calls[c]) <= MaxResponses
    <3>1. /\ c \notin Streaming => calls[c] = <<>>
          /\ c \in Streaming /\ callback[c] =>
               received[c] = Len(calls[c]) + (IF e = "READ" /\ event[c].ok THEN 1 ELSE 0)
      BY Zenon, <2>1, BeforeHandling
    <3>2. received[c] <= MaxResponses
      BY Zenon DEF Bounded
    <3>3. Len(calls[c]) \in Nat /\ (calls[c] = <<>> => Len(calls[c]) = 0)
      BY <2>4
    <3> HIDE DEF Bounded
    <3> QED BY <2>4, <3>1, <3>2, <3>3, MaxResponsesAssumption
  <2>6. Len(calls'[c]) <= MaxResponses + 1
    <3>1. calls'[c] = IF callback[c] THEN Append(calls[c], argument) ELSE calls[c]
      BY Zenon, <2>3, <2>4
    <3>2. Len(calls[c]) \in Nat /\ Len(Append(calls[c], argument)) = Len(calls[c]) + 1
      BY <2>4
    <3>3. Len(calls[c]) <= MaxResponses + 1
      BY Zenon DEF Bounded
    <3>4. CASE callback[c]
      BY <2>5, <3>1, <3>2, <3>4, MaxResponsesAssumption
    <3>5. CASE ~callback[c]
      BY Zenon, <3>1, <3>3, <3>5
    <3> QED BY Zenon, <3>4, <3>5
  <2>7. \A b \in Clients : b # c => calls'[b] = calls[b]
    BY Zenon, <2>3, <2>4
  <2> QED BY Zenon, <2>2, <2>6, <2>7 DEF Bounded
<1>4. \/ UNCHANGED <<received, calls>>
      \/ \E c \in Clients : HandleEvent(c) \/ \E e \in Events, ok \in BOOLEAN : Complete(c, e, ok)
  BY Zenon DEF Next, vars, clientVars, ApplicationStep, EnterPool, ShutdownPool, PoolStep,
               JoinAndDestroy, Construct, WriteAsync, GrpcStep
<1> QED BY Zenon, <1>1, <1>2, <1>3, <1>4

\* Pool and clients stay within their types, and a stream of n responses leads to
\* at most n + 1 calls of the callback (async_client.h:166-209).
THEOREM AsyncClientTypes == Spec => []AsyncTypeOK
<1> DEFINE AllBounded == \A c \in Clients : Bounded(c)
<1>1. Init => AllBounded
  <2>1. Len(<<>>) = 0 /\ 0 <= MaxResponses /\ 0 <= MaxResponses + 1
    BY MaxResponsesAssumption
  <2>2. ASSUME Init PROVE \A c \in Clients : received[c] = 0 /\ calls[c] = <<>>
    BY Zenon, <2>2 DEF Init
  <2>3. ASSUME Init, NEW c \in Clients PROVE Bounded(c)
    BY <2>1, <2>2, <2>3 DEF Bounded
  <2> QED BY Zenon, <2>3
<1>2. Inv /\ AllBounded /\ [Next]_vars => AllBounded'
  BY Zenon, NextBounded
<1>3. Inv /\ AllBounded => AsyncTypeOK
  <2> SUFFICES ASSUME Inv, AllBounded PROVE AsyncTypeOK
    OBVIOUS
  <2>1. received \in [Clients -> Nat] /\ \A c \in Clients : received[c] <= MaxResponses
    BY Zenon DEF Inv, ClientInv, ClientTypes, Bounded
  <2>2. received \in [Clients -> 0 .. MaxResponses]
    <3> HIDE DEF AllBounded
    <3> QED BY <2>1, MaxResponsesAssumption
  <2>3. \A c \in Clients : Len(calls[c]) <= MaxResponses + 1
    BY Zenon DEF Bounded
  <2> QED BY Zenon, <2>2, <2>3 DEF AsyncTypeOK, Inv, PoolInv, ClientInv, ClientTypes
<1> HIDE DEF AllBounded
<1> QED BY <1>1, <1>2, <1>3, Invariance, PTL DEF Spec

=============================================================================
