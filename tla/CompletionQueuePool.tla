------------------------ MODULE CompletionQueuePool -------------------------
(***************************************************************************)
(* The pool of client completion queues and their threads                  *)
(* (completion_queue_pool.cc).  Application threads call                   *)
(* SetNumberCompletionQueues, Start, GetCompletionQueue (when they make a  *)
(* client) and Shutdown, in any order and all at once; after a Shutdown    *)
(* the pool may be started again.  What a thread does under mutex_ takes   *)
(* one step per queue, and what it does without it one step per access to  *)
(* the pool.                                                               *)
(***************************************************************************)
EXTENDS Naturals, FiniteSets

CONSTANTS
  Threads,    \* application threads
  MaxQueues,  \* bound: number of completion queues
  NoThread

ASSUME ThreadsAssumption == NoThread \notin Threads
ASSUME MaxQueuesAssumption == MaxQueues \in Nat \ {0}

VARIABLES
  mutex,             \* who holds mutex_
  initialized,       \* initialized_
  number_completion_queues,
  size,              \* completion_queues_.size()
  thread,            \* thread_ of each CompletionQueue
  closed,            \* the queues on which completion_queue_.Shutdown was called
  at,                \* where the application threads are
  pool_fault,        \* what has stopped the process
  overtaken          \* history: the threads in GetCompletionQueue for which a Shutdown
                     \* has emptied the pool since their Initialize

poolVars == <<mutex, initialized, number_completion_queues, size, thread, closed, at, pool_fault,
              overtaken>>

Queues == 1..MaxQueues

\* set: SetNumberCompletionQueues has passed its CHECKs.  lock: about to take the
\* mutex in Initialize.  start, close, join: at the queue with index i, with the
\* mutex held.  pick: Initialize has returned to GetCompletionQueue.  at: qid is i.
Labels == {"idle", "set", "lock", "start", "pick", "at", "close", "join"}
Picking(t) == at[t].label \in {"pick", "at"}

\* After Initialize: the caller is GetCompletionQueue (get) or Start.
Pc(label, i, get) == [label |-> label, i |-> i, get |-> get]
Idle == Pc("idle", 0, FALSE)
Goto(t, pc) == at' = [at EXCEPT ![t] = pc]
AfterInitialize(t) == IF at[t].get THEN Pc("pick", 0, TRUE) ELSE Idle

PoolInit ==
  /\ mutex = NoThread /\ initialized = FALSE
  /\ number_completion_queues \in Queues
  /\ size = 0 /\ closed = {} /\ pool_fault = "none" /\ overtaken = {}
  /\ thread = [i \in Queues |-> "none"]
  /\ at = [t \in Threads |-> Idle]

\* SetNumberCompletionQueues up to its CHECKs, for which it does not take the mutex.
SetNumberCompletionQueues(t, n) ==
  /\ at[t] = Idle
  /\ IF initialized \/ n = 0
       THEN pool_fault' = "misconfigured" /\ UNCHANGED at
       ELSE Goto(t, Pc("set", n, FALSE)) /\ UNCHANGED pool_fault
  /\ UNCHANGED <<mutex, initialized, number_completion_queues, size, thread, closed, overtaken>>

\* Its assignment, when another thread may have initialised the pool.
StoreNumber(t) ==
  /\ at[t].label = "set"
  /\ number_completion_queues' = at[t].i
  /\ Goto(t, Idle)
  /\ UNCHANGED <<mutex, initialized, size, thread, closed, pool_fault, overtaken>>

\* Start and GetCompletionQueue call Initialize.
Enter(t, get) ==
  /\ at[t] = Idle
  /\ Goto(t, Pc("lock", 0, get))
  /\ UNCHANGED <<mutex, initialized, number_completion_queues, size, thread, closed, pool_fault, overtaken>>

\* Mutant: Initialize does not take the mutex.
InitializeUnlocked(t) ==
  /\ at[t].label = "lock"
  /\ IF initialized
       THEN Goto(t, AfterInitialize(t)) /\ UNCHANGED <<mutex, size>>
       ELSE /\ Goto(t, Pc("start", 1, at[t].get))
            /\ size' = number_completion_queues
            /\ UNCHANGED mutex
  /\ UNCHANGED <<initialized, number_completion_queues, thread, closed, pool_fault, overtaken>>

\* Initialize up to the loop.
Initialize(t) ==
  /\ at[t].label = "lock" /\ mutex = NoThread
  /\ IF initialized
       THEN Goto(t, AfterInitialize(t)) /\ UNCHANGED <<mutex, size>>
       ELSE /\ Goto(t, Pc("start", 1, at[t].get))
            /\ size' = number_completion_queues
            /\ mutex' = t
  /\ UNCHANGED <<initialized, number_completion_queues, thread, closed, pool_fault, overtaken>>

\* Mutant: the loop runs over its end.
StartQueueBeyond(t) ==
  LET i == at[t].i IN
  /\ at[t].label = "start"
  /\ thread' = [thread EXCEPT ![i] = "running"]
  /\ pool_fault' = IF thread[i] = "none" THEN pool_fault ELSE "check_failed"
  /\ IF i <= size
       THEN Goto(t, Pc("start", i + 1, at[t].get)) /\ UNCHANGED <<mutex, initialized>>
       ELSE Goto(t, AfterInitialize(t)) /\ mutex' = NoThread /\ initialized' = TRUE
  /\ UNCHANGED <<number_completion_queues, size, closed, overtaken>>

\* CompletionQueue::Start; the last one ends Initialize.
StartQueue(t) ==
  LET i == at[t].i IN
  /\ at[t].label = "start"
  /\ thread' = [thread EXCEPT ![i] = "running"]
  /\ pool_fault' = IF thread[i] = "none" THEN pool_fault ELSE "check_failed"
  /\ IF i < size
       THEN Goto(t, Pc("start", i + 1, at[t].get)) /\ UNCHANGED <<mutex, initialized>>
       ELSE Goto(t, AfterInitialize(t)) /\ mutex' = NoThread /\ initialized' = TRUE
  /\ UNCHANGED <<number_completion_queues, size, closed, overtaken>>

\* GetCompletionQueue after Initialize, without the mutex: rand() % size(), which
\* stops the process when the pool is empty.
Pick(t, qid) ==
  /\ at[t].label = "pick"
  /\ IF size = 0
       THEN pool_fault' = "no_queue" /\ UNCHANGED at
       ELSE qid <= size /\ Goto(t, Pc("at", qid, TRUE)) /\ UNCHANGED pool_fault
  /\ UNCHANGED <<mutex, initialized, number_completion_queues, size, thread, closed, overtaken>>

\* at(qid), which throws when there are fewer queues than there were.
ReturnQueue(t) ==
  /\ at[t].label = "at"
  /\ IF at[t].i > size
       THEN pool_fault' = "no_queue" /\ UNCHANGED <<at, overtaken>>
       ELSE Goto(t, Idle) /\ overtaken' = overtaken \ {t} /\ UNCHANGED pool_fault
  /\ UNCHANGED <<mutex, initialized, number_completion_queues, size, thread, closed>>

\* Shutdown takes the mutex; a pool that is not initialized has no queues.
Shutdown(t) ==
  /\ at[t] = Idle /\ mutex = NoThread
  /\ IF size > 0 THEN Goto(t, Pc("close", 1, FALSE)) /\ mutex' = t ELSE UNCHANGED <<at, mutex>>
  /\ UNCHANGED <<initialized, number_completion_queues, size, thread, closed, pool_fault, overtaken>>

\* CompletionQueue::Shutdown up to the join.
ShutdownQueue(t) ==
  LET i == at[t].i IN
  /\ at[t].label = "close"
  /\ closed' = closed \cup {i}
  /\ pool_fault' = IF thread[i] # "none" THEN pool_fault ELSE "check_failed"
  /\ Goto(t, Pc("join", i, FALSE))
  /\ UNCHANGED <<mutex, initialized, number_completion_queues, size, thread, overtaken>>

\* Mutant: the loop does not move on to the next queue.
JoinSameQueue(t, drained) ==
  LET i == at[t].i IN
  /\ at[t].label = "join" /\ i \in closed /\ drained
  /\ Goto(t, Pc("close", i, FALSE))
  /\ thread' = [thread EXCEPT ![i] = "joined"]
  /\ UNCHANGED <<mutex, initialized, number_completion_queues, size, closed, pool_fault, overtaken>>

\* Mutant: the thread is not joined.
JoinNothing(t, drained) ==
  LET i == at[t].i IN
  /\ at[t].label = "join" /\ i \in closed
  /\ IF i < size
       THEN /\ Goto(t, Pc("close", i + 1, FALSE))
            /\ UNCHANGED <<mutex, initialized, size, thread, closed, overtaken>>
       ELSE /\ Goto(t, Idle)
            /\ thread' = [j \in Queues |-> "none"]
            /\ mutex' = NoThread /\ initialized' = FALSE
            /\ size' = 0 /\ closed' = {}
            /\ overtaken' = overtaken \cup {u \in Threads : Picking(u)}
  /\ UNCHANGED <<number_completion_queues, pool_fault>>

\* Mutant: the pool is left as it is after the last join.
JoinWithoutClear(t, drained) ==
  LET i == at[t].i IN
  /\ at[t].label = "join" /\ i \in closed /\ drained
  /\ thread' = [thread EXCEPT ![i] = "joined"]
  /\ IF i < size
       THEN Goto(t, Pc("close", i + 1, FALSE)) /\ UNCHANGED mutex
       ELSE Goto(t, Idle) /\ mutex' = NoThread
  /\ UNCHANGED <<initialized, number_completion_queues, size, closed, pool_fault, overtaken>>

\* The thread of the queue has left its loop and is joined; after the last one
\* the queues are destroyed.
Join(t, drained) ==
  LET i == at[t].i IN
  /\ at[t].label = "join" /\ i \in closed /\ drained
  /\ IF i < size
       THEN /\ Goto(t, Pc("close", i + 1, FALSE))
            /\ thread' = [thread EXCEPT ![i] = "joined"]
            /\ UNCHANGED <<mutex, initialized, size, closed, overtaken>>
       ELSE /\ Goto(t, Idle)
            /\ thread' = [j \in Queues |-> "none"]
            /\ mutex' = NoThread /\ initialized' = FALSE
            /\ size' = 0 /\ closed' = {}
            /\ overtaken' = overtaken \cup {u \in Threads : Picking(u)}
  /\ UNCHANGED <<number_completion_queues, pool_fault>>

PoolTypeOK ==
  /\ mutex \in Threads \cup {NoThread} /\ initialized \in BOOLEAN
  /\ number_completion_queues \in Queues /\ size \in 0..MaxQueues
  /\ thread \in [Queues -> {"none", "running", "joined"}]
  /\ closed \in SUBSET Queues
  /\ at \in [Threads -> [label : Labels, i : 0..MaxQueues, get : BOOLEAN]]
  /\ pool_fault \in {"none", "check_failed", "misconfigured", "no_queue"}
  /\ overtaken \in SUBSET Threads
=============================================================================
