--------------------------- MODULE BlockingQueue ----------------------------
(***************************************************************************)
(* common/blocking_queue.h on top of the Mutex of common/mutex.h.  All     *)
(* accesses to the queue are made with the mutex held, so what a thread    *)
(* does between taking the mutex and releasing it, or waiting on the       *)
(* condition variable, is one step.  The destructor of Locker releases the *)
(* mutex first and notifies after that: two steps.                         *)
(***************************************************************************)
EXTENDS Naturals, Sequences, FiniteSets

CONSTANTS
  Callers,     \* threads that call the queue
  Values,      \* what T holds
  QueueSizes,  \* values that the constructor is called with
  NoValue,
  MaxItems     \* bound: items in the queue and in calls that push

ASSUME ValuesAssumption == NoValue \notin Values
ASSUME QueueSizesAssumption == QueueSizes \in SUBSET Nat

VARIABLES
  queue_size,  \* queue_size_
  deque,       \* deque_
  caller       \* where the threads are in their calls

queueVars == <<queue_size, deque, caller>>

kInfiniteQueueSize == 0

Pushes == {"Push", "PushWithTimeout"}
Pops == {"Pop", "PopWithTimeout"}
Timed == {"PushWithTimeout", "PopWithTimeout"}
\* Size stands for Peek as well: they look and do not wait.
Operations == Pushes \cup Pops \cup {"Size", "WaitUntilEmpty"}

\* lock: about to take the mutex and to test the predicate.  expired: the same
\* for the last time, after the timeout.  wait: waits on the condition
\* variable.  notify: the mutex is released, notify_all is yet to come.
Places == {"idle", "lock", "wait", "expired", "notify"}

At(label, op, v) == [pc |-> label, op |-> op, value |-> v]
Outside == At("idle", "Size", NoValue)

\* The argument of the operation.
Inputs(op) == IF op \in Pushes THEN Values ELSE {NoValue}

QueueTypeOK ==
  /\ queue_size \in QueueSizes
  /\ deque \in Seq(Values)
  /\ caller \in [Callers -> [pc : Places, op : Operations, value : Values \cup {NoValue}]]

QueueInit ==
  /\ queue_size \in QueueSizes
  /\ deque = <<>>
  /\ caller = [t \in Callers |-> Outside]

MoveTo(t, label) ==
  caller' = [caller EXCEPT ![t] = At(label, caller[t].op, caller[t].value)]

QueueEmptyCondition == deque = <<>>

\* Mutant: one item too many.
QueueNotOverfull == queue_size = kInfiniteQueueSize \/ Len(deque) <= queue_size

QueueNotFullCondition == queue_size = kInfiniteQueueSize \/ Len(deque) < queue_size

\* Mutant: Push awaits the wrong predicate.
ReadyIfEmpty(op) ==
  CASE op = "Push" -> QueueEmptyCondition
    [] op = "PushWithTimeout" -> QueueNotFullCondition
    [] op \in Pops -> ~QueueEmptyCondition
    [] op = "WaitUntilEmpty" -> QueueEmptyCondition
    [] OTHER -> TRUE

\* The predicate that the operation awaits.
Ready(op) ==
  CASE op \in Pushes -> QueueNotFullCondition
    [] op \in Pops -> ~QueueEmptyCondition
    [] op = "WaitUntilEmpty" -> QueueEmptyCondition
    [] OTHER -> TRUE

Pushers ==
  {t \in Callers : caller[t].op \in Pushes /\ caller[t].pc \in {"lock", "wait", "expired"}}

EnterQueue(t, op, v) ==
  /\ caller[t].pc = "idle"
  /\ op \in Pushes => Len(deque) + Cardinality(Pushers) < MaxItems
  /\ caller' = [caller EXCEPT ![t] = At("lock", op, v)]
  /\ UNCHANGED <<queue_size, deque>>

\* Mutant: the value goes to the front.
OperateInFront(t) ==
  deque' = CASE caller[t].op \in Pushes -> <<caller[t].value>> \o deque
             [] caller[t].op \in Pops -> Tail(deque)
             [] OTHER -> deque

\* What the operation does to the queue once its predicate holds.
Operate(t) ==
  deque' = CASE caller[t].op \in Pushes -> Append(deque, caller[t].value)
             [] caller[t].op \in Pops -> Tail(deque)
             [] OTHER -> deque

\* The predicate holds, be it at the first test, after a wakeup or after the
\* timeout: the operation is carried out and the mutex released.
Proceed(t) ==
  /\ caller[t].pc \in {"lock", "expired"}
  /\ Ready(caller[t].op)
  /\ Operate(t)
  /\ MoveTo(t, "notify")
  /\ UNCHANGED queue_size

\* The predicate does not hold: wait, which releases the mutex and notifies
\* nobody, ...
Wait(t) ==
  /\ caller[t].pc = "lock"
  /\ ~Ready(caller[t].op)
  /\ MoveTo(t, "wait")
  /\ UNCHANGED <<queue_size, deque>>

\* ... or return false, or nullptr, if the time is up.
ReturnInVain(t) ==
  /\ caller[t].pc = "expired"
  /\ ~Ready(caller[t].op)
  /\ MoveTo(t, "notify")
  /\ UNCHANGED <<queue_size, deque>>

Timeout(t) ==
  /\ caller[t].pc = "wait"
  /\ caller[t].op \in Timed
  /\ MoveTo(t, "expired")
  /\ UNCHANGED <<queue_size, deque>>

\* Condition variables may wake up a thread for no reason.
SpuriousWakeup(t) ==
  /\ caller[t].pc = "wait"
  /\ MoveTo(t, "lock")
  /\ UNCHANGED <<queue_size, deque>>

\* Mutant: notify_one instead of notify_all.
NotifyOne(t) ==
  /\ caller[t].pc = "notify"
  /\ \E u \in Callers :
       /\ caller[u].pc = "wait" \/ (u = t /\ \A w \in Callers : caller[w].pc # "wait")
       /\ caller' = [w \in Callers |->
                       IF w = t THEN Outside
                       ELSE IF w = u THEN At("lock", caller[w].op, caller[w].value)
                       ELSE caller[w]]
  /\ UNCHANGED <<queue_size, deque>>

\* The rest of the destructor of Locker; the call returns.
NotifyAll(t) ==
  /\ caller[t].pc = "notify"
  /\ caller' = [u \in Callers |->
                  IF u = t THEN Outside
                  ELSE IF caller[u].pc = "wait" THEN At("lock", caller[u].op, caller[u].value)
                  ELSE caller[u]]
  /\ UNCHANGED <<queue_size, deque>>

Step(t) == Proceed(t) \/ Wait(t) \/ ReturnInVain(t) \/ NotifyAll(t)

QueueNext ==
  \E t \in Callers :
    \/ \E op \in Operations : \E v \in Inputs(op) : EnterQueue(t, op, v)
    \/ Step(t) \/ Timeout(t) \/ SpuriousWakeup(t)

QueueSpec == QueueInit /\ [][QueueNext]_queueVars

\* A thread that can run does, and time passes.  Nobody has to call the queue,
\* and nobody wakes up without a reason.
FairQueueSpec == QueueSpec /\ \A t \in Callers : WF_queueVars(Step(t)) /\ WF_queueVars(Timeout(t))

\* Unlocking before notifying loses no wakeup: while a thread waits for what is
\* already true, some thread is about to notify it.
NoLostWakeup ==
  \A t \in Callers : caller[t].pc = "wait" /\ Ready(caller[t].op) =>
    \E u \in Callers : caller[u].pc = "notify"

\* The bound is kept whoever pushes, with or without a timeout.
SizeRespected == queue_size # kInfiniteQueueSize => Len(deque) <= queue_size

\* As the server uses it, without a bound, a queue never blocks Push: an event
\* thread can push to the queue that it alone pops from.
PushReturns ==
  \A t \in Callers :
    queue_size = kInfiniteQueueSize /\ caller[t].op \in Pushes /\ caller[t].pc # "idle"
      ~> caller[t].pc = "idle"

State(pc) ==
  CASE pc = "idle" -> "none" [] pc = "notify" -> "done" [] OTHER -> "called"

F == INSTANCE Fifo WITH
  Threads <- Callers, size <- queue_size, items <- deque,
  call <- [t \in Callers |-> [state |-> State(caller[t].pc), op |-> caller[t].op,
                              value |-> caller[t].value]]

\* Waiting, timeouts, spurious wakeups and late notifications do not show: the
\* queue is the first-in first-out queue of Fifo.
IsFifo == F!Spec
=============================================================================
