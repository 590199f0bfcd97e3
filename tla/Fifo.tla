-------------------------------- MODULE Fifo --------------------------------
(***************************************************************************)
(* What BlockingQueue promises: a first-in first-out queue whose           *)
(* operations take effect at one moment between call and return.  An       *)
(* operation with a timeout may give up, but only at a moment at which it  *)
(* could not have taken effect.                                            *)
(***************************************************************************)
EXTENDS Naturals, Sequences

CONSTANTS
  Threads,
  Values,      \* what the queue holds
  QueueSizes,  \* sizes the queue may be made with
  NoValue

VARIABLES
  size,   \* what the queue was made with, 0 for a queue without bound
  items,  \* its contents
  call    \* the operation that a thread is in

fifoVars == <<size, items, call>>

Pushes == {"Push", "PushWithTimeout"}
Pops == {"Pop", "PopWithTimeout"}
Timed == {"PushWithTimeout", "PopWithTimeout"}
Operations == Pushes \cup Pops \cup {"Size", "WaitUntilEmpty"}

Call(state, op, v) == [state |-> state, op |-> op, value |-> v]
NoCall == Call("none", "Size", NoValue)

Init ==
  /\ size \in QueueSizes
  /\ items = <<>>
  /\ call = [t \in Threads |-> NoCall]

Begin(t, op, v) ==
  /\ call[t].state = "none"
  /\ v \in IF op \in Pushes THEN Values ELSE {NoValue}
  /\ call' = [call EXCEPT ![t] = Call("called", op, v)]
  /\ UNCHANGED <<size, items>>

Done(t) ==
  /\ call[t].state = "called"
  /\ call' = [call EXCEPT ![t] = Call("done", call[t].op, call[t].value)]
  /\ UNCHANGED size

Put(t) ==
  /\ call[t].op \in Pushes
  /\ size = 0 \/ Len(items) < size
  /\ items' = Append(items, call[t].value)
  /\ Done(t)

Take(t) ==
  /\ call[t].op \in Pops
  /\ items # <<>>
  /\ items' = Tail(items)
  /\ Done(t)

Look(t) ==
  /\ call[t].op = "Size" \/ (call[t].op = "WaitUntilEmpty" /\ items = <<>>)
  /\ Done(t)
  /\ UNCHANGED items

GiveUp(t) ==
  /\ \/ call[t].op = "PushWithTimeout" /\ size # 0 /\ Len(items) >= size
     \/ call[t].op = "PopWithTimeout" /\ items = <<>>
  /\ Done(t)
  /\ UNCHANGED items

Return(t) ==
  /\ call[t].state = "done"
  /\ call' = [call EXCEPT ![t] = NoCall]
  /\ UNCHANGED <<size, items>>

Next ==
  \E t \in Threads :
    \/ \E op \in Operations, v \in Values \cup {NoValue} : Begin(t, op, v)
    \/ Put(t) \/ Take(t) \/ Look(t) \/ GiveUp(t) \/ Return(t)

Spec == Init /\ [][Next]_fifoVars
=============================================================================
