---------------------------- MODULE BoundedQueue ----------------------------
(***************************************************************************)
(* BoundedQueue<T>: a queue guarded by one mutex and two condition         *)
(* variables.  A thread holds the mutex from the time it gets it to the    *)
(* time it waits or returns, so what it does in between is one step.  A    *)
(* waiting thread, once notified (or spuriously woken), competes for the   *)
(* mutex like any other and looks at its condition again.                  *)
(***************************************************************************)
EXTENDS QueueOps, FiniteSets

CONSTANTS Producers,   \* threads that push
          Consumers,   \* threads that pop; any thread may close
          Items,
          CAPACITY,
          None         \* no call; no item

ASSUME QueueAssumption ==
  /\ CAPACITY \in Nat \ {0}
  /\ None \notin Items
  /\ IsFiniteSet(Producers) /\ IsFiniteSet(Consumers)

VARIABLES
  queue,      \* queue_ and closed_
  not_full_,  \* threads waiting on each of the condition variables
  not_empty_,
  call,       \* the call each thread is in, or None
  returned    \* what each thread's last call returned

vars == <<queue, not_full_, not_empty_, call, returned>>

Threads == Producers \cup Consumers
Push(item) == [op |-> "push", item |-> item]
Pop == [op |-> "pop"]
Close == [op |-> "close"]
Calls == {Push(item) : item \in Items} \cup {Pop, Close}

ASSUME NoCallAssumption == None \notin Calls

Pushing == {t \in Threads : call[t] # None /\ call[t].op = "push"}
Popping == {t \in Threads : call[t] # None /\ call[t].op = "pop"}

Init ==
  /\ queue = EmptyQueue
  /\ not_full_ = {}
  /\ not_empty_ = {}
  /\ call = [t \in Threads |-> None]
  /\ returned = [t \in Threads |-> None]

Invoke(t, c) ==
  /\ call[t] = None
  /\ call' = [call EXCEPT ![t] = c]
  /\ UNCHANGED <<queue, not_full_, not_empty_, returned>>

Return(t, result) ==
  /\ call' = [call EXCEPT ![t] = None]
  /\ returned' = [returned EXCEPT ![t] = result]

\* notify_one leaves the others waiting; without a waiter it does nothing.
AfterNotifyOne(waiting) ==
  IF waiting = {} THEN {{}} ELSE {waiting \ {t} : t \in waiting}

\* Mutated: only the push into an empty queue notifies.
pushNotifiesFirst(t) ==
  \E item \in Items :
    /\ call[t] = Push(item)
    /\ t \notin not_full_
    /\ MayPush(queue, CAPACITY)
    /\ queue' = Pushed(queue, item)
    /\ IF ~ queue.closed /\ queue.items = <<>>
       THEN not_empty_' \in AfterNotifyOne(not_empty_)
       ELSE not_empty_' = not_empty_
    /\ Return(t, ~ queue.closed)
    /\ UNCHANGED not_full_

push(t) ==
  \E item \in Items :
    /\ call[t] = Push(item)
    /\ t \notin not_full_
    /\ MayPush(queue, CAPACITY)
    /\ queue' = Pushed(queue, item)
    /\ IF queue.closed
       THEN not_empty_' = not_empty_
       ELSE not_empty_' \in AfterNotifyOne(not_empty_)
    /\ Return(t, ~ queue.closed)
    /\ UNCHANGED not_full_

WaitNotFull(t) ==
  /\ t \in Pushing \ not_full_
  /\ ~ MayPush(queue, CAPACITY)
  /\ not_full_' = not_full_ \cup {t}
  /\ UNCHANGED <<queue, not_empty_, call, returned>>

pop(t) ==
  /\ call[t] = Pop
  /\ t \notin not_empty_
  /\ MayPop(queue)
  /\ queue' = Popped(queue)
  /\ IF queue.items = <<>>
     THEN not_full_' = not_full_
     ELSE not_full_' \in AfterNotifyOne(not_full_)
  /\ Return(t, IF queue.items = <<>> THEN None ELSE Head(queue.items))
  /\ UNCHANGED not_empty_

WaitNotEmpty(t) ==
  /\ t \in Popping \ not_empty_
  /\ ~ MayPop(queue)
  /\ not_empty_' = not_empty_ \cup {t}
  /\ UNCHANGED <<queue, not_full_, call, returned>>

\* Mutated: notify_one for notify_all.
closeNotifiesOne(t) ==
  /\ call[t] = Close
  /\ queue' = Closed(queue)
  /\ not_full_' \in AfterNotifyOne(not_full_)
  /\ not_empty_' \in AfterNotifyOne(not_empty_)
  /\ Return(t, None)

close(t) ==
  /\ call[t] = Close
  /\ queue' = Closed(queue)
  /\ not_full_' = {}
  /\ not_empty_' = {}
  /\ Return(t, None)

\* A condition variable may wake a thread for no reason.
SpuriousWakeup(t) ==
  /\ t \in not_full_ \cup not_empty_
  /\ not_full_' = not_full_ \ {t}
  /\ not_empty_' = not_empty_ \ {t}
  /\ UNCHANGED <<queue, call, returned>>

Run(t) == push(t) \/ WaitNotFull(t) \/ pop(t) \/ WaitNotEmpty(t) \/ close(t)

Next ==
  \/ \E t \in Producers, c \in {Push(item) : item \in Items} \cup {Close} : Invoke(t, c)
  \/ \E t \in Consumers, c \in {Pop, Close} : Invoke(t, c)
  \/ \E t \in Threads : Run(t) \/ SpuriousWakeup(t)

\* A thread that does not wait gets the mutex in the end, the sections it
\* guards being short; nothing obliges a thread to make a call.
Spec == Init /\ [][Next]_vars /\ \A t \in Threads : WF_vars(Run(t))

-----------------------------------------------------------------------------
\* notify_one is enough: while a thread waits, threads that were already woken
\* (or never waited) are there to take all the room, or all the items.
NoLostWakeup ==
  /\ not_full_ # {} =>
       /\ ~ queue.closed
       /\ CAPACITY - Len(queue.items) <= Cardinality(Pushing \ not_full_)
  /\ not_empty_ # {} =>
       /\ ~ queue.closed
       /\ Len(queue.items) <= Cardinality(Popping \ not_empty_)

\* The monitor is a queue with atomic operations, and wakes who can go on.
Abstract == INSTANCE ClosableQueue
ImplementsClosableQueue == Abstract!Spec
=============================================================================
