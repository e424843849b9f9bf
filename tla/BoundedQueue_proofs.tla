------------------------- MODULE BoundedQueue_proofs -------------------------
(***************************************************************************)
(* For any number of threads that push, pop and close, any items and any   *)
(* capacity: notify_one never leaves a thread asleep that could go on.     *)
(***************************************************************************)
EXTENDS BoundedQueue, FiniteSetTheorems, TLAPS

-----------------------------------------------------------------------------
(***************************************************************************)
(* The invariant: what waits waits for what it was called for, and the     *)
(* threads awake are enough to take all there is.                          *)
(***************************************************************************)
AwakePushing == Pushing \ not_full_
AwakePopping == Popping \ not_empty_

Types ==
  /\ queue \in [items : Seq(Items), closed : BOOLEAN]
  /\ Len(queue.items) <= CAPACITY
  /\ call \in [Threads -> Calls \cup {None}]
  /\ not_full_ \subseteq Pushing
  /\ not_empty_ \subseteq Popping

PushersServed ==
  not_full_ # {} => ~ queue.closed /\ CAPACITY - Len(queue.items) <= Cardinality(AwakePushing)
PoppersServed ==
  not_empty_ # {} => ~ queue.closed /\ Len(queue.items) <= Cardinality(AwakePopping)

QueueInv == Types /\ PushersServed /\ PoppersServed

-----------------------------------------------------------------------------
LEMMA SetsOfThreads ==
  ASSUME NEW S \in SUBSET Threads
  PROVE  IsFiniteSet(S) /\ Cardinality(S) \in Nat
<1>1. IsFiniteSet(Threads)
  BY QueueAssumption, FS_Union DEF Threads
<1>2. IsFiniteSet(S)
  BY <1>1, FS_Subset
<1> QED BY <1>2, FS_CardinalityType

LEMMA MoreThreads ==
  ASSUME NEW T \in SUBSET Threads, NEW S \in SUBSET T
  PROVE  Cardinality(S) <= Cardinality(T)
BY SetsOfThreads, FS_Subset

LEMMA OneThreadMore ==
  ASSUME NEW S \in SUBSET Threads, NEW t \in Threads \ S
  PROVE  Cardinality(S \cup {t}) = Cardinality(S) + 1
BY SetsOfThreads, FS_AddElement

LEMMA OneThreadLess ==
  ASSUME NEW S \in SUBSET Threads, NEW t \in S
  PROVE  Cardinality(S \ {t}) = Cardinality(S) - 1
BY SetsOfThreads, FS_RemoveElement

\* A thread that returns is in no call.
LEMMA ReturnLeaves ==
  ASSUME call \in [Threads -> Calls \cup {None}], NEW t \in Threads,
         call' = [call EXCEPT ![t] = None]
  PROVE  /\ call' \in [Threads -> Calls \cup {None}]
         /\ Pushing' = Pushing \ {t} /\ Popping' = Popping \ {t}
<1>1. \A u \in Threads : call'[u] = IF u = t THEN None ELSE call[u]
  OBVIOUS
<1>2. Pushing' = Pushing \ {t} /\ Popping' = Popping \ {t}
  BY <1>1 DEF Pushing, Popping
<1> QED BY <1>2

LEMMA WhoIsInWhat ==
  /\ Pushing \subseteq Threads /\ Popping \subseteq Threads /\ Pushing \cap Popping = {}
  /\ \A t \in Threads, item \in Items : call[t] = Push(item) => t \in Pushing
  /\ \A t \in Threads : call[t] = Pop => t \in Popping
  /\ \A t \in Threads : call[t] = Close => t \notin Pushing \cup Popping
<1>1. \A item \in Items : Push(item) # None /\ Push(item).op = "push"
  BY NoCallAssumption DEF Calls, Push
<1>2. Pop # None /\ Pop.op = "pop" /\ Close.op = "close"
  BY NoCallAssumption DEF Calls, Pop, Close
<1> QED BY <1>1, <1>2 DEF Pushing, Popping

\* Notifying one of those who wait wakes one, if there is one.
LEMMA NotifyWakesOne ==
  ASSUME NEW calling \in SUBSET Threads, NEW waiting \in SUBSET calling,
         NEW after \in AfterNotifyOne(waiting)
  PROVE  /\ after \subseteq waiting
         /\ after # {} => Cardinality(calling \ after) = Cardinality(calling \ waiting) + 1
<1>1. CASE waiting = {}
  BY <1>1 DEF AfterNotifyOne
<1>2. CASE waiting # {}
  <2>1. PICK t \in waiting : after = waiting \ {t}
    BY <1>2 DEF AfterNotifyOne
  <2>2. calling \ after = (calling \ waiting) \cup {t} /\ t \in Threads \ (calling \ waiting)
    BY <2>1
  <2> QED BY <2>1, <2>2, OneThreadMore
<1> QED BY <1>1, <1>2

-----------------------------------------------------------------------------
LEMMA InitQueueInv == Init => QueueInv
BY QueueAssumption
   DEF Init, QueueInv, Types, PushersServed, PoppersServed, EmptyQueue

LEMMA PushKeepsInv ==
  ASSUME QueueInv, NEW t \in Threads, push(t)
  PROVE  QueueInv'
<1>1. PICK item \in Items :
        /\ call[t] = Push(item) /\ t \notin not_full_
        /\ MayPush(queue, CAPACITY) /\ queue' = Pushed(queue, item)
        /\ IF queue.closed
           THEN not_empty_' = not_empty_
           ELSE not_empty_' \in AfterNotifyOne(not_empty_)
        /\ call' = [call EXCEPT ![t] = None] /\ not_full_' = not_full_
  BY DEF push, Return
<1>2. Types /\ PushersServed /\ PoppersServed /\ CAPACITY \in Nat \ {0}
  BY QueueAssumption DEF QueueInv
<1>3. /\ t \in AwakePushing /\ t \notin Popping
      /\ Pushing \subseteq Threads /\ Popping \subseteq Threads
  BY <1>1, WhoIsInWhat DEF AwakePushing
<1>4. /\ call' \in [Threads -> Calls \cup {None}]
      /\ Pushing' = Pushing \ {t} /\ Popping' = Popping
  <2>1. call \in [Threads -> Calls \cup {None}]
    BY <1>2 DEF Types
  <2>2. /\ call' \in [Threads -> Calls \cup {None}]
        /\ Pushing' = Pushing \ {t} /\ Popping' = Popping \ {t}
    BY <1>1, <2>1, ReturnLeaves
  <2> QED BY <1>3, <2>2
<1>5. CASE queue.closed
  <2>1. not_full_ = {} /\ not_empty_ = {}
    BY <1>2, <1>5 DEF PushersServed, PoppersServed
  <2>2. not_full_' = {} /\ not_empty_' = {} /\ queue' = queue
    BY <1>1, <1>5, <2>1 DEF Pushed
  <2> QED BY <1>2, <1>4, <2>2 DEF QueueInv, Types, PushersServed, PoppersServed
<1>6. CASE ~ queue.closed
  <2>1. /\ queue.items \in Seq(Items) /\ queue.closed = FALSE
        /\ Len(queue.items) < CAPACITY
        /\ queue' = [queue EXCEPT !.items = Append(queue.items, item)]
    BY <1>1, <1>2, <1>6 DEF Types, MayPush, Pushed
  <2>2. /\ queue' \in [items : Seq(Items), closed : BOOLEAN] /\ queue'.closed = FALSE
        /\ Len(queue'.items) = Len(queue.items) + 1 /\ Len(queue.items) \in Nat
    <3>1. queue' = [items |-> Append(queue.items, item), closed |-> FALSE]
      BY <1>2, <2>1 DEF Types
    <3>2. /\ Append(queue.items, item) \in Seq(Items) /\ Len(queue.items) \in Nat
          /\ Len(Append(queue.items, item)) = Len(queue.items) + 1
      BY <2>1
    <3> QED BY <3>1, <3>2
  <2>3. /\ not_empty_' \subseteq not_empty_
        /\ not_empty_' # {} =>
             Cardinality(Popping \ not_empty_') = Cardinality(Popping \ not_empty_) + 1
    <3>1. not_empty_' \in AfterNotifyOne(not_empty_)
      BY <1>1, <1>6
    <3> QED BY <1>2, <1>3, <3>1, NotifyWakesOne DEF Types
  <2>4. Types'
    BY <1>1, <1>2, <1>3, <1>4, <2>1, <2>2, <2>3 DEF Types, AwakePushing
  <2>5. PushersServed'
    <3>1. AwakePushing' = AwakePushing \ {t} /\ AwakePushing \in SUBSET Threads
      BY <1>1, <1>3, <1>4 DEF AwakePushing
    <3>2. Cardinality(AwakePushing') = Cardinality(AwakePushing) - 1
      BY <1>3, <3>1, OneThreadLess
    <3>3. Cardinality(AwakePushing) \in Nat
      BY <3>1, SetsOfThreads
    <3> QED BY <1>1, <1>2, <2>2, <3>2, <3>3 DEF PushersServed
  <2>6. PoppersServed'
    <3>1. AwakePopping' = Popping \ not_empty_' /\ AwakePopping = Popping \ not_empty_
      BY <1>4 DEF AwakePopping
    <3>2. Cardinality(AwakePopping) \in Nat
      BY <1>3, SetsOfThreads DEF AwakePopping
    <3> QED BY <1>2, <2>2, <2>3, <3>1, <3>2 DEF PoppersServed
  <2> QED BY <2>4, <2>5, <2>6 DEF QueueInv
<1> QED BY <1>5, <1>6

LEMMA PopKeepsInv ==
  ASSUME QueueInv, NEW t \in Threads, pop(t)
  PROVE  QueueInv'
<1>1. /\ call[t] = Pop /\ t \notin not_empty_
      /\ MayPop(queue) /\ queue' = Popped(queue) /\ not_empty_' = not_empty_
      /\ IF queue.items = <<>>
         THEN not_full_' = not_full_
         ELSE not_full_' \in AfterNotifyOne(not_full_)
  BY DEF pop
<1>2. Types /\ PushersServed /\ PoppersServed /\ CAPACITY \in Nat \ {0}
  BY QueueAssumption DEF QueueInv
<1>3. /\ t \in AwakePopping /\ t \notin Pushing
      /\ Pushing \subseteq Threads /\ Popping \subseteq Threads
  BY <1>1, WhoIsInWhat DEF AwakePopping
<1>4. /\ call' \in [Threads -> Calls \cup {None}]
      /\ Popping' = Popping \ {t} /\ Pushing' = Pushing
  <2>1. call' = [call EXCEPT ![t] = None]
    BY DEF pop, Return
  <2>2. call \in [Threads -> Calls \cup {None}]
    BY <1>2 DEF Types
  <2>3. /\ call' \in [Threads -> Calls \cup {None}]
        /\ Pushing' = Pushing \ {t} /\ Popping' = Popping \ {t}
    BY <2>1, <2>2, ReturnLeaves
  <2> QED BY <1>3, <2>3
<1>5. CASE queue.items = <<>>
  <2>1. queue.closed
    BY <1>1, <1>5 DEF MayPop
  <2>2. not_full_ = {} /\ not_empty_ = {}
    BY <1>2, <2>1 DEF PushersServed, PoppersServed
  <2>3. not_full_' = {} /\ not_empty_' = {} /\ queue' = queue
    BY <1>1, <1>5, <2>2 DEF Popped
  <2> QED BY <1>2, <1>4, <2>3 DEF QueueInv, Types, PushersServed, PoppersServed
<1>6. CASE queue.items # <<>>
  <2>1. /\ queue.items \in Seq(Items)
        /\ queue' = [queue EXCEPT !.items = Tail(queue.items)]
    BY <1>1, <1>2, <1>6 DEF Types, Popped
  <2>2. /\ queue' \in [items : Seq(Items), closed : BOOLEAN] /\ queue'.closed = queue.closed
        /\ Len(queue'.items) = Len(queue.items) - 1 /\ Len(queue.items) \in Nat \ {0}
    <3>1. queue' = [items |-> Tail(queue.items), closed |-> queue.closed]
      BY <1>2, <2>1 DEF Types
    <3>2. /\ Tail(queue.items) \in Seq(Items) /\ Len(queue.items) \in Nat \ {0}
          /\ Len(Tail(queue.items)) = Len(queue.items) - 1
      BY <1>6, <2>1
    <3>3. queue.closed \in BOOLEAN
      BY <1>2 DEF Types
    <3> QED BY <3>1, <3>2, <3>3
  <2>3. /\ not_full_' \subseteq not_full_
        /\ not_full_' # {} =>
             Cardinality(Pushing \ not_full_') = Cardinality(Pushing \ not_full_) + 1
    <3>1. not_full_' \in AfterNotifyOne(not_full_)
      BY <1>1, <1>6
    <3> QED BY <1>2, <1>3, <3>1, NotifyWakesOne DEF Types
  <2>4. Types'
    BY <1>1, <1>2, <1>3, <1>4, <2>2, <2>3 DEF Types, AwakePopping
  <2>5. PoppersServed'
    <3>1. AwakePopping' = AwakePopping \ {t} /\ AwakePopping \in SUBSET Threads
      BY <1>1, <1>3, <1>4 DEF AwakePopping
    <3>2. Cardinality(AwakePopping') = Cardinality(AwakePopping) - 1
      BY <1>3, <3>1, OneThreadLess
    <3>3. Cardinality(AwakePopping) \in Nat
      BY <3>1, SetsOfThreads
    <3> QED BY <1>1, <1>2, <2>2, <3>2, <3>3 DEF PoppersServed
  <2>6. PushersServed'
    <3>1. AwakePushing' = Pushing \ not_full_' /\ AwakePushing = Pushing \ not_full_
      BY <1>4 DEF AwakePushing
    <3>2. Cardinality(AwakePushing) \in Nat
      BY <1>3, SetsOfThreads DEF AwakePushing
    <3> SUFFICES ASSUME not_full_' # {}
                 PROVE  /\ ~ queue'.closed
                        /\ CAPACITY - Len(queue'.items) <= Cardinality(AwakePushing')
      BY DEF PushersServed
    <3>3. ~ queue.closed /\ CAPACITY - Len(queue.items) <= Cardinality(AwakePushing)
      BY <1>2, <2>3 DEF PushersServed
    <3>4. Cardinality(AwakePushing') = Cardinality(AwakePushing) + 1
      BY <2>3, <3>1
    <3>5. ~ queue'.closed
      BY <2>2, <3>3, Zenon
    <3>6. CAPACITY - Len(queue'.items) <= Cardinality(AwakePushing')
      <4>1. Len(queue'.items) = Len(queue.items) - 1 /\ Len(queue.items) \in Nat
        BY <2>2
      <4>2. CAPACITY - Len(queue.items) <= Cardinality(AwakePushing) /\ CAPACITY \in Int
        BY <1>2, <3>3
      <4> DEFINE held == Len(queue.items)
                 awake == Cardinality(AwakePushing)
      <4>3. held \in Int /\ awake \in Int /\ CAPACITY - held <= awake
        BY <3>2, <4>1, <4>2
      <4> HIDE DEF held, awake
      <4>4. CAPACITY - (held - 1) <= awake + 1
        BY <4>2, <4>3
      <4> QED BY <3>4, <4>1, <4>4 DEF held, awake
    <3> QED BY <3>5, <3>6
  <2> QED BY <2>4, <2>5, <2>6 DEF QueueInv
<1> QED BY <1>5, <1>6

\* A step in which no thread falls asleep or leaves its call, and nothing is pushed,
\* popped or closed.
LEMMA WakingKeepsInv ==
  ASSUME QueueInv, queue' = queue, not_full_' \subseteq not_full_, not_empty_' \subseteq not_empty_,
         call' \in [Threads -> Calls \cup {None}],
         Pushing \subseteq Pushing', Popping \subseteq Popping',
         Pushing' \subseteq Threads, Popping' \subseteq Threads
  PROVE  QueueInv'
<1>1. Types /\ PushersServed /\ PoppersServed /\ CAPACITY \in Nat /\ Len(queue.items) \in Nat
  BY QueueAssumption DEF QueueInv, Types
<1>2. /\ Cardinality(AwakePushing) \in Nat /\ Cardinality(AwakePushing') \in Nat
      /\ Cardinality(AwakePushing) <= Cardinality(AwakePushing')
  <2>1. AwakePushing \in SUBSET AwakePushing' /\ AwakePushing' \in SUBSET Threads
    BY DEF AwakePushing
  <2> QED BY <2>1, MoreThreads, SetsOfThreads
<1>3. /\ Cardinality(AwakePopping) \in Nat /\ Cardinality(AwakePopping') \in Nat
      /\ Cardinality(AwakePopping) <= Cardinality(AwakePopping')
  <2>1. AwakePopping \in SUBSET AwakePopping' /\ AwakePopping' \in SUBSET Threads
    BY DEF AwakePopping
  <2> QED BY <2>1, MoreThreads, SetsOfThreads
<1>4. Types'
  BY <1>1 DEF Types
<1>5. PushersServed'
  BY <1>1, <1>2 DEF PushersServed
<1>6. PoppersServed'
  BY <1>1, <1>3 DEF PoppersServed
<1> QED BY <1>4, <1>5, <1>6 DEF QueueInv

LEMMA InvokeKeepsInv ==
  ASSUME QueueInv, NEW t \in Threads, NEW c \in Calls, Invoke(t, c)
  PROVE  QueueInv'
<1>1. /\ call[t] = None /\ call' = [call EXCEPT ![t] = c]
      /\ UNCHANGED <<queue, not_full_, not_empty_>>
      /\ call \in [Threads -> Calls \cup {None}]
  BY DEF Invoke, QueueInv, Types
<1>2. \A u \in Threads : call'[u] = IF u = t THEN c ELSE call[u]
  BY <1>1
<1>3. /\ Pushing \subseteq Pushing' /\ Popping \subseteq Popping'
      /\ Pushing' \subseteq Threads /\ Popping' \subseteq Threads
  BY <1>1, <1>2 DEF Pushing, Popping
<1>4. call' \in [Threads -> Calls \cup {None}]
  BY <1>1
<1> QED BY <1>1, <1>3, <1>4, WakingKeepsInv

LEMMA SpuriousWakeupKeepsInv ==
  ASSUME QueueInv, NEW t \in Threads, SpuriousWakeup(t)
  PROVE  QueueInv'
<1>1. /\ UNCHANGED <<queue, call>> /\ call \in [Threads -> Calls \cup {None}]
      /\ not_full_' \subseteq not_full_ /\ not_empty_' \subseteq not_empty_
  BY DEF SpuriousWakeup, QueueInv, Types
<1>2. Pushing' = Pushing /\ Popping' = Popping
  BY <1>1 DEF Pushing, Popping
<1> QED BY <1>1, <1>2, WhoIsInWhat, WakingKeepsInv

\* Whoever goes to sleep has seen that there is nothing to take.
LEMMA WaitKeepsInv ==
  ASSUME QueueInv, NEW t \in Threads, WaitNotFull(t) \/ WaitNotEmpty(t)
  PROVE  QueueInv'
<1>1. /\ Types /\ PushersServed /\ PoppersServed /\ CAPACITY \in Nat
      /\ Len(queue.items) \in Nat /\ Pushing \subseteq Threads /\ Popping \subseteq Threads
      /\ UNCHANGED <<queue, call>>
  BY QueueAssumption, WhoIsInWhat DEF QueueInv, Types, WaitNotFull, WaitNotEmpty
<1>2. Pushing' = Pushing /\ Popping' = Popping
  BY <1>1 DEF Pushing, Popping
<1>3. CASE WaitNotFull(t)
  <2>1. /\ ~ queue.closed /\ ~ (Len(queue.items) < CAPACITY)
        /\ not_full_' = not_full_ \cup {t} /\ t \in Pushing /\ not_empty_' = not_empty_
    BY <1>3 DEF WaitNotFull, MayPush
  <2>2. Types'
    BY <1>1, <1>2, <2>1 DEF Types
  <2>3. Cardinality(AwakePushing') \in Nat
    BY <1>1, <1>2, SetsOfThreads DEF AwakePushing
  <2>4. PushersServed'
    BY <1>1, <2>1, <2>3 DEF PushersServed
  <2>5. PoppersServed'
    BY <1>1, <1>2, <2>1 DEF PoppersServed, AwakePopping
  <2> QED BY <2>2, <2>4, <2>5 DEF QueueInv
<1>4. CASE WaitNotEmpty(t)
  <2>1. /\ ~ queue.closed /\ queue.items = <<>>
        /\ not_empty_' = not_empty_ \cup {t} /\ t \in Popping /\ not_full_' = not_full_
    BY <1>4 DEF WaitNotEmpty, MayPop
  <2>2. Types'
    BY <1>1, <1>2, <2>1 DEF Types
  <2>3. Cardinality(AwakePopping') \in Nat
    BY <1>1, <1>2, SetsOfThreads DEF AwakePopping
  <2>4. Len(queue.items) = 0
    BY <2>1
  <2>5. PoppersServed'
    BY <1>1, <2>1, <2>3, <2>4 DEF PoppersServed
  <2>6. PushersServed'
    BY <1>1, <1>2, <2>1 DEF PushersServed, AwakePushing
  <2> QED BY <2>2, <2>5, <2>6 DEF QueueInv
<1> QED BY <1>3, <1>4

LEMMA CloseKeepsInv ==
  ASSUME QueueInv, NEW t \in Threads, close(t)
  PROVE  QueueInv'
<1>1. /\ Types /\ not_full_' = {} /\ not_empty_' = {} /\ call' = [call EXCEPT ![t] = None]
      /\ queue' = [queue EXCEPT !.closed = TRUE]
  BY DEF QueueInv, close, Return, Closed
<1>2. call' \in [Threads -> Calls \cup {None}]
  BY <1>1 DEF Types
<1>3. queue' = [items |-> queue.items, closed |-> TRUE] /\ queue.items \in Seq(Items)
  BY <1>1 DEF Types
<1>4. Types'
  BY <1>1, <1>2, <1>3 DEF Types
<1> QED BY <1>1, <1>4 DEF QueueInv, PushersServed, PoppersServed

LEMMA NextKeepsQueueInv == QueueInv /\ [Next]_vars => QueueInv'
<1> SUFFICES ASSUME QueueInv, [Next]_vars PROVE QueueInv'
  OBVIOUS
<1>1. CASE \E t \in Threads, c \in Calls : Invoke(t, c)
  BY <1>1, InvokeKeepsInv
<1>2. CASE \E t \in Threads : Run(t)
  BY <1>2, PushKeepsInv, PopKeepsInv, WaitKeepsInv, CloseKeepsInv DEF Run
<1>3. CASE \E t \in Threads : SpuriousWakeup(t)
  BY <1>3, SpuriousWakeupKeepsInv
<1>4. CASE UNCHANGED vars
  <2>1. UNCHANGED <<queue, not_full_, not_empty_, call>>
    BY <1>4 DEF vars
  <2>2. Pushing' = Pushing /\ Popping' = Popping /\ Types
    BY <2>1 DEF Pushing, Popping, QueueInv
  <2> QED BY <2>1, <2>2, WhoIsInWhat, WakingKeepsInv DEF Types
<1> QED BY <1>1, <1>2, <1>3, <1>4 DEF Next, Threads, Calls

\* However many threads push, pop and close, with spurious wakeups: while a thread waits
\* for room or for an item, threads awake are there to take all the room, or all the
\* items, and the queue is open.
THEOREM NoWakeupIsLost == Spec => []NoLostWakeup
<1>1. QueueInv => NoLostWakeup
  BY DEF QueueInv, PushersServed, PoppersServed, NoLostWakeup, AwakePushing, AwakePopping
<1> QED BY <1>1, InitQueueInv, NextKeepsQueueInv, PTL DEF Spec

-----------------------------------------------------------------------------
(***************************************************************************)
(* The monitor implements the queue with atomic operations.  Waiting and   *)
(* being woken are stutters: only what a thread does once it has the mutex *)
(* and its condition holds can be seen from outside.                       *)
(***************************************************************************)
LEMMA RunImplementsDo ==
  ASSUME NEW t \in Threads, Run(t)
  PROVE  Abstract!Do(t) \/ UNCHANGED <<queue, call, returned>>
<1>1. CASE push(t)
  BY <1>1 DEF push, Return, Push, Abstract!Do, Abstract!DoPush, Abstract!Return, Abstract!Push,
              MayPush, Pushed, Abstract!MayPush, Abstract!Pushed
<1>2. CASE pop(t)
  BY <1>2 DEF pop, Return, Pop, Abstract!Do, Abstract!DoPop, Abstract!Return, Abstract!Pop,
              MayPop, Popped, Abstract!MayPop, Abstract!Popped
<1>3. CASE close(t)
  BY <1>3 DEF close, Return, Close, Abstract!Do, Abstract!DoClose, Abstract!Return,
              Abstract!Close, Closed, Abstract!Closed
<1>4. CASE WaitNotFull(t) \/ WaitNotEmpty(t)
  BY <1>4 DEF WaitNotFull, WaitNotEmpty
<1> QED BY <1>1, <1>2, <1>3, <1>4 DEF Run

LEMMA StepImplementsStep == [Next]_vars => [Abstract!Next]_(Abstract!vars)
<1> SUFFICES ASSUME [Next]_vars PROVE Abstract!Next \/ UNCHANGED <<queue, call, returned>>
  BY DEF Abstract!vars
<1>1. CASE \E t \in Producers, c \in {Push(item) : item \in Items} \cup {Close} : Invoke(t, c)
  BY <1>1 DEF Invoke, Push, Close, Abstract!Next, Abstract!Invoke, Abstract!Push, Abstract!Close
<1>2. CASE \E t \in Consumers, c \in {Pop, Close} : Invoke(t, c)
  BY <1>2 DEF Invoke, Pop, Close, Abstract!Next, Abstract!Invoke, Abstract!Pop, Abstract!Close
<1>3. CASE \E t \in Threads : Run(t)
  BY <1>3, RunImplementsDo DEF Abstract!Next, Threads, Abstract!Threads
<1>4. CASE \E t \in Threads : SpuriousWakeup(t)
  BY <1>4 DEF SpuriousWakeup
<1>5. CASE UNCHANGED vars
  BY <1>5 DEF vars
<1> QED BY <1>1, <1>2, <1>3, <1>4, <1>5 DEF Next

\* push, pop and close under the mutex, with two condition variables and spurious wakeups,
\* do nothing that calls each taking effect at once could not.  That a thread which can go
\* on does is the fairness half of ImplementsClosableQueue.
THEOREM CallsTakeEffectAtOnce == Spec => Abstract!Init /\ [][Abstract!Next]_(Abstract!vars)
<1>1. Init => Abstract!Init
  BY DEF Init, Abstract!Init, EmptyQueue, Abstract!EmptyQueue, Threads, Abstract!Threads
<1> QED BY <1>1, StepImplementsStep, PTL DEF Spec
=============================================================================
