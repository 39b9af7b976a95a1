-------------------------- MODULE BlockQueueProofs --------------------------
(***************************************************************************)
(* Theorems about BlockQueue for any threads, values and capacity.         *)
(***************************************************************************)
EXTENDS BlockQueue, TLAPS

(* What notify_one may wake: nobody, or exactly one of the waiters, and    *)
(* somebody whenever anybody waits.                                        *)
LEMMA NotifyOne ==
    ASSUME NEW S, NEW awake \in notify_one(S)
    PROVE  /\ awake \subseteq S
           /\ S # {} => awake # {}
  BY DEF notify_one

(* Every step of the queue leaves it well typed and within its capacity.   *)
LEMMA TypeStep == TypeOK /\ [Next]_vars => TypeOK'
  <1> SUFFICES ASSUME TypeOK, [Next]_vars PROVE TypeOK'
    OBVIOUS
  <1> USE BlockQueueAssumption
  <1>1. ASSUME NEW t \in Producers, NEW o \in PushOps, NEW v \in Values, Invoke(t, o, v)
        PROVE  TypeOK'
    BY <1>1 DEF Invoke, TypeOK, Threads, PushOps, PopOps
  <1>2. ASSUME NEW t \in Consumers, NEW o \in PopOps, Invoke(t, o, NoValue)
        PROVE  TypeOK'
    BY <1>2 DEF Invoke, TypeOK, Threads, PushOps, PopOps
  <1>3. ASSUME NEW t \in Threads, Push(t)
        PROVE  TypeOK'
    <2>1. val[t] \in Values
      BY <1>3 DEF Push, TypeOK
    <2>2. queue_' \in Seq(Values) /\ Len(queue_') = Len(queue_) + 1
      BY <1>3, <2>1 DEF Push, TypeOK
    <2>3. Len(queue_') <= max_size
      BY <1>3, <2>2 DEF Push, HasRoom, TypeOK
    <2>4. PICK awake \in WokenByPush : Return(t, "true", awake)
      BY <1>3 DEF Push
    <2> QED
      BY <2>2, <2>3, <2>4 DEF Return, TypeOK
  <1>4. ASSUME NEW t \in Threads, Pop(t)
        PROVE  TypeOK'
    <2>1. Head(queue_) \in Values /\ queue_' \in Seq(Values) /\ Len(queue_') = Len(queue_) - 1
      BY <1>4 DEF Pop, HasItem, TypeOK
    <2>2. Len(queue_') <= max_size
      BY <2>1 DEF TypeOK
    <2>3. PICK awake \in WokenByPop : Return(t, Head(queue_), awake)
      BY <1>4 DEF Pop
    <2> QED
      BY <2>1, <2>2, <2>3 DEF Return, TypeOK
  <1>5. ASSUME NEW t \in Threads, Block(t)
        PROVE  TypeOK'
    BY <1>5 DEF Block, TypeOK
  <1>6. ASSUME NEW t \in Threads, GiveUp(t)
        PROVE  TypeOK'
    BY <1>6 DEF GiveUp, Return, TypeOK
  <1>7. ASSUME NEW t \in Threads, Retry(t)
        PROVE  TypeOK'
    BY <1>7 DEF Retry, TypeOK
  <1>8. ASSUME NEW t \in Threads, Timeout(t) \/ SpuriousWakeup(t) \/ SleepEnds(t)
        PROVE  TypeOK'
    BY <1>8 DEF Timeout, SpuriousWakeup, SleepEnds, Moves, TypeOK
  <1>9. CASE UNCHANGED vars
    BY <1>9 DEF vars, TypeOK
  <1> QED
    BY <1>1, <1>2, <1>3, <1>4, <1>5, <1>6, <1>7, <1>8, <1>9 DEF Next, Critical

(* The queue stays well typed and never holds more than max_size items.    *)
THEOREM TypeCorrect == Spec => []TypeOK
  <1>1. Init => TypeOK
    BY BlockQueueAssumption DEF Init, TypeOK, PushOps, PopOps
  <1> QED
    BY <1>1, TypeStep, PTL DEF Spec

-----------------------------------------------------------------------------
(* A step that only takes threads off the wait sets, and does not turn a   *)
(* queue without items (room) into one with items (room), keeps somebody   *)
(* awake.                                                                  *)
LEMMA StillAwake ==
    ASSUME NeverAllAsleep,
           cond_is_empty' \subseteq cond_is_empty, HasItem' => HasItem,
           cond_is_full' \subseteq cond_is_full, HasRoom' => HasRoom
    PROVE  NeverAllAsleep'
  BY DEF NeverAllAsleep

LEMMA AwakeStep == TypeOK /\ NeverAllAsleep /\ [Next]_vars => NeverAllAsleep'
  <1> SUFFICES ASSUME TypeOK, NeverAllAsleep, [Next]_vars PROVE NeverAllAsleep'
    OBVIOUS
  <1> USE BlockQueueAssumption
  <1>1. ASSUME NEW t \in Threads, NEW o, NEW v, Invoke(t, o, v)
        PROVE  NeverAllAsleep'
    BY <1>1, StillAwake DEF Invoke, TypeOK, cond_is_empty, cond_is_full, HasItem, HasRoom
  <1>2. ASSUME NEW t \in Threads, Push(t)
        PROVE  NeverAllAsleep'
    <2>1. PICK awake \in WokenByPush : Return(t, "true", awake)
      BY <1>2 DEF Push
    <2>2. /\ cond_is_empty' = cond_is_empty \ (awake \cup {t})
          /\ cond_is_full' = cond_is_full \ (awake \cup {t})
      BY <2>1 DEF Return, cond_is_empty, cond_is_full, TypeOK
    <2>3. HasRoom' => HasRoom
      BY <1>2 DEF Push
    <2>4. CASE HasItem
      BY <2>2, <2>3, <2>4, StillAwake
    <2>5. CASE ~HasItem
      <3>1. awake \in notify_one(cond_is_empty)
        BY <2>1, <2>5 DEF WokenByPush, HasItem
      <3>2. \E c \in Consumers : c \notin cond_is_empty'
        <4>1. CASE cond_is_empty = {}
          BY <2>2, <4>1
        <4>2. CASE cond_is_empty # {}
          <5>1. awake \subseteq cond_is_empty /\ awake # {}
            BY <3>1, <4>2, NotifyOne
          <5> QED
            BY <2>2, <5>1 DEF cond_is_empty, TypeOK
        <4> QED
          BY <4>1, <4>2
      <3> QED
        BY <2>2, <2>3, <3>2 DEF NeverAllAsleep
    <2> QED
      BY <2>4, <2>5
  <1>3. ASSUME NEW t \in Threads, Pop(t)
        PROVE  NeverAllAsleep'
    <2>1. PICK awake \in WokenByPop : Return(t, Head(queue_), awake)
      BY <1>3 DEF Pop
    <2>2. /\ cond_is_empty' = cond_is_empty \ (awake \cup {t})
          /\ cond_is_full' = cond_is_full \ (awake \cup {t})
      BY <2>1 DEF Return, cond_is_empty, cond_is_full, TypeOK
    <2>3. HasItem' => HasItem
      BY <1>3 DEF Pop
    <2>4. CASE HasRoom
      BY <2>2, <2>3, <2>4, StillAwake
    <2>5. CASE ~HasRoom
      <3>1. Len(queue_) = max_size
        BY <2>5 DEF HasRoom, TypeOK
      <3>2. awake \in notify_one(cond_is_full)
        BY <2>1, <3>1 DEF WokenByPop
      <3>3. \E p \in Producers : p \notin cond_is_full'
        <4>1. CASE cond_is_full = {}
          BY <2>2, <4>1
        <4>2. CASE cond_is_full # {}
          <5>1. awake \subseteq cond_is_full /\ awake # {}
            BY <3>2, <4>2, NotifyOne
          <5> QED
            BY <2>2, <5>1 DEF cond_is_full, TypeOK
        <4> QED
          BY <4>1, <4>2
      <3> QED
        BY <2>2, <2>3, <3>3 DEF NeverAllAsleep
    <2> QED
      BY <2>4, <2>5
  <1>4. ASSUME NEW t \in Threads, Block(t) \/ Retry(t)
        PROVE  NeverAllAsleep'
    <2>1. /\ UNCHANGED <<queue_, op>>
          /\ ~Ready(t)
          /\ \A u \in Threads : u # t => at'[u] = at[u]
      BY <1>4 DEF Block, Retry, TypeOK
    <2>2. UNCHANGED <<HasItem, HasRoom>>
      BY <2>1 DEF HasItem, HasRoom
    <2>3. CASE op[t] \in PushOps
      <3>1. ~HasRoom' /\ cond_is_empty' \subseteq cond_is_empty
        BY <2>1, <2>2, <2>3 DEF Ready, cond_is_empty, PushOps, PopOps
      <3> QED
        BY <2>2, <3>1 DEF NeverAllAsleep
    <2>4. CASE op[t] \notin PushOps
      <3>1. ~HasItem' /\ cond_is_full' \subseteq cond_is_full
        BY <2>1, <2>2, <2>4 DEF Ready, cond_is_full
      <3> QED
        BY <2>2, <3>1 DEF NeverAllAsleep
    <2> QED
      BY <2>3, <2>4
  <1>5. ASSUME NEW t \in Threads, GiveUp(t)
        PROVE  NeverAllAsleep'
    BY <1>5, StillAwake
       DEF GiveUp, Return, TypeOK, cond_is_empty, cond_is_full, HasItem, HasRoom
  <1>6. ASSUME NEW t \in Threads, Timeout(t) \/ SpuriousWakeup(t) \/ SleepEnds(t)
        PROVE  NeverAllAsleep'
    BY <1>6, StillAwake DEF Timeout, SpuriousWakeup, SleepEnds, Moves, TypeOK,
                            cond_is_empty, cond_is_full, HasItem, HasRoom
  <1>7. CASE UNCHANGED vars
    BY <1>7, StillAwake DEF vars, cond_is_empty, cond_is_full, HasItem, HasRoom
  <1> QED
    BY <1>1, <1>2, <1>3, <1>4, <1>5, <1>6, <1>7 DEF Next, Critical, Threads

(* BlockQueue's notifications never leave all consumers asleep on an item, *)
(* or all producers asleep on room, whatever the number of threads and the *)
(* capacity: deadlines are needed for promptness only.                     *)
THEOREM NobodyForgotten == Spec => []NeverAllAsleep
  <1>1. Init => NeverAllAsleep
    BY BlockQueueAssumption DEF Init, NeverAllAsleep, cond_is_empty, cond_is_full, Threads
  <1> QED
    BY <1>1, AwakeStep, TypeCorrect, PTL DEF Spec

-----------------------------------------------------------------------------
(* A thread that leaves an operation leaves it in the abstract queue, and  *)
(* nobody else enters or leaves one in the same step.                      *)
LEMMA ReturnFinishes ==
    ASSUME TypeOK, NEW t \in Threads, at[t] # "idle", NEW r, NEW awake,
           \A w \in awake : at[w] = "waiting",
           Return(t, r, awake)
    PROVE  Abs!Finish(t, r)
  <1> DEFINE pend == [u \in Threads |-> at[u] # "idle"]
  <1>1. pend' = [pend EXCEPT ![t] = FALSE]
    BY DEF Return, TypeOK
  <1> QED
    BY <1>1 DEF Return, Abs!Finish

LEMMA StutterStep ==
    ASSUME TypeOK, NEW t \in Threads, at[t] # "idle", NEW s, s # "idle",
           at' = [at EXCEPT ![t] = s], UNCHANGED <<queue_, op, val, ret>>
    PROVE  UNCHANGED Abs!absVars
  <1> DEFINE pend == [u \in Threads |-> at[u] # "idle"]
  <1>1. pend' = pend
    BY DEF TypeOK
  <1> QED
    BY <1>1 DEF Abs!absVars

(* BlockQueue implements BoundedQueue for any threads and capacity: each   *)
(* push, pop and give-up under mutex_ is the corresponding indivisible     *)
(* step, and waiting, waking, expiring and sleeping change nothing.        *)
THEOREM Refinement == Spec => RefinesBoundedQueue
  <1> USE BlockQueueAssumption
  <1> DEFINE pend == [u \in Threads |-> at[u] # "idle"]
  <1>1. Init => Abs!Init
    BY DEF Init, Abs!Init, Threads, Abs!Threads
  <1>2. TypeOK /\ [Next]_vars => [Abs!Next]_(Abs!absVars)
    <2> SUFFICES ASSUME TypeOK, [Next]_vars PROVE [Abs!Next]_(Abs!absVars)
      OBVIOUS
    <2> USE DEF PushOps, PopOps, TryOps, BackOps, Abs!PushOps, Abs!PopOps,
                Abs!TryOps, Abs!BackOps, Abs!Threads
    <2>1. ASSUME NEW t \in Threads, NEW o, NEW v, Invoke(t, o, v)
          PROVE  Abs!Begin(t, o, v)
      <3>1. pend' = [pend EXCEPT ![t] = TRUE] /\ ~pend[t]
        BY <2>1 DEF Invoke, TypeOK
      <3> QED
        BY <2>1, <3>1 DEF Invoke, Abs!Begin
    <2>2. ASSUME NEW t \in Threads, Push(t)
          PROVE  Abs!Put(t)
      <3>1. PICK awake \in WokenByPush : Return(t, "true", awake)
        BY <2>2 DEF Push
      <3>2. \A w \in awake : at[w] = "waiting"
        BY <3>1, NotifyOne DEF WokenByPush, cond_is_empty
      <3>3. Abs!Finish(t, "true")
        BY <2>2, <3>1, <3>2, ReturnFinishes DEF Push, Locks
      <3> QED
        BY <2>2, <3>3 DEF Push, HasRoom, Abs!Put
    <2>3. ASSUME NEW t \in Threads, Pop(t)
          PROVE  Abs!Get(t)
      <3>1. PICK awake \in WokenByPop : Return(t, Head(queue_), awake)
        BY <2>3 DEF Pop
      <3>2. \A w \in awake : at[w] = "waiting"
        BY <3>1, NotifyOne DEF WokenByPop, cond_is_full
      <3>3. at[t] # "idle"
        BY <2>3 DEF Pop, Locks
      <3>4. PICK r : r = Head(queue_)
        OBVIOUS
      <3>5. Abs!Finish(t, r)
        BY <3>1, <3>2, <3>3, <3>4, ReturnFinishes
      <3> QED
        BY <2>3, <3>4, <3>5 DEF Pop, HasItem, Abs!Get, Abs!Finish
    <2>4. ASSUME NEW t \in Threads, GiveUp(t)
          PROVE  Abs!Refuse(t)
      <3>1. Abs!Finish(t, "false")
        BY <2>4, ReturnFinishes DEF GiveUp
      <3>2. IF op[t] \in Abs!PushOps THEN Len(queue_) = max_size ELSE queue_ = <<>>
        BY <2>4 DEF GiveUp, Ready, HasRoom, HasItem, TypeOK
      <3> QED
        BY <2>4, <3>1, <3>2 DEF GiveUp, Abs!Refuse
    <2>5. ASSUME NEW t \in Threads, Block(t) \/ Retry(t)
          PROVE  UNCHANGED Abs!absVars
      BY <2>5, StutterStep DEF Block, Retry
    <2>6. ASSUME NEW t \in Threads, Timeout(t) \/ SpuriousWakeup(t) \/ SleepEnds(t)
          PROVE  UNCHANGED Abs!absVars
      BY <2>6, StutterStep DEF Timeout, SpuriousWakeup, SleepEnds, Moves
    <2>7. CASE UNCHANGED vars
      BY <2>7 DEF vars, Abs!absVars
    <2> QED
      BY <2>1, <2>2, <2>3, <2>4, <2>5, <2>6, <2>7
         DEF Next, Critical, Threads, Abs!Next
  <1> QED
    BY <1>1, <1>2, TypeCorrect, PTL DEF Spec, RefinesBoundedQueue, Abs!SafeSpec
=============================================================================
