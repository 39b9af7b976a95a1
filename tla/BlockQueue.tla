----------------------------- MODULE BlockQueue -----------------------------
(***************************************************************************)
(* include/BlockQueue.h: the bounded, mutex-protected deque every stage of *)
(* the server hands its work through.                                      *)
(*                                                                         *)
(* queue_ is only touched while mutex_ is held, so one critical section    *)
(* (from acquiring mutex_, or re-acquiring it inside wait_for, to          *)
(* releasing it or blocking) is one step.  A thread inside an operation is *)
(*   "enter"    about to lock mutex_ for the first time,                   *)
(*   "waiting"  blocked in wait_for on cond_is_empty or cond_is_full,      *)
(*   "woken"    notified or spuriously woken, about to re-lock mutex_,     *)
(*   "expired"  its 30 ms deadline has passed, about to re-lock mutex_,    *)
(*   "sleeping" in the sleep_for between two attempts of push/push_front.  *)
(***************************************************************************)
EXTENDS Naturals, Sequences

CONSTANTS Producers,  \* threads that push
          Consumers,  \* threads that pop
          Values,     \* what is pushed
          NoValue,    \* "no value"
          max_size    \* the capacity given to the constructor

(* Every BlockQueue of the program is built with a positive capacity.      *)
ASSUME BlockQueueAssumption ==
    /\ Producers # {}
    /\ Consumers # {}
    /\ max_size \in Nat \ {0}
    /\ NoValue \notin Values
    /\ Values \cap {"true", "false"} = {}

VARIABLES queue_, at, op, val, ret

vars == <<queue_, at, op, val, ret>>

Threads == Producers \cup Consumers

TryOps  == {"try_push", "try_push_front", "try_pop"}
PushOps == {"try_push", "try_push_front", "push", "push_front"}
PopOps  == {"try_pop", "pop"}
BackOps == {"try_push", "push"}

(* The threads blocked on each condition variable.                         *)
cond_is_empty == {t \in Threads : at[t] = "waiting" /\ op[t] \in PopOps}
cond_is_full  == {t \in Threads : at[t] = "waiting" /\ op[t] \in PushOps}

(* notify_one wakes one waiter if there is one: the possible sets it wakes.*)
notify_one(waiters) == IF waiters = {} THEN {{}} ELSE {{w} : w \in waiters}

Init ==
    /\ queue_ = <<>>
    /\ at = [t \in Threads |-> "idle"]
    /\ op = [t \in Threads |-> "none"]
    /\ val = [t \in Threads |-> NoValue]
    /\ ret = [t \in Threads |-> NoValue]

Invoke(t, o, v) ==
    /\ at[t] = "idle"
    /\ at' = [at EXCEPT ![t] = "enter"]
    /\ op' = [op EXCEPT ![t] = o]
    /\ val' = [val EXCEPT ![t] = v]
    /\ ret' = [ret EXCEPT ![t] = NoValue]
    /\ UNCHANGED queue_

-----------------------------------------------------------------------------
(* mutant: an off-by-one in the bound of try_push.                         *)
Mut_HasRoom == Len(queue_) <= max_size

(* The predicates handed to wait_for.                                      *)
HasRoom == Len(queue_) < max_size
HasItem == queue_ # <<>>
Ready(t) == IF op[t] \in PushOps THEN HasRoom ELSE HasItem

(* mutex_ is being (re-)acquired by t to evaluate the predicate.           *)
Locks(t) == at[t] \in {"enter", "woken", "expired"}

(* t returns r; the threads of `awake' have been notified.                 *)
Return(t, r, awake) ==
    /\ at' = [u \in Threads |-> IF u = t THEN "idle"
                                ELSE IF u \in awake THEN "woken" ELSE at[u]]
    /\ ret' = [ret EXCEPT ![t] = r]
    /\ UNCHANGED <<op, val>>

(* A push notifies a consumer only when it finds the queue empty ...       *)
WokenByPush == IF queue_ = <<>> THEN notify_one(cond_is_empty) ELSE {{}}

(* mutant: the slot just freed is forgotten, so no producer is woken.      *)
Mut_WokenByPop ==
    IF Len(queue_) - 1 = max_size THEN notify_one(cond_is_full) ELSE {{}}

(* ... and a pop notifies a producer only when it leaves one free slot.    *)
WokenByPop ==
    IF Len(queue_) - 1 = max_size - 1 THEN notify_one(cond_is_full) ELSE {{}}

Push(t) ==
    /\ Locks(t)
    /\ op[t] \in PushOps
    /\ HasRoom
    /\ queue_' = IF op[t] \in BackOps THEN Append(queue_, val[t])
                 ELSE <<val[t]>> \o queue_
    /\ \E awake \in WokenByPush : Return(t, "true", awake)

Pop(t) ==
    /\ Locks(t)
    /\ op[t] \in PopOps
    /\ HasItem
    /\ queue_' = Tail(queue_)
    /\ \E awake \in WokenByPop : Return(t, Head(queue_), awake)

(* The predicate is false and the deadline has not passed: block (again).  *)
Block(t) ==
    /\ at[t] \in {"enter", "woken"}
    /\ ~Ready(t)
    /\ at' = [at EXCEPT ![t] = "waiting"]
    /\ UNCHANGED <<queue_, op, val, ret>>

(* mutant: at the deadline the predicate is not evaluated again.           *)
Mut_GiveUp(t) ==
    /\ at[t] = "expired"
    /\ op[t] \in TryOps
    /\ Return(t, "false", {})
    /\ UNCHANGED queue_

(* wait_for ends at its deadline and returns the predicate, which is false:*)
(* a try_ operation returns false.                                         *)
GiveUp(t) ==
    /\ at[t] = "expired"
    /\ ~Ready(t)
    /\ op[t] \in TryOps
    /\ Return(t, "false", {})
    /\ UNCHANGED queue_

(* push and push_front sleep before they try again; pop waits again at     *)
(* once, still holding mutex_.                                             *)
Retry(t) ==
    /\ at[t] = "expired"
    /\ ~Ready(t)
    /\ op[t] \notin TryOps
    /\ at' = [at EXCEPT ![t] = IF op[t] = "pop" THEN "waiting" ELSE "sleeping"]
    /\ UNCHANGED <<queue_, op, val, ret>>

Moves(t, from, to) ==
    /\ at[t] = from
    /\ at' = [at EXCEPT ![t] = to]
    /\ UNCHANGED <<queue_, op, val, ret>>

(* mutant: pop blocks in a wait without a deadline.                        *)
Mut_Timeout(t) == op[t] # "pop" /\ Moves(t, "waiting", "expired")

(* prod_wait_time / cons_wait_time pass while t is blocked.                *)
Timeout(t) == Moves(t, "waiting", "expired")

(* A condition variable may wake a waiter nobody notified.                 *)
SpuriousWakeup(t) == Moves(t, "waiting", "woken")

SleepEnds(t) == Moves(t, "sleeping", "enter")

Critical(t) == Push(t) \/ Pop(t) \/ Block(t) \/ GiveUp(t) \/ Retry(t)

Next ==
    \/ \E t \in Producers, o \in PushOps, v \in Values : Invoke(t, o, v)
    \/ \E t \in Consumers, o \in PopOps : Invoke(t, o, NoValue)
    \/ \E t \in Threads :
         Critical(t) \/ Timeout(t) \/ SpuriousWakeup(t) \/ SleepEnds(t)

Spec == Init /\ [][Next]_vars

(***************************************************************************)
(* Fairness: the scheduler runs every thread that can run, every deadline  *)
(* and every sleep elapses.  Nothing is assumed of notifications, of       *)
(* spurious wake-ups or of callers: an idle thread may stay idle.          *)
(***************************************************************************)
Fairness ==
    \A t \in Threads :
        WF_vars(Critical(t)) /\ WF_vars(Timeout(t)) /\ WF_vars(SleepEnds(t))

FairSpec == Spec /\ Fairness

-----------------------------------------------------------------------------
(* The queue holds pushed values, never more than max_size of them.        *)
TypeOK ==
    /\ queue_ \in Seq(Values)
    /\ Len(queue_) <= max_size
    /\ at \in [Threads -> {"idle", "enter", "waiting", "woken", "expired", "sleeping"}]
    /\ op \in [Threads -> PushOps \cup PopOps \cup {"none"}]
    /\ val \in [Threads -> Values \cup {NoValue}]
    /\ ret \in [Threads -> Values \cup {NoValue, "true", "false"}]
    /\ \A t \in Threads : op[t] \in PushOps => t \in Producers /\ val[t] \in Values
    /\ \A t \in Threads : op[t] \in PopOps => t \in Consumers

(* The economical notifications of try_push (only into an empty queue,     *)
(* BlockQueue.h:55-62) and of pop (only out of a full one, lines 99 and    *)
(* 126) never leave every consumer asleep on a queue that has an item, nor *)
(* every producer asleep on a queue that has room, even with all deadlines *)
(* still in the future.                                                    *)
NeverAllAsleep ==
    /\ HasItem => \E t \in Consumers : t \notin cond_is_empty
    /\ HasRoom => \E t \in Producers : t \notin cond_is_full

Abs == INSTANCE BoundedQueue
         WITH buf <- queue_, pending <- [t \in Threads |-> at[t] # "idle"],
              Capacity <- max_size

(* BlockQueue implements the bounded queue of BoundedQueue.tla: every      *)
(* operation takes effect once, at the end asked for, within one critical  *)
(* section, and a try_ operation returns false only at a moment at which   *)
(* the queue is full (or empty), however it was woken.                     *)
RefinesBoundedQueue == Abs!SafeSpec

(* Notifications alone can leave a waiter behind (two pushes, one          *)
(* notification), but because every wait has a deadline an item and a      *)
(* pending pop, or room and a pending push, never stay side by side for    *)
(* ever.                                                                   *)
NeverStalls == Abs!Progress
=============================================================================
