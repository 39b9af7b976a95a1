---------------------------- MODULE BoundedQueue ----------------------------
(***************************************************************************)
(* What BlockQueue<T> promises its callers: a bounded double-ended queue   *)
(* whose operations each take effect in one indivisible step between their *)
(* call and their return.  A try_ operation may give up, but only at a     *)
(* moment at which the queue really is full (or empty); push, push_front   *)
(* and pop never give up.                                                  *)
(***************************************************************************)
EXTENDS Naturals, Sequences

CONSTANTS Producers, Consumers, Values, NoValue, Capacity

VARIABLES buf,      \* the content of the queue, front first
          pending,  \* pending[t]: t is inside an operation
          op,       \* op[t]: its current (or last) operation
          val,      \* val[t]: the value it pushes
          ret       \* ret[t]: what its last operation returned

absVars == <<buf, pending, op, val, ret>>

TryOps  == {"try_push", "try_push_front", "try_pop"}
PushOps == {"try_push", "try_push_front", "push", "push_front"}
PopOps  == {"try_pop", "pop"}
BackOps == {"try_push", "push"}

Threads == Producers \cup Consumers

Init ==
    /\ buf = <<>>
    /\ pending = [t \in Threads |-> FALSE]
    /\ op = [t \in Threads |-> "none"]
    /\ val = [t \in Threads |-> NoValue]
    /\ ret = [t \in Threads |-> NoValue]

Begin(t, o, v) ==
    /\ ~pending[t]
    /\ pending' = [pending EXCEPT ![t] = TRUE]
    /\ op' = [op EXCEPT ![t] = o]
    /\ val' = [val EXCEPT ![t] = v]
    /\ ret' = [ret EXCEPT ![t] = NoValue]
    /\ UNCHANGED buf

Finish(t, r) ==
    /\ pending[t]
    /\ pending' = [pending EXCEPT ![t] = FALSE]
    /\ ret' = [ret EXCEPT ![t] = r]
    /\ UNCHANGED <<op, val>>

Put(t) ==
    /\ op[t] \in PushOps
    /\ Len(buf) < Capacity
    /\ buf' = IF op[t] \in BackOps THEN Append(buf, val[t]) ELSE <<val[t]>> \o buf
    /\ Finish(t, "true")

Get(t) ==
    /\ op[t] \in PopOps
    /\ buf # <<>>
    /\ buf' = Tail(buf)
    /\ Finish(t, Head(buf))

Refuse(t) ==
    /\ op[t] \in TryOps
    /\ IF op[t] \in PushOps THEN Len(buf) = Capacity ELSE buf = <<>>
    /\ Finish(t, "false")
    /\ UNCHANGED buf

Next ==
    \/ \E t \in Producers, o \in PushOps, v \in Values : Begin(t, o, v)
    \/ \E t \in Consumers, o \in PopOps : Begin(t, o, NoValue)
    \/ \E t \in Threads : Put(t) \/ Get(t) \/ Refuse(t)

SafeSpec == Init /\ [][Next]_absVars

(***************************************************************************)
(* Progress: while an item and a pending pop are both there some operation *)
(* ends the situation, and likewise for room and a pending push.           *)
(***************************************************************************)
Progress ==
    /\ WF_absVars(\E t \in Consumers : Get(t))
    /\ WF_absVars(\E t \in Producers : Put(t))

Spec == SafeSpec /\ Progress
=============================================================================
