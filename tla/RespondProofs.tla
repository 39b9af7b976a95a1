---------------------------- MODULE RespondProofs ----------------------------
(***************************************************************************)
(* What becomes of a call that was read: proofs about the queues and       *)
(* workers of Responder.cpp and Connection.cpp, for any number of          *)
(* connections, calls, readers and handlers and any queue capacities.      *)
(***************************************************************************)
EXTENDS ConnectionProofs

-----------------------------------------------------------------------------
(* Counting.                                                               *)

(* Where x is in s, and how often.                                         *)
At(s, x)    == {i \in DOMAIN s : s[i] = x}
Count(s, x) == Cardinality(At(s, x))

(* A truth value as a number.                                              *)
One(P) == IF P THEN 1 ELSE 0

(* Two sets that differ in v at most.                                      *)
LEMMA OneChanged ==
    ASSUME NEW A, NEW B, NEW v, IsFiniteSet(A),
           \A u : u # v => (u \in A <=> u \in B)
    PROVE  /\ IsFiniteSet(B)
           /\ Cardinality(A) \in Nat /\ Cardinality(B) \in Nat
           /\ Cardinality(B) + One(v \in A) = Cardinality(A) + One(v \in B)
<1> DEFINE C == A \ {v}
<1>1. IsFiniteSet(C) /\ Cardinality(C) = IF v \in A THEN Cardinality(A) - 1 ELSE Cardinality(A)
  BY FS_RemoveElement
<1>2. IsFiniteSet(C \cup {v}) /\ Cardinality(C \cup {v}) = Cardinality(C) + 1
  BY <1>1, FS_AddElement
<1>3. B = IF v \in B THEN C \cup {v} ELSE C
  OBVIOUS
<1>4. IsFiniteSet(B) /\ Cardinality(B) = Cardinality(C) + One(v \in B)
  <2>1. Cardinality(C) \in Nat
    BY <1>1, FS_CardinalityType
  <2>2. CASE v \in B
    <3>1. B = C \cup {v} /\ One(v \in B) = 1
      BY <1>3, <2>2 DEF One
    <3>2. QED
      BY <1>2, <3>1
  <2>3. CASE v \notin B
    <3>1. B = C /\ One(v \in B) = 0
      BY <1>3, <2>3 DEF One
    <3>2. QED
      BY <1>1, <2>1, <3>1
  <2>4. QED
    BY <2>2, <2>3
<1>5. Cardinality(A) \in Nat /\ Cardinality(B) \in Nat /\ Cardinality(C) \in Nat
  BY <1>1, <1>4, FS_CardinalityType
<1>6. QED
  BY <1>1, <1>4, <1>5 DEF One

(* A sequence has an element a finite number of times.                     *)
LEMMA CountType ==
    ASSUME NEW S, NEW s \in Seq(S), NEW x
    PROVE  /\ IsFiniteSet(At(s, x)) /\ Count(s, x) \in Nat
           /\ Count(s, x) = 0 <=> \A i \in DOMAIN s : s[i] # x
<1>1. IsFiniteSet(DOMAIN s)
  <2>1. DOMAIN s = 1 .. Len(s) /\ Len(s) \in Nat
    OBVIOUS
  <2>2. QED
    BY <2>1, FS_Interval
<1>2. IsFiniteSet(At(s, x))
  BY <1>1, FS_Subset DEF At
<1>3. QED
  BY <1>2, FS_CardinalityType, FS_EmptySet DEF Count, At

(* Append adds an element ...                                              *)
LEMMA CountAppend ==
    ASSUME NEW S, NEW s \in Seq(S), NEW e \in S, NEW x
    PROVE  Count(Append(s, e), x) = Count(s, x) + One(e = x)
<1>1. /\ DOMAIN s = 1 .. Len(s) /\ Len(s) \in Nat
      /\ DOMAIN Append(s, e) = 1 .. Len(s) + 1
      /\ Append(s, e)[Len(s) + 1] = e
      /\ \A i \in 1 .. Len(s) : Append(s, e)[i] = s[i]
  OBVIOUS
<1>2. \A u : u # Len(s) + 1 => (u \in At(s, x) <=> u \in At(Append(s, e), x))
  BY <1>1 DEF At
<1>3. Len(s) + 1 \notin At(s, x) /\ (Len(s) + 1 \in At(Append(s, e), x) <=> e = x)
  BY <1>1 DEF At
<1>4. IsFiniteSet(At(s, x))
  BY CountType
<1>5. /\ Count(s, x) \in Nat /\ Count(Append(s, e), x) \in Nat
      /\ Count(Append(s, e), x) + One(Len(s) + 1 \in At(s, x))
           = Count(s, x) + One(Len(s) + 1 \in At(Append(s, e), x))
  BY <1>2, <1>4, OneChanged DEF Count
<1>6. QED
  BY <1>3, <1>5 DEF One

(* ... Tail takes the head off ...                                         *)
LEMMA CountTail ==
    ASSUME NEW S, NEW s \in Seq(S), s # <<>>, NEW x
    PROVE  Count(s, x) = Count(Tail(s), x) + One(Head(s) = x)
<1>1. /\ DOMAIN s = 1 .. Len(s) /\ Len(s) \in Nat \ {0} /\ Head(s) = s[1]
      /\ DOMAIN Tail(s) = 1 .. Len(s) - 1
      /\ \A i \in 1 .. Len(s) - 1 : Tail(s)[i] = s[i + 1]
      /\ Tail(s) \in Seq(S)
  OBVIOUS
<1> DEFINE A == At(Tail(s), x)
           B == At(s, x) \ {1}
           f == [i \in A |-> i + 1]
<1>2. f \in Bijection(A, B)
  <2>1. A \subseteq 1 .. Len(s) - 1 /\ B \subseteq 2 .. Len(s)
    BY <1>1 DEF At
  <2>2. \A i \in A : i + 1 \in B
    BY <1>1, <2>1 DEF At
  <2>3. \A j \in B : j - 1 \in A /\ (j - 1) + 1 = j
    BY <1>1, <2>1 DEF At
  <2>4. f \in [A -> B] /\ \A i, j \in A : f[i] = f[j] => i = j
    BY <2>1, <2>2
  <2>5. \A j \in B : \E i \in A : f[i] = j
    BY <2>3
  <2>6. QED
    BY <2>4, <2>5 DEF Bijection, Injection, Surjection, IsInjective
<1>3. IsFiniteSet(A) /\ IsFiniteSet(At(s, x)) /\ Count(s, x) \in Nat
  BY <1>1, CountType
<1>4. Cardinality(B) = Cardinality(A)
  BY <1>2, <1>3, FS_Bijection DEF ExistsBijection
<1>5. Cardinality(B) = IF 1 \in At(s, x) THEN Count(s, x) - 1 ELSE Count(s, x)
  BY <1>3, FS_RemoveElement DEF Count
<1>6. 1 \in At(s, x) <=> Head(s) = x
  BY <1>1 DEF At
<1>7. QED
  BY <1>3, <1>4, <1>5, <1>6 DEF Count, One

(* ... and an element pushed to the front is the new head.                 *)
LEMMA CountFront ==
    ASSUME NEW S, NEW s \in Seq(S), NEW e \in S, NEW x
    PROVE  Count(<<e>> \o s, x) = Count(s, x) + One(e = x)
<1>1. /\ <<e>> \o s \in Seq(S) /\ <<e>> \o s # <<>>
      /\ Head(<<e>> \o s) = e
      /\ Tail(<<e>> \o s) = s
  OBVIOUS
<1>2. PICK t \in Seq(S) : t = <<e>> \o s /\ t # <<>> /\ Head(t) = e /\ Tail(t) = s
  BY <1>1
<1>3. Count(t, x) = Count(Tail(t), x) + One(Head(t) = x)
  BY <1>2, CountTail
<1>4. QED
  BY <1>2, <1>3

(* Where an element is at most once, two of its places are one.            *)
LEMMA CountOnce ==
    ASSUME NEW S, NEW s \in Seq(S), NEW x, Count(s, x) <= 1,
           NEW i \in DOMAIN s, NEW j \in DOMAIN s, s[i] = x, s[j] = x
    PROVE  i = j
<1> SUFFICES ASSUME i # j PROVE FALSE
  OBVIOUS
<1>1. IsFiniteSet(At(s, x)) /\ Count(s, x) \in Nat
  BY CountType
<1>2. IsFiniteSet({i}) /\ Cardinality({i}) = 1
  BY FS_Singleton
<1>3. Cardinality({i} \cup {j}) = IF j \in {i} THEN Cardinality({i}) ELSE Cardinality({i}) + 1
  BY <1>2, FS_AddElement
<1>4. Cardinality({i} \cup {j}) = 1 + 1
  BY <1>2, <1>3, Zenon
<1>5. {i} \cup {j} \in SUBSET At(s, x)
  BY DEF At
<1>6. Cardinality({i} \cup {j}) <= Count(s, x)
  BY <1>1, <1>5, FS_Subset DEF Count
<1>7. PICK n \in Nat : n = Count(s, x)
  BY <1>1
<1>8. n <= 1 /\ 1 + 1 <= n
  BY <1>4, <1>6, <1>7, Zenon
<1>9. QED
  BY <1>8

(* A queue of different elements of S leaves no room in S for one more,    *)
(* unless S is larger than the queue.                                      *)
LEMMA OneMore ==
    ASSUME NEW S, IsFiniteSet(S), NEW s \in Seq(S), NEW e \in S,
           \A i, j \in DOMAIN s : s[i] = s[j] => i = j,
           \A i \in DOMAIN s : s[i] # e
    PROVE  Cardinality(S) \in Nat /\ Cardinality(S) > Len(s)
<1> DEFINE t == Append(s, e)
<1>1. /\ t \in [1 .. Len(s) + 1 -> S] /\ Len(s) \in Nat
      /\ DOMAIN s = 1 .. Len(s)
      /\ t[Len(s) + 1] = e
      /\ \A i \in 1 .. Len(s) : t[i] = s[i]
  <2>1. t \in Seq(S) /\ Len(t) = Len(s) + 1 /\ Len(s) \in Nat
    OBVIOUS
  <2> HIDE DEF t
  <2>2. t \in [1 .. Len(t) -> S]
    BY <2>1
  <2> USE DEF t
  <2>3. t[Len(s) + 1] = e /\ \A i \in 1 .. Len(s) : t[i] = s[i]
    OBVIOUS
  <2>4. QED
    BY <2>1, <2>2, <2>3
<1>2. \A i, j \in 1 .. Len(s) + 1 : t[i] = t[j] => i = j
  BY <1>1
<1>3. t \in Injection(1 .. Len(s) + 1, S)
  BY <1>1, <1>2 DEF Injection, IsInjective
<1>4. Cardinality(1 .. Len(s) + 1) = Len(s) + 1
  BY <1>1, FS_Interval
<1>5. Cardinality(1 .. Len(s) + 1) <= Cardinality(S)
  BY <1>3, FS_Injection
<1>6. QED
  BY <1>1, <1>4, <1>5, FS_CardinalityType

-----------------------------------------------------------------------------
(* The threads.                                                            *)

(* The workers are the handlers and the responder.                         *)
LEMMA WorkersFinite ==
    /\ IsFiniteSet(Workers) /\ IsFiniteSet(Readers)
    /\ Handlers \subseteq Workers /\ RespThread \in Workers /\ RespThread \notin Handlers
<1>1. num_handlers \in Int /\ num_readers - 1 \in Int /\ 0 \in Int
  BY ServerStateAssumption DEF ServerStateAssumption
<1>2. IsFiniteSet(Workers)
  BY <1>1, FS_Interval DEF Workers
<1>3. IsFiniteSet(Readers)
  BY <1>1, FS_Interval DEF Readers
<1>4. Handlers \subseteq Workers /\ RespThread \in Workers /\ RespThread \notin Handlers
  BY ServerStateAssumption DEF ServerStateAssumption, Handlers, Workers, RespThread
<1>5. QED
  BY <1>2, <1>3, <1>4

-----------------------------------------------------------------------------
(* Every queued result has one visit to its queue under way.               *)

Attends(w, c) == wconn[w] = c /\ wpc[w] \in {"size", "notify", "find", "take", "again"}

(* One worker moves.                                                       *)
LEMMA AttendingChange ==
    ASSUME NEW c \in Conns, NEW w \in Workers,
           \A u \in Workers : u # w => wpc'[u] = wpc[u] /\ wconn'[u] = wconn[u]
    PROVE  /\ Cardinality(Attending(c)) \in Nat /\ Cardinality(Attending(c)') \in Nat
           /\ Cardinality(Attending(c)') + One(Attends(w, c))
                = Cardinality(Attending(c)) + One(Attends(w, c)')
<1>1. IsFiniteSet(Attending(c))
  <2>1. Attending(c) \in SUBSET Workers
    BY DEF Attending
  <2>2. QED
    BY <2>1, WorkersFinite, FS_Subset
<1>2. \A u : u # w => (u \in Attending(c) <=> u \in Attending(c)')
  BY DEF Attending
<1>3. (w \in Attending(c) <=> Attends(w, c)) /\ (w \in Attending(c)' <=> Attends(w, c)')
  BY DEF Attending, Attends
<1>4. /\ Cardinality(Attending(c)) \in Nat /\ Cardinality(Attending(c)') \in Nat
      /\ Cardinality(Attending(c)') + One(w \in Attending(c))
           = Cardinality(Attending(c)) + One(w \in Attending(c)')
  BY <1>1, <1>2, OneChanged
<1>5. QED
  BY <1>3, <1>4 DEF One

(* The balance is kept where the result queue, the visits queued and the   *)
(* place of worker w change alike.                                         *)
LEMMA BalanceMove ==
    ASSUME TypeOK, RespondBalance, NEW w \in Workers,
           \A u \in Workers : u # w => wpc'[u] = wpc[u] /\ wconn'[u] = wconn[u],
           \A c \in Conns :
              /\ Len(respond_queue'[c]) \in Nat /\ Count(bq_respond', c) \in Nat
              /\ Len(respond_queue'[c]) + Count(bq_respond, c) + One(Attends(w, c))
                    = Len(respond_queue[c]) + Count(bq_respond', c) + One(Attends(w, c)')
    PROVE  RespondBalance'
<1> SUFFICES ASSUME NEW c \in Conns
             PROVE  Len(respond_queue'[c]) =
                       Cardinality(OnRespond(c)') + Cardinality(Attending(c)')
  BY DEF RespondBalance
<1>0. /\ Len(respond_queue'[c]) \in Nat /\ Count(bq_respond', c) \in Nat
      /\ Len(respond_queue'[c]) + Count(bq_respond, c) + One(Attends(w, c))
            = Len(respond_queue[c]) + Count(bq_respond', c) + One(Attends(w, c)')
  OBVIOUS
<1>1. Cardinality(OnRespond(c)) = Count(bq_respond, c)
      /\ Cardinality(OnRespond(c)') = Count(bq_respond', c)
  BY DEF OnRespond, Count, At
<1>2. /\ Cardinality(Attending(c)) \in Nat /\ Cardinality(Attending(c)') \in Nat
      /\ Cardinality(Attending(c)') + One(Attends(w, c))
           = Cardinality(Attending(c)) + One(Attends(w, c)')
  BY AttendingChange
<1>3. Len(respond_queue[c]) = Cardinality(OnRespond(c)) + Cardinality(Attending(c))
  BY DEF RespondBalance
<1>4. Count(bq_respond, c) \in Nat /\ Len(respond_queue[c]) \in Nat
  BY CountType DEF TypeOK, RespondType, QueueType
<1>5. PICK p \in Nat, q \in Nat : p = One(Attends(w, c)) /\ q = One(Attends(w, c)')
  BY DEF One
<1>6. PICK a \in Nat, b \in Nat : a = Cardinality(Attending(c)) /\ b = Cardinality(Attending(c)')
  BY <1>2
<1>7. PICK m \in Nat, n \in Nat : m = Count(bq_respond, c) /\ n = Count(bq_respond', c)
  BY <1>0, <1>4
<1>8. PICK k \in Nat, l \in Nat : k = Len(respond_queue[c]) /\ l = Len(respond_queue'[c])
  BY <1>0, <1>4
<1>9. /\ l + m + p = k + n + q
      /\ b + p = a + q
      /\ k = m + a
  BY <1>0, <1>1, <1>2, <1>3, <1>5, <1>6, <1>7, <1>8
<1>10. l = n + b
  BY <1>9
<1>11. QED
  BY <1>1, <1>6, <1>7, <1>8, <1>10

(* A step that touches neither queue and leaves w as attending as it was.  *)
LEMMA BalanceSame ==
    ASSUME TypeOK, RespondBalance, NEW w \in Workers,
           \A u \in Workers : u # w => wpc'[u] = wpc[u] /\ wconn'[u] = wconn[u],
           UNCHANGED <<respond_queue, bq_respond>>,
           \A c \in Conns : Attends(w, c)' <=> Attends(w, c)
    PROVE  RespondBalance'
<1>1. ASSUME NEW c \in Conns
      PROVE  /\ Len(respond_queue'[c]) \in Nat /\ Count(bq_respond', c) \in Nat
             /\ Len(respond_queue'[c]) + Count(bq_respond, c) + One(Attends(w, c))
                  = Len(respond_queue[c]) + Count(bq_respond', c) + One(Attends(w, c)')
  <2>1. Len(respond_queue[c]) \in Nat /\ Count(bq_respond, c) \in Nat
    BY CountType DEF TypeOK, RespondType, QueueType
  <2>2. One(Attends(w, c)) = One(Attends(w, c)')
    BY DEF One
  <2>3. respond_queue'[c] = respond_queue[c] /\ Count(bq_respond', c) = Count(bq_respond, c)
    OBVIOUS
  <2>4. QED
    BY <2>1, <2>2, <2>3
<1>2. QED
  BY <1>1, BalanceMove

(* Loops: the worker has no connection any more.                           *)
LEMMA LoopsAttends ==
    ASSUME TypeOK, NEW w \in Workers, Loops(w)
    PROVE  /\ \A c \in Conns : ~Attends(w, c)'
           /\ \A u \in Workers : u # w => /\ wpc'[u] = wpc[u] /\ wconn'[u] = wconn[u]
                                          /\ wcall'[u] = wcall[u]
           /\ wpc'[w] \in {"pop", "done"} /\ wconn'[w] = NoConn /\ wcall'[w] = NoCall
<1>1. /\ wpc'[w] \in {"pop", "done"} /\ wconn'[w] = NoConn /\ wcall'[w] = NoCall
      /\ \A u \in Workers : u # w => /\ wpc'[u] = wpc[u] /\ wconn'[u] = wconn[u]
                                     /\ wcall'[u] = wcall[u]
  BY DEF Loops, TypeOK, RespondType, WorkType
<1>2. \A c \in Conns : ~Attends(w, c)'
  BY <1>1 DEF Attends
<1>3. QED
  BY <1>1, <1>2

(* A visit goes to _bq_respond, from either end.                           *)
LEMMA BalanceNotify ==
    ASSUME TypeOK, TypeOK', RespondBalance, NEW w \in Workers, NEW queue,
           wpc[w] \in {"notify", "again"},
           \A c \in Conns : Count(queue, c) = Count(bq_respond, c) + One(wconn[w] = c),
           NotifyResponder(w, queue)
    PROVE  RespondBalance'
<1>1. CASE Len(bq_respond) < max_repsond_size
  <2>1. bq_respond' = queue /\ Loops(w) /\ UNCHANGED respond_queue
    BY <1>1 DEF NotifyResponder
  <2>2. ASSUME NEW c \in Conns
        PROVE  /\ Len(respond_queue'[c]) \in Nat /\ Count(bq_respond', c) \in Nat
               /\ Len(respond_queue'[c]) + Count(bq_respond, c) + One(Attends(w, c))
                    = Len(respond_queue[c]) + Count(bq_respond', c) + One(Attends(w, c)')
    <3>1. /\ Len(respond_queue[c]) \in Nat /\ Count(bq_respond, c) \in Nat
          /\ Count(bq_respond', c) \in Nat
      BY CountType DEF TypeOK, RespondType, QueueType
    <3>2. Attends(w, c) <=> wconn[w] = c
      BY DEF Attends
    <3>3. ~Attends(w, c)'
      BY <2>1, LoopsAttends
    <3>4. One(Attends(w, c)) = One(wconn[w] = c) /\ One(Attends(w, c)') = 0
      BY <3>2, <3>3 DEF One
    <3>5. PICK p \in Nat : p = One(wconn[w] = c)
      BY DEF One
    <3>6. Count(bq_respond', c) = Count(bq_respond, c) + p
      BY <2>1, <3>5
    <3>7. respond_queue'[c] = respond_queue[c]
      BY <2>1
    <3>8. QED
      BY <3>1, <3>4, <3>5, <3>6, <3>7
  <2>3. QED
    BY <2>1, <2>2, BalanceMove, LoopsAttends
<1>2. CASE ~(Len(bq_respond) < max_repsond_size)
  <2>1. UNCHANGED <<respond_queue, bq_respond, wpc, wconn>>
    BY <1>2 DEF NotifyResponder, workVars
  <2>2. QED
    BY <2>1, BalanceSame DEF Attends
<1>3. QED
  BY <1>1, <1>2

(* ResponseFails after a write: w attended to nothing.                     *)
LEMMA BalanceFails ==
    ASSUME TypeOK, RespondBalance, NEW w \in Workers, wpc[w] = "write",
           ResponseFails(w) \/ Loops(w), UNCHANGED <<respond_queue, bq_respond>>
    PROVE  RespondBalance'
<1>1. CASE Loops(w)
  <2>1. \A c \in Conns : ~Attends(w, c) /\ ~Attends(w, c)'
    BY <1>1, LoopsAttends DEF Attends
  <2>2. QED
    BY <1>1, <2>1, LoopsAttends, BalanceSame
<1>2. CASE UNCHANGED workVars
  BY <1>2, BalanceSame DEF workVars, Attends
<1>3. QED
  BY <1>1, <1>2 DEF ResponseFails

(* processResponse on worker w.                                            *)
LEMMA BalanceProcess ==
    ASSUME TypeOK, TypeOK', RespondBalance, NEW w \in Workers, ProcessResponse(w)
    PROVE  RespondBalance'
<1> USE DEF TypeOK, RespondType
<1>1. CASE processResponse_pop(w)
  <2>1. PICK d \in Conns : d = wconn[w] /\ wpc[w] = "take"
    BY <1>1 DEF processResponse_pop, WorkType
  <2>2. respond_queue[d] # <<>>
    <3>1. Attending(d) # {} /\ IsFiniteSet(Attending(d))
      <4>1. w \in Attending(d) /\ Attending(d) \in SUBSET Workers
        BY <2>1 DEF Attending
      <4>2. QED
        BY <4>1, WorkersFinite, FS_Subset
    <3>2. Cardinality(Attending(d)) \in Nat /\ Cardinality(Attending(d)) # 0
      BY <3>1, FS_CardinalityType, FS_EmptySet
    <3>3. Cardinality(OnRespond(d)) \in Nat
      BY CountType DEF QueueType, OnRespond, Count, At
    <3>4. Len(respond_queue[d]) # 0
      BY <3>2, <3>3 DEF RespondBalance
    <3>5. QED
      BY <3>4
  <2>3. /\ respond_queue' = [respond_queue EXCEPT ![d] = Tail(respond_queue[d])]
        /\ wpc' = [wpc EXCEPT ![w] = "write"]
        /\ UNCHANGED <<wconn, bq_respond>>
    BY <1>1, <2>1, <2>2 DEF processResponse_pop, GoesTo
  <2>4. ASSUME NEW c \in Conns
        PROVE  /\ Len(respond_queue'[c]) \in Nat /\ Count(bq_respond', c) \in Nat
               /\ Len(respond_queue'[c]) + Count(bq_respond, c) + One(Attends(w, c))
                    = Len(respond_queue[c]) + Count(bq_respond', c) + One(Attends(w, c)')
    <3>1. /\ Len(respond_queue[c]) \in Nat /\ Count(bq_respond, c) \in Nat
          /\ Count(bq_respond', c) = Count(bq_respond, c)
      BY <2>3, CountType DEF QueueType
    <3>2. Attends(w, c) <=> d = c
      BY <2>1 DEF Attends
    <3>3. ~Attends(w, c)'
      BY <2>3 DEF Attends, WorkType
    <3>4. One(Attends(w, c)) = One(d = c) /\ One(Attends(w, c)') = 0
      BY <3>2, <3>3 DEF One
    <3>5. Len(respond_queue'[c]) + One(d = c) = Len(respond_queue[c]) /\ Len(respond_queue'[c]) \in Nat
      <4>1. respond_queue[c] \in Seq(Call) /\ respond_queue'[c] \in Seq(Call)
        BY DEF QueueType
      <4>2. CASE c = d
        <5>1. respond_queue'[c] = Tail(respond_queue[c]) /\ respond_queue[c] # <<>>
          BY <2>2, <2>3, <4>2 DEF QueueType
        <5>2. Len(respond_queue'[c]) = Len(respond_queue[c]) - 1
          BY <4>1, <5>1
        <5>3. QED
          BY <4>1, <4>2, <5>2 DEF One
      <4>3. CASE c # d
        <5>1. respond_queue'[c] = respond_queue[c]
          BY <2>3, <4>3 DEF QueueType
        <5>2. One(d = c) = 0 /\ Len(respond_queue[c]) \in Nat
          BY <4>1, <4>3 DEF One
        <5>3. QED
          BY <5>1, <5>2
      <4>4. QED
        BY <4>2, <4>3
    <3>6. PICK p \in Nat : p = One(d = c)
      BY DEF One
    <3>7. QED
      BY <3>1, <3>4, <3>5, <3>6
  <2>5. \A u \in Workers : u # w => wpc'[u] = wpc[u] /\ wconn'[u] = wconn[u]
    BY <2>3 DEF WorkType
  <2>6. QED
    BY <2>4, <2>5, BalanceMove
<1>2. ASSUME NEW n \in 1 .. ValueLen, processResponse_write(w, n) PROVE RespondBalance'
  <2>1. PICK d \in Conns : d = wconn[w] /\ wpc[w] = "write"
    BY <1>2 DEF processResponse_write, WorkType
  <2>2. CASE Loops(w) \/ ResponseFails(w)
    <3>1. UNCHANGED bq_respond /\ (UNCHANGED respond_queue \/ GoesTo(w, "again"))
      BY <1>2 DEF processResponse_write
    <3>2. CASE GoesTo(w, "again")
      BY <2>1, <2>2, <3>2, LoopsAttends DEF GoesTo, ResponseFails, workVars, WorkType
    <3>3. QED
      BY <2>1, <2>2, <3>1, <3>2, BalanceFails
  <2>3. CASE ~(Loops(w) \/ ResponseFails(w))
    <3>1. /\ respond_queue' = [respond_queue EXCEPT ![d] = Append(@, wcall[w])]
          /\ wpc' = [wpc EXCEPT ![w] = "again"]
          /\ UNCHANGED <<wconn, bq_respond>>
      BY <1>2, <2>1, <2>3 DEF processResponse_write, GoesTo
    <3>a. wcall[w] \in Call
      BY <2>1 DEF WorkType
    <3>2. ASSUME NEW c \in Conns
          PROVE  /\ Len(respond_queue'[c]) \in Nat /\ Count(bq_respond', c) \in Nat
                 /\ Len(respond_queue'[c]) + Count(bq_respond, c) + One(Attends(w, c))
                      = Len(respond_queue[c]) + Count(bq_respond', c) + One(Attends(w, c)')
      <4>1. /\ Len(respond_queue[c]) \in Nat /\ Count(bq_respond, c) \in Nat
            /\ Count(bq_respond', c) = Count(bq_respond, c)
        BY <3>1, CountType DEF QueueType
      <4>2. Attends(w, c)' <=> d = c
        BY <2>1, <3>1 DEF Attends, WorkType
      <4>3. ~Attends(w, c)
        BY <2>1 DEF Attends
      <4>4. One(Attends(w, c)') = One(d = c) /\ One(Attends(w, c)) = 0
        BY <4>2, <4>3 DEF One
      <4>5. Len(respond_queue'[c]) = Len(respond_queue[c]) + One(d = c) /\ Len(respond_queue'[c]) \in Nat
        BY <3>1, <3>a DEF QueueType, One
      <4>6. PICK p \in Nat : p = One(d = c)
        BY DEF One
      <4>7. QED
        BY <4>1, <4>4, <4>5, <4>6
    <3>3. \A u \in Workers : u # w => wpc'[u] = wpc[u] /\ wconn'[u] = wconn[u]
      BY <3>1 DEF WorkType
    <3>4. QED
      BY <3>2, <3>3, BalanceMove
  <2>4. QED
    BY <2>2, <2>3
<1>3. CASE processResponse_throws(w)
  BY <1>3, BalanceFails DEF processResponse_throws
<1>4. CASE processResponse_again(w)
  <2>1. PICK d \in Conns : d = wconn[w] /\ wpc[w] = "again"
    BY <1>4 DEF processResponse_again, WorkType
  <2>2. \A c \in Conns : Count(<<d>> \o bq_respond, c) = Count(bq_respond, c) + One(d = c)
    BY CountFront DEF QueueType
  <2>3. NotifyResponder(w, <<d>> \o bq_respond)
    BY <1>4, <2>1 DEF processResponse_again
  <2>4. QED
    BY <2>1, <2>2, <2>3, BalanceNotify
<1>5. QED
  BY <1>1, <1>2, <1>3, <1>4 DEF ProcessResponse

(* A handler.                                                              *)
LEMMA BalanceHandler ==
    ASSUME TypeOK, TypeOK', RespondBalance, NEW h \in Handlers, HandlerThread(h)
    PROVE  RespondBalance'
<1> USE DEF TypeOK, RespondType
<1>0. h \in Workers
  BY WorkersFinite
<1>1. CASE Handler_pop(h) \/ Method_call(h)
  <2>1. /\ \A u \in Workers : u # h => wpc'[u] = wpc[u]
        /\ wpc[h] \in {"pop", "call"} /\ wpc'[h] \in {"call", "queue"}
        /\ UNCHANGED <<wconn, respond_queue, bq_respond>>
    BY <1>0, <1>1 DEF Handler_pop, Method_call, GoesTo, WorkType
  <2>2. \A c \in Conns : ~Attends(h, c) /\ ~Attends(h, c)'
    BY <2>1 DEF Attends
  <2>3. QED
    BY <1>0, <2>1, <2>2, BalanceSame
<1>2. CASE doRespond_push(h)
  <2>1. PICK x \in Call : x = wcall[h] /\ wpc[h] = "queue"
    BY <1>0, <1>2 DEF doRespond_push, WorkType
  <2>2. PICK d \in Conns : d = x[1]
    BY DEF Call
  <2>3. CASE Len(respond_queue[d]) < max_respond_size
    <3>1. /\ respond_queue' = [respond_queue EXCEPT ![d] = Append(@, x)]
          /\ wconn' = [wconn EXCEPT ![h] = d]
          /\ wpc' = [wpc EXCEPT ![h] = "size"]
          /\ UNCHANGED bq_respond
      BY <1>2, <2>1, <2>2, <2>3 DEF doRespond_push, GoesTo
    <3>2. ASSUME NEW c \in Conns
          PROVE  /\ Len(respond_queue'[c]) \in Nat /\ Count(bq_respond', c) \in Nat
                 /\ Len(respond_queue'[c]) + Count(bq_respond, c) + One(Attends(h, c))
                      = Len(respond_queue[c]) + Count(bq_respond', c) + One(Attends(h, c)')
      <4>1. /\ Len(respond_queue[c]) \in Nat /\ Count(bq_respond, c) \in Nat
            /\ Count(bq_respond', c) = Count(bq_respond, c)
        BY <3>1, CountType DEF QueueType
      <4>2. Attends(h, c)' <=> d = c
        BY <1>0, <3>1 DEF Attends, WorkType
      <4>3. ~Attends(h, c)
        BY <2>1 DEF Attends
      <4>4. One(Attends(h, c)') = One(d = c) /\ One(Attends(h, c)) = 0
        BY <4>2, <4>3 DEF One
      <4>5. Len(respond_queue'[c]) = Len(respond_queue[c]) + One(d = c) /\ Len(respond_queue'[c]) \in Nat
        BY <3>1 DEF QueueType, One
      <4>6. PICK p \in Nat : p = One(d = c)
        BY DEF One
      <4>7. QED
        BY <4>1, <4>4, <4>5, <4>6
    <3>3. \A u \in Workers : u # h => wpc'[u] = wpc[u] /\ wconn'[u] = wconn[u]
      BY <3>1 DEF WorkType
    <3>4. QED
      BY <1>0, <3>2, <3>3, BalanceMove
  <2>4. CASE ~(Len(respond_queue[d]) < max_respond_size)
    <3>1. UNCHANGED <<respond_queue, bq_respond, wpc, wconn>>
      BY <1>2, <2>1, <2>2, <2>4 DEF doRespond_push, workVars
    <3>2. QED
      BY <1>0, <3>1, BalanceSame DEF Attends
  <2>5. QED
    BY <2>3, <2>4
<1>3. CASE doRespond_size(h)
  <2>1. /\ \A u \in Workers : u # h => wpc'[u] = wpc[u]
        /\ wpc[h] = "size" /\ wpc'[h] \in {"take", "notify"}
        /\ UNCHANGED <<wconn, respond_queue, bq_respond>>
    BY <1>0, <1>3 DEF doRespond_size, GoesTo, WorkType
  <2>2. \A c \in Conns : Attends(h, c)' <=> Attends(h, c)
    BY <2>1 DEF Attends
  <2>3. QED
    BY <1>0, <2>1, <2>2, BalanceSame
<1>4. CASE doRespond_notify(h)
  <2>1. PICK d \in Conns : d = wconn[h] /\ wpc[h] = "notify"
    BY <1>0, <1>4 DEF doRespond_notify, WorkType
  <2>2. \A c \in Conns : Count(Append(bq_respond, d), c) = Count(bq_respond, c) + One(d = c)
    BY CountAppend DEF QueueType
  <2>3. NotifyResponder(h, Append(bq_respond, d))
    BY <1>4, <2>1 DEF doRespond_notify
  <2>4. QED
    BY <1>0, <2>1, <2>2, <2>3, BalanceNotify
<1>5. CASE ProcessResponse(h)
  BY <1>0, <1>5, BalanceProcess
<1>6. QED
  BY <1>1, <1>2, <1>3, <1>4, <1>5 DEF HandlerThread

(* The responder thread.                                                   *)
LEMMA BalanceResponder ==
    ASSUME TypeOK, TypeOK', RespondBalance, ResponderThread
    PROVE  RespondBalance'
<1> USE DEF TypeOK, RespondType
<1>0. PICK w \in Workers : w = RespThread
  BY WorkersFinite
<1>1. CASE Responder_pop
  <2>1. bq_respond \in Seq(Conns) /\ bq_respond # <<>> /\ wpc[w] = "pop"
    BY <1>0, <1>1 DEF Responder_pop, QueueType
  <2>2. PICK d \in Conns : d = Head(bq_respond)
    BY <2>1
  <2>3. /\ bq_respond' = Tail(bq_respond)
        /\ wconn' = [wconn EXCEPT ![w] = d]
        /\ wpc' = [wpc EXCEPT ![w] = "find"]
        /\ UNCHANGED respond_queue
    BY <1>0, <1>1, <2>2 DEF Responder_pop, GoesTo
  <2>4. ASSUME NEW c \in Conns
        PROVE  /\ Len(respond_queue'[c]) \in Nat /\ Count(bq_respond', c) \in Nat
               /\ Len(respond_queue'[c]) + Count(bq_respond, c) + One(Attends(w, c))
                    = Len(respond_queue[c]) + Count(bq_respond', c) + One(Attends(w, c)')
    <3>1. /\ Len(respond_queue[c]) \in Nat /\ Count(bq_respond, c) \in Nat
          /\ Count(bq_respond', c) \in Nat
      BY CountType DEF QueueType
    <3>2. Count(bq_respond, c) = Count(bq_respond', c) + One(d = c)
      BY <2>1, <2>2, <2>3, CountTail
    <3>3. (Attends(w, c)' <=> d = c) /\ ~Attends(w, c)
      BY <2>1, <2>3 DEF Attends, WorkType
    <3>4. One(Attends(w, c)') = One(d = c) /\ One(Attends(w, c)) = 0
      BY <3>3 DEF One
    <3>5. PICK p \in Nat : p = One(d = c)
      BY DEF One
    <3>6. respond_queue'[c] = respond_queue[c]
      BY <2>3
    <3>7. QED
      BY <3>1, <3>2, <3>4, <3>5, <3>6
  <2>5. \A u \in Workers : u # w => wpc'[u] = wpc[u] /\ wconn'[u] = wconn[u]
    BY <2>3 DEF WorkType
  <2>6. QED
    BY <2>4, <2>5, BalanceMove
<1>2. CASE Responder_find
  <2>1. /\ \A u \in Workers : u # w => wpc'[u] = wpc[u]
        /\ wpc[w] = "find" /\ wpc'[w] \in {"take", "find"}
        /\ UNCHANGED <<wconn, respond_queue, bq_respond>>
    BY <1>0, <1>2 DEF Responder_find, GoesTo, WorkType
  <2>2. \A c \in Conns : Attends(w, c)' <=> Attends(w, c)
    BY <2>1 DEF Attends
  <2>3. QED
    BY <2>1, <2>2, BalanceSame
<1>3. CASE ProcessResponse(RespThread)
  BY <1>0, <1>3, BalanceProcess
<1>4. QED
  BY <1>1, <1>2, <1>3 DEF ResponderThread

(* The steps of everybody else.                                            *)
LEMMA OthersDoNotRespond ==
    ASSUME [Next]_vars
    PROVE  \/ \E h \in Handlers : Handles(h)
           \/ Responds
           \/ UNCHANGED <<workVars, respond_queue, pos, bq_respond, out>>
  BY DEF Next, vars, respondVars, Client, Listens, AcceptFails, Reads, Stops, MainThread

(* Whoever skips _bq_respond, no result is left behind on a connection's   *)
(* queue, and no try_pop of Responder::processResponse finds it empty:     *)
(* every queued result has exactly one visit under way.                    *)
THEOREM NoResultLeftBehind == Spec => []RespondBalance
<1>1. Init => RespondBalance
  <2> SUFFICES ASSUME Init, NEW c \in Conns
               PROVE  Len(respond_queue[c]) =
                         Cardinality(OnRespond(c)) + Cardinality(Attending(c))
    BY DEF RespondBalance
  <2>1. respond_queue[c] = <<>> /\ bq_respond = <<>> /\ \A w \in Workers : wpc[w] = "pop"
    BY DEF Init, ResponderInit
  <2>2. OnRespond(c) = {} /\ Attending(c) = {}
    BY <2>1 DEF OnRespond, Attending
  <2>3. QED
    BY <2>1, <2>2, FS_EmptySet
<1>2. TypeOK /\ TypeOK' /\ RespondBalance /\ [Next]_vars => RespondBalance'
  <2> SUFFICES ASSUME TypeOK, TypeOK', RespondBalance, [Next]_vars PROVE RespondBalance'
    OBVIOUS
  <2>1. CASE UNCHANGED <<workVars, respond_queue, pos, bq_respond, out>>
    BY <2>1 DEF RespondBalance, OnRespond, Attending, workVars
  <2>2. QED
    BY <2>1, OthersDoNotRespond, BalanceHandler, BalanceResponder DEF Handles, Responds
<1>3. QED
  BY <1>1, <1>2, TypeCorrect, PTL DEF Spec
=============================================================================
