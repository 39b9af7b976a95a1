---------------------------- MODULE AccountProofs ----------------------------
(***************************************************************************)
(* No call that was read is lost or answered twice: proofs about the way   *)
(* of a call through the readers, _bq_call, the handlers, respond_queue    *)
(* and the responder, for any number of each and any queue capacities.     *)
(***************************************************************************)
EXTENDS RespondProofs

(* No call is not a call.                                                  *)
LEMMA NoCallIsNone == NoCall \notin Call
  BY ServerStateAssumption DEF ServerStateAssumption, NoCall, Call

-----------------------------------------------------------------------------
(* The auxiliary invariants.                                               *)

(* A worker has a call in its hands only between taking and passing it.    *)
CallHeld == \A w \in Workers : wpc[w] \notin {"call", "queue", "write"} => wcall[w] = NoCall

(* A result waits, and is written, on the connection its call came on.     *)
OwnConnection ==
    /\ \A w \in Workers : wpc[w] = "write" => wcall[w][1] = wconn[w]
    /\ \A c \in Conns : \A i \in DOMAIN respond_queue[c] : respond_queue[c][i][1] = c

(* The server closes only what its client has left or garbled.             *)
ClosedForCause ==
    /\ \A r \in Readers : rpc[r] = "close" => peer[rconn[r]] \in Unreadable
    /\ \A c \in Conns : ~sock_open[c] => peer[c] \in Unreadable

(* ResponseFails either changes nothing of the workers or lets the call go.*)
LEMMA FailsOrLoops ==
    ASSUME NEW w, ResponseFails(w)
    PROVE  Loops(w) \/ UNCHANGED workVars
  BY DEF ResponseFails

(* Loops keeps both invariants of the workers.                             *)
LEMMA HeldLoops ==
    ASSUME TypeOK, CallHeld, OwnConnection, NEW w \in Workers,
           Loops(w) \/ UNCHANGED workVars, UNCHANGED respond_queue
    PROVE  CallHeld' /\ OwnConnection'
<1>1. CASE UNCHANGED workVars
  BY <1>1 DEF CallHeld, OwnConnection, workVars
<1>2. CASE Loops(w)
  BY <1>2, LoopsAttends DEF CallHeld, OwnConnection
<1>3. QED
  BY <1>1, <1>2

(* So does putting a call on its connection's queue.                       *)
LEMMA HeldPush ==
    ASSUME TypeOK, CallHeld, OwnConnection, NEW w \in Workers, NEW x \in Call,
           NEW d \in Conns, x[1] = d, NEW to \in {"size", "again"},
           respond_queue' = [respond_queue EXCEPT ![d] = Append(@, x)],
           wcall' = [wcall EXCEPT ![w] = NoCall],
           wpc' = [wpc EXCEPT ![w] = to],
           UNCHANGED wconn \/ wconn' = [wconn EXCEPT ![w] = d]
    PROVE  CallHeld' /\ OwnConnection'
<1> USE DEF TypeOK, RespondType
<1>1. CallHeld'
  BY DEF CallHeld, WorkType
<1>2. \A u \in Workers : wpc'[u] = "write" => wcall'[u][1] = wconn'[u]
  BY DEF OwnConnection, WorkType
<1>3. PICK q \in Seq(Call) : q = respond_queue[d]
  BY DEF QueueType
<1>4. /\ DOMAIN Append(q, x) = DOMAIN q \cup {Len(q) + 1}
      /\ Append(q, x)[Len(q) + 1] = x /\ \A i \in DOMAIN q : Append(q, x)[i] = q[i]
  BY <1>3
<1>5. \A i \in DOMAIN Append(q, x) : Append(q, x)[i][1] = d
  BY <1>3, <1>4 DEF OwnConnection
<1>6. \A c \in Conns : respond_queue'[c] = IF c = d THEN Append(q, x) ELSE respond_queue[c]
  BY <1>3 DEF QueueType
<1>7. \A c \in Conns : \A i \in DOMAIN respond_queue'[c] : respond_queue'[c][i][1] = c
  BY <1>5, <1>6 DEF OwnConnection
<1>8. QED
  BY <1>1, <1>2, <1>7 DEF OwnConnection

(* processResponse keeps them.                                             *)
LEMMA HeldProcess ==
    ASSUME TypeOK, TypeOK', CallHeld, OwnConnection, NEW w \in Workers, ProcessResponse(w)
    PROVE  CallHeld' /\ OwnConnection'
<1> USE DEF TypeOK, RespondType
<1>1. CASE processResponse_pop(w)
  <2>1. PICK d \in Conns : d = wconn[w] /\ wpc[w] = "take"
    BY <1>1 DEF processResponse_pop, WorkType
  <2>2. CASE respond_queue[d] = <<>>
    BY <1>1, <2>1, <2>2, HeldLoops, FailsOrLoops DEF processResponse_pop
  <2>3. CASE respond_queue[d] # <<>>
    <3>1. PICK q \in Seq(Call) : q = respond_queue[d] /\ q # <<>>
      BY <2>3 DEF QueueType
    <3>2. /\ wcall' = [wcall EXCEPT ![w] = Head(q)]
          /\ respond_queue' = [respond_queue EXCEPT ![d] = Tail(q)]
          /\ wpc' = [wpc EXCEPT ![w] = "write"]
          /\ UNCHANGED wconn
      BY <1>1, <2>1, <3>1 DEF processResponse_pop, GoesTo
    <3>3. CallHeld'
      BY <3>2 DEF CallHeld, WorkType
    <3>4. Head(q)[1] = d /\ \A i \in DOMAIN Tail(q) : Tail(q)[i][1] = d
      <4>1. \A i \in DOMAIN q : q[i][1] = d
        BY <3>1 DEF OwnConnection
      <4>2. /\ Head(q) = q[1] /\ 1 \in DOMAIN q
            /\ \A i \in DOMAIN Tail(q) : i + 1 \in DOMAIN q /\ Tail(q)[i] = q[i + 1]
        BY <3>1
      <4>3. QED
        BY <4>1, <4>2
    <3>5. \A c \in Conns : \A i \in DOMAIN respond_queue'[c] : respond_queue'[c][i][1] = c
      BY <3>2, <3>4 DEF OwnConnection, QueueType
    <3>6. \A u \in Workers : wpc'[u] = "write" => wcall'[u][1] = wconn'[u]
      BY <2>1, <3>2, <3>4 DEF OwnConnection, WorkType
    <3>7. QED
      BY <3>3, <3>5, <3>6 DEF OwnConnection
  <2>4. QED
    BY <2>2, <2>3
<1>2. ASSUME NEW n \in 1 .. ValueLen, processResponse_write(w, n)
      PROVE  CallHeld' /\ OwnConnection'
  <2>1. PICK d \in Conns : d = wconn[w] /\ wpc[w] = "write"
    BY <1>2 DEF processResponse_write, WorkType
  <2>2. PICK x \in Call : x = wcall[w] /\ x[1] = d
    BY <2>1 DEF WorkType, OwnConnection
  <2>3. CASE (Loops(w) \/ ResponseFails(w)) /\ UNCHANGED respond_queue
    BY <2>3, HeldLoops, FailsOrLoops
  <2>4. CASE /\ respond_queue' = [respond_queue EXCEPT ![d] = Append(@, x)]
             /\ wcall' = [wcall EXCEPT ![w] = NoCall]
             /\ wpc' = [wpc EXCEPT ![w] = "again"]
             /\ UNCHANGED wconn
    BY <2>2, <2>4, HeldPush
  <2>5. QED
    BY <1>2, <2>1, <2>2, <2>3, <2>4 DEF processResponse_write, GoesTo
<1>3. CASE processResponse_throws(w)
  BY <1>3, HeldLoops, FailsOrLoops DEF processResponse_throws
<1>4. CASE processResponse_again(w)
  BY <1>4, HeldLoops DEF processResponse_again, NotifyResponder
<1>5. QED
  BY <1>1, <1>2, <1>3, <1>4 DEF ProcessResponse

(* Every step keeps them.                                                  *)
LEMMA HeldStep ==
    ASSUME TypeOK, TypeOK', CallHeld, OwnConnection, [Next]_vars
    PROVE  CallHeld' /\ OwnConnection'
<1> USE DEF TypeOK, RespondType
<1>1. ASSUME NEW h \in Handlers, HandlerThread(h) PROVE CallHeld' /\ OwnConnection'
  <2>0. h \in Workers
    BY WorkersFinite
  <2>1. CASE Handler_pop(h)
    BY <2>0, <2>1 DEF Handler_pop, GoesTo, CallHeld, OwnConnection, WorkType
  <2>2. CASE Method_call(h)
    BY <2>0, <2>2 DEF Method_call, GoesTo, CallHeld, OwnConnection, WorkType
  <2>3. CASE doRespond_push(h)
    <3>1. PICK x \in Call : x = wcall[h]
      BY <2>0, <2>3 DEF doRespond_push, WorkType
    <3>2. PICK d \in Conns : d = x[1]
      BY DEF Call
    <3>3. CASE Len(respond_queue[d]) < max_respond_size
      <4>1. /\ respond_queue' = [respond_queue EXCEPT ![d] = Append(@, x)]
            /\ wconn' = [wconn EXCEPT ![h] = d]
            /\ wcall' = [wcall EXCEPT ![h] = NoCall]
            /\ wpc' = [wpc EXCEPT ![h] = "size"]
        BY <2>3, <3>1, <3>2, <3>3 DEF doRespond_push, GoesTo
      <4>2. QED
        BY <2>0, <3>2, <4>1, HeldPush
    <3>4. CASE ~(Len(respond_queue[d]) < max_respond_size)
      <4>1. UNCHANGED <<respond_queue, workVars>>
        BY <2>3, <3>1, <3>2, <3>4 DEF doRespond_push
      <4>2. QED
        BY <2>0, <4>1, HeldLoops
    <3>5. QED
      BY <3>3, <3>4
  <2>4. CASE doRespond_size(h)
    BY <2>0, <2>4 DEF doRespond_size, GoesTo, CallHeld, OwnConnection, WorkType
  <2>5. CASE doRespond_notify(h)
    BY <2>0, <2>5, HeldLoops DEF doRespond_notify, NotifyResponder
  <2>6. CASE ProcessResponse(h)
    BY <2>0, <2>6, HeldProcess
  <2>7. QED
    BY <1>1, <2>1, <2>2, <2>3, <2>4, <2>5, <2>6 DEF HandlerThread
<1>2. CASE ResponderThread
  <2>0. PICK w \in Workers : w = RespThread
    BY WorkersFinite
  <2>1. CASE Responder_pop
    BY <2>0, <2>1 DEF Responder_pop, GoesTo, CallHeld, OwnConnection, WorkType
  <2>2. CASE Responder_find
    BY <2>0, <2>2 DEF Responder_find, GoesTo, CallHeld, OwnConnection, WorkType
  <2>3. CASE ProcessResponse(RespThread)
    BY <2>0, <2>3, HeldProcess
  <2>4. QED
    BY <1>2, <2>1, <2>2, <2>3 DEF ResponderThread
<1>3. CASE UNCHANGED <<workVars, respond_queue>>
  BY <1>3 DEF CallHeld, OwnConnection, workVars
<1>4. QED
  BY <1>1, <1>2, <1>3, OthersDoNotRespond DEF Handles, Responds

(* Whoever is not a reader leaves the readers and the sockets alone, and   *)
(* a stream that cannot be read does not become readable again.            *)
LEMMA OthersDoNotRead ==
    ASSUME TypeOK, [Next]_vars
    PROVE  /\ \A c \in Conns : peer[c] \in Unreadable => peer'[c] \in Unreadable
           /\ \/ \E r \in Readers : Reads(r)
              \/ UNCHANGED <<readerVars, got, sock_open>>
<1>1. ASSUME NEW d \in Conns, Client(d)
      PROVE  /\ \A c \in Conns : peer[c] \in Unreadable => peer'[c] \in Unreadable
             /\ UNCHANGED <<readerVars, got, sock_open>>
  BY <1>1 DEF Client, ClientConnect, ClientSends, ClientFinishes, ClientGarbles,
     ClientCloses, Unreadable, listenVars, TypeOK, StateType, PeerType
<1>2. CASE Listens \/ AcceptFails
  BY <1>2 DEF Listens, AcceptFails, ListenerThread, handle_accept, handle_accept_error,
     handle_read, io_service_exit, addToReader, addToReader_full, stateVars, peerVars
<1>3. ASSUME NEW r \in Readers, Reads(r) PROVE UNCHANGED peer
  BY <1>3 DEF Reads, ReaderThread, Reader_pop, Call_read, Call_read_fails,
     close_connection, Reader_push, Reader_rearm, stateVars, peerVars
<1>4. ASSUME NEW w \in Workers, ProcessResponse(w) PROVE UNCHANGED <<peer, got, sock_open>>
  BY <1>4 DEF ProcessResponse, processResponse_pop, processResponse_write,
     processResponse_throws, processResponse_again, NotifyResponder, SameState, peerVars
<1>5. ASSUME NEW h \in Handlers, Handles(h)
      PROVE  UNCHANGED <<peer, readerVars, got, sock_open>>
  <2>1. UNCHANGED <<peer, got, sock_open>>
    BY <1>4, <1>5, WorkersFinite DEF Handles, HandlerThread, Handler_pop, Method_call,
       doRespond_push, doRespond_size, doRespond_notify, NotifyResponder, SameState, peerVars
  <2>2. QED
    BY <1>5, <2>1 DEF Handles, listenVars
<1>6. CASE Responds
  <2>1. UNCHANGED <<peer, got, sock_open>>
    BY <1>4, <1>6, WorkersFinite DEF Responds, ResponderThread, Responder_pop,
       Responder_find, SameState, peerVars
  <2>2. QED
    BY <1>6, <2>1 DEF Responds, listenVars
<1>7. CASE Stops
  BY <1>7 DEF Stops, MainThread, peerVars
<1>8. CASE UNCHANGED vars
  BY <1>8 DEF vars, stateVars, peerVars, listenVars
<1>9. QED
  BY <1>1, <1>2, <1>3, <1>5, <1>6, <1>7, <1>8 DEF Next

(* Every step keeps ClosedForCause.                                          *)
LEMMA ClosedStep ==
    ASSUME TypeOK, TypeOK', ClosedForCause, [Next]_vars
    PROVE  ClosedForCause'
<1> USE DEF TypeOK, ListenType, StateType
<1>1. ASSUME NEW r \in Readers, ReaderThread(r), UNCHANGED peer PROVE ClosedForCause'
  <2>1. CASE Reader_pop(r)
    BY <1>1, <2>1 DEF Reader_pop, ClosedForCause, ReadType, stateVars
  <2>2. CASE Call_read(r)
    BY <1>1, <2>2 DEF Call_read, ClosedForCause, ReadType
  <2>3. CASE Call_read_fails(r)
    BY <1>1, <2>3 DEF Call_read_fails, ClosedForCause, Unreadable, ReadType, stateVars
  <2>4. CASE close_connection(r)
    <3>1. PICK d \in Conns : d = rconn[r] /\ rpc[r] = "close"
      BY <2>4 DEF close_connection, ReadType
    <3>2. /\ sock_open' = [sock_open EXCEPT ![d] = FALSE]
          /\ rconn' = [rconn EXCEPT ![r] = NoConn]
          /\ \A s \in Readers : s # r => rpc'[s] = rpc[s]
          /\ rpc'[r] # "close"
      BY <2>4, <3>1 DEF close_connection, ReaderLoops, ReadType
    <3>3. \A s \in Readers : rpc'[s] = "close" => peer'[rconn'[s]] \in Unreadable
      BY <1>1, <3>2 DEF ClosedForCause, ReadType
    <3>4. \A c \in Conns : ~sock_open'[c] => peer'[c] \in Unreadable
      BY <1>1, <3>1, <3>2 DEF ClosedForCause, SharedType
    <3>5. QED
      BY <3>3, <3>4 DEF ClosedForCause
  <2>5. CASE Reader_push(r)
    BY <1>1, <2>5 DEF Reader_push, ClosedForCause, ReadType
  <2>6. CASE Reader_rearm(r)
    <3>1. /\ \A s \in Readers : s # r => rpc'[s] = rpc[s] /\ rconn'[s] = rconn[s]
          /\ rpc'[r] # "close" /\ UNCHANGED sock_open
      BY <2>6 DEF Reader_rearm, ReaderLoops, ReadType, stateVars
    <3>2. QED
      BY <1>1, <3>1 DEF ClosedForCause
  <2>7. QED
    BY <1>1, <2>1, <2>2, <2>3, <2>4, <2>5, <2>6 DEF ReaderThread
<1>2. ASSUME NEW r \in Readers, Reads(r) PROVE UNCHANGED peer
  BY <1>2 DEF Reads, ReaderThread, Reader_pop, Call_read, Call_read_fails,
     close_connection, Reader_push, Reader_rearm, stateVars, peerVars
<1>3. CASE UNCHANGED <<readerVars, got, sock_open>>
  <2>1. \A r \in Readers : rpc[r] = "close" => rconn[r] \in Conns
    BY DEF ReadType
  <2>2. QED
    BY <1>3, <2>1, OthersDoNotRead DEF ClosedForCause, readerVars
<1>4. QED
  BY <1>1, <1>2, <1>3, OthersDoNotRead DEF Reads

(* They hold in every reachable state.                                     *)
LEMMA AuxiliaryAlways == Spec => [](CallHeld /\ OwnConnection /\ ClosedForCause)
<1> DEFINE A == CallHeld /\ OwnConnection /\ ClosedForCause
<1>1. Init => A
  BY DEF Init, StateInit, ListenerInit, ResponderInit, CallHeld, OwnConnection, ClosedForCause
<1>2. TypeOK /\ TypeOK' /\ A /\ [Next]_vars => A'
  BY HeldStep, ClosedStep
<1>3. QED
  BY <1>1, <1>2, TypeCorrect, PTL DEF Spec

-----------------------------------------------------------------------------
(* In how many places a call is, and how a step changes the number.        *)

Reading(x) == {r \in Readers : rpc[r] = "push" /\ <<rconn[r], rid[r]>> = x}
Working(x) == {w \in Workers : wcall[w] = x}

(* What is not in a thread's hands.                                        *)
Stored(x) ==
    Count(bq_call, x) + Count(respond_queue[x[1]], x) + Cardinality(FinalSegments(x))

(* The numbers Places adds up are numbers.                                 *)
LEMMA PlacesAre ==
    ASSUME TypeOK, NEW x \in Call
    PROVE  /\ Places(x) = Cardinality(Reading(x)) + Cardinality(Working(x)) + Stored(x)
           /\ IsFiniteSet(Reading(x)) /\ IsFiniteSet(Working(x)) /\ IsFiniteSet(FinalSegments(x))
           /\ Cardinality(Reading(x)) \in Nat /\ Cardinality(Working(x)) \in Nat
           /\ Cardinality(FinalSegments(x)) \in Nat
           /\ Count(bq_call, x) \in Nat /\ Count(respond_queue[x[1]], x) \in Nat
           /\ Stored(x) \in Nat /\ Places(x) \in Nat
<1>0. x[1] \in Conns
  BY DEF Call
<1>1. IsFiniteSet(Reading(x)) /\ IsFiniteSet(Working(x))
  <2>1. Reading(x) \in SUBSET Readers /\ Working(x) \in SUBSET Workers
    BY DEF Reading, Working
  <2>2. QED
    BY <2>1, WorkersFinite, FS_Subset
<1>2. IsFiniteSet(FinalSegments(x))
  <2>1. PICK s \in Seq(Segment) : s = out[x[1]]
    BY <1>0 DEF TypeOK, RespondType, QueueType
  <2>2. DOMAIN s = 1 .. Len(s) /\ Len(s) \in Int /\ 1 \in Int
    BY <2>1
  <2>3. IsFiniteSet(DOMAIN s)
    BY <2>2, FS_Interval
  <2>4. FinalSegments(x) \in SUBSET DOMAIN s
    BY <2>1 DEF FinalSegments
  <2>5. QED
    BY <2>3, <2>4, FS_Subset
<1>3. Count(bq_call, x) \in Nat /\ Count(respond_queue[x[1]], x) \in Nat
  BY <1>0, CountType DEF TypeOK, StateType, SharedType, RespondType, QueueType
<1>4. PICK a \in Nat, b \in Nat, e \in Nat : /\ a = Cardinality(Reading(x))
                                             /\ b = Cardinality(Working(x))
                                             /\ e = Cardinality(FinalSegments(x))
  BY <1>1, <1>2, FS_CardinalityType
<1>5. PICK m \in Nat, n \in Nat : m = Count(bq_call, x) /\ n = Count(respond_queue[x[1]], x)
  BY <1>3
<1>6. Places(x) = a + m + b + n + e /\ Stored(x) = m + n + e
  BY <1>4, <1>5 DEF Places, Stored, Reading, Working, Count, At
<1>7. QED
  BY <1>1, <1>2, <1>4, <1>5, <1>6

(* The numbers of PlacesAre, for all calls at once.                        *)
PlacesAdd ==
    \A x \in Call :
        /\ Places(x) = Cardinality(Reading(x)) + Cardinality(Working(x)) + Stored(x)
        /\ Cardinality(Reading(x)) \in Nat /\ Cardinality(Working(x)) \in Nat
        /\ Count(bq_call, x) \in Nat /\ Count(respond_queue[x[1]], x) \in Nat
        /\ Cardinality(FinalSegments(x)) \in Nat
        /\ Stored(x) \in Nat /\ Places(x) \in Nat

(* They add up in a state of the right types ...                           *)
LEMMA PlacesAddUp == TypeOK => PlacesAdd
  BY PlacesAre DEF PlacesAdd

(* ... and in the state after a step.                                      *)
LEMMA PlacesAddUpNext == TypeOK' => PlacesAdd'
  BY PlacesAddUp, PTL

(* A worker's step: what changes is what is stored and what w holds.       *)
LEMMA WorkerPlaces ==
    ASSUME TypeOK, TypeOK', NEW w \in Workers, NEW x \in Call,
           \A u \in Workers : u # w => wcall'[u] = wcall[u],
           UNCHANGED readerVars
    PROVE  /\ Places(x) \in Nat /\ Places(x)' \in Nat
           /\ Stored(x) \in Nat /\ Stored(x)' \in Nat
           /\ Places(x)' + Stored(x) + One(wcall[w] = x)
                = Places(x) + Stored(x)' + One(wcall'[w] = x)
<1>1. /\ Places(x) = Cardinality(Reading(x)) + Cardinality(Working(x)) + Stored(x)
      /\ Cardinality(Reading(x)) \in Nat /\ Cardinality(Working(x)) \in Nat
      /\ Stored(x) \in Nat /\ IsFiniteSet(Working(x))
  BY PlacesAre
<1>2. /\ Places(x)' = Cardinality(Reading(x)') + Cardinality(Working(x)') + Stored(x)'
      /\ Cardinality(Reading(x)') \in Nat /\ Cardinality(Working(x)') \in Nat
      /\ Stored(x)' \in Nat
  BY PlacesAddUpNext DEF PlacesAdd
<1>3. Reading(x)' = Reading(x)
  BY DEF Reading, readerVars
<1>4. \A u : u # w => (u \in Working(x) <=> u \in Working(x)')
  BY DEF Working
<1>5. (w \in Working(x) <=> wcall[w] = x) /\ (w \in Working(x)' <=> wcall'[w] = x)
  BY DEF Working
<1>6. Cardinality(Working(x)') + One(w \in Working(x))
        = Cardinality(Working(x)) + One(w \in Working(x)')
  BY <1>1, <1>4, OneChanged
<1>7. One(w \in Working(x)) = One(wcall[w] = x) /\ One(w \in Working(x)') = One(wcall'[w] = x)
  BY <1>5 DEF One
<1>8. PICK a \in Nat, b \in Nat, b1 \in Nat : /\ a = Cardinality(Reading(x))
                                              /\ b = Cardinality(Working(x))
                                              /\ b1 = Cardinality(Working(x)')
  BY <1>1, <1>2
<1>9. PICK s \in Nat, s1 \in Nat : s = Stored(x) /\ s1 = Stored(x)'
  BY <1>1, <1>2
<1>10. PICK p \in Nat, q \in Nat : p = One(wcall[w] = x) /\ q = One(wcall'[w] = x)
  BY DEF One
<1>11. b1 + p = b + q /\ Places(x) = a + b + s /\ Places(x)' = a + b1 + s1
  BY <1>1, <1>2, <1>3, <1>6, <1>7, <1>8, <1>9, <1>10
<1>12. Places(x)' + s + p = Places(x) + s1 + q /\ Places(x) \in Nat /\ Places(x)' \in Nat
  BY <1>11
<1>13. QED
  BY <1>9, <1>10, <1>12

(* A reader's step: what changes is what is queued and what r holds.       *)
LEMMA ReaderPlaces ==
    ASSUME TypeOK, TypeOK', NEW r \in Readers, NEW x \in Call,
           \A s \in Readers : s # r => /\ rpc'[s] = rpc[s] /\ rconn'[s] = rconn[s]
                                       /\ rid'[s] = rid[s],
           UNCHANGED <<wcall, respond_queue, out>>
    PROVE  /\ Places(x) \in Nat /\ Places(x)' \in Nat
           /\ Places(x)' + Count(bq_call, x) + One(r \in Reading(x))
                = Places(x) + Count(bq_call', x) + One(r \in Reading(x)')
<1>1. /\ Places(x) = Cardinality(Reading(x)) + Cardinality(Working(x)) + Stored(x)
      /\ Cardinality(Reading(x)) \in Nat /\ Cardinality(Working(x)) \in Nat
      /\ IsFiniteSet(Reading(x)) /\ Count(bq_call, x) \in Nat
      /\ Count(respond_queue[x[1]], x) \in Nat /\ Cardinality(FinalSegments(x)) \in Nat
  BY PlacesAre
<1>2. /\ Places(x)' = Cardinality(Reading(x)') + Cardinality(Working(x)') + Stored(x)'
      /\ Cardinality(Reading(x)') \in Nat /\ Count(bq_call', x) \in Nat
  BY PlacesAddUpNext DEF PlacesAdd
<1>3. Working(x)' = Working(x) /\ FinalSegments(x)' = FinalSegments(x)
  BY DEF Working, FinalSegments
<1>4. \A s : s # r => (s \in Reading(x) <=> s \in Reading(x)')
  BY DEF Reading
<1>5. Cardinality(Reading(x)') + One(r \in Reading(x))
        = Cardinality(Reading(x)) + One(r \in Reading(x)')
  BY <1>1, <1>4, OneChanged
<1>6. PICK a \in Nat, a1 \in Nat, b \in Nat : /\ a = Cardinality(Reading(x))
                                              /\ a1 = Cardinality(Reading(x)')
                                              /\ b = Cardinality(Working(x))
  BY <1>1, <1>2
<1>7. PICK m \in Nat, m1 \in Nat : m = Count(bq_call, x) /\ m1 = Count(bq_call', x)
  BY <1>1, <1>2
<1>8. PICK n \in Nat, e \in Nat : n = Count(respond_queue[x[1]], x)
                                  /\ e = Cardinality(FinalSegments(x))
  BY <1>1
<1>9. PICK p \in Nat, q \in Nat : p = One(r \in Reading(x)) /\ q = One(r \in Reading(x)')
  BY DEF One
<1>10. Stored(x) = m + n + e /\ Stored(x)' = m1 + n + e
  BY <1>3, <1>7, <1>8 DEF Stored
<1>11. a1 + p = a + q /\ Places(x) = a + b + m + n + e /\ Places(x)' = a1 + b + m1 + n + e
  BY <1>1, <1>2, <1>3, <1>5, <1>6, <1>9, <1>10
<1>12. Places(x)' + m + p = Places(x) + m1 + q /\ Places(x) \in Nat /\ Places(x)' \in Nat
  BY <1>11
<1>13. QED
  BY <1>7, <1>9, <1>12

(* What a write adds to the finished answers.                              *)
LEMMA FinalAppend ==
    ASSUME TypeOK, NEW d \in Conns, NEW seg \in Segment, NEW x \in Call,
           out' = [out EXCEPT ![d] = Append(@, seg)],
           seg.call[1] = d
    PROVE  /\ IsFiniteSet(FinalSegments(x)')
           /\ Cardinality(FinalSegments(x)')
                = Cardinality(FinalSegments(x)) + One(seg.call = x /\ seg.to = ValueLen)
<1>0. x[1] \in Conns
  BY DEF Call
<1>1. IsFiniteSet(FinalSegments(x)) /\ Cardinality(FinalSegments(x)) \in Nat
  BY PlacesAre
<1>2. PICK s \in Seq(Segment) : s = out[d]
  BY DEF TypeOK, RespondType, QueueType
<1>3. \A c \in Conns : out'[c] = IF c = d THEN Append(s, seg) ELSE out[c]
  BY <1>2 DEF TypeOK, RespondType, QueueType
<1>4. CASE x[1] # d
  <2>1. FinalSegments(x)' = FinalSegments(x)
    BY <1>0, <1>3, <1>4 DEF FinalSegments
  <2>2. seg.call # x
    BY <1>4
  <2>3. QED
    BY <1>1, <2>1, <2>2 DEF One
<1>5. CASE x[1] = d
  <2>1. /\ FinalSegments(x) = {i \in DOMAIN s : s[i].call = x /\ s[i].to = ValueLen}
        /\ FinalSegments(x)' = {i \in DOMAIN Append(s, seg) :
              Append(s, seg)[i].call = x /\ Append(s, seg)[i].to = ValueLen}
    BY <1>2, <1>3, <1>5 DEF FinalSegments
  <2>2. /\ DOMAIN s = 1 .. Len(s) /\ Len(s) \in Nat
        /\ DOMAIN Append(s, seg) = 1 .. Len(s) + 1
        /\ Append(s, seg)[Len(s) + 1] = seg
        /\ \A i \in 1 .. Len(s) : Append(s, seg)[i] = s[i]
    OBVIOUS
  <2>3. \A u : u # Len(s) + 1 => (u \in FinalSegments(x) <=> u \in FinalSegments(x)')
    BY <2>1, <2>2
  <2>4. /\ Len(s) + 1 \notin FinalSegments(x)
        /\ Len(s) + 1 \in FinalSegments(x)' <=> seg.call = x /\ seg.to = ValueLen
    BY <2>1, <2>2
  <2>5. /\ IsFiniteSet(FinalSegments(x)') /\ Cardinality(FinalSegments(x)') \in Nat
        /\ Cardinality(FinalSegments(x)') + One(Len(s) + 1 \in FinalSegments(x))
             = Cardinality(FinalSegments(x)) + One(Len(s) + 1 \in FinalSegments(x)')
    BY <1>1, <2>3, OneChanged
  <2>6. One(Len(s) + 1 \in FinalSegments(x)) = 0
        /\ One(Len(s) + 1 \in FinalSegments(x)') = One(seg.call = x /\ seg.to = ValueLen)
    BY <2>4 DEF One
  <2>7. One(seg.call = x /\ seg.to = ValueLen) \in Nat
    BY DEF One
  <2>8. QED
    BY <1>1, <2>5, <2>6, <2>7
<1>6. QED
  BY <1>4, <1>5

-----------------------------------------------------------------------------
(* Every call is in one place, or was dropped for a reason.                *)

EachOnce ==
    \A x \in Call :
        IF x[2] <= got[x[1]]
        THEN \/ Places(x) = 1
             \/ Places(x) = 0 /\ (peer[x[1]] \in Unreadable \/ got[x[1]] > max_respond_size)
        ELSE Places(x) = 0

(* A call that is somewhere was read, and is there once.                   *)
LEMMA OncePlaced ==
    ASSUME EachOnce, NEW x \in Call
    PROVE  Places(x) \in {0, 1} /\ (Places(x) # 0 => x[2] <= got[x[1]])
  BY DEF EachOnce

(* A call in a worker's hands is not in the queues and not yet answered.   *)
LEMMA HeldNowhereElse ==
    ASSUME TypeOK, EachOnce, NEW w \in Workers, NEW x \in Call, wcall[w] = x
    PROVE  /\ Count(bq_call, x) = 0 /\ Count(respond_queue[x[1]], x) = 0
           /\ FinalSegments(x) = {} /\ x[2] <= got[x[1]]
           /\ Places(x) = 1
<1>1. /\ Places(x) = Cardinality(Reading(x)) + Cardinality(Working(x)) + Stored(x)
      /\ IsFiniteSet(Working(x)) /\ IsFiniteSet(FinalSegments(x))
      /\ Cardinality(Reading(x)) \in Nat /\ Cardinality(Working(x)) \in Nat
      /\ Cardinality(FinalSegments(x)) \in Nat
      /\ Count(bq_call, x) \in Nat /\ Count(respond_queue[x[1]], x) \in Nat
  BY PlacesAre
<1>2. Cardinality(Working(x)) # 0
  <2>1. w \in Working(x)
    BY DEF Working
  <2>2. QED
    BY <1>1, <2>1, FS_EmptySet
<1>3. Places(x) \in {0, 1} /\ (Places(x) # 0 => x[2] <= got[x[1]])
  BY OncePlaced
<1>4. /\ Count(bq_call, x) = 0 /\ Count(respond_queue[x[1]], x) = 0
      /\ Cardinality(FinalSegments(x)) = 0 /\ Places(x) = 1
  BY <1>1, <1>2, <1>3 DEF Stored
<1>5. QED
  BY <1>1, <1>3, <1>4, FS_EmptySet

(* The results queued on a connection are of different calls, all read.    *)
LEMMA QueuedOnce ==
    ASSUME TypeOK, OwnConnection, EachOnce, NEW c \in Conns
    PROVE  /\ \A i, j \in DOMAIN respond_queue[c] :
                 respond_queue[c][i] = respond_queue[c][j] => i = j
           /\ \A i \in DOMAIN respond_queue[c] :
                 /\ respond_queue[c][i] \in Call
                 /\ respond_queue[c][i][1] = c
                 /\ respond_queue[c][i][2] \in 1 .. got[c]
                 /\ FinalSegments(respond_queue[c][i]) = {}
<1>1. PICK q \in Seq(Call) : q = respond_queue[c]
  BY DEF TypeOK, RespondType, QueueType
<1>2. ASSUME NEW i \in DOMAIN q
      PROVE  /\ q[i] \in Call /\ q[i][1] = c /\ q[i][2] \in 1 .. got[c]
             /\ FinalSegments(q[i]) = {} /\ Count(q, q[i]) <= 1
  <2>1. PICK x \in Call : x = q[i] /\ x[1] = c
    BY <1>1 DEF OwnConnection
  <2>2. /\ Places(x) = Cardinality(Reading(x)) + Cardinality(Working(x)) + Stored(x)
        /\ IsFiniteSet(FinalSegments(x))
        /\ Cardinality(Reading(x)) \in Nat /\ Cardinality(Working(x)) \in Nat
        /\ Cardinality(FinalSegments(x)) \in Nat
        /\ Count(bq_call, x) \in Nat /\ Count(respond_queue[x[1]], x) \in Nat
    BY PlacesAre
  <2>3. Count(q, x) \in Nat /\ Count(q, x) # 0
    BY <2>1, CountType
  <2>4. Places(x) \in {0, 1} /\ (Places(x) # 0 => x[2] <= got[x[1]])
    BY OncePlaced
  <2>5. Count(q, x) = 1 /\ Cardinality(FinalSegments(x)) = 0 /\ Places(x) = 1
    BY <1>1, <2>1, <2>2, <2>3, <2>4 DEF Stored
  <2>6. FinalSegments(x) = {}
    BY <2>2, <2>5, FS_EmptySet
  <2>7. x[2] \in 1 .. MaxCalls /\ got[c] \in 0 .. MaxCalls
    BY DEF Call, TypeOK, StateType, PeerType
  <2>8. QED
    BY <2>1, <2>4, <2>5, <2>6, <2>7, ServerStateAssumption DEF ServerStateAssumption
<1>3. \A i, j \in DOMAIN q : q[i] = q[j] => i = j
  BY <1>2, CountOnce
<1>4. QED
  BY <1>1, <1>2, <1>3

(* If a result finds the queue of its connection full, more calls than     *)
(* that queue holds were read from the connection and are not answered.    *)
LEMMA Overfull ==
    ASSUME TypeOK, OwnConnection, EachOnce, NEW w \in Workers, NEW x \in Call, wcall[w] = x,
           ~(Len(respond_queue[x[1]]) < max_respond_size)
    PROVE  /\ got[x[1]] > max_respond_size
           /\ Cardinality(Unanswered(x[1])) > max_respond_size
<1>1. PICK c \in Conns : c = x[1]
  BY DEF Call
<1>2. PICK q \in Seq(Call) : q = respond_queue[c]
  BY DEF TypeOK, RespondType, QueueType
<1>3. Len(q) = max_respond_size /\ max_respond_size \in Nat /\ got[c] \in Nat
  BY <1>1, <1>2, ResponderAssumption, ServerStateAssumption
  DEF ResponderAssumption, ServerStateAssumption, TypeOK, RespondType, QueueType,
      StateType, PeerType
<1> DEFINE s == [i \in 1 .. Len(q) |-> q[i][2]]
           S == Unanswered(c)
<1>4. /\ \A i, j \in DOMAIN q : q[i] = q[j] => i = j
      /\ \A i \in DOMAIN q : /\ q[i] \in Call /\ q[i][1] = c /\ q[i][2] \in 1 .. got[c]
                             /\ FinalSegments(q[i]) = {}
  BY <1>2, QueuedOnce
<1>5. \A y \in Call : y = <<y[1], y[2]>>
  BY DEF Call
<1>6. DOMAIN q = 1 .. Len(q) /\ Len(q) \in Nat
  OBVIOUS
<1>7. \A i \in 1 .. Len(q) : q[i] = <<c, q[i][2]>> /\ q[i][2] \in S
  <2> SUFFICES ASSUME NEW i \in 1 .. Len(q) PROVE q[i] = <<c, q[i][2]>> /\ q[i][2] \in S
    OBVIOUS
  <2>1. q[i] = <<c, q[i][2]>> /\ q[i][2] \in 1 .. got[c]
    BY <1>4, <1>5, <1>6
  <2>2. ~Answered(<<c, q[i][2]>>)
    BY <1>4, <1>6, <2>1 DEF Answered
  <2>3. QED
    BY <2>1, <2>2 DEF Unanswered
<1>8. Count(q, x) = 0 /\ FinalSegments(x) = {} /\ x[2] <= got[c]
  BY <1>1, <1>2, HeldNowhereElse
<1>9. x = <<c, x[2]>> /\ x[2] \in S
  <2>1. x = <<c, x[2]>> /\ x[2] \in 1 .. MaxCalls
    BY <1>1, <1>5 DEF Call
  <2>2. x[2] \in 1 .. got[c]
    BY <1>3, <1>8, <2>1, ServerStateAssumption DEF ServerStateAssumption
  <2>3. ~Answered(<<c, x[2]>>)
    BY <1>8, <2>1 DEF Answered
  <2>4. QED
    BY <2>1, <2>2, <2>3 DEF Unanswered
<1>10. \A i \in 1 .. Len(q) : q[i] # x
  BY <1>6, <1>8, CountType
<1>11. IsFiniteSet(1 .. got[c]) /\ Cardinality(1 .. got[c]) = got[c]
  <2>1. got[c] \in Int /\ 1 \in Int
    BY <1>3
  <2>2. /\ IsFiniteSet(1 .. got[c])
        /\ Cardinality(1 .. got[c]) = IF 1 > got[c] THEN 0 ELSE got[c] - 1 + 1
    BY <2>1, FS_Interval
  <2>3. QED
    BY <1>3, <2>2
<1>12. S \in SUBSET (1 .. got[c])
  BY DEF Unanswered
<1>13. IsFiniteSet(S) /\ Cardinality(S) <= got[c]
  BY <1>11, <1>12, FS_Subset
<1>14. s \in Seq(S) /\ Len(s) = Len(q) /\ DOMAIN s = 1 .. Len(q)
  BY <1>6, <1>7
<1>15. /\ \A i, j \in DOMAIN s : s[i] = s[j] => i = j
       /\ \A i \in DOMAIN s : s[i] # x[2]
  <2>1. \A i \in DOMAIN s : s[i] = q[i][2] /\ q[i] = <<c, s[i]>> /\ q[i] # x
    BY <1>7, <1>10, <1>14
  <2>2. ASSUME NEW i \in DOMAIN s, NEW j \in DOMAIN s, s[i] = s[j] PROVE i = j
    <3>1. q[i] = q[j]
      BY <2>1, <2>2
    <3>2. QED
      BY <1>4, <1>6, <1>14, <3>1
  <2>3. \A i \in DOMAIN s : s[i] # x[2]
    BY <1>9, <2>1
  <2>4. QED
    BY <2>2, <2>3
<1> HIDE DEF s, S
<1>16. Cardinality(S) \in Nat /\ Cardinality(S) > Len(s)
  BY <1>9, <1>13, <1>14, <1>15, OneMore
<1>17. QED
  BY <1>1, <1>3, <1>13, <1>14, <1>16 DEF S

(* A step that moves no call out of all places.                            *)
LEMMA OnceKept ==
    ASSUME TypeOK, EachOnce, [Next]_vars, UNCHANGED got,
           \A x \in Call : Places(x)' = Places(x)
    PROVE  EachOnce'
<1> SUFFICES ASSUME NEW x \in Call
             PROVE  IF x[2] <= got'[x[1]]
                    THEN \/ Places(x)' = 1
                         \/ Places(x)' = 0 /\ (peer'[x[1]] \in Unreadable \/ got'[x[1]] > max_respond_size)
                    ELSE Places(x)' = 0
  BY DEF EachOnce
<1>1. x[1] \in Conns
  BY DEF Call
<1>2. peer[x[1]] \in Unreadable => peer'[x[1]] \in Unreadable
  BY <1>1, OthersDoNotRead
<1>3. IF x[2] <= got[x[1]]
      THEN \/ Places(x) = 1
           \/ Places(x) = 0 /\ (peer[x[1]] \in Unreadable \/ got[x[1]] > max_respond_size)
      ELSE Places(x) = 0
  BY DEF EachOnce
<1>4. Places(x)' = Places(x) /\ got' = got
  OBVIOUS
<1>5. QED
  BY <1>2, <1>3, <1>4

(* What is stored, with the call in the hands of w, is what is stored      *)
(* after the step, with the call then in its hands.                        *)
LEMMA WorkerKeeps ==
    ASSUME TypeOK, TypeOK', EachOnce, [Next]_vars, UNCHANGED <<got, readerVars>>,
           NEW w \in Workers,
           \A u \in Workers : u # w => wcall'[u] = wcall[u],
           \A x \in Call : Stored(x)' + One(wcall'[w] = x) = Stored(x) + One(wcall[w] = x)
    PROVE  EachOnce'
<1>1. ASSUME NEW x \in Call PROVE Places(x)' = Places(x)
  <2>1. /\ Places(x) \in Nat /\ Places(x)' \in Nat
        /\ Stored(x) \in Nat /\ Stored(x)' \in Nat
        /\ Places(x)' + Stored(x) + One(wcall[w] = x)
             = Places(x) + Stored(x)' + One(wcall'[w] = x)
    BY WorkerPlaces
  <2>2. PICK p \in Nat, q \in Nat : p = One(wcall[w] = x) /\ q = One(wcall'[w] = x)
    BY DEF One
  <2>3. PICK s \in Nat, s1 \in Nat : s = Stored(x) /\ s1 = Stored(x)'
    BY <2>1
  <2>4. PICK a \in Nat, a1 \in Nat : a = Places(x) /\ a1 = Places(x)'
    BY <2>1
  <2>5. s1 + q = s + p /\ a1 + s + p = a + s1 + q
    BY <2>1, <2>2, <2>3, <2>4
  <2>6. a1 = a
    BY <2>5
  <2>7. QED
    BY <2>4, <2>6
<1>2. QED
  BY <1>1, OnceKept

(* A worker without a call goes on without one.                            *)
LEMMA WorkerIdle ==
    ASSUME TypeOK, TypeOK', EachOnce, [Next]_vars, UNCHANGED <<got, readerVars>>,
           NEW w \in Workers,
           UNCHANGED wcall \/ (Loops(w) /\ wcall[w] = NoCall),
           UNCHANGED <<bq_call, respond_queue>>,
           \A x \in Call : Cardinality(FinalSegments(x)') = Cardinality(FinalSegments(x))
    PROVE  EachOnce'
<1>1. \A u \in Workers : wcall'[u] = wcall[u]
  BY LoopsAttends
<1>2. ASSUME NEW x \in Call
      PROVE  Stored(x)' + One(wcall'[w] = x) = Stored(x) + One(wcall[w] = x)
  <2>1. Cardinality(FinalSegments(x)') = Cardinality(FinalSegments(x))
    OBVIOUS
  <2>2. Stored(x)' = Stored(x) /\ wcall'[w] = wcall[w]
    BY <1>1, <2>1 DEF Stored
  <2>3. QED
    BY <2>2
<1>3. QED
  BY <1>1, <1>2, WorkerKeeps

(* A worker lets go of a call for which there is an excuse.                *)
LEMMA WorkerDrops ==
    ASSUME TypeOK, TypeOK', EachOnce, [Next]_vars, UNCHANGED <<got, readerVars>>,
           NEW w \in Workers, NEW x \in Call, wcall[w] = x, Loops(w),
           UNCHANGED <<bq_call, respond_queue>>,
           \A y \in Call : Cardinality(FinalSegments(y)') = Cardinality(FinalSegments(y)),
           peer[x[1]] \in Unreadable \/ got[x[1]] > max_respond_size
    PROVE  EachOnce'
<1>1. /\ \A u \in Workers : u # w => wcall'[u] = wcall[u]
      /\ wcall'[w] = NoCall
  BY LoopsAttends
<1>2. ASSUME NEW y \in Call
      PROVE  Places(y)' = IF y = x THEN 0 ELSE Places(y)
  <2>1. /\ Places(y) \in Nat /\ Places(y)' \in Nat
        /\ Stored(y) \in Nat /\ Stored(y)' \in Nat
        /\ Places(y)' + Stored(y) + One(wcall[w] = y)
             = Places(y) + Stored(y)' + One(wcall'[w] = y)
    BY <1>1, WorkerPlaces
  <2>2. Stored(y)' = Stored(y)
    <3>1. Cardinality(FinalSegments(y)') = Cardinality(FinalSegments(y))
      OBVIOUS
    <3>2. QED
      BY <3>1 DEF Stored
  <2>3. One(wcall'[w] = y) = 0 /\ One(wcall[w] = y) = IF y = x THEN 1 ELSE 0
    BY <1>1, NoCallIsNone DEF One
  <2>4. Places(y)' + (IF y = x THEN 1 ELSE 0) = Places(y)
    BY <2>1, <2>2, <2>3
  <2>5. y = x => Places(y) = 1
    BY HeldNowhereElse
  <2>6. QED
    BY <2>1, <2>4, <2>5
<1>3. ASSUME NEW y \in Call
      PROVE  IF y[2] <= got'[y[1]]
             THEN \/ Places(y)' = 1
                  \/ Places(y)' = 0 /\ (peer'[y[1]] \in Unreadable \/ got'[y[1]] > max_respond_size)
             ELSE Places(y)' = 0
  <2>1. y[1] \in Conns
    BY DEF Call
  <2>2. peer[y[1]] \in Unreadable => peer'[y[1]] \in Unreadable
    BY <2>1, OthersDoNotRead
  <2>3. IF y[2] <= got[y[1]]
        THEN \/ Places(y) = 1
             \/ Places(y) = 0 /\ (peer[y[1]] \in Unreadable \/ got[y[1]] > max_respond_size)
        ELSE Places(y) = 0
    BY DEF EachOnce
  <2>4. got' = got /\ Places(y)' = IF y = x THEN 0 ELSE Places(y)
    BY <1>2
  <2>5. QED
    BY <2>2, <2>3, <2>4
<1>4. QED
  BY <1>3 DEF EachOnce

(* A result goes from the hands of w to the queue of its connection.       *)
LEMMA WorkerQueues ==
    ASSUME TypeOK, TypeOK', EachOnce, [Next]_vars, UNCHANGED <<got, readerVars>>,
           NEW w \in Workers, NEW x \in Call, wcall[w] = x, NEW d \in Conns, x[1] = d,
           wcall' = [wcall EXCEPT ![w] = NoCall],
           respond_queue' = [respond_queue EXCEPT ![d] = Append(@, x)],
           UNCHANGED bq_call,
           \A y \in Call : Cardinality(FinalSegments(y)') = Cardinality(FinalSegments(y))
    PROVE  EachOnce'
<1>1. (\A u \in Workers : u # w => wcall'[u] = wcall[u]) /\ wcall'[w] = NoCall
  BY DEF TypeOK, RespondType, WorkType
<1>2. ASSUME NEW y \in Call
      PROVE  Stored(y)' + One(wcall'[w] = y) = Stored(y) + One(wcall[w] = y)
  <2>1. y[1] \in Conns
    BY DEF Call
  <2>2. PICK q \in Seq(Call) : q = respond_queue[d]
    BY DEF TypeOK, RespondType, QueueType
  <2>3. Count(Append(q, x), y) = Count(q, y) + One(x = y)
    BY CountAppend
  <2>4. Count(respond_queue'[y[1]], y) = Count(respond_queue[y[1]], y) + One(x = y)
    <3>1. CASE y[1] = d
      BY <2>1, <2>2, <2>3, <3>1 DEF TypeOK, RespondType, QueueType
    <3>2. CASE y[1] # d
      <4>1. respond_queue'[y[1]] = respond_queue[y[1]] /\ x # y
        BY <2>1, <3>2 DEF TypeOK, RespondType, QueueType
      <4>2. Count(respond_queue[y[1]], y) \in Nat /\ One(x = y) = 0
        BY <4>1, PlacesAre DEF One
      <4>3. QED
        BY <4>1, <4>2
    <3>3. QED
      BY <3>1, <3>2
  <2>5. PICK m \in Nat, n \in Nat, e \in Nat : /\ m = Count(bq_call, y)
                                               /\ n = Count(respond_queue[y[1]], y)
                                               /\ e = Cardinality(FinalSegments(y))
    BY PlacesAre
  <2>6. PICK p \in Nat : p = One(x = y)
    BY DEF One
  <2>7. Count(bq_call', y) = m /\ Cardinality(FinalSegments(y)') = e
    BY <2>5
  <2>8. Stored(y) = m + n + e /\ Stored(y)' = m + (n + p) + e
    BY <2>4, <2>5, <2>6, <2>7 DEF Stored
  <2>9. One(wcall'[w] = y) = 0 /\ One(wcall[w] = y) = p
    BY <1>1, <2>6, NoCallIsNone DEF One
  <2>10. QED
    BY <2>8, <2>9
<1>3. QED
  BY <1>1, <1>2, WorkerKeeps

(* What a step of a worker is seen against.                                *)
AccountInv == CallHeld /\ OwnConnection /\ ClosedForCause /\ EachOnce

(* What Connection::processResponse writes.                                *)
LEMMA WriteSegment ==
    ASSUME TypeOK, OwnConnection, NEW w \in Workers, NEW n \in 1 .. ValueLen,
           processResponse_write(w, n)
    PROVE  \E d \in Conns : \E x \in Call : \E seg \in Segment :
              /\ wpc[w] = "write" /\ wconn[w] = d /\ wcall[w] = x /\ x[1] = d
              /\ seg = [call |-> x, from |-> pos[x], to |-> pos[x] + n]
              /\ pos[x] \in 0 .. ValueLen - 1 /\ pos[x] + n \in 1 .. ValueLen
              /\ pos[x] < pos[x] + n
              /\ sock_open[d]
              /\ out' = [out EXCEPT ![d] = Append(@, seg)]
<1>1. PICK d \in Conns : d = wconn[w]
  BY DEF processResponse_write, TypeOK, RespondType, WorkType
<1>2. PICK x \in Call : x = wcall[w] /\ x[1] = d
  BY <1>1 DEF processResponse_write, TypeOK, RespondType, WorkType, OwnConnection
<1>3. pos[x] \in 0 .. ValueLen - 1 /\ pos[x] + n \in 1 .. ValueLen /\ pos[x] < pos[x] + n
  BY <1>2, ResponderAssumption
  DEF ResponderAssumption, processResponse_write, TypeOK, RespondType, QueueType
<1>4. pos[x] \in 0 .. ValueLen /\ pos[x] + n \in 0 .. ValueLen
  BY <1>3, ResponderAssumption DEF ResponderAssumption
<1>5. PICK seg \in Segment : seg = [call |-> x, from |-> pos[x], to |-> pos[x] + n]
  BY <1>4, Zenon DEF Segment
<1>6. out' = [out EXCEPT ![d] = Append(@, seg)]
  BY <1>1, <1>2, <1>5 DEF processResponse_write
<1>7. wpc[w] = "write" /\ sock_open[d]
  BY <1>1 DEF processResponse_write
<1>8. QED
  BY <1>1, <1>2, <1>3, <1>5, <1>6, <1>7

(* processResponse.                                                        *)
LEMMA OnceProcess ==
    ASSUME TypeOK, TypeOK', AccountInv, [Next]_vars, NEW w \in Workers, ProcessResponse(w),
           UNCHANGED <<got, readerVars, bq_call>>
    PROVE  EachOnce'
<1> USE DEF TypeOK, RespondType, AccountInv
<1>0. ASSUME NEW x \in Call, UNCHANGED out
      PROVE  Cardinality(FinalSegments(x)') = Cardinality(FinalSegments(x))
  BY <1>0 DEF FinalSegments
<1>1. CASE processResponse_pop(w)
  <2>1. PICK d \in Conns : d = wconn[w] /\ wpc[w] = "take"
    BY <1>1 DEF processResponse_pop, WorkType
  <2>2. wcall[w] = NoCall /\ UNCHANGED out
    BY <1>1, <2>1 DEF CallHeld, processResponse_pop
  <2>3. CASE respond_queue[d] = <<>>
    <3>1. (Loops(w) \/ UNCHANGED workVars) /\ UNCHANGED respond_queue
      BY <1>1, <2>1, <2>3, FailsOrLoops DEF processResponse_pop
    <3>2. QED
      BY <1>0, <2>2, <3>1, WorkerIdle DEF workVars
  <2>4. CASE respond_queue[d] # <<>>
    <3>1. PICK q \in Seq(Call) : q = respond_queue[d] /\ q # <<>>
      BY <2>4 DEF QueueType
    <3>2. PICK x \in Call : x = Head(q) /\ x[1] = d
      <4>1. Head(q) = q[1] /\ 1 \in DOMAIN q /\ Head(q) \in Call
        BY <3>1
      <4>2. QED
        BY <3>1, <4>1 DEF OwnConnection
    <3>3. /\ wcall' = [wcall EXCEPT ![w] = x]
          /\ respond_queue' = [respond_queue EXCEPT ![d] = Tail(q)]
      BY <1>1, <2>1, <3>1, <3>2 DEF processResponse_pop
    <3>4. (\A u \in Workers : u # w => wcall'[u] = wcall[u]) /\ wcall'[w] = x
      BY <3>3 DEF WorkType
    <3>5. ASSUME NEW y \in Call
          PROVE  Stored(y)' + One(wcall'[w] = y) = Stored(y) + One(wcall[w] = y)
      <4>1. y[1] \in Conns
        BY DEF Call
      <4>2. Count(q, y) = Count(Tail(q), y) + One(x = y)
        BY <3>1, <3>2, CountTail
      <4>3. Count(respond_queue[y[1]], y) = Count(respond_queue'[y[1]], y) + One(x = y)
        <5>1. CASE y[1] = d
          BY <3>1, <3>3, <4>1, <4>2, <5>1 DEF QueueType
        <5>2. CASE y[1] # d
          <6>1. respond_queue'[y[1]] = respond_queue[y[1]] /\ x # y
            BY <3>2, <3>3, <4>1, <5>2 DEF QueueType
          <6>2. Count(respond_queue[y[1]], y) \in Nat /\ One(x = y) = 0
            BY <6>1, PlacesAre DEF One
          <6>3. QED
            BY <6>1, <6>2
        <5>3. QED
          BY <5>1, <5>2
      <4>4. PICK m \in Nat, n \in Nat, e \in Nat : /\ m = Count(bq_call, y)
                                                   /\ n = Count(respond_queue'[y[1]], y)
                                                   /\ e = Cardinality(FinalSegments(y))
        BY PlacesAre, PlacesAddUpNext DEF PlacesAdd
      <4>5. PICK p \in Nat : p = One(x = y)
        BY DEF One
      <4>6. Count(bq_call', y) = m /\ Cardinality(FinalSegments(y)') = e
        BY <1>0, <2>2, <4>4
      <4>7. Stored(y)' = m + n + e /\ Stored(y) = m + (n + p) + e
        BY <4>3, <4>4, <4>5, <4>6 DEF Stored
      <4>8. One(wcall'[w] = y) = p /\ One(wcall[w] = y) = 0
        BY <2>2, <3>4, <4>5, NoCallIsNone DEF One
      <4>9. QED
        BY <4>7, <4>8
    <3>6. QED
      BY <3>4, <3>5, WorkerKeeps
  <2>5. QED
    BY <2>3, <2>4
<1>2. ASSUME NEW n \in 1 .. ValueLen, processResponse_write(w, n) PROVE EachOnce'
  <2>1. PICK d \in Conns, x \in Call, seg \in Segment :
           /\ wconn[w] = d /\ wcall[w] = x /\ x[1] = d
           /\ seg = [call |-> x, from |-> pos[x], to |-> pos[x] + n]
           /\ out' = [out EXCEPT ![d] = Append(@, seg)]
    BY <1>2, WriteSegment
  <2>2. \A y \in Call : Cardinality(FinalSegments(y)')
                         = Cardinality(FinalSegments(y)) + One(x = y /\ pos[x] + n = ValueLen)
    BY <2>1, FinalAppend
  <2>3. CASE pos[x] + n = ValueLen
    <3>1. Loops(w) /\ UNCHANGED respond_queue
      BY <1>2, <2>1, <2>3 DEF processResponse_write
    <3>2. (\A u \in Workers : u # w => wcall'[u] = wcall[u]) /\ wcall'[w] = NoCall
      BY <3>1, LoopsAttends
    <3>3. ASSUME NEW y \in Call
          PROVE  Stored(y)' + One(wcall'[w] = y) = Stored(y) + One(wcall[w] = y)
      <4>1. PICK p \in Nat : p = One(x = y)
        BY DEF One
      <4>2. One(x = y /\ pos[x] + n = ValueLen) = p
        BY <2>3, <4>1 DEF One
      <4>3. PICK m \in Nat, k \in Nat, e \in Nat : /\ m = Count(bq_call, y)
                                                   /\ k = Count(respond_queue[y[1]], y)
                                                   /\ e = Cardinality(FinalSegments(y))
        BY PlacesAre
      <4>4. Cardinality(FinalSegments(y)') = e + p
        BY <2>2, <4>2, <4>3
      <4>5. Stored(y)' = m + k + (e + p) /\ Stored(y) = m + k + e
        BY <3>1, <4>3, <4>4 DEF Stored
      <4>6. One(wcall'[w] = y) = 0 /\ One(wcall[w] = y) = p
        BY <2>1, <3>2, <4>1, NoCallIsNone DEF One
      <4>7. QED
        BY <4>5, <4>6
    <3>4. QED
      BY <3>2, <3>3, WorkerKeeps
  <2>4. CASE pos[x] + n # ValueLen
    <3>1. \A y \in Call : Cardinality(FinalSegments(y)') = Cardinality(FinalSegments(y))
      <4>1. \A y \in Call : One(x = y /\ pos[x] + n = ValueLen) = 0
        BY <2>4 DEF One
      <4>2. \A y \in Call : Cardinality(FinalSegments(y)) \in Nat
        BY PlacesAre
      <4>3. QED
        BY <2>2, <4>1, <4>2
    <3>2. CASE Len(respond_queue[d]) < max_respond_size
      <4>1. /\ respond_queue' = [respond_queue EXCEPT ![d] = Append(@, x)]
            /\ wcall' = [wcall EXCEPT ![w] = NoCall]
        BY <1>2, <2>1, <2>4, <3>2 DEF processResponse_write
      <4>2. QED
        BY <2>1, <3>1, <4>1, WorkerQueues
    <3>3. CASE ~(Len(respond_queue[d]) < max_respond_size)
      <4>1. (Loops(w) \/ UNCHANGED workVars) /\ UNCHANGED respond_queue
        BY <1>2, <2>1, <2>4, <3>3, FailsOrLoops DEF processResponse_write
      <4>2. got[x[1]] > max_respond_size
        BY <2>1, <3>3, Overfull
      <4>3. CASE Loops(w)
        BY <2>1, <3>1, <4>1, <4>2, <4>3, WorkerDrops
      <4>4. CASE UNCHANGED workVars
        BY <3>1, <4>1, <4>4, WorkerIdle DEF workVars
      <4>5. QED
        BY <4>1, <4>3, <4>4
    <3>4. QED
      BY <3>2, <3>3
  <2>5. QED
    BY <2>3, <2>4
<1>3. CASE processResponse_throws(w)
  <2>1. PICK x \in Call : x = wcall[w] /\ x[1] = wconn[w] /\ x[1] \in Conns
    BY <1>3 DEF processResponse_throws, WorkType, OwnConnection
  <2>2. peer[x[1]] \in Unreadable
    BY <1>3, <2>1 DEF processResponse_throws, ClosedForCause, Unreadable
  <2>3. /\ Loops(w) \/ UNCHANGED workVars
        /\ UNCHANGED <<respond_queue, out>>
    BY <1>3, FailsOrLoops DEF processResponse_throws
  <2>4. CASE Loops(w)
    BY <1>0, <2>1, <2>2, <2>3, <2>4, WorkerDrops
  <2>5. CASE UNCHANGED workVars
    BY <1>0, <2>3, <2>5, WorkerIdle DEF workVars
  <2>6. QED
    BY <2>3, <2>4, <2>5
<1>4. CASE processResponse_again(w)
  <2>1. /\ Loops(w) \/ UNCHANGED workVars
        /\ UNCHANGED <<respond_queue, out>> /\ wcall[w] = NoCall
    BY <1>4 DEF processResponse_again, NotifyResponder, CallHeld
  <2>2. QED
    BY <1>0, <2>1, WorkerIdle DEF workVars
<1>5. QED
  BY <1>1, <1>2, <1>3, <1>4 DEF ProcessResponse

(* Handlers.                                                               *)
LEMMA OnceHandler ==
    ASSUME TypeOK, TypeOK', AccountInv, [Next]_vars, NEW h \in Handlers, Handles(h)
    PROVE  EachOnce'
<1> USE DEF TypeOK, RespondType, AccountInv
<1>0. h \in Workers /\ UNCHANGED <<got, readerVars>>
  <2>1. UNCHANGED got
    BY WorkersFinite
    DEF Handles, HandlerThread, Handler_pop, Method_call, doRespond_push, doRespond_size,
        doRespond_notify, NotifyResponder, SameState, ProcessResponse, processResponse_pop,
        processResponse_write, processResponse_throws, processResponse_again
  <2>2. QED
    BY <2>1, WorkersFinite DEF Handles, listenVars
<1>a. ASSUME NEW x \in Call, UNCHANGED out
      PROVE  Cardinality(FinalSegments(x)') = Cardinality(FinalSegments(x))
  BY <1>a DEF FinalSegments
<1>1. CASE Handler_pop(h)
  <2>1. PICK q \in Seq(Call) : q = bq_call /\ q # <<>>
    BY <1>1 DEF Handler_pop, StateType, SharedType
  <2>2. PICK x \in Call : x = Head(q)
    BY <2>1
  <2>3. /\ bq_call' = Tail(q) /\ wcall' = [wcall EXCEPT ![h] = x]
        /\ UNCHANGED <<respond_queue, out>> /\ wcall[h] = NoCall
    BY <1>0, <1>1, <2>1, <2>2 DEF Handler_pop, CallHeld
  <2>4. (\A u \in Workers : u # h => wcall'[u] = wcall[u]) /\ wcall'[h] = x
    BY <1>0, <2>3 DEF WorkType
  <2>5. ASSUME NEW y \in Call
        PROVE  Stored(y)' + One(wcall'[h] = y) = Stored(y) + One(wcall[h] = y)
    <3>1. Count(q, y) = Count(Tail(q), y) + One(x = y)
      BY <2>1, <2>2, CountTail
    <3>2. PICK m \in Nat, n \in Nat, e \in Nat : /\ m = Count(bq_call', y)
                                                 /\ n = Count(respond_queue[y[1]], y)
                                                 /\ e = Cardinality(FinalSegments(y))
      BY PlacesAre, PlacesAddUpNext DEF PlacesAdd
    <3>3. PICK p \in Nat : p = One(x = y)
      BY DEF One
    <3>4. Count(respond_queue'[y[1]], y) = n /\ Cardinality(FinalSegments(y)') = e
      BY <1>a, <2>3, <3>2
    <3>5. Stored(y)' = m + n + e /\ Stored(y) = (m + p) + n + e
      BY <2>1, <2>3, <3>1, <3>2, <3>3, <3>4 DEF Stored
    <3>6. One(wcall'[h] = y) = p /\ One(wcall[h] = y) = 0
      BY <2>3, <2>4, <3>3, NoCallIsNone DEF One
    <3>7. QED
      BY <3>5, <3>6
  <2>6. QED
    BY <1>0, <2>4, <2>5, WorkerKeeps
<1>2. CASE Method_call(h) \/ doRespond_size(h)
  <2>1. UNCHANGED <<wcall, bq_call, respond_queue, out>>
    BY <1>2 DEF Method_call, doRespond_size, SameState
  <2>2. QED
    BY <1>0, <1>a, <2>1, WorkerIdle
<1>3. CASE doRespond_push(h)
  <2>1. PICK x \in Call : x = wcall[h]
    BY <1>0, <1>3 DEF doRespond_push, WorkType
  <2>2. PICK d \in Conns : d = x[1]
    BY DEF Call
  <2>3. UNCHANGED <<bq_call, out>>
    BY <1>3 DEF doRespond_push, SameState
  <2>4. CASE Len(respond_queue[d]) < max_respond_size
    <3>1. /\ respond_queue' = [respond_queue EXCEPT ![d] = Append(@, x)]
          /\ wcall' = [wcall EXCEPT ![h] = NoCall]
      BY <1>3, <2>1, <2>2, <2>4 DEF doRespond_push
    <3>2. QED
      BY <1>0, <1>a, <2>1, <2>2, <2>3, <3>1, WorkerQueues
  <2>5. CASE ~(Len(respond_queue[d]) < max_respond_size)
    <3>1. UNCHANGED <<respond_queue, wcall>>
      BY <1>3, <2>1, <2>2, <2>5 DEF doRespond_push, workVars
    <3>2. QED
      BY <1>0, <1>a, <2>3, <3>1, WorkerIdle
  <2>6. QED
    BY <2>4, <2>5
<1>4. CASE doRespond_notify(h)
  <2>1. /\ Loops(h) \/ UNCHANGED workVars
        /\ UNCHANGED <<bq_call, respond_queue, out>> /\ wcall[h] = NoCall
    BY <1>0, <1>4 DEF doRespond_notify, NotifyResponder, SameState, CallHeld
  <2>2. QED
    BY <1>0, <1>a, <2>1, WorkerIdle DEF workVars
<1>5. CASE ProcessResponse(h)
  <2>1. UNCHANGED bq_call
    BY <1>5 DEF ProcessResponse, processResponse_pop, processResponse_write,
       processResponse_throws, processResponse_again, NotifyResponder, SameState
  <2>2. QED
    BY <1>0, <1>5, <2>1, OnceProcess
<1>6. QED
  BY <1>1, <1>2, <1>3, <1>4, <1>5 DEF Handles, HandlerThread

(* The responder.                                                          *)
LEMMA OnceResponder ==
    ASSUME TypeOK, TypeOK', AccountInv, [Next]_vars, Responds
    PROVE  EachOnce'
<1> USE DEF AccountInv
<1>0. PICK w \in Workers : w = RespThread
  BY WorkersFinite
<1>1. UNCHANGED <<got, bq_call, readerVars>>
  <2>1. UNCHANGED <<got, bq_call>>
    BY DEF Responds, ResponderThread, Responder_pop, Responder_find, NotifyResponder,
       SameState, ProcessResponse, processResponse_pop, processResponse_write,
       processResponse_throws, processResponse_again
  <2>2. QED
    BY <2>1 DEF Responds, listenVars
<1>2. CASE Responder_pop \/ Responder_find
  <2>1. UNCHANGED <<wcall, respond_queue, out>>
    BY <1>2 DEF Responder_pop, Responder_find
  <2>2. \A x \in Call : Cardinality(FinalSegments(x)') = Cardinality(FinalSegments(x))
    BY <2>1 DEF FinalSegments
  <2>3. QED
    BY <1>0, <1>1, <2>1, <2>2, WorkerIdle
<1>3. CASE ProcessResponse(w)
  BY <1>1, <1>3, OnceProcess
<1>4. QED
  BY <1>0, <1>2, <1>3 DEF Responds, ResponderThread

(* Readers.                                                                *)
LEMMA OnceReader ==
    ASSUME TypeOK, TypeOK', EachOnce, [Next]_vars, NEW r \in Readers, Reads(r)
    PROVE  EachOnce'
<1> USE DEF TypeOK, ListenType, StateType
<1>0. UNCHANGED <<wcall, respond_queue, out, peer>>
  BY DEF Reads, respondVars, workVars, ReaderThread, Reader_pop, Call_read,
     Call_read_fails, close_connection, Reader_push, Reader_rearm, stateVars, peerVars
<1>1. CASE Call_read(r)
  <2>1. PICK d \in Conns : d = rconn[r] /\ rpc[r] = "read"
    BY <1>1 DEF Call_read, ReadType
  <2>2. PICK k \in 1 .. MaxCalls : k = got[d] + 1
    BY <1>1, <2>1, ServerStateAssumption DEF ServerStateAssumption, Call_read, PeerType
  <2>3. PICK x \in Call : x = <<d, k>>
    BY DEF Call
  <2>4. /\ got' = [got EXCEPT ![d] = k] /\ rid' = [rid EXCEPT ![r] = k]
        /\ rpc' = [rpc EXCEPT ![r] = "push"]
        /\ UNCHANGED <<bq_call, rconn>>
    BY <1>1, <2>1, <2>2 DEF Call_read
  <2>5. \A s \in Readers : s # r => /\ rpc'[s] = rpc[s] /\ rconn'[s] = rconn[s]
                                    /\ rid'[s] = rid[s]
    BY <2>4 DEF ReadType
  <2>6. ASSUME NEW y \in Call
        PROVE  Places(y) \in Nat /\ Places(y)' = Places(y) + One(x = y)
    <3>1. /\ Places(y) \in Nat /\ Places(y)' \in Nat
          /\ Places(y)' + Count(bq_call, y) + One(r \in Reading(y))
               = Places(y) + Count(bq_call', y) + One(r \in Reading(y)')
      BY <1>0, <2>5, ReaderPlaces
    <3>2. r \notin Reading(y) /\ (r \in Reading(y)' <=> x = y)
      BY <2>1, <2>3, <2>4 DEF Reading, ReadType
    <3>3. One(r \in Reading(y)) = 0 /\ One(r \in Reading(y)') = One(x = y)
      BY <3>2 DEF One
    <3>4. PICK m \in Nat : m = Count(bq_call, y) /\ Count(bq_call', y) = m
      BY <2>4, PlacesAre
    <3>5. PICK p \in Nat : p = One(x = y)
      BY DEF One
    <3>6. PICK a \in Nat, b \in Nat : a = Places(y) /\ b = Places(y)'
      BY <3>1
    <3>7. b + m + 0 = a + m + p
      BY <3>1, <3>3, <3>4, <3>5, <3>6
    <3>8. b = a + p
      BY <3>7
    <3>9. QED
      BY <3>5, <3>6, <3>8
  <2>7. ASSUME NEW y \in Call
        PROVE  IF y[2] <= got'[y[1]]
               THEN \/ Places(y)' = 1
                    \/ Places(y)' = 0 /\ (peer'[y[1]] \in Unreadable \/ got'[y[1]] > max_respond_size)
               ELSE Places(y)' = 0
    <3>0. y[1] \in Conns /\ y[2] \in 1 .. MaxCalls /\ y = <<y[1], y[2]>>
      BY DEF Call
    <3>1. IF y[2] <= got[y[1]]
          THEN \/ Places(y) = 1
               \/ Places(y) = 0 /\ (peer[y[1]] \in Unreadable \/ got[y[1]] > max_respond_size)
          ELSE Places(y) = 0
      BY DEF EachOnce
    <3>2. got'[y[1]] = IF y[1] = d THEN k ELSE got[y[1]]
      BY <2>4, <3>0 DEF PeerType
    <3>3. got[y[1]] \in Nat /\ max_respond_size \in Nat /\ k \in Nat /\ y[2] \in Nat
      BY <3>0, ServerStateAssumption, ResponderAssumption
      DEF ServerStateAssumption, ResponderAssumption, PeerType
    <3>4. CASE x = y
      <4>1. Places(y) = 0 /\ Places(y)' = 1 /\ y[2] <= got'[y[1]]
        BY <2>2, <2>3, <2>6, <3>1, <3>2, <3>3, <3>4 DEF One
      <4>2. QED
        BY <4>1
    <3>5. CASE x # y
      <4>1. Places(y)' = Places(y)
        BY <2>6, <3>5 DEF One
      <4>2. y[1] = d => y[2] # k
        BY <2>3, <3>0, <3>5
      <4>3. QED
        BY <1>0, <2>2, <3>1, <3>2, <3>3, <4>1, <4>2
    <3>6. QED
      BY <3>4, <3>5
  <2>8. QED
    BY <2>7 DEF EachOnce
<1>2. CASE Reader_push(r)
  <2>1. rconn[r] \in Conns /\ rid[r] \in 1 .. MaxCalls /\ rpc[r] = "push"
    BY <1>2, ServerStateAssumption DEF ServerStateAssumption, Reader_push, ReadType
  <2>2. PICK x \in Call : x = <<rconn[r], rid[r]>>
    BY <2>1 DEF Call
  <2>3. UNCHANGED <<rconn, rid, got>>
    BY <1>2 DEF Reader_push
  <2>4. \A s \in Readers : s # r => rpc'[s] = rpc[s]
    BY <1>2 DEF Reader_push, ReadType
  <2>5. ASSUME NEW y \in Call PROVE Places(y)' = Places(y)
    <3>1. /\ Places(y) \in Nat /\ Places(y)' \in Nat
          /\ Places(y)' + Count(bq_call, y) + One(r \in Reading(y))
               = Places(y) + Count(bq_call', y) + One(r \in Reading(y)')
      BY <1>0, <2>3, <2>4, ReaderPlaces
    <3>2. PICK p \in Nat : p = One(x = y)
      BY DEF One
    <3>3. One(r \in Reading(y)) = p
      BY <2>1, <2>2, <3>2 DEF One, Reading
    <3>4. PICK m \in Nat : m = Count(bq_call, y)
      BY PlacesAre
    <3>5. CASE Len(bq_call) < max_num_calls
      <4>1. bq_call' = Append(bq_call, x) /\ rpc' = [rpc EXCEPT ![r] = "rearm"]
        BY <1>2, <2>2, <3>5 DEF Reader_push
      <4>2. One(r \in Reading(y)') = 0
        BY <4>1 DEF One, Reading, ReadType
      <4>3. Count(bq_call', y) = m + p
        BY <3>2, <3>4, <4>1, CountAppend DEF SharedType
      <4>4. QED
        BY <3>1, <3>3, <3>4, <4>2, <4>3
    <3>6. CASE ~(Len(bq_call) < max_num_calls)
      <4>1. UNCHANGED <<bq_call, rpc>>
        BY <1>2, <3>6 DEF Reader_push
      <4>2. Count(bq_call', y) = m /\ One(r \in Reading(y)') = p
        BY <2>3, <3>3, <3>4, <4>1 DEF Reading
      <4>3. PICK a \in Nat, b \in Nat : a = Places(y) /\ b = Places(y)'
        BY <3>1
      <4>4. b + m + p = a + m + p
        BY <3>1, <3>3, <3>4, <4>2, <4>3
      <4>5. QED
        BY <4>3, <4>4
    <3>7. QED
      BY <3>5, <3>6
  <2>6. QED
    BY <2>3, <2>5, OnceKept
<1>3. CASE Reader_pop(r) \/ Call_read_fails(r) \/ close_connection(r) \/ Reader_rearm(r)
  <2>1. /\ \A s \in Readers : s # r => /\ rpc'[s] = rpc[s] /\ rconn'[s] = rconn[s]
                                       /\ rid'[s] = rid[s]
        /\ rpc[r] # "push" /\ rpc'[r] # "push"
        /\ UNCHANGED <<bq_call, got>>
    BY <1>3 DEF Reader_pop, Call_read_fails, close_connection, Reader_rearm, ReaderLoops,
       ReadType, stateVars
  <2>2. ASSUME NEW y \in Call PROVE Places(y)' = Places(y)
    <3>1. /\ Places(y) \in Nat /\ Places(y)' \in Nat
          /\ Places(y)' + Count(bq_call, y) + One(r \in Reading(y))
               = Places(y) + Count(bq_call', y) + One(r \in Reading(y)')
      BY <1>0, <2>1, ReaderPlaces
    <3>2. One(r \in Reading(y)) = 0 /\ One(r \in Reading(y)') = 0
      BY <2>1 DEF One, Reading
    <3>3. PICK m \in Nat : m = Count(bq_call, y) /\ Count(bq_call', y) = m
      BY <2>1, PlacesAre
    <3>4. QED
      BY <3>1, <3>2, <3>3
  <2>3. QED
    BY <2>1, <2>2, OnceKept
<1>4. QED
  BY <1>1, <1>2, <1>3 DEF Reads, ReaderThread

(* The clients, the listener and stop() move no call.                      *)
LEMMA OnceOthers ==
    ASSUME TypeOK, EachOnce, [Next]_vars,
           \/ \E c \in Conns : Client(c)
           \/ Listens \/ AcceptFails \/ Stops \/ UNCHANGED vars
    PROVE  EachOnce'
<1>1. UNCHANGED <<readerVars, got, bq_call, wcall, respond_queue, out>>
  <2>1. ASSUME NEW c \in Conns, Client(c)
        PROVE  UNCHANGED <<readerVars, got, bq_call, wcall, respond_queue, out>>
    BY <2>1 DEF Client, listenVars, respondVars, workVars
  <2>2. CASE Listens \/ AcceptFails
    BY <2>2 DEF Listens, AcceptFails, ListenerThread, handle_accept, handle_accept_error,
       handle_read, io_service_exit, addToReader, addToReader_full, stateVars,
       respondVars, workVars
  <2>3. CASE Stops
    BY <2>3 DEF Stops, MainThread, workVars
  <2>4. CASE UNCHANGED vars
    BY <2>4 DEF vars, stateVars, listenVars, respondVars, workVars
  <2>5. QED
    BY <2>1, <2>2, <2>3, <2>4
<1>2. \A x \in Call : Places(x)' = Places(x)
  BY <1>1 DEF Places, FinalSegments, readerVars
<1>3. QED
  BY <1>1, <1>2, OnceKept

(* Every step keeps the account.                                           *)
LEMMA AccountStep ==
    ASSUME TypeOK, TypeOK', AccountInv, [Next]_vars
    PROVE  AccountInv'
<1>1. EachOnce'
  BY OnceHandler, OnceResponder, OnceReader, OnceOthers DEF AccountInv, Next
<1>2. QED
  BY <1>1, HeldStep, ClosedStep DEF AccountInv

(* At the start there is no call.                                          *)
LEMMA AccountInit == Init => AccountInv
<1> SUFFICES ASSUME Init PROVE AccountInv
  OBVIOUS
<1>1. CallHeld /\ OwnConnection /\ ClosedForCause
  BY DEF Init, StateInit, ListenerInit, ResponderInit, CallHeld, OwnConnection, ClosedForCause
<1>2. ASSUME NEW x \in Call PROVE Places(x) = 0 /\ ~(x[2] <= got[x[1]])
  <2>1. x[1] \in Conns /\ x[2] \in 1 .. MaxCalls
    BY DEF Call
  <2>2. /\ \A r \in Readers : rpc[r] = "pop"
        /\ \A w \in Workers : wcall[w] = NoCall
        /\ bq_call = <<>> /\ respond_queue[x[1]] = <<>> /\ out[x[1]] = <<>> /\ got[x[1]] = 0
    BY <2>1 DEF Init, StateInit, ListenerInit, ResponderInit
  <2>3. /\ {r \in Readers : rpc[r] = "push" /\ <<rconn[r], rid[r]>> = x} = {}
        /\ {w \in Workers : wcall[w] = x} = {}
    BY <2>2, NoCallIsNone
  <2>4. /\ {i \in DOMAIN bq_call : bq_call[i] = x} = {}
        /\ {i \in DOMAIN respond_queue[x[1]] : respond_queue[x[1]][i] = x} = {}
        /\ FinalSegments(x) = {}
    BY <2>2 DEF FinalSegments
  <2>5. Places(x) = 0
    BY <2>3, <2>4, FS_EmptySet DEF Places
  <2>6. QED
    BY <2>1, <2>2, <2>5
<1>3. QED
  BY <1>1, <1>2 DEF AccountInv, EachOnce

(* The account holds in every reachable state.                             *)
LEMMA AccountAlways == Spec => []AccountInv
<1>1. TypeOK /\ TypeOK' /\ AccountInv /\ [Next]_vars => AccountInv'
  BY AccountStep
<1>2. QED
  BY <1>1, AccountInit, TypeCorrect, PTL DEF Spec

(* Between Call::read() and the last write_some, whichever threads pass it *)
(* on, a call is never duplicated, and never lost unless its client has    *)
(* gone, sent bytes that are no call, or its connection's respond_queue    *)
(* can have been full.                                                     *)
THEOREM NoCallLost == Spec => []CallsAccountedFor
<1>1. TypeOK /\ AccountInv => CallsAccountedFor
  <2> SUFFICES ASSUME TypeOK, EachOnce, NEW c \in Conns, NEW i \in 1 .. got[c]
               PROVE  \/ Places(<<c, i>>) = 1
                      \/ Places(<<c, i>>) = 0 /\ (peer[c] \in Unreadable \/ got[c] > max_respond_size)
    BY DEF AccountInv, CallsAccountedFor
  <2>1. i \in 1 .. MaxCalls /\ i <= got[c]
    BY ServerStateAssumption DEF ServerStateAssumption, TypeOK, StateType, PeerType
  <2>2. PICK x \in Call : x = <<c, i>>
    BY <2>1 DEF Call
  <2>3. x[1] = c /\ x[2] = i
    BY <2>2
  <2>4. QED
    BY <2>1, <2>2, <2>3 DEF EachOnce
<1>2. QED
  BY <1>1, AccountAlways, TypeCorrect, PTL

-----------------------------------------------------------------------------
(* Responses written in pieces.                                            *)

(* Where the pieces of x are in what was written to its connection.        *)
Pieces(x) == {i \in DOMAIN out[x[1]] : out[x[1]][i].call = x}

(* Call::_pos is where the last piece ended, until the answer is complete. *)
PosFollows ==
    \A x \in Call :
        \/ Pieces(x) = {} /\ pos[x] = 0
        \/ \E j \in Pieces(x) : /\ \A k \in Pieces(x) : k <= j
                                /\ out[x[1]][j].to = pos[x] \/ out[x[1]][j].to = ValueLen

(* Only Connection::processResponse writes to a socket or moves _pos.      *)
LEMMA OnlyWrites ==
    ASSUME [Next]_vars
    PROVE  \/ UNCHANGED <<out, pos>>
           \/ \E w \in Workers : \E n \in 1 .. ValueLen : processResponse_write(w, n)
<1>1. ASSUME NEW w \in Workers, ProcessResponse(w)
      PROVE  UNCHANGED <<out, pos>> \/ \E n \in 1 .. ValueLen : processResponse_write(w, n)
  BY <1>1 DEF ProcessResponse, processResponse_pop, processResponse_throws,
     processResponse_again, NotifyResponder
<1>2. ASSUME NEW h \in Handlers, Handles(h)
      PROVE  \/ UNCHANGED <<out, pos>>
             \/ \E w \in Workers : \E n \in 1 .. ValueLen : processResponse_write(w, n)
  <2>1. UNCHANGED <<out, pos>> \/ ProcessResponse(h)
    BY <1>2 DEF Handles, HandlerThread, Handler_pop, Method_call, doRespond_push,
       doRespond_size, doRespond_notify, NotifyResponder
  <2>2. QED
    BY <1>1, <2>1, WorkersFinite
<1>3. CASE Responds
  <2>1. UNCHANGED <<out, pos>> \/ ProcessResponse(RespThread)
    BY <1>3 DEF Responds, ResponderThread, Responder_pop, Responder_find
  <2>2. QED
    BY <1>1, <2>1, WorkersFinite
<1>4. QED
  BY <1>2, <1>3, OthersDoNotRespond

(* A write adds the next piece of its call and moves _pos to its end.      *)
LEMMA PieceWritten ==
    ASSUME TypeOK, TypeOK', AccountInv, PosFollows, ResponseIntact,
           NEW w \in Workers, NEW n \in 1 .. ValueLen, processResponse_write(w, n)
    PROVE  PosFollows' /\ ResponseIntact'
<1> USE DEF TypeOK, RespondType, AccountInv
<1>1. PICK d \in Conns, x \in Call, seg \in Segment :
         /\ wpc[w] = "write" /\ wconn[w] = d /\ wcall[w] = x /\ x[1] = d
         /\ seg = [call |-> x, from |-> pos[x], to |-> pos[x] + n]
         /\ pos[x] < pos[x] + n
         /\ out' = [out EXCEPT ![d] = Append(@, seg)]
  BY WriteSegment
<1>2. PICK s \in Seq(Segment) : s = out[d]
  BY DEF QueueType
<1>3. PICK l \in Nat : l = Len(s)
  BY <1>2
<1>4. /\ \A c \in Conns : c # d => out'[c] = out[c]
      /\ out'[d] = Append(s, seg)
  BY <1>1, <1>2 DEF QueueType
<1>5. PICK t : t = out'[d]
  OBVIOUS
<1>6. /\ DOMAIN s = 1 .. l /\ DOMAIN t = 1 .. l + 1 /\ t[l + 1] = seg
      /\ \A i \in 1 .. l : t[i] = s[i]
  BY <1>2, <1>3, <1>4, <1>5
<1>7. /\ \A y \in Call : y # x => pos'[y] = pos[y]
      /\ seg.to = ValueLen \/ pos'[x] = seg.to
  BY <1>1 DEF processResponse_write, QueueType
<1>8. /\ Pieces(x) = {i \in 1 .. l : s[i].call = x}
      /\ Pieces(x)' = Pieces(x) \cup {l + 1}
  <2>1. Pieces(x) = {i \in 1 .. l : s[i].call = x}
    BY <1>1, <1>2, <1>6 DEF Pieces
  <2>2. Pieces(x)' = {i \in 1 .. l + 1 : t[i].call = x}
    BY <1>1, <1>5, <1>6 DEF Pieces
  <2>3. seg.call = x
    BY <1>1
  <2>4. QED
    BY <1>6, <2>1, <2>2, <2>3
<1>9. \A j \in Pieces(x) : out[x[1]][j].to # ValueLen
  <2>1. FinalSegments(x) = {}
    BY <1>1, HeldNowhereElse
  <2>2. QED
    BY <2>1 DEF FinalSegments, Pieces
<1>10. \/ Pieces(x) = {} /\ seg.from = 0
       \/ \E j \in Pieces(x) : (\A k \in Pieces(x) : k <= j) /\ s[j].to = seg.from
  BY <1>1, <1>2, <1>9 DEF PosFollows
<1>11. PosFollows'
  <2> SUFFICES ASSUME NEW y \in Call
               PROVE  \/ Pieces(y)' = {} /\ pos'[y] = 0
                      \/ \E j \in Pieces(y)' :
                            /\ \A k \in Pieces(y)' : k <= j
                            /\ out'[y[1]][j].to = pos'[y] \/ out'[y[1]][j].to = ValueLen
    BY DEF PosFollows
  <2>1. CASE y = x
    <3>1. l + 1 \in Pieces(x)' /\ \A k \in Pieces(x)' : k <= l + 1
      BY <1>8
    <3>2. out'[x[1]][l + 1] = seg
      BY <1>1, <1>5, <1>6
    <3>3. QED
      BY <1>7, <2>1, <3>1, <3>2
  <2>2. CASE y # x
    <3>0. y[1] \in Conns
      BY DEF Call
    <3>1. \/ Pieces(y) = {} /\ pos[y] = 0
          \/ \E j \in Pieces(y) : /\ \A k \in Pieces(y) : k <= j
                                  /\ out[y[1]][j].to = pos[y] \/ out[y[1]][j].to = ValueLen
      BY DEF PosFollows
    <3>2. Pieces(y)' = Pieces(y) /\ \A j \in Pieces(y) : out'[y[1]][j] = out[y[1]][j]
      <4>1. CASE y[1] = d
        <5>1. seg.call # y
          BY <1>1, <2>2
        <5>2. /\ Pieces(y) = {i \in 1 .. l : s[i].call = y}
              /\ Pieces(y)' = {i \in 1 .. l + 1 : t[i].call = y}
          BY <1>2, <1>5, <1>6, <4>1 DEF Pieces
        <5>3. Pieces(y)' = Pieces(y)
          BY <1>6, <5>1, <5>2
        <5>4. QED
          BY <1>2, <1>5, <1>6, <4>1, <5>2, <5>3
      <4>2. CASE y[1] # d
        BY <1>4, <3>0, <4>2 DEF Pieces
      <4>3. QED
        BY <4>1, <4>2
    <3>3. pos'[y] = pos[y]
      BY <1>7, <2>2
    <3>4. QED
      BY <3>1, <3>2, <3>3
  <2>3. QED
    BY <2>1, <2>2
<1>12. ResponseIntact'
  <2> SUFFICES ASSUME NEW c \in Conns, NEW i \in DOMAIN out'[c]
               PROVE  /\ out'[c][i].call[1] = c
                      /\ out'[c][i].from < out'[c][i].to
                      /\ IF Before(c, i)' = {} THEN out'[c][i].from = 0
                         ELSE \E j \in Before(c, i)' : /\ out'[c][j].to = out'[c][i].from
                                                       /\ \A k \in Before(c, i)' : k <= j
    BY DEF ResponseIntact
  <2>1. CASE c # d
    <3>1. out'[c] = out[c] /\ i \in DOMAIN out[c] /\ Before(c, i)' = Before(c, i)
      BY <1>4, <2>1 DEF Before
    <3>2. QED
      BY <3>1 DEF ResponseIntact
  <2>2. CASE c = d /\ i # l + 1
    <3>1. i \in 1 .. l /\ i \in Nat
      BY <1>3, <1>5, <1>6, <2>2
    <3>2. out'[c][i] = out[c][i] /\ i \in DOMAIN out[c]
      BY <1>2, <1>5, <1>6, <2>2, <3>1
    <3>3. \A j \in 1 .. i - 1 : j \in 1 .. l /\ out'[c][j] = out[c][j]
      BY <1>2, <1>3, <1>5, <1>6, <2>2, <3>1
    <3>4. Before(c, i)' = Before(c, i) /\ \A j \in Before(c, i) : out'[c][j] = out[c][j]
      BY <3>2, <3>3 DEF Before
    <3>5. QED
      BY <3>2, <3>4 DEF ResponseIntact
  <2>3. CASE c = d /\ i = l + 1
    <3>1. out'[c][i] = seg /\ seg.call = x
      BY <1>1, <1>5, <1>6, <2>3
    <3>2. \A j \in 1 .. i - 1 : j \in 1 .. l /\ out'[c][j] = s[j]
      BY <1>3, <1>5, <1>6, <2>3
    <3>3. 1 .. i - 1 = 1 .. l
      BY <1>3, <2>3
    <3>4. Before(c, i)' = Pieces(x) /\ \A j \in Pieces(x) : out'[c][j] = s[j]
      BY <1>8, <3>1, <3>2, <3>3 DEF Before
    <3>5. out'[c][i].call[1] = c /\ out'[c][i].from < out'[c][i].to
      BY <1>1, <2>3, <3>1
    <3>6. QED
      BY <1>10, <3>1, <3>4, <3>5
  <2>4. QED
    BY <2>1, <2>2, <2>3
<1>13. QED
  BY <1>11, <1>12

(* Whichever thread continues a partly written response, write_some begins *)
(* where the last one on that call stopped, and on the call's own          *)
(* connection.                                                             *)
THEOREM ResponsesContinue == Spec => []ResponseIntact
<1> DEFINE P == PosFollows /\ ResponseIntact
<1>1. Init => P
  <2> SUFFICES ASSUME Init PROVE P
    OBVIOUS
  <2>1. (\A c \in Conns : out[c] = <<>>) /\ \A x \in Call : pos[x] = 0
    BY DEF Init, ResponderInit
  <2>2. \A x \in Call : Pieces(x) = {}
    <3>1. \A x \in Call : x[1] \in Conns
      BY DEF Call
    <3>2. QED
      BY <2>1, <3>1 DEF Pieces
  <2>3. PosFollows /\ ResponseIntact
    BY <2>1, <2>2 DEF PosFollows, ResponseIntact
  <2>4. QED
    BY <2>3
<1>2. TypeOK /\ TypeOK' /\ AccountInv /\ P /\ [Next]_vars => P'
  <2> SUFFICES ASSUME TypeOK, TypeOK', AccountInv, P, [Next]_vars PROVE P'
    OBVIOUS
  <2>1. CASE UNCHANGED <<out, pos>>
    BY <2>1 DEF PosFollows, ResponseIntact, Pieces, Before
  <2>2. QED
    BY <2>1, OnlyWrites, PieceWritten
<1>3. P => ResponseIntact
  OBVIOUS
<1> HIDE DEF P
<1>4. QED
  BY <1>1, <1>2, <1>3, TypeCorrect, AccountAlways, PTL DEF Spec
=============================================================================
