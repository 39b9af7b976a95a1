---------------------------- MODULE ServiceProofs ----------------------------
(***************************************************************************)
(* What the server is to its clients: it implements Service.tla, its       *)
(* aborts have the causes AbortsExplained names, and stop() loses few      *)
(* calls.  For any number of connections, calls, readers and handlers and  *)
(* any queue capacities.                                                   *)
(***************************************************************************)
EXTENDS AccountProofs

-----------------------------------------------------------------------------
(* The server implements Service.                                          *)

(* What the refinement mapping shows of the server, besides sent.          *)
Answers == [c \in Conns |-> AnsweredOn(c)]
Serving == [c \in Conns |-> Alive /\ sock_open[c]]

(* Answers are counted call by call.                                       *)
LEMMA AnswersSame ==
    ASSUME \A x \in Call : Cardinality(FinalSegments(x)') = Cardinality(FinalSegments(x))
    PROVE  Answers' = Answers
<1>1. ASSUME NEW c \in Conns, NEW j \in 1 .. MaxCalls
      PROVE  Cardinality(FinalSegments(<<c, j>>)') = Cardinality(FinalSegments(<<c, j>>))
  <2>1. <<c, j>> \in Call
    BY DEF Call
  <2>2. QED
    BY <2>1
<1>2. QED
  BY <1>1 DEF Answers, AnsweredOn

(* Only a client's last byte counts a call as sent, no socket is opened    *)
(* again and no process comes back.                                        *)
LEMMA ServingEnds ==
    ASSUME TypeOK, [Next]_vars
    PROVE  /\ \A c \in Conns : (Alive /\ sock_open[c])' => Alive /\ sock_open[c]
           /\ \/ UNCHANGED sent
              \/ \E c \in Conns : /\ sent' = [sent EXCEPT ![c] = @ + 1]
                                  /\ UNCHANGED <<out, sock_open, fate>>
<1>1. ASSUME NEW r \in Readers, Reads(r)
      PROVE  UNCHANGED sent /\ \A c \in Conns : sock_open'[c] => sock_open[c]
  <2>1. UNCHANGED sent /\ (UNCHANGED sock_open \/ close_connection(r))
    BY <1>1 DEF Reads, ReaderThread, Reader_pop, Call_read, Call_read_fails,
       close_connection, Reader_push, Reader_rearm, stateVars, peerVars
  <2>2. CASE close_connection(r)
    <3>1. PICK d \in Conns : d = rconn[r]
      BY <2>2 DEF close_connection, TypeOK, ListenType, ReadType
    <3>2. sock_open' = [sock_open EXCEPT ![d] = FALSE]
      BY <2>2, <3>1 DEF close_connection
    <3>3. QED
      BY <2>1, <3>2 DEF TypeOK, StateType, SharedType
  <2>3. QED
    BY <2>1, <2>2
<1>2. \A c \in Conns : sock_open'[c] => sock_open[c]
  BY <1>1, OthersDoNotRead
<1>3. Alive' => Alive
  BY DEF Next, Listens, AcceptFails, Reads, Handles, Responds, Stops, vars, stateVars,
     fate, Alive
<1>4. ASSUME NEW c \in Conns, Client(c)
      PROVE  \/ UNCHANGED sent
             \/ sent' = [sent EXCEPT ![c] = @ + 1] /\ UNCHANGED <<out, sock_open, fate>>
  BY <1>4 DEF Client, ClientConnect, ClientSends, ClientFinishes, ClientGarbles,
     ClientCloses, respondVars
<1>5. ASSUME Listens \/ AcceptFails PROVE UNCHANGED sent
  BY <1>5 DEF Listens, AcceptFails, ListenerThread, handle_accept, handle_accept_error,
     handle_read, io_service_exit, addToReader, addToReader_full, stateVars, peerVars
<1>6. ASSUME NEW w \in Workers, ProcessResponse(w) PROVE UNCHANGED sent
  BY <1>6 DEF ProcessResponse, processResponse_pop, processResponse_write,
     processResponse_throws, processResponse_again, NotifyResponder, SameState, peerVars
<1>7. ASSUME NEW h \in Handlers, Handles(h) PROVE UNCHANGED sent
  BY <1>6, <1>7, WorkersFinite DEF Handles, HandlerThread, Handler_pop, Method_call,
     doRespond_push, doRespond_size, doRespond_notify, NotifyResponder, SameState, peerVars
<1>8. ASSUME Responds PROVE UNCHANGED sent
  BY <1>6, <1>8, WorkersFinite DEF Responds, ResponderThread, Responder_pop,
     Responder_find, SameState, peerVars
<1>9. ASSUME Stops PROVE UNCHANGED sent
  BY <1>9 DEF Stops, MainThread, peerVars
<1>10. ASSUME UNCHANGED vars PROVE UNCHANGED sent
  BY <1>10 DEF vars, stateVars, peerVars
<1>11. \/ UNCHANGED sent
       \/ \E c \in Conns : sent' = [sent EXCEPT ![c] = @ + 1] /\ UNCHANGED <<out, sock_open, fate>>
  BY <1>1, <1>4, <1>5, <1>7, <1>8, <1>9, <1>10 DEF Next
<1>12. QED
  BY <1>2, <1>3, <1>11

(* A step that answers nothing and counts nothing may only stop serving.   *)
LEMMA LeavesOnly ==
    ASSUME TypeOK, [Next]_vars, UNCHANGED sent, Answers' = Answers
    PROVE  Promise!Next
<1> DEFINE C == {c \in Conns : ~(Alive /\ sock_open[c])'}
<1>0. PICK D \in SUBSET Conns : D = C
  OBVIOUS
<1>1. ASSUME NEW c \in Conns
      PROVE  (Alive /\ sock_open[c])' = (Serving[c] /\ c \notin D)
  <2>1. (Alive /\ sock_open[c])' => Alive /\ sock_open[c]
    BY ServingEnds
  <2>2. Serving[c] = (Alive /\ sock_open[c])
    BY DEF Serving
  <2>3. c \notin D <=> (Alive /\ sock_open[c])'
    BY <1>0
  <2>4. QED
    BY <2>1, <2>2, <2>3, Zenon
<1>2. Serving' = [c \in Conns |-> Serving[c] /\ c \notin D]
  BY <1>1, Zenon DEF Serving
<1>3. Promise!Leave(D)
  BY <1>2, Zenon DEF Promise!Leave, Serving, Answers
<1>4. QED
  BY <1>3 DEF Promise!Next

(* Each step of the server is a step of Service.                           *)
LEMMA ServiceStep ==
    ASSUME TypeOK, TypeOK', AccountInv, [Next]_vars
    PROVE  Promise!Next
<1>1. ASSUME NEW c \in Conns, sent' = [sent EXCEPT ![c] = @ + 1],
             UNCHANGED <<out, sock_open, fate>>
      PROVE  Promise!Next
  <2>1. Answers' = Answers
    BY <1>1, AnswersSame DEF FinalSegments
  <2>2. Serving' = Serving
    BY <1>1 DEF Serving, Alive, fate
  <2>3. Promise!Ask(c)
    BY <1>1, <2>1, <2>2 DEF Promise!Ask, Answers, Serving
  <2>4. QED
    BY <2>3 DEF Promise!Next
<1>2. ASSUME UNCHANGED sent, NEW w \in Workers, NEW n \in 1 .. ValueLen,
             processResponse_write(w, n)
      PROVE  Promise!Next
  <2>1. PICK d \in Conns, x \in Call, seg \in Segment :
           /\ wcall[w] = x /\ x[1] = d /\ sock_open[d]
           /\ seg = [call |-> x, from |-> pos[x], to |-> pos[x] + n]
           /\ out' = [out EXCEPT ![d] = Append(@, seg)]
    BY <1>2, WriteSegment DEF AccountInv
  <2>a. /\ seg.call = x /\ seg.to = pos[x] + n /\ seg.call[1] = d
        /\ out' = [out EXCEPT ![d] = Append(@, seg)]
    BY <2>1
  <2>2. \A y \in Call : Cardinality(FinalSegments(y)')
                         = Cardinality(FinalSegments(y)) + One(x = y /\ pos[x] + n = ValueLen)
    <3> SUFFICES ASSUME NEW y \in Call
                 PROVE  Cardinality(FinalSegments(y)')
                         = Cardinality(FinalSegments(y)) + One(x = y /\ pos[x] + n = ValueLen)
      OBVIOUS
    <3>1. Cardinality(FinalSegments(y)')
            = Cardinality(FinalSegments(y)) + One(seg.call = y /\ seg.to = ValueLen)
      BY <2>a, FinalAppend
    <3>2. QED
      BY <2>a, <3>1
  <2>3. \A y \in Call : Cardinality(FinalSegments(y)) \in Nat
    BY PlacesAre
  <2>4. CASE pos[x] + n # ValueLen
    <3>1. \A y \in Call : One(x = y /\ pos[x] + n = ValueLen) = 0
      BY <2>4 DEF One
    <3>2. Answers' = Answers
      BY <2>2, <2>3, <3>1, AnswersSame
    <3>3. QED
      BY <1>2, <3>2, LeavesOnly
  <2>5. CASE pos[x] + n = ValueLen
    <3>1. PICK k \in 1 .. MaxCalls : k = x[2] /\ x = <<d, k>>
      BY <2>1 DEF Call
    <3>2. FinalSegments(x) = {} /\ k <= got[d]
      BY <2>1, <3>1, HeldNowhereElse DEF AccountInv
    <3>3. k \in 1 .. sent[d]
      BY <3>1, <3>2, ServerStateAssumption
      DEF ServerStateAssumption, TypeOK, StateType, PeerType
    <3>4. \A y \in Call : Cardinality(FinalSegments(y)')
                           = IF x = y THEN 1 ELSE Cardinality(FinalSegments(y))
      BY <2>2, <2>3, <2>5, <3>2, FS_EmptySet DEF One
    <3>5. Answers[d][k] = 0
      BY <3>1, <3>2, FS_EmptySet DEF Answers, AnsweredOn
    <3>6. Answers' = [Answers EXCEPT ![d][k] = 1]
      <4>1. ASSUME NEW c \in Conns, NEW j \in 1 .. MaxCalls
            PROVE  AnsweredOn(c)'[j] = IF c = d /\ j = k THEN 1 ELSE AnsweredOn(c)[j]
        <5>1. PICK y \in Call : y = <<c, j>>
          BY DEF Call
        <5>2. AnsweredOn(c)'[j] = Cardinality(FinalSegments(y)')
              /\ AnsweredOn(c)[j] = Cardinality(FinalSegments(y))
          BY <5>1 DEF AnsweredOn
        <5>3. x = y <=> c = d /\ j = k
          BY <3>1, <5>1
        <5>4. QED
          BY <3>4, <5>2, <5>3
      <4>2. ASSUME NEW c \in Conns
            PROVE  AnsweredOn(c)' = IF c = d THEN [AnsweredOn(d) EXCEPT ![k] = 1] ELSE AnsweredOn(c)
        <5>1. CASE c = d
          BY <4>1, <5>1 DEF AnsweredOn
        <5>2. CASE c # d
          BY <4>1, <5>2 DEF AnsweredOn
        <5>3. QED
          BY <5>1, <5>2
      <4>3. QED
        BY <4>2 DEF Answers
    <3>7. /\ UNCHANGED <<sock_open, stopping, aborted>>
          /\ Alive
      <4>1. UNCHANGED <<sock_open, stopping, aborted>>
        BY <1>2, <2>1, <2>5 DEF processResponse_write, SameState
      <4>2. wpc[w] = "write" /\ out' # out
        BY <1>2, <2>1 DEF processResponse_write, TypeOK, RespondType, QueueType
      <4>3. QED
        BY <4>1, <4>2 DEF Next, Listens, AcceptFails, Reads, Handles, Responds, Stops, vars,
           respondVars
    <3>8. Serving' = Serving /\ Serving[d]
      BY <2>1, <3>7 DEF Serving, Alive
    <3>9. Promise!Answer(d, k)
      BY <1>2, <3>1, <3>3, <3>5, <3>6, <3>8 DEF Promise!Answer, Answers, Serving
    <3>10. QED
      BY <3>1, <3>9 DEF Promise!Next
  <2>6. QED
    BY <2>4, <2>5
<1>3. CASE UNCHANGED sent /\ UNCHANGED <<out, pos>>
  <2>1. Answers' = Answers
    BY <1>3, AnswersSame DEF FinalSegments
  <2>2. QED
    BY <1>3, <2>1, LeavesOnly
<1>4. QED
  BY <1>1, <1>2, <1>3, ServingEnds, OnlyWrites

(* Whatever the readers, the handlers, the responder and stop() do with a  *)
(* call, its client sees a Service: an answer only to a call it has sent   *)
(* whole, never a second one, and none once the socket is closed.          *)
THEOREM ImplementsService == Spec => RefinesService
<1>1. Init => Promise!Init
  <2> SUFFICES ASSUME Init PROVE Promise!Init
    OBVIOUS
  <2>1. /\ sent = [c \in Conns |-> 0]
        /\ \A c \in Conns : out[c] = <<>>
        /\ \A c \in Conns : sock_open[c] = TRUE
        /\ Alive
    BY DEF Init, StateInit, ResponderInit, Alive
  <2>2. \A c \in Conns, j \in 1 .. MaxCalls : Cardinality(FinalSegments(<<c, j>>)) = 0
    <3>1. \A c \in Conns, j \in 1 .. MaxCalls : FinalSegments(<<c, j>>) = {}
      BY <2>1 DEF FinalSegments
    <3>2. QED
      BY <3>1, FS_EmptySet
  <2>3. Answers = [c \in Conns |-> [j \in 1 .. MaxCalls |-> 0]]
    BY <2>2 DEF Answers, AnsweredOn
  <2>4. Serving = [c \in Conns |-> TRUE]
    BY <2>1, Zenon DEF Serving
  <2>5. QED
    BY <2>1, <2>3, <2>4 DEF Promise!Init, Answers, Serving
<1>2. TypeOK /\ TypeOK' /\ AccountInv /\ [Next]_vars => Promise!Next
  BY ServiceStep
<1>3. QED
  BY <1>1, <1>2, TypeCorrect, AccountAlways, PTL DEF Spec, RefinesService, Promise!Spec

-----------------------------------------------------------------------------
(* What was read was accepted and registered.                              *)

(* Calls come from accepted sockets, and these stay in _connections until  *)
(* the client has gone or sent bytes that are no call.                     *)
ReadFrom ==
    /\ IsFiniteSet(accepted)
    /\ \A c \in Conns : got[c] > 0 =>
          c \in accepted /\ (c \in connections \/ peer[c] \in Unreadable)

(* Every step keeps it.                                                    *)
LEMMA ReadFromStep ==
    ASSUME TypeOK, SocketsOwned, ClosedForCause, ReadFrom, [Next]_vars
    PROVE  ReadFrom'
<1> USE DEF TypeOK, StateType, ListenType
<1>1. ASSUME NEW r \in Readers, Reads(r) PROVE ReadFrom'
  <2>0. UNCHANGED <<accepted, peer>>
    BY <1>1 DEF Reads, ReaderThread, Reader_pop, Call_read, Call_read_fails,
       close_connection, Reader_push, Reader_rearm, stateVars, peerVars, ioVars
  <2>1. CASE Call_read(r)
    <3>1. PICK d \in Conns : d = rconn[r]
      BY <2>1 DEF Call_read, ReadType
    <3>2. d \in accepted /\ d \in connections
      BY <3>1 DEF SocketsOwned, Registered, InReader
    <3>3. UNCHANGED connections /\ \A c \in Conns : c # d => got'[c] = got[c]
      BY <2>1, <3>1 DEF Call_read, registry, PeerType
    <3>4. QED
      BY <2>0, <3>2, <3>3 DEF ReadFrom
  <2>2. CASE close_connection(r)
    <3>1. PICK d \in Conns : d = rconn[r] /\ rpc[r] = "close"
      BY <2>2 DEF close_connection, ReadType
    <3>2. peer[d] \in Unreadable /\ connections' = connections \ {d} /\ UNCHANGED got
      BY <2>2, <3>1 DEF close_connection, ClosedForCause
    <3>3. QED
      BY <2>0, <3>2 DEF ReadFrom
  <2>3. CASE UNCHANGED <<connections, got>>
    BY <2>0, <2>3 DEF ReadFrom
  <2>4. QED
    BY <1>1, <2>1, <2>2, <2>3 DEF Reads, ReaderThread, Reader_pop, Call_read_fails,
       Reader_push, Reader_rearm, stateVars, registry
<1>2. CASE Listens
  <2>1. UNCHANGED <<got, peer>>
    BY <1>2 DEF Listens, ListenerThread, handle_accept, handle_read, io_service_exit,
       addToReader, addToReader_full, stateVars, peerVars
  <2>2. \/ UNCHANGED <<accepted, connections>>
        \/ \E c \in Conns : accepted' = accepted \cup {c} /\ UNCHANGED connections
        \/ \E c \in Conns : connections' = connections \cup {c} /\ UNCHANGED accepted
    BY <1>2 DEF Listens, ListenerThread, handle_accept, handle_read, io_service_exit,
       addToReader, addToReader_full, stateVars, registry, ioVars
  <2>3. IsFiniteSet(accepted')
    BY <2>2, FS_AddElement DEF ReadFrom
  <2>4. accepted \subseteq accepted' /\ connections \subseteq connections'
    BY <2>2
  <2>5. QED
    BY <2>1, <2>3, <2>4 DEF ReadFrom
<1>3. CASE UNCHANGED got /\ UNCHANGED ownVars
  <2>1. UNCHANGED <<accepted, connections, got>>
    BY <1>3 DEF ownVars
  <2>2. \A c \in Conns : peer[c] \in Unreadable => peer'[c] \in Unreadable
    BY OthersDoNotRead
  <2>3. QED
    BY <2>1, <2>2 DEF ReadFrom
<1>4. \/ \E r \in Readers : Reads(r)
      \/ Listens
      \/ UNCHANGED ownVars
  BY OthersDoNotOwn DEF Next
<1>5. QED
  BY <1>1, <1>2, <1>3, <1>4, OthersDoNotRead

(* The calls read and not answered are finitely many.                      *)
LEMMA UnansweredFinite ==
    ASSUME TypeOK, ReadFrom
    PROVE  IsFiniteSet(AllUnanswered)
<1>1. IsFiniteSet(1 .. MaxCalls)
  BY ServerStateAssumption, FS_Interval DEF ServerStateAssumption
<1>2. IsFiniteSet(accepted \X (1 .. MaxCalls))
  BY <1>1, FS_Product DEF ReadFrom
<1>3. ASSUME NEW x \in AllUnanswered PROVE x \in accepted \X (1 .. MaxCalls)
  <2>1. x \in Call /\ x[1] \in Conns /\ x[2] \in 1 .. got[x[1]]
    BY DEF AllUnanswered, Unanswered, Call
  <2>2. got[x[1]] > 0
    BY <2>1 DEF TypeOK, StateType, PeerType
  <2>3. x[1] \in accepted
    BY <2>1, <2>2 DEF ReadFrom
  <2>4. QED
    BY <2>1, <2>3 DEF Call
<1>4. AllUnanswered \in SUBSET (accepted \X (1 .. MaxCalls))
  BY <1>3
<1>5. QED
  BY <1>2, <1>4, FS_Subset

(* A call in some place, and not answered, is among them.                  *)
LEMMA PlacedUnanswered ==
    ASSUME TypeOK, EachOnce, NEW x \in Call, Places(x) # 0, FinalSegments(x) = {}
    PROVE  x \in AllUnanswered
<1>1. x[1] \in Conns /\ x[2] \in 1 .. MaxCalls /\ x = <<x[1], x[2]>>
  BY DEF Call
<1>2. x[2] <= got[x[1]]
  BY OncePlaced
<1>3. x[2] \in 1 .. got[x[1]]
  BY <1>1, <1>2, ServerStateAssumption DEF ServerStateAssumption, TypeOK, StateType, PeerType
<1>4. ~Answered(<<x[1], x[2]>>)
  BY <1>1 DEF Answered
<1>5. QED
  BY <1>3, <1>4 DEF AllUnanswered, Unanswered

-----------------------------------------------------------------------------
(* Full queues.                                                            *)

(* _bq_call holds different calls, and not the one a reader wants to push. *)
LEMMA CallQueueFull ==
    ASSUME TypeOK, EachOnce, ReadFrom, NEW r \in Readers, rpc[r] = "push",
           ~(Len(bq_call) < max_num_calls)
    PROVE  Cardinality(AllUnanswered) > max_num_calls
<1>1. PICK q \in Seq(Call) : q = bq_call
  BY DEF TypeOK, StateType, SharedType
<1>2. Len(q) = max_num_calls
  BY <1>1, ServerStateAssumption DEF ServerStateAssumption, TypeOK, StateType, SharedType
<1>3. rconn[r] \in Conns /\ rid[r] \in 1 .. MaxCalls
  BY ServerStateAssumption DEF ServerStateAssumption, TypeOK, ListenType, ReadType
<1>4. PICK e \in Call : e = <<rconn[r], rid[r]>>
  BY <1>3 DEF Call
<1>5. ASSUME NEW x \in Call
      PROVE  /\ Places(x) = Cardinality(Reading(x)) + Cardinality(Working(x)) + Stored(x)
             /\ IsFiniteSet(Reading(x)) /\ IsFiniteSet(FinalSegments(x))
             /\ Cardinality(Reading(x)) \in Nat /\ Cardinality(Working(x)) \in Nat
             /\ Cardinality(FinalSegments(x)) \in Nat
             /\ Count(q, x) \in Nat /\ Count(respond_queue[x[1]], x) \in Nat
             /\ Stored(x) = Count(q, x) + Count(respond_queue[x[1]], x)
                              + Cardinality(FinalSegments(x))
             /\ Places(x) \in {0, 1}
  BY <1>1, PlacesAre, OncePlaced DEF Stored
<1>6. ASSUME NEW i \in DOMAIN q PROVE q[i] \in AllUnanswered /\ Count(q, q[i]) <= 1
  <2>1. PICK x \in Call : x = q[i]
    OBVIOUS
  <2>2. Count(q, x) # 0
    BY <2>1, CountType
  <2>a. PICK a \in Nat, b \in Nat, f \in Nat, m \in Nat, n \in Nat :
           /\ a = Cardinality(Reading(x)) /\ b = Cardinality(Working(x))
           /\ f = Cardinality(FinalSegments(x))
           /\ m = Count(q, x) /\ n = Count(respond_queue[x[1]], x)
    BY <1>5
  <2>b. Places(x) = a + b + (m + n + f) /\ a + b + (m + n + f) \in {0, 1} /\ m # 0
    BY <1>5, <2>2, <2>a
  <2>c. m = 1 /\ f = 0 /\ a + b + (m + n + f) = 1
    BY <2>b
  <2>3. Count(q, x) = 1 /\ Cardinality(FinalSegments(x)) = 0 /\ Places(x) = 1
    BY <2>a, <2>b, <2>c
  <2>4. FinalSegments(x) = {}
    BY <1>5, <2>3, FS_EmptySet
  <2>5. x \in AllUnanswered
    BY <2>3, <2>4, PlacedUnanswered
  <2>6. QED
    BY <2>1, <2>3, <2>5
<1>7. e \in AllUnanswered /\ Count(q, e) = 0
  <2>1. r \in Reading(e)
    BY <1>4 DEF Reading
  <2>2. Cardinality(Reading(e)) # 0
    BY <1>5, <2>1, FS_EmptySet
  <2>a. PICK a \in Nat, b \in Nat, f \in Nat, m \in Nat, n \in Nat :
           /\ a = Cardinality(Reading(e)) /\ b = Cardinality(Working(e))
           /\ f = Cardinality(FinalSegments(e))
           /\ m = Count(q, e) /\ n = Count(respond_queue[e[1]], e)
    BY <1>5
  <2>b. Places(e) = a + b + (m + n + f) /\ a + b + (m + n + f) \in {0, 1} /\ a # 0
    BY <1>5, <2>2, <2>a
  <2>c. m = 0 /\ f = 0 /\ a + b + (m + n + f) = 1
    BY <2>b
  <2>3. Count(q, e) = 0 /\ Cardinality(FinalSegments(e)) = 0 /\ Places(e) = 1
    BY <2>a, <2>b, <2>c
  <2>4. FinalSegments(e) = {}
    BY <1>5, <2>3, FS_EmptySet
  <2>5. QED
    BY <2>3, <2>4, PlacedUnanswered
<1>8. \A i, j \in DOMAIN q : q[i] = q[j] => i = j
  BY <1>6, CountOnce
<1>9. \A i \in DOMAIN q : q[i] # e
  BY <1>7, CountType
<1>10. q \in Seq(AllUnanswered)
  <2>1. q \in [1 .. Len(q) -> Call] /\ Len(q) \in Nat /\ DOMAIN q = 1 .. Len(q)
    OBVIOUS
  <2>2. q \in [1 .. Len(q) -> AllUnanswered]
    BY <1>6, <2>1
  <2>3. QED
    BY <2>1, <2>2
<1>11. Cardinality(AllUnanswered) > Len(q)
  BY <1>7, <1>8, <1>9, <1>10, OneMore, UnansweredFinite
<1>12. QED
  BY <1>2, <1>11

(* The how manieth of its kind s[i] is.                                    *)
UpTo(s, i) == {k \in 1 .. i : s[k] = s[i]}
Rank(s, i) == Cardinality(UpTo(s, i))

(* Ranks count from 1 to the number of the kind, and tell places apart.    *)
LEMMA Ranks ==
    ASSUME NEW S, NEW s \in Seq(S), NEW i \in DOMAIN s
    PROVE  /\ Rank(s, i) \in 1 .. Count(s, s[i])
           /\ \A j \in DOMAIN s : s[j] = s[i] /\ Rank(s, j) = Rank(s, i) => j = i
<1>1. DOMAIN s = 1 .. Len(s) /\ Len(s) \in Nat /\ i \in Nat
  OBVIOUS
<1>2. ASSUME NEW j \in DOMAIN s
      PROVE  IsFiniteSet(UpTo(s, j)) /\ j \in UpTo(s, j) /\ Rank(s, j) \in Nat
             /\ j \in Nat /\ j >= 1
  <2>1. j \in Int /\ 1 \in Int /\ j >= 1
    BY <1>1
  <2>2. IsFiniteSet(1 .. j) /\ UpTo(s, j) \in SUBSET (1 .. j)
    BY <2>1, FS_Interval DEF UpTo
  <2>3. IsFiniteSet(UpTo(s, j))
    BY <2>2, FS_Subset
  <2>4. QED
    BY <1>1, <2>1, <2>3, FS_CardinalityType DEF UpTo, Rank
<1>3. Rank(s, i) # 0
  BY <1>2, FS_EmptySet DEF Rank
<1>4. UpTo(s, i) \in SUBSET At(s, s[i])
  BY <1>1 DEF UpTo, At
<1>5. IsFiniteSet(At(s, s[i])) /\ Count(s, s[i]) \in Nat
  BY CountType
<1>6. Rank(s, i) <= Count(s, s[i])
  BY <1>4, <1>5, FS_Subset DEF Rank, Count
<1>7. ASSUME NEW j \in DOMAIN s, NEW k \in DOMAIN s, s[j] = s[k], j < k
      PROVE  Rank(s, j) # Rank(s, k)
  <2>1. UpTo(s, j) \in SUBSET UpTo(s, k) /\ k \notin UpTo(s, j)
    BY <1>2, <1>7 DEF UpTo
  <2>2. k \in UpTo(s, k) /\ IsFiniteSet(UpTo(s, k))
    BY <1>2
  <2>3. QED
    BY <2>1, <2>2, FS_Subset DEF Rank
<1>8. ASSUME NEW j \in DOMAIN s, s[j] = s[i], Rank(s, j) = Rank(s, i) PROVE j = i
  <2>1. j \in Nat /\ i \in Nat
    BY <1>2
  <2>2. ~(j < i) /\ ~(i < j)
    BY <1>7, <1>8
  <2>3. QED
    BY <2>1, <2>2
<1>9. Rank(s, i) \in 1 .. Count(s, s[i])
  BY <1>2, <1>3, <1>5, <1>6
<1>10. QED
  BY <1>8, <1>9

(* Each visit in _bq_respond stands for a result of its own, and so does   *)
(* the one that finds no room there.                                       *)
LEMMA RespondQueueFull ==
    ASSUME TypeOK, RespondBalance, OwnConnection, EachOnce, ReadFrom,
           NEW w \in Workers, wpc[w] \in {"notify", "again"},
           ~(Len(bq_respond) < max_repsond_size)
    PROVE  Cardinality(AllUnanswered) > max_repsond_size
<1>1. PICK d \in Conns : d = wconn[w]
  BY DEF TypeOK, RespondType, WorkType
<1>2. PICK b \in Seq(Conns) : b = bq_respond
  BY DEF TypeOK, RespondType, QueueType
<1>3. Len(b) = max_repsond_size
  BY <1>2, ResponderAssumption DEF ResponderAssumption, TypeOK, RespondType, QueueType
<1>4. ASSUME NEW c \in Conns
      PROVE  /\ respond_queue[c] \in Seq(Call) /\ Len(respond_queue[c]) \in Nat
             /\ Count(b, c) \in Nat
             /\ Len(respond_queue[c]) >= Count(b, c)
             /\ c = d => Len(respond_queue[c]) > Count(b, c)
  <2>1. respond_queue[c] \in Seq(Call) /\ Len(respond_queue[c]) \in Nat
    BY DEF TypeOK, RespondType, QueueType
  <2>2. Attending(c) \in SUBSET Workers
    BY DEF Attending
  <2>3. IsFiniteSet(Attending(c)) /\ Cardinality(Attending(c)) \in Nat
    BY <2>2, WorkersFinite, FS_Subset, FS_CardinalityType
  <2>4. c = d => Attending(c) # {}
    BY <1>1 DEF Attending
  <2>5. c = d => Cardinality(Attending(c)) # 0
    BY <2>3, <2>4, FS_EmptySet
  <2>6. Count(b, c) \in Nat
    BY CountType
  <2>7. Len(respond_queue[c]) = Count(b, c) + Cardinality(Attending(c))
    BY <1>2 DEF RespondBalance, OnRespond, Count, At
  <2>8. QED
    BY <2>1, <2>3, <2>5, <2>6, <2>7
<1>5. ASSUME NEW c \in Conns, NEW k \in 1 .. Len(respond_queue[c])
      PROVE  respond_queue[c][k] \in AllUnanswered /\ respond_queue[c][k][1] = c
  <2>1. k \in DOMAIN respond_queue[c]
    BY <1>4
  <2>2. PICK x \in Call : /\ x = respond_queue[c][k] /\ x[1] = c /\ x[2] \in 1 .. got[c]
                          /\ FinalSegments(x) = {}
    BY <2>1, QueuedOnce
  <2>3. x = <<c, x[2]>>
    BY <2>2 DEF Call
  <2>4. ~Answered(<<c, x[2]>>)
    BY <2>2, <2>3 DEF Answered
  <2>5. QED
    BY <2>2, <2>4 DEF AllUnanswered, Unanswered
<1>6. \A c \in Conns : \A k, m \in 1 .. Len(respond_queue[c]) :
         respond_queue[c][k] = respond_queue[c][m] => k = m
  <2> SUFFICES ASSUME NEW c \in Conns, NEW k \in 1 .. Len(respond_queue[c]),
                      NEW m \in 1 .. Len(respond_queue[c]),
                      respond_queue[c][k] = respond_queue[c][m]
               PROVE  k = m
    OBVIOUS
  <2>1. k \in DOMAIN respond_queue[c] /\ m \in DOMAIN respond_queue[c]
    BY <1>4
  <2>2. QED
    BY <2>1, QueuedOnce
<1>7. ASSUME NEW i \in 1 .. Len(b)
      PROVE  /\ b[i] \in Conns /\ i \in DOMAIN b
             /\ Rank(b, i) \in 1 .. Len(respond_queue[b[i]])
             /\ b[i] = d => Rank(b, i) # Len(respond_queue[d])
  <2>1. i \in DOMAIN b /\ b[i] \in Conns
    OBVIOUS
  <2>2. Rank(b, i) \in 1 .. Count(b, b[i])
    BY <2>1, Ranks
  <2>3. QED
    BY <1>4, <2>1, <2>2
<1> DEFINE s == [i \in 1 .. Len(b) |-> respond_queue[b[i]][Rank(b, i)]]
<1>8. PICK e : e = respond_queue[d][Len(respond_queue[d])]
  OBVIOUS
<1>9. Len(b) \in Nat /\ DOMAIN b = 1 .. Len(b)
  OBVIOUS
<1>10. s \in Seq(AllUnanswered) /\ Len(s) = Len(b) /\ DOMAIN s = 1 .. Len(b)
  BY <1>5, <1>7, <1>9
<1>11. ASSUME NEW i \in 1 .. Len(b), NEW j \in 1 .. Len(b), s[i] = s[j] PROVE i = j
  <2>1. /\ s[i] = respond_queue[b[i]][Rank(b, i)]
        /\ s[j] = respond_queue[b[j]][Rank(b, j)]
    OBVIOUS
  <2>2. b[i] = b[j]
    BY <1>5, <1>7, <1>11, <2>1
  <2>3. Rank(b, i) = Rank(b, j)
    BY <1>6, <1>7, <1>11, <2>1, <2>2
  <2>4. QED
    BY <1>7, <2>2, <2>3, Ranks
<1>12. e \in AllUnanswered /\ e[1] = d /\ Len(respond_queue[d]) \in 1 .. Len(respond_queue[d])
  <2>1. Len(respond_queue[d]) \in 1 .. Len(respond_queue[d])
    BY <1>4
  <2>2. QED
    BY <1>5, <1>8, <2>1
<1>13. ASSUME NEW i \in 1 .. Len(b), s[i] = e PROVE FALSE
  <2>1. s[i] = respond_queue[b[i]][Rank(b, i)]
    OBVIOUS
  <2>2. b[i] = d
    BY <1>5, <1>7, <1>12, <1>13, <2>1
  <2>3. Rank(b, i) = Len(respond_queue[d])
    BY <1>6, <1>7, <1>8, <1>12, <1>13, <2>1, <2>2
  <2>4. QED
    BY <1>7, <2>2, <2>3
<1> HIDE DEF s
<1>14. Cardinality(AllUnanswered) > Len(s)
  BY <1>10, <1>11, <1>12, <1>13, OneMore, UnansweredFinite
<1>15. QED
  BY <1>3, <1>10, <1>14

-----------------------------------------------------------------------------
(* Full readers.                                                           *)

(* A queue of different elements, none of them in S, adds its length to S. *)
LEMMA AddQueue ==
    ASSUME NEW C, NEW q \in Seq(C), \A i, j \in DOMAIN q : q[i] = q[j] => i = j,
           NEW S, IsFiniteSet(S), \A i \in DOMAIN q : q[i] \notin S
    PROVE  /\ IsFiniteSet(S \cup {q[i] : i \in DOMAIN q})
           /\ Cardinality(S \cup {q[i] : i \in DOMAIN q}) = Cardinality(S) + Len(q)
<1>1. Len(q) \in Nat /\ DOMAIN q = 1 .. Len(q) /\ q \in [1 .. Len(q) -> C]
  OBVIOUS
<1>2. PICK T : T = {q[i] : i \in DOMAIN q}
  OBVIOUS
<1>3. IsFiniteSet(1 .. Len(q)) /\ Cardinality(1 .. Len(q)) = Len(q)
  <2>1. PICK n \in Nat : n = Len(q)
    BY <1>1
  <2>2. /\ IsFiniteSet(1 .. n)
        /\ Cardinality(1 .. n) = IF 1 > n THEN 0 ELSE n - 1 + 1
    BY FS_Interval
  <2>3. (IF 1 > n THEN 0 ELSE n - 1 + 1) = n
    OBVIOUS
  <2>4. QED
    BY <2>1, <2>2, <2>3
<1>4. q \in Surjection(1 .. Len(q), T) /\ q \in Injection(1 .. Len(q), T)
  <2>1. q \in [1 .. Len(q) -> T]
    BY <1>1, <1>2
  <2>2. QED
    BY <1>1, <1>2, <2>1 DEF Surjection, Injection, IsInjective
<1>5. IsFiniteSet(T) /\ Cardinality(T) = Len(q)
  BY <1>3, <1>4, FS_Surjection
<1>6. S \cap T = {}
  BY <1>2
<1>7. IsFiniteSet(S \cup T) /\ Cardinality(S \cup T) = Cardinality(S) + Cardinality(T) - 0
  BY <1>5, <1>6, FS_Union, FS_EmptySet
<1>8. Cardinality(S) \in Nat
  BY FS_CardinalityType
<1>9. Cardinality(S \cup T) = Cardinality(S) + Len(q)
  <2>1. PICK a \in Nat, b \in Nat : a = Cardinality(S) /\ b = Len(q)
    BY <1>1, <1>8
  <2>2. Cardinality(S \cup T) = a + b - 0
    BY <1>5, <1>7, <2>1
  <2>3. QED
    BY <2>1, <2>2
<1>10. QED
  BY <1>2, <1>7, <1>9

(* addToReader has not come to reader r yet.                               *)
Untried(r) ==
    IF last_reader_index <= r THEN r - last_reader_index < num_readers - l_tries
    ELSE r + num_readers - last_reader_index < num_readers - l_tries

(* Every full queue that addToReader has met held sockets of its own: a    *)
(* reader may take them from there meanwhile, but they do not come to the  *)
(* queues of the readers still to be tried.                                *)
ReadersTried ==
    l_conn # NoConn =>
        \E S \in SUBSET accepted :
            /\ Cardinality(S) = l_tries * max_reader_queue_size
            /\ l_conn \notin S
            /\ \A r \in Readers : Untried(r) => \A c \in S : ~Queued(c, r)

(* The next reader in turn is untried, and after it the others that were.  *)
LEMMA UntriedNext ==
    ASSUME TypeOK, aborted = "no", l_conn # NoConn, addToReader_full
    PROVE  /\ Untried(last_reader_index)
           /\ \A r \in Readers : Untried(r)' => Untried(r) /\ r # last_reader_index
<1>1. PICK n \in Nat \ {0} : n = num_readers
  BY ServerStateAssumption DEF ServerStateAssumption
<1>2. PICK a \in 0 .. n - 1 : a = last_reader_index
  BY <1>1 DEF TypeOK, ListenType, PlaceType, Readers
<1>3. PICK k \in 0 .. n - 1 : k = l_tries
  BY <1>1 DEF TypeOK, ListenType, PlaceType
<1>4. (a + 1) % n = IF a + 1 = n THEN 0 ELSE a + 1
  BY <1>1, <1>2
<1>5. last_reader_index' = (IF a + 1 = n THEN 0 ELSE a + 1) /\ l_tries' = k + 1
  BY <1>1, <1>2, <1>3, <1>4 DEF addToReader_full
<1>6. Untried(last_reader_index)
  BY <1>1, <1>2, <1>3 DEF Untried
<1>7. ASSUME NEW r \in Readers, Untried(r)' PROVE Untried(r) /\ r # last_reader_index
  BY <1>1, <1>2, <1>3, <1>5, <1>7 DEF Untried, Readers
<1>8. QED
  BY <1>6, <1>7

(* A full queue joins the ones before.                                     *)
LEMMA TriedFull ==
    ASSUME TypeOK, SocketsOwned, ReadFrom, ReadersTried, aborted = "no", addToReader_full
    PROVE  ReadersTried'
<1>1. l_conn # NoConn /\ l_conn' = l_conn /\ accepted' = accepted /\ bq_conn' = bq_conn
  BY DEF addToReader_full, ioVars
<1>2. PICK S \in SUBSET accepted :
            /\ Cardinality(S) = l_tries * max_reader_queue_size
            /\ l_conn \notin S
            /\ \A r \in Readers : Untried(r) => \A c \in S : ~Queued(c, r)
  BY <1>1 DEF ReadersTried
<1>3. PICK x \in Readers : x = last_reader_index
  BY <1>1 DEF TypeOK, ListenType, PlaceType
<1>4. PICK q \in Seq(Conns) : q = bq_conn[x]
  BY DEF TypeOK, ListenType, PlaceType
<1>5. Len(q) = max_reader_queue_size /\ max_reader_queue_size \in Nat
  <2>1. Len(q) >= max_reader_queue_size
    BY <1>3, <1>4 DEF addToReader_full
  <2>2. Len(q) <= max_reader_queue_size
    BY <1>4 DEF TypeOK, ListenType, PlaceType
  <2>3. QED
    BY <2>1, <2>2, ServerStateAssumption DEF ServerStateAssumption
<1>6. IsFiniteSet(S)
  BY FS_Subset DEF ReadFrom
<1>7. \A i \in DOMAIN q : Queued(q[i], x) /\ q[i] \in Conns
  BY <1>4 DEF Queued
<1>8. \A i \in DOMAIN q : q[i] \notin S /\ q[i] \in accepted /\ q[i] # l_conn
  <2>1. \A i \in DOMAIN q : q[i] \notin S
    BY <1>1, <1>2, <1>3, <1>7, UntriedNext
  <2>2. \A i \in DOMAIN q : InReader(q[i], x)
    BY <1>7 DEF InReader
  <2>3. \A i \in DOMAIN q : q[i] \in accepted
    BY <1>7, <2>2 DEF SocketsOwned
  <2>4. \A i \in DOMAIN q : q[i] # l_conn
    BY <1>7, <2>2 DEF SocketsOwned, OneReaderPerSocket, Listening
  <2>5. QED
    BY <2>1, <2>3, <2>4
<1>9. \A i, j \in DOMAIN q : q[i] = q[j] => i = j
  BY <1>4 DEF SocketsOwned, OneReaderPerSocket
<1>10. PICK U : U = S \cup {q[i] : i \in DOMAIN q}
  OBVIOUS
<1>11. Cardinality(U) = Cardinality(S) + Len(q)
  BY <1>6, <1>8, <1>9, <1>10, AddQueue
<1>12. Cardinality(U) = l_tries' * max_reader_queue_size
  <2>1. PICK k \in Nat : k = l_tries
    BY ServerStateAssumption DEF ServerStateAssumption, TypeOK, ListenType, PlaceType
  <2>2. PICK m \in Nat : m = max_reader_queue_size
    BY <1>5
  <2>3. l_tries' = k + 1 /\ Cardinality(U) = k * m + m
    BY <1>2, <1>5, <1>11, <2>1, <2>2 DEF addToReader_full
  <2>4. (k + 1) * m = k * m + m
    OBVIOUS
  <2>5. QED
    BY <2>2, <2>3, <2>4
<1>13. U \in SUBSET accepted' /\ l_conn' \notin U
  BY <1>1, <1>2, <1>8, <1>10
<1>14. ASSUME NEW r \in Readers, Untried(r)', NEW c \in U PROVE ~Queued(c, r)'
  <2>1. Untried(r) /\ r # x
    BY <1>1, <1>3, <1>14, UntriedNext
  <2>2. c \in S => ~Queued(c, r)
    BY <1>2, <2>1
  <2>3. c \notin S => ~Queued(c, r)
    <3> SUFFICES ASSUME c \notin S PROVE ~Queued(c, r)
      OBVIOUS
    <3>1. PICK i \in DOMAIN q : c = q[i]
      BY <1>10
    <3>2. InReader(c, x) /\ c \in Conns
      BY <1>7, <3>1 DEF InReader
    <3>3. QED
      BY <2>1, <3>2 DEF SocketsOwned, OneReaderPerSocket, InReader
  <2>4. QED
    BY <1>1, <2>2, <2>3 DEF Queued
<1>15. QED
  BY <1>12, <1>13, <1>14 DEF ReadersTried

(* Every step keeps the account of the readers tried.                      *)
LEMMA TriedStep ==
    ASSUME TypeOK, SocketsOwned, ReadFrom, ReadersTried, [Next]_vars
    PROVE  ReadersTried'
<1>1. CASE l_conn' = NoConn
  BY <1>1 DEF ReadersTried
<1>2. CASE UNCHANGED <<placeVars, accepted, bq_conn>>
  BY <1>2 DEF ReadersTried, placeVars, Untried, Queued
<1>3. ASSUME NEW r \in Readers, Reads(r) PROVE ReadersTried'
  <2>1. CASE Reader_pop(r)
    <3>1. UNCHANGED <<placeVars, accepted>> /\ bq_conn[r] # <<>>
          /\ bq_conn' = [bq_conn EXCEPT ![r] = Tail(@)]
      BY <2>1 DEF Reader_pop, ioVars
    <3>2. PlaceType
      BY DEF TypeOK, ListenType
    <3>3. \A c \in Conns, x \in Readers : Queued(c, x)' => Queued(c, x)
      BY <3>1, <3>2, QueuedAfterPop
    <3>4. accepted \in SUBSET Conns
      BY DEF TypeOK, ListenType, IoType
    <3>5. \A x \in Readers : Untried(x)' <=> Untried(x)
      BY <3>1 DEF Untried, placeVars
    <3>6. QED
      BY <3>1, <3>3, <3>4, <3>5 DEF ReadersTried, placeVars
  <2>2. QED
    BY <1>2, <1>3, <2>1 DEF Reads, ReaderThread, Call_read, Call_read_fails,
       close_connection, Reader_push, Reader_rearm, ioVars
<1>4. CASE Listens
  <2>1. ASSUME NEW c \in Conns, handle_read(c), l_conn' # NoConn PROVE ReadersTried'
    <3>1. l_tries' = 0 /\ {} \in SUBSET accepted'
      BY <2>1 DEF handle_read, ListenerIdle, placeVars
    <3>2. Cardinality({}) = l_tries' * max_reader_queue_size
      BY <3>1, FS_EmptySet, ServerStateAssumption DEF ServerStateAssumption
    <3>3. QED
      BY <3>1, <3>2 DEF ReadersTried
  <2>2. CASE addToReader_full
    BY <1>4, <2>2, TriedFull DEF Listens, Alive
  <2>3. \/ \E c \in Conns : handle_read(c)
        \/ addToReader_full
        \/ l_conn' = NoConn
    BY <1>4 DEF Listens, ListenerThread, handle_accept, io_service_exit, addToReader,
       ListenerIdle, placeVars
  <2>4. QED
    BY <1>1, <2>1, <2>2, <2>3
<1>5. QED
  BY <1>2, <1>3, <1>4 DEF Next, Client, AcceptFails, handle_accept_error, Handles, Responds,
     Stops, MainThread, vars, listenVars, ioVars

(* handle_read aborts with more sockets accepted than the readers' queues  *)
(* hold.                                                                   *)
LEMMA ReadersFull ==
    ASSUME TypeOK, SocketsOwned, ReadFrom, ReadersTried,
           l_conn # NoConn, l_tries = num_readers
    PROVE  Cardinality(accepted) > num_readers * max_reader_queue_size
<1>1. PICK S \in SUBSET accepted :
            Cardinality(S) = l_tries * max_reader_queue_size /\ l_conn \notin S
  BY DEF ReadersTried
<1>2. l_conn \in Conns
  BY DEF TypeOK, ListenType, PlaceType
<1>3. l_conn \in accepted
  BY <1>2 DEF SocketsOwned, Listening
<1>4. IsFiniteSet(S) /\ IsFiniteSet(accepted)
  BY FS_Subset DEF ReadFrom
<1>5. S \cup {l_conn} \in SUBSET accepted
  BY <1>3
<1>6. Cardinality(S \cup {l_conn}) = Cardinality(S) + 1
  BY <1>1, <1>4, FS_AddElement
<1>7. Cardinality(S \cup {l_conn}) <= Cardinality(accepted)
  BY <1>4, <1>5, FS_Subset
<1>8. PICK a \in Nat, b \in Nat : a = Cardinality(S) /\ b = Cardinality(accepted)
  BY <1>4, FS_CardinalityType
<1>9. a + 1 <= b
  BY <1>6, <1>7, <1>8
<1>10. a < b
  BY <1>9
<1>11. QED
  BY <1>1, <1>8, <1>10

-----------------------------------------------------------------------------
(* The causes of the aborts.                                               *)

(* A worker on its way to a queue finds a result there.                    *)
LEMMA AttendedNotEmpty ==
    ASSUME TypeOK, RespondBalance, NEW w \in Workers, NEW d \in Conns, w \in Attending(d)
    PROVE  respond_queue[d] # <<>>
<1>1. Attending(d) \in SUBSET Workers
  BY DEF Attending
<1>2. IsFiniteSet(Attending(d))
  BY <1>1, WorkersFinite, FS_Subset
<1>3. PICK n \in Nat : n = Cardinality(Attending(d)) /\ n # 0
  BY <1>2, FS_CardinalityType, FS_EmptySet
<1>4. PICK m \in Nat : m = Cardinality(OnRespond(d))
  BY CountType DEF TypeOK, RespondType, QueueType, OnRespond, Count, At
<1>5. Len(respond_queue[d]) = m + n
  BY <1>3, <1>4 DEF RespondBalance
<1>6. QED
  BY <1>3, <1>5

(* What a step that leaves the sockets alone does not answer.              *)
LEMMA UnansweredSame ==
    ASSUME UNCHANGED <<got, out>>
    PROVE  AllUnanswered' = AllUnanswered /\ \A c \in Conns : Unanswered(c)' = Unanswered(c)
  BY DEF AllUnanswered, Unanswered, Answered, FinalSegments

(* A part of a response answers nothing.                                   *)
LEMMA PartAnswersNothing ==
    ASSUME TypeOK, OwnConnection, NEW w \in Workers, NEW n \in 1 .. ValueLen,
           processResponse_write(w, n), pos[wcall[w]] + n # ValueLen, UNCHANGED got,
           NEW c \in Conns
    PROVE  Unanswered(c)' = Unanswered(c)
<1>1. PICK d \in Conns, x \in Call, seg \in Segment :
              /\ wcall[w] = x /\ x[1] = d
              /\ seg = [call |-> x, from |-> pos[x], to |-> pos[x] + n]
              /\ out' = [out EXCEPT ![d] = Append(@, seg)]
  BY WriteSegment
<1>2. seg.call[1] = d /\ seg.to # ValueLen
  BY <1>1
<1>3. ASSUME NEW i \in 1 .. got[c] PROVE Answered(<<c, i>>)' <=> Answered(<<c, i>>)
  <2>1. PICK y \in Call : y = <<c, i>>
    <3>1. i \in 1 .. MaxCalls
      BY ServerStateAssumption DEF ServerStateAssumption, TypeOK, StateType, PeerType
    <3>2. QED
      BY <3>1 DEF Call
  <2>2. /\ IsFiniteSet(FinalSegments(y)')
        /\ Cardinality(FinalSegments(y)')
             = Cardinality(FinalSegments(y)) + One(seg.call = y /\ seg.to = ValueLen)
    BY <1>1, <1>2, FinalAppend
  <2>3. One(seg.call = y /\ seg.to = ValueLen) = 0
    BY <1>2 DEF One
  <2>4. IsFiniteSet(FinalSegments(y)) /\ Cardinality(FinalSegments(y)) \in Nat
    BY PlacesAre
  <2>5. Cardinality(FinalSegments(y)') = Cardinality(FinalSegments(y))
    BY <2>2, <2>3, <2>4
  <2>6. FinalSegments(y)' = {} <=> FinalSegments(y) = {}
    BY <2>2, <2>4, <2>5, FS_EmptySet
  <2>7. QED
    BY <2>1, <2>6 DEF Answered
<1>4. QED
  BY <1>3 DEF Unanswered

(* All that is known of a state before a step.                             *)
AbortInv == SocketsOwned /\ RespondBalance /\ AccountInv /\ ReadFrom /\ ReadersTried

(* doRespond or processResponse finds no room in _bq_respond.              *)
LEMMA NotifyAborts ==
    ASSUME TypeOK, AbortInv, aborted = "no", aborted' # "no",
           NEW w \in Workers, wpc[w] \in {"notify", "again"}, NEW queue,
           NotifyResponder(w, queue)
    PROVE  AbortsExplained'
<1>1. /\ aborted' = "bq_respond_full" /\ UNCHANGED <<got, out>>
      /\ ~(Len(bq_respond) < max_repsond_size)
  BY DEF NotifyResponder, SameState
<1>2. Cardinality(AllUnanswered) > max_repsond_size
  BY <1>1, RespondQueueFull DEF AbortInv, AccountInv
<1>3. Cardinality(AllUnanswered') > max_repsond_size
  BY <1>1, <1>2, UnansweredSame
<1>4. QED
  BY <1>1, <1>3 DEF AbortsExplained

(* processResponse aborts when the connection is closed, which its client  *)
(* has caused by leaving or by bytes that are no call, or when the rest of *)
(* a response does not fit into a queue full of others.                    *)
LEMMA ProcessAborts ==
    ASSUME TypeOK, AbortInv, aborted = "no", aborted' # "no", UNCHANGED <<got, peer>>,
           NEW w \in Workers, ProcessResponse(w)
    PROVE  AbortsExplained'
<1> USE DEF AbortInv, AccountInv
<1>1. CASE processResponse_pop(w)
  <2>1. PICK d \in Conns : d = wconn[w] /\ w \in Attending(d)
    BY <1>1 DEF processResponse_pop, TypeOK, RespondType, WorkType, Attending
  <2>2. respond_queue[d] # <<>>
    BY <2>1, AttendedNotEmpty
  <2>3. UNCHANGED aborted
    BY <1>1, <2>1, <2>2 DEF processResponse_pop
  <2>4. QED
    BY <2>3
<1>2. ASSUME NEW n \in 1 .. ValueLen, processResponse_write(w, n) PROVE AbortsExplained'
  <2>1. PICK d \in Conns, x \in Call : d = wconn[w] /\ wcall[w] = x /\ x[1] = d
    BY <1>2, WriteSegment
  <2>2. /\ pos[wcall[w]] + n # ValueLen /\ ~(Len(respond_queue[d]) < max_respond_size)
        /\ aborted' = "response_failed"
    BY <1>2, <2>1 DEF processResponse_write, ResponseFails
  <2>3. Cardinality(Unanswered(d)) > max_respond_size
    BY <2>1, <2>2, Overfull
  <2>4. Cardinality(Unanswered(d)') > max_respond_size
    BY <1>2, <2>2, <2>3, PartAnswersNothing
  <2>5. QED
    BY <2>2, <2>4 DEF AbortsExplained
<1>3. CASE processResponse_throws(w)
  <2>1. PICK d \in Conns : d = wconn[w]
    BY <1>3 DEF processResponse_throws, TypeOK, RespondType, WorkType
  <2>2. aborted' = "response_failed"
    BY <1>3 DEF processResponse_throws, ResponseFails
  <2>3. peer[d] \in Unreadable
    BY <1>3, <2>1 DEF processResponse_throws, ClosedForCause, Unreadable
  <2>4. QED
    BY <2>2, <2>3 DEF AbortsExplained
<1>4. CASE processResponse_again(w)
  BY <1>4, NotifyAborts DEF processResponse_again
<1>5. QED
  BY <1>1, <1>2, <1>3, <1>4 DEF ProcessResponse

(* The step in which the process aborts, whichever it is.                  *)
LEMMA AbortStep ==
    ASSUME TypeOK, TypeOK', AbortInv, AbortInv', aborted = "no", aborted' # "no", [Next]_vars
    PROVE  AbortsExplained'
<1> USE DEF AbortInv, AccountInv
<1>1. CASE Listens
  <2>1. addToReader_full
    BY <1>1 DEF Listens, ListenerThread, handle_accept, handle_read, io_service_exit,
       addToReader, stateVars, fate
  <2>2. aborted' = "readers_full" /\ l_tries' = num_readers /\ l_conn' # NoConn
    BY <2>1 DEF addToReader_full
  <2>3. (TypeOK /\ SocketsOwned /\ ReadFrom /\ ReadersTried /\ l_conn # NoConn
          /\ l_tries = num_readers
          => Cardinality(accepted) > num_readers * max_reader_queue_size)'
    BY ReadersFull, PTL
  <2>4. Cardinality(accepted') > num_readers * max_reader_queue_size
    BY <2>2, <2>3
  <2>5. QED
    BY <2>2, <2>4 DEF AbortsExplained
<1>2. ASSUME NEW r \in Readers, Reads(r) PROVE AbortsExplained'
  <2>1. Reader_push(r) /\ UNCHANGED <<got, out>>
    BY <1>2 DEF Reads, ReaderThread, Reader_pop, Call_read, Call_read_fails, Reader_push,
       close_connection, Reader_rearm, stateVars, fate, respondVars
  <2>2. rpc[r] = "push" /\ ~(Len(bq_call) < max_num_calls) /\ aborted' = "bq_call_full"
    BY <2>1 DEF Reader_push
  <2>3. Cardinality(AllUnanswered) > max_num_calls
    BY <2>2, CallQueueFull
  <2>4. Cardinality(AllUnanswered') > max_num_calls
    BY <2>1, <2>3, UnansweredSame
  <2>5. QED
    BY <2>2, <2>4 DEF AbortsExplained
<1>3. ASSUME NEW h \in Handlers, Handles(h) PROVE AbortsExplained'
  <2>0. h \in Workers
    BY WorkersFinite
  <2>1. CASE Method_call(h)
    <3>1. PICK x \in Call : x = wcall[h] /\ x \in Unknown /\ aborted' = "null_result"
      BY <2>0, <2>1 DEF Method_call, TypeOK, RespondType, WorkType
    <3>2. x[2] <= got[x[1]]
      BY <2>0, <3>1, HeldNowhereElse
    <3>3. x[1] \in Conns /\ x[2] \in 1 .. MaxCalls /\ UNCHANGED sent
      BY <2>1 DEF Call, Method_call, SameState, peerVars
    <3>4. got[x[1]] <= sent[x[1]] /\ got[x[1]] \in Nat /\ sent[x[1]] \in Nat
      BY <3>3, ServerStateAssumption DEF ServerStateAssumption, TypeOK, StateType, PeerType
    <3>5. sent'[x[1]] >= x[2]
      BY <3>2, <3>3, <3>4, ServerStateAssumption DEF ServerStateAssumption
    <3>6. QED
      BY <3>1, <3>5 DEF AbortsExplained
  <2>2. CASE doRespond_push(h)
    <3>1. PICK x \in Call : x = wcall[h]
      BY <2>0, <2>2 DEF doRespond_push, TypeOK, RespondType, WorkType
    <3>2. /\ aborted' = "respond_queue_full" /\ UNCHANGED <<got, out>>
          /\ ~(Len(respond_queue[x[1]]) < max_respond_size)
      BY <2>2, <3>1 DEF doRespond_push, SameState
    <3>3. Cardinality(Unanswered(x[1])) > max_respond_size /\ x[1] \in Conns
      BY <2>0, <3>1, <3>2, Overfull DEF Call
    <3>4. Cardinality(Unanswered(x[1])') > max_respond_size
      BY <3>2, <3>3, UnansweredSame
    <3>5. QED
      BY <3>2, <3>3, <3>4 DEF AbortsExplained
  <2>3. CASE doRespond_notify(h)
    BY <2>0, <2>3, NotifyAborts DEF doRespond_notify
  <2>4. CASE ProcessResponse(h)
    <3>1. UNCHANGED <<got, peer>>
      BY <2>4 DEF ProcessResponse, processResponse_pop, processResponse_write,
         processResponse_throws, processResponse_again, NotifyResponder, SameState, peerVars
    <3>2. QED
      BY <2>0, <2>4, <3>1, ProcessAborts
  <2>5. QED
    BY <1>3, <2>1, <2>2, <2>3, <2>4 DEF Handles, HandlerThread, Handler_pop,
       doRespond_size, SameState, fate
<1>4. CASE Responds
  <2>0. RespThread \in Workers
    BY WorkersFinite
  <2>1. CASE Responder_find
    <3>1. PICK d \in Conns : d = wconn[RespThread] /\ RespThread \in Attending(d)
      BY <2>0, <2>1 DEF Responder_find, TypeOK, RespondType, WorkType, Attending
    <3>2. aborted' = "no_connection" /\ d \notin connections /\ UNCHANGED peer
      BY <2>1, <3>1 DEF Responder_find, SameState, peerVars
    <3>3. respond_queue[d] # <<>>
      BY <2>0, <3>1, AttendedNotEmpty
    <3>4. 1 \in DOMAIN respond_queue[d]
      BY <3>3 DEF TypeOK, RespondType, QueueType
    <3>5. respond_queue[d][1][2] \in 1 .. got[d]
      BY <3>4, QueuedOnce
    <3>6. got[d] > 0
      BY <3>5 DEF TypeOK, StateType, PeerType
    <3>7. peer'[d] \in Unreadable
      BY <3>2, <3>6 DEF ReadFrom
    <3>8. QED
      BY <3>2, <3>7 DEF AbortsExplained
  <2>2. CASE ProcessResponse(RespThread)
    <3>1. UNCHANGED <<got, peer>>
      BY <2>2 DEF ProcessResponse, processResponse_pop, processResponse_write,
         processResponse_throws, processResponse_again, NotifyResponder, SameState, peerVars
    <3>2. QED
      BY <2>0, <2>2, <3>1, ProcessAborts
  <2>3. QED
    BY <1>4, <2>1, <2>2 DEF Responds, ResponderThread, Responder_pop, SameState
<1>5. QED
  BY <1>1, <1>2, <1>3, <1>4 DEF Next, Client, AcceptFails, handle_accept_error, Stops,
     MainThread, terminate, Reader_waitToFinish, Handler_waitToFinish,
     Responder_waitToFinish, process_exit, vars, stateVars, fate

(* The invariants of a state before a step, all together.                  *)
LEMMA AbortInvAlways == Spec => []AbortInv
<1>1. Init => ReadFrom /\ ReadersTried
  <2> SUFFICES ASSUME Init PROVE ReadFrom /\ ReadersTried
    OBVIOUS
  <2>1. accepted = {} /\ l_conn = NoConn /\ \A c \in Conns : got[c] = 0
    BY DEF Init, StateInit, ListenerInit
  <2>2. QED
    BY <2>1, FS_EmptySet DEF ReadFrom, ReadersTried
<1>2. TypeOK /\ SocketsOwned /\ AccountInv /\ ReadFrom /\ ReadersTried /\ [Next]_vars
        => ReadFrom' /\ ReadersTried'
  BY ReadFromStep, TriedStep DEF AccountInv
<1>3. SocketsOwned /\ RespondBalance /\ AccountInv /\ ReadFrom /\ ReadersTried => AbortInv
  BY DEF AbortInv
<1>4. QED
  BY <1>1, <1>2, <1>3, TypeCorrect, OwnedAlways, NoResultLeftBehind, AccountAlways, PTL
  DEF Spec

(* The server aborts only for the reasons AbortsExplained names: more      *)
(* sockets than the readers' queues hold, more calls in work than a queue  *)
(* holds, a client that went away, or a method the server does not have.   *)
(* No interleaving of the threads makes it abort otherwise.                *)
THEOREM AbortsHaveCauses == Spec => []AbortsExplained
<1>1. Init => AbortsExplained
  BY DEF Init, StateInit, AbortsExplained
<1>2. TypeOK /\ TypeOK' /\ AbortInv /\ AbortInv' /\ AbortsExplained /\ [Next]_vars
        => AbortsExplained'
  <2> SUFFICES ASSUME TypeOK, TypeOK', AbortInv, AbortInv', AbortsExplained, [Next]_vars
               PROVE  AbortsExplained'
    OBVIOUS
  <2>1. CASE aborted # "no"
    <3>1. UNCHANGED vars
      BY <2>1 DEF Next, Listens, AcceptFails, Reads, Handles, Responds, Stops, Alive
    <3>2. UNCHANGED <<aborted, got, out, sent, peer, accepted>>
      BY <3>1 DEF vars, stateVars, peerVars, fate, listenVars, ioVars, respondVars
    <3>3. AllUnanswered' = AllUnanswered /\ \A c \in Conns : Unanswered(c)' = Unanswered(c)
      BY <3>2, UnansweredSame
    <3>4. QED
      BY <3>2, <3>3 DEF AbortsExplained
  <2>2. CASE aborted' = "no"
    BY <2>2 DEF AbortsExplained
  <2>3. QED
    BY <2>1, <2>2, AbortStep
<1>3. QED
  BY <1>1, <1>2, TypeCorrect, AbortInvAlways, PTL DEF Spec

-----------------------------------------------------------------------------
(* What stop() loses.                                                      *)

(* The readers that may still push a call, and the workers that may still  *)
(* tell the responder of a result.                                         *)
MayPush   == {r \in Readers : rpc[r] \in {"pop", "read", "push"}}
MayNotify == {w \in Workers : wpc[w] # "done" /\ (w = RespThread => wpc[w] # "pop")}

(* An image is not larger than what it is the image of.                    *)
LEMMA ImageBound ==
    ASSUME NEW S, IsFiniteSet(S), NEW f
    PROVE  /\ IsFiniteSet({f[x] : x \in S}) /\ Cardinality({f[x] : x \in S}) \in Nat
           /\ Cardinality({f[x] : x \in S}) <= Cardinality(S)
<1> DEFINE T == {f[x] : x \in S}
           g == [x \in S |-> f[x]]
<1>1. g \in Surjection(S, T)
  BY DEF Surjection
<1>2. IsFiniteSet(T) /\ Cardinality(T) <= Cardinality(S)
  BY <1>1, FS_Surjection
<1>3. QED
  BY <1>2, FS_CardinalityType

(* A union is not larger than its parts together.                          *)
LEMMA UnionBound ==
    ASSUME NEW S, IsFiniteSet(S), NEW T, IsFiniteSet(T)
    PROVE  /\ IsFiniteSet(S \cup T) /\ Cardinality(S \cup T) \in Nat
           /\ Cardinality(S \cup T) <= Cardinality(S) + Cardinality(T)
<1>1. IsFiniteSet(S \cap T)
  <2>1. (S \cap T) \in SUBSET S
    OBVIOUS
  <2>2. QED
    BY <2>1, FS_Subset
<1>2. PICK a \in Nat, b \in Nat, m \in Nat :
         a = Cardinality(S) /\ b = Cardinality(T) /\ m = Cardinality(S \cap T)
  BY <1>1, FS_CardinalityType
<1>3. IsFiniteSet(S \cup T) /\ Cardinality(S \cup T) = a + b - m
  BY <1>2, FS_Union
<1>4. Cardinality(S \cup T) \in Nat
  BY <1>3, FS_CardinalityType
<1>5. QED
  BY <1>2, <1>3, <1>4

(* A set of n elements can be numbered from a + 1 to a + n.                *)
LEMMA Numbering ==
    ASSUME NEW S, IsFiniteSet(S), NEW a \in Nat, NEW n \in Nat, Cardinality(S) = n
    PROVE  \E f : \A k \in a + 1 .. a + n : \E s \in S : f[s] = k
<1>1. a + 1 \in Int /\ a + n \in Int
  OBVIOUS
<1>2. IsFiniteSet(a + 1 .. a + n) /\ Cardinality(a + 1 .. a + n) = n
  <2>1. /\ IsFiniteSet(a + 1 .. a + n)
        /\ Cardinality(a + 1 .. a + n) = IF a + 1 > a + n THEN 0 ELSE (a + n) - (a + 1) + 1
    BY <1>1, FS_Interval
  <2>2. n = IF a + 1 > a + n THEN 0 ELSE (a + n) - (a + 1) + 1
    OBVIOUS
  <2>3. QED
    BY <2>1, <2>2
<1>3. ExistsBijection(S, a + 1 .. a + n)
  BY <1>2, FS_SameCardinalityBij
<1>4. QED
  BY <1>3 DEF ExistsBijection, Bijection, Surjection

(* A call in work is in some thread's hands or queue, and a queued result  *)
(* has its own visit: the calls in work are no more than the readers that  *)
(* may push, the queued calls, the workers and the queued visits.          *)
LEMMA InWorkBound ==
    ASSUME TypeOK, AccountInv, RespondBalance
    PROVE  /\ Cardinality(MayPush) \in Nat /\ Cardinality(MayNotify) \in Nat
           /\ Len(bq_call) \in Nat /\ Len(bq_respond) \in Nat /\ Cardinality(InWork) \in Nat
           /\ Cardinality(InWork) <= Cardinality(MayPush) + Len(bq_call)
                                       + (Cardinality(MayNotify) + Len(bq_respond))
<1>1. PICK q \in Seq(Call) : q = bq_call
  BY DEF TypeOK, StateType, SharedType
<1>2. PICK b \in Seq(Conns) : b = bq_respond
  BY DEF TypeOK, RespondType, QueueType
<1>3. PICK rq \in [Conns -> Seq(Call)] : rq = respond_queue
  BY DEF TypeOK, RespondType, QueueType
<1>4. ASSUME NEW c \in Conns
      PROVE  /\ IsFiniteSet(OnRespond(c)) /\ Cardinality(OnRespond(c)) \in Nat
             /\ IsFiniteSet(Attending(c)) /\ Cardinality(Attending(c)) \in Nat
             /\ Len(rq[c]) = Cardinality(OnRespond(c)) + Cardinality(Attending(c))
             /\ DOMAIN rq[c] = 1 .. Len(rq[c])
  <2>1. Attending(c) \in SUBSET Workers
    BY DEF Attending
  <2>2. IsFiniteSet(Attending(c)) /\ Cardinality(Attending(c)) \in Nat
    BY <2>1, WorkersFinite, FS_Subset, FS_CardinalityType
  <2>3. IsFiniteSet(OnRespond(c)) /\ Cardinality(OnRespond(c)) \in Nat
    BY <1>2, CountType DEF OnRespond, Count, At
  <2>4. rq[c] \in Seq(Call)
    OBVIOUS
  <2>5. QED
    BY <1>3, <2>2, <2>3, <2>4 DEF RespondBalance
<1> DEFINE m(c) == Cardinality(OnRespond(c))
           F == [c \in Conns |-> CHOOSE f : \A k \in 1 .. m(c) : \E s \in OnRespond(c) : f[s] = k]
           G == [c \in Conns |-> CHOOSE f : \A k \in m(c) + 1 .. Len(rq[c]) :
                                               \E s \in Attending(c) : f[s] = k]
<1>5. ASSUME NEW c \in Conns, NEW k \in 1 .. m(c) PROVE \E s \in OnRespond(c) : F[c][s] = k
  <2>1. PICK n \in Nat : n = m(c)
    BY <1>4
  <2>2. \E f : \A j \in 1 .. m(c) : \E s \in OnRespond(c) : f[s] = j
    <3>0. PICK a \in Nat : a = 0
      OBVIOUS
    <3>1. \E f : \A j \in a + 1 .. a + m(c) : \E s \in OnRespond(c) : f[s] = j
      BY <1>4, Numbering
    <3>2. a + 1 .. a + n = 1 .. n
      BY <3>0
    <3>3. QED
      BY <2>1, <3>1, <3>2, Zenon
  <2>3. PICK f : f = F[c]
    OBVIOUS
  <2>4. f = CHOOSE g : \A j \in 1 .. m(c) : \E s \in OnRespond(c) : g[s] = j
    BY <2>3
  <2>5. \A j \in 1 .. m(c) : \E s \in OnRespond(c) : f[s] = j
    BY <2>2, <2>4, Zenon
  <2>6. QED
    BY <2>3, <2>5
<1>6. ASSUME NEW c \in Conns, NEW k \in m(c) + 1 .. Len(rq[c])
      PROVE  \E s \in Attending(c) : G[c][s] = k
  <2>1. \E f : \A j \in m(c) + 1 .. m(c) + Cardinality(Attending(c)) :
                  \E s \in Attending(c) : f[s] = j
    BY <1>4, Numbering
  <2>2. \E f : \A j \in m(c) + 1 .. Len(rq[c]) : \E s \in Attending(c) : f[s] = j
    BY <1>4, <2>1, Zenon
  <2>3. PICK f : f = G[c]
    OBVIOUS
  <2>4. f = CHOOSE g : \A j \in m(c) + 1 .. Len(rq[c]) : \E s \in Attending(c) : g[s] = j
    BY <2>3
  <2>5. \A j \in m(c) + 1 .. Len(rq[c]) : \E s \in Attending(c) : f[s] = j
    BY <2>2, <2>4, Zenon
  <2>6. QED
    BY <2>3, <2>5
<1> HIDE DEF F, G
<1> DEFINE f1 == [r \in MayPush |-> <<rconn[r], rid[r]>>]
           f3 == [w \in MayNotify |-> IF wcall[w] # NoCall THEN wcall[w]
                                      ELSE rq[wconn[w]][G[wconn[w]][w]]]
           f4 == [i \in DOMAIN b |-> rq[b[i]][F[b[i]][i]]]
           R1 == {f1[r] : r \in MayPush}
           R2 == {q[i] : i \in DOMAIN q}
           R3 == {f3[w] : w \in MayNotify}
           R4 == {f4[i] : i \in DOMAIN b}
<1>7. ASSUME NEW x \in InWork PROVE x \in (R1 \cup R2) \cup (R3 \cup R4)
  <2>1. x \in Call /\ x[1] \in Conns /\ Places(x) = 1 /\ FinalSegments(x) = {} /\ x # NoCall
    <3>1. x \in Call /\ Places(x) = 1 /\ x[2] \in Unanswered(x[1])
      BY DEF InWork, AllUnanswered
    <3>2. x[1] \in Conns /\ x = <<x[1], x[2]>>
      BY <3>1 DEF Call
    <3>3. ~Answered(<<x[1], x[2]>>)
      BY <3>1 DEF Unanswered
    <3>4. FinalSegments(x) = {}
      BY <3>2, <3>3, Zenon DEF Answered
    <3>5. QED
      BY <3>1, <3>2, <3>4, NoCallIsNone
  <2>2. \/ Reading(x) # {} \/ Working(x) # {}
        \/ Count(q, x) # 0 \/ Count(rq[x[1]], x) # 0
    <3>1. /\ Places(x) = Cardinality(Reading(x)) + Cardinality(Working(x)) + Stored(x)
          /\ Cardinality(FinalSegments(x)) = 0
          /\ Stored(x) = Count(q, x) + Count(rq[x[1]], x) + Cardinality(FinalSegments(x))
      BY <1>1, <1>3, <2>1, PlacesAre, FS_EmptySet DEF Stored
    <3> SUFFICES ASSUME Reading(x) = {}, Working(x) = {}, Count(q, x) = 0, Count(rq[x[1]], x) = 0
                 PROVE  FALSE
      OBVIOUS
    <3>2. Cardinality(Reading(x)) = 0 /\ Cardinality(Working(x)) = 0
      BY FS_EmptySet
    <3>3. QED
      BY <2>1, <3>1, <3>2
  <2>3. CASE Reading(x) # {}
    <3>1. PICK r \in Readers : rpc[r] = "push" /\ <<rconn[r], rid[r]>> = x
      BY <2>3 DEF Reading
    <3>2. r \in MayPush /\ f1[r] = x
      BY <3>1 DEF MayPush
    <3>3. QED
      BY <3>2
  <2>4. CASE Working(x) # {}
    <3>1. PICK w \in Workers : wcall[w] = x
      BY <2>4 DEF Working
    <3>2. wpc[w] \in {"call", "queue", "write"}
      BY <2>1, <3>1 DEF AccountInv, CallHeld
    <3>3. w \in MayNotify
      BY <3>2 DEF MayNotify
    <3>4. f3[w] = x
      BY <2>1, <3>1, <3>3
    <3>5. QED
      BY <3>3, <3>4
  <2>5. CASE Count(q, x) # 0
    BY <2>5, CountType
  <2>6. CASE Count(rq[x[1]], x) # 0
    <3>1. PICK c \in Conns : c = x[1]
      BY <2>1
    <3>2. PICK k \in DOMAIN rq[c] : rq[c][k] = x
      BY <2>6, <3>1, CountType
    <3>3. PICK n \in Nat : n = m(c)
      BY <1>4
    <3>4. k \in 1 .. n \/ k \in n + 1 .. Len(rq[c])
      BY <1>4, <3>2, <3>3
    <3>5. CASE k \in 1 .. n
      <4>1. PICK i \in OnRespond(c) : F[c][i] = k
        BY <1>5, <3>3, <3>5
      <4>2. i \in DOMAIN b /\ b[i] = c
        BY <1>2 DEF OnRespond
      <4>3. f4[i] = x
        BY <3>2, <4>1, <4>2
      <4>4. QED
        BY <4>2, <4>3
    <3>6. CASE k \in n + 1 .. Len(rq[c])
      <4>1. PICK w \in Attending(c) : G[c][w] = k
        BY <1>6, <3>3, <3>6
      <4>2. w \in Workers /\ wconn[w] = c /\ wpc[w] \in {"size", "notify", "find", "take", "again"}
        BY DEF Attending
      <4>3. w \in MayNotify /\ wcall[w] = NoCall
        BY <4>2 DEF MayNotify, AccountInv, CallHeld
      <4>4. f3[w] = x
        BY <3>2, <4>1, <4>2, <4>3
      <4>5. QED
        BY <4>3, <4>4
    <3>7. QED
      BY <3>4, <3>5, <3>6
  <2>7. QED
    BY <2>2, <2>3, <2>4, <2>5, <2>6
<1>8. IsFiniteSet(MayPush) /\ IsFiniteSet(MayNotify)
  <2>1. MayPush \in SUBSET Readers /\ MayNotify \in SUBSET Workers
    BY DEF MayPush, MayNotify
  <2>2. QED
    BY <2>1, WorkersFinite, FS_Subset
<1>9. ASSUME NEW S, NEW s \in Seq(S)
      PROVE  IsFiniteSet(DOMAIN s) /\ Cardinality(DOMAIN s) = Len(s) /\ Len(s) \in Nat
  <2>1. PICK n \in Nat : n = Len(s) /\ DOMAIN s = 1 .. n
    OBVIOUS
  <2>2. IsFiniteSet(1 .. n) /\ Cardinality(1 .. n) = n
    <3>1. IsFiniteSet(1 .. n) /\ Cardinality(1 .. n) = IF 1 > n THEN 0 ELSE n - 1 + 1
      BY FS_Interval
    <3>2. QED
      BY <3>1
  <2>3. QED
    BY <2>1, <2>2
<1> HIDE DEF f1, f3, f4
<1>10. PICK u \in Nat, v \in Nat, y \in Nat, z \in Nat :
          /\ u = Cardinality(MayPush) /\ v = Len(q) /\ y = Cardinality(MayNotify) /\ z = Len(b)
  BY <1>8, <1>9, FS_CardinalityType
<1>11. PICK c1 \in Nat, c2 \in Nat, c3 \in Nat, c4 \in Nat :
          /\ IsFiniteSet(R1) /\ IsFiniteSet(R2) /\ IsFiniteSet(R3) /\ IsFiniteSet(R4)
          /\ c1 = Cardinality(R1) /\ c2 = Cardinality(R2)
          /\ c3 = Cardinality(R3) /\ c4 = Cardinality(R4)
          /\ c1 <= u /\ c2 <= v /\ c3 <= y /\ c4 <= z
  <2>1. IsFiniteSet(R1) /\ Cardinality(R1) \in Nat /\ Cardinality(R1) <= u
    BY <1>8, <1>10, ImageBound
  <2>2. IsFiniteSet(R2) /\ Cardinality(R2) \in Nat /\ Cardinality(R2) <= v
    BY <1>9, <1>10, ImageBound
  <2>3. IsFiniteSet(R3) /\ Cardinality(R3) \in Nat /\ Cardinality(R3) <= y
    BY <1>8, <1>10, ImageBound
  <2>4. IsFiniteSet(R4) /\ Cardinality(R4) \in Nat /\ Cardinality(R4) <= z
    BY <1>9, <1>10, ImageBound
  <2>5. QED
    BY <2>1, <2>2, <2>3, <2>4
<1> HIDE DEF R1, R2, R3, R4
<1>12. PICK c12 \in Nat, c34 \in Nat :
          /\ IsFiniteSet(R1 \cup R2) /\ c12 = Cardinality(R1 \cup R2) /\ c12 <= c1 + c2
          /\ IsFiniteSet(R3 \cup R4) /\ c34 = Cardinality(R3 \cup R4) /\ c34 <= c3 + c4
  BY <1>11, UnionBound
<1>13. PICK t \in Nat : /\ IsFiniteSet((R1 \cup R2) \cup (R3 \cup R4))
                        /\ t = Cardinality((R1 \cup R2) \cup (R3 \cup R4)) /\ t <= c12 + c34
  BY <1>12, UnionBound
<1>14. InWork \in SUBSET ((R1 \cup R2) \cup (R3 \cup R4))
  BY <1>7
<1>15. Cardinality(InWork) \in Nat /\ Cardinality(InWork) <= t
  BY <1>13, <1>14, FS_Subset, FS_CardinalityType
<1>16. PICK n \in Nat : n = Cardinality(InWork) /\ n <= t
  BY <1>15
<1>17. n <= u + v + (y + z)
  <2>1. c1 <= u /\ c2 <= v /\ c3 <= y /\ c4 <= z
    BY <1>11
  <2>2. c12 <= c1 + c2 /\ c34 <= c3 + c4 /\ t <= c12 + c34 /\ n <= t
    BY <1>12, <1>13, <1>16
  <2>3. QED
    BY <2>1, <2>2
<1>18. QED
  BY <1>1, <1>2, <1>10, <1>16, <1>17

(* How far stop() has come: it has seen _bq_call empty, or both queues.    *)
PastHandlers  == listener_stop /\ stopping \in {"responder", "finished", "exited"}
PastResponder == listener_stop /\ stopping \in {"finished", "exited"}

(* The flags stop() has raised by then; it does not start twice, and       *)
(* main() does not return under it.                                        *)
FlagsRaised ==
    /\ listener_stop => stopping # "no"
    /\ \A r \in Readers :
          \/ stopping = "readers" /\ r < stop_index
          \/ listener_stop /\ stopping = "handlers"
          \/ PastHandlers
          => reader_stop[r] = TRUE
    /\ \A h \in Handlers :
          (stopping = "handlers" /\ h < stop_index) \/ PastHandlers => handler_stop[h] = TRUE

(* Only stop(), and the end of main(), move them on.                       *)
LEMMA StopsAlone ==
    ASSUME [Next]_vars
    PROVE  \/ io_service_exit /\ UNCHANGED <<readStops, handler_stop, stop_index>>
           \/ MainThread
           \/ UNCHANGED <<stopping, readStops, handler_stop, stop_index>>
<1> USE DEF listenVars, respondVars, readStops
<1>1. ASSUME NEW c \in Conns, Client(c)
      PROVE  UNCHANGED <<stopping, readStops, handler_stop, stop_index>>
  BY <1>1 DEF Client, fate
<1>2. CASE Listens \/ AcceptFails
  BY <1>2 DEF Listens, AcceptFails, ListenerThread, handle_accept, handle_read,
     handle_accept_error, io_service_exit, addToReader, addToReader_full, stateVars, fate
<1>3. ASSUME NEW r \in Readers, Reads(r)
      PROVE  UNCHANGED <<stopping, readStops, handler_stop, stop_index>>
  BY <1>3 DEF Reads, ReaderThread, Reader_pop, Call_read, Call_read_fails,
     close_connection, Reader_push, Reader_rearm, stateVars, fate
<1>4. ASSUME NEW w, ProcessResponse(w) PROVE UNCHANGED <<stopping, handler_stop>>
  BY <1>4 DEF ProcessResponse, processResponse_pop, processResponse_write,
     processResponse_throws, processResponse_again, NotifyResponder, SameState
<1>5. ASSUME NEW h \in Handlers, Handles(h)
      PROVE  UNCHANGED <<stopping, readStops, handler_stop, stop_index>>
  BY <1>4, <1>5 DEF Handles, HandlerThread, Handler_pop, Method_call, doRespond_push,
     doRespond_size, doRespond_notify, NotifyResponder, SameState, fate
<1>6. CASE Responds
  BY <1>4, <1>6 DEF Responds, ResponderThread, Responder_pop, Responder_find, SameState
<1>7. QED
  BY <1>1, <1>2, <1>3, <1>5, <1>6 DEF Next, Stops, vars, stateVars, fate

(* The flags are raised one after the other and stay raised.               *)
LEMMA FlagsStep ==
    ASSUME TypeOK, FlagsRaised, [Next]_vars
    PROVE  FlagsRaised'
<1> USE ServerStateAssumption
    DEF FlagsRaised, PastHandlers, TypeOK, StopType, ListenType, ReadType, RespondType,
        WorkStopType, readStops, ServerStateAssumption, Readers, Handlers
<1>1. CASE UNCHANGED <<stopping, readStops, handler_stop, stop_index>>
  BY <1>1
<1>2. CASE io_service_exit /\ UNCHANGED <<readStops, handler_stop, stop_index>>
  BY <1>2 DEF io_service_exit
<1>3. CASE terminate
  BY <1>3 DEF terminate
<1>4. CASE Reader_waitToFinish
  BY <1>4 DEF Reader_waitToFinish, Advance
<1>5. CASE Handler_waitToFinish
  BY <1>5 DEF Handler_waitToFinish, Advance
<1>6. CASE Responder_waitToFinish
  BY <1>6 DEF Responder_waitToFinish
<1>7. CASE process_exit
  BY <1>7 DEF process_exit
<1>8. QED
  BY <1>1, <1>2, <1>3, <1>4, <1>5, <1>6, <1>7, StopsAlone DEF MainThread

(* One thread moves and hands at most itself on.                           *)
LEMMA MoveBound ==
    ASSUME NEW A, NEW B, NEW v, IsFiniteSet(A), \A u : u # v => (u \in A <=> u \in B),
           NEW m \in Nat, NEW n \in Nat, One(v \in B) + n <= One(v \in A) + m
    PROVE  Cardinality(B) + n <= Cardinality(A) + m
<1>1. PICK a \in Nat, b \in Nat : a = Cardinality(A) /\ b = Cardinality(B)
                                 /\ b + One(v \in A) = a + One(v \in B)
  BY OneChanged
<1>2. PICK x \in Nat, y \in Nat : x = One(v \in A) /\ y = One(v \in B)
  BY DEF One
<1>3. b + x = a + y /\ y + n <= x + m
  BY <1>1, <1>2
<1>4. b + n <= a + m
  BY <1>3
<1>5. QED
  BY <1>1, <1>4

(* With every reader told to stop, a reader pushes at most one more call.  *)
LEMMA PushBound ==
    ASSUME TypeOK, TypeOK', FlagsRaised, PastHandlers, [Next]_vars
    PROVE  Cardinality(MayPush)' + Len(bq_call)' <= Cardinality(MayPush) + Len(bq_call)
<1>1. IsFiniteSet(MayPush)
  <2>1. MayPush \in SUBSET Readers
    BY DEF MayPush
  <2>2. QED
    BY <2>1, WorkersFinite, FS_Subset
<1>2. PICK m \in Nat, n \in Nat : m = Len(bq_call) /\ n = Len(bq_call')
  BY DEF TypeOK, StateType, SharedType
<1>3. PICK a \in Nat : a = Cardinality(MayPush)
  BY <1>1, FS_CardinalityType
<1>4. ASSUME NEW r \in Readers, Reads(r)
      PROVE  Cardinality(MayPush)' + Len(bq_call)' <= Cardinality(MayPush) + Len(bq_call)
  <2>1. /\ rpc \in [Readers -> {"pop", "read", "close", "push", "rearm", "done"}]
        /\ reader_stop[r] = TRUE /\ bq_call \in Seq(Call)
    BY DEF TypeOK, ListenType, ReadType, StateType, SharedType, FlagsRaised
  <2>2. \A s \in Readers : s # r => rpc'[s] = rpc[s]
    BY <1>4, <2>1 DEF Reads, ReaderThread, Reader_pop, Call_read, Call_read_fails,
       close_connection, Reader_push, Reader_rearm, ReaderLoops
  <2>3. \A s : s # r => (s \in MayPush <=> s \in MayPush')
    BY <2>2 DEF MayPush
  <2>4. CASE Reader_push(r)
    <3>1. CASE UNCHANGED <<bq_call, rpc>>
      BY <1>2, <1>3, <3>1 DEF MayPush
    <3>2. CASE bq_call' = Append(bq_call, <<rconn[r], rid[r]>>) /\ rpc' = [rpc EXCEPT ![r] = "rearm"]
      <4>1. r \in MayPush /\ r \notin MayPush'
        BY <2>1, <2>4, <3>2 DEF Reader_push, MayPush
      <4>2. n = m + 1
        BY <1>2, <2>1, <3>2
      <4>3. One(r \in MayPush') + n <= One(r \in MayPush) + m
        BY <4>1, <4>2 DEF One
      <4>4. QED
        BY <1>1, <1>2, <2>3, <4>3, MoveBound
    <3>3. QED
      BY <2>4, <3>1, <3>2 DEF Reader_push
  <2>5. CASE ~Reader_push(r)
    <3>1. UNCHANGED bq_call /\ (r \in MayPush' => r \in MayPush)
      BY <1>4, <2>1, <2>5 DEF Reads, ReaderThread, Reader_pop, Call_read, Call_read_fails,
         close_connection, Reader_rearm, ReaderLoops, stateVars, MayPush
    <3>2. One(r \in MayPush') + n <= One(r \in MayPush) + m
      BY <1>2, <3>1 DEF One
    <3>3. QED
      BY <1>1, <1>2, <2>3, <3>2, MoveBound
  <2>6. QED
    BY <2>4, <2>5
<1>5. ASSUME UNCHANGED rpc, n <= m
      PROVE  Cardinality(MayPush)' + Len(bq_call)' <= Cardinality(MayPush) + Len(bq_call)
  BY <1>2, <1>3, <1>5 DEF MayPush
<1>6. ASSUME NEW h \in Handlers, Handles(h) PROVE UNCHANGED rpc /\ n <= m
  <2>1. /\ UNCHANGED rpc
        /\ UNCHANGED bq_call \/ (bq_call # <<>> /\ bq_call' = Tail(bq_call))
    BY <1>6 DEF Handles, HandlerThread, Handler_pop, Method_call, doRespond_push,
       doRespond_size, doRespond_notify, ProcessResponse, processResponse_pop,
       processResponse_write, processResponse_throws, processResponse_again,
       NotifyResponder, SameState, listenVars, readerVars
  <2>2. QED
    BY <1>2, <2>1 DEF TypeOK, StateType, SharedType
<1>7. CASE UNCHANGED <<rpc, bq_call>>
  BY <1>2, <1>5, <1>7
<1>8. CASE Responds
  BY <1>7, <1>8 DEF Responds, ResponderThread, Responder_pop, Responder_find, ProcessResponse,
     processResponse_pop, processResponse_write, processResponse_throws,
     processResponse_again, NotifyResponder, SameState, listenVars, readerVars
<1>9. CASE Listens \/ AcceptFails
  BY <1>7, <1>9 DEF Listens, AcceptFails, ListenerThread, handle_accept, handle_read,
     handle_accept_error, io_service_exit, addToReader, addToReader_full, stateVars, readerVars
<1>10. QED
  BY <1>4, <1>5, <1>6, <1>7, <1>8, <1>9
  DEF Next, Client, Stops, MainThread, vars, stateVars, listenVars, readerVars

(* A worker that passes an endpoint to the responder leaves its loop, or   *)
(* goes back to _bq_respond.pop() if it is the responder itself.           *)
LEMMA NotifyLeaves ==
    ASSUME TypeOK, FlagsRaised, PastHandlers, NEW w \in Workers, wpc[w] \in {"notify", "again"},
           NEW queue, Len(queue) = Len(bq_respond) + 1, NotifyResponder(w, queue)
    PROVE  \/ UNCHANGED <<wpc, bq_respond>>
           \/ /\ w \in MayNotify /\ w \notin MayNotify'
              /\ Len(bq_respond') = Len(bq_respond) + 1
              /\ \A u \in Workers : u # w => wpc'[u] = wpc[u]
<1>1. CASE UNCHANGED <<bq_respond, workVars>>
  BY <1>1 DEF workVars
<1>2. CASE bq_respond' = queue /\ Loops(w)
  <2>1. w \in Handlers => handler_stop[w] = TRUE
    BY DEF FlagsRaised
  <2>2. w \in Handlers \/ w = RespThread
    BY ServerStateAssumption DEF ServerStateAssumption, Workers, Handlers, RespThread
  <2>3. /\ wpc'[w] = "done" \/ (w = RespThread /\ wpc'[w] = "pop")
        /\ \A u \in Workers : u # w => wpc'[u] = wpc[u]
    BY <1>2, <2>1, <2>2 DEF Loops, ShouldStop, TypeOK, RespondType, WorkType
  <2>4. QED
    BY <1>2, <2>3 DEF MayNotify
<1>3. QED
  BY <1>1, <1>2 DEF NotifyResponder

(* A worker's other steps leave _bq_respond alone.                         *)
LEMMA WorkerMoves ==
    ASSUME TypeOK, FlagsRaised, PastHandlers, NEW w \in Workers,
           \/ ProcessResponse(w)
           \/ w \in Handlers /\ HandlerThread(w)
           \/ w = RespThread /\ Responder_find
    PROVE  \/ UNCHANGED <<wpc, bq_respond>>
           \/ /\ w \in MayNotify /\ (\A u \in Workers : u # w => wpc'[u] = wpc[u])
              /\ \/ UNCHANGED bq_respond
                 \/ w \notin MayNotify' /\ Len(bq_respond') = Len(bq_respond) + 1
<1> USE DEF TypeOK, RespondType, WorkType
<1>1. CASE doRespond_notify(w) \/ processResponse_again(w)
  <2>1. PICK c \in Conns : c = wconn[w]
    BY <1>1 DEF doRespond_notify, processResponse_again
  <2>2. PICK b \in Seq(Conns) : b = bq_respond
    BY DEF QueueType
  <2>3. Len(Append(b, c)) = Len(b) + 1 /\ Len(<<c>> \o b) = Len(b) + 1
    OBVIOUS
  <2>4. QED
    BY <1>1, <2>1, <2>2, <2>3, NotifyLeaves DEF doRespond_notify, processResponse_again
<1>2. CASE \/ processResponse_pop(w) \/ processResponse_throws(w)
           \/ \E n \in 1 .. ValueLen : processResponse_write(w, n)
  <2>1. UNCHANGED bq_respond /\ wpc[w] \in {"take", "write"}
    BY <1>2 DEF processResponse_pop, processResponse_throws, processResponse_write
  <2>2. \/ Loops(w) \/ UNCHANGED wpc \/ GoesTo(w, "write") \/ GoesTo(w, "again")
    BY <1>2 DEF processResponse_pop, processResponse_throws, processResponse_write,
       ResponseFails, workVars
  <2>3. \A u \in Workers : u # w => wpc'[u] = wpc[u]
    BY <2>2, LoopsAttends DEF GoesTo
  <2>4. QED
    BY <2>1, <2>3 DEF MayNotify
<1>3. CASE \/ w \in Handlers /\ (Handler_pop(w) \/ Method_call(w) \/ doRespond_push(w)
                                 \/ doRespond_size(w))
           \/ w = RespThread /\ Responder_find
  <2>1. /\ UNCHANGED bq_respond /\ wpc[w] \in {"pop", "call", "queue", "size", "find"}
        /\ w = RespThread => wpc[w] = "find"
    BY <1>3, WorkersFinite
    DEF Handler_pop, Method_call, doRespond_push, doRespond_size, Responder_find
  <2>2. \A u \in Workers : u # w => wpc'[u] = wpc[u]
    BY <1>3 DEF Handler_pop, Method_call, doRespond_push, doRespond_size, Responder_find,
       GoesTo, workVars
  <2>3. QED
    BY <2>1, <2>2 DEF MayNotify
<1>4. QED
  BY <1>1, <1>2, <1>3 DEF ProcessResponse, HandlerThread

(* With every handler told to stop, a worker leaves at most one visit.     *)
LEMMA NotifyBound ==
    ASSUME TypeOK, TypeOK', FlagsRaised, PastHandlers, [Next]_vars
    PROVE  Cardinality(MayNotify)' + Len(bq_respond)' <= Cardinality(MayNotify) + Len(bq_respond)
<1>1. IsFiniteSet(MayNotify)
  <2>1. MayNotify \in SUBSET Workers
    BY DEF MayNotify
  <2>2. QED
    BY <2>1, WorkersFinite, FS_Subset
<1>2. PICK m \in Nat, n \in Nat : m = Len(bq_respond) /\ n = Len(bq_respond')
  BY DEF TypeOK, RespondType, QueueType
<1>3. PICK a \in Nat : a = Cardinality(MayNotify)
  BY <1>1, FS_CardinalityType
<1> DEFINE Goal == Cardinality(MayNotify)' + Len(bq_respond)'
                     <= Cardinality(MayNotify) + Len(bq_respond)
<1>4. CASE UNCHANGED <<wpc, bq_respond>>
  BY <1>2, <1>3, <1>4 DEF MayNotify
<1>5. ASSUME NEW w \in Workers, \A u \in Workers : u # w => wpc'[u] = wpc[u],
             One(w \in MayNotify') + n <= One(w \in MayNotify) + m
      PROVE  Goal
  <2>1. \A u : u # w => (u \in MayNotify <=> u \in MayNotify')
    BY <1>5 DEF MayNotify
  <2>2. QED
    BY <1>1, <1>2, <1>5, <2>1, MoveBound
<1>6. ASSUME NEW w \in Workers,
             \/ ProcessResponse(w)
             \/ w \in Handlers /\ HandlerThread(w)
             \/ w = RespThread /\ Responder_find
      PROVE  Goal
  <2>1. CASE /\ w \in MayNotify /\ (\A u \in Workers : u # w => wpc'[u] = wpc[u])
             /\ \/ UNCHANGED bq_respond
                \/ w \notin MayNotify' /\ Len(bq_respond') = Len(bq_respond) + 1
    <3>1. One(w \in MayNotify') + n <= One(w \in MayNotify) + m
      BY <1>2, <2>1 DEF One
    <3>2. QED
      BY <1>5, <2>1, <3>1
  <2>2. QED
    BY <1>4, <1>6, <2>1, WorkerMoves
<1>7. CASE Responder_pop
  <2>1. PICK w \in Workers : w = RespThread
    BY WorkersFinite
  <2>2. /\ w \notin MayNotify /\ bq_respond # <<>> /\ bq_respond' = Tail(bq_respond)
        /\ \A u \in Workers : u # w => wpc'[u] = wpc[u]
    BY <1>7, <2>1 DEF Responder_pop, GoesTo, MayNotify, TypeOK, RespondType, WorkType
  <2>3. n + 1 = m
    BY <1>2, <2>2 DEF TypeOK, RespondType, QueueType
  <2>4. One(w \in MayNotify') + n <= One(w \in MayNotify) + m
    BY <2>2, <2>3 DEF One
  <2>5. QED
    BY <1>5, <2>2, <2>4
<1>8. QED
  BY <1>4, <1>6, <1>7, WorkersFinite, OthersDoNotRespond
  DEF Handles, Responds, ResponderThread, workVars

(* What stop() can still lose: past each queue, one per thread before it.  *)
StopBounds ==
    /\ PastHandlers => Cardinality(MayPush) + Len(bq_call) <= num_readers
    /\ PastResponder => Cardinality(MayNotify) + Len(bq_respond) <= num_handlers + 1

(* stop() goes on when it has seen the queue empty; what may still come    *)
(* then is one call or visit per thread, and it does not grow.             *)
LEMMA BoundsStep ==
    ASSUME TypeOK, TypeOK', FlagsRaised, StopBounds, [Next]_vars
    PROVE  StopBounds'
<1> DEFINE A == Cardinality(MayPush) + Len(bq_call)
           B == Cardinality(MayNotify) + Len(bq_respond)
<1>1. /\ PastHandlers' => PastHandlers \/ bq_call' = <<>>
      /\ PastResponder' => PastHandlers /\ (PastResponder \/ bq_respond' = <<>>)
  <2> USE DEF PastHandlers, PastResponder
  <2>1. CASE io_service_exit /\ UNCHANGED <<readStops, handler_stop, stop_index>>
    BY <2>1 DEF io_service_exit, readStops, FlagsRaised
  <2>2. CASE MainThread
    BY <2>2 DEF MainThread, terminate, Reader_waitToFinish, Handler_waitToFinish,
       Responder_waitToFinish, process_exit, Advance
  <2>3. CASE UNCHANGED <<stopping, readStops, handler_stop, stop_index>>
    BY <2>3 DEF readStops
  <2>4. QED
    BY <2>1, <2>2, <2>3, StopsAlone
<1>2. /\ num_readers \in Nat /\ num_handlers + 1 \in Nat
      /\ Cardinality(MayPush) \in Nat /\ Cardinality(MayNotify) \in Nat
      /\ Cardinality(MayPush)' \in Nat /\ Cardinality(MayNotify)' \in Nat
      /\ Cardinality(MayPush)' <= num_readers /\ Cardinality(MayNotify)' <= num_handlers + 1
  <2>1. /\ MayPush \in SUBSET Readers /\ MayNotify \in SUBSET Workers
        /\ MayPush' \in SUBSET Readers /\ MayNotify' \in SUBSET Workers
    BY DEF MayPush, MayNotify
  <2>2. Cardinality(Readers) = num_readers /\ Cardinality(Workers) = num_handlers + 1
    <3>1. num_readers \in Nat /\ num_handlers \in Nat /\ num_readers >= 1
      BY ServerStateAssumption DEF ServerStateAssumption
    <3>2. Cardinality(0 .. num_readers - 1)
            = IF 0 > num_readers - 1 THEN 0 ELSE num_readers - 1 - 0 + 1
      BY <3>1, FS_Interval
    <3>3. Cardinality(0 .. num_handlers) = IF 0 > num_handlers THEN 0 ELSE num_handlers - 0 + 1
      BY <3>1, FS_Interval
    <3>4. QED
      BY <3>1, <3>2, <3>3 DEF Readers, Workers
  <2>3. num_readers \in Nat /\ num_handlers + 1 \in Nat
    BY ServerStateAssumption DEF ServerStateAssumption
  <2>4. QED
    BY <2>1, <2>2, <2>3, WorkersFinite, FS_Subset, FS_CardinalityType
<1>3. /\ Len(bq_call) \in Nat /\ Len(bq_respond) \in Nat
      /\ Len(bq_call)' \in Nat /\ Len(bq_respond)' \in Nat
  BY DEF TypeOK, StateType, SharedType, RespondType, QueueType
<1>4. PastHandlers' => A' <= num_readers
  <2>1. CASE PastHandlers
    BY <1>2, <1>3, <2>1, PushBound DEF StopBounds
  <2>2. CASE bq_call' = <<>>
    BY <1>2, <2>2
  <2>3. QED
    BY <1>1, <2>1, <2>2
<1>5. PastResponder' => B' <= num_handlers + 1
  <2>1. CASE PastHandlers /\ PastResponder
    BY <1>2, <1>3, <2>1, NotifyBound DEF StopBounds
  <2>2. CASE bq_respond' = <<>>
    BY <1>2, <2>2
  <2>3. QED
    BY <1>1, <2>1, <2>2
<1>6. QED
  BY <1>4, <1>5 DEF StopBounds

(* Server::stop() waits for queues and not for threads, so calls are lost  *)
(* when it calls exit(): at most one per thread, however many were in work *)
(* when SIGINT came.                                                       *)
THEOREM StopLosesFew == Spec => []LostAtExit
<1>1. Init => FlagsRaised /\ StopBounds
  BY DEF Init, StateInit, ListenerInit, FlagsRaised, StopBounds, PastHandlers, PastResponder
<1>2. FlagsRaised /\ StopBounds /\ TypeOK /\ TypeOK' /\ [Next]_vars
        => FlagsRaised' /\ StopBounds'
  BY FlagsStep, BoundsStep
<1>3. StopBounds /\ TypeOK /\ AccountInv /\ RespondBalance => LostAtExit
  <2> SUFFICES ASSUME StopBounds, TypeOK, AccountInv, RespondBalance,
                      stopping = "exited", listener_stop
               PROVE  Cardinality(InWork) <= num_readers + num_handlers + 1
    BY DEF LostAtExit
  <2>1. PastHandlers /\ PastResponder
    BY DEF PastHandlers, PastResponder
  <2>2. PICK n \in Nat, u \in Nat, v \in Nat, y \in Nat, z \in Nat :
           /\ n = Cardinality(InWork) /\ n <= u + v + (y + z)
           /\ u = Cardinality(MayPush) /\ v = Len(bq_call)
           /\ y = Cardinality(MayNotify) /\ z = Len(bq_respond)
    BY InWorkBound
  <2>3. num_readers \in Nat /\ num_handlers \in Nat
    BY ServerStateAssumption DEF ServerStateAssumption
  <2>4. u + v <= num_readers /\ y + z <= num_handlers + 1
    BY <2>1, <2>2 DEF StopBounds
  <2>5. n <= num_readers + num_handlers + 1
    <3>1. n <= u + v + (y + z)
      BY <2>2
    <3>2. QED
      BY <2>3, <2>4, <3>1
  <2>6. QED
    BY <2>2, <2>5
<1>4. QED
  BY <1>1, <1>2, <1>3, TypeCorrect, AccountAlways, NoResultLeftBehind, PTL DEF Spec
=============================================================================
