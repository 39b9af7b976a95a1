---------------------------- MODULE ServerProofs ----------------------------
(***************************************************************************)
(* Proofs about the server, for any number of connections, calls, readers  *)
(* and handlers, any queue capacities and any result length.               *)
(***************************************************************************)
EXTENDS Server, FiniteSetTheorems, TLAPS

USE DEF Readers, Handlers, Workers, RespThread, Fates

-----------------------------------------------------------------------------
(* Type correctness: the parts that a step does not touch, then one lemma  *)
(* per thread.                                                             *)

(* The listener's variables keep their types when they keep their values.  *)
LEMMA ListenSame ==
    ASSUME ListenType, aborted = "no", UNCHANGED listenVars
    PROVE  ListenType'
  BY ServerStateAssumption
  DEF ListenType, IoType, PlaceType, ReadType, listenVars, ioVars, placeVars,
      readerVars, readStops, ServerStateAssumption

(* So do the workers' variables ...                                        *)
LEMMA RespondSame ==
    ASSUME RespondType, UNCHANGED respondVars
    PROVE  RespondType'
  BY DEF RespondType, WorkType, QueueType, WorkStopType, respondVars, workVars

(* ... and the clients' ends of the sockets.                               *)
LEMMA PeerSame ==
    ASSUME PeerType, UNCHANGED <<peerVars, got>>
    PROVE  PeerType'
  BY DEF PeerType, peerVars

(* Clients: a call is only counted once it was begun.                      *)
LEMMA ClientType ==
    ASSUME TypeOK, Alive, NEW c \in Conns, Client(c)
    PROVE  TypeOK'
<1>1. ListenType' /\ RespondType' /\ StopType' /\ SharedType'
  BY ListenSame, RespondSame
  DEF TypeOK, StateType, Client, Alive, fate, registry, StopType, SharedType
<1>2. PeerType'
  <2> USE ServerStateAssumption DEF ServerStateAssumption, TypeOK, StateType, PeerType
  <2>1. CASE ClientConnect(c)
    BY <2>1 DEF Client, ClientConnect
  <2>2. CASE ClientSends(c)
    BY <2>2 DEF Client, ClientSends
  <2>3. CASE ClientFinishes(c)
    BY <2>3 DEF Client, ClientFinishes
  <2>4. CASE ClientGarbles(c)
    BY <2>4 DEF Client, ClientGarbles
  <2>5. CASE ClientCloses(c)
    BY <2>5 DEF Client, ClientCloses
  <2>6. QED
    BY <2>1, <2>2, <2>3, <2>4, <2>5 DEF Client
<1>3. QED
  BY <1>1, <1>2 DEF TypeOK, StateType

(* The listener thread.                                                    *)
LEMMA ListenerType ==
    ASSUME TypeOK, Listens \/ AcceptFails
    PROVE  TypeOK'
<1> USE ServerStateAssumption DEF ServerStateAssumption
<1>r. RespondType'
  BY RespondSame DEF TypeOK, Listens, AcceptFails
<1>a. Alive /\ aborted = "no" /\ UNCHANGED stop_index
  BY DEF Listens, AcceptFails, Alive
<1> DEFINE Rest == /\ PeerType' /\ SharedType' /\ IoType'
                   /\ PlaceType' /\ ReadType' /\ StopType'
<1> SUFFICES Rest
  BY <1>r DEF TypeOK, StateType, ListenType
<1> USE <1>a DEF TypeOK, StateType, ListenType, stateVars, peerVars, registry,
                fate, ioVars, placeVars, readerVars, readStops
<1>1. ASSUME NEW c \in Conns, handle_accept(c) PROVE Rest
  <2>1. SharedType' /\ PlaceType' /\ ReadType' /\ StopType' /\ PeerType'
    BY <1>1, PeerSame DEF handle_accept, SharedType, PlaceType, ReadType, StopType
  <2>2. IoType'
    <3>0. armed' = armed \/ armed' = [armed EXCEPT ![c] = @ + 1]
      BY <1>1, Zenon DEF handle_accept
    <3>1. armed' \in [Conns -> Nat] /\ accepted' \in SUBSET Conns
      BY <1>1, <3>0 DEF handle_accept, IoType
    <3>2. accepting' \in BOOLEAN
      BY <1>1, Zenon DEF handle_accept, IoType
    <3>3. QED
      BY <1>1, <3>1, <3>2 DEF handle_accept, IoType
  <2>3. QED
    BY <2>1, <2>2
<1>2. ASSUME NEW c \in Conns, handle_read(c) PROVE Rest
  <2>1. ReadType' /\ StopType' /\ PeerType'
    BY <1>2, PeerSame DEF handle_read, ReadType, StopType
  <2>2. SharedType'
    BY <1>2 DEF handle_read, SharedType
  <2>3. IoType'
    BY <1>2 DEF handle_read, IoType
  <2>4. PlaceType'
    BY <1>2 DEF handle_read, PlaceType
  <2>5. QED
    BY <2>1, <2>2, <2>3, <2>4
<1>3. CASE io_service_exit
  <2>1. PlaceType' /\ ReadType' /\ PeerType'
    BY <1>3, PeerSame DEF io_service_exit, PlaceType, ReadType
  <2>2. SharedType'
    BY <1>3 DEF io_service_exit, SharedType
  <2>3. IoType'
    BY <1>3 DEF io_service_exit, IoType
  <2>4. StopType'
    BY <1>3 DEF io_service_exit, StopType
  <2>5. QED
    BY <2>1, <2>2, <2>3, <2>4
<1>4. CASE addToReader
  <2>1. SharedType' /\ IoType' /\ ReadType' /\ StopType' /\ PeerType'
    BY <1>4, PeerSame DEF addToReader, SharedType, IoType, ReadType, StopType
  <2>2. PlaceType'
    BY <1>4 DEF addToReader, PlaceType
  <2>3. QED
    BY <2>1, <2>2
<1>5. CASE addToReader_full
  <2>1. IoType' /\ ReadType' /\ StopType' /\ PeerType'
    BY <1>5, PeerSame DEF addToReader_full, IoType, ReadType, StopType
  <2>2. SharedType'
    BY <1>5 DEF addToReader_full, SharedType
  <2>3. PlaceType'
    BY <1>5 DEF addToReader_full, PlaceType
  <2>4. QED
    BY <2>1, <2>2, <2>3
<1>6. CASE handle_accept_error
  <2>1. SharedType' /\ IoType' /\ PlaceType' /\ ReadType' /\ StopType' /\ PeerType'
    BY <1>6, PeerSame DEF handle_accept_error, SharedType, IoType, PlaceType, ReadType, StopType
  <2>2. QED
    BY <2>1
<1>7. QED
  BY <1>1, <1>2, <1>3, <1>4, <1>5, <1>6 DEF Listens, AcceptFails, ListenerThread

(* A reader thread.                                                        *)
LEMMA ReaderType ==
    ASSUME TypeOK, NEW r \in Readers, Reads(r)
    PROVE  TypeOK'
<1> USE ServerStateAssumption DEF ServerStateAssumption
<1>r. RespondType'
  BY RespondSame DEF TypeOK, Reads
<1>a. Alive /\ aborted = "no" /\ UNCHANGED stop_index
  BY DEF Reads, Alive
<1> DEFINE Rest == /\ PeerType' /\ SharedType' /\ IoType'
                   /\ PlaceType' /\ ReadType' /\ StopType'
<1> SUFFICES Rest
  BY <1>r DEF TypeOK, StateType, ListenType
<1> USE <1>a DEF TypeOK, StateType, ListenType, stateVars, peerVars, registry,
                fate, ioVars, placeVars, readerVars, readStops
<1>1. CASE Reader_pop(r)
  <2>1. SharedType' /\ IoType' /\ StopType' /\ PeerType'
    BY <1>1, PeerSame DEF Reader_pop, SharedType, IoType, StopType
  <2>2. PlaceType'
    BY <1>1 DEF Reader_pop, PlaceType
  <2>3. ReadType'
    BY <1>1 DEF Reader_pop, ReadType, PlaceType
  <2>4. QED
    BY <2>1, <2>2, <2>3
<1>2. CASE Call_read(r)
  <2>1. SharedType' /\ IoType' /\ PlaceType' /\ StopType'
    BY <1>2 DEF Call_read, SharedType, IoType, PlaceType, StopType
  <2>a. PICK c \in Conns : c = rconn[r]
    BY <1>2 DEF Call_read, ReadType
  <2>b. got[c] + 1 \in 1 .. MaxCalls /\ got[c] + 1 <= sent[c]
    BY <1>2, <2>a DEF Call_read, PeerType
  <2>2. PeerType'
    BY <1>2, <2>a, <2>b DEF Call_read, PeerType
  <2>3. ReadType'
    BY <1>2, <2>a, <2>b DEF Call_read, ReadType
  <2>4. QED
    BY <2>1, <2>2, <2>3
<1>3. CASE Call_read_fails(r)
  <2>1. SharedType' /\ IoType' /\ PlaceType' /\ StopType' /\ PeerType'
    BY <1>3, PeerSame DEF Call_read_fails, SharedType, IoType, PlaceType, StopType
  <2>2. ReadType'
    BY <1>3 DEF Call_read_fails, ReadType
  <2>3. QED
    BY <2>1, <2>2
<1>4. CASE close_connection(r)
  <2>1. IoType' /\ PlaceType' /\ StopType' /\ PeerType'
    BY <1>4, PeerSame DEF close_connection, IoType, PlaceType, StopType
  <2>a. PICK c \in Conns : c = rconn[r]
    BY <1>4 DEF close_connection, ReadType
  <2>2. SharedType'
    BY <1>4, <2>a DEF close_connection, SharedType
  <2>3. ReadType'
    BY <1>4 DEF close_connection, ReadType, ReaderLoops
  <2>4. QED
    BY <2>1, <2>2, <2>3
<1>5. CASE Reader_push(r)
  <2>1. IoType' /\ StopType' /\ PeerType'
    BY <1>5, PeerSame DEF Reader_push, IoType, StopType
  <2>p. rpc[r] = "push"
    BY <1>5 DEF Reader_push
  <2>c. rconn[r] \in Conns
    BY <2>p DEF ReadType
  <2>i. rid[r] \in 1 .. MaxCalls
    BY <2>p DEF ReadType
  <2>b. PICK x \in Call : x = <<rconn[r], rid[r]>>
    BY <2>c, <2>i DEF Call
  <2>2. SharedType'
    <3>1. CASE Len(bq_call) < max_num_calls
      <4>1. bq_call' = Append(bq_call, x)
        BY <1>5, <2>b, <3>1 DEF Reader_push
      <4>2. bq_call' \in Seq(Call) /\ Len(bq_call') <= max_num_calls
        BY <3>1, <4>1 DEF SharedType
      <4>3. QED
        BY <1>5, <3>1, <4>2 DEF Reader_push, SharedType
    <3>2. CASE ~(Len(bq_call) < max_num_calls)
      BY <1>5, <3>2 DEF Reader_push, SharedType
    <3>3. QED
      BY <3>1, <3>2
  <2>3. PlaceType'
    BY <1>5 DEF Reader_push, PlaceType
  <2>4. ReadType'
    BY <1>5 DEF Reader_push, ReadType
  <2>5. QED
    BY <2>1, <2>2, <2>3, <2>4
<1>6. CASE Reader_rearm(r)
  <2>1. SharedType' /\ PlaceType' /\ StopType' /\ PeerType'
    BY <1>6, PeerSame DEF Reader_rearm, SharedType, PlaceType, StopType
  <2>a. PICK c \in Conns : c = rconn[r]
    BY <1>6 DEF Reader_rearm, ReadType
  <2>2. IoType'
    BY <1>6, <2>a DEF Reader_rearm, IoType
  <2>3. ReadType'
    BY <1>6 DEF Reader_rearm, ReadType, ReaderLoops
  <2>4. QED
    BY <2>1, <2>2, <2>3
<1>7. QED
  BY <1>1, <1>2, <1>3, <1>4, <1>5, <1>6 DEF Reads, ReaderThread

(* A worker going back to the top of its loop.                             *)
LEMMA LoopsType ==
    ASSUME WorkType, NEW w \in Workers, Loops(w)
    PROVE  WorkType'
  BY ServerStateAssumption DEF WorkType, Loops, ServerStateAssumption

(* NotifyResponder either pushes within the capacity of _bq_respond or     *)
(* aborts.                                                                 *)
LEMMA NotifyType ==
    ASSUME TypeOK, NEW w \in Workers, NEW queue,
           queue \in Seq(Conns), Len(queue) = Len(bq_respond) + 1,
           NotifyResponder(w, queue)
    PROVE  WorkType' /\ QueueType' /\ aborted' \in Fates
<1> USE ServerStateAssumption, ResponderAssumption
    DEF ServerStateAssumption, ResponderAssumption
<1>1. CASE Len(bq_respond) < max_repsond_size
  <2>1. WorkType'
    BY <1>1, LoopsType DEF NotifyResponder, TypeOK, RespondType
  <2>2. QueueType' /\ aborted' \in Fates
    BY <1>1 DEF NotifyResponder, TypeOK, RespondType, QueueType, StateType, SharedType
  <2>3. QED
    BY <2>1, <2>2
<1>2. CASE ~(Len(bq_respond) < max_repsond_size)
  BY <1>2 DEF NotifyResponder, TypeOK, RespondType, WorkType, QueueType, workVars
<1>3. QED
  BY <1>1, <1>2
(* What a worker's step has to show.                                       *)
WorkerOK == WorkType' /\ QueueType' /\ aborted' \in Fates

(* processResponse, on whichever thread.                                   *)
LEMMA ProcessResponseType ==
    ASSUME TypeOK, NEW w \in Workers, ProcessResponse(w)
    PROVE  WorkerOK
<1> USE ServerStateAssumption, ResponderAssumption
    DEF ServerStateAssumption, ResponderAssumption, TypeOK, RespondType, StateType
<1>0. aborted \in Fates
  BY DEF SharedType
<1>1. CASE processResponse_pop(w)
  <2>1. PICK c \in Conns : c = wconn[w]
    BY <1>1 DEF processResponse_pop, WorkType
  <2>2. CASE respond_queue[c] # <<>>
    <3>1. PICK x \in Call : x = Head(respond_queue[c])
      BY <2>2 DEF QueueType
    <3>2. WorkType'
      BY <1>1, <2>1, <2>2, <3>1 DEF processResponse_pop, WorkType, GoesTo
    <3>a. /\ respond_queue' = [respond_queue EXCEPT ![c] = Tail(respond_queue[c])]
          /\ UNCHANGED <<pos, bq_respond, out, aborted>>
      BY <1>1, <2>1, <2>2 DEF processResponse_pop
    <3>b. /\ Tail(respond_queue[c]) \in Seq(Call)
          /\ Len(Tail(respond_queue[c])) <= max_respond_size
      BY <2>2 DEF QueueType
    <3>3. QueueType' /\ aborted' \in Fates
      BY <1>0, <3>a, <3>b DEF QueueType
    <3>4. QED
      BY <3>2, <3>3 DEF WorkerOK
  <2>3. CASE respond_queue[c] = <<>>
    <3>1. ResponseFails(w) /\ UNCHANGED <<respond_queue, pos, bq_respond, out>>
      BY <1>1, <2>1, <2>3 DEF processResponse_pop
    <3>2. WorkType' /\ aborted' \in Fates
      BY <1>0, <3>1, LoopsType DEF ResponseFails, WorkType, workVars
    <3>3. QED
      BY <3>1, <3>2 DEF WorkerOK, QueueType
  <2>4. QED
    BY <2>2, <2>3
<1>2. ASSUME NEW n \in 1 .. ValueLen, processResponse_write(w, n) PROVE WorkerOK
  <2>1. PICK c \in Conns : c = wconn[w]
    BY <1>2 DEF processResponse_write, WorkType
  <2>2. PICK x \in Call : x = wcall[w]
    BY <1>2 DEF processResponse_write, WorkType
  <2>3. pos[x] \in 0 .. ValueLen - 1 /\ pos[x] + n \in 1 .. ValueLen
    BY <1>2, <2>2 DEF processResponse_write, QueueType
  <2>a. pos[x] \in 0 .. ValueLen /\ pos[x] + n \in 0 .. ValueLen
    BY <2>3
  <2>4. PICK seg \in Segment : seg = [call |-> x, from |-> pos[x], to |-> pos[x] + n]
    BY <2>a, Zenon DEF Segment
  <2>5. out' \in [Conns -> Seq(Segment)]
    <3>1. out' = [out EXCEPT ![c] = Append(@, seg)]
      BY <1>2, <2>1, <2>2, <2>4 DEF processResponse_write
    <3>2. QED
      BY <3>1 DEF QueueType
  <2>6. CASE pos[x] + n = ValueLen
    <3>1. Loops(w) /\ UNCHANGED <<pos, respond_queue, aborted, bq_respond>>
      BY <1>2, <2>2, <2>6 DEF processResponse_write
    <3>2. QED
      BY <1>0, <2>5, <3>1, LoopsType DEF WorkerOK, QueueType
  <2>7. CASE pos[x] + n # ValueLen
    <3>1. pos' = [pos EXCEPT ![x] = pos[x] + n] /\ UNCHANGED bq_respond
      BY <1>2, <2>2, <2>7 DEF processResponse_write
    <3>2. pos' \in [Call -> 0 .. ValueLen - 1]
      BY <2>3, <2>7, <3>1 DEF QueueType
    <3>3. CASE Len(respond_queue[c]) < max_respond_size
      <4>1. /\ respond_queue' = [respond_queue EXCEPT ![c] = Append(@, x)]
            /\ wcall' = [wcall EXCEPT ![w] = NoCall]
            /\ GoesTo(w, "again")
            /\ UNCHANGED <<wconn, aborted>>
        BY <1>2, <2>1, <2>2, <2>7, <3>3 DEF processResponse_write
      <4>2. WorkType'
        BY <2>1, <4>1 DEF WorkType, GoesTo
      <4>3. QueueType'
        BY <2>5, <3>1, <3>2, <3>3, <4>1 DEF QueueType
      <4>4. QED
        BY <1>0, <4>1, <4>2, <4>3 DEF WorkerOK
    <3>4. CASE ~(Len(respond_queue[c]) < max_respond_size)
      <4>1. ResponseFails(w) /\ UNCHANGED respond_queue
        BY <1>2, <2>1, <2>2, <2>7, <3>4 DEF processResponse_write
      <4>2. WorkType' /\ aborted' \in Fates
        BY <1>0, <4>1, LoopsType DEF ResponseFails, WorkType, workVars
      <4>3. QED
        BY <2>5, <3>1, <3>2, <4>1, <4>2 DEF WorkerOK, QueueType
    <3>5. QED
      BY <3>3, <3>4
  <2>8. QED
    BY <2>6, <2>7
<1>3. CASE processResponse_throws(w)
  <2>1. ResponseFails(w) /\ UNCHANGED <<respond_queue, pos, bq_respond, out>>
    BY <1>3 DEF processResponse_throws
  <2>2. WorkType' /\ aborted' \in Fates
    BY <1>0, <2>1, LoopsType DEF ResponseFails, WorkType, workVars
  <2>3. QED
    BY <2>1, <2>2 DEF WorkerOK, QueueType
<1>4. CASE processResponse_again(w)
  <2>1. PICK c \in Conns : c = wconn[w]
    BY <1>4 DEF processResponse_again, WorkType
  <2>2. <<c>> \o bq_respond \in Seq(Conns) /\ Len(<<c>> \o bq_respond) = Len(bq_respond) + 1
    BY DEF QueueType
  <2>3. NotifyResponder(w, <<c>> \o bq_respond)
    BY <1>4, <2>1 DEF processResponse_again
  <2>4. QED
    BY <2>2, <2>3, NotifyType DEF WorkerOK
<1>5. QED
  BY <1>1, <1>2, <1>3, <1>4 DEF ProcessResponse
(* A worker's step leaves the listener's side alone.                       *)
LEMMA WorkerFrame ==
    ASSUME TypeOK, aborted = "no", WorkerOK,
           UNCHANGED <<peerVars, got, sock_open, registry, stopping, listenVars,
                       handler_stop, responder_stop, stop_index>>,
           bq_call' \in Seq(Call), Len(bq_call') <= max_num_calls
    PROVE  TypeOK'
<1>1. ListenType' /\ PeerType'
  BY ListenSame, PeerSame DEF TypeOK, StateType
<1>2. SharedType' /\ StopType' /\ RespondType'
  BY DEF TypeOK, StateType, RespondType, SharedType, StopType, WorkStopType,
         WorkerOK, registry
<1>3. QED
  BY <1>1, <1>2 DEF TypeOK, StateType

(* A handler thread.                                                       *)
LEMMA HandlerType ==
    ASSUME TypeOK, NEW h \in Handlers, Handles(h)
    PROVE  TypeOK'
<1> USE ServerStateAssumption, ResponderAssumption
    DEF ServerStateAssumption, ResponderAssumption, TypeOK, RespondType, StateType
<1>0. /\ aborted = "no" /\ aborted \in Fates /\ h \in Workers
      /\ UNCHANGED <<listenVars, stop_index>>
      /\ bq_call \in Seq(Call) /\ Len(bq_call) <= max_num_calls
  BY DEF Handles, Alive, SharedType
<1>1. CASE Handler_pop(h)
  <2>1. PICK x \in Call : x = Head(bq_call)
    BY <1>0, <1>1 DEF Handler_pop
  <2>2. WorkType'
    BY <1>0, <1>1, <2>1 DEF Handler_pop, WorkType, GoesTo
  <2>3. QueueType' /\ aborted' \in Fates
    BY <1>0, <1>1 DEF Handler_pop, QueueType, fate
  <2>4. bq_call' \in Seq(Call) /\ Len(bq_call') <= max_num_calls
    BY <1>0, <1>1 DEF Handler_pop
  <2>5. QED
    BY <1>0, <1>1, <2>2, <2>3, <2>4, WorkerFrame DEF Handler_pop, WorkerOK, fate
<1>2. CASE Method_call(h)
  <2>1. WorkType' /\ aborted' \in Fates
    BY <1>0, <1>2 DEF Method_call, WorkType, GoesTo
  <2>2. QueueType'
    BY <1>2 DEF Method_call, QueueType
  <2>3. QED
    BY <1>0, <1>2, <2>1, <2>2, WorkerFrame DEF Method_call, WorkerOK, SameState
<1>3. CASE doRespond_push(h)
  <2>1. PICK x \in Call : x = wcall[h]
    BY <1>0, <1>3 DEF doRespond_push, WorkType
  <2>2. PICK c \in Conns : c = x[1]
    BY DEF Call
  <2>3. WorkerOK
    <3>1. CASE Len(respond_queue[c]) < max_respond_size
      <4>1. /\ respond_queue' = [respond_queue EXCEPT ![c] = Append(@, x)]
            /\ wconn' = [wconn EXCEPT ![h] = c]
            /\ wcall' = [wcall EXCEPT ![h] = NoCall]
            /\ wpc' = [wpc EXCEPT ![h] = "size"]
            /\ UNCHANGED <<aborted, pos, bq_respond, out>>
        BY <1>3, <2>1, <2>2, <3>1 DEF doRespond_push, GoesTo
      <4>2. WorkType'
        BY <1>0, <4>1 DEF WorkType
      <4>3. QueueType'
        BY <3>1, <4>1 DEF QueueType
      <4>4. QED
        BY <1>0, <4>1, <4>2, <4>3 DEF WorkerOK
    <3>2. CASE ~(Len(respond_queue[c]) < max_respond_size)
      <4>1. /\ aborted' = "respond_queue_full"
            /\ UNCHANGED <<respond_queue, workVars, pos, bq_respond, out>>
        BY <1>3, <2>1, <2>2, <3>2 DEF doRespond_push
      <4>2. QED
        BY <4>1 DEF WorkerOK, WorkType, QueueType, workVars
    <3>3. QED
      BY <3>1, <3>2
  <2>4. QED
    BY <1>0, <1>3, <2>3, WorkerFrame DEF doRespond_push, SameState
<1>4. CASE doRespond_size(h)
  <2>1. WorkType'
    <3>1. PICK to \in {"take", "notify"} : wpc' = [wpc EXCEPT ![h] = to]
      BY <1>4 DEF doRespond_size, GoesTo
    <3>2. QED
      BY <1>0, <1>4, <3>1 DEF doRespond_size, WorkType
  <2>2. QueueType' /\ aborted' \in Fates
    BY <1>0, <1>4 DEF doRespond_size, QueueType, SameState
  <2>3. QED
    BY <1>0, <1>4, <2>1, <2>2, WorkerFrame DEF doRespond_size, WorkerOK, SameState
<1>5. CASE doRespond_notify(h)
  <2>1. PICK c \in Conns : c = wconn[h]
    BY <1>0, <1>5 DEF doRespond_notify, WorkType
  <2>2. Append(bq_respond, c) \in Seq(Conns) /\ Len(Append(bq_respond, c)) = Len(bq_respond) + 1
    BY DEF QueueType
  <2>3. NotifyResponder(h, Append(bq_respond, c))
    BY <1>5, <2>1 DEF doRespond_notify
  <2>4. WorkerOK
    BY <1>0, <2>2, <2>3, NotifyType DEF WorkerOK
  <2>5. QED
    BY <1>0, <2>3, <2>4, WorkerFrame DEF NotifyResponder, SameState
<1>6. CASE ProcessResponse(h)
  <2>1. WorkerOK
    BY <1>0, <1>6, ProcessResponseType
  <2>2. UNCHANGED <<peerVars, got, sock_open, registry, stopping, bq_call,
                    handler_stop, responder_stop>>
    BY <1>6 DEF ProcessResponse, processResponse_pop, processResponse_write,
         processResponse_throws, processResponse_again, NotifyResponder, SameState
  <2>3. QED
    BY <1>0, <2>1, <2>2, WorkerFrame
<1>7. QED
  BY <1>1, <1>2, <1>3, <1>4, <1>5, <1>6 DEF Handles, HandlerThread

(* The responder thread.                                                   *)
LEMMA ResponderType ==
    ASSUME TypeOK, Responds
    PROVE  TypeOK'
<1> USE ServerStateAssumption, ResponderAssumption
    DEF ServerStateAssumption, ResponderAssumption, TypeOK, RespondType, StateType
<1>0. /\ aborted = "no" /\ aborted \in Fates /\ RespThread \in Workers
      /\ UNCHANGED <<listenVars, stop_index>>
      /\ bq_call \in Seq(Call) /\ Len(bq_call) <= max_num_calls
  BY DEF Responds, Alive, SharedType
<1>1. CASE Responder_pop
  <2>1. PICK c \in Conns : c = Head(bq_respond)
    BY <1>1 DEF Responder_pop, QueueType
  <2>2. WorkType'
    BY <1>0, <1>1, <2>1 DEF Responder_pop, WorkType, GoesTo
  <2>3. QueueType' /\ aborted' \in Fates
    BY <1>0, <1>1 DEF Responder_pop, QueueType, SameState
  <2>4. QED
    BY <1>0, <1>1, <2>2, <2>3, WorkerFrame DEF Responder_pop, WorkerOK, SameState
<1>2. CASE Responder_find
  <2>1. WorkType' /\ aborted' \in Fates
    BY <1>0, <1>2 DEF Responder_find, WorkType, GoesTo
  <2>2. QueueType'
    BY <1>2 DEF Responder_find, QueueType
  <2>3. QED
    BY <1>0, <1>2, <2>1, <2>2, WorkerFrame DEF Responder_find, WorkerOK, SameState
<1>3. CASE ProcessResponse(RespThread)
  <2>1. WorkerOK
    BY <1>0, <1>3, ProcessResponseType
  <2>2. UNCHANGED <<peerVars, got, sock_open, registry, stopping, bq_call,
                    handler_stop, responder_stop>>
    BY <1>3 DEF ProcessResponse, processResponse_pop, processResponse_write,
         processResponse_throws, processResponse_again, NotifyResponder, SameState
  <2>3. QED
    BY <1>0, <2>1, <2>2, WorkerFrame
<1>4. QED
  BY <1>1, <1>2, <1>3 DEF Responds, ResponderThread
(* Server::stop().                                                         *)
LEMMA StopsType ==
    ASSUME TypeOK, Stops
    PROVE  TypeOK'
<1> USE ServerStateAssumption DEF ServerStateAssumption
<1>1. PeerType' /\ WorkType' /\ QueueType' /\ PlaceType'
  BY PeerSame DEF TypeOK, StateType, ListenType, RespondType, Stops, MainThread, WorkType,
     QueueType, PlaceType, workVars, placeVars
<1>2. SharedType' /\ IoType' /\ ReadType' /\ WorkStopType' /\ StopType'
  <2> USE DEF TypeOK, StateType, ListenType, RespondType, Stops, MainThread,
              registry, ioVars, readerVars, SharedType, IoType, ReadType,
              WorkStopType, StopType
  <2>1. CASE terminate
    BY <2>1 DEF terminate
  <2>2. CASE Reader_waitToFinish
    BY <2>2 DEF Reader_waitToFinish, Advance
  <2>3. CASE Handler_waitToFinish
    BY <2>3 DEF Handler_waitToFinish, Advance
  <2>4. CASE Responder_waitToFinish
    BY <2>4 DEF Responder_waitToFinish
  <2>5. CASE process_exit
    BY <2>5 DEF process_exit
  <2>6. QED
    BY <2>1, <2>2, <2>3, <2>4, <2>5
<1>3. QED
  BY <1>1, <1>2 DEF TypeOK, StateType, ListenType, RespondType

(* Every step preserves the types.                                         *)
LEMMA TypeStep ==
    ASSUME TypeOK, [Next]_vars
    PROVE  TypeOK'
<1>1. CASE UNCHANGED vars
  <2>1. StateType' /\ RespondType' /\ StopType'
    BY <1>1, RespondSame, PeerSame
    DEF TypeOK, StateType, SharedType, StopType, vars, stateVars, fate, registry
  <2>2. ListenType'
    BY <1>1 DEF TypeOK, ListenType, IoType, PlaceType, ReadType, vars, stateVars, fate,
       listenVars, ioVars, placeVars, readerVars, readStops
  <2>3. QED
    BY <2>1, <2>2 DEF TypeOK
<1>2. CASE Next
  BY <1>2, ClientType, ListenerType, ReaderType, HandlerType, ResponderType, StopsType
  DEF Next
<1>3. QED
  BY <1>1, <1>2

(* The server's variables always have their types: no queue exceeds its    *)
(* capacity, the round-robin index and stop()'s index stay in range, and   *)
(* a thread that reads or writes holds the connection and the call it      *)
(* needs.                                                                  *)
THEOREM TypeCorrect == Spec => []TypeOK
<1>1. Init => TypeOK
  <2> SUFFICES ASSUME Init PROVE TypeOK
    OBVIOUS
  <2> USE ServerStateAssumption, ResponderAssumption
      DEF ServerStateAssumption, ResponderAssumption, Init, StateInit, ListenerInit,
          ResponderInit
  <2>1. PeerType /\ SharedType /\ StopType
    <3>1. PeerType
      BY DEF PeerType
    <3>2. bq_call \in Seq(Call) /\ Len(bq_call) <= max_num_calls
      OBVIOUS
    <3>3. sock_open \in [Conns -> BOOLEAN]
      BY Zenon
    <3>4. QED
      BY <3>1, <3>2, <3>3 DEF SharedType, StopType
  <2>2. IoType /\ PlaceType /\ ReadType
    <3>1. IoType
      BY DEF IoType
    <3>2. bq_conn \in [Readers -> Seq(Conns)]
      <4>1. <<>> \in Seq(Conns)
        OBVIOUS
      <4>2. QED
        BY <4>1, Zenon
    <3>3. \A r \in Readers : Len(bq_conn[r]) <= max_reader_queue_size
      OBVIOUS
    <3>4. PlaceType
      BY <3>2, <3>3 DEF PlaceType
    <3>5. ReadType
      BY DEF ReadType
    <3>6. QED
      BY <3>1, <3>4, <3>5
  <2>3. WorkType /\ QueueType /\ WorkStopType
    <3>1. WorkType
      BY DEF WorkType
    <3>2. WorkStopType
      BY Zenon DEF WorkStopType
    <3>3. /\ respond_queue \in [Conns -> Seq(Call)] /\ out \in [Conns -> Seq(Segment)]
          /\ \A c \in Conns : Len(respond_queue[c]) <= max_respond_size
      <4>1. <<>> \in Seq(Call) /\ <<>> \in Seq(Segment) /\ Len(<<>>) <= max_respond_size
        OBVIOUS
      <4>2. QED
        BY <4>1
    <3>4. QueueType
      BY <3>3 DEF QueueType
    <3>5. QED
      BY <3>1, <3>2, <3>4
  <2>4. QED
    BY <2>1, <2>2, <2>3 DEF TypeOK, StateType, ListenType, RespondType
<1>2. QED
  BY <1>1, TypeStep, PTL DEF Spec
=============================================================================
