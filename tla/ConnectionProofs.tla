-------------------------- MODULE ConnectionProofs --------------------------
(***************************************************************************)
(* One reader per socket, the connection registry, no socket that is       *)
(* forgotten and the calls of each connection in order, for any number of  *)
(* connections, readers and handlers.                                      *)
(***************************************************************************)
EXTENDS ServerProofs

(* The variables SocketsOwned is about.                                    *)
ownVars == <<armed, l_conn, bq_conn, rconn, accepted, sock_open, connections>>

(* It is kept by steps that leave them alone.                              *)
LEMMA OwnedSame ==
    ASSUME SocketsOwned, UNCHANGED ownVars
    PROVE  SocketsOwned'
  BY DEF SocketsOwned, OneReaderPerSocket, Registered, InReader, Queued, Listening, ownVars

(* A push onto a reader's queue adds just that connection to Queued.       *)
LEMMA QueuedAfterPush ==
    ASSUME PlaceType, NEW x \in Readers, NEW d \in Conns,
           bq_conn' = [bq_conn EXCEPT ![x] = Append(@, d)],
           NEW c \in Conns, NEW r \in Readers
    PROVE  Queued(c, r)' <=> Queued(c, r) \/ (r = x /\ c = d)
<1>1. CASE r # x
  BY <1>1 DEF Queued, PlaceType
<1>2. CASE r = x
  <2>1. /\ bq_conn'[x] = Append(bq_conn[x], d)
        /\ bq_conn[x] \in Seq(Conns)
    BY DEF PlaceType
  <2>2. /\ DOMAIN bq_conn'[x] = 1 .. Len(bq_conn[x]) + 1
        /\ \A i \in 1 .. Len(bq_conn[x]) : bq_conn'[x][i] = bq_conn[x][i]
        /\ bq_conn'[x][Len(bq_conn[x]) + 1] = d
        /\ DOMAIN bq_conn[x] = 1 .. Len(bq_conn[x])
        /\ Len(bq_conn[x]) \in Nat
    BY <2>1
  <2>3. QED
    BY <1>2, <2>2 DEF Queued
<1>3. QED
  BY <1>1, <1>2

(* A pop adds nothing to Queued, and its head was there.                   *)
LEMMA QueuedAfterPop ==
    ASSUME PlaceType, NEW x \in Readers, bq_conn[x] # <<>>,
           bq_conn' = [bq_conn EXCEPT ![x] = Tail(@)],
           NEW c \in Conns, NEW r \in Readers
    PROVE  /\ Queued(c, r)' => Queued(c, r)
           /\ Queued(Head(bq_conn[x]), x)
<1>1. /\ bq_conn'[x] = Tail(bq_conn[x])
      /\ bq_conn[x] \in Seq(Conns)
  BY DEF PlaceType
<1>2. /\ DOMAIN bq_conn'[x] = 1 .. Len(bq_conn[x]) - 1
      /\ \A i \in DOMAIN bq_conn'[x] : /\ i + 1 \in DOMAIN bq_conn[x]
                                       /\ bq_conn'[x][i] = bq_conn[x][i + 1]
      /\ 1 \in DOMAIN bq_conn[x] /\ Head(bq_conn[x]) = bq_conn[x][1]
  <2>1. PICK q \in Seq(Conns) : q = bq_conn[x]
    BY <1>1
  <2>2. q # <<>> /\ bq_conn'[x] = Tail(q)
    BY <1>1, <2>1
  <2>3. Len(q) \in Nat \ {0} /\ DOMAIN q = 1 .. Len(q)
    BY <2>2
  <2>4. Tail(q) \in Seq(Conns) /\ Len(Tail(q)) = Len(q) - 1
    BY <2>2
  <2>5. \A i \in 1 .. Len(q) - 1 : Tail(q)[i] = q[i + 1]
    BY <2>2
  <2>6. DOMAIN Tail(q) = 1 .. Len(q) - 1
    BY <2>3, <2>4
  <2>7. Head(q) = q[1]
    BY <2>2
  <2>8. \A i \in DOMAIN Tail(q) : i + 1 \in DOMAIN q /\ Tail(q)[i] = q[i + 1]
    BY <2>3, <2>5, <2>6
  <2>9. 1 \in DOMAIN q
    BY <2>3
  <2>10. QED
    BY <2>1, <2>2, <2>6, <2>7, <2>8, <2>9, Zenon
<1>3. Queued(Head(bq_conn[x]), x)
  BY <1>2 DEF Queued
<1>4. Queued(c, r)' => Queued(c, r)
  <2>1. CASE r # x
    BY <2>1 DEF Queued, PlaceType
  <2>2. CASE r = x
    BY <1>2, <2>2 DEF Queued
  <2>3. QED
    BY <2>1, <2>2
<1>5. QED
  BY <1>3, <1>4

(* No connection is twice in a reader's queue, or there and in its hands.  *)
Distinct(r) ==
    \A i \in DOMAIN bq_conn[r] :
        /\ bq_conn[r][i] # rconn[r]
        /\ \A j \in DOMAIN bq_conn[r] : bq_conn[r][i] = bq_conn[r][j] => i = j

(* handle_accept arms a socket that was nowhere.                           *)
LEMMA OwnedAccept ==
    ASSUME TypeOK, SocketsOwned, NEW c \in Conns, handle_accept(c)
    PROVE  SocketsOwned'
<1>1. /\ accepted' = accepted \cup {c}
      /\ armed' = armed \/ armed' = [armed EXCEPT ![c] = @ + 1]
      /\ c \notin accepted
  BY Zenon DEF handle_accept
<1>2. UNCHANGED <<l_conn, bq_conn, rconn, sock_open, connections>>
  BY DEF handle_accept, placeVars, readerVars, stateVars, registry
<1>3. armed \in [Conns -> Nat]
  BY DEF TypeOK, ListenType, IoType
<1>4. armed[c] = 0 /\ l_conn # c /\ \A r \in Readers : ~InReader(c, r)
  BY <1>1, <1>3 DEF SocketsOwned, Listening
<1>5. \A d \in Conns : armed'[d] = armed[d] \/ (d = c /\ armed'[d] = 1)
  BY <1>1, <1>3, <1>4
<1>6. \A d \in Conns, r \in Readers : InReader(d, r)' <=> InReader(d, r)
  BY <1>2 DEF InReader, Queued
<1>7. QED
  BY <1>1, <1>2, <1>3, <1>4, <1>5, <1>6
  DEF SocketsOwned, OneReaderPerSocket, Registered, Listening

(* handle_read takes the socket from async_read_some into its hands, or    *)
(* drops it when the listener is stopping.                                 *)
LEMMA OwnedRead ==
    ASSUME TypeOK, SocketsOwned, NEW c \in Conns, handle_read(c)
    PROVE  SocketsOwned'
<1>1. /\ armed' = [armed EXCEPT ![c] = @ - 1]
      /\ armed[c] > 0 /\ l_conn = NoConn
      /\ \/ l_conn' = l_conn /\ connections' = connections
         \/ l_conn' = c /\ connections' = connections \cup {c}
  BY Zenon DEF handle_read, ListenerIdle, placeVars, registry
<1>2. UNCHANGED <<accepted, bq_conn, rconn, sock_open>>
  BY DEF handle_read, ioVars, readerVars
<1>3. armed \in [Conns -> Nat]
  BY DEF TypeOK, ListenType, IoType
<1>4. armed[c] = 1 /\ c \in accepted /\ \A r \in Readers : ~InReader(c, r)
  BY <1>1, <1>3 DEF SocketsOwned, OneReaderPerSocket, Listening
<1>5. \A d \in Conns : IF d = c THEN armed'[d] = 0 ELSE armed'[d] = armed[d]
  BY <1>1, <1>3, <1>4
<1>6. \A d \in Conns, r \in Readers : InReader(d, r)' <=> InReader(d, r)
  BY <1>2 DEF InReader, Queued
<1>7. NoConn \notin Conns
  BY ServerStateAssumption DEF ServerStateAssumption
<1>8. QED
  BY <1>1, <1>2, <1>3, <1>4, <1>5, <1>6, <1>7
  DEF SocketsOwned, OneReaderPerSocket, Registered, Listening

(* addToReader moves it to the end of one reader's queue.                  *)
LEMMA OwnedPlace ==
    ASSUME TypeOK, SocketsOwned, addToReader
    PROVE  SocketsOwned'
<1>1. PlaceType /\ ReadType
  BY DEF TypeOK, ListenType
<1>2. PICK d \in Conns : d = l_conn
  BY <1>1 DEF addToReader, PlaceType
<1>3. PICK x \in Readers : x = last_reader_index
  BY <1>1, <1>2 DEF addToReader, PlaceType
<1>4. /\ bq_conn' = [bq_conn EXCEPT ![x] = Append(@, d)]
      /\ l_conn' = NoConn
      /\ UNCHANGED <<armed, rconn, accepted, sock_open, connections>>
  BY <1>2, <1>3 DEF addToReader, ioVars, readerVars, stateVars, registry
<1>5. \A c \in Conns, r \in Readers : Queued(c, r)' <=> Queued(c, r) \/ (r = x /\ c = d)
  BY <1>1, <1>4, QueuedAfterPush
<1>6. \A c \in Conns, r \in Readers : InReader(c, r)' <=> InReader(c, r) \/ (r = x /\ c = d)
  BY <1>4, <1>5 DEF InReader
<1>7. NoConn \notin Conns
  BY ServerStateAssumption DEF ServerStateAssumption
<1>8. armed[d] = 0 /\ d \in accepted /\ \A r \in Readers : ~InReader(d, r)
  BY <1>2 DEF SocketsOwned, OneReaderPerSocket, Listening, TypeOK, ListenType, IoType
<1>9. \A r \in Readers : Distinct(r)'
  <2> SUFFICES ASSUME NEW r \in Readers PROVE Distinct(r)'
    OBVIOUS
  <2>1. Distinct(r)
    BY DEF SocketsOwned, OneReaderPerSocket, Distinct
  <2>2. CASE r # x
    BY <1>1, <1>4, <2>1, <2>2 DEF Distinct, PlaceType
  <2>3. CASE r = x
    <3>1. bq_conn'[x] = Append(bq_conn[x], d) /\ bq_conn[x] \in Seq(Conns)
      BY <1>1, <1>4 DEF PlaceType
    <3>2. \A i \in DOMAIN bq_conn[x] : bq_conn[x][i] # d
      BY <1>8 DEF InReader, Queued
    <3>3. rconn[x] # d
      BY <1>8 DEF InReader
    <3>4. QED
      BY <1>4, <2>1, <2>3, <3>1, <3>2, <3>3 DEF Distinct
  <2>4. QED
    BY <2>2, <2>3
<1>10. QED
  BY <1>2, <1>4, <1>6, <1>7, <1>8, <1>9
  DEF SocketsOwned, OneReaderPerSocket, Registered, Listening, Distinct

(* A reader takes it from the head of its queue into its hands.            *)
LEMMA OwnedPop ==
    ASSUME TypeOK, SocketsOwned, NEW x \in Readers, Reader_pop(x)
    PROVE  SocketsOwned'
<1>1. PlaceType /\ ReadType
  BY DEF TypeOK, ListenType
<1>2. bq_conn[x] # <<>> /\ bq_conn[x] \in Seq(Conns)
  BY <1>1 DEF Reader_pop, PlaceType
<1>3. PICK d \in Conns : d = Head(bq_conn[x])
  BY <1>2
<1>4. /\ bq_conn' = [bq_conn EXCEPT ![x] = Tail(@)]
      /\ rconn' = [rconn EXCEPT ![x] = d]
      /\ UNCHANGED <<armed, l_conn, accepted, sock_open, connections>>
  BY <1>3 DEF Reader_pop, ioVars, placeVars, stateVars, registry
<1>5. /\ \A c \in Conns, r \in Readers : Queued(c, r)' => Queued(c, r)
      /\ Queued(d, x)
  BY <1>1, <1>2, <1>3, <1>4, QueuedAfterPop
<1>6. \A c \in Conns, r \in Readers : InReader(c, r)' => InReader(c, r)
  BY <1>1, <1>4, <1>5 DEF InReader, ReadType
<1>7. \A r \in Readers : Distinct(r)'
  <2> SUFFICES ASSUME NEW r \in Readers PROVE Distinct(r)'
    OBVIOUS
  <2>1. Distinct(r)
    BY DEF SocketsOwned, OneReaderPerSocket, Distinct
  <2>2. CASE r # x
    BY <1>1, <1>4, <2>1, <2>2 DEF Distinct, PlaceType, ReadType
  <2>3. CASE r = x
    <3>1. bq_conn'[x] = Tail(bq_conn[x]) /\ rconn'[x] = d
      BY <1>1, <1>4 DEF PlaceType, ReadType
    <3>2. PICK q \in Seq(Conns) : q = bq_conn[x] /\ q # <<>>
      BY <1>2
    <3>3. Len(q) \in Nat \ {0} /\ DOMAIN q = 1 .. Len(q) /\ Head(q) = q[1]
      BY <3>2
    <3>4. DOMAIN Tail(q) = 1 .. Len(q) - 1
      BY <3>2, <3>3
    <3>5. \A i \in 1 .. Len(q) - 1 : Tail(q)[i] = q[i + 1]
      BY <3>2
    <3>6. \A i, j \in DOMAIN q : q[i] = q[j] => i = j
      BY <2>1, <2>3, <3>2 DEF Distinct
    <3>7. \A i \in DOMAIN Tail(q) : Tail(q)[i] # d
      BY <1>3, <3>2, <3>3, <3>4, <3>5, <3>6
    <3>8. \A i, j \in DOMAIN Tail(q) : Tail(q)[i] = Tail(q)[j] => i = j
      BY <3>3, <3>4, <3>5, <3>6
    <3>9. QED
      BY <2>3, <3>1, <3>2, <3>7, <3>8 DEF Distinct
  <2>4. QED
    BY <2>2, <2>3
<1>8. QED
  BY <1>4, <1>6, <1>7
  DEF SocketsOwned, OneReaderPerSocket, Registered, Listening, Distinct

(* A reader that lets its connection go leaves no other trace of it.       *)
LEMMA ReaderLetsGo ==
    ASSUME TypeOK, SocketsOwned, NEW x \in Readers, NEW c \in Conns, rconn[x] = c,
           rconn' = [rconn EXCEPT ![x] = NoConn], UNCHANGED bq_conn
    PROVE  /\ \A d \in Conns, r \in Readers : InReader(d, r)' => InReader(d, r) /\ d # c
           /\ armed[c] = 0 /\ l_conn # c /\ c \in accepted
           /\ c \in connections /\ sock_open[c]
           /\ \A r \in Readers : Distinct(r)'
<1>1. rconn \in [Readers -> Conns \cup {NoConn}] /\ bq_conn \in [Readers -> Seq(Conns)]
  BY DEF TypeOK, ListenType, ReadType, PlaceType
<1>2. NoConn \notin Conns
  BY ServerStateAssumption DEF ServerStateAssumption
<1>3. InReader(c, x)
  BY DEF InReader
<1>4. \A d \in Conns, r \in Readers : InReader(d, r)' => InReader(d, r)
  BY <1>1, <1>2 DEF InReader, Queued
<1>5. \A r \in Readers : ~InReader(c, r)'
  <2> SUFFICES ASSUME NEW r \in Readers, InReader(c, r)' PROVE FALSE
    OBVIOUS
  <2>1. r = x
    BY <1>3, <1>4 DEF SocketsOwned, OneReaderPerSocket
  <2>2. ~Queued(c, x)
    BY DEF SocketsOwned, OneReaderPerSocket, Queued
  <2>3. QED
    BY <1>1, <1>2, <2>1, <2>2 DEF InReader, Queued
<1>6. /\ armed[c] = 0 /\ l_conn # c /\ c \in accepted
      /\ c \in connections /\ sock_open[c]
  BY <1>3 DEF SocketsOwned, OneReaderPerSocket, Registered, Listening, TypeOK,
     ListenType, IoType
<1>7. \A r \in Readers : Distinct(r)'
  BY <1>1, <1>2 DEF SocketsOwned, OneReaderPerSocket, Distinct
<1>8. QED
  BY <1>4, <1>5, <1>6, <1>7

(* It gives it back to async_read_some ...                                 *)
LEMMA OwnedRearm ==
    ASSUME TypeOK, SocketsOwned, NEW x \in Readers, Reader_rearm(x)
    PROVE  SocketsOwned'
<1>1. PICK c \in Conns : c = rconn[x]
  BY DEF TypeOK, ListenType, ReadType, Reader_rearm
<1>2. /\ armed' = [armed EXCEPT ![c] = @ + 1]
      /\ rconn' = [rconn EXCEPT ![x] = NoConn]
      /\ UNCHANGED <<l_conn, bq_conn, accepted, sock_open, connections>>
  BY <1>1 DEF Reader_rearm, ioVars, placeVars, stateVars, registry
<1>3. armed \in [Conns -> Nat]
  BY DEF TypeOK, ListenType, IoType
<1>4. /\ \A d \in Conns, r \in Readers : InReader(d, r)' => InReader(d, r) /\ d # c
      /\ armed[c] = 0 /\ l_conn # c /\ c \in accepted
      /\ c \in connections /\ sock_open[c]
      /\ \A r \in Readers : Distinct(r)'
  BY <1>1, <1>2, ReaderLetsGo
<1>5. \A d \in Conns : armed'[d] = IF d = c THEN 1 ELSE armed[d]
  BY <1>2, <1>3, <1>4
<1>6. QED
  BY <1>2, <1>4, <1>5
  DEF SocketsOwned, OneReaderPerSocket, Registered, Listening, Distinct

(* ... or closes it.                                                       *)
LEMMA OwnedClose ==
    ASSUME TypeOK, SocketsOwned, NEW x \in Readers, close_connection(x)
    PROVE  SocketsOwned'
<1>1. PICK c \in Conns : c = rconn[x]
  BY DEF TypeOK, ListenType, ReadType, close_connection
<1>2. /\ sock_open' = [sock_open EXCEPT ![c] = FALSE]
      /\ connections' = connections \ {c}
      /\ rconn' = [rconn EXCEPT ![x] = NoConn]
      /\ UNCHANGED <<armed, l_conn, bq_conn, accepted>>
  BY <1>1 DEF close_connection, ioVars, placeVars
<1>3. sock_open \in [Conns -> BOOLEAN]
  BY DEF TypeOK, StateType, SharedType
<1>4. /\ \A d \in Conns, r \in Readers : InReader(d, r)' => InReader(d, r) /\ d # c
      /\ armed[c] = 0 /\ l_conn # c /\ c \in accepted
      /\ \A r \in Readers : Distinct(r)'
  BY <1>1, <1>2, ReaderLetsGo
<1>5. \A d \in Conns : d # c => sock_open'[d] = sock_open[d]
  BY <1>2, <1>3
<1>6. QED
  BY <1>2, <1>4, <1>5
  DEF SocketsOwned, OneReaderPerSocket, Registered, Listening, Distinct

(* The listener thread keeps SocketsOwned: addToReader_full and            *)
(* io_service_exit do not touch what it is about.                          *)
LEMMA OwnedListens ==
    ASSUME TypeOK, SocketsOwned, ListenerThread
    PROVE  SocketsOwned'
<1>1. CASE \E c \in Conns : handle_accept(c) \/ handle_read(c)
  BY <1>1, OwnedAccept, OwnedRead
<1>2. CASE io_service_exit
  BY <1>2, OwnedSame DEF io_service_exit, ownVars, ioVars, placeVars, readerVars, registry
<1>3. CASE addToReader
  BY <1>3, OwnedPlace
<1>4. CASE addToReader_full
  BY <1>4, OwnedSame DEF addToReader_full, ownVars, ioVars, readerVars, registry
<1>5. QED
  BY <1>1, <1>2, <1>3, <1>4 DEF ListenerThread

(* So does a reader: reading and queueing a call keeps the socket in its   *)
(* hands.                                                                  *)
LEMMA OwnedReads ==
    ASSUME TypeOK, SocketsOwned, NEW r \in Readers, ReaderThread(r)
    PROVE  SocketsOwned'
<1>1. CASE Call_read(r)
  BY <1>1, OwnedSame DEF Call_read, ownVars, ioVars, placeVars, registry
<1>2. CASE Call_read_fails(r)
  BY <1>2, OwnedSame DEF Call_read_fails, ownVars, ioVars, placeVars, stateVars, registry
<1>3. CASE Reader_push(r)
  BY <1>3, OwnedSame DEF Reader_push, ownVars, ioVars, placeVars, registry
<1>4. QED
  BY <1>1, <1>2, <1>3, OwnedPop, OwnedClose, OwnedRearm DEF ReaderThread

(* The handlers, the responder, stop() and the clients leave the socket    *)
(* hand-over alone.                                                        *)
LEMMA OthersDoNotOwn ==
    ASSUME \/ \E c \in Conns : Client(c)
           \/ AcceptFails
           \/ \E h \in Handlers : Handles(h)
           \/ Responds
           \/ Stops
           \/ UNCHANGED vars
    PROVE  UNCHANGED <<ownVars, num_connections>>
<1> USE DEF ownVars, listenVars, ioVars, placeVars, readerVars, registry
<1>1. ASSUME NEW c \in Conns, Client(c) PROVE UNCHANGED <<ownVars, num_connections>>
  BY <1>1 DEF Client
<1>2. CASE AcceptFails
  BY <1>2 DEF AcceptFails, handle_accept_error, stateVars
<1>3. ASSUME NEW w \in Workers, ProcessResponse(w) PROVE UNCHANGED <<sock_open, registry>>
  BY <1>3 DEF ProcessResponse, processResponse_pop, processResponse_write,
     processResponse_throws, processResponse_again, NotifyResponder, SameState
<1>4. Handlers \subseteq Workers /\ RespThread \in Workers
  BY ServerStateAssumption DEF Handlers, Workers, RespThread, ServerStateAssumption
<1>5. ASSUME NEW h \in Handlers, Handles(h) PROVE UNCHANGED <<ownVars, num_connections>>
  <2>1. UNCHANGED <<sock_open, registry>>
    BY <1>3, <1>4, <1>5 DEF Handles, HandlerThread, Handler_pop, Method_call,
       doRespond_push, doRespond_size, doRespond_notify, NotifyResponder, SameState
  <2>2. QED
    BY <1>5, <2>1 DEF Handles
<1>6. CASE Responds
  <2>1. UNCHANGED <<sock_open, registry>>
    BY <1>3, <1>4, <1>6 DEF Responds, ResponderThread, Responder_pop, Responder_find,
       SameState
  <2>2. QED
    BY <1>6, <2>1 DEF Responds
<1>7. CASE Stops
  BY <1>7 DEF Stops, MainThread
<1>8. CASE UNCHANGED vars
  BY <1>8 DEF vars, stateVars
<1>9. QED
  BY <1>1, <1>2, <1>5, <1>6, <1>7, <1>8

(* Every step keeps SocketsOwned.                                          *)
LEMMA OwnedStep ==
    ASSUME TypeOK, SocketsOwned, [Next]_vars
    PROVE  SocketsOwned'
<1>1. CASE Listens
  BY <1>1, OwnedListens DEF Listens
<1>2. ASSUME NEW r \in Readers, Reads(r) PROVE SocketsOwned'
  BY <1>2, OwnedReads DEF Reads
<1>3. CASE UNCHANGED ownVars
  BY <1>3, OwnedSame
<1>4. QED
  BY <1>1, <1>2, <1>3, OthersDoNotOwn DEF Next

(* At the start no socket is anywhere.                                     *)
LEMMA OwnedInit == Init => SocketsOwned
<1> SUFFICES ASSUME Init PROVE SocketsOwned
  OBVIOUS
<1>1. /\ \A c \in Conns : armed[c] = 0 /\ sock_open[c]
      /\ \A r \in Readers : rconn[r] = NoConn /\ bq_conn[r] = <<>>
      /\ l_conn = NoConn
  BY DEF Init, StateInit, ListenerInit
<1>2. NoConn \notin Conns
  BY ServerStateAssumption DEF ServerStateAssumption
<1>3. QED
  BY <1>1, <1>2 DEF SocketsOwned, OneReaderPerSocket, Registered, Listening, InReader, Queued

(* SocketsOwned holds in every reachable state.                            *)
LEMMA OwnedAlways == Spec => []SocketsOwned
<1>1. SocketsOwned /\ TypeOK /\ [Next]_vars => SocketsOwned'
  BY OwnedStep
<1>2. QED
  BY <1>1, OwnedInit, TypeCorrect, PTL DEF Spec

(* Two threads never read one socket at once, although handle_read and     *)
(* Reader::_do_read pass it to each other without holding a lock.          *)
THEOREM OneReader == Spec => []OneReaderPerSocket
<1>1. SocketsOwned => OneReaderPerSocket
  BY DEF SocketsOwned
<1>2. QED
  BY <1>1, OwnedAlways, PTL

-----------------------------------------------------------------------------
(* The count of connections.                                               *)

Counted == IsFiniteSet(connections) /\ num_connections = Cardinality(connections)

(* handle_read counts a connection it creates, and only that.              *)
LEMMA CountedRead ==
    ASSUME Counted, NEW c \in Conns, handle_read(c)
    PROVE  Counted'
<1>1. \/ UNCHANGED registry
      \/ /\ connections' = connections \cup {c}
         /\ num_connections' = IF c \in connections THEN num_connections
                               ELSE num_connections + 1
  BY Zenon DEF handle_read
<1>2. CASE UNCHANGED registry
  BY <1>2 DEF Counted, registry
<1>3. CASE /\ connections' = connections \cup {c}
           /\ num_connections' = IF c \in connections THEN num_connections
                                 ELSE num_connections + 1
  BY <1>3, FS_AddElement DEF Counted
<1>4. QED
  BY <1>1, <1>2, <1>3

(* close_connection takes out one that is there, so it is right to count   *)
(* it down without looking whether erase() found it.                       *)
LEMMA CountedClose ==
    ASSUME TypeOK, SocketsOwned, Counted, NEW x \in Readers, close_connection(x)
    PROVE  Counted'
<1>1. PICK c \in Conns : c = rconn[x]
  BY DEF TypeOK, ListenType, ReadType, close_connection
<1>2. c \in connections
  BY <1>1 DEF SocketsOwned, Registered, InReader
<1>3. connections' = connections \ {c} /\ num_connections' = num_connections - 1
  BY <1>1 DEF close_connection
<1>4. QED
  BY <1>2, <1>3, FS_RemoveElement DEF Counted

(* Nothing else touches the registry.                                      *)
LEMMA CountedStep ==
    ASSUME TypeOK, SocketsOwned, Counted, [Next]_vars
    PROVE  Counted'
<1>1. CASE Listens
  <2>1. UNCHANGED registry \/ \E c \in Conns : handle_read(c)
    BY <1>1 DEF Listens, ListenerThread, handle_accept, io_service_exit, addToReader,
       addToReader_full, stateVars
  <2>2. QED
    BY <2>1, CountedRead DEF Counted, registry
<1>2. ASSUME NEW r \in Readers, Reads(r) PROVE Counted'
  <2>1. UNCHANGED registry \/ close_connection(r)
    BY <1>2 DEF Reads, ReaderThread, Reader_pop, Call_read, Call_read_fails,
       Reader_push, Reader_rearm, stateVars
  <2>2. QED
    BY <2>1, CountedClose DEF Counted, registry
<1>3. CASE UNCHANGED <<ownVars, num_connections>>
  BY <1>3 DEF Counted, ownVars
<1>4. QED
  BY <1>1, <1>2, <1>3, OthersDoNotOwn DEF Next

(* num_connections is the size of _connections, and what a reader has      *)
(* still to read from is registered and open: close_connection never       *)
(* erases or counts a connection twice.                                    *)
THEOREM RegistryCorrect == Spec => []RegistryAgrees
<1>1. Init => Counted
  BY FS_EmptySet DEF Init, StateInit, Counted
<1>2. Counted /\ SocketsOwned /\ TypeOK /\ [Next]_vars => Counted'
  BY CountedStep
<1>3. Counted /\ SocketsOwned => RegistryAgrees
  BY DEF Counted, SocketsOwned, RegistryAgrees
<1>4. QED
  BY <1>1, <1>2, <1>3, OwnedAlways, TypeCorrect, PTL DEF Spec
-----------------------------------------------------------------------------
(* No socket is forgotten.                                                 *)

(* Somebody still looks after the socket.                                  *)
LookedAfter(c) == Listening(c) \/ \E r \in Readers : InReader(c, r)

(* A reader in _bq_conn.pop() has no connection in its hands.              *)
HandsFree == \A r \in Readers : rpc[r] = "pop" => rconn[r] = NoConn

(* It lets the connection go before it comes back to pop().                *)
LEMMA HandsFreeStep ==
    ASSUME TypeOK, HandsFree, [Next]_vars
    PROVE  HandsFree'
<1>1. ASSUME NEW r \in Readers, Reads(r) PROVE HandsFree'
  BY <1>1 DEF Reads, ReaderThread, Reader_pop, Call_read, Call_read_fails,
     close_connection, Reader_push, Reader_rearm, ReaderLoops, HandsFree, TypeOK,
     ListenType, ReadType
<1>2. CASE UNCHANGED <<rpc, rconn>>
  BY <1>2 DEF HandsFree
<1>3. QED
  BY <1>1, <1>2 DEF Next, Client, Listens, ListenerThread, handle_accept, handle_read,
     io_service_exit, addToReader, addToReader_full, AcceptFails, handle_accept_error,
     Handles, Responds, Stops, MainThread, vars, listenVars, readerVars

(* Only terminate() writes Listener::_should_stop, and it raises it.       *)
LEMMA ListenerStops ==
    ASSUME [Next]_vars
    PROVE  UNCHANGED listener_stop \/ listener_stop' = TRUE
<1> USE DEF listenVars, readStops
<1>1. ASSUME NEW c \in Conns, Client(c) PROVE UNCHANGED listener_stop
  BY <1>1 DEF Client
<1>2. CASE Listens \/ AcceptFails
  BY <1>2 DEF Listens, AcceptFails, ListenerThread, handle_accept, handle_read,
     handle_accept_error, io_service_exit, addToReader, addToReader_full
<1>3. ASSUME NEW r \in Readers, Reads(r) PROVE UNCHANGED listener_stop
  BY <1>3 DEF Reads, ReaderThread, Reader_pop, Call_read, Call_read_fails,
     close_connection, Reader_push, Reader_rearm
<1>4. CASE Stops
  BY <1>4 DEF Stops, MainThread, terminate, Reader_waitToFinish, Handler_waitToFinish,
     Responder_waitToFinish, process_exit
<1>5. QED
  BY <1>1, <1>2, <1>3, <1>4 DEF Next, Handles, Responds, vars

(* A pop takes only the head out of the queue.                             *)
LEMMA QueuedBeforePop ==
    ASSUME PlaceType, NEW x \in Readers, bq_conn[x] # <<>>,
           bq_conn' = [bq_conn EXCEPT ![x] = Tail(@)],
           NEW c \in Conns, NEW r \in Readers, Queued(c, r)
    PROVE  Queued(c, r)' \/ (r = x /\ c = Head(bq_conn[x]))
<1>1. CASE r # x
  BY <1>1 DEF Queued, PlaceType
<1>2. CASE r = x
  <2>1. PICK q \in Seq(Conns) : q = bq_conn[x] /\ q # <<>> /\ bq_conn'[x] = Tail(q)
    BY DEF PlaceType
  <2>2. PICK i \in DOMAIN q : q[i] = c
    BY <1>2, <2>1 DEF Queued
  <2>3. Len(q) \in Nat \ {0} /\ DOMAIN q = 1 .. Len(q) /\ Head(q) = q[1]
    BY <2>1
  <2>4. DOMAIN Tail(q) = 1 .. Len(q) - 1
    BY <2>1, <2>3
  <2>5. \A j \in 1 .. Len(q) - 1 : Tail(q)[j] = q[j + 1]
    BY <2>1
  <2>6. CASE i = 1
    BY <1>2, <2>1, <2>2, <2>3, <2>6
  <2>7. CASE i # 1
    <3>1. i - 1 \in DOMAIN Tail(q) /\ Tail(q)[i - 1] = q[i]
      BY <2>2, <2>3, <2>4, <2>5, <2>7
    <3>2. QED
      BY <1>2, <2>1, <2>2, <3>1 DEF Queued
  <2>8. QED
    BY <2>6, <2>7
<1>3. QED
  BY <1>1, <1>2

(* The listener thread keeps or passes on every socket, until it stops.    *)
LEMMA LookedListens ==
    ASSUME TypeOK, ListenerThread, ~listener_stop,
           NEW c \in Conns, c \in accepted', LookedAfter(c) \/ c \notin accepted
    PROVE  LookedAfter(c)'
<1> USE DEF LookedAfter, Listening
<1>1. armed \in [Conns -> Nat] /\ PlaceType /\ NoConn \notin Conns
  BY ServerStateAssumption DEF TypeOK, ListenType, IoType, ServerStateAssumption
<1>2. ASSUME NEW d \in Conns, handle_accept(d) PROVE LookedAfter(c)'
  <2>1. accepted' = accepted \cup {d} /\ armed' = [armed EXCEPT ![d] = @ + 1]
    BY <1>2 DEF handle_accept
  <2>2. UNCHANGED <<l_conn, bq_conn, rconn>>
    BY <1>2 DEF handle_accept, placeVars, readerVars
  <2>3. \A r \in Readers : InReader(c, r)' <=> InReader(c, r)
    BY <2>2 DEF InReader, Queued
  <2>4. armed'[c] > 0 \/ (armed'[c] = armed[c] /\ c \in accepted)
    BY <1>1, <2>1
  <2>5. QED
    BY <2>2, <2>3, <2>4
<1>3. ASSUME NEW d \in Conns, handle_read(d) PROVE LookedAfter(c)'
  <2>1. /\ armed' = [armed EXCEPT ![d] = @ - 1] /\ l_conn = NoConn /\ l_conn' = d
        /\ UNCHANGED <<accepted, bq_conn, rconn>>
    BY <1>3 DEF handle_read, ListenerIdle, ioVars, readerVars
  <2>2. \A r \in Readers : InReader(c, r)' <=> InReader(c, r)
    BY <2>1 DEF InReader, Queued
  <2>3. c = d \/ armed'[c] = armed[c]
    BY <1>1, <2>1
  <2>4. QED
    BY <1>1, <2>1, <2>2, <2>3
<1>4. CASE addToReader
  <2>1. PICK d \in Conns : d = l_conn
    BY <1>1, <1>4 DEF addToReader, PlaceType
  <2>2. PICK x \in Readers : x = last_reader_index
    BY <1>1, <1>4 DEF addToReader, PlaceType
  <2>3. /\ bq_conn' = [bq_conn EXCEPT ![x] = Append(@, d)]
        /\ UNCHANGED <<armed, rconn, accepted>>
    BY <1>4, <2>1, <2>2 DEF addToReader, ioVars, readerVars
  <2>4. \A r \in Readers : InReader(c, r)' <=> InReader(c, r) \/ (r = x /\ c = d)
    BY <1>1, <2>3, QueuedAfterPush DEF InReader
  <2>5. QED
    BY <2>1, <2>2, <2>3, <2>4
<1>5. CASE addToReader_full \/ io_service_exit
  BY <1>5 DEF addToReader_full, io_service_exit, ioVars, readerVars, placeVars, InReader, Queued
<1>6. QED
  BY <1>2, <1>3, <1>4, <1>5 DEF ListenerThread

(* A reader keeps its sockets, gives them back, or closes them.            *)
LEMMA LookedReads ==
    ASSUME TypeOK, HandsFree, NEW x \in Readers, ReaderThread(x),
           NEW c \in Conns, LookedAfter(c)
    PROVE  LookedAfter(c)' \/ sock_open'[c] = FALSE
<1> USE DEF LookedAfter, Listening
<1>1. /\ armed \in [Conns -> Nat] /\ PlaceType /\ NoConn \notin Conns
      /\ rconn \in [Readers -> Conns \cup {NoConn}] /\ sock_open \in [Conns -> BOOLEAN]
  BY ServerStateAssumption
  DEF TypeOK, StateType, SharedType, ListenType, IoType, ReadType, ServerStateAssumption
<1>2. CASE Reader_pop(x)
  <2>1. /\ bq_conn[x] # <<>> /\ bq_conn' = [bq_conn EXCEPT ![x] = Tail(@)]
        /\ rconn' = [rconn EXCEPT ![x] = Head(bq_conn[x])]
        /\ UNCHANGED <<armed, l_conn>> /\ rpc[x] = "pop"
    BY <1>2 DEF Reader_pop, placeVars
  <2>2. \A r \in Readers : Queued(c, r) => Queued(c, r)' \/ (r = x /\ c = Head(bq_conn[x]))
    BY <1>1, <2>1, QueuedBeforePop
  <2>3. rconn[x] # c /\ rconn'[x] = Head(bq_conn[x])
        /\ \A r \in Readers : r # x => rconn'[r] = rconn[r]
    BY <1>1, <2>1 DEF HandsFree
  <2>4. \A r \in Readers : InReader(c, r) => InReader(c, r)'
    BY <2>2, <2>3, Zenon DEF InReader
  <2>5. QED
    BY <2>1, <2>4
<1>3. ASSUME rconn' = [rconn EXCEPT ![x] = NoConn], UNCHANGED bq_conn
      PROVE  \A r \in Readers : InReader(c, r) => InReader(c, r)' \/ c = rconn[x]
  BY <1>1, <1>3 DEF InReader, Queued
<1>4. CASE close_connection(x)
  <2>1. PICK d \in Conns : d = rconn[x]
    BY <1>4 DEF TypeOK, ListenType, ReadType, close_connection
  <2>2. /\ sock_open' = [sock_open EXCEPT ![d] = FALSE]
        /\ rconn' = [rconn EXCEPT ![x] = NoConn] /\ UNCHANGED <<armed, l_conn, bq_conn>>
    BY <1>4, <2>1 DEF close_connection, placeVars
  <2>3. QED
    BY <1>1, <1>3, <2>1, <2>2
<1>5. CASE Reader_rearm(x)
  <2>1. PICK d \in Conns : d = rconn[x]
    BY <1>5 DEF TypeOK, ListenType, ReadType, Reader_rearm
  <2>2. /\ armed' = [armed EXCEPT ![d] = @ + 1]
        /\ rconn' = [rconn EXCEPT ![x] = NoConn] /\ UNCHANGED <<l_conn, bq_conn>>
    BY <1>5, <2>1 DEF Reader_rearm, placeVars
  <2>3. QED
    BY <1>1, <1>3, <2>1, <2>2
<1>6. CASE Call_read(x) \/ Call_read_fails(x) \/ Reader_push(x)
  BY <1>6 DEF Call_read, Call_read_fails, Reader_push, placeVars, InReader, Queued
<1>7. QED
  BY <1>2, <1>4, <1>5, <1>6 DEF ReaderThread

(* Until SIGINT, a socket that was accepted and not closed is waited for   *)
(* or in some reader's queue or hands, whoever passes it on to whom.       *)
THEOREM SocketsKept == Spec => []NoSocketForgotten
<1>1. Init => NoSocketForgotten
  BY DEF Init, ListenerInit, NoSocketForgotten
<1>2. Spec => []HandsFree
  <2>1. Init => HandsFree
    BY DEF Init, ListenerInit, HandsFree
  <2>2. QED
    BY <2>1, HandsFreeStep, TypeCorrect, PTL DEF Spec
<1>3. NoSocketForgotten /\ HandsFree /\ TypeOK /\ TypeOK' /\ [Next]_vars => NoSocketForgotten'
  <2> SUFFICES ASSUME NoSocketForgotten, HandsFree, TypeOK, TypeOK', [Next]_vars,
                      NEW c \in Conns,
                      c \in accepted', sock_open'[c], ~listener_stop'
               PROVE  LookedAfter(c)'
    BY DEF NoSocketForgotten, LookedAfter, TypeOK, ListenType, IoType
  <2>1. ~listener_stop
    BY ListenerStops, Zenon
  <2>2. c \in accepted /\ sock_open[c] => LookedAfter(c)
    BY <2>1, Zenon DEF NoSocketForgotten, LookedAfter
  <2>3. CASE Listens
    <3>1. UNCHANGED sock_open
      BY <2>3 DEF Listens, ListenerThread, handle_accept, handle_read, io_service_exit,
         addToReader, addToReader_full, stateVars
    <3>2. QED
      BY <2>1, <2>2, <2>3, <3>1, LookedListens, Zenon DEF Listens
  <2>4. ASSUME NEW r \in Readers, Reads(r) PROVE LookedAfter(c)'
    <3>1. UNCHANGED accepted
      BY <2>4 DEF Reads, ReaderThread, Reader_pop, Call_read, Call_read_fails,
         close_connection, Reader_push, Reader_rearm, ioVars
    <3>2. sock_open[c]
      <4>1. UNCHANGED sock_open \/ close_connection(r)
        BY <2>4 DEF Reads, ReaderThread, Reader_pop, Call_read, Call_read_fails,
           Reader_push, Reader_rearm, stateVars
      <4>2. CASE close_connection(r)
        <5>1. PICK d \in Conns : d = rconn[r]
          BY <4>2 DEF TypeOK, ListenType, ReadType, close_connection
        <5>2. sock_open' = [sock_open EXCEPT ![d] = FALSE]
          BY <4>2, <5>1 DEF close_connection
        <5>3. QED
          BY <5>2 DEF TypeOK, StateType, SharedType
      <4>3. QED
        BY <4>1, <4>2, Zenon
    <3>3. QED
      BY <2>2, <2>4, <3>1, <3>2, LookedReads, Zenon DEF Reads
  <2>5. CASE UNCHANGED ownVars
    BY <2>2, <2>5 DEF ownVars, LookedAfter, Listening, InReader, Queued
  <2>6. QED
    BY <2>3, <2>4, <2>5, OthersDoNotOwn DEF Next
<1>4. QED
  BY <1>1, <1>2, <1>3, TypeCorrect, PTL DEF Spec
-----------------------------------------------------------------------------
(* The order of the calls.                                                 *)

(* A reader's hands hold the last call read from its connection, and       *)
(* _bq_call only calls that were read.                                     *)
ReadSoFar ==
    /\ \A r \in Readers : rpc[r] = "push" => rid[r] = got[rconn[r]]
    /\ \A i \in DOMAIN bq_call : bq_call[i][2] <= got[bq_call[i][1]]

(* Call::read() counts a call that comes after all that were read; no      *)
(* other reader has the connection.                                        *)
LEMMA OrderRead ==
    ASSUME TypeOK, SocketsOwned, CallsInOrder, ReadSoFar, NEW r \in Readers, Call_read(r)
    PROVE  CallsInOrder' /\ ReadSoFar'
<1>1. PICK d \in Conns : d = rconn[r]
  BY DEF Call_read, TypeOK, ListenType, ReadType
<1>2. PICK k \in Nat : k = got[d] + 1
  BY DEF TypeOK, StateType, PeerType
<1>3. /\ got' = [got EXCEPT ![d] = k] /\ rid' = [rid EXCEPT ![r] = k]
      /\ rpc' = [rpc EXCEPT ![r] = "push"] /\ UNCHANGED <<rconn, bq_call>>
  BY <1>1, <1>2 DEF Call_read
<1>4. \A c \in Conns : got[c] \in Nat /\ got'[c] = IF c = d THEN k ELSE got[c]
  BY <1>3 DEF TypeOK, StateType, PeerType
<1>5. \A s \in Readers : IF s = r THEN rid'[s] = k /\ rpc'[s] = "push"
                                 ELSE rid'[s] = rid[s] /\ rpc'[s] = rpc[s]
  BY <1>3 DEF TypeOK, ListenType, ReadType
<1>6. ASSUME NEW s \in Readers, s # r PROVE rconn[s] # d
  BY <1>1, <1>6 DEF SocketsOwned, OneReaderPerSocket, InReader
<1>7. ASSUME NEW s \in Readers, rpc[s] = "push" PROVE rconn[s] \in Conns
  BY <1>7 DEF TypeOK, ListenType, ReadType
<1>8. ASSUME NEW i \in DOMAIN bq_call
      PROVE  bq_call[i] \in Call /\ bq_call[i][1] \in Conns /\ bq_call[i][2] \in Nat
  BY DEF TypeOK, StateType, SharedType, Call
<1>9. \A s \in Readers : rpc'[s] = "push" => rid'[s] = got'[rconn'[s]]
  BY <1>1, <1>3, <1>4, <1>5, <1>6, <1>7 DEF ReadSoFar
<1>10. \A i \in DOMAIN bq_call : bq_call[i][2] <= got'[bq_call[i][1]]
  BY <1>2, <1>4, <1>8 DEF ReadSoFar
<1>11. ASSUME NEW i \in DOMAIN bq_call, bq_call[i][1] = d PROVE bq_call[i][2] < k
  BY <1>2, <1>4, <1>8, <1>11 DEF ReadSoFar
<1>12. ASSUME NEW s \in Readers, rpc'[s] = "push",
              NEW i \in DOMAIN bq_call, bq_call[i][1] = rconn[s]
       PROVE  bq_call[i][2] < rid'[s]
  BY <1>1, <1>5, <1>11, <1>12 DEF CallsInOrder
<1>13. QED
  BY <1>3, <1>9, <1>10, <1>12 DEF CallsInOrder, ReadSoFar

(* So the call a reader appends to _bq_call is the last of its connection. *)
LEMMA OrderPush ==
    ASSUME TypeOK, SocketsOwned, CallsInOrder, ReadSoFar, NEW r \in Readers, Reader_push(r)
    PROVE  CallsInOrder' /\ ReadSoFar'
<1>1. PICK d \in Conns, k \in 1 .. MaxCalls :
         d = rconn[r] /\ k = rid[r] /\ rpc[r] = "push" /\ k = got[d]
  BY ServerStateAssumption
  DEF ServerStateAssumption, Reader_push, TypeOK, ListenType, ReadType, ReadSoFar
<1>2. UNCHANGED <<rconn, rid, got>>
  BY DEF Reader_push
<1>3. CASE UNCHANGED <<bq_call, rpc>>
  BY <1>2, <1>3 DEF CallsInOrder, ReadSoFar
<1>4. CASE bq_call' = Append(bq_call, <<d, k>>) /\ rpc' = [rpc EXCEPT ![r] = "rearm"]
  <2>1. PICK q \in Seq(Call) : q = bq_call
    BY DEF TypeOK, StateType, SharedType
  <2>2. PICK n \in Nat : n = Len(q)
    OBVIOUS
  <2>e. PICK x \in Call : x = <<d, k>>
    BY DEF Call
  <2>3. PICK t : x = <<d, k>> /\ t = Append(q, x) /\ t = bq_call'
    BY <1>4, <2>1, <2>e
  <2>4. /\ DOMAIN q = 1 .. n /\ DOMAIN t = 1 .. n + 1 /\ t[n + 1] = x
        /\ \A i \in 1 .. n : t[i] = q[i]
    BY <2>2, <2>3
  <2>5. ASSUME NEW i \in 1 .. n PROVE q[i][1] \in Conns /\ q[i][2] \in Nat
    <3>1. q[i] \in Call
      BY <2>4
    <3>2. QED
      BY <3>1 DEF Call
  <2>6. ASSUME NEW i \in 1 .. n, q[i][1] = d PROVE q[i][2] < k
    BY <1>1, <2>1, <2>4, <2>6 DEF CallsInOrder
  <2>7. t[n + 1][1] = d /\ t[n + 1][2] = k
    BY <2>3, <2>4
  <2>8. \A i, j \in DOMAIN t : i < j /\ t[i][1] = t[j][1] => t[i][2] < t[j][2]
    <3> SUFFICES ASSUME NEW i \in DOMAIN t, NEW j \in DOMAIN t, i < j, t[i][1] = t[j][1]
                 PROVE  t[i][2] < t[j][2]
      OBVIOUS
    <3>1. i \in 1 .. n /\ (j \in 1 .. n \/ j = n + 1)
      BY <2>4
    <3>2. CASE j = n + 1
      BY <2>4, <2>6, <2>7, <3>1, <3>2
    <3>3. CASE j \in 1 .. n
      BY <2>1, <2>4, <3>1, <3>3 DEF CallsInOrder
    <3>4. QED
      BY <3>1, <3>2, <3>3
  <2>9. \A i \in DOMAIN t : t[i][2] <= got[t[i][1]]
    <3> SUFFICES ASSUME NEW i \in DOMAIN t PROVE t[i][2] <= got[t[i][1]]
      OBVIOUS
    <3>1. CASE i = n + 1
      BY <1>1, <2>7, <3>1
    <3>2. CASE i \in 1 .. n
      BY <2>1, <2>4, <3>2 DEF ReadSoFar
    <3>3. QED
      BY <2>4, <3>1, <3>2
  <2>10. ASSUME NEW s \in Readers, rpc'[s] = "push" PROVE s # r /\ rpc[s] = "push" /\ rconn[s] # d
    <3>1. s # r /\ rpc[s] = "push"
      BY <1>4, <2>10 DEF TypeOK, ListenType, ReadType
    <3>2. QED
      BY <1>1, <3>1 DEF SocketsOwned, OneReaderPerSocket, InReader
  <2>11. ASSUME NEW s \in Readers, rpc'[s] = "push",
                NEW i \in DOMAIN t, t[i][1] = rconn[s]
         PROVE  t[i][2] < rid[s]
    <3>1. i \in 1 .. n
      BY <2>4, <2>7, <2>10, <2>11
    <3>2. QED
      BY <2>1, <2>4, <2>10, <2>11, <3>1 DEF CallsInOrder
  <2>12. QED
    BY <1>2, <2>3, <2>8, <2>9, <2>10, <2>11 DEF CallsInOrder, ReadSoFar
<1>5. QED
  BY <1>1, <1>3, <1>4 DEF Reader_push

(* A handler takes the first call away.                                    *)
LEMMA OrderPop ==
    ASSUME TypeOK, CallsInOrder, ReadSoFar, bq_call # <<>>, bq_call' = Tail(bq_call),
           UNCHANGED <<readerVars, got>>
    PROVE  CallsInOrder' /\ ReadSoFar'
<1>1. PICK q \in Seq(Call) : q = bq_call /\ q # <<>>
  BY DEF TypeOK, StateType, SharedType
<1>2. PICK n \in Nat : n = Len(q) - 1
  BY <1>1
<1>3. DOMAIN q = 1 .. n + 1 /\ DOMAIN Tail(q) = 1 .. n /\ \A i \in 1 .. n : Tail(q)[i] = q[i + 1]
  BY <1>1, <1>2
<1>4. PICK t : t = Tail(q) /\ t = bq_call'
  BY <1>1
<1>5. \A i \in DOMAIN t : i + 1 \in DOMAIN q /\ t[i] = q[i + 1]
  BY <1>3, <1>4
<1>6. \A i, j \in DOMAIN t : i < j => i + 1 < j + 1
  BY <1>3, <1>4
<1>7. QED
  BY <1>1, <1>4, <1>5, <1>6 DEF CallsInOrder, ReadSoFar, readerVars

(* Nobody else touches _bq_call or the calls in the readers' hands.        *)
LEMMA OrderStep ==
    ASSUME TypeOK, SocketsOwned, CallsInOrder, ReadSoFar, [Next]_vars
    PROVE  CallsInOrder' /\ ReadSoFar'
<1>1. ASSUME NEW r \in Readers, Reads(r) PROVE CallsInOrder' /\ ReadSoFar'
  <2>1. CASE Reader_pop(r) \/ Call_read_fails(r) \/ close_connection(r) \/ Reader_rearm(r)
    <3>1. /\ UNCHANGED <<bq_call, got, rid>> /\ rpc'[r] # "push"
          /\ \A s \in Readers : s # r => rpc'[s] = rpc[s] /\ rconn'[s] = rconn[s]
      BY <2>1 DEF Reader_pop, Call_read_fails, close_connection, Reader_rearm, ReaderLoops,
         stateVars, TypeOK, ListenType, ReadType
    <3>2. QED
      BY <3>1 DEF CallsInOrder, ReadSoFar
  <2>2. QED
    BY <1>1, <2>1, OrderRead, OrderPush DEF Reads, ReaderThread
<1>2. CASE UNCHANGED <<bq_call, readerVars, got>>
  BY <1>2 DEF CallsInOrder, ReadSoFar, readerVars
<1>3. ASSUME NEW h \in Handlers, Handles(h) PROVE CallsInOrder' /\ ReadSoFar'
  <2>1. /\ UNCHANGED <<readerVars, got>>
        /\ UNCHANGED bq_call \/ (bq_call # <<>> /\ bq_call' = Tail(bq_call))
    BY <1>3 DEF Handles, HandlerThread, Handler_pop, Method_call, doRespond_push,
       doRespond_size, doRespond_notify, ProcessResponse, processResponse_pop,
       processResponse_write, processResponse_throws, processResponse_again,
       NotifyResponder, SameState, listenVars
  <2>2. QED
    BY <1>2, <2>1, OrderPop
<1>4. CASE Responds
  BY <1>2, <1>4 DEF Responds, ResponderThread, Responder_pop, Responder_find, ProcessResponse,
     processResponse_pop, processResponse_write, processResponse_throws,
     processResponse_again, NotifyResponder, SameState, listenVars
<1>5. CASE Listens \/ AcceptFails
  BY <1>2, <1>5 DEF Listens, AcceptFails, ListenerThread, handle_accept, handle_read,
     handle_accept_error, io_service_exit, addToReader, addToReader_full, stateVars
<1>6. QED
  BY <1>1, <1>2, <1>3, <1>4, <1>5 DEF Next, Client, Stops, MainThread, vars, stateVars, listenVars

(* Readers take turns on a connection and push to _bq_call without a lock  *)
(* that covers reading and pushing, yet the calls of a connection are      *)
(* queued for the handlers in the order they were sent.                    *)
THEOREM CallsStayInOrder == Spec => []CallsInOrder
<1>1. Init => CallsInOrder /\ ReadSoFar
  BY DEF Init, StateInit, ListenerInit, CallsInOrder, ReadSoFar
<1>2. CallsInOrder /\ ReadSoFar /\ SocketsOwned /\ TypeOK /\ [Next]_vars
        => CallsInOrder' /\ ReadSoFar'
  BY OrderStep
<1>3. QED
  BY <1>1, <1>2, OwnedAlways, TypeCorrect, PTL DEF Spec
=============================================================================
