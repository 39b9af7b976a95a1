------------------------------- MODULE Server -------------------------------
(***************************************************************************)
(* Server.cpp and main.cpp: the listener, reader, handler and responder    *)
(* threads of one server process, the clients at the other end of its      *)
(* sockets, and Server::stop() run by the SIGINT handler.                  *)
(***************************************************************************)
EXTENDS Listener, Responder

CONSTANTS
    ClientsMayClose,    \* clients may close or lose their connections
    ClientsMayGarble,   \* clients may send bytes on which Call::read throws
    AcceptMayFail,      \* async_accept may report an error
    SignalMayCome       \* SIGINT may be delivered

(* The switches that choose the environment.                               *)
ASSUME ServerAssumption ==
    /\ ClientsMayClose \in BOOLEAN
    /\ ClientsMayGarble \in BOOLEAN
    /\ AcceptMayFail \in BOOLEAN
    /\ SignalMayCome \in BOOLEAN

VARIABLE stop_index     \* which reader or handler stop() waits for

vars == <<stateVars, listenVars, respondVars, stop_index>>

Init == StateInit /\ ListenerInit /\ ResponderInit /\ stop_index = 0

-----------------------------------------------------------------------------
(* The clients.  A call is whatever Call::read takes for one: sent counts  *)
(* those, half says that there are bytes that are not one yet.  A request  *)
(* with an empty name puts the stream out of step (see Session.tla); what  *)
(* follows then is read as other calls, waits for ever, or is garbled.     *)

ClientConnect(c) ==
    /\ peer[c] = "none"
    /\ peer' = [peer EXCEPT ![c] = "open"]
    /\ UNCHANGED <<sent, half>>

(* The first bytes of a call arrive ...                                    *)
ClientSends(c) ==
    /\ peer[c] = "open"
    /\ ~half[c]
    /\ sent[c] < MaxCalls
    /\ half' = [half EXCEPT ![c] = TRUE]
    /\ UNCHANGED <<peer, sent>>

(* ... and the rest.                                                       *)
ClientFinishes(c) ==
    /\ peer[c] = "open"
    /\ half[c]
    /\ half' = [half EXCEPT ![c] = FALSE]
    /\ sent' = [sent EXCEPT ![c] = @ + 1]
    /\ UNCHANGED peer

(* ... or they are such that Call::read throws.                            *)
ClientGarbles(c) ==
    /\ ClientsMayGarble
    /\ peer[c] = "open"
    /\ half[c]
    /\ peer' = [peer EXCEPT ![c] = "garbled"]
    /\ UNCHANGED <<sent, half>>

ClientCloses(c) ==
    /\ ClientsMayClose
    /\ peer[c] \in {"open", "garbled"}
    /\ peer' = [peer EXCEPT ![c] = "closed"]
    /\ UNCHANGED <<sent, half>>

Client(c) ==
    /\ \/ ClientConnect(c)
       \/ ClientSends(c)
       \/ ClientFinishes(c)
       \/ ClientGarbles(c)
       \/ ClientCloses(c)
    /\ UNCHANGED <<got, sock_open, registry, bq_call, fate, listenVars,
                   respondVars, stop_index>>

-----------------------------------------------------------------------------
(* Server::stop(), run by terminate() on the main thread.                  *)

(* Mutant: the readers' flags are raised before their queues are drained.  *)
Mut_terminate ==
    /\ SignalMayCome
    /\ stopping = "no"
    /\ stopping' = "readers"
    /\ listener_stop' = TRUE
    /\ reader_stop' = [r \in Readers |-> TRUE]
    /\ stop_index' = 0
    /\ UNCHANGED <<handler_stop, responder_stop>>

(* SIGINT: Listener::stop() raises the listener's flag.                    *)
terminate ==
    /\ SignalMayCome
    /\ stopping = "no"
    /\ stopping' = "readers"
    /\ listener_stop' = TRUE
    /\ stop_index' = 0
    /\ UNCHANGED <<reader_stop, handler_stop, responder_stop>>

(* On to the next of n threads, or to the next stage of stop().            *)
Advance(n, stage) ==
    IF stop_index + 1 = n
    THEN stop_index' = 0 /\ stopping' = stage
    ELSE stop_index' = stop_index + 1 /\ UNCHANGED stopping

Reader_waitToFinish ==
    /\ stopping = "readers"
    /\ bq_conn[stop_index] = <<>>
    /\ reader_stop' = [reader_stop EXCEPT ![stop_index] = TRUE]
    /\ Advance(num_readers, "handlers")
    /\ UNCHANGED <<listener_stop, handler_stop, responder_stop>>

(* Mutant: a handler is stopped with calls still queued.                   *)
Mut_Handler_waitToFinish ==
    /\ stopping = "handlers"
    /\ handler_stop' = [handler_stop EXCEPT ![stop_index] = TRUE]
    /\ Advance(num_handlers, "responder")
    /\ UNCHANGED <<listener_stop, reader_stop, responder_stop>>

Handler_waitToFinish ==
    /\ stopping = "handlers"
    /\ bq_call = <<>>
    /\ handler_stop' = [handler_stop EXCEPT ![stop_index] = TRUE]
    /\ Advance(num_handlers, "responder")
    /\ UNCHANGED <<listener_stop, reader_stop, responder_stop>>

Responder_waitToFinish ==
    /\ stopping = "responder"
    /\ bq_respond = <<>>
    /\ responder_stop' = TRUE
    /\ stopping' = "finished"
    /\ UNCHANGED <<stop_index, listener_stop, reader_stop, handler_stop>>

(* exit(0)                                                                 *)
process_exit ==
    /\ stopping = "finished"
    /\ stopping' = "exited"
    /\ UNCHANGED <<stop_index, listener_stop, reader_stop, handler_stop, responder_stop>>

MainThread ==
    /\ \/ terminate
       \/ Reader_waitToFinish
       \/ Handler_waitToFinish
       \/ Responder_waitToFinish
       \/ process_exit
    /\ UNCHANGED <<peerVars, got, sock_open, registry, bq_call, aborted, ioVars,
                   armed, placeVars, bq_conn, readerVars, workVars,
                   respond_queue, pos, bq_respond, out>>

-----------------------------------------------------------------------------
(* The process: nothing happens once it is gone.                           *)

Listens    == Alive /\ ListenerThread /\ UNCHANGED <<respondVars, stop_index>>
AcceptFails == Alive /\ AcceptMayFail /\ handle_accept_error
                     /\ UNCHANGED <<respondVars, stop_index>>
Reads(r)   == Alive /\ ReaderThread(r) /\ UNCHANGED <<respondVars, stop_index>>
Handles(h) == Alive /\ HandlerThread(h) /\ UNCHANGED <<listenVars, stop_index>>
Responds   == Alive /\ ResponderThread /\ UNCHANGED <<listenVars, stop_index>>
Stops      == Alive /\ MainThread

Next ==
    \/ \E c \in Conns : Alive /\ Client(c)
    \/ Listens
    \/ AcceptFails
    \/ \E r \in Readers : Reads(r)
    \/ \E h \in Handlers : Handles(h)
    \/ Responds
    \/ Stops

Spec == Init /\ [][Next]_vars

(* The operating system runs every thread, stop() included once SIGINT has *)
(* come.  Nothing is assumed of the clients.                               *)
Fairness ==
    /\ WF_vars(Listens)
    /\ \A r \in Readers : WF_vars(Reads(r))
    /\ \A h \in Handlers : WF_vars(Handles(h))
    /\ WF_vars(Responds)
    /\ WF_vars(stopping # "no" /\ Stops)

FairSpec == Spec /\ Fairness
-----------------------------------------------------------------------------
(* Properties.                                                             *)

(* How the process can end otherwise than by exit.                         *)
Fates == {"no", "readers_full", "bq_call_full", "respond_queue_full",
          "bq_respond_full", "no_connection", "response_failed", "null_result"}

(* The parts of the type invariant, by component.                          *)
PeerType ==
    /\ peer \in [Conns -> {"none", "open", "garbled", "closed"}]
    /\ sent \in [Conns -> 0 .. MaxCalls]
    /\ half \in [Conns -> BOOLEAN]
    /\ \A c \in Conns : half[c] => sent[c] < MaxCalls
    /\ got \in [Conns -> 0 .. MaxCalls]
    /\ \A c \in Conns : got[c] <= sent[c]

SharedType ==
    /\ sock_open \in [Conns -> BOOLEAN]
    /\ connections \in SUBSET Conns
    /\ num_connections \in Int
    /\ bq_call \in Seq(Call) /\ Len(bq_call) <= max_num_calls
    /\ stopping \in {"no", "readers", "handlers", "responder", "finished", "exited"}
    /\ aborted \in Fates

IoType ==
    /\ accepting \in BOOLEAN /\ io_running \in BOOLEAN
    /\ accepted \in SUBSET Conns
    /\ armed \in [Conns -> Nat]
    /\ listener_stop \in BOOLEAN

PlaceType ==
    /\ l_conn \in Conns \cup {NoConn}
    /\ l_tries \in 0 .. num_readers
    /\ l_tries = num_readers => aborted # "no"
    /\ last_reader_index \in Readers \cup {-1}
    /\ l_conn # NoConn => last_reader_index \in Readers
    /\ bq_conn \in [Readers -> Seq(Conns)]
    /\ \A r \in Readers : Len(bq_conn[r]) <= max_reader_queue_size

ReadType ==
    /\ rpc \in [Readers -> {"pop", "read", "close", "push", "rearm", "done"}]
    /\ rconn \in [Readers -> Conns \cup {NoConn}]
    /\ \A r \in Readers : rpc[r] \notin {"pop", "done"} => rconn[r] # NoConn
    /\ rid \in [Readers -> 0 .. MaxCalls]
    /\ \A r \in Readers : rpc[r] = "push" => rid[r] # 0
    /\ reader_stop \in [Readers -> BOOLEAN]

StateType  == PeerType /\ SharedType
ListenType == IoType /\ PlaceType /\ ReadType

WorkType ==
    /\ wpc \in [Workers -> {"pop", "call", "queue", "size", "notify", "find", "take",
                           "write", "again", "done"}]
    /\ wcall \in [Workers -> Call \cup {NoCall}]
    /\ \A w \in Workers : wpc[w] \in {"call", "queue", "write"} => wcall[w] \in Call
    /\ wconn \in [Workers -> Conns \cup {NoConn}]
    /\ \A w \in Workers : wpc[w] \in {"size", "notify", "find", "take", "write", "again"}
                            => wconn[w] \in Conns

QueueType ==
    /\ respond_queue \in [Conns -> Seq(Call)]
    /\ \A c \in Conns : Len(respond_queue[c]) <= max_respond_size
    /\ pos \in [Call -> 0 .. ValueLen - 1]
    /\ bq_respond \in Seq(Conns) /\ Len(bq_respond) <= max_repsond_size
    /\ out \in [Conns -> Seq(Segment)]

WorkStopType == handler_stop \in [Handlers -> BOOLEAN] /\ responder_stop \in BOOLEAN

RespondType == WorkType /\ QueueType /\ WorkStopType

StopType ==
    /\ stop_index \in Nat
    /\ stopping = "readers" => stop_index \in Readers
    /\ stopping = "handlers" => stop_index \in Handlers

(* Every variable has its type; queues respect their capacities, indices   *)
(* point at readers and handlers, and a thread holds what its place needs. *)
TypeOK == StateType /\ ListenType /\ RespondType /\ StopType

Queued(c, r)   == \E i \in DOMAIN bq_conn[r] : bq_conn[r][i] = c
InReader(c, r) == rconn[r] = c \/ Queued(c, r)
Listening(c)   == armed[c] > 0 \/ l_conn = c

(* Two threads never read one socket at once: a connection is waited for   *)
(* by at most one async_read_some, or is in the listener's hands, or is    *)
(* once in one reader's queue or hands.  This is what keeps calls whole    *)
(* and in order although handle_read and _do_read pass sockets around      *)
(* without a lock.                                                         *)
OneReaderPerSocket ==
    /\ \A c \in Conns : armed[c] <= 1 /\ (armed[c] > 0 => l_conn # c)
    /\ \A c \in Conns, r \in Readers :
          InReader(c, r) => /\ ~Listening(c)
                            /\ \A r2 \in Readers : InReader(c, r2) => r2 = r
    /\ \A r \in Readers : \A i \in DOMAIN bq_conn[r] :
          /\ bq_conn[r][i] # rconn[r]
          /\ \A j \in DOMAIN bq_conn[r] : bq_conn[r][i] = bq_conn[r][j] => i = j

(* A socket that was accepted and not closed is never forgotten while it   *)
(* changes hands: until SIGINT the listener waits for it, or it is in some *)
(* reader's queue or hands.                                                *)
NoSocketForgotten ==
    \A c \in accepted : sock_open[c] /\ ~listener_stop =>
        Listening(c) \/ \E r \in Readers : InReader(c, r)

(* What a reader still has to read from is in _connections and open.       *)
Registered ==
    \A c \in Conns : l_conn = c \/ (\E r \in Readers : InReader(c, r))
                       => c \in connections /\ sock_open[c]

(* close_connection never closes a connection twice or under a reader: a   *)
(* connection some reader still has to read from is in _connections and    *)
(* its socket is open, and num_connections is the size of _connections.    *)
RegistryAgrees == num_connections = Cardinality(connections) /\ Registered

(* The inductive form of both: a socket that was not accepted is nowhere,  *)
(* and one that is waited for, or still in the backlog, is open.           *)
SocketsOwned ==
    /\ OneReaderPerSocket
    /\ Registered
    /\ \A c \in Conns \ accepted : ~Listening(c) /\ \A r \in Readers : ~InReader(c, r)
    /\ \A c \in Conns : armed[c] > 0 \/ c \notin accepted => sock_open[c]

OnRespond(c) == {i \in DOMAIN bq_respond : bq_respond[i] = c}
Attending(c) == {w \in Workers : /\ wconn[w] = c
                                 /\ wpc[w] \in {"size", "notify", "find", "take", "again"}}

(* Every queued result has exactly one visit to its queue under way (an    *)
(* endpoint in _bq_respond or a worker heading for it), so no result is    *)
(* left behind when a handler skips _bq_respond and no try_pop in          *)
(* Responder::processResponse finds the queue empty.                       *)
RespondBalance ==
    \A c \in Conns : Len(respond_queue[c]) =
                         Cardinality(OnRespond(c)) + Cardinality(Attending(c))

FinalSegments(x) == {i \in DOMAIN out[x[1]] : /\ out[x[1]][i].call = x
                                              /\ out[x[1]][i].to = ValueLen}
Answered(x) == FinalSegments(x) # {}

(* In how many places a call that was read is, or was answered.            *)
Places(x) ==
      Cardinality({r \in Readers : rpc[r] = "push" /\ <<rconn[r], rid[r]>> = x})
    + Cardinality({i \in DOMAIN bq_call : bq_call[i] = x})
    + Cardinality({w \in Workers : wcall[w] = x})
    + Cardinality({i \in DOMAIN respond_queue[x[1]] : respond_queue[x[1]][i] = x})
    + Cardinality(FinalSegments(x))

(* A call is never duplicated, and never lost unless its client has gone   *)
(* or sent what makes Call::read throw (after which the server closes the  *)
(* socket with results still queued), or its connection's respond_queue    *)
(* can have been full.                                                     *)
CallsAccountedFor ==
    \A c \in Conns : \A i \in 1 .. got[c] :
        \/ Places(<<c, i>>) = 1
        \/ Places(<<c, i>>) = 0 /\ (peer[c] \in Unreadable \/ got[c] > max_respond_size)

(* Readers take turns on a connection, each pushing to _bq_call without a  *)
(* lock that covers reading and pushing: still the calls of a connection   *)
(* reach the handlers in the order they were sent, and the one in a        *)
(* reader's hands comes after all of them.                                 *)
CallsInOrder ==
    /\ \A i, j \in DOMAIN bq_call :
          i < j /\ bq_call[i][1] = bq_call[j][1] => bq_call[i][2] < bq_call[j][2]
    /\ \A r \in Readers : rpc[r] = "push" =>
          \A i \in DOMAIN bq_call : bq_call[i][1] = rconn[r] => bq_call[i][2] < rid[r]

(* How often call j of c was answered, counted at the last byte.           *)
AnsweredOn(c) == [j \in 1 .. MaxCalls |-> Cardinality(FinalSegments(<<c, j>>))]

Promise == INSTANCE Service
           WITH Links    <- Conns,
                Numbers  <- 1 .. MaxCalls,
                asked    <- sent,
                answered <- [c \in Conns |-> AnsweredOn(c)],
                up       <- [c \in Conns |-> Alive /\ sock_open[c]]

(* Whatever the readers, the handlers, the responder and stop() do with a  *)
(* call, its client sees a Service: an answer only to a call it has sent   *)
(* whole, never a second one, and none once the socket is closed.          *)
RefinesService == Promise!Spec

Before(c, i) == {j \in 1 .. i - 1 : out[c][j].call = out[c][i].call}

(* Whoever continues a partly written response, on whichever thread, it    *)
(* continues where the last write stopped and on the call's own connection.*)
ResponseIntact ==
    \A c \in Conns : \A i \in DOMAIN out[c] :
        /\ out[c][i].call[1] = c
        /\ out[c][i].from < out[c][i].to
        /\ IF Before(c, i) = {} THEN out[c][i].from = 0
           ELSE \E j \in Before(c, i) : /\ out[c][j].to = out[c][i].from
                                        /\ \A k \in Before(c, i) : k <= j

Unanswered(c) == {i \in 1 .. got[c] : ~Answered(<<c, i>>)}
AllUnanswered == {x \in Call : x[2] \in Unanswered(x[1])}

(* What it takes to reach each std::abort() of the server: more sockets    *)
(* than the readers' queues hold, more calls in work than a queue holds, a *)
(* client that went away or on whose bytes Call::read threw (one such      *)
(* client with a result still queued ends the server for all), or a call   *)
(* Method::call cannot execute.                                            *)
AbortsExplained ==
    /\ aborted = "readers_full" =>
          Cardinality(accepted) > num_readers * max_reader_queue_size
    /\ aborted = "bq_call_full" => Cardinality(AllUnanswered) > max_num_calls
    /\ aborted = "respond_queue_full" =>
          \E c \in Conns : Cardinality(Unanswered(c)) > max_respond_size
    /\ aborted = "bq_respond_full" => Cardinality(AllUnanswered) > max_repsond_size
    /\ aborted = "no_connection" => \E c \in Conns : peer[c] \in Unreadable
    /\ aborted = "response_failed" =>
          \E c \in Conns : \/ peer[c] \in Unreadable
                            \/ Cardinality(Unanswered(c)) > max_respond_size
    /\ aborted = "null_result" => \E x \in Unknown : sent[x[1]] >= x[2]

(* README: "A client's connection will stay open for more calls from       *)
(* client."  Until SIGINT, the server serves every accepted socket whose   *)
(* client has not closed it.                                               *)
StaysOpen ==
    \A c \in accepted : peer[c] = "open" /\ ~listener_stop => Alive /\ sock_open[c]

(* Connection.cpp: an unfinished call is added "back to respond_queue and  *)
(* move on to next connection".  The rest of a response follows its        *)
(* beginning with no other response of the same connection in between.     *)
FramesContiguous ==
    \A c \in Conns : \A i \in DOMAIN out[c] :
        out[c][i].from > 0 => i > 1 /\ out[c][i - 1].call = out[c][i].call

(* A reader sits in Call::read() on a call whose client has not sent the   *)
(* rest of it.                                                             *)
ReaderStuck == \E r \in Readers : /\ rpc[r] = "read"
                                  /\ half[rconn[r]]
                                  /\ got[rconn[r]] = sent[rconn[r]]

(* Every call a client sends is answered in full, unless the client leaves *)
(* or garbles its stream, or the server stops; only a client that never    *)
(* ends a call it has begun can hold up the calls of the others, by        *)
(* holding up a reader for ever.  This is for instances in which no abort  *)
(* of AbortsExplained can happen: every queue holds all calls there are,   *)
(* all calls can be executed, and no client goes away or garbles.          *)
EveryCallAnswered ==
    \A x \in Call :
        []( sent[x[1]] >= x[2] => <>( \/ Answered(x)
                                     \/ peer[x[1]] \in Unreadable \/ stopping # "no"
                                     \/ []ReaderStuck ) )

(* Server::stop() waits for queues that other threads keep filling; it     *)
(* still comes to its end, unless a half-sent call holds up a reader.      *)
StopTerminates == [](stopping # "no" => <>(~Alive \/ []ReaderStuck))

(* The calls the server has in work: read, not dropped and not answered.   *)
InWork == {x \in AllUnanswered : Places(x) = 1}

(* stop() empties the queues one after the other but waits for no thread:  *)
(* when it exits, at most one call per thread was still in work, however   *)
(* many were there and came in while it waited.  (listener_stop: the       *)
(* process ended by stop() and not because the accepts ran out.)           *)
LostAtExit ==
    stopping = "exited" /\ listener_stop /\ aborted = "no" =>
        Cardinality(InWork) <= num_readers + num_handlers + 1

(* README: "A connection will be closed if no call received in a           *)
(* configured timeout."  An accepted connection is not kept for ever.      *)
IdleClosed ==
    \A c \in Conns : c \in accepted ~> ~sock_open[c] \/ peer[c] = "closed" \/ ~Alive
=============================================================================
