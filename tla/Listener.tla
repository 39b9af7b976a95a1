------------------------------ MODULE Listener ------------------------------
(***************************************************************************)
(* Listener.cpp and Listener.h: the listener thread, which runs the        *)
(* handlers of _io_service_listener one at a time, and the reader threads. *)
(*                                                                         *)
(* The read interest of a connection travels: an outstanding               *)
(* async_read_some (armed), the connection in handle_read's hands          *)
(* (l_conn), in a reader's queue (bq_conn), in a reader's hands (rconn),   *)
(* and back to async_read_some once the reader has read one call.          *)
(***************************************************************************)
EXTENDS ServerState

VARIABLES
    accepting,          \* an async_accept is outstanding
    accepted,           \* the sockets that have left the accept backlog
    io_running,         \* _io_service_listener.run() has not returned
    armed,              \* armed[c]: outstanding async_read_some operations on c
    l_conn,             \* the connection handle_read is placing, or NoConn
    l_tries,            \* addToReader's retry_times
    last_reader_index,
    bq_conn,            \* bq_conn[r]: Reader r's _bq_conn
    rpc,                \* rpc[r]: where reader r is
    rconn,              \* rconn[r]: the connection it reads from
    rid,                \* rid[r]: the call it has read
    listener_stop,      \* Listener::_should_stop
    reader_stop         \* Reader::_should_stop

ioVars     == <<accepting, accepted, io_running>>
placeVars  == <<l_conn, l_tries, last_reader_index>>
readerVars == <<rpc, rconn, rid>>
readStops  == <<listener_stop, reader_stop>>
listenVars == <<ioVars, armed, placeVars, bq_conn, readerVars, readStops>>

ListenerInit ==
    /\ accepting = TRUE
    /\ accepted = {}
    /\ io_running = TRUE
    /\ armed = [c \in Conns |-> 0]
    /\ l_conn = NoConn
    /\ l_tries = 0
    /\ last_reader_index = -1
    /\ bq_conn = [r \in Readers |-> <<>>]
    /\ rpc = [r \in Readers |-> "pop"]
    /\ rconn = [r \in Readers |-> NoConn]
    /\ rid = [r \in Readers |-> 0]
    /\ listener_stop = FALSE
    /\ reader_stop = [r \in Readers |-> FALSE]

ListenerIdle == io_running /\ l_conn = NoConn

-----------------------------------------------------------------------------
(* The listener thread.                                                    *)

(* handle_accept without error: wait for the socket to become readable and *)
(* accept the next one.  After stop() the new socket is neither read nor   *)
(* closed (_curr_sock keeps it) and no further accept is started.          *)
handle_accept(c) ==
    /\ ListenerIdle
    /\ accepting
    /\ peer[c] # "none"
    /\ c \notin accepted
    /\ accepted' = accepted \cup {c}
    /\ IF listener_stop
       THEN accepting' = FALSE /\ UNCHANGED armed
       ELSE armed' = [armed EXCEPT ![c] = @ + 1] /\ UNCHANGED accepting
    /\ UNCHANGED <<stateVars, io_running, placeVars, bq_conn, readerVars, readStops>>

(* handle_accept with an error: nothing is done, not even _do_accept().    *)
handle_accept_error ==
    /\ ListenerIdle
    /\ accepting
    /\ accepting' = FALSE
    /\ UNCHANGED <<stateVars, accepted, io_running, armed, placeVars, bq_conn,
                   readerVars, readStops>>

(* run() returns when no asynchronous operation is outstanding.  The       *)
(* listener thread ends, Listener::run() and main() return and the process *)
(* exits, unless main's thread is already inside stop().                   *)
io_service_exit ==
    /\ ListenerIdle
    /\ ~accepting
    /\ \A c \in Conns : armed[c] = 0
    /\ io_running' = FALSE
    /\ stopping' = IF stopping = "no" THEN "exited" ELSE stopping
    /\ UNCHANGED <<peerVars, got, sock_open, registry, bq_call, aborted,
                   accepting, accepted, armed, placeVars, bq_conn, readerVars,
                   readStops>>

(* There are bytes to read, or the end of the stream.                      *)
Readable(c) == got[c] < sent[c] \/ half[c] \/ peer[c] = "closed"

(* Mutant: handle_read itself waits for the socket again.                  *)
Mut_handle_read_again(c) ==
    /\ ListenerIdle
    /\ armed[c] > 0
    /\ Readable(c)
    /\ connections' = connections \cup {c}
    /\ num_connections' = IF c \in connections THEN num_connections
                          ELSE num_connections + 1
    /\ l_conn' = c
    /\ l_tries' = 0
    /\ last_reader_index' = (last_reader_index + 1) % num_readers
    /\ UNCHANGED <<peerVars, got, sock_open, bq_call, fate, ioVars, armed, bq_conn,
                   readerVars, readStops>>

(* handle_read up to the unlock of _mutex_conns: find or create the        *)
(* connection, then start addToReader with the next reader in turn.        *)
handle_read(c) ==
    /\ ListenerIdle
    /\ armed[c] > 0
    /\ Readable(c)
    /\ armed' = [armed EXCEPT ![c] = @ - 1]
    /\ IF listener_stop
       THEN UNCHANGED <<registry, placeVars>>
       ELSE /\ connections' = connections \cup {c}
            /\ num_connections' = IF c \in connections THEN num_connections
                                  ELSE num_connections + 1
            /\ l_conn' = c
            /\ l_tries' = 0
            /\ last_reader_index' = (last_reader_index + 1) % num_readers
    /\ UNCHANGED <<peerVars, got, sock_open, bq_call, fate, ioVars, bq_conn,
                   readerVars, readStops>>

(* addToReader: the reader in turn has room.                               *)
addToReader ==
    /\ l_conn # NoConn
    /\ Len(bq_conn[last_reader_index]) < max_reader_queue_size
    /\ bq_conn' = [bq_conn EXCEPT ![last_reader_index] = Append(@, l_conn)]
    /\ l_conn' = NoConn
    /\ UNCHANGED <<stateVars, ioVars, armed, l_tries, last_reader_index,
                   readerVars, readStops>>

(* Mutant: handle_read gives up after one full reader.                     *)
Mut_addToReader_full ==
    /\ l_conn # NoConn
    /\ Len(bq_conn[last_reader_index]) >= max_reader_queue_size
    /\ aborted' = "readers_full"
    /\ UNCHANGED <<peerVars, got, sock_open, registry, bq_call, stopping,
                   ioVars, armed, placeVars, bq_conn, readerVars, readStops>>

(* addToReader: its try_push fails; after one attempt per reader           *)
(* handle_read aborts.                                                     *)
addToReader_full ==
    /\ l_conn # NoConn
    /\ Len(bq_conn[last_reader_index]) >= max_reader_queue_size
    /\ last_reader_index' = (last_reader_index + 1) % num_readers
    /\ l_tries' = l_tries + 1
    /\ aborted' = IF l_tries + 1 = num_readers THEN "readers_full" ELSE aborted
    /\ UNCHANGED <<peerVars, got, sock_open, registry, bq_call, stopping,
                   ioVars, armed, l_conn, bq_conn, readerVars, readStops>>

-----------------------------------------------------------------------------
(* Reader threads: start() and _do_read().                                 *)

(* The top of Reader::start()'s loop; a reader that has passed it sits in  *)
(* _bq_conn.pop(), which does not look at _should_stop.                    *)
ReaderLoops(r) == rpc' = [rpc EXCEPT ![r] = IF reader_stop[r] THEN "done" ELSE "pop"]

Reader_pop(r) ==
    /\ rpc[r] = "pop"
    /\ bq_conn[r] # <<>>
    /\ rconn' = [rconn EXCEPT ![r] = Head(bq_conn[r])]
    /\ bq_conn' = [bq_conn EXCEPT ![r] = Tail(@)]
    /\ rpc' = [rpc EXCEPT ![r] = "read"]
    /\ UNCHANGED <<stateVars, ioVars, armed, placeVars, rid, readStops>>

(* Call::read() blocks until a whole call has arrived.                     *)
Call_read(r) ==
    /\ rpc[r] = "read"
    /\ got[rconn[r]] < sent[rconn[r]]
    /\ got' = [got EXCEPT ![rconn[r]] = @ + 1]
    /\ rid' = [rid EXCEPT ![r] = got[rconn[r]] + 1]
    /\ rpc' = [rpc EXCEPT ![r] = "push"]
    /\ UNCHANGED <<peerVars, sock_open, registry, bq_call, fate, ioVars, armed,
                   placeVars, bq_conn, rconn, readStops>>

(* Call::read() meets the end of the stream or a reset, or bytes that make *)
(* it throw (Call.cpp 55): an empty string, a size vector::reserve refuses.*)
(* It returns false in each case, and the reader closes the connection.    *)
Call_read_fails(r) ==
    /\ rpc[r] = "read"
    /\ \/ peer[rconn[r]] = "closed"
       \/ peer[rconn[r]] = "garbled" /\ got[rconn[r]] = sent[rconn[r]]
    /\ rpc' = [rpc EXCEPT ![r] = "close"]
    /\ UNCHANGED <<stateVars, ioVars, armed, placeVars, bq_conn, rconn, rid,
                   readStops>>

(* Mutant: close_connection does not count num_connections down.           *)
Mut_close_connection(r) ==
    /\ rpc[r] = "close"
    /\ sock_open' = [sock_open EXCEPT ![rconn[r]] = FALSE]
    /\ connections' = connections \ {rconn[r]}
    /\ rconn' = [rconn EXCEPT ![r] = NoConn]
    /\ ReaderLoops(r)
    /\ UNCHANGED <<peerVars, got, num_connections, bq_call, fate, ioVars, armed,
                   placeVars, bq_conn, rid, readStops>>

(* Listener::close_connection, under _mutex_conns.                         *)
close_connection(r) ==
    /\ rpc[r] = "close"
    /\ sock_open' = [sock_open EXCEPT ![rconn[r]] = FALSE]
    /\ connections' = connections \ {rconn[r]}
    /\ num_connections' = num_connections - 1
    /\ rconn' = [rconn EXCEPT ![r] = NoConn]
    /\ ReaderLoops(r)
    /\ UNCHANGED <<peerVars, got, bq_call, fate, ioVars, armed, placeVars,
                   bq_conn, rid, readStops>>

(* Mutant: the bound of _bq_call is off by one.                            *)
Mut_Reader_push(r) ==
    /\ rpc[r] = "push"
    /\ Len(bq_call) <= max_num_calls
    /\ bq_call' = Append(bq_call, <<rconn[r], rid[r]>>)
    /\ rpc' = [rpc EXCEPT ![r] = "rearm"]
    /\ UNCHANGED <<peerVars, got, sock_open, registry, fate, ioVars, armed,
                   placeVars, bq_conn, rconn, rid, readStops>>

(* _bq_call.try_push(s_call), or abort when it is full for 30 ms.          *)
Reader_push(r) ==
    /\ rpc[r] = "push"
    /\ IF Len(bq_call) < max_num_calls
       THEN /\ bq_call' = Append(bq_call, <<rconn[r], rid[r]>>)
            /\ rpc' = [rpc EXCEPT ![r] = "rearm"]
            /\ UNCHANGED aborted
       ELSE /\ aborted' = "bq_call_full"
            /\ UNCHANGED <<bq_call, rpc>>
    /\ UNCHANGED <<peerVars, got, sock_open, registry, stopping, ioVars, armed,
                   placeVars, bq_conn, rconn, rid, readStops>>

(* Mutant: the reader does not put the connection back to the listener.    *)
Mut_Reader_rearm(r) ==
    /\ rpc[r] = "rearm"
    /\ rconn' = [rconn EXCEPT ![r] = NoConn]
    /\ ReaderLoops(r)
    /\ UNCHANGED <<stateVars, ioVars, armed, placeVars, bq_conn, rid, readStops>>

(* async_read_some: give the socket back to the listener.                  *)
Reader_rearm(r) ==
    /\ rpc[r] = "rearm"
    /\ armed' = [armed EXCEPT ![rconn[r]] = @ + 1]
    /\ rconn' = [rconn EXCEPT ![r] = NoConn]
    /\ ReaderLoops(r)
    /\ UNCHANGED <<stateVars, ioVars, placeVars, bq_conn, rid, readStops>>

ListenerThread ==
    \/ \E c \in Conns : handle_accept(c) \/ handle_read(c)
    \/ io_service_exit
    \/ addToReader
    \/ addToReader_full

ReaderThread(r) ==
    \/ Reader_pop(r)
    \/ Call_read(r)
    \/ Call_read_fails(r)
    \/ close_connection(r)
    \/ Reader_push(r)
    \/ Reader_rearm(r)
=============================================================================
