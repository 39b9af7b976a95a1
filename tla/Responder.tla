------------------------------ MODULE Responder ------------------------------
(***************************************************************************)
(* Handler.cpp, Responder.cpp and the response side of Connection.cpp: the *)
(* handler threads execute calls and put the results on their connection's *)
(* respond_queue; results are written to the socket either by the handler  *)
(* itself (when its result is alone in the queue) or by the responder      *)
(* thread, to which the handler then passes the connection's endpoint.     *)
(*                                                                         *)
(* Handlers and responder share processResponse, so both are workers.      *)
(***************************************************************************)
EXTENDS ServerState

CONSTANTS
    max_respond_size,   \* capacity of each Connection::respond_queue
    max_repsond_size,   \* capacity of _bq_respond
    ValueLen,           \* length of a result; write_some may write 1..ValueLen of it
    Unknown             \* the calls Method::call cannot execute: it does not know the class
                        \* or method, or NameNode::create misses one of its four ints

(* The queues have room for at least one element; results are not empty.   *)
ASSUME ResponderAssumption ==
    /\ max_respond_size \in Nat \ {0}
    /\ max_repsond_size \in Nat \ {0}
    /\ ValueLen \in Nat \ {0}
    /\ Unknown \subseteq Call

RespThread == num_handlers
Workers == 0 .. num_handlers   \* the handlers and the responder thread

NoCall == <<NoConn, 0>>

VARIABLES
    wpc,            \* wpc[w]: where worker w is
    wcall,          \* wcall[w]: the call in its hands
    wconn,          \* wconn[w]: the connection it responds on
    respond_queue,  \* respond_queue[c]
    pos,            \* pos[call]: Call::_pos, how much of its value is written
    bq_respond,     \* _bq_respond, as the connections of the endpoints
    out,            \* out[c]: what has been written to c's socket, as segments
    handler_stop,   \* Handler::_should_stop
    responder_stop  \* Responder::_should_stop

workVars    == <<wpc, wcall, wconn>>
respondVars == <<workVars, respond_queue, pos, bq_respond, out, handler_stop, responder_stop>>

(* One processResponse writes value[from+1 .. to] of one call, preceded by *)
(* the call's id and the length when from = 0.                             *)
Segment == [call : Call, from : 0 .. ValueLen, to : 0 .. ValueLen]

ResponderInit ==
    /\ wpc = [w \in Workers |-> "pop"]
    /\ wcall = [w \in Workers |-> NoCall]
    /\ wconn = [w \in Workers |-> NoConn]
    /\ respond_queue = [c \in Conns |-> <<>>]
    /\ pos = [x \in Call |-> 0]
    /\ bq_respond = <<>>
    /\ out = [c \in Conns |-> <<>>]
    /\ handler_stop = [h \in Handlers |-> FALSE]
    /\ responder_stop = FALSE

(* Nothing of the state the listener and the readers also use changes.     *)
SameState(fateUnchanged) ==
    /\ UNCHANGED <<peerVars, got, sock_open, registry, bq_call, stopping>>
    /\ fateUnchanged => UNCHANGED aborted

ShouldStop(w) == IF w = RespThread THEN responder_stop ELSE handler_stop[w]

(* Back to the loop condition of handle() or respond().                    *)
Loops(w) ==
    /\ wpc' = [wpc EXCEPT ![w] = IF ShouldStop(w) THEN "done" ELSE "pop"]
    /\ wcall' = [wcall EXCEPT ![w] = NoCall]
    /\ wconn' = [wconn EXCEPT ![w] = NoConn]

GoesTo(w, where) == wpc' = [wpc EXCEPT ![w] = where]

-----------------------------------------------------------------------------
(* Handler::handle and Responder::doRespond.                               *)

Handler_pop(h) ==
    /\ wpc[h] = "pop"
    /\ bq_call # <<>>
    /\ bq_call' = Tail(bq_call)
    /\ wcall' = [wcall EXCEPT ![h] = Head(bq_call)]
    /\ GoesTo(h, "call")
    /\ UNCHANGED <<peerVars, got, sock_open, registry, fate, wconn,
                   respond_queue, pos, bq_respond, out, handler_stop, responder_stop>>

(* Method::call and Call::setValue, which dereferences the NULL result of  *)
(* an unknown class or method (as NameNode::create does a missing int).    *)
Method_call(h) ==
    /\ wpc[h] = "call"
    /\ IF wcall[h] \in Unknown
       THEN aborted' = "null_result" /\ UNCHANGED wpc
       ELSE GoesTo(h, "queue") /\ UNCHANGED aborted
    /\ SameState(FALSE)
    /\ UNCHANGED <<wcall, wconn, respond_queue, pos, bq_respond, out,
                   handler_stop, responder_stop>>

(* Mutant: doRespond takes respond_queue for full one call too early.      *)
Mut_doRespond_push(h) ==
    /\ wpc[h] = "queue"
    /\ LET c == wcall[h][1] IN
       IF Len(respond_queue[c]) + 1 < max_respond_size
       THEN /\ respond_queue' = [respond_queue EXCEPT ![c] = Append(@, wcall[h])]
            /\ wconn' = [wconn EXCEPT ![h] = c]
            /\ wcall' = [wcall EXCEPT ![h] = NoCall]
            /\ GoesTo(h, "size")
            /\ UNCHANGED aborted
       ELSE /\ aborted' = "respond_queue_full"
            /\ UNCHANGED <<respond_queue, workVars>>
    /\ SameState(FALSE)
    /\ UNCHANGED <<pos, bq_respond, out, handler_stop, responder_stop>>

(* doRespond: put the call on its connection's respond_queue, or return    *)
(* false, which makes handle() abort.                                      *)
doRespond_push(h) ==
    /\ wpc[h] = "queue"
    /\ LET c == wcall[h][1] IN
       IF Len(respond_queue[c]) < max_respond_size
       THEN /\ respond_queue' = [respond_queue EXCEPT ![c] = Append(@, wcall[h])]
            /\ wconn' = [wconn EXCEPT ![h] = c]
            /\ wcall' = [wcall EXCEPT ![h] = NoCall]
            /\ GoesTo(h, "size")
            /\ UNCHANGED aborted
       ELSE /\ aborted' = "respond_queue_full"
            /\ UNCHANGED <<respond_queue, workVars>>
    /\ SameState(FALSE)
    /\ UNCHANGED <<pos, bq_respond, out, handler_stop, responder_stop>>

(* doRespond: respond from the handler if the queue has just one call.     *)
doRespond_size(h) ==
    /\ wpc[h] = "size"
    /\ GoesTo(h, IF Len(respond_queue[wconn[h]]) = 1 THEN "take" ELSE "notify")
    /\ SameState(TRUE)
    /\ UNCHANGED <<wcall, wconn, respond_queue, pos, bq_respond, out,
                   handler_stop, responder_stop>>

(* Push wconn[w] to one end of _bq_respond, or abort if it stays full.     *)
NotifyResponder(w, queue) ==
    /\ IF Len(bq_respond) < max_repsond_size
       THEN bq_respond' = queue /\ Loops(w) /\ UNCHANGED aborted
       ELSE aborted' = "bq_respond_full" /\ UNCHANGED <<bq_respond, workVars>>
    /\ SameState(FALSE)
    /\ UNCHANGED <<respond_queue, pos, out, handler_stop, responder_stop>>

(* doRespond: otherwise leave it to the responder thread.                  *)
doRespond_notify(h) ==
    /\ wpc[h] = "notify"
    /\ NotifyResponder(h, Append(bq_respond, wconn[h]))

-----------------------------------------------------------------------------
(* Responder::respond.                                                     *)

Responder_pop ==
    /\ wpc[RespThread] = "pop"
    /\ bq_respond # <<>>
    /\ bq_respond' = Tail(bq_respond)
    /\ wconn' = [wconn EXCEPT ![RespThread] = Head(bq_respond)]
    /\ GoesTo(RespThread, "find")
    /\ SameState(TRUE)
    /\ UNCHANGED <<wcall, respond_queue, pos, out, handler_stop, responder_stop>>

(* Look the endpoint up under _mutex_conns; abort if it is gone.           *)
Responder_find ==
    /\ wpc[RespThread] = "find"
    /\ IF wconn[RespThread] \in connections
       THEN GoesTo(RespThread, "take") /\ UNCHANGED aborted
       ELSE aborted' = "no_connection" /\ UNCHANGED wpc
    /\ SameState(FALSE)
    /\ UNCHANGED <<wcall, wconn, respond_queue, pos, bq_respond, out,
                   handler_stop, responder_stop>>

-----------------------------------------------------------------------------
(* Responder::processResponse and Connection::processResponse.             *)

(* processResponse returned false: respond() aborts, doRespond() goes on.  *)
ResponseFails(w) ==
    IF w = RespThread THEN aborted' = "response_failed" /\ UNCHANGED workVars
    ELSE Loops(w) /\ UNCHANGED aborted

(* Mutant: the call is read from the queue but not removed.                *)
Mut_processResponse_pop(w) ==
    /\ wpc[w] = "take"
    /\ wcall' = [wcall EXCEPT ![w] = Head(respond_queue[wconn[w]])]
    /\ GoesTo(w, "write")
    /\ SameState(TRUE)
    /\ UNCHANGED <<wconn, respond_queue, pos, bq_respond, out, handler_stop,
                   responder_stop>>

(* respond_queue.try_pop.                                                  *)
processResponse_pop(w) ==
    /\ wpc[w] = "take"
    /\ LET q == respond_queue[wconn[w]] IN
       IF q # <<>>
       THEN /\ wcall' = [wcall EXCEPT ![w] = Head(q)]
            /\ respond_queue' = [respond_queue EXCEPT ![wconn[w]] = Tail(q)]
            /\ GoesTo(w, "write")
            /\ UNCHANGED <<wconn, aborted>>
       ELSE ResponseFails(w) /\ UNCHANGED respond_queue
    /\ SameState(FALSE)
    /\ UNCHANGED <<pos, bq_respond, out, handler_stop, responder_stop>>

(* Mutant: setPos is forgotten.                                            *)
Mut_processResponse_write(w, n) ==
    LET c == wconn[w]
        x == wcall[w]
        written == pos[x] + n IN
    /\ wpc[w] = "write"
    /\ sock_open[c]
    /\ written <= ValueLen
    /\ out' = [out EXCEPT ![c] = Append(@, [call |-> x, from |-> pos[x], to |-> written])]
    /\ IF written = ValueLen
       THEN Loops(w) /\ UNCHANGED respond_queue
       ELSE /\ respond_queue' = [respond_queue EXCEPT ![c] = Append(@, x)]
            /\ wcall' = [wcall EXCEPT ![w] = NoCall]
            /\ GoesTo(w, "again")
            /\ UNCHANGED wconn
    /\ SameState(TRUE)
    /\ UNCHANGED <<pos, bq_respond, handler_stop, responder_stop>>

(* Connection::processResponse under Connection::_mutex: write_some writes *)
(* n bytes of what is left.  An unfinished call goes back to the end of    *)
(* respond_queue, or is dropped if that is full.                           *)
processResponse_write(w, n) ==
    LET c == wconn[w]
        x == wcall[w]
        written == pos[x] + n IN
    /\ wpc[w] = "write"
    /\ sock_open[c]
    /\ written <= ValueLen
    /\ out' = [out EXCEPT ![c] = Append(@, [call |-> x, from |-> pos[x], to |-> written])]
    /\ IF written = ValueLen
       THEN Loops(w) /\ UNCHANGED <<pos, respond_queue, aborted>>
       ELSE /\ pos' = [pos EXCEPT ![x] = written]
            /\ IF Len(respond_queue[c]) < max_respond_size
               THEN /\ respond_queue' = [respond_queue EXCEPT ![c] = Append(@, x)]
                    /\ wcall' = [wcall EXCEPT ![w] = NoCall]
                    /\ GoesTo(w, "again")
                    /\ UNCHANGED <<wconn, aborted>>
               ELSE ResponseFails(w) /\ UNCHANGED respond_queue
    /\ SameState(FALSE)
    /\ UNCHANGED <<bq_respond, handler_stop, responder_stop>>

(* The write throws: the socket was closed by a reader, or the client has  *)
(* gone and the kernel knows it.                                           *)
processResponse_throws(w) ==
    /\ wpc[w] = "write"
    /\ ~sock_open[wconn[w]] \/ peer[wconn[w]] = "closed"
    /\ ResponseFails(w)
    /\ SameState(FALSE)
    /\ UNCHANGED <<respond_queue, pos, bq_respond, out, handler_stop, responder_stop>>

(* Mutant: the responder is not told of the unfinished response.           *)
Mut_processResponse_again(w) ==
    /\ wpc[w] = "again"
    /\ Loops(w)
    /\ SameState(TRUE)
    /\ UNCHANGED <<respond_queue, pos, bq_respond, out, handler_stop, responder_stop>>

(* An unfinished response: ask the responder thread to go on with this     *)
(* connection first.                                                       *)
processResponse_again(w) ==
    /\ wpc[w] = "again"
    /\ NotifyResponder(w, <<wconn[w]>> \o bq_respond)

ProcessResponse(w) ==
    \/ processResponse_pop(w)
    \/ \E n \in 1 .. ValueLen : processResponse_write(w, n)
    \/ processResponse_throws(w)
    \/ processResponse_again(w)

HandlerThread(h) ==
    \/ Handler_pop(h)
    \/ Method_call(h)
    \/ doRespond_push(h)
    \/ doRespond_size(h)
    \/ doRespond_notify(h)
    \/ ProcessResponse(h)

ResponderThread ==
    \/ Responder_pop
    \/ Responder_find
    \/ ProcessResponse(RespThread)
=============================================================================
