------------------------------- MODULE Client -------------------------------
(***************************************************************************)
(* Client.cpp and Client.h: application threads that share one Client and  *)
(* call one server endpoint, the Connection objects made for that endpoint *)
(* one after the other, each with its receiver thread, and, external to    *)
(* the code, the server at the other end of the sockets.                   *)
(*                                                                         *)
(* _mutex_client is held from getConnection's look-up to its return and    *)
(* _mutex_send_call while a call is written; what runs under _mutex_conn   *)
(* is one step.  Waits are timed and re-test their predicate, so a waiter  *)
(* needs no notification to see what changed.                              *)
(***************************************************************************)
EXTENDS Integers, Sequences, FiniteSets

CONSTANTS
    Callers,            \* application threads inside RPC::invoke
    MaxCalls,           \* bound: calls each of them makes
    MaxConns,           \* bound: Connection objects made
    _max_wait_rep,      \* Connection::_max_wait_rep
    SockInit,           \* what the uninitialised _sock of a new Connection may hold
    SlowCallers,        \* a thread may take over 500 ms from connect() to addCall()
    ConnectMayFail,     \* tcp::socket::connect may throw
    ThreadMayFail,      \* boost::thread may throw when the receiver is started
    ServerMayClose,     \* the server may close a connection
    Nobody, NoValue

(* At least one round of waiting; "null" is the value the code expects.    *)
ASSUME ClientAssumption ==
    /\ Nobody \notin Callers
    /\ MaxCalls \in Nat
    /\ MaxConns \in Nat
    /\ _max_wait_rep \in Nat \ {0}
    /\ SockInit \subseteq {"null", "garbage"}
    /\ SlowCallers \in BOOLEAN /\ ConnectMayFail \in BOOLEAN
    /\ ThreadMayFail \in BOOLEAN /\ ServerMayClose \in BOOLEAN
    /\ NoValue \notin Callers \X (1 .. MaxCalls)

ConnIds == 1 .. MaxConns
Call    == Callers \X (1 .. MaxCalls)
Numbers == 1 .. MaxCalls * Cardinality(Callers)     \* of requests on one connection
Chunk   == [part : {"id", "param"}, id : Nat, call : Call]
Reply   == [id : Nat, value : Call]

VARIABLES
    pc,             \* pc[t]: where caller t is
    ncalls,         \* ncalls[t]: how many calls t has begun
    conn,           \* conn[t]: the connection of t's call, 0 for none
    call_id,        \* call_id[t]: Call::_id of t's call
    value,          \* value[x]: Call::_value
    done,           \* done[x]: Call::_done
    mutex_client,   \* who holds _mutex_client, or Nobody
    connections,    \* _connections: the connection of the endpoint, 0 for none
    last_connection_index,
    sock,           \* sock[k]: Connection::_sock
    should_close,   \* should_close[k]
    calls,          \* calls[k]: _calls, the call with id i at position i + 1
    mutex_send,     \* mutex_send[k]: who holds _mutex_send_call
    recv,           \* recv[k]: where the receiver thread is, "failed" if it was not started
    rep,            \* rep[k]: rounds waitForWork has waited in vain
    recv_call_id,   \* recv_call_id[k]
    wire,           \* wire[k]: the chunks written to the socket that reach the server
    served,         \* served[k][j]: how often the server has answered request j
    replies,        \* replies[k]: replies not yet received
    server_open,    \* server_open[k]: the server has not closed its end
    fault           \* "no", or how the client process crashed or aborted

callerVars == <<pc, ncalls, conn, call_id>>
clientVars == <<mutex_client, connections, last_connection_index>>
recvVars   == <<recv, rep, recv_call_id>>
connVars   == <<sock, should_close, calls, mutex_send>>
serverVars == <<wire, served, replies, server_open>>
callVars   == <<value, done>>
vars == <<callerVars, callVars, clientVars, connVars, recvVars, serverVars, fault>>

Init ==
    /\ pc = [t \in Callers |-> "idle"]
    /\ ncalls = [t \in Callers |-> 0]
    /\ conn = [t \in Callers |-> 0]
    /\ call_id = [t \in Callers |-> 0]
    /\ value = [x \in Call |-> NoValue]
    /\ done = [x \in Call |-> FALSE]
    /\ mutex_client = Nobody
    /\ connections = 0
    /\ last_connection_index = 0
    /\ sock = [k \in ConnIds |-> "none"]
    /\ should_close = [k \in ConnIds |-> FALSE]
    /\ calls = [k \in ConnIds |-> <<>>]
    /\ mutex_send = [k \in ConnIds |-> Nobody]
    /\ recv = [k \in ConnIds |-> "none"]
    /\ rep = [k \in ConnIds |-> 0]
    /\ recv_call_id = [k \in ConnIds |-> 0]
    /\ wire = [k \in ConnIds |-> <<>>]
    /\ served = [k \in ConnIds |-> [j \in Numbers |-> 0]]
    /\ replies = [k \in ConnIds |-> <<>>]
    /\ server_open = [k \in ConnIds |-> TRUE]
    /\ fault = "no"

CallOf(t) == <<t, ncalls[t]>>
GoesTo(t, where) == pc' = [pc EXCEPT ![t] = where]

-----------------------------------------------------------------------------
(* Client::call on an application thread.                                  *)

(* getConnection locks _mutex_client and finds or makes the connection.    *)
getConnection_find(t) ==
    /\ pc[t] = "idle"
    /\ ncalls[t] < MaxCalls
    /\ mutex_client = Nobody
    /\ mutex_client' = t
    /\ ncalls' = [ncalls EXCEPT ![t] = @ + 1]
    /\ GoesTo(t, "connect")
    /\ IF connections # 0
       THEN /\ conn' = [conn EXCEPT ![t] = connections]
            /\ UNCHANGED <<connections, last_connection_index, sock>>
       ELSE LET k == last_connection_index + 1 IN
            /\ k <= MaxConns
            /\ conn' = [conn EXCEPT ![t] = k]
            /\ connections' = k
            /\ last_connection_index' = k
            /\ \E s \in SockInit : sock' = [sock EXCEPT ![k] = s]
    /\ UNCHANGED <<call_id, callVars, should_close, calls, mutex_send, recvVars,
                   serverVars, fault>>

(* Connection::connect.  Its result is ignored: a refused connect leaves   *)
(* _sock pointing to a socket that is not connected, and when the receiver *)
(* thread cannot be started the connected _sock stays, so that no later    *)
(* call tries again.                                                       *)
Connection_connect(t) ==
    /\ pc[t] = "connect"
    /\ LET k == conn[t] IN
       \/ /\ should_close[k] \/ sock[k] # "null"
          /\ UNCHANGED <<sock, recv>>
       \/ /\ ~should_close[k] /\ sock[k] = "null"
          /\ sock' = [sock EXCEPT ![k] = "open"]
          /\ recv' = [recv EXCEPT ![k] = "wait"]
       \/ /\ ~should_close[k] /\ sock[k] = "null"
          /\ ThreadMayFail
          /\ sock' = [sock EXCEPT ![k] = "open"]
          /\ recv' = [recv EXCEPT ![k] = "failed"]
       \/ /\ ~should_close[k] /\ sock[k] = "null"
          /\ ConnectMayFail
          /\ sock' = [sock EXCEPT ![k] = "unconnected"]
          /\ UNCHANGED recv
    /\ GoesTo(t, "add")
    /\ UNCHANGED <<ncalls, conn, call_id, callVars, clientVars, should_close, calls,
                   mutex_send, rep, recv_call_id, serverVars, fault>>

(* addCall and setConnection; getConnection returns and unlocks.           *)
addCall(t) ==
    /\ pc[t] = "add"
    /\ LET k == conn[t] IN
       /\ call_id' = [call_id EXCEPT ![t] = Len(calls[k])]
       /\ calls' = [calls EXCEPT ![k] = Append(@, CallOf(t))]
    /\ mutex_client' = Nobody
    /\ GoesTo(t, "send")
    /\ UNCHANGED <<ncalls, conn, callVars, connections, last_connection_index, sock,
                   should_close, mutex_send, recvVars, serverVars, fault>>

(* A write to an open socket; once the server has closed its end the bytes *)
(* go nowhere.                                                             *)
Writes(t, part) ==
    wire' = IF server_open[conn[t]]
            THEN [wire EXCEPT ![conn[t]] =
                  Append(@, [part |-> part, id |-> call_id[t], call |-> CallOf(t)])]
            ELSE wire

(* Mutant: sendCall does not lock _mutex_send_call.                        *)
Mut_sendCall(t) ==
    /\ pc[t] = "send"
    /\ sock[conn[t]] = "open"
    /\ Writes(t, "id")
    /\ GoesTo(t, "param")
    /\ UNCHANGED <<ncalls, conn, call_id, callVars, clientVars, connVars, recvVars,
                   served, replies, server_open, fault>>

(* sendCall locks _mutex_send_call and Call::write writes the id ...       *)
sendCall(t) ==
    /\ pc[t] = "send"
    /\ mutex_send[conn[t]] = Nobody
    /\ sock[conn[t]] = "open"
    /\ mutex_send' = [mutex_send EXCEPT ![conn[t]] = t]
    /\ Writes(t, "id")
    /\ GoesTo(t, "param")
    /\ UNCHANGED <<ncalls, conn, call_id, callVars, clientVars, sock, should_close,
                   calls, recvVars, served, replies, server_open, fault>>

(* What a write meets on a socket that cannot take it: an exception, which *)
(* Invocation::invoke turns into std::abort(), or a pointer to nothing.    *)
SendFault ==
    [open |-> "send_failed", unconnected |-> "not_connected",
     garbage |-> "wild_sock", deleted |-> "use_after_free"]

(* MethodWritable::write catches the exception and returns -1, but         *)
(* Call::write then prints _param->toString(), a NULL string, which throws *)
(* again.                                                                  *)
sendCall_throws(t) ==
    /\ \/ pc[t] = "send" /\ mutex_send[conn[t]] = Nobody
       \/ pc[t] = "param"
    /\ sock[conn[t]] # "open" \/ ~server_open[conn[t]]
    /\ fault' = SendFault[sock[conn[t]]]
    /\ UNCHANGED <<callerVars, callVars, clientVars, connVars, recvVars, serverVars>>

(* Mutant: _mutex_send_call stays locked.                                  *)
Mut_sendCall_param(t) ==
    /\ pc[t] = "param"
    /\ sock[conn[t]] = "open"
    /\ Writes(t, "param")
    /\ GoesTo(t, "wait")
    /\ UNCHANGED <<ncalls, conn, call_id, callVars, clientVars, connVars, recvVars,
                   served, replies, server_open, fault>>

(* ... and then the parameters.                                            *)
sendCall_param(t) ==
    /\ pc[t] = "param"
    /\ sock[conn[t]] = "open"
    /\ mutex_send' = [mutex_send EXCEPT ![conn[t]] = Nobody]
    /\ Writes(t, "param")
    /\ GoesTo(t, "wait")
    /\ UNCHANGED <<ncalls, conn, call_id, callVars, clientVars, sock, should_close,
                   calls, recvVars, served, replies, server_open, fault>>

(* Call::wait sees _done; Client::call returns the value.                  *)
Call_wait(t) ==
    /\ pc[t] = "wait"
    /\ done[CallOf(t)]
    /\ GoesTo(t, "idle")
    /\ conn' = [conn EXCEPT ![t] = 0]
    /\ UNCHANGED <<ncalls, call_id, callVars, clientVars, connVars, recvVars,
                   serverVars, fault>>

Caller(t) ==
    \/ getConnection_find(t)
    \/ Connection_connect(t)
    \/ addCall(t)
    \/ sendCall(t)
    \/ sendCall_throws(t)
    \/ sendCall_param(t)
    \/ Call_wait(t)

-----------------------------------------------------------------------------
(* The receiver thread of connection k: recvStart.                         *)

(* waitForWork: there are calls (answered ones count too: _calls is only   *)
(* emptied by cleanupCalls).                                               *)
waitForWork(k) ==
    /\ recv[k] = "wait"
    /\ calls[k] # <<>>
    /\ recv' = [recv EXCEPT ![k] = "read"]
    /\ rep' = [rep EXCEPT ![k] = 0]
    /\ UNCHANGED <<callerVars, callVars, clientVars, connVars, recv_call_id,
                   serverVars, fault>>

(* Mutant: one round too many.                                             *)
Mut_waitForWork_rounds(k) ==
    /\ recv[k] = "wait"
    /\ calls[k] = <<>>
    /\ rep' = [rep EXCEPT ![k] = @ + 1]
    /\ IF rep[k] < _max_wait_rep
       THEN UNCHANGED <<recv, should_close>>
       ELSE /\ SlowCallers
            /\ recv' = [recv EXCEPT ![k] = "close"]
            /\ should_close' = [should_close EXCEPT ![k] = TRUE]
    /\ UNCHANGED <<callerVars, callVars, clientVars, sock, calls, mutex_send,
                   recv_call_id, serverVars, fault>>

(* Mutant: the wait ignores the calls there are.                           *)
Mut_waitForWork_ignores(k) ==
    /\ recv[k] = "wait"
    /\ SlowCallers
    /\ recv' = [recv EXCEPT ![k] = "close"]
    /\ should_close' = [should_close EXCEPT ![k] = TRUE]
    /\ UNCHANGED <<callerVars, callVars, clientVars, sock, calls, mutex_send, rep,
                   recv_call_id, serverVars, fault>>

(* waitForWork: another 100 ms without a call; after _max_wait_rep of them *)
(* markClosed.                                                             *)
waitForWork_timeout(k) ==
    /\ recv[k] = "wait"
    /\ calls[k] = <<>>
    /\ rep' = [rep EXCEPT ![k] = @ + 1]
    /\ IF rep[k] + 1 < _max_wait_rep
       THEN UNCHANGED <<recv, should_close>>
       ELSE /\ SlowCallers
            /\ recv' = [recv EXCEPT ![k] = "close"]
            /\ should_close' = [should_close EXCEPT ![k] = TRUE]
    /\ UNCHANGED <<callerVars, callVars, clientVars, sock, calls, mutex_send,
                   recv_call_id, serverVars, fault>>

(* recvRespond: read a call id and look it up under _mutex_conn.           *)
recvRespond(k) ==
    /\ recv[k] = "read"
    /\ replies[k] # <<>>
    /\ recv_call_id' = [recv_call_id EXCEPT ![k] = Head(replies[k]).id]
    /\ IF Head(replies[k]).id < Len(calls[k])
       THEN recv' = [recv EXCEPT ![k] = "value"] /\ UNCHANGED fault
       ELSE fault' = "unknown_id" /\ UNCHANGED recv
    /\ UNCHANGED <<callerVars, callVars, clientVars, connVars, rep, serverVars>>

(* The call the receiver has found: curr_call.                             *)
CurrCall(k) == calls[k][recv_call_id[k] + 1]

(* Mutant: setValue raises _done before it has stored the value.           *)
Mut_recvRespond_value(k) ==
    /\ recv[k] = "value"
    /\ done' = [done EXCEPT ![CurrCall(k)] = TRUE]
    /\ replies' = [replies EXCEPT ![k] = Tail(@)]
    /\ recv' = [recv EXCEPT ![k] = "done"]
    /\ UNCHANGED <<callerVars, value, clientVars, connVars, rep, recv_call_id, wire,
                   served, server_open, fault>>

(* recvRespond: read the value; Call::setValue, which does not lock        *)
(* Call::_mutex, stores it ...                                             *)
recvRespond_value(k) ==
    /\ recv[k] = "value"
    /\ value' = [value EXCEPT ![CurrCall(k)] = Head(replies[k]).value]
    /\ replies' = [replies EXCEPT ![k] = Tail(@)]
    /\ recv' = [recv EXCEPT ![k] = "done"]
    /\ UNCHANGED <<callerVars, done, clientVars, connVars, rep, recv_call_id, wire,
                   served, server_open, fault>>

(* ... and raises _done.                                                   *)
setValue_done(k) ==
    /\ recv[k] = "done"
    /\ done' = [done EXCEPT ![CurrCall(k)] = TRUE]
    /\ recv' = [recv EXCEPT ![k] = "wait"]
    /\ UNCHANGED <<callerVars, value, clientVars, connVars, rep, recv_call_id,
                   serverVars, fault>>

(* recvRespond at the end of the stream.  Before the id, the catch block   *)
(* dereferences the NULL curr_call; after it, the call stays undone.       *)
recvRespond_fails(k) ==
    /\ recv[k] \in {"read", "value"}
    /\ ~server_open[k]
    /\ IF recv[k] = "read"
       THEN fault' = "null_call" /\ UNCHANGED <<recv, replies>>
       ELSE /\ recv' = [recv EXCEPT ![k] = "wait"]
            /\ replies' = [replies EXCEPT ![k] = <<>>]
            /\ UNCHANGED fault
    /\ UNCHANGED <<callerVars, callVars, clientVars, connVars, rep, recv_call_id,
                   wire, served, server_open>>

(* close: _sock is closed and deleted (and keeps its value) ...            *)
close(k) ==
    /\ recv[k] = "close"
    /\ sock' = [sock EXCEPT ![k] = "deleted"]
    /\ recv' = [recv EXCEPT ![k] = "remove"]
    /\ UNCHANGED <<callerVars, callVars, clientVars, should_close, calls, mutex_send,
                   rep, recv_call_id, serverVars, fault>>

(* ... the endpoint is taken out of _connections ...                       *)
removeConnection(k) ==
    /\ recv[k] = "remove"
    /\ mutex_client = Nobody
    /\ connections' = 0
    /\ recv' = [recv EXCEPT ![k] = "cleanup"]
    /\ UNCHANGED <<callerVars, callVars, mutex_client, last_connection_index,
                   connVars, rep, recv_call_id, serverVars, fault>>

(* ... and the calls are erased, with an iterator that each erase makes    *)
(* invalid: undefined behaviour unless there are none.                     *)
cleanupCalls(k) ==
    /\ recv[k] = "cleanup"
    /\ recv' = [recv EXCEPT ![k] = "ended"]
    /\ \/ calls' = [calls EXCEPT ![k] = <<>>] /\ UNCHANGED fault
       \/ calls[k] # <<>> /\ fault' = "bad_iterator" /\ UNCHANGED calls
    /\ UNCHANGED <<callerVars, callVars, clientVars, sock, should_close, mutex_send,
                   rep, recv_call_id, serverVars>>

Receiver(k) ==
    \/ waitForWork(k)
    \/ waitForWork_timeout(k)
    \/ recvRespond(k)
    \/ recvRespond_value(k)
    \/ setValue_done(k)
    \/ recvRespond_fails(k)
    \/ close(k)
    \/ removeConnection(k)
    \/ cleanupCalls(k)

-----------------------------------------------------------------------------
(* The server: any that keeps the promise of Service, which Server.tla is  *)
(* shown to do.  Request j is an id and the parameters that follow it; the *)
(* answer is for that id and made from those parameters.  A reply is sent  *)
(* whole: these are servers none of whose writes is partial (see           *)
(* FramesContiguous of Server.tla for what happens otherwise).             *)

Arrived(k) == Len(wire[k]) \div 2

Peer == INSTANCE Service
        WITH Links    <- ConnIds,
             Numbers  <- Numbers,
             asked    <- [k \in ConnIds |-> Arrived(k)],
             answered <- served,
             up       <- server_open

Serve(k, j) ==
    /\ UNCHANGED <<callerVars, callVars, clientVars, connVars, recvVars, wire,
                   server_open, fault>>
    /\ Peer!Answer(k, j)
    /\ replies' = [replies EXCEPT ![k] =
          Append(@, [id |-> wire[k][2 * j - 1].id, value |-> wire[k][2 * j].call])]

ServerCloses(k) ==
    /\ ServerMayClose
    /\ sock[k] = "open"
    /\ server_open[k]
    /\ UNCHANGED <<callerVars, callVars, clientVars, connVars, recvVars, wire, served,
                   replies, fault>>
    /\ Peer!Leave({k})

Calls(t)    == fault = "no" /\ Caller(t)
Receives(k) == fault = "no" /\ Receiver(k)
Serves(k)   == fault = "no" /\ \E j \in Numbers : Serve(k, j)

Next ==
    \/ \E t \in Callers : Calls(t)
    \/ \E k \in ConnIds : Receives(k)
    \/ \E k \in ConnIds : Serves(k)
    \/ \E k \in ConnIds : fault = "no" /\ ServerCloses(k)

Spec == Init /\ [][Next]_vars

(* Threads run, locks are handed on, and the server answers what it gets.  *)
Fairness ==
    /\ \A t \in Callers : WF_vars(Calls(t))
    /\ \A k \in ConnIds : WF_vars(Receives(k)) /\ WF_vars(Serves(k))

FairSpec == Spec /\ Fairness

-----------------------------------------------------------------------------
(* Properties.                                                             *)

(* The types, by the part of the program that has the variables.           *)
CallerType ==
    /\ pc \in [Callers -> {"idle", "connect", "add", "send", "param", "wait"}]
    /\ ncalls \in [Callers -> 0 .. MaxCalls]
    /\ conn \in [Callers -> 0 .. MaxConns]
    /\ \A t \in Callers : pc[t] # "idle" => ncalls[t] > 0 /\ conn[t] > 0
    /\ call_id \in [Callers -> Nat]

CallType ==
    /\ value \in [Call -> Call \cup {NoValue}]
    /\ done \in [Call -> BOOLEAN]

ClientType ==
    /\ mutex_client \in Callers \cup {Nobody}
    /\ connections \in 0 .. MaxConns
    /\ last_connection_index \in 0 .. MaxConns

ConnType ==
    /\ sock \in [ConnIds -> {"none", "null", "garbage", "unconnected", "open", "deleted"}]
    /\ should_close \in [ConnIds -> BOOLEAN]
    /\ calls \in [ConnIds -> Seq(Call)]
    /\ mutex_send \in [ConnIds -> Callers \cup {Nobody}]

RecvType ==
    /\ recv \in [ConnIds -> {"none", "failed", "wait", "read", "value", "done", "close",
                            "remove", "cleanup", "ended"}]
    /\ rep \in [ConnIds -> 0 .. _max_wait_rep]
    /\ recv_call_id \in [ConnIds -> Nat]

ServerType ==
    /\ wire \in [ConnIds -> Seq(Chunk)]
    /\ served \in [ConnIds -> [Numbers -> {0, 1}]]
    /\ replies \in [ConnIds -> Seq(Reply)]
    /\ server_open \in [ConnIds -> BOOLEAN]

(* Every variable has its type.                                            *)
TypeOK ==
    /\ CallerType /\ CallType /\ ClientType /\ ConnType /\ RecvType /\ ServerType
    /\ fault \in {"no", "send_failed", "not_connected", "wild_sock", "use_after_free",
                  "unknown_id", "null_call", "bad_iterator"}

(* "ensure only 1 call is sending at a time": on the wire the parameters   *)
(* of a call come directly after its id, whichever threads send.           *)
RequestsWhole ==
    \A k \in ConnIds : \A i \in DOMAIN wire[k] :
        IF i % 2 = 1 THEN wire[k][i].part = "id"
        ELSE wire[k][i].part = "param" /\ wire[k][i].call = wire[k][i - 1].call

(* Callers share the socket, the id counter, _calls and the receiver       *)
(* thread, replies come in any order, and setValue publishes without a     *)
(* lock: as long as replies arrive whole, a call that is done has the      *)
(* answer to its own request, and no reply has an id the receiver cannot   *)
(* find.                                                                   *)
OwnAnswer ==
    /\ \A x \in Call : value[x] \in {x, NoValue} /\ (done[x] => value[x] = x)
    /\ fault # "unknown_id"

(* The receiver thread of k is at work.                                    *)
Receiving(k) == recv[k] \in {"wait", "read", "value", "done"}

(* The connection of the endpoint has a _sock that was never connected and *)
(* no receiver, and nothing will ever take it out of _connections.         *)
Poisoned(s) ==
    \E k \in ConnIds : connections = k /\ sock[k] = s /\ recv[k] = "none"

(* A connection that has brought an answer is never closed by the timeout  *)
(* and one without a receiver never brings one, a second one is only made  *)
(* after the timeout closed the first, and each crash or abort has its     *)
(* cause: a server that closed, a connection closed before its first call  *)
(* was added, or an endpoint poisoned for good by a refused connect or an  *)
(* uninitialised _sock.                                                    *)
FaultsExplained ==
    /\ \A k \in ConnIds : ~Receiving(k) =>
          \A i \in DOMAIN calls[k] : value[calls[k][i]] = NoValue
    /\ \A k \in ConnIds : k < last_connection_index => should_close[k]
    /\ fault \in {"send_failed", "null_call"} => \E k \in ConnIds : ~server_open[k]
    /\ fault \in {"use_after_free", "bad_iterator"} => \E k \in ConnIds : should_close[k]
    /\ fault = "not_connected" => Poisoned("unconnected")
    /\ fault = "wild_sock" => Poisoned("garbage")

(* Every call returns to its caller, unless the process crashes, the       *)
(* server closes the connection (a request may go nowhere, a reply may be  *)
(* cut off), the timeout does, or the receiver thread could not be started *)
(* (every call on that connection then waits for ever).                    *)
CallReturns ==
    \A t \in Callers :
        pc[t] # "idle" ~> \/ pc[t] = "idle"
                         \/ fault # "no"
                         \/ ~server_open[conn[t]]
                         \/ should_close[conn[t]]
                         \/ recv[conn[t]] = "failed"

(* Client.cpp: "a connection won't be closed here. It's only closed when   *)
(* idle for a while": no call is under way on a closed connection.         *)
ClosedOnlyWhenIdle ==
    \A t \in Callers : pc[t] \in {"send", "param", "wait"} => sock[conn[t]] # "deleted"

(* Client.cpp: "only connect if it's not connected": a call is only sent   *)
(* on a connection that is connected.                                      *)
SendsConnected ==
    \A t \in Callers : pc[t] = "send" => sock[conn[t]] \in {"open", "deleted"}
=============================================================================
