----------------------------- MODULE ServerState -----------------------------
(***************************************************************************)
(* What the threads of the server share: the sockets, the connection       *)
(* registry (Connection.cpp), the stop flags, the call queue between the   *)
(* readers and the handlers, and the fate of the process.                  *)
(*                                                                         *)
(* A BlockQueue operation is one step here, as RefinesBoundedQueue of      *)
(* BlockQueue.tla allows: pop and push steps wait for an item or for room, *)
(* and try_push may also fail, but only while the queue is full.           *)
(***************************************************************************)
EXTENDS Integers, Sequences, FiniteSets

CONSTANTS
    Conns,                  \* accepted sockets, each with its own tcp::endpoint object
    MaxCalls,               \* bound: calls one client sends on one connection
    num_readers,            \* Listener::num_readers
    num_handlers,           \* Server::num_handlers
    max_reader_queue_size,  \* capacity of each Reader::_bq_conn
    max_num_calls,          \* capacity of _bq_call
    NoConn

(* All capacities and thread counts are positive constants of the code.    *)
ASSUME ServerStateAssumption ==
    /\ NoConn \notin Conns
    /\ MaxCalls \in Nat
    /\ num_readers \in Nat \ {0}
    /\ num_handlers \in Nat \ {0}
    /\ max_reader_queue_size \in Nat \ {0}
    /\ max_num_calls \in Nat \ {0}

Readers  == 0 .. num_readers - 1
Handlers == 0 .. num_handlers - 1

(* A Server::Call: the connection it came on and its number there.         *)
Call == Conns \X (1 .. MaxCalls)

VARIABLES
    peer,         \* peer[c]: the client's end: "none", "open", "closed", or "garbled":
                  \* open, but the bytes after the whole calls make Call::read throw
    sent,         \* sent[c]: how many whole calls the client has written
    half,         \* half[c]: the client is in the middle of writing the next one
    got,          \* got[c]: how many calls the readers have read from the socket
    sock_open,    \* sock_open[c]: the server has not closed its end
    connections,  \* the keys of _connections, guarded by _mutex_conns
    num_connections,
    bq_call,      \* _bq_call
    stopping,     \* where Server::stop() is: "no", "readers", "handlers", "responder",
                  \* "finished"; "exited" once the process has left main or exit()
    aborted       \* "no", or which std::abort() or crash ended the process

peerVars  == <<peer, sent, half>>
registry  == <<connections, num_connections>>
fate      == <<stopping, aborted>>
stateVars == <<peerVars, got, sock_open, registry, bq_call, fate>>

StateInit ==
    /\ peer = [c \in Conns |-> "none"]
    /\ sent = [c \in Conns |-> 0]
    /\ half = [c \in Conns |-> FALSE]
    /\ got = [c \in Conns |-> 0]
    /\ sock_open = [c \in Conns |-> TRUE]
    /\ connections = {}
    /\ num_connections = 0
    /\ bq_call = <<>>
    /\ stopping = "no"
    /\ aborted = "no"

(* What peer[c] is once Call::read, having read the calls sent whole, can  *)
(* only fail.                                                              *)
Unreadable == {"garbled", "closed"}

(* The process is still there.                                             *)
Alive == aborted = "no" /\ stopping # "exited"
=============================================================================
