---------------------------- MODULE ClientProofs ----------------------------
(***************************************************************************)
(* Proofs about the client, for any set of threads, any numbers of calls   *)
(* and connections, and every choice of what may go wrong.                 *)
(***************************************************************************)
EXTENDS Client, TLAPS

-----------------------------------------------------------------------------
(* The inductive invariant, beside TypeOK.                                 *)

(* Who holds _mutex_client and the _mutex_send_call of each connection.    *)
LocksHeld ==
    /\ \A t \in Callers : mutex_client = t <=> pc[t] \in {"connect", "add"}
    /\ \A t \in Callers, k \in ConnIds :
          mutex_send[k] = t <=> pc[t] = "param" /\ conn[t] = k

(* The life of a connection: only the last one made is in _connections and *)
(* has a receiver at work, and _sock follows the receiver.                 *)
CallerPlaced(t) ==
    /\ pc[t] \in {"connect", "add"} => conn[t] = connections
    /\ pc[t] # "idle" => conn[t] <= last_connection_index
    /\ pc[t] \in {"add", "send", "param", "wait"} => sock[conn[t]] # "null"

ReceiverPlaced(k) ==
    /\ recv[k] \notin {"none", "cleanup", "ended"} => connections = k
    /\ should_close[k] <=> recv[k] \in {"close", "remove", "cleanup", "ended"}
    /\ k <= last_connection_index /\ k # connections => should_close[k]
    /\ ~should_close[k] => rep[k] < _max_wait_rep

SockFollows(k) ==
    /\ sock[k] = "none" <=> k > last_connection_index
    /\ sock[k] = "open" <=> recv[k] \in {"failed", "wait", "read", "value", "done", "close"}
    /\ sock[k] = "deleted" <=> recv[k] \in {"remove", "cleanup", "ended"}

ConnectionLife ==
    /\ connections \in {0, last_connection_index}
    /\ \A t \in Callers : CallerPlaced(t)
    /\ \A k \in ConnIds : ReceiverPlaced(k) /\ SockFollows(k)

(* A call is in _calls from addCall on, and in those of one connection;    *)
(* its sender has the id it has there, and a call with a value is in the   *)
(* _calls of a connection whose receiver is at work.                       *)
AddedBegun ==
    \A k \in ConnIds : \A i \in DOMAIN calls[k] :
        LET x == calls[k][i] IN
        /\ x[2] <= ncalls[x[1]]
        /\ x[2] = ncalls[x[1]] => pc[x[1]] \notin {"connect", "add"}

AddedOnce ==
    \A k, m \in ConnIds : \A i \in DOMAIN calls[k], j \in DOMAIN calls[m] :
        calls[k][i] = calls[m][j] => k = m

AddedAt ==
    \A t \in Callers : pc[t] \in {"send", "param"} /\ recv[conn[t]] # "ended" =>
        /\ call_id[t] < Len(calls[conn[t]])
        /\ calls[conn[t]][call_id[t] + 1] = CallOf(t)

ValueKept ==
    \A x \in Call : value[x] # NoValue =>
        \E k \in ConnIds : Receiving(k) /\ \E i \in DOMAIN calls[k] : calls[k][i] = x

CallsAdded == AddedBegun /\ AddedOnce /\ AddedAt /\ ValueKept

(* While the server reads, an odd chunk out is the id of the call whose    *)
(* thread holds _mutex_send_call.                                          *)
WireInTurn ==
    \A k \in ConnIds : server_open[k] =>
        /\ mutex_send[k] = Nobody => Len(wire[k]) % 2 = 0
        /\ mutex_send[k] # Nobody =>
              /\ Len(wire[k]) % 2 = 1
              /\ wire[k][Len(wire[k])].call = CallOf(mutex_send[k])

(* As long as there is a receiver, ids on the wire and in replies are      *)
(* those under which _calls has the call.                                  *)
Found(k, id, x) ==
    /\ id < Len(calls[k])
    /\ calls[k][id + 1] = x

IdsFound(k) ==
    recv[k] # "ended" =>
        /\ \A i \in DOMAIN wire[k] : Found(k, wire[k][i].id, wire[k][i].call)
        /\ \A i \in DOMAIN replies[k] : Found(k, replies[k][i].id, replies[k][i].value)

CurrFound(k) ==
    /\ recv[k] = "value" => replies[k] # <<>> /\ recv_call_id[k] = Head(replies[k]).id
    /\ recv[k] = "done" =>
          recv_call_id[k] < Len(calls[k]) /\ value[CurrCall(k)] = CurrCall(k)

IdsAgree == \A k \in ConnIds : IdsFound(k) /\ CurrFound(k)

(* The causes of a crash or abort.                                         *)
FaultCaused ==
    /\ fault \in {"send_failed", "null_call"} => \E k \in ConnIds : ~server_open[k]
    /\ fault \in {"use_after_free", "bad_iterator"} => \E k \in ConnIds : should_close[k]
    /\ fault = "not_connected" => Poisoned("unconnected")
    /\ fault = "wild_sock" => Poisoned("garbage")

Inv ==
    /\ TypeOK
    /\ LocksHeld
    /\ ConnectionLife
    /\ CallsAdded
    /\ RequestsWhole
    /\ WireInTurn
    /\ IdsAgree
    /\ OwnAnswer
    /\ FaultCaused

-----------------------------------------------------------------------------
(* Type correctness: a step that keeps the variables of one part keeps     *)
(* their types; the rest is one step per action.                           *)
LEMMA SameTypes ==
    ASSUME TypeOK
    PROVE  /\ UNCHANGED callerVars => CallerType'
           /\ UNCHANGED callVars => CallType'
           /\ UNCHANGED clientVars => ClientType'
           /\ UNCHANGED connVars => ConnType'
           /\ UNCHANGED recvVars => RecvType'
           /\ UNCHANGED serverVars => ServerType'
  BY DEF TypeOK, CallerType, CallType, ClientType, ConnType, RecvType, ServerType,
         callerVars, callVars, clientVars, connVars, recvVars, serverVars, Peer!Answer

(* A caller at work has a connection and a call.                           *)
LEMMA AtWork ==
    ASSUME TypeOK, NEW t \in Callers, pc[t] # "idle"
    PROVE  /\ conn[t] \in ConnIds
           /\ ncalls[t] \in 1 .. MaxCalls
           /\ CallOf(t) \in Call
  BY ClientAssumption
  DEF ClientAssumption, TypeOK, CallerType, ConnIds, Call, CallOf

(* What a caller writes is a chunk.                                        *)
LEMMA WritesType ==
    ASSUME TypeOK, NEW t \in Callers, pc[t] # "idle", NEW part \in {"id", "param"},
           Writes(t, part), UNCHANGED <<served, replies, server_open>>
    PROVE  ServerType'
<1>1. PICK k \in ConnIds : k = conn[t]
  BY AtWork
<1>2. call_id[t] \in Nat /\ CallOf(t) \in Call
  BY AtWork DEF TypeOK, CallerType
<1>3. PICK d \in Chunk : d = [part |-> part, id |-> call_id[t], call |-> CallOf(t)]
  BY <1>2 DEF Chunk
<1>4. wire' = wire \/ wire' = [wire EXCEPT ![k] = Append(wire[k], d)]
  BY <1>1, <1>3 DEF Writes
<1>a. wire \in [ConnIds -> Seq(Chunk)]
  BY DEF TypeOK, ServerType
<1>5. wire' \in [ConnIds -> Seq(Chunk)]
  <2>1. Append(wire[k], d) \in Seq(Chunk)
    BY <1>a
  <2>2. QED
    BY <1>4, <1>a, <2>1
<1>6. QED
  BY <1>5 DEF TypeOK, ServerType

(* sendCall never meets a NULL _sock.                                      *)
LEMMA SendSock ==
    ASSUME TypeOK, ConnectionLife, NEW t \in Callers, sendCall_throws(t),
           NEW k \in ConnIds, k = conn[t]
    PROVE  sock[k] \in {"open", "unconnected", "garbage", "deleted"}
<1>1. pc[t] \in {"send", "param"}
  BY DEF sendCall_throws
<1>2. sock[k] # "null" /\ k <= last_connection_index
  BY <1>1 DEF ConnectionLife, CallerPlaced
<1>3. sock[k] # "none"
  BY <1>2, ClientAssumption
  DEF ConnectionLife, SockFollows, TypeOK, ClientType, ConnIds, ClientAssumption
<1>4. QED
  BY <1>2, <1>3 DEF TypeOK, ConnType

(* An application thread.                                                  *)
LEMMA CallerStepType ==
    ASSUME TypeOK, ConnectionLife, NEW t \in Callers, Caller(t)
    PROVE  TypeOK'
<1> USE SameTypes, ClientAssumption DEF ClientAssumption, TypeOK
<1>1. CASE getConnection_find(t)
  <2>1. /\ CallType' /\ RecvType' /\ ServerType' /\ fault' = fault
        /\ UNCHANGED <<should_close, calls, mutex_send, call_id>>
    BY <1>1 DEF getConnection_find
  <2>2. CallerType'
    BY <1>1, <2>1 DEF getConnection_find, CallerType, ClientType, GoesTo
  <2>3. ClientType'
    BY <1>1 DEF getConnection_find, ClientType
  <2>4. sock' = sock \/ \E k \in ConnIds, s \in SockInit : sock' = [sock EXCEPT ![k] = s]
    BY <1>1 DEF getConnection_find, ClientType, ConnIds
  <2>5. ConnType'
    BY <2>1, <2>4 DEF ConnType
  <2>6. QED
    BY <2>1, <2>2, <2>3, <2>5
<1>2. CASE Connection_connect(t)
  <2>1. /\ CallType' /\ ClientType' /\ ServerType' /\ fault' = fault
        /\ UNCHANGED <<should_close, calls, mutex_send, rep, recv_call_id, ncalls, conn, call_id>>
    BY <1>2 DEF Connection_connect
  <2>2. PICK k \in ConnIds : k = conn[t]
    BY <1>2, AtWork DEF Connection_connect
  <2>3. CallerType'
    BY <1>2, <2>1 DEF Connection_connect, CallerType, GoesTo
  <2>4. /\ \/ sock' = sock
           \/ sock' = [sock EXCEPT ![k] = "open"]
           \/ sock' = [sock EXCEPT ![k] = "unconnected"]
        /\ \/ recv' = recv
           \/ recv' = [recv EXCEPT ![k] = "wait"]
           \/ recv' = [recv EXCEPT ![k] = "failed"]
    BY <1>2, <2>2 DEF Connection_connect
  <2>5. ConnType' /\ RecvType'
    BY <2>1, <2>4 DEF ConnType, RecvType
  <2>6. QED
    BY <2>1, <2>3, <2>5
<1>3. CASE addCall(t)
  <2>1. /\ CallType' /\ RecvType' /\ ServerType' /\ fault' = fault
        /\ UNCHANGED <<ncalls, conn, connections, last_connection_index, sock,
                       should_close, mutex_send>>
    BY <1>3 DEF addCall
  <2>2. PICK k \in ConnIds : k = conn[t]
    BY <1>3, AtWork DEF addCall
  <2>3. PICK x \in Call : x = CallOf(t)
    BY <1>3, AtWork DEF addCall
  <2>4. /\ call_id' = [call_id EXCEPT ![t] = Len(calls[k])]
        /\ calls' = [calls EXCEPT ![k] = Append(calls[k], x)]
        /\ mutex_client' = Nobody
        /\ pc' = [pc EXCEPT ![t] = "send"]
        /\ pc[t] = "add"
    BY <1>3, <2>2, <2>3 DEF addCall, GoesTo
  <2>5. CallerType'
    BY <2>1, <2>4 DEF CallerType, ConnType
  <2>6. ClientType' /\ ConnType'
    BY <2>1, <2>4 DEF ClientType, ConnType
  <2>7. QED
    BY <2>1, <2>5, <2>6
<1>4. CASE sendCall(t)
  <2>1. /\ CallType' /\ ClientType' /\ RecvType' /\ fault' = fault
        /\ UNCHANGED <<ncalls, conn, call_id, sock, should_close, calls>>
        /\ pc[t] = "send" /\ pc' = [pc EXCEPT ![t] = "param"]
    BY <1>4 DEF sendCall, GoesTo
  <2>2. ServerType'
    BY <1>4, WritesType DEF sendCall
  <2>3. CallerType'
    BY <2>1 DEF CallerType
  <2>4. ConnType'
    BY <1>4, <2>1, AtWork DEF sendCall, ConnType
  <2>5. QED
    BY <2>1, <2>2, <2>3, <2>4
<1>5. CASE sendCall_throws(t)
  <2>1. /\ CallerType' /\ CallType' /\ ClientType' /\ ConnType' /\ RecvType' /\ ServerType'
    BY <1>5 DEF sendCall_throws
  <2>2. PICK k \in ConnIds : k = conn[t]
    BY <1>5, AtWork DEF sendCall_throws
  <2>3. sock[k] \in {"open", "unconnected", "garbage", "deleted"}
    BY <1>5, <2>2, SendSock
  <2>4. QED
    BY <1>5, <2>1, <2>2, <2>3 DEF sendCall_throws, SendFault
<1>6. CASE sendCall_param(t)
  <2>1. /\ CallType' /\ ClientType' /\ RecvType' /\ fault' = fault
        /\ UNCHANGED <<ncalls, conn, call_id, sock, should_close, calls>>
        /\ pc[t] = "param" /\ pc' = [pc EXCEPT ![t] = "wait"]
    BY <1>6 DEF sendCall_param, GoesTo
  <2>2. ServerType'
    BY <1>6, WritesType DEF sendCall_param
  <2>3. CallerType'
    BY <2>1 DEF CallerType
  <2>4. ConnType'
    BY <1>6, <2>1, AtWork DEF sendCall_param, ConnType
  <2>5. QED
    BY <2>1, <2>2, <2>3, <2>4
<1>7. CASE Call_wait(t)
  <2>1. /\ CallType' /\ ClientType' /\ ConnType' /\ RecvType' /\ ServerType' /\ fault' = fault
    BY <1>7 DEF Call_wait
  <2>2. CallerType'
    BY <1>7 DEF Call_wait, CallerType, GoesTo
  <2>3. QED
    BY <2>1, <2>2
<1>8. QED
  BY <1>1, <1>2, <1>3, <1>4, <1>5, <1>6, <1>7 DEF Caller

(* Until the connection is closed the call the receiver works on is in     *)
(* _calls.                                                                 *)
LEMMA CurrCallFound ==
    ASSUME TypeOK, IdsAgree, NEW k \in ConnIds, recv[k] \in {"value", "done"}
    PROVE  /\ recv_call_id[k] + 1 \in DOMAIN calls[k]
           /\ CurrCall(k) \in Call
<1>1. calls[k] \in Seq(Call) /\ recv_call_id[k] \in Nat /\ replies[k] \in Seq(Reply)
  BY DEF TypeOK, ConnType, RecvType, ServerType
<1>2. recv_call_id[k] < Len(calls[k])
  <2>1. CASE recv[k] = "value"
    <3>1. replies[k] # <<>> /\ recv_call_id[k] = Head(replies[k]).id
      BY <2>1 DEF IdsAgree, CurrFound
    <3>2. replies[k][1].id < Len(calls[k])
      BY <1>1, <2>1, <3>1 DEF IdsAgree, IdsFound, Found
    <3>3. QED
      BY <1>1, <3>1, <3>2
  <2>2. CASE recv[k] = "done"
    BY <2>2 DEF IdsAgree, CurrFound
  <2>3. QED
    BY <2>1, <2>2
<1>3. QED
  BY <1>1, <1>2 DEF CurrCall

(* An emptied _calls is a queue of calls again.                            *)
LEMMA EmptySeq == \A S : <<>> \in Seq(S)
  OBVIOUS

(* A receiver thread.                                                      *)
LEMMA ReceiverStepType ==
    ASSUME TypeOK, ConnectionLife, IdsAgree, NEW k \in ConnIds, Receiver(k)
    PROVE  TypeOK'
<1> USE SameTypes, ClientAssumption DEF ClientAssumption, TypeOK
<1>1. CASE waitForWork(k)
  <2>1. /\ CallerType' /\ CallType' /\ ClientType' /\ ConnType' /\ ServerType'
        /\ fault' = fault
    BY <1>1 DEF waitForWork
  <2>2. RecvType'
    BY <1>1 DEF waitForWork, RecvType
  <2>3. QED
    BY <2>1, <2>2
<1>2. CASE waitForWork_timeout(k)
  <2>1. /\ CallerType' /\ CallType' /\ ClientType' /\ ServerType' /\ fault' = fault
    BY <1>2 DEF waitForWork_timeout
  <2>2. rep[k] < _max_wait_rep
    BY <1>2 DEF waitForWork_timeout, ConnectionLife, ReceiverPlaced
  <2>3. RecvType'
    <3>1. rep[k] + 1 \in 0 .. _max_wait_rep
      BY <2>2 DEF RecvType
    <3>2. rep' = [rep EXCEPT ![k] = rep[k] + 1] /\ UNCHANGED recv_call_id
      BY <1>2 DEF waitForWork_timeout
    <3>3. recv' = recv \/ recv' = [recv EXCEPT ![k] = "close"]
      BY <1>2 DEF waitForWork_timeout
    <3>4. QED
      BY <3>1, <3>2, <3>3 DEF RecvType
  <2>4. ConnType'
    BY <1>2 DEF waitForWork_timeout, ConnType
  <2>5. QED
    BY <2>1, <2>3, <2>4
<1>3. CASE recvRespond(k)
  <2>1. /\ CallerType' /\ CallType' /\ ClientType' /\ ConnType' /\ ServerType'
        /\ fault' \in {fault, "unknown_id"}
    BY <1>3 DEF recvRespond
  <2>2. Head(replies[k]) \in Reply
    BY <1>3 DEF recvRespond, ServerType
  <2>3. Head(replies[k]).id \in Nat
    BY <2>2 DEF Reply
  <2>4. RecvType'
    BY <1>3, <2>3 DEF recvRespond, RecvType
  <2>5. QED
    BY <2>1, <2>4
<1>4. CASE recvRespond_value(k)
  <2>1. /\ CallerType' /\ ClientType' /\ ConnType' /\ fault' = fault
    BY <1>4 DEF recvRespond_value
  <2>2. replies[k] # <<>> /\ replies[k] \in Seq(Reply)
    BY <1>4 DEF recvRespond_value, IdsAgree, CurrFound, ServerType
  <2>3. PICK p \in Reply : p = Head(replies[k])
    BY <2>2
  <2>4. PICK x \in Call : x = CurrCall(k)
    BY <1>4, CurrCallFound DEF recvRespond_value
  <2>5. value' = [value EXCEPT ![x] = p.value] /\ UNCHANGED done
    BY <1>4, <2>3, <2>4 DEF recvRespond_value
  <2>6. CallType'
    BY <2>5 DEF CallType, Reply
  <2>7. Tail(replies[k]) \in Seq(Reply)
    BY <2>2
  <2>8. ServerType'
    BY <1>4, <2>7 DEF recvRespond_value, ServerType
  <2>9. RecvType'
    BY <1>4 DEF recvRespond_value, RecvType
  <2>10. QED
    BY <2>1, <2>6, <2>8, <2>9
<1>5. CASE setValue_done(k)
  <2>1. /\ CallerType' /\ ClientType' /\ ConnType' /\ ServerType' /\ fault' = fault
    BY <1>5 DEF setValue_done
  <2>2. CallType'
    BY <1>5 DEF setValue_done, CallType
  <2>3. RecvType'
    BY <1>5 DEF setValue_done, RecvType
  <2>4. QED
    BY <2>1, <2>2, <2>3
<1>6. CASE recvRespond_fails(k)
  <2>1. /\ CallerType' /\ CallType' /\ ClientType' /\ ConnType'
        /\ fault' \in {fault, "null_call"}
    BY <1>6 DEF recvRespond_fails
  <2>2. RecvType'
    BY <1>6 DEF recvRespond_fails, RecvType
  <2>3. replies' = replies \/ replies' = [replies EXCEPT ![k] = <<>>]
    BY <1>6 DEF recvRespond_fails
  <2>4. ServerType'
    <3>1. replies' \in [ConnIds -> Seq(Reply)]
      BY <2>3, EmptySeq DEF ServerType
    <3>2. QED
      BY <1>6, <3>1 DEF recvRespond_fails, ServerType
  <2>5. QED
    BY <2>1, <2>2, <2>4
<1>7. CASE close(k)
  <2>1. /\ CallerType' /\ CallType' /\ ClientType' /\ ServerType' /\ fault' = fault
    BY <1>7 DEF close
  <2>2. ConnType' /\ RecvType'
    BY <1>7 DEF close, ConnType, RecvType
  <2>3. QED
    BY <2>1, <2>2
<1>8. CASE removeConnection(k)
  <2>1. /\ CallerType' /\ CallType' /\ ConnType' /\ ServerType' /\ fault' = fault
    BY <1>8 DEF removeConnection
  <2>2. ClientType' /\ RecvType'
    BY <1>8 DEF removeConnection, ClientType, RecvType
  <2>3. QED
    BY <2>1, <2>2
<1>9. CASE cleanupCalls(k)
  <2>1. /\ CallerType' /\ CallType' /\ ClientType' /\ ServerType'
        /\ fault' \in {fault, "bad_iterator"}
    BY <1>9 DEF cleanupCalls
  <2>2. calls' = calls \/ calls' = [calls EXCEPT ![k] = <<>>]
    BY <1>9 DEF cleanupCalls
  <2>3. calls' \in [ConnIds -> Seq(Call)]
    BY <2>2, EmptySeq DEF ConnType
  <2>a. RecvType'
    BY <1>9 DEF cleanupCalls, RecvType
  <2>b. ConnType'
    BY <1>9, <2>3 DEF cleanupCalls, ConnType
  <2>4. QED
    BY <2>1, <2>a, <2>b
<1>10. QED
  BY <1>1, <1>2, <1>3, <1>4, <1>5, <1>6, <1>7, <1>8, <1>9 DEF Receiver

(* The server's answer is for a request that has arrived whole.            *)
LEMMA RequestArrived ==
    ASSUME TypeOK, NEW k \in ConnIds, NEW j \in Numbers, Peer!Answer(k, j)
    PROVE  /\ 2 * j - 1 \in DOMAIN wire[k] /\ 2 * j \in DOMAIN wire[k]
           /\ wire[k][2 * j - 1] \in Chunk /\ wire[k][2 * j] \in Chunk
<1>1. wire[k] \in Seq(Chunk) /\ Len(wire[k]) \in Nat
  BY DEF TypeOK, ServerType
<1>2. j \in 1 .. (Len(wire[k]) \div 2)
  BY DEF Peer!Answer, Arrived
<1>3. 2 * j - 1 \in 1 .. Len(wire[k]) /\ 2 * j \in 1 .. Len(wire[k])
  <2>1. \A n \in Nat : \A i \in 1 .. (n \div 2) : i \in Nat /\ 1 <= i /\ 2 * i <= n
    OBVIOUS
  <2>2. j \in Nat /\ 1 <= j /\ 2 * j <= Len(wire[k])
    BY <1>1, <1>2, <2>1
  <2>3. QED
    BY <1>1, <2>2
<1>4. QED
  BY <1>1, <1>3

(* The server.                                                             *)
LEMMA ServerStepType ==
    ASSUME TypeOK, NEW k \in ConnIds,
           (\E j \in Numbers : Serve(k, j)) \/ ServerCloses(k)
    PROVE  TypeOK'
<1> USE SameTypes DEF TypeOK
<1>1. ASSUME NEW j \in Numbers, Serve(k, j) PROVE TypeOK'
  <2>1. /\ CallerType' /\ CallType' /\ ClientType' /\ ConnType' /\ RecvType'
        /\ fault' = fault /\ UNCHANGED <<wire, server_open>>
    BY <1>1 DEF Serve
  <2>2. wire[k][2 * j - 1] \in Chunk /\ wire[k][2 * j] \in Chunk
    BY <1>1, RequestArrived DEF Serve
  <2>3. PICK p \in Reply :
            replies' = [replies EXCEPT ![k] = Append(replies[k], p)]
    BY <1>1, <2>2 DEF Serve, Chunk, Reply
  <2>4. Append(replies[k], p) \in Seq(Reply)
    BY DEF ServerType
  <2>5. served' = [served EXCEPT ![k][j] = 1]
    BY <1>1 DEF Serve, Peer!Answer
  <2>6. served' \in [ConnIds -> [Numbers -> {0, 1}]]
    BY <2>5 DEF ServerType
  <2>7. ServerType'
    BY <2>1, <2>3, <2>4, <2>6 DEF ServerType
  <2>8. QED
    BY <2>1, <2>7
<1>2. CASE ServerCloses(k)
  <2>1. /\ CallerType' /\ CallType' /\ ClientType' /\ ConnType' /\ RecvType'
        /\ fault' = fault /\ UNCHANGED <<wire, served, replies>>
    BY <1>2 DEF ServerCloses
  <2>2. server_open' = [c \in ConnIds |-> server_open[c] /\ c \notin {k}]
    BY <1>2 DEF ServerCloses, Peer!Leave
  <2>3. server_open' \in [ConnIds -> BOOLEAN]
    BY <2>2, Zenon DEF ServerType
  <2>4. ServerType'
    BY <2>1, <2>3 DEF ServerType
  <2>5. QED
    BY <2>1, <2>4
<1>3. QED
  BY <1>1, <1>2

(* Every step keeps the types.                                             *)
LEMMA TypeStep ==
    ASSUME TypeOK, ConnectionLife, IdsAgree, [Next]_vars
    PROVE  TypeOK'
<1>1. CASE UNCHANGED vars
  BY <1>1, SameTypes DEF vars, TypeOK
<1>2. CASE Next
  BY <1>2, CallerStepType, ReceiverStepType, ServerStepType
  DEF Next, Calls, Receives, Serves
<1>3. QED
  BY <1>1, <1>2

-----------------------------------------------------------------------------
(* Locks: a thread holds _mutex_client exactly within getConnection and    *)
(* _mutex_send_call exactly between the two writes of sendCall.            *)
LEMMA LocksStep ==
    ASSUME TypeOK, LocksHeld, Next
    PROVE  LocksHeld'
<1> USE ClientAssumption
    DEF ClientAssumption, LocksHeld, TypeOK, CallerType, ClientType, ConnType
<1>a. ASSUME UNCHANGED <<pc, conn, mutex_client, mutex_send>> PROVE LocksHeld'
  BY <1>a
<1>1. ASSUME NEW t \in Callers, getConnection_find(t) PROVE LocksHeld'
  BY <1>1 DEF getConnection_find, GoesTo
<1>2. ASSUME NEW t \in Callers, Connection_connect(t) PROVE LocksHeld'
  BY <1>2 DEF Connection_connect, GoesTo, clientVars
<1>3. ASSUME NEW t \in Callers, addCall(t) PROVE LocksHeld'
  BY <1>3 DEF addCall, GoesTo
<1>4. ASSUME NEW t \in Callers, sendCall(t) PROVE LocksHeld'
  BY <1>4 DEF sendCall, GoesTo, clientVars
<1>5. ASSUME NEW t \in Callers, sendCall_throws(t) PROVE LocksHeld'
  BY <1>5, <1>a DEF sendCall_throws, callerVars, clientVars, connVars
<1>6. ASSUME NEW t \in Callers, sendCall_param(t) PROVE LocksHeld'
  BY <1>6 DEF sendCall_param, GoesTo, clientVars
<1>7. ASSUME NEW t \in Callers, Call_wait(t) PROVE LocksHeld'
  BY <1>7 DEF Call_wait, GoesTo, clientVars, connVars
<1>8. ASSUME NEW k \in ConnIds, Receiver(k) PROVE LocksHeld'
  BY <1>8, <1>a
  DEF Receiver, waitForWork, waitForWork_timeout, recvRespond, recvRespond_value,
      setValue_done, recvRespond_fails, close, removeConnection, cleanupCalls,
      callerVars, clientVars, connVars
<1>9. ASSUME NEW k \in ConnIds, (\E j \in Numbers : Serve(k, j)) \/ ServerCloses(k)
      PROVE  LocksHeld'
  BY <1>9, <1>a DEF Serve, ServerCloses, callerVars, clientVars, connVars
<1>10. QED
  BY <1>1, <1>2, <1>3, <1>4, <1>5, <1>6, <1>7, <1>8, <1>9
  DEF Next, Calls, Caller, Receives, Serves

(* A receiver starts on the connection just made and works until the       *)
(* timeout, and getConnection cannot make another before removeConnection. *)
LEMMA LifeStep ==
    ASSUME TypeOK, LocksHeld, ConnectionLife, Next
    PROVE  ConnectionLife'
<1> USE ClientAssumption
    DEF ClientAssumption, ConnIds, callerVars, callVars, clientVars, connVars, recvVars
<1>0. /\ \A t \in Callers : pc[t] # "idle" => conn[t] \in ConnIds
      /\ sock \in [ConnIds -> {"none", "null", "garbage", "unconnected", "open", "deleted"}]
      /\ should_close \in [ConnIds -> BOOLEAN]
      /\ recv \in [ConnIds -> {"none", "failed", "wait", "read", "value", "done", "close",
                               "remove", "cleanup", "ended"}]
      /\ rep \in [ConnIds -> 0 .. _max_wait_rep]
      /\ last_connection_index \in 0 .. MaxConns
      /\ pc \in [Callers -> {"idle", "connect", "add", "send", "param", "wait"}]
      /\ conn \in [Callers -> 0 .. MaxConns]
  BY AtWork DEF TypeOK, CallerType, ClientType, ConnType, RecvType
<1>a. ASSUME UNCHANGED <<pc, conn, clientVars, sock, should_close, recv, rep>>
      PROVE  ConnectionLife'
  BY <1>a DEF ConnectionLife, CallerPlaced, ReceiverPlaced, SockFollows
<1>1. ASSUME NEW t \in Callers, getConnection_find(t) PROVE ConnectionLife'
  <2>1. CASE connections # 0
    BY <1>0, <1>1, <2>1
    DEF getConnection_find, GoesTo, ConnectionLife, CallerPlaced, ReceiverPlaced, SockFollows
  <2>2. CASE connections = 0
    <3>a. PICK k : k = last_connection_index + 1
      OBVIOUS
    <3>b. /\ k <= MaxConns
          /\ conn' = [conn EXCEPT ![t] = k]
          /\ connections' = k
          /\ last_connection_index' = k
          /\ \E s \in SockInit : sock' = [sock EXCEPT ![k] = s]
      BY <1>1, <2>2, <3>a DEF getConnection_find
    <3>c. /\ pc' = [pc EXCEPT ![t] = "connect"]
          /\ UNCHANGED <<should_close, recv, rep>>
          /\ pc[t] = "idle"
          /\ mutex_client = Nobody
      BY <1>1 DEF getConnection_find, GoesTo, recvVars
    <3>d. k \in ConnIds
      BY <1>0, <3>a, <3>b, ClientAssumption DEF ClientAssumption, ConnIds
    <3>e. PICK s \in SockInit : sock' = [sock EXCEPT ![k] = s]
      BY <3>b
    <3>1. /\ k \in ConnIds
          /\ k = last_connection_index + 1
          /\ conn' = [conn EXCEPT ![t] = k]
          /\ connections' = k
          /\ last_connection_index' = k
          /\ sock' = [sock EXCEPT ![k] = s]
          /\ pc' = [pc EXCEPT ![t] = "connect"]
          /\ UNCHANGED <<should_close, recv, rep>>
          /\ pc[t] = "idle"
          /\ mutex_client = Nobody
      BY <3>a, <3>b, <3>c, <3>d, <3>e
    <3>2. ASSUME NEW u \in Callers PROVE CallerPlaced(u)'
      <4>1. u # t => pc[u] \notin {"connect", "add"}
        BY <3>1 DEF LocksHeld
      <4>2. QED
        BY <1>0, <3>1, <4>1 DEF ConnectionLife, CallerPlaced
    <3>3. ASSUME NEW m \in ConnIds PROVE ReceiverPlaced(m)'
      BY <1>0, <2>2, <3>1 DEF ConnectionLife, ReceiverPlaced
    <3>4. ASSUME NEW m \in ConnIds PROVE SockFollows(m)'
      BY <1>0, <2>2, <3>1 DEF ConnectionLife, SockFollows
    <3>5. QED
      BY <3>1, <3>2, <3>3, <3>4 DEF ConnectionLife
  <2>3. QED
    BY <2>1, <2>2
<1>2. ASSUME NEW t \in Callers, Connection_connect(t) PROVE ConnectionLife'
  <2>0. PICK k \in ConnIds : k = conn[t]
    BY <1>0, <1>2 DEF Connection_connect
  <2>a. should_close[k] => sock[k] # "null"
    BY <1>0 DEF ConnectionLife, ReceiverPlaced, SockFollows
  <2>b. \/ sock' = sock /\ sock[k] # "null"
        \/ sock' = [sock EXCEPT ![k] = "open"]
        \/ sock' = [sock EXCEPT ![k] = "unconnected"]
    BY <1>2, <2>0, <2>a DEF Connection_connect
  <2>1. ASSUME NEW u \in Callers PROVE CallerPlaced(u)'
    BY <1>0, <1>2, <2>0, <2>b DEF Connection_connect, GoesTo, ConnectionLife, CallerPlaced
  <2>2. ASSUME NEW m \in ConnIds PROVE ReceiverPlaced(m)' /\ SockFollows(m)'
    BY <1>0, <1>2, <2>0
    DEF Connection_connect, ConnectionLife, ReceiverPlaced, SockFollows, CallerPlaced
  <2>3. QED
    BY <1>2, <2>1, <2>2 DEF Connection_connect, ConnectionLife
<1>3. ASSUME NEW t \in Callers, addCall(t) PROVE ConnectionLife'
  BY <1>0, <1>3
  DEF addCall, GoesTo, ConnectionLife, CallerPlaced, ReceiverPlaced, SockFollows
<1>4. ASSUME NEW t \in Callers, sendCall(t) PROVE ConnectionLife'
  BY <1>0, <1>4
  DEF sendCall, GoesTo, ConnectionLife, CallerPlaced, ReceiverPlaced, SockFollows
<1>5. ASSUME NEW t \in Callers, sendCall_throws(t) PROVE ConnectionLife'
  BY <1>5, <1>a DEF sendCall_throws
<1>6. ASSUME NEW t \in Callers, sendCall_param(t) PROVE ConnectionLife'
  BY <1>0, <1>6
  DEF sendCall_param, GoesTo, ConnectionLife, CallerPlaced, ReceiverPlaced, SockFollows
<1>7. ASSUME NEW t \in Callers, Call_wait(t) PROVE ConnectionLife'
  BY <1>0, <1>7
  DEF Call_wait, GoesTo, ConnectionLife, CallerPlaced, ReceiverPlaced, SockFollows
<1>8. ASSUME NEW k \in ConnIds, Receiver(k) PROVE ConnectionLife'
  <2>u. ASSUME UNCHANGED <<pc, conn, clientVars, sock, should_close>>,
               rep' = rep \/ rep' = [rep EXCEPT ![k] = 0],
               \/ recv' = recv
               \/ /\ recv[k] \in {"wait", "read", "value", "done"}
                  /\ \E r \in {"wait", "read", "value", "done"} :
                        recv' = [recv EXCEPT ![k] = r]
        PROVE  ConnectionLife'
    <3>1. \A u \in Callers : CallerPlaced(u)'
      BY <2>u DEF ConnectionLife, CallerPlaced
    <3>2. ASSUME NEW m \in ConnIds PROVE ReceiverPlaced(m)' /\ SockFollows(m)'
      BY <1>0, <2>u DEF ConnectionLife, ReceiverPlaced, SockFollows
    <3>3. QED
      BY <2>u, <3>1, <3>2 DEF ConnectionLife
  <2>1. CASE waitForWork(k)
    BY <2>1, <2>u DEF waitForWork
  <2>2. CASE waitForWork_timeout(k)
    <3>1. \A u \in Callers : CallerPlaced(u)'
      BY <2>2 DEF waitForWork_timeout, ConnectionLife, CallerPlaced
    <3>2. ASSUME NEW m \in ConnIds PROVE ReceiverPlaced(m)'
      BY <1>0, <2>2 DEF waitForWork_timeout, ConnectionLife, ReceiverPlaced
    <3>3. ASSUME NEW m \in ConnIds PROVE SockFollows(m)'
      BY <1>0, <2>2 DEF waitForWork_timeout, ConnectionLife, SockFollows
    <3>4. QED
      BY <2>2, <3>1, <3>2, <3>3 DEF waitForWork_timeout, ConnectionLife
  <2>3. CASE recvRespond(k)
    BY <2>3, <2>u DEF recvRespond
  <2>4. CASE recvRespond_value(k)
    BY <2>4, <2>u DEF recvRespond_value
  <2>5. CASE setValue_done(k)
    BY <2>5, <2>u DEF setValue_done
  <2>6. CASE recvRespond_fails(k)
    BY <2>6, <2>u DEF recvRespond_fails
  <2>7. CASE close(k)
    <3>1. \A u \in Callers : CallerPlaced(u)'
      BY <1>0, <2>7 DEF close, ConnectionLife, CallerPlaced
    <3>2. ASSUME NEW m \in ConnIds PROVE ReceiverPlaced(m)'
      BY <1>0, <2>7 DEF close, ConnectionLife, ReceiverPlaced
    <3>3. ASSUME NEW m \in ConnIds PROVE SockFollows(m)'
      BY <1>0, <2>7 DEF close, ConnectionLife, SockFollows
    <3>4. QED
      BY <2>7, <3>1, <3>2, <3>3 DEF close, ConnectionLife
  <2>8. CASE removeConnection(k)
    <3>1. ASSUME NEW u \in Callers PROVE CallerPlaced(u)'
      <4>1. pc[u] \notin {"connect", "add"}
        BY <2>8 DEF removeConnection, LocksHeld
      <4>2. QED
        BY <2>8, <4>1 DEF removeConnection, ConnectionLife, CallerPlaced
    <3>2. ASSUME NEW m \in ConnIds PROVE ReceiverPlaced(m)'
      BY <1>0, <2>8 DEF removeConnection, ConnectionLife, ReceiverPlaced
    <3>3. ASSUME NEW m \in ConnIds PROVE SockFollows(m)'
      BY <1>0, <2>8 DEF removeConnection, ConnectionLife, SockFollows
    <3>4. QED
      BY <2>8, <3>1, <3>2, <3>3 DEF removeConnection, ConnectionLife
  <2>9. CASE cleanupCalls(k)
    <3>1. \A u \in Callers : CallerPlaced(u)'
      BY <1>0, <2>9 DEF cleanupCalls, ConnectionLife, CallerPlaced
    <3>2. ASSUME NEW m \in ConnIds PROVE ReceiverPlaced(m)' /\ SockFollows(m)'
      BY <1>0, <2>9 DEF cleanupCalls, ConnectionLife, ReceiverPlaced, SockFollows
    <3>3. QED
      BY <2>9, <3>1, <3>2 DEF cleanupCalls, ConnectionLife
  <2>10. QED
    BY <1>8, <2>1, <2>2, <2>3, <2>4, <2>5, <2>6, <2>7, <2>8, <2>9 DEF Receiver
<1>9. ASSUME NEW k \in ConnIds, (\E j \in Numbers : Serve(k, j)) \/ ServerCloses(k)
      PROVE  ConnectionLife'
  BY <1>9, <1>a DEF Serve, ServerCloses
<1>10. QED
  BY <1>1, <1>2, <1>3, <1>4, <1>5, <1>6, <1>7, <1>8, <1>9
  DEF Next, Calls, Caller, Receives, Serves

-----------------------------------------------------------------------------
(* The wire.                                                               *)

(* Odd and even.                                                           *)
LEMMA Parity ==
    ASSUME NEW n \in Nat
    PROVE  /\ n % 2 = 0 \/ n % 2 = 1
           /\ n % 2 = 0 => (n + 1) % 2 = 1
           /\ n % 2 = 1 => (n + 1) % 2 = 0
  OBVIOUS

(* What an append does to a sequence.                                      *)
LEMMA OneMore ==
    ASSUME NEW S, NEW s \in Seq(S), NEW e
    PROVE  /\ Len(Append(s, e)) = Len(s) + 1
           /\ DOMAIN Append(s, e) = 1 .. Len(s) + 1
           /\ DOMAIN s = 1 .. Len(s) /\ Len(s) \in Nat
           /\ Append(s, e)[Len(s) + 1] = e
           /\ \A i \in 1 .. Len(s) : Append(s, e)[i] = s[i]
  OBVIOUS

(* What a write of sendCall puts on the wire.                              *)
Sent(t, part) == [part |-> part, id |-> call_id[t], call |-> CallOf(t)]

(* It comes last there, as long as the server reads.                       *)
LEMMA WritesChunk ==
    ASSUME TypeOK, NEW t \in Callers, pc[t] # "idle", NEW part, Writes(t, part)
    PROVE  \E k \in ConnIds :
              /\ k = conn[t]
              /\ ~server_open[k] => wire' = wire
              /\ server_open[k] =>
                    wire' = [wire EXCEPT ![k] = Append(wire[k], Sent(t, part))]
<1>1. conn[t] \in ConnIds
  BY AtWork
<1>2. QED
  BY <1>1 DEF Writes, Sent

(* Threads and messages that leave the wire alone.                         *)
LEMMA WireKept ==
    ASSUME Next
    PROVE  UNCHANGED wire \/ \E t \in Callers : sendCall(t) \/ sendCall_param(t)
<1>1. ASSUME NEW t \in Callers, Caller(t), ~sendCall(t), ~sendCall_param(t)
      PROVE  UNCHANGED wire
  BY <1>1 DEF Caller, getConnection_find, Connection_connect, addCall, sendCall_throws,
              Call_wait, serverVars
<1>2. ASSUME NEW k \in ConnIds, Receiver(k) PROVE UNCHANGED wire
  BY <1>2 DEF Receiver, waitForWork, waitForWork_timeout, recvRespond, recvRespond_value,
              setValue_done, recvRespond_fails, close, removeConnection, cleanupCalls,
              serverVars
<1>3. ASSUME NEW k \in ConnIds, (\E j \in Numbers : Serve(k, j)) \/ ServerCloses(k)
      PROVE  UNCHANGED wire
  BY <1>3 DEF Serve, ServerCloses
<1>4. QED
  BY <1>1, <1>2, <1>3 DEF Next, Calls, Receives, Serves

(* One more chunk that is an id after a whole request, or the parameters   *)
(* that go with the id before it.                                          *)
LEMMA WholeAppend ==
    ASSUME TypeOK, RequestsWhole, NEW k \in ConnIds, NEW d,
           wire' = [wire EXCEPT ![k] = Append(wire[k], d)],
           \/ Len(wire[k]) % 2 = 0 /\ d.part = "id"
           \/ /\ Len(wire[k]) % 2 = 1 /\ d.part = "param"
              /\ wire[k][Len(wire[k])].call = d.call
    PROVE  RequestsWhole'
<1>w. wire \in [ConnIds -> Seq(Chunk)] /\ wire[k] \in Seq(Chunk)
  BY DEF TypeOK, ServerType
<1> DEFINE n == Len(wire[k])
<1>n. n \in Nat /\ (n = 0 \/ n \in 1 .. n)
  BY <1>w
<1>d. \/ n % 2 = 0 /\ d.part = "id"
      \/ n % 2 = 1 /\ d.part = "param" /\ wire[k][n].call = d.call
  OBVIOUS
<1> SUFFICES ASSUME NEW m \in ConnIds, NEW i \in DOMAIN wire'[m]
             PROVE  IF i % 2 = 1 THEN wire'[m][i].part = "id"
                    ELSE /\ wire'[m][i].part = "param"
                         /\ wire'[m][i].call = wire'[m][i - 1].call
  BY DEF RequestsWhole
<1>1. CASE m = k
  <2>1. wire'[m] = Append(wire[k], d)
    BY <1>w, <1>1
  <2>2. /\ i \in 1 .. n + 1
        /\ wire'[m][n + 1] = d
        /\ \A h \in 1 .. n : wire'[m][h] = wire[k][h]
        /\ DOMAIN wire[k] = 1 .. n
    BY <1>w, <2>1, OneMore
  <2> HIDE DEF n
  <2>3. CASE i = n + 1
    <3>1. CASE n % 2 = 0
      <4>1. i % 2 = 1 /\ wire'[m][i] = d
        BY <1>n, <2>2, <2>3, <3>1, Parity
      <4>2. d.part = "id"
        BY <1>d, <3>1
      <4>3. QED
        BY <4>1, <4>2
    <3>2. CASE n % 2 = 1
      <4>1. i - 1 = n /\ n \in 1 .. n /\ i % 2 = 0
        BY <1>n, <2>3, <3>2, Parity
      <4>2. wire'[m][i] = d /\ wire'[m][i - 1] = wire[k][n]
        BY <2>2, <2>3, <4>1
      <4>3. d.part = "param" /\ wire[k][n].call = d.call
        BY <1>d, <3>2
      <4>4. QED
        BY <4>1, <4>2, <4>3
    <3>3. QED
      BY <1>n, <3>1, <3>2, Parity
  <2>4. CASE i # n + 1
    <3>1. i \in 1 .. n
      BY <1>n, <2>2, <2>4
    <3>2. i % 2 # 1 => i - 1 \in 1 .. n
      BY <1>n, <3>1
    <3>3. IF i % 2 = 1 THEN wire[k][i].part = "id"
          ELSE wire[k][i].part = "param" /\ wire[k][i].call = wire[k][i - 1].call
      BY <2>2, <3>1 DEF RequestsWhole
    <3>4. wire'[m][i] = wire[k][i] /\ (i % 2 # 1 => wire'[m][i - 1] = wire[k][i - 1])
      BY <2>2, <3>1, <3>2
    <3>5. QED
      BY <3>3, <3>4
  <2>5. QED
    BY <2>3, <2>4
<1>2. CASE m # k
  BY <1>w, <1>2 DEF RequestsWhole
<1>3. QED
  BY <1>1, <1>2

(* sendCall starts after whole requests, as the lock is free, and its      *)
(* parameters follow its own id, as it holds the lock.                     *)
LEMMA WholeStep ==
    ASSUME TypeOK, LocksHeld, WireInTurn, RequestsWhole, Next
    PROVE  RequestsWhole'
<1>a. ASSUME UNCHANGED wire PROVE RequestsWhole'
  BY <1>a DEF RequestsWhole
<1>1. ASSUME NEW t \in Callers, sendCall(t) PROVE RequestsWhole'
  <2>0. pc[t] = "send" /\ Writes(t, "id") /\ mutex_send[conn[t]] = Nobody
    BY <1>1 DEF sendCall
  <2>1. PICK k \in ConnIds :
              /\ k = conn[t]
              /\ ~server_open[k] => wire' = wire
              /\ server_open[k] =>
                    wire' = [wire EXCEPT ![k] = Append(wire[k], Sent(t, "id"))]
    BY <2>0, WritesChunk
  <2>2. CASE server_open[k]
    <3>1. Len(wire[k]) % 2 = 0
      BY <2>0, <2>1, <2>2 DEF WireInTurn
    <3>2. Sent(t, "id").part = "id"
      BY DEF Sent
    <3>3. QED
      BY <2>1, <2>2, <3>1, <3>2, WholeAppend
  <2>3. QED
    BY <1>a, <2>1, <2>2
<1>2. ASSUME NEW t \in Callers, sendCall_param(t) PROVE RequestsWhole'
  <2>0. pc[t] = "param" /\ Writes(t, "param")
    BY <1>2 DEF sendCall_param
  <2>1. PICK k \in ConnIds :
              /\ k = conn[t]
              /\ ~server_open[k] => wire' = wire
              /\ server_open[k] =>
                    wire' = [wire EXCEPT ![k] = Append(wire[k], Sent(t, "param"))]
    BY <2>0, WritesChunk
  <2>2. CASE server_open[k]
    <3>0. mutex_send[k] = t
      BY <2>0, <2>1 DEF LocksHeld
    <3>1. Len(wire[k]) % 2 = 1 /\ wire[k][Len(wire[k])].call = CallOf(t)
      BY <2>2, <3>0, ClientAssumption DEF WireInTurn, ClientAssumption
    <3>2. Sent(t, "param").part = "param" /\ Sent(t, "param").call = CallOf(t)
      BY DEF Sent
    <3>3. wire' = [wire EXCEPT ![k] = Append(wire[k], Sent(t, "param"))]
      BY <2>1, <2>2
    <3>4. wire[k][Len(wire[k])].call = Sent(t, "param").call
      BY <3>1, <3>2
    <3>5. QED
      BY <3>1, <3>2, <3>3, <3>4, WholeAppend
  <2>3. QED
    BY <1>a, <2>1, <2>2
<1>3. QED
  BY <1>1, <1>2, <1>a, WireKept

(* The lock and the parity of the wire change together.                    *)
LEMMA TurnStep ==
    ASSUME TypeOK, LocksHeld, WireInTurn, Next
    PROVE  WireInTurn'
<1>w. wire \in [ConnIds -> Seq(Chunk)]
  BY DEF TypeOK, ServerType
<1>s. /\ mutex_send \in [ConnIds -> Callers \cup {Nobody}]
      /\ Nobody \notin Callers
      /\ ncalls \in [Callers -> 0 .. MaxCalls]
  BY ClientAssumption DEF ClientAssumption, TypeOK, ConnType, CallerType
<1>a. ASSUME UNCHANGED <<wire, mutex_send, ncalls>>,
             \A k \in ConnIds : server_open'[k] => server_open[k]
      PROVE  WireInTurn'
  BY <1>a DEF WireInTurn, CallOf
<1>1. ASSUME NEW t \in Callers, getConnection_find(t) PROVE WireInTurn'
  <2>1. UNCHANGED <<wire, mutex_send, server_open>>
    BY <1>1 DEF getConnection_find, serverVars
  <2>2. ASSUME NEW k \in ConnIds, mutex_send[k] # Nobody
        PROVE  CallOf(mutex_send[k])' = CallOf(mutex_send[k])
    <3>1. mutex_send[k] \in Callers /\ pc[mutex_send[k]] = "param"
      BY <1>s, <2>2 DEF LocksHeld
    <3>2. mutex_send[k] # t
      BY <1>1, <3>1 DEF getConnection_find
    <3>3. QED
      BY <1>1, <1>s, <2>1, <3>1, <3>2 DEF getConnection_find, CallOf
  <2>3. QED
    BY <2>1, <2>2 DEF WireInTurn
<1>2. ASSUME NEW t \in Callers, sendCall(t) PROVE WireInTurn'
  <2>0. /\ pc[t] = "send" /\ Writes(t, "id") /\ mutex_send[conn[t]] = Nobody
        /\ mutex_send' = [mutex_send EXCEPT ![conn[t]] = t]
        /\ UNCHANGED <<ncalls, server_open>>
    BY <1>2 DEF sendCall
  <2>1. PICK k \in ConnIds :
              /\ k = conn[t]
              /\ ~server_open[k] => wire' = wire
              /\ server_open[k] =>
                    wire' = [wire EXCEPT ![k] = Append(wire[k], Sent(t, "id"))]
    BY <2>0, WritesChunk
  <2>2. CASE server_open[k]
    <3>1. Len(wire[k]) % 2 = 0
      BY <2>0, <2>1, <2>2 DEF WireInTurn
    <3>2. wire'[k] = Append(wire[k], Sent(t, "id"))
      BY <1>w, <2>1, <2>2
    <3>3. Len(wire'[k]) = Len(wire[k]) + 1 /\ wire'[k][Len(wire[k]) + 1] = Sent(t, "id")
      BY <1>w, <3>2, OneMore
    <3>4. Len(wire'[k]) % 2 = 1
      BY <1>w, <3>1, <3>3, Parity
    <3>5. wire'[k][Len(wire'[k])].call = CallOf(t)'
      BY <2>0, <3>3 DEF Sent, CallOf
    <3>6. QED
      BY <1>s, <1>w, <2>0, <2>1, <2>2, <3>4, <3>5 DEF WireInTurn, CallOf
  <2>3. CASE ~server_open[k]
    BY <1>s, <2>0, <2>1, <2>3 DEF WireInTurn, CallOf
  <2>4. QED
    BY <2>2, <2>3
<1>3. ASSUME NEW t \in Callers, sendCall_param(t) PROVE WireInTurn'
  <2>0. /\ pc[t] = "param" /\ Writes(t, "param")
        /\ mutex_send' = [mutex_send EXCEPT ![conn[t]] = Nobody]
        /\ UNCHANGED <<ncalls, server_open>>
    BY <1>3 DEF sendCall_param
  <2>1. PICK k \in ConnIds :
              /\ k = conn[t]
              /\ ~server_open[k] => wire' = wire
              /\ server_open[k] =>
                    wire' = [wire EXCEPT ![k] = Append(wire[k], Sent(t, "param"))]
    BY <2>0, WritesChunk
  <2>2. CASE server_open[k]
    <3>0. mutex_send[k] = t
      BY <2>0, <2>1 DEF LocksHeld
    <3>1. Len(wire[k]) % 2 = 1
      BY <1>s, <2>2, <3>0 DEF WireInTurn
    <3>2. wire'[k] = Append(wire[k], Sent(t, "param"))
      BY <1>w, <2>1, <2>2
    <3>3. Len(wire'[k]) = Len(wire[k]) + 1
      BY <1>w, <3>2, OneMore
    <3>4. Len(wire'[k]) % 2 = 0
      BY <1>w, <3>1, <3>3, Parity
    <3>5. QED
      BY <1>s, <1>w, <2>0, <2>1, <2>2, <3>4 DEF WireInTurn, CallOf
  <2>3. CASE ~server_open[k]
    BY <1>s, <2>0, <2>1, <2>3 DEF WireInTurn, CallOf
  <2>4. QED
    BY <2>2, <2>3
<1>4. ASSUME NEW t \in Callers, Caller(t),
             ~getConnection_find(t), ~sendCall(t), ~sendCall_param(t)
      PROVE  WireInTurn'
  BY <1>4, <1>a DEF Caller, Connection_connect, addCall, sendCall_throws, Call_wait,
                    callerVars, connVars, serverVars
<1>5. ASSUME NEW k \in ConnIds, Receiver(k) PROVE WireInTurn'
  BY <1>5, <1>a
  DEF Receiver, waitForWork, waitForWork_timeout, recvRespond, recvRespond_value,
      setValue_done, recvRespond_fails, close, removeConnection, cleanupCalls,
      callerVars, connVars, serverVars
<1>6. ASSUME NEW k \in ConnIds, (\E j \in Numbers : Serve(k, j)) \/ ServerCloses(k)
      PROVE  WireInTurn'
  <2>1. UNCHANGED <<wire, mutex_send, ncalls>>
    BY <1>6 DEF Serve, ServerCloses, callerVars, connVars
  <2>2. \/ UNCHANGED server_open
        \/ server_open' = [c \in ConnIds |-> server_open[c] /\ c \notin {k}]
    BY <1>6 DEF Serve, ServerCloses, Peer!Leave
  <2>3. \A m \in ConnIds : server_open'[m] => server_open[m]
    BY <2>2
  <2>4. QED
    BY <1>a, <2>1, <2>3
<1>7. QED
  BY <1>1, <1>2, <1>3, <1>4, <1>5, <1>6 DEF Next, Calls, Receives, Serves

-----------------------------------------------------------------------------
(* The calls of a connection.                                              *)

(* Only addCall and cleanupCalls change _calls.                            *)
LEMMA CallsKept ==
    ASSUME Next
    PROVE  \/ UNCHANGED calls
           \/ \E t \in Callers : addCall(t)
           \/ \E k \in ConnIds : cleanupCalls(k)
<1>1. ASSUME NEW t \in Callers, Caller(t), ~addCall(t) PROVE UNCHANGED calls
  BY <1>1 DEF Caller, getConnection_find, Connection_connect, sendCall, sendCall_throws,
              sendCall_param, Call_wait, connVars
<1>2. ASSUME NEW k \in ConnIds, Receiver(k), ~cleanupCalls(k) PROVE UNCHANGED calls
  BY <1>2 DEF Receiver, waitForWork, waitForWork_timeout, recvRespond, recvRespond_value,
              setValue_done, recvRespond_fails, close, removeConnection, connVars
<1>3. ASSUME NEW k \in ConnIds, (\E j \in Numbers : Serve(k, j)) \/ ServerCloses(k)
      PROVE  UNCHANGED calls
  BY <1>3 DEF Serve, ServerCloses, connVars
<1>4. QED
  BY <1>1, <1>2, <1>3 DEF Next, Calls, Receives, Serves

(* addCall appends the call of its thread; what is in _calls stays where   *)
(* it is.                                                                  *)
LEMMA Appended ==
    ASSUME TypeOK, NEW t \in Callers, addCall(t)
    PROVE  \E k \in ConnIds :
              /\ k = conn[t]
              /\ Len(calls[k]) \in Nat
              /\ call_id' = [call_id EXCEPT ![t] = Len(calls[k])]
              /\ Len(calls'[k]) = Len(calls[k]) + 1
              /\ DOMAIN calls'[k] = 1 .. Len(calls[k]) + 1
              /\ DOMAIN calls[k] = 1 .. Len(calls[k])
              /\ calls'[k][Len(calls[k]) + 1] = CallOf(t)
              /\ \A i \in DOMAIN calls[k] : calls'[k][i] = calls[k][i]
              /\ \A m \in ConnIds : m # k => calls'[m] = calls[m]
<1>1. PICK k \in ConnIds : k = conn[t]
  BY AtWork DEF addCall
<1>2. calls \in [ConnIds -> Seq(Call)]
  BY DEF TypeOK, ConnType
<1>3. /\ calls' = [calls EXCEPT ![k] = Append(calls[k], CallOf(t))]
      /\ call_id' = [call_id EXCEPT ![t] = Len(calls[k])]
  BY <1>1 DEF addCall
<1>4. calls'[k] = Append(calls[k], CallOf(t)) /\ \A m \in ConnIds : m # k => calls'[m] = calls[m]
  BY <1>2, <1>3
<1>5. calls[k] \in Seq(Call)
  BY <1>2
<1>6. /\ Len(calls'[k]) = Len(calls[k]) + 1
      /\ DOMAIN calls'[k] = 1 .. Len(calls[k]) + 1
      /\ DOMAIN calls[k] = 1 .. Len(calls[k]) /\ Len(calls[k]) \in Nat
      /\ calls'[k][Len(calls[k]) + 1] = CallOf(t)
      /\ \A i \in DOMAIN calls[k] : calls'[k][i] = calls[k][i]
  BY <1>4, <1>5, OneMore
<1>7. QED
  BY <1>1, <1>3, <1>4, <1>6

(* cleanupCalls keeps or empties the calls of a connection that is closed. *)
LEMMA Emptied ==
    ASSUME TypeOK, NEW k \in ConnIds, cleanupCalls(k)
    PROVE  /\ calls'[k] = calls[k] \/ DOMAIN calls'[k] = {}
           /\ \A m \in ConnIds : m # k => calls'[m] = calls[m]
           /\ recv'[k] = "ended"
  BY DEF cleanupCalls, TypeOK, ConnType, RecvType

(* An element of _calls is a call.                                         *)
LEMMA InCalls ==
    ASSUME TypeOK, NEW k \in ConnIds, NEW i \in DOMAIN calls[k]
    PROVE  /\ calls[k][i] \in Call
           /\ calls[k][i][1] \in Callers
           /\ calls[k][i][2] \in 1 .. MaxCalls
<1>1. calls[k] \in Seq(Call)
  BY DEF TypeOK, ConnType
<1>2. calls[k][i] \in Call
  BY <1>1
<1>3. QED
  BY <1>2 DEF Call

(* A thread adds a call at most once: a new one has a new number.          *)
LEMMA BegunStep ==
    ASSUME TypeOK, AddedBegun, Next
    PROVE  AddedBegun'
<1>t. /\ pc \in [Callers -> {"idle", "connect", "add", "send", "param", "wait"}]
      /\ ncalls \in [Callers -> 0 .. MaxCalls]
      /\ MaxCalls \in Nat
  BY ClientAssumption DEF ClientAssumption, TypeOK, CallerType
<1>1. ASSUME NEW t \in Callers, getConnection_find(t) PROVE AddedBegun'
  <2>1. /\ pc' = [pc EXCEPT ![t] = "connect"] /\ pc[t] = "idle"
        /\ ncalls' = [ncalls EXCEPT ![t] = ncalls[t] + 1]
        /\ UNCHANGED calls
    BY <1>1 DEF getConnection_find, GoesTo
  <2>2. ASSUME NEW k \in ConnIds, NEW i \in DOMAIN calls[k]
        PROVE  LET x == calls[k][i] IN
               /\ x[2] <= ncalls'[x[1]]
               /\ x[2] = ncalls'[x[1]] => pc'[x[1]] \notin {"connect", "add"}
    <3>1. calls[k][i][1] \in Callers /\ calls[k][i][2] \in 1 .. MaxCalls
      BY InCalls
    <3>2. /\ calls[k][i][2] <= ncalls[calls[k][i][1]]
          /\ calls[k][i][2] = ncalls[calls[k][i][1]]
                => pc[calls[k][i][1]] \notin {"connect", "add"}
      BY DEF AddedBegun
    <3>3. QED
      BY <1>t, <2>1, <3>1, <3>2
  <2>3. QED
    BY <2>1, <2>2 DEF AddedBegun
<1>2. ASSUME NEW t \in Callers, addCall(t) PROVE AddedBegun'
  <2>1. PICK k \in ConnIds :
              /\ k = conn[t]
              /\ DOMAIN calls'[k] = 1 .. Len(calls[k]) + 1
              /\ DOMAIN calls[k] = 1 .. Len(calls[k])
              /\ Len(calls[k]) \in Nat
              /\ calls'[k][Len(calls[k]) + 1] = CallOf(t)
              /\ \A i \in DOMAIN calls[k] : calls'[k][i] = calls[k][i]
              /\ \A m \in ConnIds : m # k => calls'[m] = calls[m]
    BY <1>2, Appended
  <2>2. pc' = [pc EXCEPT ![t] = "send"] /\ UNCHANGED ncalls
    BY <1>2 DEF addCall, GoesTo
  <2>3. ASSUME NEW m \in ConnIds, NEW i \in DOMAIN calls'[m]
        PROVE  LET x == calls'[m][i] IN
               /\ x[2] <= ncalls'[x[1]]
               /\ x[2] = ncalls'[x[1]] => pc'[x[1]] \notin {"connect", "add"}
    <3>1. CASE m = k /\ i = Len(calls[k]) + 1
      BY <1>t, <2>1, <2>2, <3>1 DEF CallOf
    <3>2. CASE ~(m = k /\ i = Len(calls[k]) + 1)
      <4>1. i \in DOMAIN calls[m] /\ calls'[m][i] = calls[m][i]
        BY <2>1, <3>2
      <4>2. calls[m][i][1] \in Callers
        BY <4>1, InCalls
      <4>3. /\ calls[m][i][2] <= ncalls[calls[m][i][1]]
            /\ calls[m][i][2] = ncalls[calls[m][i][1]]
                  => pc[calls[m][i][1]] \notin {"connect", "add"}
        BY <4>1 DEF AddedBegun
      <4>4. QED
        BY <1>t, <2>2, <4>1, <4>2, <4>3
    <3>3. QED
      BY <3>1, <3>2
  <2>4. QED
    BY <2>3 DEF AddedBegun
<1>3. ASSUME NEW k \in ConnIds, cleanupCalls(k) PROVE AddedBegun'
  <2>1. UNCHANGED <<pc, ncalls>>
    BY <1>3 DEF cleanupCalls, callerVars
  <2>2. QED
    BY <1>3, <2>1, Emptied DEF AddedBegun
<1>4. ASSUME UNCHANGED <<calls, ncalls>>,
             \A t \in Callers : pc'[t] \in {"connect", "add"} => pc[t] \in {"connect", "add"}
      PROVE  AddedBegun'
  <2>1. ASSUME NEW k \in ConnIds, NEW i \in DOMAIN calls[k]
        PROVE  LET x == calls[k][i] IN
               /\ x[2] <= ncalls[x[1]]
               /\ x[2] = ncalls[x[1]] => pc'[x[1]] \notin {"connect", "add"}
    BY <1>4, InCalls DEF AddedBegun
  <2>2. QED
    BY <1>4, <2>1 DEF AddedBegun
<1>5. ASSUME NEW t \in Callers, Caller(t), ~getConnection_find(t), ~addCall(t)
      PROVE  AddedBegun'
  <2>1. UNCHANGED <<calls, ncalls>>
    BY <1>5 DEF Caller, Connection_connect, sendCall, sendCall_throws, sendCall_param,
                Call_wait, callerVars, connVars
  <2>2. \A u \in Callers : pc'[u] \in {"connect", "add"} => pc[u] \in {"connect", "add"}
    BY <1>5, <1>t DEF Caller, Connection_connect, sendCall, sendCall_throws,
                      sendCall_param, Call_wait, callerVars, GoesTo
  <2>3. QED
    BY <1>4, <2>1, <2>2
<1>6. ASSUME NEW k \in ConnIds, Receiver(k), ~cleanupCalls(k) PROVE AddedBegun'
  BY <1>4, <1>6
  DEF Receiver, waitForWork, waitForWork_timeout, recvRespond, recvRespond_value,
      setValue_done, recvRespond_fails, close, removeConnection, callerVars, connVars
<1>7. ASSUME NEW k \in ConnIds, (\E j \in Numbers : Serve(k, j)) \/ ServerCloses(k)
      PROVE  AddedBegun'
  BY <1>4, <1>7 DEF Serve, ServerCloses, callerVars, connVars
<1>8. QED
  BY <1>1, <1>2, <1>3, <1>5, <1>6, <1>7 DEF Next, Calls, Receives, Serves

(* So no two connections have it.                                          *)
LEMMA OnceStep ==
    ASSUME TypeOK, AddedBegun, AddedOnce, Next
    PROVE  AddedOnce'
<1>1. CASE UNCHANGED calls
  BY <1>1 DEF AddedOnce
<1>2. ASSUME NEW t \in Callers, addCall(t) PROVE AddedOnce'
  <2>1. PICK k \in ConnIds :
              /\ k = conn[t]
              /\ DOMAIN calls'[k] = 1 .. Len(calls[k]) + 1
              /\ DOMAIN calls[k] = 1 .. Len(calls[k])
              /\ Len(calls[k]) \in Nat
              /\ calls'[k][Len(calls[k]) + 1] = CallOf(t)
              /\ \A i \in DOMAIN calls[k] : calls'[k][i] = calls[k][i]
              /\ \A m \in ConnIds : m # k => calls'[m] = calls[m]
    BY <1>2, Appended
  <2>2. ASSUME NEW m \in ConnIds, NEW i \in DOMAIN calls[m] PROVE calls[m][i] # CallOf(t)
    BY <1>2, <2>2 DEF AddedBegun, CallOf, addCall
  <2>3. ASSUME NEW m \in ConnIds, NEW i \in DOMAIN calls'[m]
        PROVE  \/ m = k /\ calls'[m][i] = CallOf(t)
               \/ i \in DOMAIN calls[m] /\ calls'[m][i] = calls[m][i]
    BY <2>1, <2>3
  <2>4. QED
    BY <2>2, <2>3 DEF AddedOnce
<1>3. ASSUME NEW k \in ConnIds, cleanupCalls(k) PROVE AddedOnce'
  BY <1>3, Emptied DEF AddedOnce
<1>4. QED
  BY <1>1, <1>2, <1>3, CallsKept

(* A receiver that has ended does not start again.                         *)
LEMMA EndedStays ==
    ASSUME TypeOK, ConnectionLife, Next
    PROVE  \A k \in ConnIds : recv[k] = "ended" => recv'[k] = "ended"
<1> SUFFICES ASSUME NEW m \in ConnIds, recv[m] = "ended" PROVE recv'[m] = "ended"
  OBVIOUS
<1>t. recv \in [ConnIds -> {"none", "failed", "wait", "read", "value", "done", "close",
                            "remove", "cleanup", "ended"}]
  BY DEF TypeOK, RecvType
<1>1. ASSUME NEW t \in Callers, Connection_connect(t) PROVE recv'[m] = "ended"
  <2>1. conn[t] = m => sock[m] # "null"
    BY DEF ConnectionLife, SockFollows
  <2>2. QED
    BY <1>1, <1>t, <2>1 DEF Connection_connect
<1>2. ASSUME NEW t \in Callers, Caller(t), ~Connection_connect(t) PROVE recv'[m] = "ended"
  BY <1>2 DEF Caller, getConnection_find, addCall, sendCall, sendCall_throws,
              sendCall_param, Call_wait, recvVars
<1>3. ASSUME NEW k \in ConnIds, Receiver(k) PROVE recv'[m] = "ended"
  BY <1>3, <1>t
  DEF Receiver, waitForWork, waitForWork_timeout, recvRespond, recvRespond_value,
      setValue_done, recvRespond_fails, close, removeConnection, cleanupCalls
<1>4. ASSUME NEW k \in ConnIds, (\E j \in Numbers : Serve(k, j)) \/ ServerCloses(k)
      PROVE  recv'[m] = "ended"
  BY <1>4 DEF Serve, ServerCloses, recvVars
<1>5. QED
  BY <1>1, <1>2, <1>3, <1>4 DEF Next, Calls, Receives, Serves

(* A thread that sends has the id addCall gave it.                         *)
LEMMA AtStep ==
    ASSUME TypeOK, ConnectionLife, AddedAt, Next
    PROVE  AddedAt'
<1>t. /\ pc \in [Callers -> {"idle", "connect", "add", "send", "param", "wait"}]
      /\ ncalls \in [Callers -> 0 .. MaxCalls]
      /\ conn \in [Callers -> 0 .. MaxConns]
      /\ call_id \in [Callers -> Nat]
      /\ recv \in [ConnIds -> {"none", "failed", "wait", "read", "value", "done", "close",
                               "remove", "cleanup", "ended"}]
  BY DEF TypeOK, CallerType, RecvType
<1>a. \A u \in Callers : pc[u] # "idle" => conn[u] \in ConnIds
  BY AtWork
<1>1. ASSUME UNCHANGED calls,
             \A u \in Callers : pc'[u] \in {"send", "param"} =>
                /\ pc[u] \in {"send", "param"}
                /\ conn'[u] = conn[u] /\ call_id'[u] = call_id[u]
                /\ CallOf(u)' = CallOf(u),
             \A k \in ConnIds : recv[k] = "ended" => recv'[k] = "ended"
      PROVE  AddedAt'
  <2>1. ASSUME NEW u \in Callers, pc'[u] \in {"send", "param"}, recv'[conn'[u]] # "ended"
        PROVE  /\ call_id'[u] < Len(calls[conn'[u]])
               /\ calls[conn'[u]][call_id'[u] + 1] = CallOf(u)'
    <3>1. /\ pc[u] \in {"send", "param"}
          /\ conn'[u] = conn[u] /\ call_id'[u] = call_id[u]
          /\ CallOf(u)' = CallOf(u)
      BY <1>1, <2>1
    <3>2. recv[conn[u]] # "ended"
      BY <1>1, <1>a, <2>1, <3>1
    <3>3. QED
      BY <3>1, <3>2 DEF AddedAt
  <2>2. QED
    BY <1>1, <2>1 DEF AddedAt
<1>2. ASSUME NEW t \in Callers, addCall(t) PROVE AddedAt'
  <2>1. PICK k \in ConnIds :
              /\ k = conn[t]
              /\ Len(calls[k]) \in Nat
              /\ call_id' = [call_id EXCEPT ![t] = Len(calls[k])]
              /\ Len(calls'[k]) = Len(calls[k]) + 1
              /\ DOMAIN calls[k] = 1 .. Len(calls[k])
              /\ calls'[k][Len(calls[k]) + 1] = CallOf(t)
              /\ \A i \in DOMAIN calls[k] : calls'[k][i] = calls[k][i]
              /\ \A m \in ConnIds : m # k => calls'[m] = calls[m]
    BY <1>2, Appended
  <2>2. pc' = [pc EXCEPT ![t] = "send"] /\ UNCHANGED <<ncalls, conn, recv>>
    BY <1>2 DEF addCall, GoesTo, recvVars
  <2>3. ASSUME NEW u \in Callers, pc'[u] \in {"send", "param"}, recv'[conn'[u]] # "ended"
        PROVE  /\ call_id'[u] < Len(calls'[conn'[u]])
               /\ calls'[conn'[u]][call_id'[u] + 1] = CallOf(u)'
    <3>1. CASE u = t
      <4>1. conn'[u] = k /\ call_id'[u] = Len(calls[k]) /\ CallOf(u)' = CallOf(t)
        BY <1>t, <2>1, <2>2, <3>1 DEF CallOf
      <4>2. QED
        BY <2>1, <4>1
    <3>2. CASE u # t
      <4>1. /\ pc[u] \in {"send", "param"} /\ conn'[u] = conn[u] /\ conn[u] \in ConnIds
            /\ call_id'[u] = call_id[u] /\ call_id[u] \in Nat /\ CallOf(u)' = CallOf(u)
        BY <1>t, <1>a, <2>1, <2>2, <2>3, <3>2 DEF CallOf
      <4>2. /\ call_id[u] < Len(calls[conn[u]])
            /\ calls[conn[u]][call_id[u] + 1] = CallOf(u)
        BY <2>2, <2>3, <4>1 DEF AddedAt
      <4>3. CASE conn[u] = k
        <5>1. call_id[u] + 1 \in DOMAIN calls[k]
          BY <2>1, <4>1, <4>2, <4>3
        <5>2. QED
          BY <2>1, <4>1, <4>2, <4>3, <5>1
      <4>4. CASE conn[u] # k
        BY <2>1, <4>1, <4>2, <4>4
      <4>5. QED
        BY <4>3, <4>4
    <3>3. QED
      BY <3>1, <3>2
  <2>4. QED
    BY <2>3 DEF AddedAt
<1>3. ASSUME NEW k \in ConnIds, cleanupCalls(k) PROVE AddedAt'
  <2>1. UNCHANGED callerVars /\ recv' = [recv EXCEPT ![k] = "ended"]
    BY <1>3 DEF cleanupCalls
  <2>2. \A m \in ConnIds : m # k => calls'[m] = calls[m]
    BY <1>3, Emptied
  <2>3. ASSUME NEW u \in Callers, pc'[u] \in {"send", "param"}, recv'[conn'[u]] # "ended"
        PROVE  /\ call_id'[u] < Len(calls'[conn'[u]])
               /\ calls'[conn'[u]][call_id'[u] + 1] = CallOf(u)'
    <3>1. conn[u] \in ConnIds /\ conn[u] # k /\ recv[conn[u]] # "ended" /\ conn'[u] = conn[u]
      BY <1>t, <1>a, <2>1, <2>3 DEF callerVars
    <3>2. calls'[conn'[u]] = calls[conn[u]] /\ CallOf(u)' = CallOf(u)
      BY <2>1, <2>2, <3>1 DEF callerVars, CallOf
    <3>3. QED
      BY <2>1, <2>3, <3>1, <3>2 DEF AddedAt, callerVars
  <2>4. QED
    BY <2>3 DEF AddedAt
<1>4. ASSUME NEW t \in Callers, Caller(t), ~addCall(t) PROVE AddedAt'
  <2>1. UNCHANGED calls
    BY <1>4 DEF Caller, getConnection_find, Connection_connect, sendCall, sendCall_throws,
                sendCall_param, Call_wait, connVars
  <2>2. ASSUME NEW u \in Callers, pc'[u] \in {"send", "param"}
        PROVE  /\ pc[u] \in {"send", "param"}
               /\ conn'[u] = conn[u] /\ call_id'[u] = call_id[u]
               /\ CallOf(u)' = CallOf(u)
    BY <1>4, <1>t, <2>2
    DEF Caller, getConnection_find, Connection_connect, sendCall, sendCall_throws,
        sendCall_param, Call_wait, callerVars, GoesTo, CallOf
  <2>3. QED
    BY <1>1, <2>1, <2>2, EndedStays
<1>5. ASSUME NEW k \in ConnIds, Receiver(k), ~cleanupCalls(k) PROVE AddedAt'
  <2>1. UNCHANGED <<calls, callerVars>>
    BY <1>5 DEF Receiver, waitForWork, waitForWork_timeout, recvRespond, recvRespond_value,
                setValue_done, recvRespond_fails, close, removeConnection, connVars
  <2>2. QED
    BY <1>1, <2>1, EndedStays DEF callerVars, CallOf
<1>6. ASSUME NEW k \in ConnIds, (\E j \in Numbers : Serve(k, j)) \/ ServerCloses(k)
      PROVE  AddedAt'
  <2>1. UNCHANGED <<calls, callerVars, recv>>
    BY <1>6 DEF Serve, ServerCloses, connVars, recvVars
  <2>2. QED
    BY <1>1, <2>1 DEF callerVars, CallOf
<1>7. QED
  BY <1>2, <1>3, <1>4, <1>5, <1>6 DEF Next, Calls, Receives, Serves

(* The timeout only closes a connection without calls, so no call with a   *)
(* value is on it.                                                         *)
LEMMA ValueStep ==
    ASSUME TypeOK, ConnectionLife, IdsAgree, ValueKept, Next
    PROVE  ValueKept'
<1>t. /\ recv \in [ConnIds -> {"none", "failed", "wait", "read", "value", "done", "close",
                               "remove", "cleanup", "ended"}]
      /\ value \in [Call -> Call \cup {NoValue}]
  BY DEF TypeOK, RecvType, CallType
<1>1. ASSUME UNCHANGED value,
             \A k \in ConnIds : Receiving(k) =>
                /\ Receiving(k)'
                /\ \A i \in DOMAIN calls[k] : i \in DOMAIN calls'[k] /\ calls'[k][i] = calls[k][i]
      PROVE  ValueKept'
  BY <1>1 DEF ValueKept
<1>2. ASSUME NEW t \in Callers, addCall(t) PROVE ValueKept'
  <2>1. UNCHANGED <<value, recv>>
    BY <1>2 DEF addCall, callVars, recvVars
  <2>2. ASSUME NEW m \in ConnIds, NEW i \in DOMAIN calls[m]
        PROVE  i \in DOMAIN calls'[m] /\ calls'[m][i] = calls[m][i]
    <3>1. PICK k \in ConnIds :
              /\ DOMAIN calls'[k] = 1 .. Len(calls[k]) + 1
              /\ DOMAIN calls[k] = 1 .. Len(calls[k])
              /\ Len(calls[k]) \in Nat
              /\ \A h \in DOMAIN calls[k] : calls'[k][h] = calls[k][h]
              /\ \A h \in ConnIds : h # k => calls'[h] = calls[h]
      BY <1>2, Appended
    <3>2. QED
      BY <3>1
  <2>3. QED
    BY <1>1, <2>1, <2>2 DEF Receiving
<1>3. ASSUME NEW k \in ConnIds, cleanupCalls(k) PROVE ValueKept'
  <2>1. UNCHANGED value /\ ~Receiving(k)
    BY <1>3 DEF cleanupCalls, callVars, Receiving
  <2>2. \A m \in ConnIds : m # k => calls'[m] = calls[m] /\ recv'[m] = recv[m]
    BY <1>3, <1>t, Emptied DEF cleanupCalls
  <2>3. QED
    BY <1>1, <2>1, <2>2 DEF Receiving
<1>4. ASSUME NEW k \in ConnIds, recvRespond_value(k) PROVE ValueKept'
  <2>1. PICK x \in Call : x = CurrCall(k)
    BY <1>4, CurrCallFound DEF recvRespond_value
  <2>2. recv_call_id[k] + 1 \in DOMAIN calls[k] /\ calls[k][recv_call_id[k] + 1] = x
    BY <1>4, <2>1, CurrCallFound DEF recvRespond_value, CurrCall
  <2>3. \A m \in ConnIds : m = k \/ Receiving(m) => Receiving(m)'
    BY <1>4, <1>t DEF recvRespond_value, Receiving
  <2>4. /\ value' = [value EXCEPT ![x] = Head(replies[k]).value]
        /\ UNCHANGED calls
    BY <1>4, <2>1 DEF recvRespond_value, connVars
  <2>5. QED
    BY <1>t, <2>2, <2>3, <2>4 DEF ValueKept
<1>5. ASSUME NEW k \in ConnIds, waitForWork_timeout(k) PROVE ValueKept'
  <2>1. UNCHANGED <<value, calls>> /\ calls[k] = <<>>
    BY <1>5 DEF waitForWork_timeout, callVars
  <2>2. \A m \in ConnIds : m # k => recv'[m] = recv[m]
    BY <1>5, <1>t DEF waitForWork_timeout
  <2>3. DOMAIN calls[k] = {}
    BY <2>1
  <2>4. QED
    BY <2>1, <2>2, <2>3 DEF ValueKept, Receiving
<1>a. ASSUME NEW t \in Callers, Connection_connect(t) PROVE ValueKept'
  <2>1. PICK k \in ConnIds : k = conn[t]
    BY <1>a, AtWork DEF Connection_connect
  <2>2. sock[k] = "null" => ~Receiving(k)
    BY <1>t DEF ConnectionLife, SockFollows, Receiving
  <2>3. \A m \in ConnIds : Receiving(m) => Receiving(m)'
    BY <1>a, <1>t, <2>1, <2>2 DEF Connection_connect, Receiving
  <2>4. QED
    BY <1>a, <1>1, <2>3 DEF Connection_connect, callVars
<1>6. ASSUME NEW t \in Callers, Caller(t), ~addCall(t), ~Connection_connect(t)
      PROVE  ValueKept'
  BY <1>1, <1>6
  DEF Caller, getConnection_find, sendCall, sendCall_throws, sendCall_param, Call_wait,
      connVars, callVars, recvVars, Receiving
<1>7. ASSUME NEW k \in ConnIds, Receiver(k), ~cleanupCalls(k), ~recvRespond_value(k),
             ~waitForWork_timeout(k)
      PROVE  ValueKept'
  <2>1. \A m \in ConnIds : Receiving(m) => Receiving(m)'
    BY <1>7, <1>t
    DEF Receiver, waitForWork, recvRespond, setValue_done, recvRespond_fails, close,
        removeConnection, Receiving
  <2>2. QED
    BY <1>1, <1>7, <2>1
    DEF Receiver, waitForWork, recvRespond, setValue_done, recvRespond_fails, close,
        removeConnection, connVars, callVars
<1>8. ASSUME NEW k \in ConnIds, (\E j \in Numbers : Serve(k, j)) \/ ServerCloses(k)
      PROVE  ValueKept'
  BY <1>1, <1>8 DEF Serve, ServerCloses, connVars, callVars, recvVars, Receiving
<1>9. QED
  BY <1>2, <1>3, <1>4, <1>5, <1>a, <1>6, <1>7, <1>8 DEF Next, Calls, Receives, Serves

-----------------------------------------------------------------------------
(* Ids.                                                                    *)

(* Until its receiver has ended, a call that is in _calls keeps its id.    *)
LEMMA FoundKept ==
    ASSUME TypeOK, ConnectionLife, Next, NEW k \in ConnIds, recv'[k] # "ended"
    PROVE  /\ recv[k] # "ended"
           /\ \A id \in Nat : \A x : Found(k, id, x) => Found(k, id, x)'
<1>1. recv[k] # "ended"
  BY EndedStays
<1>2. CASE UNCHANGED calls
  BY <1>1, <1>2 DEF Found
<1>3. ASSUME NEW t \in Callers, addCall(t)
      PROVE  \A id \in Nat : \A x : Found(k, id, x) => Found(k, id, x)'
  <2>1. PICK m \in ConnIds :
              /\ Len(calls[m]) \in Nat
              /\ Len(calls'[m]) = Len(calls[m]) + 1
              /\ DOMAIN calls[m] = 1 .. Len(calls[m])
              /\ \A i \in DOMAIN calls[m] : calls'[m][i] = calls[m][i]
              /\ \A h \in ConnIds : h # m => calls'[h] = calls[h]
    BY <1>3, Appended
  <2>2. CASE k = m
    <3>1. SUFFICES ASSUME NEW id \in Nat, NEW x, Found(k, id, x) PROVE Found(k, id, x)'
      OBVIOUS
    <3>2. id < Len(calls[m]) /\ calls[m][id + 1] = x
      BY <2>2, <3>1 DEF Found
    <3>3. id + 1 \in DOMAIN calls[m] /\ id < Len(calls'[m])
      BY <2>1, <3>2
    <3>4. QED
      BY <2>1, <2>2, <3>2, <3>3 DEF Found
  <2>3. CASE k # m
    BY <2>1, <2>3 DEF Found
  <2>4. QED
    BY <2>2, <2>3
<1>4. ASSUME NEW m \in ConnIds, cleanupCalls(m)
      PROVE  \A id \in Nat : \A x : Found(k, id, x) => Found(k, id, x)'
  <2>1. k # m
    BY <1>4, Emptied
  <2>2. calls'[k] = calls[k]
    BY <1>4, <2>1, Emptied
  <2>3. QED
    BY <2>2 DEF Found
<1>5. QED
  BY <1>1, <1>2, <1>3, <1>4, CallsKept

(* Ids are numbers.                                                        *)
LEMMA IdsType ==
    ASSUME TypeOK, NEW k \in ConnIds
    PROVE  /\ wire[k] \in Seq(Chunk) /\ replies[k] \in Seq(Reply)
           /\ \A i \in DOMAIN wire[k] : wire[k][i].id \in Nat
           /\ \A i \in DOMAIN replies[k] : replies[k][i].id \in Nat
<1>1. wire[k] \in Seq(Chunk) /\ replies[k] \in Seq(Reply)
  BY DEF TypeOK, ServerType
<1>2. /\ \A i \in DOMAIN wire[k] : wire[k][i] \in Chunk
      /\ \A i \in DOMAIN replies[k] : replies[k][i] \in Reply
  BY <1>1
<1>3. QED
  BY <1>1, <1>2 DEF Chunk, Reply

(* Nothing new on the wire or among the replies.                           *)
LEMMA IdsFoundSame ==
    ASSUME TypeOK, ConnectionLife, IdsAgree, Next, NEW k \in ConnIds,
           \A i \in DOMAIN wire'[k] : \E h \in DOMAIN wire[k] : wire'[k][i] = wire[k][h],
           \A i \in DOMAIN replies'[k] :
              \E h \in DOMAIN replies[k] : replies'[k][i] = replies[k][h]
    PROVE  IdsFound(k)'
<1> SUFFICES ASSUME recv'[k] # "ended" PROVE IdsFound(k)'
  BY DEF IdsFound
<1>1. recv[k] # "ended" /\ \A id \in Nat : \A x : Found(k, id, x) => Found(k, id, x)'
  BY FoundKept
<1>2. ASSUME NEW i \in DOMAIN wire'[k] PROVE Found(k, wire[k][i].id, wire[k][i].call)'
  <2>1. PICK h \in DOMAIN wire[k] : wire'[k][i] = wire[k][h]
    BY <1>2
  <2>2. Found(k, wire[k][h].id, wire[k][h].call)
    BY <1>1 DEF IdsAgree, IdsFound
  <2>3. wire[k][h].id \in Nat
    BY IdsType
  <2>4. QED
    BY <1>1, <2>1, <2>2, <2>3 DEF Found
<1>3. ASSUME NEW i \in DOMAIN replies'[k]
      PROVE  Found(k, replies[k][i].id, replies[k][i].value)'
  <2>1. PICK h \in DOMAIN replies[k] : replies'[k][i] = replies[k][h]
    BY <1>3
  <2>2. Found(k, replies[k][h].id, replies[k][h].value)
    BY <1>1 DEF IdsAgree, IdsFound
  <2>3. replies[k][h].id \in Nat
    BY IdsType
  <2>4. QED
    BY <1>1, <2>1, <2>2, <2>3 DEF Found
<1>4. QED
  BY <1>2, <1>3 DEF IdsFound

(* A caller writes the id under which addCall has put its call.            *)
LEMMA IdsFoundWrites ==
    ASSUME TypeOK, ConnectionLife, AddedAt, IdsAgree, Next,
           NEW t \in Callers, pc[t] \in {"send", "param"},
           NEW part, Writes(t, part), UNCHANGED <<calls, recv, replies>>
    PROVE  \A k \in ConnIds : IdsFound(k)'
<1>1. PICK k \in ConnIds :
              /\ k = conn[t]
              /\ ~server_open[k] => wire' = wire
              /\ server_open[k] =>
                    wire' = [wire EXCEPT ![k] = Append(wire[k], Sent(t, part))]
  BY WritesChunk
<1>w. wire \in [ConnIds -> Seq(Chunk)]
  BY DEF TypeOK, ServerType
<1>2. CASE ~server_open[k]
  BY <1>1, <1>2, IdsFoundSame
<1>3. CASE server_open[k]
  <2>1. ASSUME NEW m \in ConnIds, m # k PROVE IdsFound(m)'
    <3>1. wire'[m] = wire[m]
      BY <1>1, <1>3, <1>w, <2>1
    <3>2. QED
      BY <3>1, IdsFoundSame
  <2>2. ASSUME recv[k] # "ended" PROVE IdsFound(k)'
    <3>1. wire'[k] = Append(wire[k], Sent(t, part)) /\ wire[k] \in Seq(Chunk)
      BY <1>1, <1>3, <1>w
    <3>2. Found(k, Sent(t, part).id, Sent(t, part).call)
      BY <1>1, <2>2 DEF AddedAt, Found, Sent
    <3>3. ASSUME NEW i \in DOMAIN wire'[k] PROVE Found(k, wire'[k][i].id, wire'[k][i].call)
      <4>1. wire'[k][i] = Sent(t, part) \/ (i \in DOMAIN wire[k] /\ wire'[k][i] = wire[k][i])
        BY <3>1, OneMore
      <4>2. QED
        BY <2>2, <3>2, <4>1 DEF IdsAgree, IdsFound
    <3>4. \A i \in DOMAIN replies[k] : Found(k, replies[k][i].id, replies[k][i].value)
      BY <2>2 DEF IdsAgree, IdsFound
    <3>5. QED
      BY <3>3, <3>4 DEF IdsFound, Found
  <2>3. recv[k] = "ended" => IdsFound(k)'
    BY DEF IdsFound
  <2>4. QED
    BY <2>1, <2>2, <2>3
<1>4. QED
  BY <1>2, <1>3

(* A whole request gives the server the id and the parameters of one call. *)
LEMMA IdsFoundServe ==
    ASSUME TypeOK, ConnectionLife, RequestsWhole, IdsAgree, Next,
           NEW k \in ConnIds, NEW j \in Numbers, Serve(k, j)
    PROVE  \A m \in ConnIds : IdsFound(m)'
<1>1. UNCHANGED <<wire, calls, recv>>
  BY DEF Serve, connVars, recvVars
<1> DEFINE p == [id |-> wire[k][2 * j - 1].id, value |-> wire[k][2 * j].call]
<1>2. replies' = [replies EXCEPT ![k] = Append(replies[k], p)]
  BY DEF Serve
<1>r. replies \in [ConnIds -> Seq(Reply)]
  BY DEF TypeOK, ServerType
<1>3. /\ 2 * j - 1 \in DOMAIN wire[k] /\ 2 * j \in DOMAIN wire[k]
      /\ j \in Nat
  BY RequestArrived DEF Serve, Numbers
<1>4. wire[k][2 * j].call = wire[k][2 * j - 1].call
  <2>1. (2 * j) % 2 # 1
    BY <1>3
  <2>2. QED
    BY <1>3, <2>1 DEF RequestsWhole
<1>5. ASSUME recv[k] # "ended" PROVE Found(k, p.id, p.value)
  BY <1>3, <1>4, <1>5 DEF IdsAgree, IdsFound
<1> HIDE DEF p
<1>6. ASSUME NEW m \in ConnIds, m # k PROVE IdsFound(m)'
  <2>1. replies'[m] = replies[m]
    BY <1>2, <1>6, <1>r
  <2>2. QED
    BY <1>1, <2>1, IdsFoundSame
<1>7. ASSUME recv[k] # "ended" PROVE IdsFound(k)'
  <2>1. replies'[k] = Append(replies[k], p) /\ replies[k] \in Seq(Reply)
    BY <1>2, <1>r
  <2>2. ASSUME NEW i \in DOMAIN replies'[k]
        PROVE  Found(k, replies'[k][i].id, replies'[k][i].value)
    <3>1. \/ replies'[k][i] = p
          \/ i \in DOMAIN replies[k] /\ replies'[k][i] = replies[k][i]
      BY <2>1, OneMore
    <3>2. QED
      BY <1>5, <1>7, <3>1 DEF IdsAgree, IdsFound
  <2>3. \A i \in DOMAIN wire[k] : Found(k, wire[k][i].id, wire[k][i].call)
    BY <1>7 DEF IdsAgree, IdsFound
  <2>4. QED
    BY <1>1, <2>2, <2>3 DEF IdsFound, Found
<1>8. recv[k] = "ended" => IdsFound(k)'
  BY <1>1 DEF IdsFound
<1>9. QED
  BY <1>6, <1>7, <1>8

(* A step that leaves a receiver where it is leaves the call it has found. *)
LEMMA CurrFoundSame ==
    ASSUME TypeOK, ConnectionLife, IdsAgree, Next, NEW k \in ConnIds,
           recv'[k] \in {"value", "done"} =>
              /\ recv'[k] = recv[k] /\ recv_call_id'[k] = recv_call_id[k]
              /\ replies[k] # <<>> => replies'[k] # <<>> /\ Head(replies'[k]) = Head(replies[k]),
           value[CurrCall(k)] = CurrCall(k) => value'[CurrCall(k)] = CurrCall(k)
    PROVE  CurrFound(k)'
<1>1. ASSUME recv'[k] = "value"
      PROVE  replies'[k] # <<>> /\ recv_call_id'[k] = Head(replies'[k]).id
  BY <1>1 DEF IdsAgree, CurrFound
<1>2. ASSUME recv'[k] = "done"
      PROVE  recv_call_id'[k] < Len(calls'[k]) /\ value'[CurrCall(k)'] = CurrCall(k)'
  <2>1. /\ recv[k] = "done" /\ recv_call_id'[k] = recv_call_id[k]
        /\ recv_call_id[k] < Len(calls[k]) /\ value[CurrCall(k)] = CurrCall(k)
    BY <1>2 DEF IdsAgree, CurrFound
  <2>2. recv_call_id[k] \in Nat
    BY DEF TypeOK, RecvType
  <2>3. Found(k, recv_call_id[k], CurrCall(k))
    BY <2>1 DEF Found, CurrCall
  <2>4. \A id \in Nat : \A x : Found(k, id, x) => Found(k, id, x)'
    BY <1>2, FoundKept
  <2>5. recv_call_id[k] < Len(calls'[k]) /\ calls'[k][recv_call_id[k] + 1] = CurrCall(k)
    BY <2>2, <2>3, <2>4 DEF Found
  <2>6. QED
    BY <2>1, <2>5 DEF CurrCall
<1>3. QED
  BY <1>1, <1>2 DEF CurrFound

(* Ids stay those of _calls, and the receiver finds the call a reply is    *)
(* for.                                                                    *)
LEMMA IdsStep ==
    ASSUME TypeOK, ConnectionLife, RequestsWhole, AddedAt, IdsAgree, Next
    PROVE  IdsAgree'
<1>t. /\ recv \in [ConnIds -> {"none", "failed", "wait", "read", "value", "done", "close",
                               "remove", "cleanup", "ended"}]
      /\ recv_call_id \in [ConnIds -> Nat]
      /\ replies \in [ConnIds -> Seq(Reply)]
      /\ value \in [Call -> Call \cup {NoValue}]
  BY DEF TypeOK, RecvType, ServerType, CallType
<1>1. ASSUME NEW t \in Callers, Caller(t) PROVE IdsAgree'
  <2>1. UNCHANGED <<value, replies, recv_call_id>>
    BY <1>1 DEF Caller, getConnection_find, Connection_connect, addCall, sendCall,
                sendCall_throws, sendCall_param, Call_wait, callVars, recvVars, serverVars
  <2>2. ASSUME NEW k \in ConnIds, recv'[k] \in {"value", "done"} PROVE recv'[k] = recv[k]
    BY <1>1, <1>t, <2>2
    DEF Caller, getConnection_find, Connection_connect, addCall, sendCall,
        sendCall_throws, sendCall_param, Call_wait, recvVars
  <2>3. \A k \in ConnIds : CurrFound(k)'
    BY <2>1, <2>2, CurrFoundSame
  <2>4. ASSUME sendCall(t) PROVE \A k \in ConnIds : IdsFound(k)'
    BY <2>1, <2>4, IdsFoundWrites DEF sendCall, recvVars
  <2>5. ASSUME sendCall_param(t) PROVE \A k \in ConnIds : IdsFound(k)'
    BY <2>1, <2>5, IdsFoundWrites DEF sendCall_param, recvVars
  <2>6. ASSUME ~sendCall(t) /\ ~sendCall_param(t) PROVE \A k \in ConnIds : IdsFound(k)'
    <3>1. UNCHANGED wire
      BY <1>1, <2>6 DEF Caller, getConnection_find, Connection_connect, addCall,
                        sendCall_throws, Call_wait, serverVars
    <3>2. QED
      BY <2>1, <3>1, IdsFoundSame
  <2>7. \A k \in ConnIds : IdsFound(k)'
    BY <2>4, <2>5, <2>6
  <2>8. QED
    BY <2>3, <2>7 DEF IdsAgree
<1>2. ASSUME NEW k \in ConnIds, recvRespond_value(k) PROVE IdsAgree'
  <2>1. /\ replies[k] # <<>> /\ replies[k] \in Seq(Reply)
        /\ recv_call_id[k] = Head(replies[k]).id
    BY <1>2, <1>t DEF recvRespond_value, IdsAgree, CurrFound
  <2>2. PICK x \in Call : x = CurrCall(k)
    BY <1>2, CurrCallFound DEF recvRespond_value
  <2>3. /\ value' = [value EXCEPT ![x] = Head(replies[k]).value]
        /\ replies' = [replies EXCEPT ![k] = Tail(replies[k])]
        /\ recv' = [recv EXCEPT ![k] = "done"]
        /\ UNCHANGED <<recv_call_id, calls, wire>>
    BY <1>2, <2>2 DEF recvRespond_value, connVars
  <2>4. Head(replies[k]) = replies[k][1] /\ 1 \in DOMAIN replies[k]
    BY <2>1
  <2>5. Found(k, recv_call_id[k], Head(replies[k]).value)
    BY <1>2, <2>1, <2>4 DEF recvRespond_value, IdsAgree, IdsFound
  <2>6. Head(replies[k]).value = x /\ recv_call_id[k] < Len(calls[k])
    BY <2>2, <2>5 DEF Found, CurrCall
  <2>7. value'[x] = x /\ \A y : y # x => value'[y] = value[y]
    BY <1>t, <2>3, <2>6
  <2>8. ASSUME NEW m \in ConnIds PROVE IdsFound(m)'
    <3>1. CASE m # k
      <4>1. replies'[m] = replies[m]
        BY <1>t, <2>3, <3>1
      <4>2. QED
        BY <2>3, <4>1, IdsFoundSame
    <3>2. CASE m = k
      <4>1. replies'[k] = Tail(replies[k])
        BY <1>t, <2>3
      <4>2. \A i \in DOMAIN Tail(replies[k]) :
               \E h \in DOMAIN replies[k] : Tail(replies[k])[i] = replies[k][h]
        <5>1. ASSUME NEW i \in DOMAIN Tail(replies[k])
              PROVE  i + 1 \in DOMAIN replies[k] /\ Tail(replies[k])[i] = replies[k][i + 1]
          BY <2>1
        <5>2. QED
          BY <5>1
      <4>3. QED
        BY <2>3, <3>2, <4>1, <4>2, IdsFoundSame
    <3>3. QED
      BY <3>1, <3>2
  <2>9. CurrFound(k)'
    <3>1. CurrCall(k)' = x
      BY <2>2, <2>3 DEF CurrCall
    <3>2. QED
      BY <1>t, <2>3, <2>6, <2>7, <3>1 DEF CurrFound
  <2>10. ASSUME NEW m \in ConnIds, m # k PROVE CurrFound(m)'
    BY <1>t, <2>3, <2>7, <2>10, CurrFoundSame
  <2>11. QED
    BY <2>8, <2>9, <2>10 DEF IdsAgree
<1>3. ASSUME NEW k \in ConnIds, recvRespond(k) PROVE IdsAgree'
  <2>1. UNCHANGED <<wire, replies, value>>
    BY <1>3 DEF recvRespond, serverVars, callVars
  <2>2. \A m \in ConnIds : IdsFound(m)'
    BY <2>1, IdsFoundSame
  <2>3. CurrFound(k)'
    BY <1>3, <1>t, <2>1 DEF recvRespond, CurrFound
  <2>4. ASSUME NEW m \in ConnIds, m # k PROVE CurrFound(m)'
    <3>1. recv'[m] = recv[m] /\ recv_call_id'[m] = recv_call_id[m]
      BY <1>3, <1>t, <2>4 DEF recvRespond
    <3>2. QED
      BY <2>1, <3>1, CurrFoundSame
  <2>5. QED
    BY <2>2, <2>3, <2>4 DEF IdsAgree
<1>4. ASSUME NEW k \in ConnIds, recvRespond_fails(k) PROVE IdsAgree'
  <2>1. UNCHANGED <<wire, value, recv_call_id>>
    BY <1>4 DEF recvRespond_fails, callVars
  <2>2. replies' = replies \/ replies' = [replies EXCEPT ![k] = <<>>]
    BY <1>4 DEF recvRespond_fails
  <2>3. ASSUME NEW m \in ConnIds PROVE IdsFound(m)'
    <3>1. replies'[m] = replies[m] \/ DOMAIN replies'[m] = {}
      BY <1>t, <2>2
    <3>2. QED
      BY <2>1, <3>1, IdsFoundSame
  <2>4. CurrFound(k)'
    BY <1>4, <1>t DEF recvRespond_fails, CurrFound
  <2>5. ASSUME NEW m \in ConnIds, m # k PROVE CurrFound(m)'
    <3>1. recv'[m] = recv[m] /\ replies'[m] = replies[m]
      BY <1>4, <1>t, <2>5 DEF recvRespond_fails
    <3>2. QED
      BY <2>1, <3>1, CurrFoundSame
  <2>6. QED
    BY <2>3, <2>4, <2>5 DEF IdsAgree
<1>5. ASSUME NEW k \in ConnIds, Receiver(k), ~recvRespond_value(k), ~recvRespond(k),
             ~recvRespond_fails(k)
      PROVE  IdsAgree'
  <2>1. UNCHANGED <<wire, replies, value, recv_call_id>>
    BY <1>5 DEF Receiver, waitForWork, waitForWork_timeout, setValue_done, close,
                removeConnection, cleanupCalls, callVars, serverVars
  <2>2. ASSUME NEW m \in ConnIds, recv'[m] \in {"value", "done"} PROVE recv'[m] = recv[m]
    BY <1>5, <1>t, <2>2 DEF Receiver, waitForWork, waitForWork_timeout, setValue_done, close,
                removeConnection, cleanupCalls
  <2>3. \A m \in ConnIds : IdsFound(m)'
    BY <2>1, IdsFoundSame
  <2>4. \A m \in ConnIds : CurrFound(m)'
    BY <2>1, <2>2, CurrFoundSame
  <2>5. QED
    BY <2>3, <2>4 DEF IdsAgree
<1>6. ASSUME NEW k \in ConnIds, NEW j \in Numbers, Serve(k, j) PROVE IdsAgree'
  <2>1. UNCHANGED <<value, recv, recv_call_id>>
    BY <1>6 DEF Serve, callVars, recvVars
  <2>2. PICK p : replies' = [replies EXCEPT ![k] = Append(replies[k], p)]
    BY <1>6 DEF Serve
  <2>3. ASSUME NEW m \in ConnIds, replies[m] # <<>>
        PROVE  replies'[m] # <<>> /\ Head(replies'[m]) = Head(replies[m])
    <3>1. CASE m # k
      BY <1>t, <2>2, <2>3, <3>1
    <3>2. CASE m = k
      <4>1. replies'[k] = Append(replies[k], p) /\ replies[k] \in Seq(Reply)
        BY <1>t, <2>2
      <4>2. Len(replies[k]) > 0
        BY <2>3, <3>2, <4>1
      <4>3. 1 \in 1 .. Len(replies[k])
        BY <4>1, <4>2
      <4>4. Append(replies[k], p)[1] = replies[k][1]
        BY <4>1, <4>3, OneMore
      <4>5. QED
        BY <3>2, <4>1, <4>2, <4>4
    <3>3. QED
      BY <3>1, <3>2
  <2>4. \A m \in ConnIds : CurrFound(m)'
    BY <2>1, <2>3, CurrFoundSame
  <2>5. QED
    BY <1>6, <2>4, IdsFoundServe DEF IdsAgree
<1>7. ASSUME NEW k \in ConnIds, ServerCloses(k) PROVE IdsAgree'
  <2>1. UNCHANGED <<value, recv, recv_call_id, replies, wire>>
    BY <1>7 DEF ServerCloses, callVars, recvVars
  <2>2. \A m \in ConnIds : IdsFound(m)' /\ CurrFound(m)'
    BY <2>1, IdsFoundSame, CurrFoundSame
  <2>3. QED
    BY <2>2 DEF IdsAgree
<1>8. QED
  BY <1>1, <1>2, <1>3, <1>4, <1>5, <1>6, <1>7 DEF Next, Calls, Receives, Serves

-----------------------------------------------------------------------------
(* Answers and faults.                                                     *)

(* Each value stored is the one for the call it is stored in.              *)
LEMMA OwnStep ==
    ASSUME TypeOK, ConnectionLife, IdsAgree, OwnAnswer, Next
    PROVE  OwnAnswer'
<1>t. value \in [Call -> Call \cup {NoValue}] /\ done \in [Call -> BOOLEAN]
  BY DEF TypeOK, CallType
<1>0. ASSUME UNCHANGED <<value, done>>, fault' # "unknown_id" PROVE OwnAnswer'
  BY <1>0 DEF OwnAnswer
<1>f. fault # "unknown_id"
  BY DEF OwnAnswer
<1>1. ASSUME NEW t \in Callers, Caller(t), ~sendCall_throws(t) PROVE OwnAnswer'
  BY <1>0, <1>1, <1>f
  DEF Caller, getConnection_find, Connection_connect, addCall, sendCall, sendCall_param,
      Call_wait, callVars
<1>2. ASSUME NEW t \in Callers, sendCall_throws(t) PROVE OwnAnswer'
  <2>1. UNCHANGED <<value, done>>
    BY <1>2 DEF sendCall_throws, callVars
  <2>2. PICK k \in ConnIds : k = conn[t]
    BY <1>2, AtWork DEF sendCall_throws
  <2>3. sock[k] \in {"open", "unconnected", "garbage", "deleted"}
    BY <1>2, <2>2, SendSock
  <2>4. fault' # "unknown_id"
    BY <1>2, <2>2, <2>3 DEF sendCall_throws, SendFault
  <2>5. QED
    BY <1>0, <2>1, <2>4
<1>3. ASSUME NEW k \in ConnIds, recvRespond(k) PROVE OwnAnswer'
  <2>1. replies[k] # <<>> /\ replies[k] \in Seq(Reply) /\ recv[k] # "ended"
    BY <1>3, IdsType DEF recvRespond
  <2>2. 1 \in DOMAIN replies[k] /\ Head(replies[k]) = replies[k][1]
    BY <2>1
  <2>3. Head(replies[k]).id < Len(calls[k])
    BY <2>1, <2>2 DEF IdsAgree, IdsFound, Found
  <2>4. UNCHANGED <<value, done, fault>>
    BY <1>3, <2>3 DEF recvRespond, callVars
  <2>5. QED
    BY <1>0, <1>f, <2>4
<1>4. ASSUME NEW k \in ConnIds, recvRespond_value(k) PROVE OwnAnswer'
  <2>1. /\ replies[k] # <<>> /\ replies[k] \in Seq(Reply)
        /\ recv_call_id[k] = Head(replies[k]).id
    BY <1>4, IdsType DEF recvRespond_value, IdsAgree, CurrFound
  <2>2. PICK x \in Call : x = CurrCall(k)
    BY <1>4, CurrCallFound DEF recvRespond_value
  <2>3. 1 \in DOMAIN replies[k] /\ Head(replies[k]) = replies[k][1]
    BY <2>1
  <2>4. Head(replies[k]).value = x
    BY <1>4, <2>1, <2>2, <2>3
    DEF recvRespond_value, IdsAgree, IdsFound, Found, CurrCall
  <2>5. value' = [value EXCEPT ![x] = x] /\ UNCHANGED <<done, fault>>
    BY <1>4, <2>2, <2>4 DEF recvRespond_value
  <2>6. QED
    BY <1>t, <2>5 DEF OwnAnswer
<1>5. ASSUME NEW k \in ConnIds, setValue_done(k) PROVE OwnAnswer'
  <2>1. PICK x \in Call : x = CurrCall(k)
    BY <1>5, CurrCallFound DEF setValue_done
  <2>2. value[x] = x
    BY <1>5, <2>1 DEF setValue_done, IdsAgree, CurrFound
  <2>3. done' = [done EXCEPT ![x] = TRUE] /\ UNCHANGED <<value, fault>>
    BY <1>5, <2>1 DEF setValue_done
  <2>4. QED
    BY <1>t, <2>2, <2>3 DEF OwnAnswer
<1>6. ASSUME NEW k \in ConnIds, Receiver(k), ~recvRespond(k), ~recvRespond_value(k),
             ~setValue_done(k)
      PROVE  OwnAnswer'
  <2>1. UNCHANGED <<value, done>> /\ fault' \in {fault, "null_call", "bad_iterator"}
    BY <1>6 DEF Receiver, waitForWork, waitForWork_timeout, recvRespond_fails, close,
                removeConnection, cleanupCalls, callVars
  <2>2. QED
    BY <1>0, <1>f, <2>1
<1>7. ASSUME NEW k \in ConnIds, (\E j \in Numbers : Serve(k, j)) \/ ServerCloses(k)
      PROVE  OwnAnswer'
  BY <1>0, <1>7, <1>f DEF Serve, ServerCloses, callVars
<1>8. QED
  BY <1>1, <1>2, <1>3, <1>4, <1>5, <1>6, <1>7 DEF Next, Calls, Receives, Serves

(* The step that raises a fault has its cause.                             *)
LEMMA FaultStep ==
    ASSUME TypeOK, ConnectionLife, FaultCaused, Next
    PROVE  FaultCaused'
<1>t. /\ should_close \in [ConnIds -> BOOLEAN]
      /\ recv \in [ConnIds -> {"none", "failed", "wait", "read", "value", "done", "close",
                               "remove", "cleanup", "ended"}]
  BY DEF TypeOK, ConnType, RecvType
<1>0. fault = "no"
  BY DEF Next, Calls, Receives, Serves
<1>1. CASE fault' = "no"
  BY <1>1 DEF FaultCaused
<1>2. ASSUME NEW t \in Callers, sendCall_throws(t) PROVE FaultCaused'
  <2>1. UNCHANGED <<sock, should_close, server_open>>
    BY <1>2 DEF sendCall_throws, connVars, serverVars
  <2>2. PICK k \in ConnIds : k = conn[t]
    BY <1>2, AtWork DEF sendCall_throws
  <2>3. sock[k] \in {"open", "unconnected", "garbage", "deleted"}
    BY <1>2, <2>2, SendSock
  <2>4. fault' = SendFault[sock[k]] /\ (sock[k] = "open" => ~server_open[k])
    BY <1>2, <2>2 DEF sendCall_throws
  <2>5. /\ sock[k] = "deleted" => should_close[k]
        /\ sock[k] \in {"unconnected", "garbage"} => recv[k] = "none" /\ ~should_close[k]
    BY <1>t DEF ConnectionLife, ReceiverPlaced, SockFollows
  <2>6. k <= last_connection_index
    BY <1>2, <2>2 DEF sendCall_throws, ConnectionLife, CallerPlaced
  <2>7. sock[k] \in {"unconnected", "garbage"} => Poisoned(sock[k])'
    BY <1>2, <2>1, <2>5, <2>6
    DEF sendCall_throws, ConnectionLife, ReceiverPlaced, Poisoned, clientVars, recvVars
  <2>8. QED
    BY <2>1, <2>3, <2>4, <2>5, <2>7 DEF FaultCaused, SendFault
<1>3. ASSUME NEW k \in ConnIds, Receiver(k), fault' # "no" PROVE FaultCaused'
  <2>1. CASE recvRespond(k)
    BY <1>0, <1>3, <2>1 DEF recvRespond, FaultCaused
  <2>2. CASE recvRespond_fails(k)
    BY <1>0, <1>3, <2>2 DEF recvRespond_fails, FaultCaused
  <2>3. CASE cleanupCalls(k)
    <3>1. should_close[k]
      BY <2>3 DEF cleanupCalls, ConnectionLife, ReceiverPlaced
    <3>2. QED
      BY <1>0, <1>3, <2>3, <3>1 DEF cleanupCalls, FaultCaused
  <2>4. QED
    BY <1>0, <1>3, <2>1, <2>2, <2>3
    DEF Receiver, waitForWork, waitForWork_timeout, recvRespond_value, setValue_done,
        close, removeConnection
<1>4. ASSUME NEW t \in Callers, Caller(t), ~sendCall_throws(t) PROVE fault' = "no"
  BY <1>0, <1>4
  DEF Caller, getConnection_find, Connection_connect, addCall, sendCall, sendCall_param,
      Call_wait
<1>5. ASSUME NEW k \in ConnIds, (\E j \in Numbers : Serve(k, j)) \/ ServerCloses(k)
      PROVE  fault' = "no"
  BY <1>0, <1>5 DEF Serve, ServerCloses
<1>6. QED
  BY <1>1, <1>2, <1>3, <1>4, <1>5 DEF Next, Calls, Receives, Serves

-----------------------------------------------------------------------------
(* The theorems.                                                           *)

(* The invariant holds at the start ...                                    *)
LEMMA InitInv == Init => Inv
<1> SUFFICES ASSUME Init PROVE Inv
  OBVIOUS
<1> USE ClientAssumption DEF ClientAssumption, Init
<1>1. TypeOK
  <2>1. CallerType /\ CallType /\ ClientType
    BY DEF CallerType, CallType, ClientType
  <2>2. ConnType /\ RecvType
    BY EmptySeq DEF ConnType, RecvType
  <2>3. ServerType
    BY EmptySeq DEF ServerType
  <2>4. QED
    BY <2>1, <2>2, <2>3 DEF TypeOK
<1>2. LocksHeld
  BY DEF LocksHeld
<1>3. ConnectionLife
  BY DEF ConnectionLife, CallerPlaced, ReceiverPlaced, SockFollows, ConnIds
<1>4. CallsAdded
  BY DEF CallsAdded, AddedBegun, AddedOnce, AddedAt, ValueKept
<1>5. RequestsWhole /\ WireInTurn
  BY DEF RequestsWhole, WireInTurn
<1>6. IdsAgree
  BY DEF IdsAgree, IdsFound, CurrFound
<1>7. OwnAnswer /\ FaultCaused
  BY DEF OwnAnswer, FaultCaused
<1>8. QED
  BY <1>1, <1>2, <1>3, <1>4, <1>5, <1>6, <1>7 DEF Inv

(* ... and every step keeps it.                                            *)
LEMMA InvStep == Inv /\ [Next]_vars => Inv'
<1> SUFFICES ASSUME Inv, [Next]_vars PROVE Inv'
  OBVIOUS
<1>1. CASE Next
  <2>1. TypeOK'
    BY <1>1, TypeStep DEF Inv
  <2>2. LocksHeld'
    BY <1>1, LocksStep DEF Inv
  <2>3. ConnectionLife'
    BY <1>1, LifeStep DEF Inv
  <2>4. CallsAdded'
    BY <1>1, BegunStep, OnceStep, AtStep, ValueStep DEF Inv, CallsAdded
  <2>5. RequestsWhole' /\ WireInTurn'
    BY <1>1, WholeStep, TurnStep DEF Inv
  <2>6. IdsAgree'
    BY <1>1, IdsStep DEF Inv, CallsAdded
  <2>7. OwnAnswer' /\ FaultCaused'
    BY <1>1, OwnStep, FaultStep DEF Inv
  <2>8. QED
    BY <2>1, <2>2, <2>3, <2>4, <2>5, <2>6, <2>7 DEF Inv
<1>2. CASE UNCHANGED vars
  <2> USE <1>2 DEF Inv, vars, callerVars, callVars, clientVars, connVars, recvVars, serverVars
  <2>1. TypeOK'
    BY TypeStep
  <2>2. LocksHeld' /\ RequestsWhole'
    BY DEF LocksHeld, RequestsWhole
  <2>a. WireInTurn'
    BY DEF WireInTurn, CallOf
  <2>3. ConnectionLife'
    BY DEF ConnectionLife, CallerPlaced, ReceiverPlaced, SockFollows
  <2>4. CallsAdded'
    BY DEF CallsAdded, AddedBegun, AddedOnce, AddedAt, ValueKept, Receiving, CallOf
  <2>5. IdsAgree'
    BY DEF IdsAgree, IdsFound, CurrFound, Found, CurrCall
  <2>6. OwnAnswer' /\ FaultCaused'
    BY DEF OwnAnswer, FaultCaused, Poisoned
  <2>7. QED
    BY <2>1, <2>2, <2>a, <2>3, <2>4, <2>5, <2>6
<1>3. QED
  BY <1>1, <1>2

(* The inductive invariant: locks, the life of connections, calls, wire,   *)
(* ids, answers and causes of faults fit together in every state that the  *)
(* threads of Client.cpp reach.                                            *)
THEOREM InvHolds == Spec => []Inv
  BY InitInv, InvStep, PTL DEF Spec

(* The variables of the client keep their types.                           *)
THEOREM TypeCorrect == Spec => []TypeOK
<1>1. Inv => TypeOK
  BY DEF Inv
<1>2. QED
  BY <1>1, InvHolds, PTL

(* Whatever the threads that share a connection do, sendCall puts          *)
(* the parameters of a call on the wire directly after its id.             *)
THEOREM RequestsStayWhole == Spec => []RequestsWhole
<1>1. Inv => RequestsWhole
  BY DEF Inv
<1>2. QED
  BY <1>1, InvHolds, PTL

(* A call that setValue has marked done has the answer to its own request, *)
(* and recvRespond never meets an id it cannot find.                       *)
THEOREM AnswersAreOwn == Spec => []OwnAnswer
<1>1. Inv => OwnAnswer
  BY DEF Inv
<1>2. QED
  BY <1>1, InvHolds, PTL

(* Only a connection whose receiver is at work has brought answers, so     *)
(* waitForWork's timeout never closes one that has, and each crash or      *)
(* abort of the client has its cause.                                      *)
THEOREM FaultsHaveCauses == Spec => []FaultsExplained
<1>1. Inv => FaultsExplained
  <2> SUFFICES ASSUME Inv PROVE FaultsExplained
    OBVIOUS
  <2>1. ASSUME NEW k \in ConnIds, ~Receiving(k), NEW i \in DOMAIN calls[k]
        PROVE  value[calls[k][i]] = NoValue
    <3>1. calls[k][i] \in Call
      BY InCalls DEF Inv
    <3>2. SUFFICES ASSUME value[calls[k][i]] # NoValue PROVE FALSE
      OBVIOUS
    <3>3. PICK m \in ConnIds :
              Receiving(m) /\ \E j \in DOMAIN calls[m] : calls[m][j] = calls[k][i]
      BY <3>1, <3>2 DEF Inv, CallsAdded, ValueKept
    <3>4. m = k
      BY <3>3 DEF Inv, CallsAdded, AddedOnce
    <3>5. QED
      BY <2>1, <3>3, <3>4
  <2>2. ASSUME NEW k \in ConnIds, k < last_connection_index PROVE should_close[k]
    <3>1. k # connections /\ k <= last_connection_index
      BY <2>2, ClientAssumption
      DEF Inv, ConnectionLife, TypeOK, ClientType, ConnIds, ClientAssumption
    <3>2. QED
      BY <3>1 DEF Inv, ConnectionLife, ReceiverPlaced
  <2>3. QED
    BY <2>1, <2>2 DEF Inv, FaultCaused, FaultsExplained
<1>2. QED
  BY <1>1, InvHolds, PTL
=============================================================================
