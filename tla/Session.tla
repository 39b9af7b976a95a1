------------------------------- MODULE Session -------------------------------
(***************************************************************************)
(* The data path of one connection: what RPC::invoke puts into a request,  *)
(* Call::read takes out of it, Method::call makes of it, and recvRespond   *)
(* hands back.  Threads and queues are those of Client.tla and Server.tla: *)
(* here a request is written whole (RequestsWhole), requests are read one  *)
(* after the other (OneReaderPerSocket), executed in any order, answered   *)
(* once (RefinesService) and a response is written in one piece.           *)
(***************************************************************************)
EXTENDS Writables, FiniteSets

CONSTANTS
    Requests,       \* the requests callers make: [call, valueClass] records
    MaxCalls,       \* bound: requests on the connection
    NoValue

(* A request is a MethodWritable and the class its result is read as.      *)
ASSUME SessionAssumption ==
    /\ MaxCalls \in Nat
    /\ \A q \in Requests : q.call.class = "MethodWritable"

VARIABLES
    asked,          \* the requests made; request k has call id k - 1
    to_server,      \* the stream of requests
    read_calls,     \* the Server::Calls read, [id, call] records, in order
    pending,        \* the positions in read_calls that wait for a handler
    to_client,      \* the stream of responses
    value,          \* value[k]: Client::Call::_value of request k
    done,           \* done[k]: Client::Call::_done
    lost,           \* the ends ("server", "client") that have lost their place
    fault           \* "no", or how the client or the server process ended

vars == <<asked, to_server, read_calls, pending, to_client, value, done, lost, fault>>

Ids == 1 .. MaxCalls

Init ==
    /\ asked = <<>>
    /\ to_server = <<>>
    /\ read_calls = <<>>
    /\ pending = {}
    /\ to_client = <<>>
    /\ value = [k \in Ids |-> NoValue]
    /\ done = [k \in Ids |-> FALSE]
    /\ lost = {}
    /\ fault = "no"

-----------------------------------------------------------------------------
(* The client.                                                             *)

(* DataNodeProtocol::create.                                               *)
DataNodeProtocol_create(a, b, c, d) ==
    [call |-> MethodOf("NameNode", "create", <<Int32(a), Int32(b), Int32(c), Int32(d)>>),
     valueClass |-> "IntWritable"]

(* Client::call: addCall numbers the call, Call::write sends it.           *)
Client_call(q) ==
    /\ Len(asked) < MaxCalls
    /\ asked' = Append(asked, q)
    /\ to_server' = to_server \o <<[int |-> Len(asked)]>> \o writeMethod(q.call)
    /\ UNCHANGED <<read_calls, pending, to_client, value, done, lost, fault>>

(* RPC::invoke first collects the parameters with getParams, which prints  *)
(* them; the base class prints a NULL string, which throws, and            *)
(* Invocation::invoke turns any exception into std::abort().               *)
Unprintable(q) == \E i \in DOMAIN q.call.params : q.call.params[i] = Blank

RPC_invoke(q) ==
    IF Unprintable(q)
    THEN /\ Len(asked) < MaxCalls
         /\ asked' = Append(asked, q)
         /\ fault' = "unprintable"
         /\ UNCHANGED <<to_server, read_calls, pending, to_client, value, done, lost>>
    ELSE Client_call(q)

-----------------------------------------------------------------------------
(* The server.                                                             *)

(* Call::read: the call's id, class, method and parameters.                *)
readCall(s) ==
    Then(ReadField("int", s), LAMBDA id, t :
    Then(readMethod(t), LAMBDA w, u : Ok([id |-> id, call |-> w], u)))

(* Mutant: the call is queued under the wrong position.                    *)
Mut_Call_read ==
    LET r == readCall(to_server) IN
    /\ "server" \notin lost
    /\ r.st = "ok"
    /\ read_calls' = Append(read_calls, r.value)
    /\ pending' = pending \cup {Len(read_calls) + 2}
    /\ to_server' = r.rest
    /\ UNCHANGED <<asked, to_client, value, done, lost, fault>>

(* Reader::_do_read: read a call and queue it for the handlers.            *)
Call_read ==
    LET r == readCall(to_server) IN
    /\ "server" \notin lost
    /\ \/ /\ r.st = "ok"
          /\ read_calls' = Append(read_calls, r.value)
          /\ pending' = pending \cup {Len(read_calls) + 1}
          /\ to_server' = r.rest
          /\ UNCHANGED lost
       \/ /\ r.st = "lost"
          /\ lost' = lost \cup {"server"}
          /\ UNCHANGED <<read_calls, pending, to_server>>
    /\ UNCHANGED <<asked, to_client, value, done, fault>>

(* Mutant: NameNode::create forgets the last argument.                     *)
Mut_NameNode_create(p) == p[1].value + p[2].value + p[3].value

(* NameNode::create.                                                       *)
NameNode_create(p) == p[1].value + p[2].value + p[3].value + p[4].value

FourInts(p) == Len(p) >= 4 /\ \A i \in 1 .. 4 : p[i].class = "IntWritable"

(* Mutant: the dispatch does not know FSNameSystem.                        *)
Mut_Method_call(w) ==
    IF w.name = "NameNode" /\ w.method = "create" /\ FourInts(w.params)
    THEN [result |-> NameNode_create(w.params)]
    ELSE [crash |-> "null_result"]

(* Method::call: the result, or NULL, which Call::setValue dereferences.   *)
(* NameNode::create gets params[0] to params[3] without a look at how many *)
(* there are or what they are.                                             *)
Method_call(w) ==
    CASE w.name = "FSNameSystem" /\ w.method = "create" -> [result |-> 32]
      [] w.name = "NameNode" /\ w.method = "create" ->
            IF FourInts(w.params) THEN [result |-> NameNode_create(w.params)]
            ELSE [crash |-> "bad_params"]
      [] OTHER -> [crash |-> "null_result"]

(* Handler::handle on the i-th call: Method::call, Call::setValue and the  *)
(* response, or the end of the process.                                    *)
Handler_handle(i) ==
    LET r == Method_call(read_calls[i].call) IN
    /\ i \in pending
    /\ IF "crash" \in DOMAIN r
       THEN fault' = r.crash /\ UNCHANGED <<pending, to_client>>
       ELSE /\ pending' = pending \ {i}
            /\ to_client' = to_client \o <<[int |-> read_calls[i].id]>> \o writeInt(r.result)
            /\ UNCHANGED fault
    /\ UNCHANGED <<asked, to_server, read_calls, value, done, lost>>

-----------------------------------------------------------------------------
(* The client's receiver.                                                  *)

(* A response: the id of a request, then a value of the class it asked for.*)
readResponse(s) ==
    Then(ReadField("int", s), LAMBDA id, t :
    Then(readFields(asked[id + 1].valueClass, t), LAMBDA w, u :
         Ok([k |-> id + 1, value |-> w], u)))

(* Mutant: setValue forgets _done.                                         *)
Mut_recvRespond ==
    LET r == readResponse(to_client) IN
    /\ "client" \notin lost
    /\ r.st = "ok"
    /\ value' = [value EXCEPT ![r.value.k] = r.value.value]
    /\ to_client' = r.rest
    /\ UNCHANGED <<asked, to_server, read_calls, pending, done, lost, fault>>

(* recvRespond and Call::setValue, which stores the value, prints it (the  *)
(* base class throws) and only then sets _done.                            *)
recvRespond ==
    LET r == readResponse(to_client) IN
    /\ "client" \notin lost
    /\ \/ /\ r.st = "ok"
          /\ value' = [value EXCEPT ![r.value.k] = r.value.value]
          /\ done' = [done EXCEPT ![r.value.k] = r.value.value # Blank]
          /\ to_client' = r.rest
          /\ UNCHANGED lost
       \/ /\ r.st = "lost"
          /\ lost' = lost \cup {"client"}
          /\ UNCHANGED <<value, done, to_client>>
    /\ UNCHANGED <<asked, to_server, read_calls, pending, fault>>

-----------------------------------------------------------------------------
Running == fault = "no"

Asks       == Running /\ \E q \in Requests : Client_call(q) \/ RPC_invoke(q)
Reads      == Running /\ Call_read
Handles(i) == Running /\ Handler_handle(i)
Receives   == Running /\ recvRespond

Next ==
    \/ Asks
    \/ Reads
    \/ \E i \in Ids : Handles(i)
    \/ Receives

Spec == Init /\ [][Next]_vars

(* Readers, handlers and the receiver thread run.                          *)
FairSpec ==
    /\ Spec
    /\ WF_vars(Reads) /\ WF_vars(Receives)
    /\ \A i \in Ids : WF_vars(Handles(i))

-----------------------------------------------------------------------------
(* Properties.                                                             *)

Asked(k) == k \in DOMAIN asked

(* Every variable has its type; a position is either waiting, answered or  *)
(* not read yet.                                                           *)
TypeOK ==
    /\ Len(asked) <= MaxCalls /\ \A k \in DOMAIN asked : asked[k] \in Requests
    /\ pending \subseteq DOMAIN read_calls
    /\ \A k \in Ids : done[k] => Asked(k) /\ value[k].class = asked[k].valueClass
    /\ lost \subseteq {"server", "client"}
    /\ fault \in {"no", "unprintable", "bad_params", "null_result"}

(* The stream has neither tags nor a length of a whole call, and the       *)
(* parameters nest: still the k-th call the server reads is the k-th       *)
(* request, each int cut to a char and nothing else changed, and it only   *)
(* loses its place after a request with an empty name, which writeString   *)
(* leaves out.                                                             *)
CallsReadAsWritten ==
    /\ \A k \in DOMAIN read_calls :
          Asked(k) /\ read_calls[k] = [id |-> k - 1, call |-> Arrives(asked[k].call)]
    /\ "server" \in lost => \E k \in DOMAIN asked : ~Named(asked[k].call)

(* What a caller should get: for NameNode.create the sum of the ints it    *)
(* passed, as far as one char can hold it.                                 *)
Expected(w) ==
    IF w.name = "FSNameSystem" THEN Int32(32)
    ELSE LET p == w.params IN
         Int32(Received(p[1].value + p[2].value + p[3].value + p[4].value))

(* Whatever the order of the handlers, and although every int is cut once  *)
(* on its way in and once on its way out, the answer a caller returns with *)
(* is the one to its own request, exact whenever the true sum is a char    *)
(* (as long as the receiver has its place in the stream).                  *)
ResultsRight == \A k \in Ids : done[k] => value[k] = Expected(asked[k].call)

(* Each end of a process has its cause in a request, and the receiver only *)
(* loses its place to a result class other than IntWritable, the one class *)
(* the server sends.                                                       *)
TroubleExplained ==
    /\ fault = "unprintable" => \E k \in DOMAIN asked : Unprintable(asked[k])
    /\ fault = "null_result" => \E k \in DOMAIN asked :
          <<asked[k].call.name, asked[k].call.method>> \notin
              {<<"FSNameSystem", "create">>, <<"NameNode", "create">>}
    /\ fault = "bad_params" => \E k \in DOMAIN asked :
          /\ <<asked[k].call.name, asked[k].call.method>> = <<"NameNode", "create">>
          /\ ~FourInts(asked[k].call.params)
    /\ "client" \in lost => \E k \in DOMAIN asked : asked[k].valueClass # "IntWritable"

(* A caller gets its answer unless an end of the connection is lost or     *)
(* gone, or it asked for a class that cannot be printed: the receiver then *)
(* throws between _value and _done and the caller waits for ever.          *)
AnswersArrive ==
    \A k \in Ids :
        Asked(k) ~> done[k] \/ fault # "no" \/ lost # {} \/ value[k] = Blank
=============================================================================
