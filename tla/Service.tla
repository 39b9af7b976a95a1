------------------------------- MODULE Service -------------------------------
(***************************************************************************)
(* What a server promises each connection, and all a client may rely on:   *)
(* the requests that have arrived whole are answered at most once each, in *)
(* any order, until the server is gone from the connection.  Server.tla    *)
(* implements it; Client.tla uses it as the server at the other end.       *)
(***************************************************************************)
EXTENDS Naturals

CONSTANTS
    Links,          \* the connections
    Numbers         \* the numbers of requests on a connection, from 1 on

VARIABLES
    asked,          \* asked[c]: how many requests have arrived on c
    answered,       \* answered[c][j]: how many answers to request j were sent
    up              \* up[c]: the server still serves c

Init ==
    /\ asked = [c \in Links |-> 0]
    /\ answered = [c \in Links |-> [j \in Numbers |-> 0]]
    /\ up = [c \in Links |-> TRUE]

(* A request arrives.                                                      *)
Ask(c) ==
    /\ asked' = [asked EXCEPT ![c] = @ + 1]
    /\ UNCHANGED <<answered, up>>

(* Request j is answered.                                                  *)
Answer(c, j) ==
    /\ up[c]
    /\ j \in Numbers
    /\ j \in 1 .. asked[c]
    /\ answered[c][j] = 0
    /\ answered' = [answered EXCEPT ![c][j] = 1]
    /\ UNCHANGED <<asked, up>>

(* The server closes some connections, or ends and leaves them all.        *)
Leave(C) ==
    /\ up' = [c \in Links |-> up[c] /\ c \notin C]
    /\ UNCHANGED <<asked, answered>>

Next ==
    \/ \E c \in Links : Ask(c)
    \/ \E c \in Links : \E j \in Numbers : Answer(c, j)
    \/ \E C \in SUBSET Links : Leave(C)

Spec == Init /\ [][Next]_<<asked, answered, up>>
=============================================================================
