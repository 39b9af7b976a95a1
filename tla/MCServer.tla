------------------------------ MODULE MCServer ------------------------------
(* Small instances of Server for TLC.                                       *)
EXTENDS Server, TLC

Symmetry == Permutations(Conns)

NoneUnknown == {}

(* The last call of every client names a method the server does not have.   *)
LastUnknown == {<<c, MaxCalls>> : c \in Conns}
=============================================================================
