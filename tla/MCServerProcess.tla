--------------------------- MODULE MCServerProcess ---------------------------
(***************************************************************************)
(* Instances of ServerProcess for TLC: each call comes over a connection   *)
(* of its own, and the first user's certificate, if any, has no name.      *)
(***************************************************************************)
EXTENDS ServerProcess

CONSTANTS Nameless  \* the connections whose certificate has no common name

MCConns == Calls
MCConnOf == [c \in Calls |-> c]
MCCommonName == [n \in Conns |-> IF n \in Nameless THEN NoName ELSE n]
=============================================================================
