-------------------------- MODULE MCTcpConnection --------------------------
(***************************************************************************)
(* Replies for small instances of TcpConnection.                           *)
(***************************************************************************)
EXTENDS TcpConnection

\* "END", "STORED" and a value, in one byte a line but for the second.
Ascii == {{1}, {2}, {1, 2, 3}}
EveryForm == [p \in {"counted", "http", "ascii"} |->
                CASE p = "counted" -> {{2}, {3}}
                  [] p = "http"    -> {{2}}
                  [] p = "ascii"   -> Ascii]
AsciiForms == [p \in {"ascii"} |-> Ascii]
=============================================================================
