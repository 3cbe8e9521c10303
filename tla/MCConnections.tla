--------------------------- MODULE MCConnections ---------------------------
(* Instances of Connections for TLC: a client that sends a mail and quits, and
   one that quits and goes on asking. *)
EXTENDS Connections, TLC

CONSTANTS c1, c2

SendAndQuit == {c1 :> <<"head", "tail", "quit">> @@ c2 :> <<"quit", "ask">>}
=============================================================================
