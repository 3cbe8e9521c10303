---------------------------- MODULE MCLineReader ----------------------------
(* Instances of LineReader for TLC: two clients that send an empty line each; one
   that sends a line longer than the read buffer and the thread's own; one that
   sends an attachment that looks like the end of a line; with the latter two
   another client connects. *)
EXTENDS LineReader, TLC

CONSTANTS t1, t2

Pairs == {t1 :> <<"end">> @@ t2 :> <<"end">>,
          t1 :> <<"char", "char", "end">> @@ t2 :> <<>>,
          t1 :> <<"size", "end">> @@ t2 :> <<>>}
=============================================================================
