----------------------------- MODULE MCSession -----------------------------
(* Instances of Session for TLC: the mails are chosen at the borders of what the
   two grammars of a mail agree about. *)
EXTENDS Session

Symbols == STRING
alice   == <<"ali", "ce">>
File(name, data) == [filename |-> <<name>>, data |-> data]

(* Plain: a "." as second receiver, a CR and a NL inside an attachment, one of one
   byte, an empty line. *)
PlainDraft == Mail(alice, <<alice, Dot>>, <<"hi">>, <<<<>>, <<"text">>>>,
                   <<File("g", <<CR>>), File("f", <<CR, NL, "b">>)>>)

(* Not plain: a title ".", a third receiver ".", a file that ends with CR NL,
   a line of the body whose second piece is "." and CR. *)
DotTitle    == Mail(alice, <<alice>>, Dot, <<<<>>>>, <<>>)
DotReceiver == Mail(alice, <<alice, alice, Dot>>, <<"hi">>, <<<<>>>>, <<>>)
CrFile      == Mail(alice, <<alice>>, <<"cr">>, <<<<>>>>, <<File("f", <<"a", CR, NL>>)>>)
LongLine    == Mail(alice, <<alice>>, <<"hi">>, <<<<"a", "b", "c", ".", CR>>>>, <<>>)

AllDrafts == {PlainDraft, DotTitle, DotReceiver, CrFile, LongLine}
OneCr     == {CrFile}
Old       == {Mail(alice, <<alice>>, <<"old">>, <<<<>>>>, <<File("f", <<"a", NL>>)>>),
              Mail(alice, <<alice, Dot>>, <<"new">>, <<<<>>, <<"x">>>>, <<>>)}
Bytes     == {"stale"}
=============================================================================
