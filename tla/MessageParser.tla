--------------------------- MODULE MessageParser ---------------------------
(* The parser both ends of a connection use on the mails and requests they
   receive (MessageParser.cpp): it counts lines to find out where a message ends,
   and leaves what is in it to Inflate. *)
EXTENDS Messages

CONSTANT MaxLen     \* the buffer that lines are read into, the same at both ends

ASSUME BufferAssumption == MaxLen \in Nat /\ MaxLen >= 3

(* total counts the lines still to come; it runs below zero while the body and
   the end mark of a mail are awaited.  data is current_message_data_. *)
NewParser == [state |-> "new", type |-> "none", total |-> 0, awaiting |-> 0, data |-> <<>>]

Nothing == [type |-> "nothing"]

TotalLines_Two(type) == 2                 \* mutant: one count for all types
TotalLines(type) ==
  CASE type = "SEND" -> 3
    [] type = "LIST" -> 1
    [] type \in {"READ", "DEL", "LOGIN"} -> 2

Clean_ButSend(m) ==                       \* mutant: not after the attachments
  m.type \notin {"malformed", "endless", "SEND"}
Clean(m) == m.type \notin {"malformed", "endless"}

(* A finished message is built from the data, which is cleared only when that
   throws nothing. *)
Finish(p) ==
  With(Inflate(p.data), LAMBDA m :
    [parser |-> [p EXCEPT !.data = IF Clean(m) THEN <<>> ELSE @], got |-> m])

Continue(p) == [parser |-> p, got |-> Nothing]

(* The first line of a request; lines that start none are passed over. *)
DigestNew(p, line) ==
  LET type  == IF \E t \in Types : line = <<t>> THEN line[1] ELSE "none"
      begun == [p EXCEPT !.type = type, !.data = Append(@, line)]
  IN  CASE type = "none" -> Continue([p EXCEPT !.type = type])
        [] type = "QUIT" -> Finish(begun)
        [] OTHER -> Continue([begun EXCEPT !.state = "parsing", !.total = TotalLines(type)])

DigestParsing(p, line) ==
  LET next == [p EXCEPT !.data = Append(@, line), !.total = @ - 1]
  IN  IF p.type = "SEND"
      THEN Continue([next EXCEPT !.state = IF next.total < 0 /\ line = Dot
                                           THEN "attachments" ELSE @])
      ELSE IF next.total = 0 THEN Finish([next EXCEPT !.state = "new"])
      ELSE Continue(next)

BytesRead_Kept(p) == p                    \* mutant: the awaited size is not reset
BytesRead(p) == [p EXCEPT !.awaiting = 0]

(* The number of attachments, then for each its name, size and bytes.  What is
   not a number where one is due ends the message. *)
DigestAttachments(p, line) ==
  LET next  == [p EXCEPT !.data = Append(@, line), !.total = @ - 1]
      count == next.total < 0
      size  == next.total >= 0 /\ next.total % 3 = 1
      bytes == next.total >= 0 /\ next.total % 3 = 0
      read  == IF (count \/ size) /\ ~IsNumber(line) THEN [next EXCEPT !.state = "new"]
               ELSE IF count THEN [next EXCEPT !.total = Value(line) * 3]
               ELSE IF size THEN [next EXCEPT !.awaiting = Value(line)]
               ELSE IF bytes THEN BytesRead(next)
               ELSE next
  IN  IF read.total = 0 \/ read.state = "new" THEN Finish([read EXCEPT !.state = "new"])
      ELSE Continue(read)

(* What the parser becomes, and the message it hands on. *)
Digest(p, line) ==
  CASE p.state = "new"         -> DigestNew(p, line)
    [] p.state = "parsing"     -> DigestParsing(p, line)
    [] p.state = "attachments" -> DigestAttachments(p, line)

(* Is a line, with its NL, read in one go?  readline keeps a byte for its NUL. *)
Short(l) == Len(l) + 2 <= MaxLen

(* The mails both ends agree about: no line that the buffer does not hold, no ".",
   alone on its line, where the parser already looks for the end of the body, no
   mark of the end of the receivers among them, and no CR where the chop looks for
   the end of a line. *)
Plain(m) ==
  /\ Short(m.sender) /\ Short(m.title)
  /\ \A l \in ToSet(m.receivers) \cup ToSet(m.body) : Short(l)
  /\ \A a \in ToSet(m.attachments) : Short(a.filename)
  /\ m.title # Dot
  /\ Eot \notin ToSet(m.receivers) /\ \A i \in 3..Len(m.receivers) : m.receivers[i] # Dot
  /\ \A l \in ToSet(m.body) : l # <<>> => l[Len(l)] # CR
  /\ \A i \in DOMAIN m.attachments :
       LET d == m.attachments[i].data IN Len(d) >= 2 => d[Len(d) - 1] # CR

-----------------------------------------------------------------------------
(* What a reader hands to the parser: a line up to its NL, or as much of it as the
   buffer holds and a NUL, or the number of bytes awaited, or what is left when the
   other end is gone; then it takes the line end off, whichever of them it was. *)
Chop(b) ==
  SubSeq(b, 1, IF Len(b) >= 2 /\ b[Len(b) - 1] = CR THEN Len(b) - 2 ELSE Len(b) - 1)

(* A line that is cut off: of a number, the first digits make a smaller one. *)
Cuts(l) == {l} \cup {Number(k) : k \in {i \in 1..8 : IsNumber(l) /\ i < Value(l)}}
=============================================================================
