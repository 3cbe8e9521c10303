------------------------------ MODULE Messages ------------------------------
(* The messages of the protocol and their text (messages/*.cpp).  A text is a
   sequence of symbols: NL and CR, the marks ETX and ".", and words, each of
   which stands for the bytes it is written with but counts as one; the bytes of
   an attachment are symbols too.  A line is a text without NL, a number a line
   of one digit. *)
EXTENDS Integers, Sequences, FiniteSets, SequencesExt

CONSTANT Symbol     \* what texts are made of

(* F of x, which TLC evaluates once. *)
With(x, F(_)) == CHOOSE y \in {F(z) : z \in {x}} : TRUE

NL  == "NL"
CR  == "CR"
Eot == <<"ETX">>     \* EOT_STRING
Dot == <<".">>

Digits      == <<"0", "1", "2", "3", "4", "5", "6", "7", "8", "9">>
Number(n)   == <<Digits[n + 1]>>
IsNumber(l) == \E n \in 0..9 : l = Number(n)
Value(l)    == CHOOSE n \in 0..9 : l = Number(n)

Types == {"SEND", "LIST", "READ", "DEL", "QUIT", "LOGIN"}

ASSUME SymbolAssumption ==
  {NL, CR, "ETX", "."} \cup ToSet(Digits) \cup Types \subseteq Symbol

(* A mail: a SendMessage. *)
Mail(sender, receivers, title, body, attachments) ==
  [type |-> "SEND", sender |-> sender, receivers |-> receivers, title |-> title,
   body |-> body, attachments |-> attachments]

(* What inflate ends with, if not with a message: a ConversionException, or
   never: it appends the same line until there is no memory left. *)
Malformed == [type |-> "malformed"]
Endless   == [type |-> "endless"]

-----------------------------------------------------------------------------
(* deflate *)

Text(lines) == FlattenSeq([i \in DOMAIN lines |-> Append(lines[i], NL)])

AttachmentText(a) == Text(<<a.filename, Number(Len(a.data))>>) \o a.data

MailText(m) ==
  Text(<<<<"SEND">>, m.sender>> \o m.receivers \o <<Eot, m.title>> \o m.body
       \o <<Dot, Number(Len(m.attachments))>>)
  \o FlattenSeq([i \in DOMAIN m.attachments |-> AttachmentText(m.attachments[i])])

ListText(m)  == Text(<<<<"LIST">>, m.user>>)
IndexText(m) == Text(<<<<m.type>>, m.user, Number(m.index)>>)
LoginText(m) == Text(<<<<"LOGIN">>, m.user, m.password>>)
QuitText     == Text(<<<<"QUIT">>>>)

Deflate(m) ==
  CASE m.type = "SEND"             -> MailText(m)
    [] m.type = "LIST"             -> ListText(m)
    [] m.type \in {"READ", "DEL"}  -> IndexText(m)
    [] m.type = "LOGIN"            -> LoginText(m)
    [] m.type = "QUIT"             -> QuitText

-----------------------------------------------------------------------------
(* inflate, on the lines of a text; a line past its end is empty. *)

Lines(s) ==
  With({0} \cup {i \in DOMAIN s : s[i] = NL}, LAMBDA ends :
    LET start(k) == CHOOSE e \in ends : Cardinality({x \in ends : x < e}) = k - 1
    IN  [k \in 1..(Cardinality(ends) - 1) |-> SubSeq(s, start(k) + 1, start(k + 1) - 1)])

LineOf(ls, i) == IF i \in DOMAIN ls THEN ls[i] ELSE <<>>

First(ls, from, mark) == CHOOSE i \in from..Len(ls) :
                           ls[i] = mark /\ \A j \in from..(i - 1) : ls[j] # mark
Has(ls, from, mark)   == \E i \in from..Len(ls) : ls[i] = mark

(* The attachments, read from the bytes behind their number: each has its name,
   its size and that many bytes, with no line end behind them. *)
Enough(s, p, size) == p + size <= Len(s)

OneMore(r) ==
  LET ls   == Lines(r.rest)
      size == LineOf(ls, 2)
      from == Len(LineOf(ls, 1)) + Len(size) + 2
  IN  IF r.ok /\ IsNumber(size) /\ Enough(r.rest, from, Value(size))
      THEN [ok   |-> TRUE,
            rest |-> SubSeq(r.rest, from + Value(size) + 1, Len(r.rest)),
            list |-> Append(r.list, [filename |-> LineOf(ls, 1),
                                     data |-> SubSeq(r.rest, from + 1, from + Value(size))])]
      ELSE [r EXCEPT !.ok = FALSE]

Attachments(bytes, n) ==
  LET read[k \in 0..n] == IF k = 0 THEN [ok |-> TRUE, rest |-> bytes, list |-> <<>>]
                          ELSE With(read[k - 1], OneMore)
  IN  read[n]

(* The receivers end at the first ETX, the body at the first "." after the
   title; without one of them inflate never ends. *)
InflateLines(s, ls) ==
  LET eot   == First(ls, 3, Eot)
      dot   == First(ls, eot + 2, Dot)
      count == LineOf(ls, dot + 1)
      head  == Len(Text(SubSeq(ls, 1, dot + 1)))
  IN  IF ~Has(ls, 3, Eot) THEN Endless
      ELSE IF ~Has(ls, eot + 2, Dot) THEN Endless
      ELSE IF ~IsNumber(count) THEN Malformed
      ELSE With(Attachments(SubSeq(s, head + 1, Len(s)), Value(count)), LAMBDA found :
             IF found.ok THEN Mail(LineOf(ls, 2), SubSeq(ls, 3, eot - 1), LineOf(ls, eot + 1),
                                   SubSeq(ls, eot + 2, dot - 1), found.list)
             ELSE Malformed)

(* The other requests: lines past those they need are not looked at. *)
InflateList(ls)  == [type |-> "LIST", user |-> LineOf(ls, 2)]
InflateLogin(ls) == [type |-> "LOGIN", user |-> LineOf(ls, 2), password |-> LineOf(ls, 3)]

InflateIndex(ls) ==
  IF IsNumber(LineOf(ls, 3))
  THEN [type |-> ls[1][1], user |-> LineOf(ls, 2), index |-> Value(LineOf(ls, 3))]
  ELSE Malformed

(* newInstance, on the lines the parser collected. *)
InflateText(s) ==
  With(Lines(s), LAMBDA ls :
    LET type == LineOf(ls, 1)
    IN  CASE type = <<"SEND">>  -> InflateLines(s, ls)
          [] type = <<"LIST">>  -> InflateList(ls)
          [] type = <<"LOGIN">> -> InflateLogin(ls)
          [] type = <<"QUIT">>  -> [type |-> "QUIT"]
          [] type \in {<<"READ">>, <<"DEL">>} -> InflateIndex(ls))

Inflate(data) == With(Text(data), InflateText)

-----------------------------------------------------------------------------
(* The mails the client's menus let a user write: words without a line end, a body
   that ends at the first ".", files that are not empty; and numbers of one digit. *)
IsLine(l) == l \in Seq(Symbol) /\ NL \notin ToSet(l)
IsWord(l) == IsLine(l) /\ l # <<>> /\ l[Len(l)] # CR

Writable(m) ==
  /\ m = Mail(m.sender, m.receivers, m.title, m.body, m.attachments)
  /\ IsWord(m.sender) /\ IsWord(m.title)
  /\ m.receivers \in Seq(ToSet(m.receivers)) /\ m.receivers # <<>>
  /\ \A l \in ToSet(m.receivers) : IsWord(l)
  /\ m.body \in Seq(ToSet(m.body)) /\ \A l \in ToSet(m.body) : IsLine(l) /\ l # Dot
  /\ m.attachments \in Seq(ToSet(m.attachments)) /\ Len(m.attachments) <= 9
  /\ \A a \in ToSet(m.attachments) :
       /\ a = [filename |-> a.filename, data |-> a.data]
       /\ IsWord(a.filename) /\ a.data \in Seq(Symbol) /\ Len(a.data) \in 1..9
=============================================================================
