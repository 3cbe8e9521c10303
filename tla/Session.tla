------------------------------ MODULE Session ------------------------------
(* One connection: the client with its menu and its response parser (client/),
   the two directions of the socket, and the server's thread: the welcome, the
   reading loop (WelcomeServer), the request parser and the handlers
   (MailServer).  The spool and the LDAP server are external: their calls succeed
   or fail.  The client sends one request and waits for its answer. *)
EXTENDS MessageParser, FiniteSets

CONSTANTS Name,         \* the user's name, a line
          Drafts,       \* the mails the user writes
          OldMails,     \* mails that are in the user's mailbox at first
          Stale,        \* bytes the server's buffer may hold from before
          MaxRequests,  \* bound: requests of the client
          MayDie        \* may the client be ended at any point?

(* A user writes what the client's menus let him; his name fits the buffer.  Numbers
   have one digit here, that of the mails in a list too. *)
ASSUME SessionAssumption ==
  /\ IsWord(Name) /\ Short(Name) /\ Stale \subseteq Symbol /\ {"OK", "ERR", "right", "wrong"} \subseteq Symbol
  /\ \A m \in Drafts \cup OldMails : Writable(m)
  /\ \A m \in Drafts : m.sender = Name
  /\ MaxRequests \in Nat /\ MayDie \in BOOLEAN
  /\ IsFiniteSet(OldMails) /\ Cardinality(OldMails) + MaxRequests <= 9

VARIABLES
  cpc,       \* the client: "off", "welcome", "menu", "wait" or "gone"
  request,   \* its last request
  user,      \* userManager_: [name, loggedIn]
  resp,      \* response_parser_
  out,       \* what of the request it has yet to send
  c2s, s2c,  \* what is on its way to the server and to the client
  spc,       \* the server's thread: "off", "start", "serving", "closed", or "dead"
             \* with the process
  parser,    \* its request parser
  loggedIn,  \* isLoggedIn_ of its login manager
  box,       \* mails in mailboxes: pairs <<user, mail>>, copies not told apart
  asks,      \* requests sent so far
  sent,      \* history: mails of the SEND requests so far
  served,    \* history: the request last handed to a handler, and which it was
  handed,    \* history: the mail last handed out by READ
  shown      \* history: the response last shown

client == <<cpc, request, user, resp, out, asks, sent, shown>>
server == <<spc, parser, loggedIn, box, served, handed>>
vars   == <<client, server, c2s, s2c>>

LoggedOut   == [name |-> <<>>, loggedIn |-> FALSE]
NewResponse == [state |-> "new", total |-> 0, data |-> <<>>, parser |-> NewParser]

Init ==
  /\ cpc = "off" /\ request = Nothing /\ resp = NewResponse
  /\ user = LoggedOut
  /\ out = <<>> /\ c2s = <<>> /\ s2c = <<>>
  /\ spc = "off" /\ parser = NewParser /\ loggedIn = FALSE
  /\ box = {<<Name, m>> : m \in OldMails}
  /\ asks = 0 /\ sent = {} /\ served = [nth |-> 0, msg |-> Nothing] /\ handed = Nothing /\ shown = Nothing

-----------------------------------------------------------------------------
(* The end of the client: it was ended, the server's end of the connection is
   closed, or a response threw what nobody catches. *)
Leave ==
  /\ cpc' = "gone" /\ out' = <<>> /\ s2c' = <<>>
  /\ UNCHANGED <<request, user, resp, asks, sent, shown>>

(* connectToServer and testConnection: once connected the client waits for a
   byte, which it does not look at. *)
Connect ==
  /\ cpc = "off" /\ cpc' = "welcome" /\ spc' = "start"
  /\ UNCHANGED <<request, user, resp, out, asks, sent, shown, parser, loggedIn, box, served,
                 handed, c2s, s2c>>

Refused == cpc = "off" /\ Leave /\ UNCHANGED <<server, c2s>>

Greeting_Line == Text(<<<<"1">>>>)       \* mutant: the welcome is a line
Greeting == <<"1">>

Welcomed ==
  /\ cpc = "welcome" /\ s2c # <<>>
  /\ s2c' = Tail(s2c) /\ cpc' = "menu"
  /\ UNCHANGED <<request, user, resp, out, asks, sent, shown, server, c2s>>

(* The client's menus and the sending of a request, in as many pieces as the
   socket takes. *)

LoginMenu == [type : {"LOGIN"}, user : {Name}, password : {<<"right">>, <<"wrong">>}]
MainMenu  == Drafts \cup [type : {"LIST"}, user : {Name}]
             \cup [type : {"READ", "DEL"}, user : {Name}, index : {2}]
Quit      == [type |-> "QUIT"]

Choose ==
  /\ cpc = "menu" /\ asks < MaxRequests
  /\ \E m \in (IF user.loggedIn THEN MainMenu ELSE LoginMenu) \cup {Quit} :
       /\ request' = m /\ out' = Deflate(m)
       /\ user' = IF m.type = "LOGIN" THEN [user EXCEPT !.name = m.user] ELSE user
       /\ sent' = IF m.type = "SEND" THEN sent \cup {m} ELSE sent
  /\ cpc' = "wait" /\ asks' = asks + 1
  /\ UNCHANGED <<resp, shown, server, c2s, s2c>>

Transmit ==
  /\ out # <<>> /\ spc = "serving"
  /\ \E n \in 1..Len(out) : /\ c2s' = c2s \o SubSeq(out, 1, n)
                            /\ out' = SubSeq(out, n + 1, Len(out))
  /\ UNCHANGED <<cpc, request, user, resp, asks, sent, shown, server, s2c>>

Die == MayDie /\ cpc # "gone" /\ Leave /\ UNCHANGED <<server, c2s>>

-----------------------------------------------------------------------------
(* What a reading loop can take off the wire: a line, as much of a longer one as the
   buffer holds, or the bytes awaited.  At the end of the connection it takes the
   rest for a line; missing bytes of an attachment are not noticed, and the buffer
   keeps what it held. *)
LineEnd(w) == SelectInSeq(w, LAMBDA x : x = NL)

Take(w, n) == [data |-> Chop(SubSeq(w, 1, n)), rest |-> SubSeq(w, n + 1, Len(w))]

Whole(w, awaiting) ==
  {n \in 1..Len(w) : IF awaiting > 0 THEN n = awaiting ELSE n = LineEnd(w) /\ n < MaxLen}

Filled(w, awaiting) ==
  awaiting = 0 /\ Len(w) >= MaxLen - 1 /\ LineEnd(w) \notin 1..(MaxLen - 1)

Piece(w) == [data |-> Chop(Append(SubSeq(w, 1, MaxLen - 1), "NUL")),
             rest |-> SubSeq(w, MaxLen, Len(w))]

CutOff(w, awaiting) ==
  IF awaiting > 0 THEN {w \o b : b \in [1..(awaiting - Len(w)) -> Stale]}
  ELSE {Append(l, "NUL") : l \in Cuts(w) \ {<<>>}}

Readings(w, awaiting, ended) ==
  IF Whole(w, awaiting) # {} THEN {Take(w, n) : n \in Whole(w, awaiting)}
  ELSE IF Filled(w, awaiting) THEN {Piece(w)}
  ELSE IF ended THEN {Take(b, Len(b)) : b \in CutOff(w, awaiting)}
  ELSE {}

-----------------------------------------------------------------------------
(* ResponseParser: what it becomes with a line, and what it tells the client. *)

Tell(r, what)  == [resp |-> [r EXCEPT !.state = "new"], got |-> what]
Await(r)       == [resp |-> r, got |-> Nothing]
Ok             == [type |-> "ok"]
Err            == [type |-> "err"]
List(titles)   == [type |-> "list", titles |-> titles]
Read(m)        == [type |-> "read", mail |-> m]

Begin(r, line, type) ==
  LET cleared == [r EXCEPT !.data = <<>>]
      counted == [cleared EXCEPT !.data = <<line>>, !.total = Value(line), !.state = "parsing"]
  IN  IF type = "LIST"
      THEN IF ~IsNumber(line) THEN Tell([cleared EXCEPT !.data = <<line>>], Err)
           ELSE IF line = Number(0) THEN Tell(counted, List(<<>>)) ELSE Await(counted)
      ELSE IF line # <<"OK">> THEN Tell(cleared, Err)
      ELSE IF type = "READ" THEN Await([cleared EXCEPT !.state = "parsing"]) ELSE Tell(cleared, Ok)

NextTitle(r, line) ==
  LET next == [r EXCEPT !.data = Append(@, line), !.total = @ - 1]
  IN  IF next.total = 0 THEN Tell(next, List(Tail(next.data))) ELSE Await(next)

NextOfMail(r, line) ==
  With(Digest(r.parser, line), LAMBDA d :
    LET next == [r EXCEPT !.parser = d.parser]
    IN  IF d.got.type \in {"malformed", "endless"} THEN [resp |-> next, got |-> d.got]
        ELSE IF d.got.type = "SEND" THEN Tell(next, Read(d.got))
        ELSE IF d.parser.state = "new" THEN Tell(next, Err) ELSE Await(next))

DigestResponse(r, line, type) ==
  IF r.state = "new" THEN Begin(r, line, type)
  ELSE IF type = "LIST" THEN NextTitle(r, line) ELSE NextOfMail(r, line)

(* didReceiveResponse: the first OK after the start of a login makes it one. *)
LoginDone_Any(u, r) == u.name # <<>>      \* mutant: any response will do
LoginDone(u, r) == u.name # <<>> /\ r.type = "ok"

Known(u, r) ==
  IF u.loggedIn THEN u
  ELSE IF LoginDone(u, r) THEN [u EXCEPT !.loggedIn = TRUE]
  ELSE IF u.name # <<>> /\ r.type = "err" THEN LoggedOut ELSE u

Hear ==
  /\ cpc = "wait" /\ out = <<>>
  /\ \E r \in Readings(s2c, resp.parser.awaiting, spc # "serving") :
       \E d \in {DigestResponse(resp, r.data, request.type)} :
           IF d.got.type \in {"malformed", "endless"}
           THEN Leave
           ELSE /\ s2c' = r.rest /\ resp' = d.resp
                /\ user' = Known(user, d.got)
                /\ shown' = IF d.got = Nothing THEN shown ELSE d.got
                /\ cpc' = IF d.got = Nothing THEN "wait"
                          ELSE IF request.type = "QUIT" THEN "gone" ELSE "menu"
                /\ UNCHANGED <<request, out, asks, sent>>
  /\ UNCHANGED <<server, c2s>>

(* The server's end is closed: the read, or the send, fails.  Before the welcome
   the client takes its address to be blocked. *)
Lost ==
  /\ cpc \in {"welcome", "wait"} /\ spc \in {"closed", "dead"}
  /\ s2c = <<>> /\ resp.parser.awaiting = 0
  /\ Leave
  /\ UNCHANGED <<server, c2s>>

-----------------------------------------------------------------------------
(* The server. *)

(* sendMsg: to a client that is gone it may raise SIGPIPE, which nobody handles. *)
Reply(lines) ==
  \/ s2c' = (IF cpc = "gone" THEN <<>> ELSE s2c \o lines) /\ UNCHANGED spc
  \/ cpc = "gone" /\ spc' = "dead" /\ UNCHANGED s2c

Answer(a) == Reply(Text(<<<<a>>>>))

(* clientConnected: a locked address is turned away without a byte. *)
Greet ==
  /\ spc = "start"
  /\ \/ /\ spc' = "serving"
        /\ s2c' = IF cpc = "gone" THEN <<>> ELSE Greeting
     \/ cpc = "gone" /\ spc' = "dead" /\ UNCHANGED s2c
     \/ spc' = "closed" /\ UNCHANGED s2c
  /\ UNCHANGED <<client, parser, loggedIn, box, served, handed, c2s>>

HandleSend_Early(m) ==                   \* mutant: OK without the last receiver
  /\ \E n \in 0..Len(m.receivers) :
       /\ box' = box \cup {<<m.receivers[i], m>> : i \in 1..n}
       /\ Answer(IF n + 1 >= Len(m.receivers) THEN "OK" ELSE "ERR")
  /\ UNCHANGED <<loggedIn, handed>>

(* persistSendMessage serves the receivers in turn, up to one that fails. *)
HandleSend(m) ==
  /\ \E n \in 0..Len(m.receivers) :
       /\ box' = box \cup {<<m.receivers[i], m>> : i \in 1..n}
       /\ Answer(IF n = Len(m.receivers) THEN "OK" ELSE "ERR")
  /\ UNCHANGED <<loggedIn, handed>>

(* A list that fails is answered as an empty one. *)
HandleList(m) ==
  /\ \E mine \in {{b \in box : b[1] = m.user}, {}} :
       LET order == SetToSeq(mine)
       IN  Reply(Text(<<Number(Len(order))>>
                      \o [i \in DOMAIN order |-> order[i][2].title]))
  /\ UNCHANGED <<loggedIn, box, handed>>

HandleRead(m) ==
  /\ \/ \E b \in box : /\ b[1] = m.user /\ handed' = b[2]
                       /\ Reply(Text(<<<<"OK">>>>) \o Deflate(b[2]))
     \/ Answer("ERR") /\ UNCHANGED handed
  /\ UNCHANGED <<loggedIn, box>>

HandleDel(m) ==
  /\ \/ \E b \in box : /\ b[1] = m.user /\ box' \in {box, box \ {b}}
                       /\ Answer("OK")
     \/ Answer("ERR") /\ UNCHANGED box
  /\ UNCHANGED <<loggedIn, handed>>

(* A login fails for a wrong password, for a directory that does not answer, or
   because the address is locked: then the socket is closed. *)
HandleLogin(m) ==
  /\ \/ m.password = <<"right">> /\ loggedIn' = TRUE /\ Answer("OK")
     \/ loggedIn' \in {loggedIn, FALSE} /\ Answer("ERR")
     \/ loggedIn' \in {loggedIn, FALSE} /\ spc' = "closed" /\ UNCHANGED s2c
  /\ UNCHANGED <<box, handed>>

HandleQuit == spc' = "closed" /\ UNCHANGED <<s2c, loggedIn, box, handed>>

Allowed(m) == loggedIn \/ m.type \in {"LOGIN", "QUIT"}

(* The ERR to a request before the login is sent to descriptor 1, which is no socket:
   nobody catches the exception. *)
TooEarly == spc' = "dead" /\ UNCHANGED <<s2c, loggedIn, box, handed>>

MessageReceived(m) ==
  /\ served' = [nth |-> served.nth + 1, msg |-> m]
  /\ \/ ~Allowed(m) /\ TooEarly
     \/ Allowed(m) /\ m.type = "SEND" /\ HandleSend(m)
     \/ Allowed(m) /\ m.type = "LIST" /\ HandleList(m)
     \/ Allowed(m) /\ m.type = "READ" /\ HandleRead(m)
     \/ Allowed(m) /\ m.type = "DEL" /\ HandleDel(m)
     \/ m.type = "LOGIN" /\ HandleLogin(m)
     \/ m.type = "QUIT" /\ HandleQuit

(* clientReceivedData: a ConversionException is answered; an inflate that does
   not end takes the process with it. *)
Receive ==
  /\ spc = "serving"
  /\ \E r \in Readings(c2s, parser.awaiting, cpc = "gone") :
       \E d \in {Digest(parser, r.data)} :
           /\ c2s' = r.rest /\ parser' = d.parser
           /\ \/ /\ d.got.type \in Types /\ MessageReceived(d.got)
              \/ /\ d.got.type = "nothing" /\ UNCHANGED <<spc, s2c>>
                 /\ UNCHANGED <<loggedIn, box, served, handed>>
              \/ /\ d.got.type = "malformed" /\ Answer("ERR")
                 /\ UNCHANGED <<loggedIn, box, served, handed>>
              \/ /\ d.got.type = "endless" /\ spc' = "dead" /\ UNCHANGED s2c
                 /\ UNCHANGED <<loggedIn, box, served, handed>>
  /\ UNCHANGED client

(* The client's end is closed and nothing is left to read. *)
Disconnected ==
  /\ spc = "serving" /\ cpc = "gone" /\ c2s = <<>> /\ parser.awaiting = 0
  /\ spc' = "closed"
  /\ UNCHANGED <<client, parser, loggedIn, box, served, handed, c2s, s2c>>

(* A connection reset by the client's end drops what the server has not read. *)
Reset ==
  /\ cpc = "gone" /\ c2s # <<>> /\ c2s' = <<>>
  /\ UNCHANGED <<client, server, s2c>>

Next == \/ Connect \/ Refused \/ Greet \/ Welcomed \/ Choose \/ Transmit \/ Die \/ Hear \/ Lost
        \/ Receive \/ Disconnected \/ Reset

Spec == Init /\ [][Next]_vars

(* Both programs run and the network delivers; the user need not choose. *)
FairSpec == Spec /\ WF_vars(Greet) /\ WF_vars(Welcomed) /\ WF_vars(Transmit) /\ WF_vars(Hear)
                 /\ WF_vars(Lost) /\ WF_vars(Receive) /\ WF_vars(Disconnected)

-----------------------------------------------------------------------------
(* Bytes are awaited only inside the attachments of a mail, and never more than
   its text announced; data is collected unless a message is expected. *)
ParserOK(p) ==
  /\ p.state \in {"new", "parsing", "attachments"}
  /\ p.type \in Types \cup {"none"} /\ p.total \in Int
  /\ p.awaiting \in 0..9
  /\ p.awaiting > 0 => p.state = "attachments"
  /\ p.state # "new" => p.data # <<>>

TypeOK ==
  /\ cpc \in {"off", "welcome", "menu", "wait", "gone"}
  /\ spc \in {"off", "start", "serving", "closed", "dead"}
  /\ ParserOK(parser) /\ ParserOK(resp.parser)
  /\ resp.state \in {"new", "parsing"} /\ resp.total \in Nat
  /\ user.loggedIn \in BOOLEAN /\ loggedIn \in BOOLEAN
  /\ asks \in 0..MaxRequests /\ sent \subseteq Drafts

AllPlain == \A m \in sent \cup OldMails : Plain(m)

(* Whenever the client is back at its menu after plain mails, both ends have
   finished with the request: nothing is on its way, and no parser holds data. *)
InStep ==
  AllPlain /\ cpc = "menu" /\ spc = "serving" =>
    /\ c2s = <<>> /\ s2c = <<>>
    /\ parser.state = "new" /\ parser.data = <<>>
    /\ resp.state = "new" /\ resp.parser.state = "new" /\ resp.parser.data = <<>>

(* The parser's line counting and chopping hand each request to the handler once
   and as the client sent it, but for the last byte of an attachment, which becomes a NL.
   When the client ended inside the request, the last line may be cut short, also
   where it is the size of an attachment, and the bytes of one may be others. *)
Same(d, e) ==
  /\ d.filename = e.filename /\ Len(d.data) <= Len(e.data)
  /\ cpc = "gone" \/ d.data = [e.data EXCEPT ![Len(e.data)] = NL]

CutLine(l, k) == \E c \in 0..Len(k) : l \in Cuts(SubSeq(k, 1, c))

CutShort(m, n) ==
  \/ n.type = "LIST" /\ m = [n EXCEPT !.user = m.user] /\ CutLine(m.user, n.user)
  \/ n.type = "LOGIN" /\ m = [n EXCEPT !.password = m.password] /\ CutLine(m.password, n.password)
  \/ n.type \in {"READ", "DEL"} /\ m = [n EXCEPT !.index = m.index] /\ m.index <= n.index

SameRequest(m, n) ==
  IF n.type # "SEND" THEN m = n \/ (cpc = "gone" /\ CutShort(m, n))
  ELSE /\ m = [n EXCEPT !.attachments = m.attachments]
       /\ Len(m.attachments) = Len(n.attachments)
       /\ \A i \in DOMAIN m.attachments : Same(m.attachments[i], n.attachments[i])

ServedAsSent ==
  [][AllPlain /\ served' # served =>
       served'.nth <= asks /\ SameRequest(served'.msg, request)]_vars

(* A mail enters a mailbox only while the client waits for the answer to that
   SEND, or is gone: no later request delivers what an earlier one left. *)
DeliveredWhenAsked ==
  [][AllPlain => \A b \in box' \ box : request.type = "SEND" /\ cpc \in {"wait", "gone"}
                                       /\ b[2].title = request.title]_vars

(* The mail a READ shows is the mail the server handed out, through a second
   round of conversion. *)
ReadAsStored ==
  AllPlain /\ cpc = "menu" /\ shown.type = "read" => SameRequest(shown.mail, handed)

(* Only a mail that is not plain, or a client that went away, ends the server. *)
PlainMailsAreSafe == AllPlain /\ cpc # "gone" => spc # "dead"

(* A client that takes itself for logged in is, after plain mails: of others the
   server may take a line for a request. *)
LoginAgrees == AllPlain /\ user.loggedIn /\ spc = "serving" => loggedIn

(* A client that waits, for the welcome or a response, gets it, or loses the
   connection: the two ends never both wait. *)
Answered == (AllPlain /\ cpc \in {"welcome", "wait"}) ~> cpc \in {"menu", "gone"}

(* The user's requests are calls of the server's operations: where the client is and
   which request was served last say how far a call has come. *)
Turn == IF ~AllPlain THEN "void"
        ELSE IF cpc = "gone" THEN IF served.nth < asks THEN "left" ELSE "over"
        ELSE IF cpc # "wait" THEN "idle"
        ELSE IF served.nth < asks THEN "asked" ELSE "served"

Offers == LoginMenu \cup MainMenu \cup {Quit}

Service == INSTANCE Exchange
             WITH turn <- Turn, mails <- box, trusted <- loggedIn, Requests <- Offers,
                  Sendable <- {m \in Offers : m.type = "SEND" => Plain(m)}, Password <- <<"right">>

(* Over the wire, in whatever pieces its texts come, a request is carried out at most
   once and as it was made, and the response shown is true of the mailboxes. *)
ServiceSpec == Service!Spec

-----------------------------------------------------------------------------
(* "clear message data, get ready for a new run" (MessageParser.cpp): a parser
   that ends a message and expects a new one holds nothing of the old one. *)
ReadyForNewRun == [][parser'.state = "new" => parser'.data = <<>>]_parser
=============================================================================
