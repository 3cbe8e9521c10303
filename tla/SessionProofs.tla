---------------------------- MODULE SessionProofs ----------------------------
(* Proofs about Session: what both parsers and the connection's two ends hold,
   for any user, any mails and any number of requests. *)
EXTENDS Session, CodecProofs, FiniteSetTheorems, FunctionTheorems

-----------------------------------------------------------------------------
(* The request parser. *)

IsData(d) == d \in Seq(ToSet(d))

(* What its parts may be: the number of lines to come tells whether bytes are
   awaited. *)
Fits(s, t, n, a, d) ==
  /\ s \in {"new", "parsing", "attachments"} /\ t \in Types \cup {"none"}
  /\ n \in Int /\ a \in 0..9 /\ IsData(d)
  /\ s # "new" => d # <<>>
  /\ s = "parsing" => t \in Types \ {"QUIT"}
  /\ a > 0 => s = "attachments" /\ n > 0 /\ n % 3 = 1

IsParser(p) == \E s, t, n, a, d : p = Parser(s, t, n, a, d) /\ Fits(s, t, n, a, d)

LEMMA ParserIsOK == ASSUME NEW p, IsParser(p) PROVE ParserOK(p)
<1>1. PICK s, t, n, a, d : p = Parser(s, t, n, a, d) /\ Fits(s, t, n, a, d)
  BY DEF IsParser
<1>2. p.state = s /\ p.type = t /\ p.total = n /\ p.awaiting = a /\ p.data = d
  BY <1>1 DEF Parser
<1>. QED BY <1>1, <1>2 DEF ParserOK, Fits

LEMMA AppendData ==
  ASSUME NEW d, IsData(d), NEW line
  PROVE  IsData(Append(d, line)) /\ Append(d, line) # <<>>
<1> DEFINE S == ToSet(d) \cup {line}
           e == Append(d, line)
<1>1. d \in Seq(S) /\ line \in S
  BY SeqMonotonic DEF IsData
<1>2. e \in Seq(S) /\ e # <<>>
  BY <1>1, AppendProperties
<1> HIDE DEF e
<1>3. Len(e) \in Nat /\ DOMAIN e = 1..Len(e) /\ e \in [1..Len(e) -> S]
  BY <1>2, LenProperties
<1>4. e \in [1..Len(e) -> ToSet(e)]
  BY <1>3 DEF ToSet
<1>5. e = [i \in 1..Len(e) |-> e[i]] /\ \A i \in 1..Len(e) : e[i] \in ToSet(e)
  BY <1>4
<1>6. e \in Seq(ToSet(e))
  BY <1>3, <1>5, IsASeq
<1>. QED BY <1>2, <1>6 DEF IsData, e

LEMMA FinishKeeps ==
  ASSUME NEW t, NEW n, NEW d, Fits("new", t, n, 0, d)
  PROVE  IsParser(Finish(Parser("new", t, n, 0, d)).parser)
<1>1. PICK p : p = Parser("new", t, n, 0, d)
  OBVIOUS
<1>2. PICK m : m = Inflate(p.data)
  OBVIOUS
<1>3. PICK e : e = IF Clean(m) THEN <<>> ELSE d
  OBVIOUS
<1>4. Finish(p).parser = [p EXCEPT !.data = IF Clean(m) THEN <<>> ELSE @]
  BY <1>2, FinishIs
<1>5. [p EXCEPT !.data = IF Clean(m) THEN <<>> ELSE @] = Parser("new", t, n, 0, e)
  BY <1>1, <1>3 DEF Parser
<1>6. IsData(<<>>)
  BY EmptySeq DEF IsData
<1>7. Fits("new", t, n, 0, e)
  BY <1>3, <1>6 DEF Fits
<1>. QED BY <1>1, <1>4, <1>5, <1>7 DEF IsParser

LEMMA DigestKeeps ==
  ASSUME NEW p, IsParser(p), NEW line
  PROVE  IsParser(Digest(p, line).parser)
<1>1. PICK s, t, n, a, d : p = Parser(s, t, n, a, d) /\ Fits(s, t, n, a, d)
  BY DEF IsParser
<1>2. PICK e : e = Append(d, line)
  OBVIOUS
<1>3. /\ s \in {"new", "parsing", "attachments"} /\ t \in Types \cup {"none"}
      /\ n \in Int /\ n - 1 \in Int /\ a \in 0..9 /\ IsData(d) /\ IsData(e) /\ e # <<>>
      /\ a > 0 => s = "attachments" /\ n > 0 /\ n % 3 = 1
  BY <1>1, <1>2, AppendData DEF Fits
<1>4. p.state = s /\ p.type = t /\ p.total = n /\ p.awaiting = a /\ p.data = d
  BY <1>1 DEF Parser
<1>5. CASE s = "new"
  <2>1. PICK u : u = IF \E x \in Types : line = <<x>> THEN line[1] ELSE "none"
    OBVIOUS
  <2>2. u \in Types \cup {"none"}
    BY <2>1 DEF Types
  <2>3. a = 0 /\ Digest(p, line) = DigestNew(p, line)
    BY <1>3, <1>4, <1>5 DEF Digest
  <2>4. [p EXCEPT !.type = u, !.data = Append(@, line)] = Parser("new", u, n, 0, e)
    <3>1. p = Parser("new", t, n, 0, d)
      BY <1>1, <1>5, <2>3
    <3>2. [p EXCEPT !.type = u] = Parser("new", u, n, 0, d)
      BY <3>1 DEF Parser
    <3>3. [[p EXCEPT !.type = u] EXCEPT !.data = e] = Parser("new", u, n, 0, e)
      <4>1. PICK q : q = [p EXCEPT !.type = u]
        OBVIOUS
      <4>2. q = Parser("new", u, n, 0, d)
        BY <3>2, <4>1
      <4>3. [q EXCEPT !.data = e] = Parser("new", u, n, 0, e)
        BY <4>2 DEF Parser
      <4>. QED BY <4>1, <4>3
    <3>4. [p EXCEPT !.type = u, !.data = e] = [[p EXCEPT !.type = u] EXCEPT !.data = e]
      OBVIOUS
    <3>. QED BY <1>2, <1>4, <3>3, <3>4
  <2>5. CASE u = "none"
    <3>1. Digest(p, line).parser = [p EXCEPT !.type = u]
      BY <2>1, <2>3, <2>5 DEF DigestNew, Continue
    <3>2. [p EXCEPT !.type = u] = Parser("new", u, n, 0, d)
      BY <1>1, <1>5, <2>3 DEF Parser
    <3>3. Fits("new", u, n, 0, d)
      BY <1>3, <2>2 DEF Fits
    <3>. QED BY <3>1, <3>2, <3>3 DEF IsParser
  <2>6. CASE u = "QUIT"
    <3>1. Digest(p, line) = Finish([p EXCEPT !.type = u, !.data = Append(@, line)])
      BY <2>1, <2>3, <2>6 DEF DigestNew
    <3>2. Fits("new", u, n, 0, e)
      BY <1>3, <2>2 DEF Fits
    <3>. QED BY <2>4, <3>1, <3>2, FinishKeeps
  <2>7. CASE u \in Types \ {"QUIT"}
    <3>1. u # "none" /\ u # "QUIT" /\ TotalLines(u) \in Int
      BY <2>7 DEF Types, TotalLines
    <3>2. Digest(p, line).parser
            = [[p EXCEPT !.type = u, !.data = Append(@, line)] EXCEPT !.state = "parsing",
                                                                      !.total = TotalLines(u)]
      BY <2>1, <2>3, <3>1 DEF DigestNew, Continue
    <3>3. Digest(p, line).parser = Parser("parsing", u, TotalLines(u), 0, e)
      BY <2>4, <3>2 DEF Parser
    <3>4. Fits("parsing", u, TotalLines(u), 0, e)
      BY <1>3, <2>2, <2>7, <3>1 DEF Fits
    <3>. QED BY <3>3, <3>4 DEF IsParser
  <2>. QED BY <2>2, <2>5, <2>6, <2>7
<1>6. CASE s = "parsing"
  <2>1. a = 0 /\ t \in Types \ {"QUIT"} /\ Digest(p, line) = DigestParsing(p, line)
    BY <1>1, <1>3, <1>4, <1>6 DEF Digest, Fits
  <2>2. PICK next : next = [p EXCEPT !.data = Append(@, line), !.total = @ - 1]
    OBVIOUS
  <2>3. next = Parser("parsing", t, n - 1, 0, e) /\ next.total = n - 1
    BY <1>1, <1>2, <1>6, <2>1, <2>2 DEF Parser
  <2>4. CASE t = "SEND"
    <3>1. PICK u : u = IF next.total < 0 /\ line = Dot THEN "attachments" ELSE "parsing"
      OBVIOUS
    <3>2. Digest(p, line).parser
            = [next EXCEPT !.state = IF next.total < 0 /\ line = Dot THEN "attachments" ELSE @]
      BY <1>4, <2>1, <2>2, <2>4 DEF DigestParsing, Continue
    <3>3. Digest(p, line).parser = Parser(u, t, n - 1, 0, e)
      BY <2>3, <3>1, <3>2 DEF Parser
    <3>4. Fits(u, t, n - 1, 0, e)
      BY <1>3, <2>1, <3>1 DEF Fits
    <3>. QED BY <3>3, <3>4 DEF IsParser
  <2>5. CASE t # "SEND" /\ n - 1 = 0
    <3>1. Digest(p, line) = Finish([next EXCEPT !.state = "new"])
      BY <1>4, <2>1, <2>2, <2>3, <2>5 DEF DigestParsing
    <3>2. [next EXCEPT !.state = "new"] = Parser("new", t, n - 1, 0, e)
      BY <2>3 DEF Parser
    <3>3. Fits("new", t, n - 1, 0, e)
      BY <1>3 DEF Fits
    <3>. QED BY <3>1, <3>2, <3>3, FinishKeeps
  <2>6. CASE t # "SEND" /\ n - 1 # 0
    <3>1. Digest(p, line).parser = next
      BY <1>4, <2>1, <2>2, <2>3, <2>6 DEF DigestParsing, Continue
    <3>2. Fits("parsing", t, n - 1, 0, e)
      BY <1>3, <2>1 DEF Fits
    <3>. QED BY <2>3, <3>1, <3>2 DEF IsParser
  <2>. QED BY <2>4, <2>5, <2>6
<1>7. CASE s = "attachments"
  <2>1. PICK next : next = [p EXCEPT !.data = Append(@, line), !.total = @ - 1]
    OBVIOUS
  <2>2. next = Parser("attachments", t, n - 1, a, e) /\ next.total = n - 1
    BY <1>1, <1>2, <1>7, <2>1 DEF Parser
  <2> DEFINE count == next.total < 0
             size  == next.total >= 0 /\ next.total % 3 = 1
             bytes == next.total >= 0 /\ next.total % 3 = 0
  <2>3. PICK read : read = IF (count \/ size) /\ ~IsNumber(line) THEN [next EXCEPT !.state = "new"]
                           ELSE IF count THEN [next EXCEPT !.total = Value(line) * 3]
                           ELSE IF size THEN [next EXCEPT !.awaiting = Value(line)]
                           ELSE IF bytes THEN BytesRead(next)
                           ELSE next
    OBVIOUS
  <2>4. Digest(p, line) = IF read.total = 0 \/ read.state = "new"
                          THEN Finish([read EXCEPT !.state = "new"]) ELSE Continue(read)
    BY <1>4, <1>7, <2>1, <2>3 DEF Digest, DigestAttachments
  <2>5. IsNumber(line) => Value(line) \in 0..9
    BY DEF IsNumber, Value
  <2>6. a > 0 => bytes
    BY <1>3, <2>2
  <2>7. \E u, i, b : /\ read = Parser(u, t, i, b, e) /\ u \in {"new", "attachments"}
                     /\ i \in Int /\ b \in 0..9 /\ (b > 0 => u = "attachments" /\ i > 0 /\ i % 3 = 1)
    <3>1. CASE (count \/ size) /\ ~IsNumber(line)
      <4>1. a = 0
        BY <1>3, <2>2, <2>6, <3>1
      <4>2. read = Parser("new", t, n - 1, 0, e)
        BY <2>2, <2>3, <3>1, <4>1 DEF Parser
      <4>. QED BY <1>3, <4>2
    <3>2. CASE count /\ IsNumber(line)
      <4>1. a = 0 /\ Value(line) * 3 \in Int
        BY <1>3, <2>2, <2>5, <2>6, <3>2
      <4>2. read = Parser("attachments", t, Value(line) * 3, 0, e)
        BY <2>2, <2>3, <3>2, <4>1 DEF Parser
      <4>. QED BY <4>1, <4>2
    <3>3. CASE ~count /\ size /\ IsNumber(line)
      <4>1. read = Parser("attachments", t, n - 1, Value(line), e)
        BY <2>2, <2>3, <3>3 DEF Parser
      <4>2. n - 1 > 0 /\ (n - 1) % 3 = 1
        BY <1>3, <2>2, <3>3
      <4>. QED BY <1>3, <2>5, <3>3, <4>1, <4>2
    <3>4. CASE ~count /\ ~size /\ bytes
      <4>1. read = Parser("attachments", t, n - 1, 0, e)
        BY <2>2, <2>3, <3>4 DEF Parser, BytesRead
      <4>. QED BY <1>3, <4>1
    <3>5. CASE ~count /\ ~size /\ ~bytes
      <4>1. a = 0
        BY <1>3, <2>6, <3>5
      <4>2. read = Parser("attachments", t, n - 1, 0, e)
        BY <2>2, <2>3, <3>5, <4>1
      <4>. QED BY <1>3, <4>2
    <3>. QED BY <3>1, <3>2, <3>3, <3>4, <3>5
  <2>8. PICK u, i, b : /\ read = Parser(u, t, i, b, e) /\ u \in {"new", "attachments"}
                       /\ i \in Int /\ b \in 0..9 /\ (b > 0 => u = "attachments" /\ i > 0 /\ i % 3 = 1)
    BY <2>7
  <2>9. read.total = i /\ read.state = u
    BY <2>8 DEF Parser
  <2>10. CASE i = 0 \/ u = "new"
    <3>1. b = 0
      BY <2>8, <2>10
    <3>2. [read EXCEPT !.state = "new"] = Parser("new", t, i, 0, e)
      BY <2>8, <3>1 DEF Parser
    <3>3. Fits("new", t, i, 0, e)
      BY <1>3, <2>8 DEF Fits
    <3>. QED BY <2>4, <2>9, <2>10, <3>2, <3>3, FinishKeeps
  <2>11. CASE ~(i = 0 \/ u = "new")
    <3>1. Digest(p, line).parser = read
      BY <2>4, <2>9, <2>11 DEF Continue
    <3>2. Fits(u, t, i, b, e)
      BY <1>3, <2>8, <2>11 DEF Fits
    <3>. QED BY <2>8, <3>1, <3>2 DEF IsParser
  <2>. QED BY <2>10, <2>11
<1>. QED BY <1>3, <1>5, <1>6, <1>7

-----------------------------------------------------------------------------
(* The response parser. *)

Resp(s, n, d, q) == [state |-> s, total |-> n, data |-> d, parser |-> q]

(* A title is still to come while a list is read. *)
Pending(type, s, n) == s = "parsing" => type \in {"LIST", "READ"} /\ (type = "LIST" => n > 0)

IsResp(r, type) ==
  \E s, n, d, q : /\ r = Resp(s, n, d, q) /\ s \in {"new", "parsing"} /\ n \in Nat /\ IsParser(q)
                  /\ Pending(type, s, n)

(* What a step of the parser makes: with nothing to tell it goes on, with
   something it expects a new response. *)
Answers(x, type) ==
  \E s, n, d, q : /\ x.resp = Resp(s, n, d, q) /\ s \in {"new", "parsing"} /\ n \in Nat /\ IsParser(q)
                  /\ x.got = Nothing => s = "parsing" /\ Pending(type, s, n)
                  /\ \/ x.got = Nothing \/ x.got.type \in {"malformed", "endless"} \/ s = "new"

LEMMA TellAnswers ==
  ASSUME NEW s, NEW n \in Nat, NEW d, NEW q, IsParser(q), NEW what, NEW type,
         what # Nothing
  PROVE  Answers(Tell(Resp(s, n, d, q), what), type)
<1>1. [Resp(s, n, d, q) EXCEPT !.state = "new"] = Resp("new", n, d, q)
  BY DEF Resp
<1>. QED BY <1>1 DEF Tell, Answers

LEMMA AwaitAnswers ==
  ASSUME NEW n \in Nat, NEW d, NEW q, IsParser(q), NEW type, Pending(type, "parsing", n)
  PROVE  Answers(Await(Resp("parsing", n, d, q)), type)
BY DEF Await, Answers

LEMMA Told == Ok # Nothing /\ Err # Nothing /\ (\A t : List(t) # Nothing) /\ (\A m : Read(m) # Nothing)
<1>1. /\ Ok.type = "ok" /\ Err.type = "err" /\ Nothing.type = "nothing"
      /\ (\A t : List(t).type = "list") /\ (\A m : Read(m).type = "read")
  BY DEF Ok, Err, Nothing, List, Read
<1>2. \A t : List(t) # Nothing
  BY <1>1
<1>3. \A m : Read(m) # Nothing
  BY <1>1
<1>. QED BY <1>1, <1>2, <1>3

LEMMA NumberValue ==
  ASSUME NEW l, IsNumber(l)
  PROVE  Value(l) \in 0..9 /\ l = Number(Value(l))
BY DEF IsNumber, Value

(* What becomes of a response parser with the first line of a response. *)
Begun(s, n, q, line, type) ==
  IF type = "LIST"
  THEN IF ~IsNumber(line) THEN Tell(Resp(s, n, <<line>>, q), Err)
       ELSE IF line = Number(0) THEN Tell(Resp("parsing", Value(line), <<line>>, q), List(<<>>))
       ELSE Await(Resp("parsing", Value(line), <<line>>, q))
  ELSE IF line # <<"OK">> THEN Tell(Resp(s, n, <<>>, q), Err)
  ELSE IF type = "READ" THEN Await(Resp("parsing", n, <<>>, q)) ELSE Tell(Resp(s, n, <<>>, q), Ok)

LEMMA BeginIs ==
  ASSUME NEW s, NEW n, NEW d, NEW q, NEW line, NEW type
  PROVE  Begin(Resp(s, n, d, q), line, type) = Begun(s, n, q, line, type)
<1>1. PICK r : r = Resp(s, n, d, q)
  OBVIOUS
<1>2. [r EXCEPT !.data = <<>>] = Resp(s, n, <<>>, q)
  BY <1>1 DEF Resp
<1>3. PICK c : c = [r EXCEPT !.data = <<>>]
  OBVIOUS
<1>4. PICK e : e = [c EXCEPT !.data = <<line>>]
  OBVIOUS
<1>5. c = Resp(s, n, <<>>, q)
  BY <1>2, <1>3
<1>6. e = Resp(s, n, <<line>>, q)
  BY <1>4, <1>5 DEF Resp
<1>7. [c EXCEPT !.data = <<line>>, !.total = Value(line), !.state = "parsing"]
        = Resp("parsing", Value(line), <<line>>, q)
  <2>1. PICK f : f = [e EXCEPT !.total = Value(line)]
    OBVIOUS
  <2>2. f = Resp(s, Value(line), <<line>>, q)
    BY <1>6, <2>1 DEF Resp
  <2>3. [f EXCEPT !.state = "parsing"] = Resp("parsing", Value(line), <<line>>, q)
    BY <2>2 DEF Resp
  <2>4. [c EXCEPT !.data = <<line>>, !.total = Value(line), !.state = "parsing"]
          = [[[c EXCEPT !.data = <<line>>] EXCEPT !.total = Value(line)] EXCEPT !.state = "parsing"]
    OBVIOUS
  <2>. QED BY <1>4, <2>1, <2>3, <2>4
<1>8. [c EXCEPT !.state = "parsing"] = Resp("parsing", n, <<>>, q)
  BY <1>5 DEF Resp
<1>. QED BY <1>1, <1>3, <1>4, <1>5, <1>6, <1>7, <1>8 DEF Begin, Begun

LEMMA BeginAnswers ==
  ASSUME NEW s, NEW n \in Nat, NEW d, NEW q, IsParser(q), NEW line, NEW type
  PROVE  Answers(Begin(Resp(s, n, d, q), line, type), type)
<1>1. PICK b : b = Begun(s, n, q, line, type)
  OBVIOUS
<1>2. b = Begin(Resp(s, n, d, q), line, type)
  BY <1>1, BeginIs
<1>3. IsNumber(line) => Value(line) \in Nat /\ (line # Number(0) => Value(line) > 0)
  <2>1. IsNumber(line) => Value(line) \in 0..9 /\ line = Number(Value(line))
    BY NumberValue
  <2>. QED BY <2>1
<1>4. CASE type = "LIST" /\ ~IsNumber(line)
  <2>1. b = Tell(Resp(s, n, <<line>>, q), Err)
    BY <1>1, <1>4 DEF Begun
  <2>. QED BY <1>2, <2>1, Told, TellAnswers
<1>5. CASE type = "LIST" /\ IsNumber(line) /\ line = Number(0)
  <2>1. b = Tell(Resp("parsing", Value(line), <<line>>, q), List(<<>>))
    BY <1>1, <1>5 DEF Begun
  <2>. QED BY <1>2, <1>3, <1>5, <2>1, Told, TellAnswers
<1>6. CASE type = "LIST" /\ IsNumber(line) /\ line # Number(0)
  <2>1. b = Await(Resp("parsing", Value(line), <<line>>, q))
    BY <1>1, <1>6 DEF Begun
  <2>2. Pending(type, "parsing", Value(line))
    BY <1>3, <1>6 DEF Pending
  <2>. QED BY <1>2, <1>3, <1>6, <2>1, <2>2, AwaitAnswers
<1>7. CASE type = "READ" /\ line = <<"OK">>
  <2>1. b = Await(Resp("parsing", n, <<>>, q))
    BY <1>1, <1>7 DEF Begun
  <2>2. Pending(type, "parsing", n)
    BY <1>7 DEF Pending
  <2>. QED BY <1>2, <2>1, <2>2, AwaitAnswers
<1>8. CASE type # "LIST" /\ ~(type = "READ" /\ line = <<"OK">>)
  <2>1. b = Tell(Resp(s, n, <<>>, q), Err) \/ b = Tell(Resp(s, n, <<>>, q), Ok)
    BY <1>1, <1>8 DEF Begun
  <2>. QED BY <1>2, <2>1, Told, TellAnswers
<1>. QED BY <1>4, <1>5, <1>6, <1>7, <1>8

LEMMA NextTitleIs ==
  ASSUME NEW n \in Nat, NEW d, NEW q, NEW line
  PROVE  NextTitle(Resp("parsing", n, d, q), line)
           = IF n - 1 = 0
             THEN Tell(Resp("parsing", n - 1, Append(d, line), q), List(Tail(Append(d, line))))
             ELSE Await(Resp("parsing", n - 1, Append(d, line), q))
<1>1. PICK e, r : e = Append(d, line) /\ r = Resp("parsing", n, d, q)
  OBVIOUS
<1>2. [r EXCEPT !.data = Append(@, line), !.total = @ - 1] = Resp("parsing", n - 1, e, q)
  <2>1. PICK f : f = [r EXCEPT !.data = e]
    OBVIOUS
  <2>2. f = Resp("parsing", n, e, q)
    BY <1>1, <2>1 DEF Resp
  <2>3. [f EXCEPT !.total = n - 1] = Resp("parsing", n - 1, e, q)
    BY <2>2 DEF Resp
  <2>4. r.data = d /\ r.total = n
    BY <1>1 DEF Resp
  <2>5. [r EXCEPT !.data = e, !.total = n - 1] = [[r EXCEPT !.data = e] EXCEPT !.total = n - 1]
    OBVIOUS
  <2>. QED BY <1>1, <2>1, <2>3, <2>4, <2>5
<1>3. Resp("parsing", n - 1, e, q).total = n - 1 /\ Resp("parsing", n - 1, e, q).data = e
  BY DEF Resp
<1>4. NextTitle(r, line) = IF n - 1 = 0 THEN Tell(Resp("parsing", n - 1, e, q), List(Tail(e)))
                          ELSE Await(Resp("parsing", n - 1, e, q))
  <2>1. PICK f : f = [r EXCEPT !.data = Append(@, line), !.total = @ - 1]
    OBVIOUS
  <2>2. f = Resp("parsing", n - 1, e, q) /\ f.total = n - 1 /\ f.data = e
    BY <1>2, <1>3, <2>1
  <2>3. NextTitle(r, line) = IF f.total = 0 THEN Tell(f, List(Tail(f.data))) ELSE Await(f)
    BY <2>1 DEF NextTitle
  <2>. QED BY <2>2, <2>3
<1>. QED BY <1>1, <1>4

LEMMA NextOfMailIs ==
  ASSUME NEW n, NEW d, NEW q, NEW line, NEW x, x = Digest(q, line)
  PROVE  /\ x.got.type \in {"malformed", "endless"} =>
              NextOfMail(Resp("parsing", n, d, q), line) = [resp |-> Resp("parsing", n, d, x.parser), got |-> x.got]
         /\ x.got.type = "SEND" =>
              NextOfMail(Resp("parsing", n, d, q), line) = Tell(Resp("parsing", n, d, x.parser), Read(x.got))
         /\ x.got.type \notin {"malformed", "endless", "SEND"} /\ x.parser.state = "new" =>
              NextOfMail(Resp("parsing", n, d, q), line) = Tell(Resp("parsing", n, d, x.parser), Err)
         /\ x.got.type \notin {"malformed", "endless", "SEND"} /\ x.parser.state # "new" =>
              NextOfMail(Resp("parsing", n, d, q), line) = Await(Resp("parsing", n, d, x.parser))
<1>1. PICK r, next : r = Resp("parsing", n, d, q) /\ next = [r EXCEPT !.parser = x.parser]
  OBVIOUS
<1>2. next = Resp("parsing", n, d, x.parser) /\ r.parser = q
  BY <1>1 DEF Resp
<1> DEFINE F(z) ==
      LET nx == [r EXCEPT !.parser = z.parser]
      IN  IF z.got.type \in {"malformed", "endless"} THEN [resp |-> nx, got |-> z.got]
          ELSE IF z.got.type = "SEND" THEN Tell(nx, Read(z.got))
          ELSE IF z.parser.state = "new" THEN Tell(nx, Err) ELSE Await(nx)
<1>3. NextOfMail(r, line) = CHOOSE y \in {F(z) : z \in {x}} : TRUE
  BY <1>2 DEF NextOfMail, With
<1>4. NextOfMail(r, line) = F(x)
  <2> HIDE DEF F
  <2>1. {F(z) : z \in {x}} = {F(x)}
    OBVIOUS
  <2>. QED BY <1>3, <2>1, TheOne
<1>5. F(x) = IF x.got.type \in {"malformed", "endless"} THEN [resp |-> next, got |-> x.got]
             ELSE IF x.got.type = "SEND" THEN Tell(next, Read(x.got))
             ELSE IF x.parser.state = "new" THEN Tell(next, Err) ELSE Await(next)
  BY <1>1
<1> HIDE DEF F
<1>. QED BY <1>1, <1>2, <1>4, <1>5

LEMMA ResponseAnswers ==
  ASSUME NEW r, NEW type, IsResp(r, type), NEW line
  PROVE  Answers(DigestResponse(r, line, type), type)
<1>1. PICK s, n, d, q : /\ r = Resp(s, n, d, q) /\ s \in {"new", "parsing"} /\ n \in Nat /\ IsParser(q)
                        /\ Pending(type, s, n)
  BY DEF IsResp
<1>2. r.state = s
  BY <1>1 DEF Resp
<1>3. CASE s = "new"
  <2>1. DigestResponse(r, line, type) = Begin(r, line, type)
    BY <1>2, <1>3 DEF DigestResponse
  <2>. QED BY <1>1, <2>1, BeginAnswers
<1>4. CASE s = "parsing" /\ type = "LIST"
  <2>1. DigestResponse(r, line, type) = NextTitle(r, line)
    BY <1>2, <1>4 DEF DigestResponse
  <2>2. n - 1 \in Nat
    BY <1>1, <1>4 DEF Pending
  <2>3. PICK e : e = Append(d, line)
    OBVIOUS
  <2>4. NextTitle(r, line) = IF n - 1 = 0 THEN Tell(Resp("parsing", n - 1, e, q), List(Tail(e)))
                             ELSE Await(Resp("parsing", n - 1, e, q))
    BY <1>1, <1>4, <2>3, NextTitleIs
  <2>5. CASE n - 1 = 0
    BY <1>1, <2>1, <2>2, <2>4, <2>5, Told, TellAnswers
  <2>6. CASE n - 1 # 0
    <3>1. n - 1 > 0
      BY <1>1, <2>2, <2>6
    <3>2. Pending(type, "parsing", n - 1)
      BY <1>4, <3>1 DEF Pending
    <3>. QED BY <1>1, <2>1, <2>2, <2>4, <2>6, <3>2, AwaitAnswers
  <2>. QED BY <2>5, <2>6
<1>5. CASE s = "parsing" /\ type = "READ"
  <2>1. DigestResponse(r, line, type) = NextOfMail(r, line)
    BY <1>2, <1>5 DEF DigestResponse
  <2>2. PICK x : x = Digest(q, line)
    OBVIOUS
  <2>3. IsParser(x.parser) /\ r = Resp("parsing", n, d, q)
    BY <1>1, <1>5, <2>2, DigestKeeps
  <2>4. CASE x.got.type \in {"malformed", "endless"}
    <3>1. PICK y : y = NextOfMail(r, line)
      OBVIOUS
    <3>2. y = [resp |-> Resp("parsing", n, d, x.parser), got |-> x.got]
      BY <2>2, <2>3, <2>4, <3>1, NextOfMailIs
    <3>3. y.got # Nothing /\ y.got.type \in {"malformed", "endless"}
      BY <2>4, <3>2 DEF Nothing
    <3>4. Answers(y, type)
      BY <1>1, <2>3, <3>2, <3>3 DEF Answers
    <3>. QED BY <2>1, <3>1, <3>4
  <2>5. CASE x.got.type = "SEND" \/ (x.got.type \notin {"malformed", "endless", "SEND"} /\ x.parser.state = "new")
    BY <1>1, <2>1, <2>2, <2>3, <2>5, NextOfMailIs, Told, TellAnswers
  <2>6. CASE x.got.type \notin {"malformed", "endless", "SEND"} /\ x.parser.state # "new"
    <3>1. Pending(type, "parsing", n)
      BY <1>5 DEF Pending
    <3>. QED BY <1>1, <2>1, <2>2, <2>3, <2>6, <3>1, NextOfMailIs, AwaitAnswers
  <2>. QED BY <2>4, <2>5, <2>6
<1>. QED BY <1>1, <1>3, <1>4, <1>5 DEF Pending

-----------------------------------------------------------------------------
(* The connection. *)

(* A client that has nothing to wait for expects a new response. *)
SessionInv ==
  /\ cpc \in {"off", "welcome", "menu", "wait", "gone"}
  /\ spc \in {"off", "start", "serving", "closed", "dead"}
  /\ IsParser(parser) /\ IsResp(resp, request.type)
  /\ cpc \in {"off", "welcome", "menu"} => resp.state = "new"
  /\ user \in [name : {<<>>, Name}, loggedIn : BOOLEAN] /\ loggedIn \in BOOLEAN
  /\ asks \in 0..MaxRequests /\ sent \subseteq Drafts

LEMMA InvTypes == SessionInv => TypeOK
<1> SUFFICES ASSUME SessionInv PROVE TypeOK
  OBVIOUS
<1>1. PICK s, n, d, q : resp = Resp(s, n, d, q) /\ s \in {"new", "parsing"} /\ n \in Nat /\ IsParser(q)
  BY DEF SessionInv, IsResp
<1>2. resp.state = s /\ resp.total = n /\ resp.parser = q
  BY <1>1 DEF Resp
<1>3. ParserOK(parser) /\ ParserOK(resp.parser)
  BY <1>1, <1>2, ParserIsOK DEF SessionInv
<1>. QED BY <1>1, <1>2, <1>3 DEF SessionInv, TypeOK

LEMMA NewParserFits == IsParser(NewParser)
<1>1. IsData(<<>>)
  BY EmptySeq DEF IsData
<1>2. Fits("new", "none", 0, 0, <<>>)
  BY <1>1 DEF Fits
<1>3. NewParser = Parser("new", "none", 0, 0, <<>>)
  BY DEF NewParser, Parser
<1>. QED BY <1>2, <1>3 DEF IsParser

LEMMA InitSession == Init => SessionInv
<1> SUFFICES ASSUME Init PROVE SessionInv
  OBVIOUS
<1>1. resp = Resp("new", 0, <<>>, NewParser) /\ resp.state = "new"
  BY DEF Init, NewResponse, Resp
<1>2. IsResp(resp, request.type)
  BY <1>1, NewParserFits DEF IsResp, Pending
<1>3. user \in [name : {<<>>, Name}, loggedIn : BOOLEAN]
  BY DEF Init, LoggedOut
<1>4. asks \in 0..MaxRequests
  BY SessionAssumption DEF Init
<1>. QED BY <1>1, <1>2, <1>3, <1>4, NewParserFits DEF Init, SessionInv

(* A new response is one for any request. *)
LEMMA NewForAll ==
  ASSUME NEW r, NEW t, NEW u, IsResp(r, t), r.state = "new"
  PROVE  IsResp(r, u)
<1>1. PICK s, n, d, q : r = Resp(s, n, d, q) /\ s \in {"new", "parsing"} /\ n \in Nat /\ IsParser(q)
  BY DEF IsResp
<1>2. s = "new"
  BY <1>1 DEF Resp
<1>. QED BY <1>1, <1>2 DEF IsResp, Pending

LEMMA LeaveKeeps ==
  ASSUME SessionInv, Leave, UNCHANGED server
  PROVE  SessionInv'
BY DEF SessionInv, Leave, server

LEMMA ChooseKeeps == ASSUME SessionInv, Choose PROVE SessionInv'
<1>1. PICK m \in (IF user.loggedIn THEN MainMenu ELSE LoginMenu) \cup {Quit} :
        /\ request' = m
        /\ user' = IF m.type = "LOGIN" THEN [user EXCEPT !.name = m.user] ELSE user
        /\ sent' = IF m.type = "SEND" THEN sent \cup {m} ELSE sent
  BY DEF Choose
<1>2. m.type = "SEND" => m \in Drafts
  BY DEF MainMenu, LoginMenu, Quit
<1>3. m.type = "LOGIN" => m.user = Name
  <2>1. \A d \in Drafts : d.type = "SEND"
    BY SessionAssumption DEF Writable, Mail
  <2>2. Quit.type = "QUIT"
    BY DEF Quit
  <2>. QED BY <2>1, <2>2 DEF MainMenu, LoginMenu
<1>4. user' \in [name : {<<>>, Name}, loggedIn : BOOLEAN]
  BY <1>1, <1>3 DEF SessionInv
<1>5. asks' \in 0..MaxRequests
  BY SessionAssumption DEF SessionInv, Choose
<1>6. IsResp(resp, request'.type)
  BY NewForAll DEF SessionInv, Choose
<1>. QED BY <1>1, <1>2, <1>4, <1>5, <1>6 DEF SessionInv, Choose, server

LEMMA HearKeeps == ASSUME SessionInv, Hear PROVE SessionInv'
<1>1. PICK r \in Readings(s2c, resp.parser.awaiting, spc # "serving") :
        \E d \in {DigestResponse(resp, r.data, request.type)} :
           IF d.got.type \in {"malformed", "endless"}
           THEN Leave
           ELSE /\ s2c' = r.rest /\ resp' = d.resp
                /\ user' = Known(user, d.got)
                /\ shown' = IF d.got = Nothing THEN shown ELSE d.got
                /\ cpc' = IF d.got = Nothing THEN "wait"
                          ELSE IF request.type = "QUIT" THEN "gone" ELSE "menu"
                /\ UNCHANGED <<request, out, asks, sent>>
  BY DEF Hear
<1>2. PICK x : x = DigestResponse(resp, r.data, request.type)
  OBVIOUS
<1>3. Answers(x, request.type)
  BY <1>2, ResponseAnswers DEF SessionInv
<1>4. UNCHANGED server
  BY DEF Hear
<1>5. CASE x.got.type \in {"malformed", "endless"}
  BY <1>1, <1>2, <1>4, <1>5, LeaveKeeps
<1>6. CASE x.got.type \notin {"malformed", "endless"}
  <2>1. /\ resp' = x.resp /\ user' = Known(user, x.got)
        /\ cpc' = IF x.got = Nothing THEN "wait" ELSE IF request.type = "QUIT" THEN "gone" ELSE "menu"
        /\ UNCHANGED <<request, asks, sent>>
    BY <1>1, <1>2, <1>6
  <2>2. PICK s, n, d, q : /\ x.resp = Resp(s, n, d, q) /\ s \in {"new", "parsing"} /\ n \in Nat
                          /\ IsParser(q)
                          /\ x.got = Nothing => s = "parsing" /\ Pending(request.type, s, n)
                          /\ x.got = Nothing \/ s = "new"
    BY <1>3, <1>6 DEF Answers
  <2>3. IsResp(resp', request.type)
    BY <2>1, <2>2 DEF IsResp, Pending
  <2>4. cpc' \in {"off", "welcome", "menu"} => resp'.state = "new"
    BY <2>1, <2>2 DEF Resp
  <2>5. user' \in [name : {<<>>, Name}, loggedIn : BOOLEAN]
    BY <2>1 DEF SessionInv, Known, LoggedOut
  <2>. QED BY <1>4, <2>1, <2>3, <2>4, <2>5 DEF SessionInv, server
<1>. QED BY <1>5, <1>6

LEMMA ReceiveKeeps == ASSUME SessionInv, Receive PROVE SessionInv'
<1>1. PICK r : parser' = Digest(parser, r.data).parser
  BY DEF Receive
<1>2. IsParser(parser')
  BY <1>1, DigestKeeps DEF SessionInv
<1>3. UNCHANGED <<cpc, request, user, resp, asks, sent>>
  BY DEF Receive, client
<1>4. spc' \in {"off", "start", "serving", "closed", "dead"} /\ loggedIn' \in BOOLEAN
  <2>1. \A lines : Reply(lines) => spc' = spc \/ spc' = "dead"
    BY DEF Reply
  <2>2. \A a : Answer(a) => spc' = spc \/ spc' = "dead"
    BY <2>1 DEF Answer
  <2>3. ASSUME NEW m, MessageReceived(m)
        PROVE  spc' \in {spc, "dead", "closed"} /\ loggedIn' \in BOOLEAN
    <3>1. CASE TooEarly
      BY <3>1 DEF TooEarly, SessionInv
    <3>2. CASE HandleSend(m)
      BY <2>2, <3>2 DEF HandleSend, SessionInv
    <3>3. CASE HandleList(m)
      BY <2>1, <3>3 DEF HandleList, SessionInv
    <3>4. CASE HandleRead(m)
      BY <2>1, <2>2, <3>4 DEF HandleRead, SessionInv
    <3>5. CASE HandleDel(m)
      BY <2>2, <3>5 DEF HandleDel, SessionInv
    <3>6. CASE HandleLogin(m)
      BY <2>2, <3>6 DEF HandleLogin, SessionInv
    <3>7. CASE HandleQuit
      BY <3>7 DEF HandleQuit, SessionInv
    <3>. QED BY <2>3, <3>1, <3>2, <3>3, <3>4, <3>5, <3>6, <3>7 DEF MessageReceived
  <2>4. \/ \E m : MessageReceived(m)
        \/ UNCHANGED <<spc, loggedIn>>
        \/ Answer("ERR") /\ UNCHANGED loggedIn
        \/ spc' = "dead" /\ UNCHANGED loggedIn
    BY DEF Receive
  <2>. QED BY <2>2, <2>3, <2>4 DEF SessionInv
<1>. QED BY <1>2, <1>3, <1>4 DEF SessionInv

LEMMA SessionStep == SessionInv /\ [Next]_vars => SessionInv'
<1> SUFFICES ASSUME SessionInv, [Next]_vars PROVE SessionInv'
  OBVIOUS
<1>1. CASE UNCHANGED vars
  BY <1>1 DEF SessionInv, vars, client, server
<1>2. CASE Connect
  BY <1>2 DEF SessionInv, Connect
<1>3. CASE Refused \/ Die \/ Lost
  BY <1>3, LeaveKeeps DEF Refused, Die, Lost
<1>4. CASE Greet
  BY <1>4 DEF SessionInv, Greet, client
<1>5. CASE Welcomed
  BY <1>5 DEF SessionInv, Welcomed, server
<1>6. CASE Choose
  BY <1>6, ChooseKeeps
<1>7. CASE Transmit
  BY <1>7 DEF SessionInv, Transmit, server
<1>8. CASE Hear
  BY <1>8, HearKeeps
<1>9. CASE Receive
  BY <1>9, ReceiveKeeps
<1>10. CASE Disconnected \/ Reset
  BY <1>10 DEF SessionInv, Disconnected, Reset, client, server
<1>. QED BY <1>1, <1>2, <1>3, <1>4, <1>5, <1>6, <1>7, <1>8, <1>9, <1>10 DEF Next

(* Whatever is received, cut off or left over, both parsers stay in a state their
   code knows: bytes are awaited only inside the attachments of a mail, and a
   parser within a message holds its first lines. *)
THEOREM TypeCorrect == Spec => []TypeOK
<1>1. Spec => []SessionInv
  BY InitSession, SessionStep, PTL DEF Spec
<1>. QED BY <1>1, InvTypes, PTL

-----------------------------------------------------------------------------
(* What a reading loop finds on the wire. *)
LEMMA LineEndIs ==
  ASSUME NEW w \in Texts
  PROVE  /\ LineEnd(w) \in 0..Len(w)
         /\ LineEnd(w) = 0 => \A i \in 1..Len(w) : w[i] # NL
         /\ LineEnd(w) # 0 => w[LineEnd(w)] = NL /\ \A i \in 1..(LineEnd(w) - 1) : w[i] # NL
<1> DEFINE I == {i \in 1..Len(w) : w[i] = NL}
<1>1. Len(w) \in Nat /\ I \subseteq Nat /\ I \subseteq 1..Len(w)
  BY DEF Texts
<1>2. LineEnd(w) = IF I # {} THEN Min(I) ELSE 0
  BY DEF LineEnd, SelectInSeq
<1>3. CASE I = {}
  BY <1>1, <1>2, <1>3
<1>4. CASE I # {}
  <2>1. PICK f \in I : \A k \in I : f <= k
    BY <1>1, <1>4, Smallest
  <2>2. Min(I) = CHOOSE n \in I : \A k \in I : n <= k
    BY DEF Min
  <2>3. Min(I) \in I /\ \A k \in I : Min(I) <= k
    BY <2>1, <2>2
  <2>4. PICK e : e = Min(I)
    OBVIOUS
  <2>5. e \in 1..Len(w) /\ w[e] = NL
    BY <2>3, <2>4
  <2>6. ASSUME NEW i \in 1..(e - 1) PROVE w[i] # NL
    <3>1. i \in 1..Len(w) /\ ~(e <= i)
      BY <1>1, <2>5
    <3>. QED BY <2>3, <2>4, <3>1
  <2>7. LineEnd(w) = e
    BY <1>2, <1>4, <2>4
  <2>. QED BY <1>1, <2>5, <2>6, <2>7
<1>. QED BY <1>3, <1>4

(* A sequence that is the start of two sequences. *)
LEMMA Ahead ==
  ASSUME NEW w \in Texts, NEW x \in Texts, NEW a \in Texts, NEW y \in Texts, w \o x = a \o y,
         Len(a) <= Len(w)
  PROVE  /\ SubSeq(w, 1, Len(a)) = a
         /\ SubSeq(w, Len(a) + 1, Len(w)) \in Texts
         /\ SubSeq(w, Len(a) + 1, Len(w)) \o x = y
<1>1. PICK n, k : n = Len(a) /\ k = Len(w)
  OBVIOUS
<1>2. PICK b, c : b = SubSeq(w, 1, n) /\ c = SubSeq(w, n + 1, k)
  OBVIOUS
<1>3. PICK z : z = w \o x
  OBVIOUS
<1>4. /\ z \in Texts /\ n \in Nat /\ k \in Nat /\ n <= k /\ Len(x) \in Nat /\ Len(z) = k + Len(x)
      /\ (\A i \in 1..k : z[i] = w[i]) /\ \A i \in 1..Len(x) : z[k + i] = x[i]
  <2>1. /\ w \o x \in Texts /\ Len(w \o x) = Len(w) + Len(x)
        /\ \A i \in 1..Len(w) : (w \o x)[i] = w[i]
        /\ \A i \in 1..Len(x) : (w \o x)[Len(w) + i] = x[i]
    BY Joined
  <2>2. Len(w) \in Nat /\ Len(x) \in Nat /\ Len(a) \in Nat
    BY TextsAre
  <2>3. n \in Nat /\ k \in Nat /\ n <= k
    BY <1>1, <2>2
  <2>. QED BY <1>1, <1>3, <2>1, <2>2, <2>3
<1>5. z = a \o y /\ Len(y) \in Nat /\ Len(z) = n + Len(y)
      /\ (\A i \in 1..n : z[i] = a[i]) /\ \A i \in 1..Len(y) : z[n + i] = y[i]
  BY <1>1, <1>3, Joined
<1>6. b \in Texts /\ Len(b) = n /\ \A i \in 1..n : b[i] = w[i]
  <2>1. 1 \in Nat \ {0} /\ n <= Len(w) /\ 1 <= n + 1 /\ n - 1 + 1 = n
    BY <1>1, <1>4
  <2>2. /\ SubSeq(w, 1, n) \in Texts /\ Len(SubSeq(w, 1, n)) = n - 1 + 1
        /\ \A i \in 1..(n - 1 + 1) : SubSeq(w, 1, n)[i] = w[1 + i - 1]
    BY <1>4, <2>1, Part
  <2>3. \A i \in 1..n : i + 1 - 1 = i /\ 1 + i - 1 = i
    OBVIOUS
  <2>. QED BY <1>2, <2>1, <2>2, <2>3
<1>7. c \in Texts /\ Len(c) = k - n /\ \A i \in 1..(k - n) : c[i] = w[n + i]
  <2>1. n + 1 \in Nat \ {0} /\ k <= Len(w) /\ n + 1 <= k + 1 /\ k - (n + 1) + 1 = k - n
    BY <1>1, <1>4
  <2>2. /\ SubSeq(w, n + 1, k) \in Texts /\ Len(SubSeq(w, n + 1, k)) = k - (n + 1) + 1
        /\ \A i \in 1..(k - (n + 1) + 1) : SubSeq(w, n + 1, k)[i] = w[n + 1 + i - 1]
    BY <1>4, <2>1, Part
  <2>3. \A i \in 1..(k - n) : n + 1 + i - 1 = n + i
    BY <1>4
  <2>. QED BY <1>2, <2>1, <2>2, <2>3
<1>8. b = a
  <2>1. \A i \in 1..n : b[i] = a[i]
    BY <1>4, <1>5, <1>6
  <2>. QED BY <1>1, <1>6, <2>1, SeqEqual DEF Texts
<1>9. c \o x = y
  <2>1. PICK v : v = c \o x
    OBVIOUS
  <2>2. /\ v \in Texts /\ Len(v) = k - n + Len(x)
        /\ (\A i \in 1..(k - n) : v[i] = c[i]) /\ \A i \in 1..Len(x) : v[(k - n) + i] = x[i]
    <3>1. /\ v \in Texts /\ Len(v) = Len(c) + Len(x)
          /\ (\A i \in 1..Len(c) : v[i] = c[i]) /\ \A i \in 1..Len(x) : v[Len(c) + i] = x[i]
      <4>1. c \in Texts
        BY <1>7
      <4>2. /\ c \o x \in Texts /\ Len(c \o x) = Len(c) + Len(x)
            /\ (\A i \in 1..Len(c) : (c \o x)[i] = c[i]) /\ \A i \in 1..Len(x) : (c \o x)[Len(c) + i] = x[i]
        BY <4>1, Joined
      <4>. QED BY <2>1, <4>2
    <3>2. Len(c) = k - n
      BY <1>7
    <3>. QED BY <3>1, <3>2
  <2>3. Len(v) = Len(y)
    BY <1>4, <1>5, <2>2
  <2>4. ASSUME NEW i \in 1..Len(y) PROVE v[i] = y[i]
    <3>1. CASE i <= k - n
      <4>1. i \in 1..(k - n) /\ n + i \in 1..k
        BY <1>4, <1>5, <3>1
      <4>2. v[i] = w[n + i] /\ z[n + i] = w[n + i]
        BY <1>4, <1>7, <2>2, <4>1
      <4>. QED BY <1>5, <4>2
    <3>2. CASE ~(i <= k - n)
      <4>1. PICK j : j = i - (k - n)
        OBVIOUS
      <4>2. j \in 1..Len(x) /\ (k - n) + j = i /\ k + j = n + i
        BY <1>4, <1>5, <3>2, <4>1
      <4>3. v[i] = x[j] /\ z[n + i] = x[j]
        BY <1>4, <2>2, <4>2
      <4>. QED BY <1>5, <4>3
    <3>. QED BY <3>1, <3>2
  <2>5. v \in Seq(Symbol) /\ y \in Seq(Symbol) /\ \A i \in 1..Len(v) : v[i] = y[i]
    BY <2>2, <2>3, <2>4 DEF Texts
  <2>. QED BY <2>1, <2>3, <2>5, SeqEqual
<1>. QED BY <1>1, <1>2, <1>7, <1>8, <1>9

LEMMA NotEmpty == \A s : Len(s) = 1 => s # <<>>
OBVIOUS

LEMMA NothingThere ==
  ASSUME NEW e
  PROVE  Readings(<<>>, 0, e) = {}
<1>1. Whole(<<>>, 0) = {} /\ ~Filled(<<>>, 0)
  BY BufferAssumption DEF Whole, Filled
<1>2. ~IsNumber(<<>>)
  <2>1. \A n \in 0..9 : Number(n) # <<>>
    BY NumberIs
  <2>. QED BY <2>1 DEF IsNumber
<1>3. \A l \in Cuts(<<>>) : l = <<>>
  BY <1>2, CutsAre
<1>4. CutOff(<<>>, 0) = {}
  BY <1>3 DEF CutOff
<1>. QED BY <1>1, <1>4 DEF Readings

(* A part, a line that the buffer holds or bytes, is the first thing to come, and what
   a reader finds: it whole, or what there is of it, filled up, at the end of the
   connection. *)
LineFirst(l, y, w, x) ==
  l \in LineSet /\ y \in Texts /\ NoCr(l) /\ Short(l) /\ w \o x = Append(l, NL) \o y

BytesFirst(l, y, w, x) ==
  l \in Texts /\ y \in Texts /\ Len(l) \in 1..9 /\ w \o x = l \o y

Taken(r, data, x, y) == r.data = data /\ r.rest \in Texts /\ r.rest \o x = y

LineLeft(r, l)  == r.rest = <<>> /\ Stub(r.data, l)
BytesLeft(r, l) == r.rest = <<>> /\ \E b \in Texts : Len(b) = Len(l) /\ r.data = Chop(b)

LEMMA NumberLine ==
  ASSUME NEW n \in 0..9
  PROVE  Number(n) \in LineSet /\ NoCr(Number(n))
<1>1. IsLine(Number(n))
  BY NumberIs
<1>. QED BY <1>1, MarksNoCr DEF LineSet, Texts, IsLine

(* Two texts that start alike. *)
LEMMA SameStart ==
  ASSUME NEW s \in Texts, NEW t \in Texts, NEW c \in Nat, c <= Len(s), c <= Len(t),
         \A i \in 1..c : s[i] = t[i]
  PROVE  SubSeq(s, 1, c) = SubSeq(t, 1, c)
<1>1. Len(s) \in Nat /\ Len(t) \in Nat
  BY TextsAre
<1>2. 1 <= c + 1 /\ 1 \in Nat \ {0} /\ c - 1 + 1 = c /\ \A i \in 1..c : 1 + i - 1 = i
  OBVIOUS
<1>3. /\ SubSeq(s, 1, c) \in Texts /\ Len(SubSeq(s, 1, c)) = c
      /\ \A i \in 1..c : SubSeq(s, 1, c)[i] = s[i]
  BY <1>1, <1>2, Part
<1>4. /\ SubSeq(t, 1, c) \in Texts /\ Len(SubSeq(t, 1, c)) = c
      /\ \A i \in 1..c : SubSeq(t, 1, c)[i] = t[i]
  BY <1>1, <1>2, Part
<1>. QED BY <1>3, <1>4, SeqEqual DEF Texts

(* What is taken for a line at the end of the connection: all of it, but for a CR. *)
LEMMA TakenRest ==
  ASSUME NEW s \in Texts, s # <<>>, NEW b, b = Append(s, "NUL"), NEW r, r = Take(b, Len(b)),
         NEW c, c = IF s[Len(s)] = CR THEN Len(s) - 1 ELSE Len(s)
  PROVE  r.rest = <<>> /\ r.data = SubSeq(s, 1, c)
<1>1. PICK k, S : k = Len(s) /\ S = Symbol \cup {"NUL"}
  OBVIOUS
<1>2. s \in Seq(S) /\ k \in Nat /\ k >= 1
  <2>1. Symbol \subseteq S /\ s \in Seq(Symbol)
    BY <1>1 DEF Texts
  <2>2. k \in Nat /\ k # 0
    BY <1>1, <2>1, EmptySeq, LenProperties
  <2>. QED BY <2>1, <2>2, SeqMonotonic
<1>3. b \in Seq(S) /\ Len(b) = k + 1 /\ \A i \in 1..k : b[i] = s[i]
  BY <1>1, <1>2, AppendProperties
<1>4. r.rest = <<>>
  <2>1. PICK j : j = Len(b)
    OBVIOUS
  <2>2. r.rest = SubSeq(b, j + 1, j)
    BY <2>1 DEF Take
  <2>3. j \in Nat /\ b \in Seq(S)
    BY <1>2, <1>3, <2>1
  <2>4. SubSeq(b, j + 1, j) = <<>>
    BY <2>3, SubSeqEmpty
  <2>. QED BY <2>2, <2>4
<1>5. r.data = SubSeq(b, 1, c)
  <2>1. SubSeq(b, 1, Len(b)) = b
    BY <1>3, SubSeqFull
  <2>2. r.data = Chop(b)
    BY <2>1 DEF Take
  <2>3. Len(b) >= 2 /\ Len(b) - 1 = k /\ Len(b) - 2 = k - 1 /\ k \in 1..k
    BY <1>2, <1>3
  <2>4. b[Len(b) - 1] = s[k]
    BY <1>3, <2>3
  <2>. QED BY <1>1, <2>2, <2>3, <2>4 DEF Chop
<1>6. c \in Nat /\ c <= k
  BY <1>1, <1>2
<1>7. ASSUME NEW t \in Seq(S), c <= Len(t)
      PROVE  SubSeq(t, 1, c) = [i \in 1..c |-> t[i]]
  <2>1. SubSeq(t, 1, c) = [i \in 1..(1 + c - 1) |-> t[i + 1 - 1]]
    BY <1>6, <1>7
  <2>2. 1 + c - 1 = c /\ \A i \in 1..c : i + 1 - 1 = i
    BY <1>6
  <2>. QED BY <2>1, <2>2
<1>8. SubSeq(b, 1, c) = SubSeq(s, 1, c)
  <2>1. c <= Len(b) /\ c <= Len(s)
    BY <1>1, <1>2, <1>3, <1>6
  <2>2. \A i \in 1..c : i \in 1..k
    BY <1>2, <1>6
  <2>. QED BY <1>2, <1>3, <1>7, <2>1, <2>2
<1>. QED BY <1>4, <1>5, <1>8

LEMMA ReadLine ==
  ASSUME NEW w \in Texts, NEW x \in Texts, NEW l, NEW y, LineFirst(l, y, w, x),
         NEW e \in BOOLEAN, NEW r \in Readings(w, 0, e)
  PROVE  Taken(r, l, x, y) \/ (e /\ LineLeft(r, l))
<1>. l \in LineSet /\ y \in Texts /\ NoCr(l) /\ Short(l) /\ w \o x = Append(l, NL) \o y
  BY DEF LineFirst
<1>1. PICK n, k, a : n = Len(l) /\ k = Len(w) /\ a = Append(l, NL)
  OBVIOUS
<1>2. /\ l \in Texts /\ a \in Texts /\ n \in Nat /\ k \in Nat /\ Len(a) = n + 1 /\ a[n + 1] = NL
      /\ \A i \in 1..n : a[i] = l[i] /\ l[i] # NL
  <2>1. l \in Texts /\ IsLine(l)
    BY DEF LineSet
  <2>2. /\ Append(l, NL) \in Seq(Symbol) /\ Len(Append(l, NL)) = Len(l) + 1 /\ Len(l) \in Nat
        /\ (\A i \in 1..Len(l) : Append(l, NL)[i] = l[i]) /\ Append(l, NL)[Len(l) + 1] = NL
    BY <2>1, Marks, EndedLine DEF Texts
  <2>3. ToSet(l) = {l[i] : i \in 1..Len(l)} /\ NL \notin ToSet(l)
    BY <2>1, SetOf DEF Texts, IsLine
  <2>. QED BY <1>1, <2>1, <2>2, <2>3 DEF Texts
<1>3. PICK z : z = w \o x
  OBVIOUS
<1>4. /\ z \in Texts /\ Len(x) \in Nat /\ Len(z) = k + Len(x) /\ \A i \in 1..k : z[i] = w[i]
  BY <1>1, <1>3, Joined
<1>5. /\ \A i \in 1..(n + 1) : z[i] = a[i]
      /\ Len(z) = n + 1 + Len(y) /\ Len(y) \in Nat
  <2>1. a \in Texts /\ Len(a) = n + 1
    BY <1>2
  <2>2. /\ Len(a \o y) = Len(a) + Len(y) /\ Len(y) \in Nat
        /\ \A i \in 1..Len(a) : (a \o y)[i] = a[i]
    BY <2>1, Joined
  <2>3. z = a \o y
    BY <1>1, <1>3
  <2>. QED BY <2>1, <2>2, <2>3
<1>6. \A i \in 1..k : i <= n => w[i] # NL
  <2>1. \A i \in 1..k : i <= n => i \in 1..n /\ i \in 1..(n + 1)
    BY <1>2
  <2>. QED BY <1>2, <1>4, <1>5, <2>1
<1>7. n + 1 <= k => w[n + 1] = NL
  <2>1. n + 1 \in 1..(n + 1) /\ (n + 1 <= k => n + 1 \in 1..k)
    BY <1>2
  <2>. QED BY <1>2, <1>4, <1>5, <2>1
<1>8. PICK m : m = LineEnd(w)
  OBVIOUS
<1>9. /\ m \in 0..k
      /\ m = 0 => \A i \in 1..k : w[i] # NL
      /\ m # 0 => w[m] = NL /\ \A i \in 1..(m - 1) : w[i] # NL
  BY <1>1, <1>8, LineEndIs
<1>10. /\ Whole(w, 0) = {i \in 1..k : i = m /\ i < MaxLen}
       /\ MaxLen \in Nat /\ n + 2 <= MaxLen
  BY <1>1, <1>8, BufferAssumption DEF Whole, Short
<1>11. CASE n + 1 <= k
  <2>1. m = n + 1
    <3>1. m # 0
      <4>1. n + 1 \in 1..k
        BY <1>2, <1>11
      <4>. QED BY <1>7, <1>9, <1>11, <4>1
    <3>2. ~(m <= n)
      <4>1. m \in 1..k
        BY <1>9, <3>1
      <4>. QED BY <1>6, <1>9, <3>1, <4>1
    <3>3. ~(m > n + 1)
      <4>1. m > n + 1 => n + 1 \in 1..(m - 1)
        BY <1>2, <1>9
      <4>. QED BY <1>7, <1>9, <1>11, <3>1, <4>1
    <3>. QED BY <1>2, <1>9, <3>2, <3>3
  <2>2. m \in 1..k /\ m < MaxLen
    BY <1>2, <1>10, <1>11, <2>1
  <2>3. Whole(w, 0) = {m} /\ Whole(w, 0) # {}
    BY <1>10, <2>2
  <2>4. r = Take(w, n + 1)
    <3>1. Readings(w, 0, e) = {Take(w, i) : i \in {m}}
      BY <2>3 DEF Readings
    <3>. QED BY <2>1, <3>1
  <2>5. /\ SubSeq(w, 1, Len(a)) = a
        /\ SubSeq(w, Len(a) + 1, Len(w)) \in Texts
        /\ SubSeq(w, Len(a) + 1, Len(w)) \o x = y
    <3>1. Len(a) <= Len(w) /\ w \o x = a \o y
      BY <1>1, <1>2, <1>11
    <3>2. a \in Texts
      BY <1>2
    <3>3. w \in Texts /\ x \in Texts /\ y \in Texts
      BY <1>1
    <3>. QED BY <3>1, <3>2, <3>3, Ahead, ZenonT(60)
  <2>6. r.data = Chop(a) /\ r.rest \in Texts /\ r.rest \o x = y
    <3>1. Len(a) = n + 1
      BY <1>2
    <3>2. r.data = Chop(SubSeq(w, 1, Len(a))) /\ r.rest = SubSeq(w, Len(a) + 1, Len(w))
      BY <2>4, <3>1 DEF Take
    <3>. QED BY <2>5, <3>2
  <2>7. Chop(a) = l
    <3>1. Len(a) > 0
      BY <1>2
    <3>2. Len(a) < 2 \/ a[Len(a) - 1] # CR
      <4>1. Len(a) >= 2 => n \in 1..n /\ l # <<>> /\ Len(a) - 1 = n
        BY <1>1, <1>2
      <4>2. Len(a) >= 2 => a[Len(a) - 1] = l[n]
        BY <1>2, <4>1
      <4>3. Len(a) >= 2 => l[n] # CR
        BY <1>1, <4>1 DEF NoCr
      <4>4. Len(a) < 2 \/ Len(a) >= 2
        BY <1>2
      <4>. QED BY <4>2, <4>3, <4>4
    <3>3. Chop(a) = SubSeq(a, 1, Len(a) - 1)
      BY <1>2, <3>1, <3>2, ChopIs
    <3>4. <<NL>> \in Texts /\ a = l \o <<NL>>
      <4>1. <<NL>> \in Texts
        BY Marks DEF Texts
      <4>2. Append(l, NL) = l \o <<NL>>
        BY <1>2, Marks, AppendIsConcat DEF Texts
      <4>. QED BY <1>1, <4>1, <4>2
    <3>5. SubSeq(l \o <<NL>>, 1, Len(l)) = l
      BY <1>2, <3>4, TextCut
    <3>6. Len(a) - 1 = Len(l)
      BY <1>1, <1>2
    <3>. QED BY <3>3, <3>4, <3>5, <3>6
  <2>. QED BY <2>6, <2>7 DEF Taken
<1>12. CASE ~(n + 1 <= k)
  <2>1. \A i \in 1..k : w[i] # NL
    <3>1. \A i \in 1..k : i <= n
      BY <1>2, <1>12
    <3>. QED BY <1>6, <3>1
  <2>2. m = 0
    BY <1>9, <2>1
  <2>3. Whole(w, 0) = {} /\ ~Filled(w, 0)
    <3>1. ~(k >= MaxLen - 1)
      BY <1>2, <1>10, <1>12
    <3>. QED BY <1>1, <1>10, <2>2, <3>1 DEF Filled
  <2>4. e /\ \E b \in CutOff(w, 0) : r = Take(b, Len(b))
    BY <2>3 DEF Readings
  <2>5. PICK b : b \in CutOff(w, 0) /\ r = Take(b, Len(b))
    BY <2>4
  <2>6. PICK s \in Cuts(w) : s # <<>> /\ b = Append(s, "NUL")
    BY <2>5 DEF CutOff
  <2>7. CASE s = w
    <3>1. w # <<>> /\ k >= 1
      BY <1>1, <1>2, <2>6, <2>7 DEF Texts
    <3>2. PICK c : c = IF w[k] = CR THEN k - 1 ELSE k
      OBVIOUS
    <3>3. r.rest = <<>> /\ r.data = SubSeq(w, 1, c)
      BY <1>1, <2>5, <2>6, <2>7, <3>1, <3>2, TakenRest
    <3>4. c \in Nat /\ c <= k /\ c <= n
      BY <1>2, <1>12, <3>1, <3>2
    <3>5. SubSeq(w, 1, c) = SubSeq(l, 1, c)
      <4>1. c <= Len(w) /\ c <= Len(l)
        BY <1>1, <3>4
      <4>2. \A i \in 1..c : i \in 1..k /\ i \in 1..n /\ i \in 1..(n + 1)
        BY <1>2, <3>4
      <4>3. \A i \in 1..c : w[i] = l[i]
        BY <1>2, <1>4, <1>5, <4>2
      <4>. QED BY <1>2, <3>4, <4>1, <4>3, SameStart
    <3>6. ASSUME n = 1 PROVE c = 1
      <4>1. k = 1 /\ 1 \in 1..k /\ 1 \in 1..n /\ 1 \in 1..(n + 1)
        BY <1>2, <1>12, <3>1, <3>6
      <4>2. w[k] = l[n]
        BY <1>2, <1>4, <1>5, <3>6, <4>1
      <4>3. l # <<>>
        <5>1. Len(l) = 1
          BY <1>1, <3>6
        <5>. QED BY <5>1, NotEmpty
      <4>4. l[n] # CR
        BY <1>1, <4>3 DEF NoCr
      <4>. QED BY <3>2, <4>1, <4>2, <4>4
    <3>7. c \in 0..Len(l) /\ (Len(l) = 1 => c = 1) /\ r.data \in Cuts(SubSeq(l, 1, c))
      BY <1>1, <3>3, <3>4, <3>5, <3>6 DEF Cuts
    <3>8. Stub(r.data, l)
      BY <3>7 DEF Stub
    <3>. QED BY <2>4, <3>3, <3>8 DEF LineLeft
  <2>8. CASE s # w
    <3>1. IsNumber(w) /\ \E i \in 0..9 : s = Number(i)
      BY <2>6, <2>8, CutsAre
    <3>2. Len(w) = 1
      <4>1. PICK j \in 0..9 : w = Number(j)
        BY <3>1 DEF IsNumber
      <4>. QED BY <4>1, NumberIs
    <3>3. s \in Texts /\ Len(s) = 1 /\ s[1] # CR
      BY <3>1, NumberIs, NumberLine DEF LineSet
    <3>4. k = 1 /\ 1 <= n
      BY <1>1, <1>2, <1>12, <3>2
    <3>5. r.rest = <<>> /\ r.data = s
      <4>1. PICK c : c = IF s[Len(s)] = CR THEN Len(s) - 1 ELSE Len(s)
        OBVIOUS
      <4>2. c = Len(s)
        BY <3>3, <4>1
      <4>3. r.rest = <<>> /\ r.data = SubSeq(s, 1, c)
        <5>1. s \in Texts /\ s # <<>> /\ b = Append(s, "NUL") /\ r = Take(b, Len(b))
          BY <2>5, <2>6, <3>3
        <5>. QED BY <4>1, <5>1, TakenRest, ZenonT(30)
      <4>4. SubSeq(s, 1, Len(s)) = s
        BY <3>3, SubSeqFull DEF Texts
      <4>. QED BY <4>2, <4>3, <4>4
    <3>6. SubSeq(l, 1, 1) = w
      <4>1. 1 \in 1..k /\ 1 \in 1..n /\ 1 \in 1..(n + 1)
        BY <1>2, <3>4
      <4>2. \A i \in 1..1 : i = 1
        OBVIOUS
      <4>3. \A i \in 1..1 : w[i] = l[i]
        BY <1>2, <1>4, <1>5, <4>1, <4>2
      <4>4. SubSeq(w, 1, 1) = SubSeq(l, 1, 1)
        <5>1. 1 \in Nat /\ 1 <= Len(w) /\ 1 <= Len(l)
          BY <1>1, <3>2, <3>4
        <5>. QED BY <1>2, <4>3, <5>1, SameStart
      <4>5. SubSeq(w, 1, Len(w)) = w
        BY SubSeqFull DEF Texts
      <4>. QED BY <3>2, <4>4, <4>5
    <3>7. 1 \in 0..Len(l) /\ r.data \in Cuts(SubSeq(l, 1, 1))
      <4>1. 1 \in 0..n
        BY <1>2, <3>4
      <4>2. r.data \in Cuts(SubSeq(l, 1, 1))
        BY <2>6, <3>5, <3>6
      <4>. QED BY <1>1, <4>1, <4>2
    <3>8. Stub(r.data, l)
      BY <3>7 DEF Stub
    <3>. QED BY <2>4, <3>5, <3>8 DEF LineLeft
  <2>. QED BY <2>7, <2>8
<1>. QED BY <1>11, <1>12

LEMMA ReadBytes ==
  ASSUME NEW w \in Texts, NEW x \in Texts, NEW l, NEW y, BytesFirst(l, y, w, x),
         NEW e \in BOOLEAN, NEW r \in Readings(w, Len(l), e)
  PROVE  Taken(r, Chop(l), x, y) \/ (e /\ BytesLeft(r, l))
<1>. l \in Texts /\ y \in Texts /\ Len(l) \in 1..9 /\ w \o x = l \o y
  BY DEF BytesFirst
<1>1. PICK n, k : n = Len(l) /\ k = Len(w)
  OBVIOUS
<1>2. n \in 1..9 /\ k \in Nat /\ n > 0 /\ Len(y) \in Nat
  <2>1. Len(w) \in Nat /\ Len(y) \in Nat
    BY TextsAre
  <2>2. n \in 1..9
    BY <1>1
  <2>3. n > 0
    BY <2>2
  <2>4. k \in Nat
    BY <1>1, <2>1
  <2>. QED BY <2>1, <2>2, <2>3, <2>4
<1>3. Whole(w, n) = {i \in 1..k : i = n}
  BY <1>1, <1>2 DEF Whole
<1>4. CASE n <= k
  <2>1. Whole(w, n) = {n} /\ Whole(w, n) # {}
    BY <1>2, <1>3, <1>4
  <2>2. r = Take(w, n)
    <3>1. Readings(w, n, e) = {Take(w, i) : i \in {n}}
      BY <2>1 DEF Readings
    <3>. QED BY <1>1, <3>1
  <2>3. /\ SubSeq(w, 1, Len(l)) = l
        /\ SubSeq(w, Len(l) + 1, Len(w)) \in Texts
        /\ SubSeq(w, Len(l) + 1, Len(w)) \o x = y
    <3>1. Len(l) <= Len(w) /\ w \o x = l \o y
      BY <1>1, <1>4
    <3>. QED BY <3>1, Ahead, ZenonT(60)
  <2>. QED BY <1>1, <2>2, <2>3 DEF Take, Taken
<1>5. CASE ~(n <= k)
  <2>1. Whole(w, n) = {}
    BY <1>2, <1>3, <1>5
  <2>2. e /\ \E b \in CutOff(w, n) : r = Take(b, Len(b))
    <3>1. ~Filled(w, n)
      BY <1>2 DEF Filled
    <3>2. r \in Readings(w, n, e)
      BY <1>1
    <3>. QED BY <2>1, <3>1, <3>2 DEF Readings
  <2>3. PICK b : b \in CutOff(w, n) /\ r = Take(b, Len(b))
    BY <2>2
  <2>4. PICK d \in [1..(n - k) -> Stale] : b = w \o d
    BY <1>1, <1>2, <2>3 DEF CutOff
  <2>5. d \in Texts /\ Len(d) = n - k
    <3>1. PICK j : j = n - k
      OBVIOUS
    <3>2. j \in Nat /\ d \in [1..j -> Symbol]
      <4>1. j \in Nat
        BY <1>2, <1>5, <3>1
      <4>2. Stale \subseteq Symbol
        BY SessionAssumption
      <4>. QED BY <3>1, <4>1, <4>2
    <3>3. d \in Seq(Symbol)
      BY <3>2, FunctionIsSeq
    <3>4. Len(d) = j
      BY <3>2, <3>3
    <3>. QED BY <3>1, <3>3, <3>4 DEF Texts
  <2>6. b \in Texts /\ Len(b) = n
    <3>1. b \in Texts /\ Len(b) = Len(w) + Len(d)
      BY <2>4, <2>5, TextsAre
    <3>. QED BY <1>1, <1>2, <2>5, <3>1
  <2>7. r.data = Chop(b) /\ r.rest = <<>>
    <3>1. r.data = Chop(SubSeq(b, 1, Len(b))) /\ r.rest = SubSeq(b, Len(b) + 1, Len(b))
      BY <2>3 DEF Take
    <3>2. SubSeq(b, 1, Len(b)) = b
      BY <2>6, SubSeqFull DEF Texts
    <3>3. Len(b) \in Nat
      BY <1>2, <2>6
    <3>4. SubSeq(b, Len(b) + 1, Len(b)) = <<>>
      BY <3>3, SubSeqEmpty
    <3>. QED BY <3>1, <3>2, <3>4
  <2>. QED BY <1>1, <2>2, <2>6, <2>7 DEF BytesLeft
<1>. QED BY <1>4, <1>5

(* A reading loop gets on with the message that is on the wire, or, once that has
   ended, into no message that is not cut off there. *)
LEMMA ReadOn ==
  ASSUME NEW m, Carried(m), NEW p, NEW w \in Texts, NEW x \in Texts, Expect(p, w \o x, m),
         NEW e \in BOOLEAN, NEW r \in Readings(w, p.awaiting, e)
  PROVE  \/ r.rest \in Texts /\ After(Digest(p, r.data), r.rest \o x, m)
         \/ e /\ r.rest = <<>> /\ Cut(Digest(p, r.data), m)
<1>1. Due(p, w \o x, m)
  BY Progress
<1>2. CASE \E l \in LineSet, y \in Texts :
             /\ NoCr(l) /\ Short(l) /\ p.awaiting = 0 /\ w \o x = Append(l, NL) \o y
             /\ After(Digest(p, l), y, m) /\ \A s : Stub(s, l) => Cut(Digest(p, s), m)
  <2>1. PICK l \in LineSet, y \in Texts :
             /\ NoCr(l) /\ Short(l) /\ p.awaiting = 0 /\ w \o x = Append(l, NL) \o y
             /\ After(Digest(p, l), y, m) /\ \A s : Stub(s, l) => Cut(Digest(p, s), m)
    BY <1>2
  <2>2. r \in Readings(w, 0, e)
    BY <2>1
  <2>3. LineFirst(l, y, w, x)
    BY <2>1 DEF LineFirst
  <2>4. Taken(r, l, x, y) \/ (e /\ LineLeft(r, l))
    BY <2>2, <2>3, ReadLine
  <2>. QED BY <2>1, <2>4 DEF Taken, LineLeft
<1>3. CASE \E l \in Texts, y \in Texts :
             /\ p.awaiting = Len(l) /\ Len(l) \in 1..9 /\ w \o x = l \o y
             /\ After(Digest(p, Chop(l)), y, m)
             /\ \A b \in Texts : Len(b) = Len(l) => Cut(Digest(p, Chop(b)), m)
  <2>1. PICK l \in Texts, y \in Texts :
             /\ p.awaiting = Len(l) /\ Len(l) \in 1..9 /\ w \o x = l \o y
             /\ After(Digest(p, Chop(l)), y, m)
             /\ \A b \in Texts : Len(b) = Len(l) => Cut(Digest(p, Chop(b)), m)
    BY <1>3
  <2>2. r \in Readings(w, Len(l), e)
    BY <2>1
  <2>3. BytesFirst(l, y, w, x)
    BY <2>1 DEF BytesFirst
  <2>4. Taken(r, Chop(l), x, y) \/ (e /\ BytesLeft(r, l))
    BY <2>2, <2>3, ReadBytes
  <2>. QED BY <2>1, <2>4 DEF Taken, BytesLeft
<1>. QED BY <1>1, <1>2, <1>3 DEF Due

(* What is expected is a text, and there is some. *)
LEMMA ExpectSome ==
  ASSUME NEW m, Carried(m), NEW p, NEW w, Expect(p, w, m)
  PROVE  w \in Texts
<1>1. Due(p, w, m)
  BY Progress
<1>2. \A l \in LineSet : Append(l, NL) \in Texts
  BY TextsAre DEF LineSet
<1>3. \A u, v \in Texts : u \o v \in Texts
  BY TextsAre
<1>. QED BY <1>1, <1>2, <1>3 DEF Due

-----------------------------------------------------------------------------
(* Where the two ends are, after plain mails: the request is on its way and the
   server's parser expects what of it is to come, or its answer is and the client
   does, or nothing is and both hold nothing. *)
Good(m) == Writable(m) /\ Plain(m)

Fresh(r) == \E n, d, q : r = Resp("new", n, d, q) /\ Idle(q)

(* A title that a list can carry. *)
Titles == {l \in Words : Short(l)}

(* A list of the user's mails, at most so many after k requests, has one digit. *)
Mine(bs) == {b \in bs : b[1] = Name}

Holds(bs, k) == /\ \A b \in bs : Good(b[2])
                /\ IsFiniteSet(Mine(bs)) /\ Cardinality(Mine(bs)) <= Cardinality(OldMails) + k

Asked == /\ Carried(request)
         /\ request.type = "LIST" => request.user = Name
         /\ request.type = "LOGIN" => Len(request.password) = 1 /\ ~IsNumber(request.password)
         /\ IF user.loggedIn THEN request.type # "LOGIN" ELSE request.type \in {"LOGIN", "QUIT"}

Seen == shown.type = "read" => Good(handed) /\ shown.mail = Arrived(handed)

Quiet == /\ out = <<>> /\ c2s = <<>> /\ Idle(parser) /\ Fresh(resp) /\ served.nth = asks
         /\ Seen

Refusal   == Fresh(resp) /\ request.type # "QUIT" /\ s2c = Text(<<<<"ERR">>>>)
Agreement == /\ Fresh(resp) /\ request.type \in {"SEND", "DEL", "LOGIN"} /\ s2c = Text(<<<<"OK">>>>)
             /\ loggedIn /\ Service!Agreed
ListBegins == /\ Fresh(resp) /\ request.type = "LIST"
              /\ \E ts \in Seq(Titles) : /\ Len(ts) <= 9 /\ Service!Listed(ts)
                                         /\ s2c = Text(<<Number(Len(ts))>> \o ts)
ListGoesOn == /\ request.type = "LIST"
              /\ \E ts, us, h, q :
                   /\ ts \in Seq(Titles) /\ ts # <<>> /\ s2c = Text(ts) /\ Idle(q)
                   /\ h \in LineSet /\ us \in Seq(Titles) /\ Service!Listed(us \o ts)
                   /\ resp = Resp("parsing", Len(ts), <<h>> \o us, q)
ReadBegins == /\ Fresh(resp) /\ request.type = "READ" /\ Good(handed)
              /\ Service!Shows(Arrived(handed))
              /\ s2c = Text(<<<<"OK">>>>) \o Deflate(handed)
ReadGoesOn == /\ request.type = "READ" /\ Good(handed)
              /\ Service!Shows(Arrived(handed))
              /\ \E n, d, q : resp = Resp("parsing", n, d, q) /\ Expect(q, s2c, handed)

Coming == \/ Refusal \/ Agreement \/ ListBegins \/ ListGoesOn \/ ReadBegins \/ ReadGoesOn

AtStart   == cpc = "off" /\ spc = "off" /\ Quiet /\ s2c = <<>>
AtWelcome == /\ cpc = "welcome" /\ spc \in {"start", "serving", "closed"} /\ Quiet
             /\ s2c = IF spc = "serving" THEN Greeting ELSE <<>>
AtMenu    == cpc = "menu" /\ spc = "serving" /\ Quiet /\ s2c = <<>>
Asking    == /\ cpc = "wait" /\ spc = "serving" /\ Asked /\ s2c = <<>> /\ Fresh(resp)
             /\ served.nth + 1 = asks /\ c2s \in Texts /\ out \in Texts
             /\ Expect(parser, c2s \o out, request)
Answering == /\ cpc = "wait" /\ spc = "serving" /\ Asked /\ out = <<>> /\ c2s = <<>> /\ Idle(parser)
             /\ served.nth = asks /\ Coming
Closing   == /\ cpc = "wait" /\ spc = "closed" /\ Asked /\ out = <<>> /\ c2s = <<>> /\ Idle(parser)
             /\ served.nth = asks /\ Fresh(resp) /\ s2c = <<>>
(* Of a mail left behind the server may have read the size of an attachment cut short. *)
GoneQuiet == c2s = <<>> /\ parser.awaiting = 0 /\ served.nth <= asks
GoneAsking == /\ Asked /\ served.nth + 1 = asks /\ c2s \in Texts
              /\ \E n : Shorter(n, request) /\ \E x \in Texts : Expect(parser, c2s \o x, n)
Left      == cpc = "gone" /\ out = <<>> /\ s2c = <<>> /\ (GoneQuiet \/ GoneAsking)

Agree ==
  /\ user.loggedIn => loggedIn
  /\ served.nth \in Nat
  /\ cpc # "gone" => Holds(box, served.nth)
  /\ AtStart \/ AtWelcome \/ AtMenu \/ Asking \/ Answering \/ Closing \/ Left

LEMMA ArrivedIs ==
  ASSUME NEW m, Carried(m)
  PROVE  /\ Arrived(m).type = m.type
         /\ m.type # "SEND" => Arrived(m) = m
         /\ m.type = "SEND" => /\ Arrived(m) = Mail(m.sender, m.receivers, m.title, m.body, TurnedAll(m.attachments))
                               /\ Arrived(m).receivers = m.receivers /\ Arrived(m).title = m.title
                               /\ Arrived(m).attachments = TurnedAll(m.attachments)
BY DEF Arrived, Mail

LEMMA ArrivedGood ==
  ASSUME NEW m, Good(m)
  PROVE  Good(Arrived(m))
<1>1. PICK A, B, n, a : /\ A = m.attachments /\ B = TurnedAll(A) /\ n = Len(A) /\ a = Arrived(m)
  OBVIOUS
<1>2. /\ A \in Seq(Files) /\ n \in 0..9 /\ m.type = "SEND"
      /\ B \in Seq(Files) /\ Len(B) = n
      /\ \A i \in 1..n : A[i] \in Files /\ B[i] = Turned(A[i]) /\ (Len(A[i].data) >= 2 => A[i].data[Len(A[i].data) - 1] # CR)
  BY <1>1, FilesAre DEF Good
<1>3. a = Mail(m.sender, m.receivers, m.title, m.body, B)
  BY <1>1, <1>2 DEF Arrived
<1>4. /\ a.sender = m.sender /\ a.receivers = m.receivers /\ a.title = m.title /\ a.body = m.body
      /\ a.attachments = B
  BY <1>3 DEF Mail
<1>5. DOMAIN B = 1..n
  BY <1>2
<1>6. \A f \in Files : /\ f = [filename |-> f.filename, data |-> f.data]
                       /\ f.data \in Seq(Symbol) /\ Len(f.data) \in 1..9
  BY DEF Files, Texts
<1>7. ToSet(B) = {B[i] : i \in 1..n} /\ B \in Seq(ToSet(B))
  <2>1. ToSet(B) = {B[i] : i \in 1..n}
    BY <1>2, SetOf
  <2>2. B \in [1..n -> ToSet(B)]
    <3>1. B \in [1..n -> Files]
      BY <1>2
    <3>2. \A i \in 1..n : B[i] \in ToSet(B)
      BY <2>1
    <3>. QED BY <3>1, <3>2
  <2>. QED BY <1>2, <2>1, <2>2, FunctionIsSeq
<1>8. ASSUME NEW i \in 1..n
      PROVE  /\ B[i] \in Files /\ IsWord(B[i].filename) /\ Short(B[i].filename)
             /\ Len(B[i].data) >= 2 => B[i].data[Len(B[i].data) - 1] # CR
  <2>1. PICK f, g : f = A[i] /\ g = B[i]
    OBVIOUS
  <2>2. f \in Files /\ g = Turned(f) /\ (Len(f.data) >= 2 => f.data[Len(f.data) - 1] # CR)
    BY <1>2, <2>1
  <2>3. g.filename = f.filename /\ g \in Files /\ Len(g.data) = Len(f.data)
    BY <2>2, TurnedIs
  <2>4. f \in ToSet(A)
    <3>1. ToSet(A) = {A[k] : k \in 1..Len(A)}
      BY <1>2, SetOf
    <3>. QED BY <1>1, <2>1, <3>1
  <2>5. IsWord(f.filename) /\ Short(f.filename)
    BY <1>1, <2>4 DEF Good, Writable, Plain
  <2>6. f.data \in Seq(Symbol) /\ Len(f.data) \in Nat
    BY <1>6, <2>2
  <2>7. g.data = [f.data EXCEPT ![Len(f.data)] = NL]
    BY <2>2 DEF Turned
  <2>8. Len(f.data) >= 2 => g.data[Len(f.data) - 1] = f.data[Len(f.data) - 1]
    <3>1. Len(f.data) >= 2 => Len(f.data) - 1 \in DOMAIN f.data /\ Len(f.data) - 1 # Len(f.data)
      BY <2>6
    <3>. QED BY <2>7, <3>1
  <2>. QED BY <2>1, <2>2, <2>3, <2>5, <2>8
<1>9. Writable(a)
  <2>1. \A f \in ToSet(B) : /\ f = [filename |-> f.filename, data |-> f.data]
                            /\ IsWord(f.filename) /\ f.data \in Seq(Symbol) /\ Len(f.data) \in 1..9
    BY <1>6, <1>7, <1>8
  <2>2. Len(B) <= 9
    BY <1>2
  <2>. QED BY <1>3, <1>4, <1>7, <2>1, <2>2 DEF Good, Writable
<1>10. Plain(a)
  <2>1. \A f \in ToSet(B) : Short(f.filename)
    BY <1>7, <1>8
  <2>. QED BY <1>4, <1>5, <1>8, <2>1 DEF Good, Plain
<1>. QED BY <1>1, <1>9, <1>10 DEF Good

LEMMA GoodIsCarried == \A m : Good(m) => Carried(m) /\ m.type = "SEND"
<1> SUFFICES ASSUME NEW m, Good(m) PROVE Carried(m) /\ m.type = "SEND"
  OBVIOUS
<1>1. Carried(m)
  BY DEF Good, Carried
<1>. QED BY <1>1, CarriedIs DEF Good

LEMMA SendIsGood == \A m : Carried(m) /\ m.type = "SEND" => Good(m)
BY CarriedIs DEF Good

(* What the server's handler is given: the request, or, when the client ended inside
   it, one that is almost the request. *)
Given(m) == m = Arrived(request) \/ (cpc = "gone" /\ Almost(m, request))

LEMMA GivenIs ==
  ASSUME Carried(request), NEW m, Given(m)
  PROVE  /\ m.type = request.type /\ m.type \in Types
         /\ m.type = "SEND" => m.title = request.title
         /\ cpc # "gone" => m = Arrived(request)
<1>1. request.type \in Types
  BY CarriedIs
<1>2. CASE m = Arrived(request)
  BY <1>1, <1>2, ArrivedIs
<1>3. CASE m # Arrived(request)
  <2>1. cpc = "gone" /\ Almost(m, request)
    BY <1>3 DEF Given
  <2>. QED BY <1>1, <2>1 DEF Almost, Resembles, Mail
<1>. QED BY <1>2, <1>3

(* A mail arrives as it was, but for the last byte of each attachment. *)
LastTurned(m, n) ==
  /\ m = [n EXCEPT !.attachments = m.attachments]
  /\ Len(m.attachments) = Len(n.attachments) /\ Len(n.attachments) \in Nat
  /\ DOMAIN m.attachments = 1..Len(n.attachments)
  /\ \A i \in 1..Len(n.attachments) :
       /\ m.attachments[i].filename = n.attachments[i].filename
       /\ Len(m.attachments[i].data) = Len(n.attachments[i].data)
       /\ n.attachments[i].data \in Seq(Symbol)
       /\ m.attachments[i].data = [n.attachments[i].data EXCEPT ![Len(n.attachments[i].data)] = NL]

LEMMA ArrivedFiles ==
  ASSUME NEW n, Good(n)
  PROVE  LastTurned(Arrived(n), n)
<1>1. PICK m, A : m = Arrived(n) /\ A = n.attachments
  OBVIOUS
<1>2. Writable(n) /\ Plain(n) /\ n.type = "SEND"
  BY GoodIsCarried DEF Good
<1>3. /\ A \in Seq(Files) /\ Len(A) \in Nat
      /\ TurnedAll(A) \in Seq(Files) /\ Len(TurnedAll(A)) = Len(A)
      /\ \A i \in 1..Len(A) : A[i] \in Files /\ TurnedAll(A)[i] = Turned(A[i])
                              /\ (Len(A[i].data) >= 2 => A[i].data[Len(A[i].data) - 1] # CR)
  <2>1. /\ n.attachments \in Seq(Files) /\ Len(n.attachments) \in 0..9
        /\ TurnedAll(n.attachments) \in Seq(Files) /\ Len(TurnedAll(n.attachments)) = Len(n.attachments)
        /\ \A i \in 1..Len(n.attachments) :
             /\ n.attachments[i] \in Files /\ TurnedAll(n.attachments)[i] = Turned(n.attachments[i])
             /\ Len(n.attachments[i].data) >= 2 =>
                  n.attachments[i].data[Len(n.attachments[i].data) - 1] # CR
    BY <1>2, FilesAre
  <2>. QED BY <1>1, <2>1
<1>4. m = Mail(n.sender, n.receivers, n.title, n.body, TurnedAll(A)) /\ m.attachments = TurnedAll(A)
  BY <1>1, <1>2 DEF Arrived, Mail
<1>5. ASSUME NEW i \in 1..Len(A)
      PROVE  /\ TurnedAll(A)[i].filename = A[i].filename
             /\ Len(TurnedAll(A)[i].data) = Len(A[i].data) /\ A[i].data \in Seq(Symbol)
             /\ TurnedAll(A)[i].data = [A[i].data EXCEPT ![Len(A[i].data)] = NL]
  <2>1. PICK f, g : f = A[i] /\ g = TurnedAll(A)[i]
    OBVIOUS
  <2>2. f \in Files /\ g = Turned(f) /\ (Len(f.data) >= 2 => f.data[Len(f.data) - 1] # CR)
    BY <1>3, <2>1
  <2>3. g.filename = f.filename /\ Len(g.data) = Len(f.data)
    BY <2>2, TurnedIs
  <2>4. g.data = [f.data EXCEPT ![Len(f.data)] = NL]
    BY <2>2 DEF Turned
  <2>5. f.data \in Seq(Symbol)
    BY <2>2 DEF Files, Texts
  <2>. QED BY <2>1, <2>3, <2>4, <2>5
<1>6. m = [n EXCEPT !.attachments = m.attachments]
  <2>1. n = Mail(n.sender, n.receivers, n.title, n.body, A)
    BY <1>1, <1>2 DEF Writable
  <2>2. PICK s, r, t, b : s = n.sender /\ r = n.receivers /\ t = n.title /\ b = n.body
    OBVIOUS
  <2>3. n = Mail(s, r, t, b, A)
    BY <2>1, <2>2
  <2>4. PICK F : F = TurnedAll(A)
    OBVIOUS
  <2>5. [n EXCEPT !.attachments = F] = Mail(s, r, t, b, F)
    BY <2>3 DEF Mail
  <2>. QED BY <1>4, <2>2, <2>4, <2>5
<1>7. DOMAIN m.attachments = 1..Len(A) /\ Len(m.attachments) = Len(A)
  BY <1>3, <1>4
<1>8. \A i \in 1..Len(A) : /\ m.attachments[i].filename = A[i].filename
                          /\ Len(m.attachments[i].data) = Len(A[i].data) /\ A[i].data \in Seq(Symbol)
                          /\ m.attachments[i].data = [A[i].data EXCEPT ![Len(A[i].data)] = NL]
  BY <1>4, <1>5
<1>. QED BY <1>1, <1>3, <1>6, <1>7, <1>8 DEF LastTurned

(* The mail a client shows is the one handed out, as a reader has it. *)
LEMMA ArrivedSame ==
  ASSUME NEW n, Good(n)
  PROVE  SameRequest(Arrived(n), n)
<1>1. n.type = "SEND"
  BY GoodIsCarried
<1>2. PICK m, A : m = Arrived(n) /\ A = n.attachments
  OBVIOUS
<1>3. /\ m = [n EXCEPT !.attachments = m.attachments]
      /\ Len(m.attachments) = Len(A) /\ DOMAIN m.attachments = 1..Len(A)
      /\ \A i \in 1..Len(A) : /\ m.attachments[i].filename = A[i].filename
                              /\ Len(m.attachments[i].data) = Len(A[i].data)
                              /\ m.attachments[i].data = [A[i].data EXCEPT ![Len(A[i].data)] = NL]
  <2>1. LastTurned(m, n)
    BY <1>2, ArrivedFiles
  <2>. QED BY <1>2, <2>1 DEF LastTurned
<1>4. ASSUME NEW i \in 1..Len(A) PROVE Same(m.attachments[i], A[i])
  <2>1. Len(A[i].data) \in Nat
    <3>1. LastTurned(m, n)
      BY <1>2, ArrivedFiles
    <3>2. A[i].data \in Seq(Symbol)
      BY <1>2, <3>1 DEF LastTurned
    <3>. QED BY <3>2
  <2>2. Len(m.attachments[i].data) <= Len(A[i].data)
    <3>1. PICK p, q : p = Len(m.attachments[i].data) /\ q = Len(A[i].data)
      OBVIOUS
    <3>2. p = q /\ q \in Nat
      BY <1>3, <2>1, <3>1
    <3>. QED BY <3>1, <3>2
  <2>. QED BY <1>3, <2>2 DEF Same
<1>. QED BY <1>1, <1>2, <1>3, <1>4 DEF SameRequest

LEMMA ArrivedCopy ==
  ASSUME NEW n, Good(n)
  PROVE  Service!Copy(Arrived(n), n)
<1>1. PICK m, A : m = Arrived(n) /\ A = n.attachments
  OBVIOUS
<1>2. /\ m = [n EXCEPT !.attachments = m.attachments]
      /\ Len(m.attachments) = Len(A)
      /\ \A i \in 1..Len(A) : /\ m.attachments[i].filename = A[i].filename
                              /\ Len(m.attachments[i].data) = Len(A[i].data) /\ A[i].data \in Seq(Symbol)
                              /\ m.attachments[i].data = [A[i].data EXCEPT ![Len(A[i].data)] = NL]
  <2>1. LastTurned(m, n)
    BY <1>1, ArrivedFiles
  <2>. QED BY <1>1, <2>1 DEF LastTurned
<1>3. Service!Torn(m, n)
  <2>1. ASSUME NEW i \in 1..Len(A) PROVE Len(m.attachments[i].data) <= Len(A[i].data)
    <3>1. PICK d, p, q : d = A[i].data /\ p = Len(m.attachments[i].data) /\ q = Len(d)
      OBVIOUS
    <3>2. p = q /\ d \in Seq(Symbol)
      BY <1>2, <3>1
    <3>3. q \in Nat
      BY <3>1, <3>2
    <3>. QED BY <3>1, <3>2, <3>3
  <2>. QED BY <1>1, <1>2, <2>1 DEF Service!Torn
<1>4. ASSUME NEW i \in 1..Len(A), NEW k \in 1..(Len(A[i].data) - 1)
      PROVE  m.attachments[i].data[k] = A[i].data[k]
  <2>1. PICK d, l : d = A[i].data /\ l = Len(d)
    OBVIOUS
  <2>2. d \in Seq(Symbol) /\ m.attachments[i].data = [d EXCEPT ![l] = NL]
    BY <1>2, <2>1
  <2>3. k \in DOMAIN d /\ k # l
    <3>1. l \in Nat /\ k \in 1..(l - 1) /\ DOMAIN d = 1..l
      BY <1>4, <2>1, <2>2
    <3>. QED BY <3>1
  <2>. QED BY <2>1, <2>2, <2>3
<1>5. \A i \in 1..Len(A) : Len(m.attachments[i].data) = Len(A[i].data)
  BY <1>2
<1>6. \A i \in 1..Len(A) : \A k \in 1..(Len(A[i].data) - 1) : m.attachments[i].data[k] = A[i].data[k]
  BY <1>4
<1>. QED BY <1>1, <1>3, <1>5, <1>6 DEF Service!Copy

(* A mail is no longer than itself. *)
LEMMA FilesLast ==
  ASSUME NEW n, Good(n), NEW i \in 1..Len(n.attachments)
  PROVE  Len(n.attachments[i].data) <= Len(n.attachments[i].data)
<1>1. n.attachments[i] \in Files
  BY FilesAre DEF Good
<1>2. Len(n.attachments[i].data) \in 1..9
  BY <1>1, FileIs
<1>. QED BY <1>2

LEMMA GivenSame ==
  ASSUME Carried(request), NEW m, Given(m)
  PROVE  SameRequest(m, request)
<1>1. PICK n : n = request
  OBVIOUS
<1>2. Carried(n)
  BY <1>1
<1>3. CASE n.type = "SEND"
  <2>1. PICK A : A = n.attachments
    OBVIOUS
  <2>2. A \in Seq(Files) /\ Writable(n) /\ Plain(n)
    <3>1. Writable(n) /\ Plain(n)
      BY <1>2, <1>3, CarriedIs
    <3>2. n.attachments \in Seq(Files)
      BY <3>1, FilesAre
    <3>. QED BY <2>1, <3>1, <3>2
  <2> SUFFICES ASSUME m # Arrived(n) PROVE SameRequest(m, n)
    BY <1>1, <2>2, ArrivedSame DEF Good
  <2>3. \E F \in Seq(Files) :
          /\ m = Mail(n.sender, n.receivers, n.title, n.body, F) /\ Len(F) = Len(A)
          /\ \A i \in 1..Len(A) : Same(F[i], A[i])
    <3>2. CASE cpc = "gone" /\ Almost(m, n) /\ m # n
      <4>1. PICK F \in Seq(Files) :
              /\ m = Mail(n.sender, n.receivers, n.title, n.body, F) /\ Len(F) = Len(A)
              /\ \A i \in 1..Len(F) : /\ F[i].filename = A[i].filename
                                      /\ Len(F[i].data) <= Len(A[i].data)
        BY <1>3, <2>1, <3>2 DEF Almost, Resembles
      <4>2. \A i \in 1..Len(A) : Same(F[i], A[i])
        BY <3>2, <4>1 DEF Same
      <4>. QED BY <4>1, <4>2
    <3>3. CASE cpc = "gone" /\ m = n
      <4>1. n = Mail(n.sender, n.receivers, n.title, n.body, A)
        BY <2>1, <2>2 DEF Writable
      <4>2. \A i \in 1..Len(A) : Same(A[i], A[i])
        BY <2>1, <2>2, <3>3, FilesLast DEF Same, Good
      <4>. QED BY <2>2, <3>3, <4>1, <4>2
    <3>. QED BY <1>1, <3>2, <3>3 DEF Given
  <2>4. PICK F \in Seq(Files) :
          /\ m = Mail(n.sender, n.receivers, n.title, n.body, F) /\ Len(F) = Len(A)
          /\ \A i \in 1..Len(A) : Same(F[i], A[i])
    BY <2>3
  <2>5. m.attachments = F
    BY <2>4 DEF Mail
  <2>6. m = [n EXCEPT !.attachments = m.attachments]
    <3>1. n = Mail(n.sender, n.receivers, n.title, n.body, A)
      BY <2>1, <2>2 DEF Writable
    <3>2. PICK s, r, t, b : s = n.sender /\ r = n.receivers /\ t = n.title /\ b = n.body
      OBVIOUS
    <3>3. n = Mail(s, r, t, b, A)
      BY <3>1, <3>2
    <3>4. [n EXCEPT !.attachments = F] = Mail(s, r, t, b, F)
      BY <3>3 DEF Mail
    <3>. QED BY <2>4, <2>5, <3>2, <3>4
  <2>7. DOMAIN m.attachments = 1..Len(A)
    BY <2>4, <2>5
  <2>. QED BY <1>1, <1>3, <2>1, <2>4, <2>5, <2>6, <2>7 DEF SameRequest
<1>4. CASE n.type # "SEND"
  <2>1. n \in Orders /\ Arrived(n) = n
    BY <1>2, <1>4, CarriedIs, ArrivedIs
  <2>2. m = n \/ (cpc = "gone" /\ CutShort(m, n))
    <3>1. CASE m = Arrived(n)
      BY <2>1, <3>1
    <3>2. CASE cpc = "gone" /\ n.type = "LIST" /\ \E u \in LineSet : Stub(u, n.user) /\ m = [type |-> "LIST", user |-> u]
      <4>1. PICK u \in LineSet : Stub(u, n.user) /\ m = [type |-> "LIST", user |-> u]
        BY <3>2
      <4>2. PICK v \in Words : n = [type |-> "LIST", user |-> v]
        <5>1. \/ \E z \in Words : n = [type |-> "LIST", user |-> z]
              \/ n.type # "LIST"
          BY <2>1, OrderIs
        <5>. QED BY <3>2, <5>1
      <4>3. m.user = u /\ n.user = v
        BY <4>1, <4>2
      <4>4. [n EXCEPT !.user = u] = [type |-> "LIST", user |-> u]
        BY <4>2
      <4>5. CutLine(u, v)
        BY <4>1, <4>3 DEF Stub, CutLine
      <4>. QED BY <3>2, <4>1, <4>3, <4>4, <4>5 DEF CutShort
    <3>3. CASE cpc = "gone" /\ n.type = "LOGIN" /\ \E w \in LineSet : /\ Stub(w, n.password)
                                            /\ m = [type |-> "LOGIN", user |-> n.user, password |-> w]
      <4>1. PICK w \in LineSet : Stub(w, n.password) /\ m = [type |-> "LOGIN", user |-> n.user, password |-> w]
        BY <3>3
      <4>2. PICK u \in Words, v \in Words : n = [type |-> "LOGIN", user |-> u, password |-> v]
        <5>1. \/ \E z, y \in Words : n = [type |-> "LOGIN", user |-> z, password |-> y]
              \/ n.type # "LOGIN"
          BY <2>1, OrderIs
        <5>. QED BY <3>3, <5>1
      <4>3. m.password = w /\ n.password = v /\ n.user = u
        BY <4>1, <4>2
      <4>4. [n EXCEPT !.password = w] = [type |-> "LOGIN", user |-> u, password |-> w]
        BY <4>2
      <4>5. CutLine(w, v)
        BY <4>1, <4>3 DEF Stub, CutLine
      <4>. QED BY <3>3, <4>1, <4>3, <4>4, <4>5 DEF CutShort
    <3>4. CASE cpc = "gone" /\ n.type \in {"READ", "DEL"} /\ \E k \in 0..9 :
                 k <= n.index /\ m = [type |-> n.type, user |-> n.user, index |-> k]
      <4>1. PICK k \in 0..9 : k <= n.index /\ m = [type |-> n.type, user |-> n.user, index |-> k]
        BY <3>4
      <4>2. PICK u \in Words, i \in 0..9, t \in {"READ", "DEL"} : n = [type |-> t, user |-> u, index |-> i]
        BY <2>1, <3>4, OrderIs
      <4>3. m.index = k /\ m = [n EXCEPT !.index = k]
        BY <4>1, <4>2
      <4>. QED BY <3>4, <4>1, <4>3 DEF CutShort
    <3>5. CASE m = n
      BY <3>5
    <3>. QED BY <1>1, <1>4, <3>1, <3>2, <3>3, <3>4, <3>5 DEF Given, Almost
  <2>. QED BY <1>1, <1>4, <2>2 DEF SameRequest
<1>. QED BY <1>3, <1>4

(* What is delivered of a mail: a copy, or, of one whose sender left, its outline. *)
LEMMA GivenCopy ==
  ASSUME Carried(request), NEW m, Given(m), request.type = "SEND"
  PROVE  /\ m.type = "SEND" /\ m.receivers = request.receivers
         /\ Service!Torn(m, request) /\ (cpc # "gone" => Service!Copy(m, request))
<1>1. PICK n : n = request
  OBVIOUS
<1>2. Good(n) /\ n.type = "SEND"
  BY <1>1, SendIsGood
<1>3. CASE m = Arrived(n)
  <2>1. Service!Copy(m, n)
    BY <1>2, <1>3, ArrivedCopy
  <2>2. m.type = "SEND" /\ m.receivers = n.receivers
    BY <1>2, <1>3 DEF Arrived, Mail
  <2>. QED BY <1>1, <2>1, <2>2 DEF Service!Copy
<1>4. CASE m # Arrived(n)
  <2>1. cpc = "gone" /\ Almost(m, n)
    BY <1>1, <1>4 DEF Given
  <2>2. PICK A : A = n.attachments
    OBVIOUS
  <2>3. n = Mail(n.sender, n.receivers, n.title, n.body, A)
    BY <1>2, <2>2 DEF Good, Writable
  <2>4. CASE m = n
    <3>1. m = [n EXCEPT !.attachments = m.attachments]
      BY <2>3, <2>4 DEF Mail
    <3>2. \A i \in 1..Len(A) : Len(A[i].data) <= Len(A[i].data)
      BY <1>2, <2>2, FilesLast
    <3>. QED BY <1>1, <1>2, <2>1, <2>2, <2>4, <3>1, <3>2 DEF Service!Torn
  <2>5. CASE m # n
    <3>1. PICK F \in Seq(Files) :
            /\ m = Mail(n.sender, n.receivers, n.title, n.body, F) /\ Len(F) = Len(A)
            /\ \A i \in 1..Len(F) : /\ F[i].filename = A[i].filename
                                    /\ Len(F[i].data) <= Len(A[i].data)
      BY <1>2, <2>1, <2>2, <2>5 DEF Almost, Resembles
    <3>2. m.attachments = F /\ m.type = "SEND" /\ m.receivers = n.receivers
      BY <3>1 DEF Mail
    <3>3. m = [n EXCEPT !.attachments = m.attachments]
      <4>1. PICK s, r, t, b : s = n.sender /\ r = n.receivers /\ t = n.title /\ b = n.body
        OBVIOUS
      <4>2. n = Mail(s, r, t, b, A) /\ m = Mail(s, r, t, b, F)
        BY <2>3, <3>1, <4>1
      <4>3. [n EXCEPT !.attachments = F] = Mail(s, r, t, b, F)
        BY <4>2 DEF Mail
      <4>. QED BY <3>2, <4>2, <4>3
    <3>4. Service!Torn(m, n)
      BY <2>2, <3>1, <3>2, <3>3 DEF Service!Torn
    <3>. QED BY <1>1, <2>1, <3>2, <3>4
  <2>. QED BY <2>4, <2>5
<1>. QED BY <1>3, <1>4

(* Where its sender left, a DEL is of the user's mails, and a password of one byte
   that is no digit is whole. *)
LEMMA GivenOrder ==
  ASSUME Asked, NEW m, Given(m)
  PROVE  /\ request.type = "DEL" => m.user = request.user
         /\ request.type = "LOGIN" => m.password = request.password
<1>1. PICK n : n = request
  OBVIOUS
<1>2. Carried(n) /\ (n.type = "LOGIN" => Len(n.password) = 1 /\ ~IsNumber(n.password))
  BY <1>1 DEF Asked
<1>3. CASE m = Arrived(n)
  BY <1>1, <1>2, <1>3, ArrivedIs
<1>4. CASE m # Arrived(n)
  <2>1. Almost(m, n)
    BY <1>1, <1>4 DEF Given
  <2>2. n.type = "DEL" => m.user = n.user
    BY <2>1 DEF Almost
  <2>3. ASSUME n.type = "LOGIN", m # n PROVE m.password = n.password
    <3>1. PICK w \in LineSet : /\ Stub(w, n.password)
                               /\ m = [type |-> "LOGIN", user |-> n.user, password |-> w]
      BY <2>1, <2>3 DEF Almost
    <3>2. n.password \in LineSet
      <4>1. n \in Orders
        BY <1>2, <2>3, CarriedIs
      <4>2. PICK u \in Words, v \in Words : n = [type |-> "LOGIN", user |-> u, password |-> v]
        BY <2>3, <4>1, OrderIs
      <4>. QED BY <4>2, WordsAre
    <3>3. w = n.password
      BY <1>2, <2>3, <3>1, <3>2, StubIs
    <3>. QED BY <3>1, <3>3
  <2>. QED BY <1>1, <2>2, <2>3
<1>. QED BY <1>3, <1>4

-----------------------------------------------------------------------------
(* The mailboxes. *)
LEMMA OldCount == Cardinality(OldMails) \in Nat /\ IsFiniteSet(OldMails) /\ MaxRequests \in Nat
                  /\ Cardinality(OldMails) + MaxRequests <= 9
BY SessionAssumption, FS_CardinalityType

LEMMA HoldsAtFirst ==
  ASSUME \A m \in OldMails : Good(m)
  PROVE  Holds({<<Name, m>> : m \in OldMails}, 0)
<1>1. PICK B, f : B = {<<Name, m>> : m \in OldMails} /\ f = [m \in OldMails |-> <<Name, m>>]
  OBVIOUS
<1>2. \A b \in B : b[1] = Name /\ Good(b[2])
  BY <1>1
<1>3. Mine(B) = B
  BY <1>2 DEF Mine
<1>4. f \in Surjection(OldMails, B)
  BY <1>1 DEF Surjection
<1>5. IsFiniteSet(B) /\ Cardinality(B) <= Cardinality(OldMails)
  BY <1>4, OldCount, FS_Surjection
<1>6. Cardinality(B) \in Nat
  BY <1>5, FS_CardinalityType
<1>7. Cardinality(B) <= Cardinality(OldMails) + 0
  BY <1>5, <1>6, OldCount
<1>. QED BY <1>1, <1>2, <1>3, <1>5, <1>7 DEF Holds

LEMMA HoldsLess ==
  ASSUME NEW B, NEW k \in Nat, Holds(B, k), NEW C, C \subseteq B
  PROVE  Holds(C, k) /\ Holds(C, k + 1)
<1>1. PICK M, N, i, j : M = Mine(B) /\ N = Mine(C) /\ i = Cardinality(M) /\ j = Cardinality(N)
  OBVIOUS
<1>2. IsFiniteSet(M) /\ i <= Cardinality(OldMails) + k /\ N \subseteq M
  BY <1>1 DEF Holds, Mine
<1>3. IsFiniteSet(N) /\ j <= i
  BY <1>1, <1>2, FS_Subset
<1>4. i \in Nat /\ j \in Nat
  BY <1>1, <1>2, <1>3, FS_CardinalityType
<1>5. j <= Cardinality(OldMails) + k /\ j <= Cardinality(OldMails) + (k + 1)
  BY <1>2, <1>3, <1>4, OldCount
<1>6. \A b \in C : Good(b[2])
  BY DEF Holds
<1>. QED BY <1>1, <1>3, <1>5, <1>6 DEF Holds

LEMMA HoldsMore ==
  ASSUME NEW B, NEW k \in Nat, Holds(B, k), NEW m, Good(m), NEW C,
         \A c \in C : c \in B \/ \E r : c = <<r, m>>
  PROVE  Holds(C, k + 1)
<1>1. PICK M, N, x, i, j : /\ M = Mine(B) /\ N = Mine(C) /\ x = <<Name, m>>
                           /\ i = Cardinality(M) /\ j = Cardinality(N)
  OBVIOUS
<1>2. IsFiniteSet(M) /\ i <= Cardinality(OldMails) + k
  BY <1>1 DEF Holds
<1>3. N \subseteq M \cup {x}
  <2>1. ASSUME NEW c \in N PROVE c \in M \cup {x}
    <3>1. c \in C /\ c[1] = Name
      BY <1>1, <2>1 DEF Mine
    <3>2. CASE c \in B
      BY <1>1, <3>1, <3>2 DEF Mine
    <3>3. CASE \E r : c = <<r, m>>
      BY <1>1, <3>1, <3>3
    <3>. QED BY <3>1, <3>2, <3>3
  <2>. QED BY <2>1
<1>4. PICK P, p : P = M \cup {x} /\ p = Cardinality(P)
  OBVIOUS
<1>5. IsFiniteSet(P) /\ i \in Nat /\ p <= i + 1
  <2>1. i \in Nat
    BY <1>1, <1>2, FS_CardinalityType
  <2>2. /\ IsFiniteSet(M \cup {x})
        /\ Cardinality(M \cup {x}) = IF x \in M THEN Cardinality(M) ELSE Cardinality(M) + 1
    BY <1>2, FS_AddElement
  <2>3. p = IF x \in M THEN i ELSE i + 1
    BY <1>1, <1>4, <2>2
  <2>. QED BY <1>4, <2>1, <2>2, <2>3
<1>6. IsFiniteSet(N) /\ j <= p
  BY <1>1, <1>3, <1>4, <1>5, FS_Subset
<1>7. p \in Nat /\ j \in Nat
  BY <1>1, <1>4, <1>5, <1>6, FS_CardinalityType
<1>8. j <= Cardinality(OldMails) + (k + 1)
  BY <1>2, <1>5, <1>6, <1>7, OldCount
<1>9. \A c \in C : Good(c[2])
  BY DEF Holds
<1>. QED BY <1>1, <1>6, <1>8, <1>9 DEF Holds

(* The titles of some of a user's mails, in the order they are listed. *)
LEMMA ListOrder ==
  ASSUME NEW S, IsFiniteSet(S), Cardinality(S) <= 9, \A b \in S : Good(b[2])
  PROVE  LET order == SetToSeq(S)
             ts == [i \in DOMAIN order |-> order[i][2].title]
         IN  /\ ts \in Seq(Titles) /\ Len(ts) = Len(order) /\ Len(ts) <= 9
             /\ order \in Bijection(1..Len(ts), S)
             /\ \A i \in 1..Len(ts) : ts[i] = order[i][2].title
<1>1. PICK c, f, ts : /\ c = Cardinality(S) /\ f = SetToSeq(S)
                      /\ ts = [i \in DOMAIN f |-> f[i][2].title]
  OBVIOUS
<1>2. c \in Nat /\ ExistsBijection(1..c, S)
  BY <1>1, FS_CardinalityType
<1>3. \E g \in [1..c -> S] : IsInjective(g)
  <2>1. PICK g \in Bijection(1..c, S) : TRUE
    BY <1>2 DEF ExistsBijection
  <2>2. g \in [1..c -> S] /\ \A i, j \in 1..c : g[i] = g[j] => i = j
    BY <2>1 DEF Bijection, Injection, IsInjective
  <2>3. DOMAIN g = 1..c
    BY <2>2
  <2>. QED BY <2>2, <2>3 DEF IsInjective
<1>4. f \in [1..c -> S] /\ IsInjective(f)
  BY <1>1, <1>3 DEF SetToSeq
<1>5. f \in Seq(S) /\ Len(f) = c /\ DOMAIN f = 1..c
  <2>1. f \in Seq(S)
    BY <1>2, <1>4, FunctionIsSeq
  <2>. QED BY <1>2, <1>4, <2>1
<1>6. \A i \in 1..c : f[i][2].title \in Titles
  <2>1. \A b \in S : b[2].title \in Titles
    <3>1. \A m : Good(m) => m.title \in Titles
      BY DEF Good, Writable, Plain, Titles, Words, LineSet, Texts, IsWord, IsLine
    <3>. QED BY <3>1
  <2>. QED BY <1>4, <2>1
<1>7. ts \in [1..c -> Titles]
  BY <1>1, <1>5, <1>6
<1>8. ts \in Seq(Titles)
  BY <1>2, <1>7, FunctionIsSeq
<1>9. Len(ts) = c
  BY <1>2, <1>7, <1>8
<1>10. f \in Bijection(1..c, S)
  <2>1. \A a, b \in 1..c : f[a] = f[b] => a = b
    BY <1>4 DEF IsInjective
  <2>2. f \in Injection(1..c, S)
    BY <1>4, <2>1, Fun_IsInj
  <2>3. f \in Surjection(1..c, S)
    <3>1. IsFiniteSet(1..c) /\ Cardinality(1..c) = c
      BY <1>2, FS_Interval
    <3>. QED BY <1>1, <2>2, <3>1, FS_Injection
  <2>. QED BY <2>2, <2>3 DEF Bijection
<1>11. \A i \in 1..c : ts[i] = f[i][2].title
  BY <1>1, <1>5
<1>. QED BY <1>1, <1>5, <1>8, <1>9, <1>10, <1>11

-----------------------------------------------------------------------------
(* Each step of the client. *)
LEMMA PlainIsGood ==
  ASSUME AllPlain, NEW m \in sent \cup OldMails, sent \subseteq Drafts
  PROVE  Good(m)
BY SessionAssumption DEF AllPlain, Good

LEMMA InitAgrees == ASSUME Init, AllPlain PROVE Agree
<1>1. Holds(box, served.nth) /\ served.nth = 0 /\ asks = 0
  <2>1. sent = {}
    BY DEF Init
  <2>2. \A m \in OldMails : Good(m)
    BY <2>1, PlainIsGood
  <2>. QED BY <2>2, HoldsAtFirst DEF Init
<1>2. Idle(parser) /\ Idle(NewParser)
  BY DEF Init, NewParser, Idle, Parser
<1>3. Fresh(resp)
  <2>1. resp = Resp("new", 0, <<>>, NewParser)
    BY DEF Init, NewResponse, Resp
  <2>. QED BY <1>2, <2>1 DEF Fresh
<1>4. Seen
  BY DEF Init, Nothing, Seen
<1>5. AtStart
  BY <1>1, <1>2, <1>3, <1>4 DEF Init, AtStart, Quiet
<1>6. ~user.loggedIn
  BY DEF Init, LoggedOut
<1>. QED BY <1>1, <1>5, <1>6 DEF Agree

LEMMA ConnectAgrees == ASSUME Agree, Connect PROVE Agree'
<1>1. AtStart
  BY DEF Connect, Agree, AtWelcome, AtMenu, Asking, Answering, Closing, Left
<1>2. AtWelcome'
  BY <1>1 DEF Connect, AtStart, AtWelcome, Quiet, Seen
<1>3. UNCHANGED <<user, loggedIn, served, box>> /\ cpc # "gone"
  BY DEF Connect
<1>. QED BY <1>2, <1>3 DEF Agree

LEMMA GoneAsked == ASSUME Asking, served.nth \in Nat, asks \in Nat PROVE GoneAsking
BY DEF Asking, GoneAsking, Shorter

(* Whatever it was doing, a client that ends leaves the server with nothing, or with
   the start of a request. *)
LEMMA LeaveAgrees ==
  ASSUME Agree, asks \in Nat, Leave, cpc # "gone", UNCHANGED <<server, c2s>>
  PROVE  Agree'
<1>1. UNCHANGED <<request, user, asks, parser, loggedIn, box, served>> /\ c2s' = c2s /\ cpc' = "gone"
      /\ out' = <<>> /\ s2c' = <<>>
  BY DEF Leave, server
<1>2. GoneQuiet \/ GoneAsking
  <2>1. CASE AtStart \/ AtWelcome \/ AtMenu
    <3>1. Quiet
      BY <2>1 DEF AtStart, AtWelcome, AtMenu
    <3>. QED BY <3>1, IdleAwaits DEF Quiet, GoneQuiet, Agree
  <2>2. CASE Asking
    BY <2>2, GoneAsked DEF Agree
  <2>3. CASE Answering \/ Closing
    BY <2>3, IdleAwaits DEF Answering, Closing, GoneQuiet, Agree
  <2>. QED BY <2>1, <2>2, <2>3 DEF Agree, Left
<1>3. GoneQuiet' \/ GoneAsking'
  <2>1. CASE GoneQuiet
    BY <1>1, <2>1 DEF GoneQuiet
  <2>2. CASE GoneAsking
    BY <1>1, <2>2 DEF GoneAsking, Asked
  <2>. QED BY <1>2, <2>1, <2>2
<1>4. Left'
  BY <1>1, <1>3 DEF Left
<1>. QED BY <1>1, <1>4 DEF Agree

LEMMA WelcomedAgrees == ASSUME Agree, Welcomed PROVE Agree'
<1>1. AtWelcome /\ spc = "serving" /\ s2c = <<"1">>
  BY DEF Welcomed, Agree, AtStart, AtWelcome, AtMenu, Asking, Answering, Closing, Left, Greeting
<1>2. Tail(s2c) = <<>>
  BY <1>1
<1>3. AtMenu'
  BY <1>1, <1>2 DEF Welcomed, AtWelcome, AtMenu, Quiet, Seen, server
<1>4. UNCHANGED <<user, loggedIn, served, box>> /\ cpc # "gone"
  BY DEF Welcomed, server
<1>. QED BY <1>3, <1>4 DEF Agree

LEMMA OrderCarried ==
  ASSUME NEW m \in Orders,
         m.type \in {"LIST", "READ", "DEL", "LOGIN"} => Short(m.user),
         m.type = "LOGIN" => Short(m.password)
  PROVE  Carried(m)
<1>1. PICK ls : ls = Leading(m)
  OBVIOUS
<1>2. CASE \E u \in Words : m = [type |-> "LIST", user |-> u]
  <2>1. m.type = "LIST" /\ Short(m.user) /\ Short(<<"LIST">>)
    BY <1>2, MarksShort
  <2>2. ls = <<<<"LIST">>, m.user>>
    BY <1>1, <2>1 DEF Leading
  <2>3. Len(ls) = 2 /\ ls[1] = <<"LIST">> /\ ls[2] = m.user
    BY <2>2
  <2>4. \A i \in 1..2 : Short(ls[i])
    BY <2>1, <2>3
  <2>. QED BY <1>1, <2>3, <2>4 DEF Carried
<1>3. CASE \E u \in Words, n \in 0..9, t \in {"READ", "DEL"} : m = [type |-> t, user |-> u, index |-> n]
  <2>1. PICK u \in Words, n \in 0..9, t \in {"READ", "DEL"} : m = [type |-> t, user |-> u, index |-> n]
    BY <1>3
  <2>2. m.type = t /\ m.user = u /\ m.index = n /\ Short(u) /\ Short(<<t>>) /\ Short(Number(n))
    BY <2>1, MarksShort
  <2>3. PICK num : num = Number(n)
    OBVIOUS
  <2>4. ls = <<<<t>>, u, num>>
    BY <1>1, <2>2, <2>3 DEF Leading
  <2>5. Len(ls) = 3 /\ ls[1] = <<t>> /\ ls[2] = u /\ ls[3] = num
    BY <2>4
  <2>6. \A i \in 1..3 : Short(ls[i])
    BY <2>2, <2>3, <2>5
  <2>. QED BY <1>1, <2>5, <2>6 DEF Carried
<1>4. CASE \E u \in Words, v \in Words : m = [type |-> "LOGIN", user |-> u, password |-> v]
  <2>1. m.type = "LOGIN" /\ Short(m.user) /\ Short(m.password) /\ Short(<<"LOGIN">>)
    BY <1>4, MarksShort
  <2>2. ls = <<<<"LOGIN">>, m.user, m.password>>
    BY <1>1, <2>1 DEF Leading
  <2>3. Len(ls) = 3 /\ ls[1] = <<"LOGIN">> /\ ls[2] = m.user /\ ls[3] = m.password
    BY <2>2
  <2>4. \A i \in 1..3 : Short(ls[i])
    BY <2>1, <2>3
  <2>. QED BY <1>1, <2>3, <2>4 DEF Carried
<1>5. CASE m = [type |-> "QUIT"]
  <2>1. m.type = "QUIT" /\ Short(<<"QUIT">>)
    BY <1>5, MarksShort
  <2>2. ls = <<<<"QUIT">>>>
    BY <1>1, <2>1 DEF Leading
  <2>3. Len(ls) = 1 /\ ls[1] = <<"QUIT">>
    BY <2>2
  <2>4. \A i \in 1..1 : Short(ls[i])
    BY <2>1, <2>3
  <2>. QED BY <1>1, <2>3, <2>4 DEF Carried
<1>. QED BY <1>2, <1>3, <1>4, <1>5, OrderIs

LEMMA Menus ==
  ASSUME NEW m \in (IF user.loggedIn THEN MainMenu ELSE LoginMenu) \cup {Quit}
  PROVE  /\ (m \in Drafts /\ m.type = "SEND") \/ (m \in Orders /\ Carried(m))
         /\ m.type = "LIST" => m.user = Name
         /\ m.type = "LOGIN" => Len(m.password) = 1 /\ ~IsNumber(m.password)
         /\ IF user.loggedIn THEN m.type # "LOGIN" ELSE m.type \in {"LOGIN", "QUIT"}
<1>1. Name \in Words /\ Short(Name)
  BY SessionAssumption DEF Words, LineSet, Texts, IsWord, IsLine
<1>2. \A p \in {<<"right">>, <<"wrong">>} : p \in Words /\ Len(p) = 1 /\ ~IsNumber(p) /\ Short(p)
  <2>1. ASSUME NEW x \in {"right", "wrong"}
        PROVE  <<x>> \in Words /\ Len(<<x>>) = 1 /\ ~IsNumber(<<x>>) /\ Short(<<x>>)
    <3>1. x \in Symbol /\ x # NL /\ x # CR
      BY SessionAssumption, <2>1 DEF NL, CR
    <3>2. <<x>> \in Seq(Symbol) /\ Len(<<x>>) = 1 /\ <<x>>[1] = x /\ <<x>> # <<>>
      BY <3>1
    <3>3. ToSet(<<x>>) = {x}
      BY <3>2 DEF ToSet
    <3>4. ~IsNumber(<<x>>)
      <4>1. \A i \in 0..9 : Digits[i + 1] # x
        BY <2>1 DEF Digits
      <4>2. \A i \in 0..9 : <<x>> = Number(i) => x = Digits[i + 1]
        BY DEF Number
      <4>. QED BY <4>1, <4>2 DEF IsNumber
    <3>. QED BY <3>1, <3>2, <3>3, <3>4, MarksShort DEF Words, LineSet, Texts, IsWord, IsLine
  <2>. QED BY <2>1
<1>3. \A d \in Drafts : d.type = "SEND"
  BY SessionAssumption DEF Writable, Mail
<1>4. Quit \in Orders /\ Quit.type = "QUIT" /\ Carried(Quit)
  <2>1. Quit \in Orders /\ Quit.type = "QUIT"
    BY DEF Quit, Orders
  <2>. QED BY <2>1, OrderCarried
<1>5. CASE user.loggedIn /\ m \in Drafts
  BY <1>3, <1>5
<1>6. CASE user.loggedIn /\ m \in [type : {"LIST"}, user : {Name}]
  <2>1. m \in Orders /\ m.type = "LIST" /\ m.user = Name
    BY <1>1, <1>6 DEF Orders
  <2>. QED BY <1>1, <1>6, <2>1, OrderCarried
<1>7. CASE user.loggedIn /\ m \in [type : {"READ", "DEL"}, user : {Name}, index : {2}]
  <2>1. m \in Orders /\ m.type \in {"READ", "DEL"} /\ m.user = Name
    BY <1>1, <1>7 DEF Orders
  <2>. QED BY <1>1, <1>7, <2>1, OrderCarried
<1>8. CASE ~user.loggedIn /\ m \in LoginMenu
  <2>1. m.type = "LOGIN" /\ m.user = Name /\ m.password \in {<<"right">>, <<"wrong">>}
    BY <1>8 DEF LoginMenu
  <2>2. m = [type |-> "LOGIN", user |-> m.user, password |-> m.password]
    BY <1>8 DEF LoginMenu
  <2>3. m \in Orders
    BY <1>1, <1>2, <2>1, <2>2 DEF Orders
  <2>. QED BY <1>1, <1>2, <1>8, <2>1, <2>3, OrderCarried
<1>9. CASE m = Quit
  BY <1>4, <1>9
<1>. QED BY <1>5, <1>6, <1>7, <1>8, <1>9 DEF MainMenu

LEMMA ChooseAgrees == ASSUME SessionInv, AllPlain', Agree, Choose PROVE Agree'
<1>1. PICK m \in (IF user.loggedIn THEN MainMenu ELSE LoginMenu) \cup {Quit} :
        /\ request' = m /\ out' = Deflate(m)
        /\ user' = IF m.type = "LOGIN" THEN [user EXCEPT !.name = m.user] ELSE user
        /\ sent' = IF m.type = "SEND" THEN sent \cup {m} ELSE sent
  BY DEF Choose
<1>2. AtMenu /\ cpc' = "wait" /\ asks' = asks + 1 /\ UNCHANGED <<resp, shown, spc, parser, loggedIn, box, served, c2s, s2c>>
  BY DEF Choose, server, Agree, AtStart, AtWelcome, AtMenu, Asking, Answering, Closing, Left
<1>3. user'.loggedIn = user.loggedIn
  BY <1>1 DEF SessionInv
<1>4. Carried(m)
  <2>1. CASE m \in Drafts /\ m.type = "SEND"
    <3>1. m \in sent'
      BY <1>1, <2>1
    <3>2. Writable(m) /\ Plain(m)
      BY <2>1, <3>1, SessionAssumption DEF AllPlain
    <3>. QED BY <3>2 DEF Carried
  <2>. QED BY <2>1, Menus
<1>5. Asked'
  BY <1>1, <1>3, <1>4, Menus DEF Asked
<1>6. Expect(parser, Deflate(m), m)
  BY <1>2, <1>4, ExpectAll DEF AtMenu, Quiet
<1>7. Deflate(m) \in Texts
  BY <1>4, <1>6, ExpectSome
<1>8. c2s = <<>> /\ c2s \o Deflate(m) = Deflate(m) /\ c2s \in Texts
  <2>1. c2s = <<>>
    BY <1>2 DEF AtMenu, Quiet
  <2>2. <<>> \o Deflate(m) = Deflate(m)
    BY <1>7 DEF Texts
  <2>. QED BY <2>1, <2>2, TextsAre
<1>9. Expect(parser', c2s' \o out', request')
  BY <1>1, <1>2, <1>6, <1>8
<1>10. Asking'
  BY <1>1, <1>2, <1>5, <1>7, <1>8, <1>9 DEF Asking, AtMenu, Quiet
<1>11. cpc # "gone"
  BY <1>2 DEF AtMenu
<1>. QED BY <1>2, <1>3, <1>10, <1>11 DEF Agree

LEMMA TransmitAgrees == ASSUME Agree, Transmit PROVE Agree'
<1>1. PICK n \in 1..Len(out) : /\ c2s' = c2s \o SubSeq(out, 1, n)
                               /\ out' = SubSeq(out, n + 1, Len(out))
  BY DEF Transmit
<1>2. Asking /\ UNCHANGED <<cpc, request, user, resp, asks, spc, parser, loggedIn, box, served, s2c>>
  BY DEF Transmit, server, Agree, AtStart, AtWelcome, AtMenu, Answering, Closing, Left, Quiet
<1>3. c2s \in Texts /\ out \in Texts /\ Len(out) \in Nat /\ n \in Nat /\ n <= Len(out) /\ n > 0
  BY <1>1, <1>2, TextsAre DEF Asking
<1>4. PICK a, b : a = SubSeq(out, 1, n) /\ b = SubSeq(out, n + 1, Len(out))
  OBVIOUS
<1>5. a \in Texts /\ b \in Texts /\ a \o b = out
  <2>1. out \in Seq(Symbol)
    BY <1>3 DEF Texts
  <2>2. /\ SubSeq(out, 1, n) \in Seq(Symbol)
        /\ SubSeq(out, n + 1, Len(out)) \in Seq(Symbol)
        /\ SubSeq(out, 1, n) \o SubSeq(out, n + 1, Len(out)) = out
    BY <1>3, <2>1
  <2>. QED BY <1>4, <2>2 DEF Texts
<1>6. c2s' = c2s \o a /\ out' = b
  BY <1>1, <1>4
<1>7. c2s \o a \in Texts /\ (c2s \o a) \o b = c2s \o out
  <2>1. (c2s \o a) \o b = c2s \o (a \o b)
    <3>1. \A x, y, z \in Texts : (x \o y) \o z = x \o (y \o z)
      BY TextsAre
    <3>. QED BY <1>3, <1>5, <3>1
  <2>. QED BY <1>3, <1>5, <2>1, TextsAre
<1>8. Expect(parser', c2s' \o out', request')
  BY <1>2, <1>6, <1>7 DEF Asking
<1>9. Asking'
  BY <1>2, <1>5, <1>6, <1>7, <1>8 DEF Asking, Asked
<1>. QED BY <1>2, <1>9 DEF Agree, Asking

-----------------------------------------------------------------------------
(* Each step of the server but for those that read. *)
LEMMA GreetAgrees == ASSUME Agree, Greet PROVE Agree'
<1>1. UNCHANGED <<cpc, request, user, resp, out, asks, shown, parser, loggedIn, box, served, handed, c2s>>
      /\ spc = "start"
  BY DEF Greet, client
<1>2. CASE AtWelcome
  <2>1. AtWelcome'
    BY <1>1, <1>2 DEF Greet, AtWelcome, Quiet, Seen
  <2>. QED BY <1>1, <2>1 DEF Agree
<1>3. CASE Left
  <2>1. s2c' = <<>>
    BY <1>3 DEF Greet, Left
  <2>2. GoneQuiet' \/ GoneAsking'
    BY <1>1, <1>3 DEF Left, GoneQuiet, GoneAsking, Asked
  <2>3. Left'
    BY <1>1, <1>3, <2>1, <2>2 DEF Left
  <2>. QED BY <1>1, <2>3 DEF Agree
<1>. QED BY <1>1, <1>2, <1>3 DEF Agree, AtStart, AtMenu, Asking, Answering, Closing

LEMMA LeftIs == ASSUME Agree, cpc = "gone" PROVE Left
BY DEF Agree, AtStart, AtWelcome, AtMenu, Asking, Answering, Closing

LEMMA DisconnectedAgrees == ASSUME Agree, Disconnected PROVE Agree'
<1>1. UNCHANGED <<cpc, request, user, out, asks, parser, loggedIn, box, served, c2s, s2c>> /\ Left
  BY LeftIs DEF Disconnected, client
<1>2. GoneQuiet' \/ GoneAsking'
  BY <1>1 DEF Left, GoneQuiet, GoneAsking, Asked
<1>3. Left'
  BY <1>1, <1>2 DEF Left
<1>. QED BY <1>1, <1>3 DEF Agree, Left

LEMMA ResetAgrees == ASSUME Agree, Reset PROVE Agree'
<1>1. UNCHANGED <<cpc, request, user, out, asks, parser, loggedIn, box, served, s2c>> /\ Left
      /\ c2s # <<>> /\ c2s' = <<>>
  BY LeftIs DEF Reset, client, server
<1>2. GoneAsking
  BY <1>1 DEF Left, GoneQuiet
<1>3. PICK n, x : Shorter(n, request) /\ x \in Texts /\ Expect(parser, c2s \o x, n)
  BY <1>2 DEF GoneAsking
<1>4. PICK y : y = c2s \o x
  OBVIOUS
<1>5. y \in Texts /\ <<>> \o y = y /\ <<>> \in Texts
  <2>1. y \in Texts
    BY <1>2, <1>3, <1>4, TextsAre DEF GoneAsking
  <2>. QED BY <2>1, TextsAre DEF Texts
<1>6. Expect(parser', c2s' \o y, n) /\ Shorter(n, request')
  BY <1>1, <1>3, <1>4, <1>5
<1>7. Asked' /\ served'.nth + 1 = asks'
  BY <1>1, <1>2 DEF GoneAsking, Asked
<1>8. GoneAsking'
  BY <1>1, <1>5, <1>6, <1>7 DEF GoneAsking
<1>9. Left'
  BY <1>1, <1>8 DEF Left
<1>. QED BY <1>1, <1>9 DEF Agree, Left

-----------------------------------------------------------------------------
(* The handlers.  Whatever a request leads to, to a client that is gone nothing is
   sent. *)
LEMMA ReplyGone ==
  ASSUME cpc = "gone", s2c = <<>>, NEW lines, Reply(lines)
  PROVE  s2c' = <<>>
BY DEF Reply

LEMMA ReplyHere ==
  ASSUME cpc # "gone", s2c = <<>>, NEW lines \in Texts, Reply(lines)
  PROVE  s2c' = lines /\ spc' = spc
<1>1. <<>> \o lines = lines
  BY DEF Texts
<1>. QED BY <1>1 DEF Reply

LEMMA AnswerTexts == Text(<<<<"OK">>>>) \in Texts /\ Text(<<<<"ERR">>>>) \in Texts
                     /\ <<"OK">> \in LineSet /\ <<"ERR">> \in LineSet
<1>1. ASSUME NEW a \in {"OK", "ERR"}
      PROVE  <<a>> \in LineSet /\ Text(<<<<a>>>>) \in Texts
  <2>1. a \in Symbol /\ a # NL
    BY SessionAssumption, <1>1 DEF NL
  <2>2. <<a>> \in Seq(Symbol) /\ Len(<<a>>) = 1 /\ <<a>>[1] = a
    BY <2>1
  <2>3. ToSet(<<a>>) = {a}
    BY <2>2 DEF ToSet
  <2>4. <<a>> \in LineSet
    BY <2>1, <2>2, <2>3 DEF LineSet, Texts, IsLine
  <2>5. <<<<a>>>> \in Seq(LineSet)
    BY <2>4
  <2>. QED BY <2>4, <2>5, LineSetLines
<1>. QED BY <1>1

(* What a handler makes of the mailboxes and the login. *)
Effect(m) ==
  \/ UNCHANGED <<box, loggedIn>>
  \/ /\ m.type = "SEND" /\ loggedIn /\ UNCHANGED loggedIn
     /\ \E n \in 0..Len(m.receivers) : box' = box \cup {<<m.receivers[i], m>> : i \in 1..n}
  \/ /\ m.type = "DEL" /\ loggedIn /\ UNCHANGED loggedIn
     /\ \E b \in box : b[1] = m.user /\ box' = box \ {b}
  \/ /\ m.type = "LOGIN" /\ UNCHANGED box
     /\ loggedIn' => loggedIn \/ m.password = <<"right">>

LEMMA MessageEffect ==
  ASSUME NEW m, MessageReceived(m)
  PROVE  Effect(m)
<1>1. CASE TooEarly
  BY <1>1 DEF Effect, TooEarly
<1>2. CASE Allowed(m) /\ m.type = "SEND" /\ HandleSend(m)
  BY <1>2 DEF Effect, Allowed, HandleSend
<1>3. CASE m.type = "LIST" /\ HandleList(m)
  BY <1>3 DEF Effect, HandleList
<1>4. CASE m.type = "READ" /\ HandleRead(m)
  BY <1>4 DEF Effect, HandleRead
<1>5. CASE Allowed(m) /\ m.type = "DEL" /\ HandleDel(m)
  BY <1>5 DEF Effect, Allowed, HandleDel
<1>6. CASE m.type = "LOGIN" /\ HandleLogin(m)
  BY <1>6 DEF Effect, HandleLogin
<1>7. CASE m.type = "QUIT" /\ HandleQuit
  BY <1>7 DEF Effect, HandleQuit
<1>. QED BY <1>1, <1>2, <1>3, <1>4, <1>5, <1>6, <1>7 DEF MessageReceived

(* What it makes of those, and of the answer. *)
Outcome(m) ==
  /\ Effect(m)
  /\ user.loggedIn => loggedIn'
  /\ \A b \in box' \ box : m.type = "SEND" /\ b[2] = m
  /\ cpc = "gone" => s2c' = <<>>
  /\ served' = [nth |-> served.nth + 1, msg |-> m]

(* A request that the client waits for is answered as its type asks. *)
Proper ==
  /\ Holds(box', served.nth + 1)
  /\ \/ spc' = "serving" /\ Coming'
     \/ spc' = "closed" /\ s2c' = <<>>

LEMMA RefusalProper ==
  ASSUME cpc # "gone", spc = "serving", s2c = <<>>, Answer("ERR"),
         request'.type # "QUIT", Fresh(resp')
  PROVE  spc' = "serving" /\ Coming'
<1>1. s2c' = Text(<<<<"ERR">>>>) /\ spc' = spc
  BY AnswerTexts, ReplyHere DEF Answer
<1>. QED BY <1>1 DEF Coming, Refusal

LEMMA AgreementProper ==
  ASSUME cpc # "gone", spc = "serving", s2c = <<>>, Answer("OK"), loggedIn',
         request'.type \in {"SEND", "DEL", "LOGIN"}, Fresh(resp'), Service!Agreed'
  PROVE  spc' = "serving" /\ Coming'
<1>1. s2c' = Text(<<<<"OK">>>>) /\ spc' = spc
  BY AnswerTexts, ReplyHere DEF Answer
<1>. QED BY <1>1 DEF Coming, Agreement

LEMMA MessageOutcome ==
  ASSUME user.loggedIn => loggedIn, NEW m, user.loggedIn => m.type # "LOGIN",
         cpc = "gone" => s2c = <<>>, MessageReceived(m)
  PROVE  Outcome(m)
<1>1. served' = [nth |-> served.nth + 1, msg |-> m] /\ Effect(m)
  BY MessageEffect DEF MessageReceived
<1>2. \A a : Answer(a) => (cpc = "gone" => s2c' = <<>>)
  BY ReplyGone DEF Answer
<1>3. CASE TooEarly
  BY <1>1, <1>3 DEF Outcome, TooEarly
<1>4. CASE m.type = "SEND" /\ HandleSend(m)
  <2>1. PICK n, a :
               /\ n \in 0..Len(m.receivers)
               /\ box' = box \cup {<<m.receivers[i], m>> : i \in 1..n}
               /\ Answer(a)
    BY <1>4 DEF HandleSend
  <2>2. UNCHANGED loggedIn
    BY <1>4 DEF HandleSend
  <2>3. \A b \in box' \ box : m.type = "SEND" /\ b[2] = m
    BY <1>4, <2>1
  <2>. QED BY <1>1, <1>2, <2>1, <2>2, <2>3 DEF Outcome
<1>5. CASE HandleList(m)
  <2>1. (\E lines : Reply(lines)) /\ UNCHANGED <<loggedIn, box>>
    BY <1>5 DEF HandleList
  <2>. QED BY <1>1, <2>1, ReplyGone DEF Outcome
<1>6. CASE HandleRead(m)
  <2>1. ((\E lines : Reply(lines)) \/ Answer("ERR")) /\ UNCHANGED <<loggedIn, box>>
    BY <1>6 DEF HandleRead
  <2>. QED BY <1>1, <1>2, <2>1, ReplyGone DEF Outcome
<1>7. CASE HandleDel(m)
  <2>1. box' \subseteq box /\ (\E a : Answer(a)) /\ UNCHANGED loggedIn
    BY <1>7 DEF HandleDel
  <2>. QED BY <1>1, <1>2, <2>1 DEF Outcome
<1>8. CASE m.type = "LOGIN" /\ HandleLogin(m)
  <2>1. UNCHANGED box /\ ((\E a : Answer(a)) \/ UNCHANGED s2c)
    BY <1>8 DEF HandleLogin
  <2>. QED BY <1>1, <1>2, <1>8, <2>1 DEF Outcome
<1>9. CASE HandleQuit
  BY <1>1, <1>9 DEF Outcome, HandleQuit
<1>. QED BY <1>3, <1>4, <1>5, <1>6, <1>7, <1>8, <1>9 DEF MessageReceived

(* What a request that the client waits for finds. *)
Waited(m) ==
  /\ cpc # "gone" /\ spc = "serving" /\ s2c = <<>> /\ Carried(request) /\ m = Arrived(request)
  /\ request.type = "LIST" => request.user = Name
  /\ loggedIn \/ request.type \in {"LOGIN", "QUIT"}
  /\ Fresh(resp) /\ Fresh(resp') /\ request' = request
  /\ Holds(box, served.nth) /\ served.nth \in Nat /\ served.nth + 1 <= MaxRequests

LEMMA SendProper ==
  ASSUME NEW m, Waited(m), m.type = "SEND", loggedIn, HandleSend(m)
  PROVE  Proper
<1>1. PICK n \in 0..Len(m.receivers) :
             /\ box' = box \cup {<<m.receivers[i], m>> : i \in 1..n}
             /\ Answer(IF n = Len(m.receivers) THEN "OK" ELSE "ERR")
  BY DEF HandleSend
<1>2. request.type = "SEND" /\ Good(m)
  <2>1. request.type = "SEND"
    BY ArrivedIs DEF Waited
  <2>2. Good(request)
    BY <2>1, SendIsGood DEF Waited
  <2>. QED BY <2>1, <2>2, ArrivedGood DEF Waited
<1>3. Holds(box', served.nth + 1)
  <2>1. \A c \in box' : c \in box \/ \E r : c = <<r, m>>
    BY <1>1
  <2>2. Holds(box, served.nth) /\ served.nth \in Nat
    BY DEF Waited
  <2>. QED BY <1>2, <2>1, <2>2, HoldsMore
<1>4. loggedIn' /\ request'.type = "SEND"
  BY <1>2 DEF HandleSend, Waited
<1>5. CASE n = Len(m.receivers)
  <2>1. /\ request' = request /\ cpc # "gone" /\ Carried(request) /\ Given(m)
    BY DEF Waited, Given
  <2>2. m.receivers = request.receivers /\ Service!Copy(m, request)
    BY <1>2, <2>1, GivenCopy
  <2>3. \A i \in 1..n : <<m.receivers[i], m>> \in box'
    BY <1>1
  <2>4. Service!Agreed'
    <3>1. ASSUME NEW i \in 1..Len(request.receivers)
          PROVE  \E b \in {c \in box' : c[1] = request.receivers[i]} : Service!Copy(b[2], request)
      <4>1. PICK b : b = <<m.receivers[i], m>>
        OBVIOUS
      <4>2. b \in box' /\ b[1] = request.receivers[i] /\ b[2] = m
        BY <1>5, <2>1, <2>2, <2>3, <3>1, <4>1
      <4>. QED BY <2>2, <4>2
    <3>. QED BY <1>4, <2>1, <3>1 DEF Service!Agreed, Service!Mailbox
  <2>5. Answer("OK")
    BY <1>1, <1>5
  <2>. QED BY <1>3, <1>4, <2>4, <2>5, AgreementProper DEF Proper, Waited
<1>6. CASE n # Len(m.receivers)
  <2>1. Answer("ERR")
    BY <1>1, <1>6
  <2>. QED BY <1>3, <1>4, <2>1, RefusalProper DEF Proper, Waited
<1>. QED BY <1>5, <1>6

LEMMA ListProper ==
  ASSUME NEW m, Waited(m), m.type = "LIST", HandleList(m)
  PROVE  Proper
<1>1. m.user = Name /\ request'.type = "LIST"
  <2>1. request.type = "LIST"
    BY ArrivedIs DEF Waited
  <2>. QED BY <2>1, ArrivedIs DEF Waited
<1>2. PICK S \in {Mine(box), {}} :
        Reply(Text(<<Number(Len(SetToSeq(S)))>>
                   \o [i \in DOMAIN SetToSeq(S) |-> SetToSeq(S)[i][2].title]))
  BY <1>1 DEF HandleList, Mine
<1>3. PICK f, ts : f = SetToSeq(S) /\ ts = [i \in DOMAIN f |-> f[i][2].title]
  OBVIOUS
<1>4. Holds(box, served.nth) /\ served.nth \in Nat /\ served.nth + 1 <= MaxRequests
  BY DEF Waited
<1>5. IsFiniteSet(S) /\ (\A b \in S : Good(b[2])) /\ Cardinality(S) <= 9
  <2>1. CASE S = {}
    BY <2>1, FS_EmptySet
  <2>2. CASE S = Mine(box)
    <3>1. IsFiniteSet(S) /\ (\A b \in S : Good(b[2])) /\ Cardinality(S) <= Cardinality(OldMails) + served.nth
      BY <1>4, <2>2 DEF Holds, Mine
    <3>2. Cardinality(S) \in Nat
      BY <3>1, FS_CardinalityType
    <3>3. Cardinality(S) <= 9
      BY <1>4, <3>1, <3>2, OldCount
    <3>. QED BY <3>1, <3>3
  <2>. QED BY <2>1, <2>2
<1>6. /\ ts \in Seq(Titles) /\ Len(ts) = Len(f) /\ Len(ts) <= 9
      /\ f \in Bijection(1..Len(ts), S) /\ \A i \in 1..Len(ts) : ts[i] = f[i][2].title
  BY <1>3, <1>5, ListOrder
<1>7. PICK lines : lines = Text(<<Number(Len(ts))>> \o ts)
  OBVIOUS
<1>8. Reply(lines)
  BY <1>2, <1>3, <1>6, <1>7
<1>9. lines \in Texts
  <2>1. Len(ts) \in 0..9
    <3>1. PICK k : k = Len(ts)
      OBVIOUS
    <3>2. k \in Nat /\ k <= 9
      BY <1>6, <3>1, LenProperties
    <3>3. k \in 0..9
      BY <3>2
    <3>. QED BY <3>1, <3>3
  <2>2. Number(Len(ts)) \in LineSet
    BY <2>1, NumberLine
  <2>3. <<Number(Len(ts))>> \in Seq(LineSet) /\ ts \in Seq(LineSet)
    <3>1. Titles \subseteq LineSet
      BY WordsAre DEF Titles
    <3>2. ts \in Seq(LineSet)
      BY <1>6, <3>1, SeqMonotonic
    <3>. QED BY <2>2, <3>2
  <2>4. <<Number(Len(ts))>> \o ts \in Seq(LineSet)
    BY <2>3, ConcatProperties
  <2>. QED BY <1>7, <2>4, LineSetLines
<1>10. s2c' = lines /\ spc' = spc
  BY <1>8, <1>9, ReplyHere DEF Waited
<1>11. ListBegins'
  <2>1. UNCHANGED box /\ request' = request
    BY DEF HandleList, Waited
  <2>2. Service!Listed(ts)'
    <3>1. CASE S = {}
      <4>1. Len(ts) = 0
        <5>1. Len(ts) \in Nat /\ f \in [1..Len(ts) -> {}]
          BY <1>6, <3>1, LenProperties DEF Bijection, Injection
        <5>2. Len(ts) >= 1 => 1 \in 1..Len(ts)
          BY <5>1
        <5>. QED BY <5>1, <5>2
      <4>2. ts = <<>>
        BY <1>6, <4>1, EmptySeq
      <4>. QED BY <1>1, <4>2 DEF Service!Listed
    <3>2. CASE S = Mine(box)
      <4>1. request'.user = Name
        BY <1>1, <2>1 DEF Waited
      <4>2. S = {b \in box' : b[1] = request'.user}
        BY <2>1, <3>2, <4>1 DEF Mine
      <4>3. f \in Service!Bijection(1..Len(ts), S)
        BY <1>6 DEF Bijection, Injection, Surjection, IsInjective,
           Service!Bijection, Service!Injection, Service!Surjection, Service!IsInjective
      <4>. QED BY <1>1, <1>6, <4>2, <4>3 DEF Service!Listed, Service!Mailbox
    <3>. QED BY <3>1, <3>2
  <2>. QED BY <1>1, <1>6, <1>7, <1>10, <2>2 DEF ListBegins, Waited
<1>12. Holds(box', served.nth + 1)
  BY <1>4, HoldsLess DEF HandleList
<1>. QED BY <1>10, <1>11, <1>12 DEF Proper, Coming, Waited

LEMMA ReadProper ==
  ASSUME NEW m, Waited(m), m.type = "READ", HandleRead(m)
  PROVE  Proper
<1>1. request'.type = "READ"
  BY ArrivedIs DEF Waited
<1>2. Holds(box, served.nth) /\ served.nth \in Nat
  BY DEF Waited
<1>3. Holds(box', served.nth + 1)
  BY <1>2, HoldsLess DEF HandleRead
<1>4. CASE Answer("ERR")
  BY <1>1, <1>3, <1>4, RefusalProper DEF Proper, Waited
<1>5. CASE \E b \in box : /\ b[1] = m.user /\ handed' = b[2]
                         /\ Reply(Text(<<<<"OK">>>>) \o Deflate(b[2]))
  <2>1. PICK b \in box : b[1] = m.user /\ handed' = b[2] /\ Reply(Text(<<<<"OK">>>>) \o Deflate(b[2]))
    BY <1>5
  <2>2. PICK h : h = b[2]
    OBVIOUS
  <2>3. Good(h)
    BY <1>2, <2>2 DEF Holds
  <2>4. Deflate(h) \in Texts
    <3>1. Leading(h) \in Seq(LineSet) /\ Trailing(h) \in Texts /\ Deflate(h) = Text(Leading(h)) \o Trailing(h)
      BY <2>3, DeflateIs DEF Good
    <3>2. Text(Leading(h)) \in Texts
      BY <3>1, LineSetLines
    <3>. QED BY <3>1, <3>2, TextsAre
  <2>5. PICK lines : lines = Text(<<<<"OK">>>>) \o Deflate(h)
    OBVIOUS
  <2>6. lines \in Texts /\ Reply(lines)
    BY <2>1, <2>2, <2>4, <2>5, AnswerTexts, TextsAre
  <2>7. s2c' = lines /\ spc' = spc
    BY <2>6, ReplyHere DEF Waited
  <2>8. Service!Shows(Arrived(handed))'
    <3>1. UNCHANGED box /\ request' = request /\ m = request
      BY ArrivedIs DEF HandleRead, Waited
    <3>2. b \in {c \in box' : c[1] = request'.user}
      BY <2>1, <3>1
    <3>3. Service!Copy(Arrived(handed'), b[2])
      BY <2>1, <2>2, <2>3, ArrivedCopy
    <3>. QED BY <1>1, <3>2, <3>3 DEF Service!Shows, Service!Mailbox
  <2>9. ReadBegins'
    BY <1>1, <2>1, <2>2, <2>3, <2>5, <2>7, <2>8 DEF ReadBegins, Waited
  <2>. QED BY <1>3, <2>7, <2>9 DEF Proper, Coming, Waited
<1>. QED BY <1>4, <1>5 DEF HandleRead

LEMMA DelProper ==
  ASSUME NEW m, Waited(m), m.type = "DEL", loggedIn, HandleDel(m)
  PROVE  Proper
<1>1. request'.type = "DEL" /\ loggedIn'
  BY ArrivedIs DEF Waited, HandleDel
<1>2. Holds(box, served.nth) /\ served.nth \in Nat /\ box' \subseteq box
  BY DEF Waited, HandleDel
<1>3. Holds(box', served.nth + 1)
  BY <1>2, HoldsLess
<1>4. Answer("OK") \/ Answer("ERR")
  BY DEF HandleDel
<1>5. Service!Agreed'
  BY <1>1 DEF Service!Agreed
<1>. QED BY <1>1, <1>3, <1>4, <1>5, AgreementProper, RefusalProper DEF Proper, Waited

LEMMA MessageProper ==
  ASSUME NEW m, Waited(m), MessageReceived(m)
  PROVE  Proper
<1>1. m.type = request.type /\ request'.type = m.type
  BY ArrivedIs DEF Waited
<1>2. UNCHANGED box => Holds(box', served.nth + 1)
  <2>1. Holds(box, served.nth) /\ served.nth \in Nat
    BY DEF Waited
  <2>. QED BY <2>1, HoldsLess
<1>3. Allowed(m) /\ (loggedIn \/ m.type \in {"LOGIN", "QUIT"})
  BY <1>1 DEF Allowed, Waited
<1>5. CASE Allowed(m) /\ m.type = "SEND" /\ HandleSend(m)
  BY <1>3, <1>5, SendProper
<1>6. CASE m.type = "LIST" /\ HandleList(m)
  BY <1>6, ListProper
<1>7. CASE m.type = "READ" /\ HandleRead(m)
  BY <1>7, ReadProper
<1>8. CASE Allowed(m) /\ m.type = "DEL" /\ HandleDel(m)
  BY <1>3, <1>8, DelProper
<1>9. CASE m.type = "LOGIN" /\ HandleLogin(m)
  <2>1. request'.type = "LOGIN" /\ UNCHANGED box
    BY <1>1, <1>9 DEF HandleLogin
  <2>2. CASE loggedIn' /\ Answer("OK")
    <3>1. Service!Agreed'
      BY <2>1, <2>2 DEF Service!Agreed
    <3>. QED BY <1>2, <2>1, <2>2, <3>1, AgreementProper DEF Proper, Waited
  <2>3. CASE Answer("ERR")
    BY <1>2, <2>1, <2>3, RefusalProper DEF Proper, Waited
  <2>4. CASE spc' = "closed" /\ UNCHANGED s2c
    BY <1>2, <2>1, <2>4 DEF Proper, Waited
  <2>5. \/ loggedIn' = TRUE /\ Answer("OK")
        \/ Answer("ERR")
        \/ spc' = "closed" /\ UNCHANGED s2c
    BY <1>9 DEF HandleLogin
  <2>. QED BY <2>2, <2>3, <2>4, <2>5
<1>10. CASE HandleQuit
  BY <1>2, <1>10 DEF HandleQuit, Proper, Waited
<1>. QED BY <1>3, <1>5, <1>6, <1>7, <1>8, <1>9, <1>10 DEF MessageReceived

-----------------------------------------------------------------------------
(* The reading of a part of a request. *)
Dealt(d) ==
  \/ d.got.type \in Types /\ MessageReceived(d.got)
  \/ d.got.type = "nothing" /\ UNCHANGED <<spc, s2c, loggedIn, box, served, handed>>
  \/ d.got.type = "malformed" /\ Answer("ERR") /\ UNCHANGED <<loggedIn, box, served, handed>>
  \/ d.got.type = "endless" /\ spc' = "dead" /\ UNCHANGED <<s2c, loggedIn, box, served, handed>>

LEMMA ReceiveIs ==
  ASSUME Receive, NEW e \in BOOLEAN, e <=> cpc = "gone"
  PROVE  /\ spc = "serving" /\ UNCHANGED client
         /\ \E r, d :
              /\ r \in Readings(c2s, parser.awaiting, e)
              /\ d = Digest(parser, r.data) /\ c2s' = r.rest /\ parser' = d.parser /\ Dealt(d)
<1>1. Readings(c2s, parser.awaiting, cpc = "gone") = Readings(c2s, parser.awaiting, e)
  BY DEF Readings
<1>2. PICK r, d :
        /\ r \in Readings(c2s, parser.awaiting, e)
        /\ d = Digest(parser, r.data) /\ c2s' = r.rest /\ parser' = d.parser /\ Dealt(d)
  BY <1>1 DEF Receive, Dealt
<1>. QED BY <1>2 DEF Receive

(* What a step does to the mailboxes it does for the request its client waits for,
   or has left behind. *)
Delivery ==
  \/ UNCHANGED <<served, box, loggedIn>>
  \/ /\ Asked /\ cpc \in {"wait", "gone"} /\ served.nth + 1 = asks
     /\ \E m : Given(m) /\ Outcome(m)

LEMMA TypesApart ==
  /\ "nothing" \notin Types /\ "malformed" \notin Types /\ "endless" \notin Types
  /\ Nothing.type = "nothing" /\ Malformed.type = "malformed"
BY DEF Types, Nothing, Malformed

LEMMA ReceiveNothing ==
  ASSUME Receive, c2s = <<>>, parser.awaiting = 0
  PROVE  FALSE
<1>1. PICK e \in BOOLEAN : e <=> cpc = "gone"
  OBVIOUS
<1>2. Readings(c2s, parser.awaiting, e) = {}
  BY NothingThere
<1>. QED BY <1>1, <1>2, ReceiveIs

LEMMA BothEmpty ==
  ASSUME NEW x \in Texts, NEW y \in Texts, x \o y = <<>>
  PROVE  x = <<>> /\ y = <<>>
<1>1. Len(x) \in Nat /\ Len(y) \in Nat /\ Len(x \o y) = Len(x) + Len(y)
  BY TextsAre
<1>2. Len(x \o y) = 0
  OBVIOUS
<1>3. Len(x) = 0 /\ Len(y) = 0
  BY <1>1, <1>2
<1>. QED BY <1>3, EmptySeq DEF Texts

LEMMA ReceiveAsking ==
  ASSUME SessionInv, Agree, Asking, Receive
  PROVE  Agree' /\ Delivery
<1>1. PICK e : e = FALSE
  OBVIOUS
<1>2. cpc = "wait" /\ spc = "serving" /\ Asked /\ Carried(request) /\ s2c = <<>> /\ Fresh(resp)
      /\ served.nth + 1 = asks /\ served.nth \in Nat /\ asks \in Nat /\ asks <= MaxRequests
      /\ c2s \in Texts /\ out \in Texts /\ Expect(parser, c2s \o out, request)
      /\ Holds(box, served.nth)
  <2>1. asks \in Nat /\ asks <= MaxRequests
    BY OldCount DEF SessionInv
  <2>. QED BY <2>1 DEF Asking, Asked, Agree
<1>3. e \in BOOLEAN /\ (e <=> cpc = "gone")
  BY <1>1, <1>2
<1>4. PICK r, d :
        /\ r \in Readings(c2s, parser.awaiting, e)
        /\ d = Digest(parser, r.data) /\ c2s' = r.rest /\ parser' = d.parser /\ Dealt(d)
  BY <1>3, ReceiveIs
<1>5. UNCHANGED <<cpc, request, user, resp, out, asks, sent, shown>>
  BY DEF Receive, client
<1>6. r.rest \in Texts /\ After(d, r.rest \o out, request)
  BY <1>1, <1>2, <1>3, <1>4, ReadOn
<1>7. CASE d.got = Nothing /\ d.parser.state # "new" /\ Expect(d.parser, r.rest \o out, request)
  <2>1. UNCHANGED <<spc, s2c, loggedIn, box, served, handed>>
    BY <1>4, <1>7, TypesApart DEF Dealt
  <2>2. Expect(parser', c2s' \o out', request')
    BY <1>4, <1>5, <1>7
  <2>3. c2s' \in Texts /\ out' \in Texts
    BY <1>2, <1>4, <1>5, <1>6
  <2>4. Asking'
    BY <1>2, <1>5, <2>1, <2>2, <2>3 DEF Asking, Asked
  <2>. QED BY <1>2, <1>5, <2>1, <2>4 DEF Agree, Delivery
<1>8. CASE d.got = Arrived(request) /\ Idle(d.parser) /\ r.rest \o out = <<>>
  <2>1. PICK m : m = d.got
    OBVIOUS
  <2>2. m = Arrived(request) /\ m.type = request.type /\ m.type \in Types /\ Given(m)
    BY <1>2, <1>8, <2>1, ArrivedIs, CarriedIs DEF Given
  <2>3. MessageReceived(m)
    BY <1>4, <2>1, <2>2, TypesApart DEF Dealt
  <2>4. c2s' = <<>> /\ out' = <<>> /\ Idle(parser')
    BY <1>2, <1>4, <1>5, <1>6, <1>8, BothEmpty
  <2>5. Outcome(m)
    <3>1. user.loggedIn => loggedIn
      BY DEF Agree
    <3>2. user.loggedIn => m.type # "LOGIN"
      BY <1>2, <2>2 DEF Asked
    <3>. QED BY <1>2, <2>3, <3>1, <3>2, MessageOutcome
  <2>6. Proper
    <3>1. Waited(m)
      BY <1>2, <1>5, <2>2 DEF Waited, Asked, Agree
    <3>. QED BY <2>3, <3>1, MessageProper
  <2>7. served'.nth = served.nth + 1 /\ served'.nth = asks' /\ served'.nth \in Nat
    BY <1>2, <1>5, <2>5 DEF Outcome
  <2>8. Asked' /\ Fresh(resp)' /\ cpc' = "wait"
    BY <1>2, <1>5 DEF Asked
  <2>9. Answering' \/ Closing'
    BY <2>4, <2>6, <2>7, <2>8 DEF Answering, Closing, Proper
  <2>10. Holds(box', served'.nth) /\ (user'.loggedIn => loggedIn')
    BY <1>5, <2>5, <2>6, <2>7 DEF Proper, Outcome
  <2>11. Agree'
    BY <2>7, <2>9, <2>10 DEF Agree
  <2>12. Delivery
    BY <1>2, <2>2, <2>5 DEF Delivery
  <2>. QED BY <2>11, <2>12
<1>. QED BY <1>6, <1>7, <1>8 DEF After

(* What is made of a mail that resembles a mail. *)
LEMMA CutAll ==
  ASSUME NEW m, Carried(m), NEW n, Shorter(n, m)
  PROVE  /\ Carried(n) /\ \A d : Cut(d, n) => Cut(d, m)
         /\ Almost(Arrived(n), m)
<1>1. Carried(n)
  BY DEF Shorter, Carried
<1>2. CASE n = m
  BY <1>1, <1>2, ArrivedAlmost
<1>3. CASE n # m
  <2>1. m.type = "SEND" /\ Writable(m) /\ Writable(n) /\ Resembles(n, m) /\ n.type = "SEND"
    BY <1>1, <1>3, CarriedIs DEF Shorter
  <2>2. \A d : Cut(d, n) => Cut(d, m)
    BY <2>1, CutLonger
  <2>3. Almost(Arrived(n), n)
    BY <1>1, ArrivedAlmost
  <2>4. Almost(Arrived(n), m)
    BY <2>1, <2>3, ResemblesOn DEF Almost
  <2>. QED BY <1>1, <2>2, <2>4
<1>. QED BY <1>2, <1>3

LEMMA ReceiveGone ==
  ASSUME SessionInv, Agree, Left, GoneAsking, Receive
  PROVE  Agree' /\ Delivery
<1>1. PICK e : e = TRUE
  OBVIOUS
<1>2. cpc = "gone" /\ out = <<>> /\ s2c = <<>> /\ Asked /\ Carried(request) /\ served.nth + 1 = asks
      /\ served.nth \in Nat /\ asks \in Nat /\ c2s \in Texts
  <2>1. asks \in Nat
    BY OldCount DEF SessionInv
  <2>. QED BY <2>1 DEF Left, GoneAsking, Asked, Agree
<1>3. PICK n, x : Shorter(n, request) /\ x \in Texts /\ Expect(parser, c2s \o x, n)
  BY DEF GoneAsking
<1>4. e \in BOOLEAN /\ (e <=> cpc = "gone")
  BY <1>1, <1>2
<1>5. PICK r, d :
        /\ r \in Readings(c2s, parser.awaiting, e)
        /\ d = Digest(parser, r.data) /\ c2s' = r.rest /\ parser' = d.parser /\ Dealt(d)
  BY <1>4, ReceiveIs
<1>6. UNCHANGED <<cpc, request, user, resp, out, asks, sent, shown>>
  BY DEF Receive, client
<1>7. \/ r.rest \in Texts /\ After(d, r.rest \o x, n)
      \/ r.rest = <<>> /\ Cut(d, request)
  <2>1. Carried(n) /\ (Cut(d, n) => Cut(d, request))
    BY <1>2, <1>3, CutAll
  <2>. QED BY <1>2, <1>3, <1>4, <1>5, <2>1, ReadOn
<1>8. user.loggedIn => loggedIn
  BY DEF Agree
(* Nothing is handed on. *)
<1>9. ASSUME d.got \in {Nothing, Malformed},
             \/ c2s' = <<>> /\ parser'.awaiting = 0
             \/ /\ c2s' \in Texts
                /\ \E k : Shorter(k, request) /\ \E y \in Texts : Expect(parser', c2s' \o y, k)
      PROVE  Agree' /\ Delivery
  <2>1. UNCHANGED <<loggedIn, box, served, handed>> /\ s2c' = <<>>
    BY <1>2, <1>5, <1>9, TypesApart, ReplyGone DEF Dealt, Answer
  <2>2. GoneQuiet' \/ GoneAsking'
    <3>1. CASE c2s' = <<>> /\ parser'.awaiting = 0
      BY <1>2, <1>6, <2>1, <3>1 DEF GoneQuiet
    <3>2. CASE /\ c2s' \in Texts
               /\ \E k : Shorter(k, request) /\ \E y \in Texts : Expect(parser', c2s' \o y, k)
      BY <1>2, <1>6, <2>1, <3>2 DEF GoneAsking, Asked
    <3>. QED BY <1>9, <3>1, <3>2
  <2>3. Left'
    BY <1>2, <1>6, <2>1, <2>2 DEF Left
  <2>. QED BY <1>2, <1>6, <1>8, <2>1, <2>3 DEF Agree, Delivery
(* A message is. *)
<1>10. ASSUME Given(d.got), c2s' = <<>>, parser'.awaiting = 0
       PROVE  Agree' /\ Delivery
  <2>1. PICK m : m = d.got
    OBVIOUS
  <2>2. m.type = request.type /\ m.type \in Types /\ Given(m)
    BY <1>2, <1>10, <2>1, GivenIs
  <2>3. MessageReceived(m)
    BY <1>5, <2>1, <2>2, TypesApart DEF Dealt
  <2>4. Outcome(m)
    <3>1. user.loggedIn => m.type # "LOGIN"
      BY <1>2, <2>2 DEF Asked
    <3>. QED BY <1>2, <1>8, <2>3, <3>1, MessageOutcome
  <2>5. served'.nth = served.nth + 1 /\ served'.nth <= asks' /\ served'.nth \in Nat /\ s2c' = <<>>
        /\ (user'.loggedIn => loggedIn')
    BY <1>2, <1>6, <2>4 DEF Outcome
  <2>6. GoneQuiet'
    BY <1>10, <2>5 DEF GoneQuiet
  <2>7. Left'
    BY <1>2, <1>6, <2>5, <2>6 DEF Left
  <2>8. Delivery
    BY <1>2, <2>2, <2>4 DEF Delivery
  <2>. QED BY <1>2, <1>6, <2>5, <2>7, <2>8 DEF Agree
<1>11. CASE r.rest \in Texts /\ After(d, r.rest \o x, n)
  <2>1. CASE d.got = Nothing /\ d.parser.state # "new" /\ Expect(d.parser, r.rest \o x, n)
    BY <1>3, <1>5, <1>9, <1>11, <2>1
  <2>2. CASE d.got = Arrived(n) /\ Idle(d.parser) /\ r.rest \o x = <<>>
    <3>1. Given(d.got)
      BY <1>2, <1>3, <2>2, CutAll DEF Given
    <3>. QED BY <1>3, <1>5, <1>10, <1>11, <2>2, <3>1, BothEmpty, IdleAwaits
  <2>. QED BY <1>11, <2>1, <2>2 DEF After
<1>12. CASE r.rest = <<>> /\ Cut(d, request)
  <2>1. CASE d.got \in {Nothing, Malformed} /\ d.parser.awaiting = 0
    BY <1>5, <1>9, <1>12, <2>1
  <2>2. CASE /\ d.got \in {Nothing, Malformed}
             /\ \E k : Shorter(k, request) /\ \E w \in Texts : Expect(d.parser, w, k)
    <3>1. PICK k, w : Shorter(k, request) /\ w \in Texts /\ Expect(d.parser, w, k)
      BY <2>2
    <3>2. <<>> \in Texts /\ <<>> \o w = w
      BY TextsAre DEF Texts
    <3>3. c2s' \in Texts /\ Expect(parser', c2s' \o w, k)
      BY <1>5, <1>12, <3>1, <3>2
    <3>. QED BY <1>9, <2>2, <3>1, <3>3
  <2>3. CASE Almost(d.got, request) /\ d.parser.awaiting = 0
    BY <1>2, <1>5, <1>10, <1>12, <2>3 DEF Given
  <2>. QED BY <1>12, <2>1, <2>2, <2>3 DEF Cut
<1>. QED BY <1>7, <1>11, <1>12

LEMMA ReceiveAgrees ==
  ASSUME SessionInv, Agree, Receive
  PROVE  Agree' /\ Delivery
<1>1. CASE Asking
  BY <1>1, ReceiveAsking
<1>2. CASE Left /\ GoneAsking
  BY <1>2, ReceiveGone
<1>3. CASE c2s = <<>> /\ parser.awaiting = 0
  BY <1>3, ReceiveNothing
<1>4. CASE AtStart \/ AtWelcome \/ AtMenu \/ Answering \/ Closing \/ (Left /\ GoneQuiet)
  <2>1. c2s = <<>> /\ (Idle(parser) \/ parser.awaiting = 0)
    BY <1>4 DEF AtStart, AtWelcome, AtMenu, Answering, Closing, GoneQuiet, Quiet
  <2>. QED BY <1>3, <2>1, IdleAwaits
<1>. QED BY <1>1, <1>2, <1>4 DEF Agree, Left

-----------------------------------------------------------------------------
(* The reading of a part of a response. *)
Heard(r, d) ==
  IF d.got.type \in {"malformed", "endless"}
  THEN Leave
  ELSE /\ s2c' = r.rest /\ resp' = d.resp
       /\ user' = Known(user, d.got)
       /\ shown' = IF d.got = Nothing THEN shown ELSE d.got
       /\ cpc' = IF d.got = Nothing THEN "wait"
                 ELSE IF request.type = "QUIT" THEN "gone" ELSE "menu"
       /\ UNCHANGED <<request, out, asks, sent>>

LEMMA HearIs ==
  ASSUME Hear, NEW e \in BOOLEAN, e <=> spc # "serving"
  PROVE  /\ cpc = "wait" /\ out = <<>> /\ UNCHANGED <<server, c2s>>
         /\ \E r, d :
              /\ r \in Readings(s2c, resp.parser.awaiting, e)
              /\ d = DigestResponse(resp, r.data, request.type) /\ Heard(r, d)
<1>1. Readings(s2c, resp.parser.awaiting, spc # "serving") = Readings(s2c, resp.parser.awaiting, e)
  BY DEF Readings
<1>2. PICK r, d :
        /\ r \in Readings(s2c, resp.parser.awaiting, e)
        /\ d = DigestResponse(resp, r.data, request.type) /\ Heard(r, d)
  BY <1>1 DEF Hear, Heard
<1>. QED BY <1>2 DEF Hear

LEMMA KnownIs ==
  ASSUME NEW u, NEW r, Known(u, r).loggedIn
  PROVE  u.loggedIn \/ r.type = "ok"
BY DEF Known, LoginDone, LoggedOut

LEMMA FreshIs ==
  ASSUME NEW r, Fresh(r)
  PROVE  r.state = "new" /\ r.parser.awaiting = 0 /\ r.parser.state = "new" /\ r.parser.data = <<>>
<1>1. PICK n, d, q : r = Resp("new", n, d, q) /\ Idle(q)
  BY DEF Fresh
<1>2. r.state = "new" /\ r.parser = q
  BY <1>1 DEF Resp
<1>. QED BY <1>1, <1>2, IdleAwaits

(* What a client makes of one part of the answer: it waits for the rest, or has it
   all and shows it. *)
AllTold(d, rest) ==
  /\ d.got.type \in {"ok", "err", "list", "read"} /\ Fresh(d.resp) /\ rest = <<>>
  /\ d.got.type = "ok" => loggedIn
  /\ d.got.type = "read" => Good(handed) /\ d.got.mail = Arrived(handed)
  /\ Service!True(d.got)

(* The user is shown nothing, or what is true. *)
Telling == UNCHANGED <<cpc, shown>> \/ (cpc' = "menu" /\ Service!True(shown'))

LEMMA TrueIs ==
  /\ Service!True(Err) /\ (Service!Agreed => Service!True(Ok))
  /\ \A t : Service!Listed(t) => Service!True(List(t))
  /\ \A m : Service!Shows(m) => Service!True(Read(m))
<1>1. /\ Ok.type = "ok" /\ Err.type = "err"
      /\ \A t : List(t).type = "list" /\ List(t).titles = t
      /\ \A m : Read(m).type = "read" /\ Read(m).mail = m
  BY DEF Ok, Err, List, Read
<1>. QED BY <1>1 DEF Service!True

LEMMA StillTrue ==
  ASSUME UNCHANGED <<request, box, loggedIn>>
  PROVE  /\ Service!Agreed => Service!Agreed'
         /\ \A t : Service!Listed(t) => Service!Listed(t)'
         /\ \A m : Service!Shows(m) => Service!Shows(m)'
BY DEF Service!Agreed, Service!Listed, Service!Shows, Service!Mailbox

LEMMA ToldAgrees ==
  ASSUME Agree, Answering, request.type # "QUIT", UNCHANGED <<server, c2s>>,
         NEW r, NEW d, Heard(r, d), AllTold(d, r.rest)
  PROVE  Agree' /\ Telling
<1>1. d.got # Nothing /\ d.got.type \notin {"malformed", "endless"}
  BY DEF AllTold, Nothing
<1>2. /\ s2c' = <<>> /\ Fresh(resp') /\ user' = Known(user, d.got) /\ shown' = d.got /\ cpc' = "menu"
      /\ UNCHANGED <<request, out, asks, sent>>
  BY <1>1 DEF Heard, AllTold
<1>3. UNCHANGED <<spc, parser, loggedIn, box, served, handed, c2s>>
  BY DEF server
<1>4. user'.loggedIn => loggedIn'
  BY <1>2, <1>3, KnownIs DEF AllTold, Agree
<1>5. Seen'
  BY <1>2, <1>3 DEF Seen, AllTold
<1>6. AtMenu'
  BY <1>2, <1>3, <1>5 DEF AtMenu, Quiet, Answering
<1>7. Telling
  BY <1>2 DEF AllTold, Telling
<1>. QED BY <1>3, <1>4, <1>6, <1>7 DEF Agree, Answering

LEMMA WaitAgrees ==
  ASSUME Agree, Answering, UNCHANGED <<server, c2s>>,
         NEW r, NEW d, Heard(r, d), d.got = Nothing, Coming'
  PROVE  Agree' /\ Telling
<1>1. Nothing.type = "nothing"
  BY DEF Nothing
<1>2. user' = Known(user, Nothing) /\ cpc' = "wait" /\ UNCHANGED <<request, out, asks, sent, shown>>
  BY <1>1 DEF Heard
<1>3. UNCHANGED <<spc, parser, loggedIn, box, served, handed, c2s>>
  BY DEF server
<1>4. user' = user
  BY <1>1, <1>2 DEF Known, LoginDone
<1>5. Answering'
  BY <1>2, <1>3, <1>4 DEF Answering, Asked
<1>6. Telling
  BY <1>2 DEF Answering, Telling
<1>. QED BY <1>3, <1>4, <1>5, <1>6 DEF Agree, Answering

(* A line of the answer. *)
LEMMA HearLine ==
  ASSUME Answering, Hear, resp.parser.awaiting = 0, NEW l \in LineSet, NoCr(l), Short(l),
         NEW y \in Texts, s2c = Append(l, NL) \o y
  PROVE  \E r, d : d = DigestResponse(resp, l, request.type) /\ r.rest = y /\ Heard(r, d)
<1>1. PICK e, x : e = FALSE /\ x = <<>>
  OBVIOUS
<1>2. e \in BOOLEAN /\ (e <=> spc # "serving")
  BY <1>1 DEF Answering
<1>3. PICK r, d :
        /\ r \in Readings(s2c, resp.parser.awaiting, e)
        /\ d = DigestResponse(resp, r.data, request.type) /\ Heard(r, d)
  BY <1>2, HearIs
<1>4. x \in Texts /\ s2c \in Texts /\ s2c \o x = Append(l, NL) \o y
  <2>1. l \in Texts
    BY DEF LineSet
  <2>2. s2c \in Texts /\ x \in Texts
    BY <1>1, <2>1, TextsAre
  <2>3. s2c \o x = s2c
    BY <1>1, <2>2, AfterText
  <2>. QED BY <2>2, <2>3
<1>5. LineFirst(l, y, s2c, x)
  BY <1>4 DEF LineFirst
<1>6. r \in Readings(s2c, 0, e)
  BY <1>3
<1>7. Taken(r, l, x, y)
  BY <1>1, <1>2, <1>4, <1>5, <1>6, ReadLine
<1>8. r.data = l /\ r.rest = y
  BY <1>1, <1>7, AfterText DEF Taken
<1>. QED BY <1>3, <1>8

(* A line alone. *)
LEMMA LineAlone ==
  ASSUME NEW l \in LineSet
  PROVE  Text(<<l>>) = Append(l, NL) \o <<>> /\ <<>> \in Texts
<1>1. l \in Seq(Symbol)
  BY DEF LineSet, Texts
<1>2. Text(<<l>>) = Append(l, NL)
  BY <1>1, Marks, TextOne
<1>3. Append(l, NL) \in Texts /\ <<>> \in Texts
  BY <1>1, TextsAre DEF Texts
<1>. QED BY <1>2, <1>3, AfterText

LEMMA FreshBegins ==
  ASSUME Fresh(resp), NEW l
  PROVE  \E n, q : Idle(q) /\ DigestResponse(resp, l, request.type) = Begun("new", n, q, l, request.type)
<1>1. PICK n, d, q : resp = Resp("new", n, d, q) /\ Idle(q)
  BY DEF Fresh
<1>2. DigestResponse(resp, l, request.type) = Begin(resp, l, request.type)
  BY FreshIs DEF DigestResponse
<1>. QED BY <1>1, <1>2, BeginIs

LEMMA TellIs ==
  ASSUME NEW s, NEW n, NEW d, NEW q, NEW what, Idle(q)
  PROVE  Tell(Resp(s, n, d, q), what).got = what /\ Fresh(Tell(Resp(s, n, d, q), what).resp)
<1>1. [Resp(s, n, d, q) EXCEPT !.state = "new"] = Resp("new", n, d, q)
  BY DEF Resp
<1>. QED BY <1>1 DEF Tell, Fresh

LEMMA WordsApart ==
  /\ <<"ERR">> # <<"OK">> /\ ~IsNumber(<<"ERR">>) /\ NoCr(<<"ERR">>) /\ NoCr(<<"OK">>)
  /\ Ok.type = "ok" /\ Err.type = "err" /\ (\A t : List(t).type = "list")
  /\ \A m : Read(m).type = "read" /\ Read(m).mail = m
<1>1. /\ Ok.type = "ok" /\ Err.type = "err" /\ (\A t : List(t).type = "list")
      /\ \A m : Read(m).type = "read" /\ Read(m).mail = m
  BY DEF Ok, Err, List, Read
<1>2. PICK a, b : a = <<"ERR">> /\ b = <<"OK">>
  OBVIOUS
<1>3. a[1] = "ERR" /\ b[1] = "OK" /\ Len(a) = 1 /\ Len(b) = 1
  BY <1>2
<1>4. NoCr(a) /\ NoCr(b) /\ a # b
  BY <1>3 DEF NoCr, CR
<1>5. ~IsNumber(a)
  BY <1>3 DEF IsNumber, Number, Digits
<1>. QED BY <1>1, <1>2, <1>4, <1>5

LEMMA HearRefusal ==
  ASSUME Agree, Answering, Refusal, Hear
  PROVE  Agree' /\ Telling
<1>1. PICK l, y : l = <<"ERR">> /\ y = <<>>
  OBVIOUS
<1>2. l \in LineSet /\ NoCr(l) /\ Short(l) /\ y \in Texts /\ s2c = Append(l, NL) \o y
  BY <1>1, AnswerTexts, WordsApart, MarksShort, LineAlone DEF Refusal
<1>3. PICK r, d : d = DigestResponse(resp, l, request.type) /\ r.rest = y /\ Heard(r, d)
  BY <1>2, HearLine, FreshIs DEF Refusal
<1>4. PICK n, q : Idle(q) /\ d = Begun("new", n, q, l, request.type)
  BY <1>3, FreshBegins DEF Refusal
<1>5. \E c : d = Tell(Resp("new", n, c, q), Err)
  BY <1>1, <1>4, WordsApart DEF Begun
<1>6. d.got = Err /\ Fresh(d.resp)
  BY <1>4, <1>5, TellIs
<1>7. AllTold(d, r.rest)
  BY <1>1, <1>3, <1>6, WordsApart, TrueIs DEF AllTold
<1>8. UNCHANGED <<server, c2s>> /\ request.type # "QUIT"
  BY DEF Hear, Refusal
<1>. QED BY <1>3, <1>7, <1>8, ToldAgrees

LEMMA HearAgreement ==
  ASSUME Agree, Answering, Agreement, Hear
  PROVE  Agree' /\ Telling
<1>1. PICK l, y : l = <<"OK">> /\ y = <<>>
  OBVIOUS
<1>2. l \in LineSet /\ NoCr(l) /\ Short(l) /\ y \in Texts /\ s2c = Append(l, NL) \o y
  BY <1>1, AnswerTexts, WordsApart, MarksShort, LineAlone DEF Agreement
<1>3. PICK r, d : d = DigestResponse(resp, l, request.type) /\ r.rest = y /\ Heard(r, d)
  BY <1>2, HearLine, FreshIs DEF Agreement
<1>4. PICK n, q : Idle(q) /\ d = Begun("new", n, q, l, request.type)
  BY <1>3, FreshBegins DEF Agreement
<1>5. d = Tell(Resp("new", n, <<>>, q), Ok)
  BY <1>1, <1>4 DEF Begun, Agreement
<1>6. d.got = Ok /\ Fresh(d.resp)
  BY <1>4, <1>5, TellIs
<1>7. AllTold(d, r.rest)
  BY <1>1, <1>3, <1>6, WordsApart, TrueIs DEF AllTold, Agreement
<1>8. UNCHANGED <<server, c2s>> /\ request.type # "QUIT"
  BY DEF Hear, Agreement
<1>. QED BY <1>3, <1>7, <1>8, ToldAgrees

(* A list's lines. *)
LEMMA TextStarts ==
  ASSUME NEW l \in LineSet, NEW ts \in Seq(Titles)
  PROVE  Text(<<l>> \o ts) = Append(l, NL) \o Text(ts) /\ Text(ts) \in Texts
<1>1. l \in Seq(Symbol) /\ Titles \subseteq LineSet
  BY WordsAre DEF LineSet, Texts, Titles
<1>2. ts \in Seq(LineSet)
  BY <1>1, SeqMonotonic
<1>3. Text(ts) \in Texts /\ ts \in Seq(Seq(Symbol))
  BY <1>2, LineSetLines DEF Texts
<1>4. Text(<<l>> \o ts) = Text(<<l>>) \o Text(ts)
  <2>1. <<l>> \in Seq(Seq(Symbol))
    BY <1>1
  <2>. QED BY <1>3, <2>1, Marks, TextConcat
<1>5. Text(<<l>>) = Append(l, NL)
  BY <1>1, Marks, TextOne
<1>. QED BY <1>3, <1>4, <1>5

LEMMA FirstTitle ==
  ASSUME NEW ts \in Seq(Titles), ts # <<>>
  PROVE  /\ ts[1] \in Titles /\ Tail(ts) \in Seq(Titles) /\ ts = <<ts[1]>> \o Tail(ts)
         /\ Len(Tail(ts)) = Len(ts) - 1 /\ Len(ts) \in Nat
         /\ Len(ts) - 1 # 0 => Tail(ts) # <<>>
         /\ Len(ts) - 1 = 0 => Tail(ts) = <<>>
<1>1. Len(ts) \in Nat /\ Len(ts) # 0
  BY EmptySeq, LenProperties
<1>2. Head(ts) \in Titles /\ Tail(ts) \in Seq(Titles) /\ Len(Tail(ts)) = Len(ts) - 1
  BY HeadTailProperties
<1>3. Head(ts) = ts[1]
  OBVIOUS
<1>4. ts = <<ts[1]>> \o Tail(ts)
  BY <1>1, <1>2
<1>5. Len(ts) - 1 # 0 => Tail(ts) # <<>>
  BY <1>2, EmptySeq
<1>6. Len(ts) - 1 = 0 => Tail(ts) = <<>>
  BY <1>2, EmptySeq
<1>. QED BY <1>1, <1>2, <1>3, <1>4, <1>5, <1>6

LEMMA HearListBegins ==
  ASSUME Agree, Answering, ListBegins, Hear
  PROVE  Agree' /\ Telling
<1>1. PICK ts \in Seq(Titles) : /\ Len(ts) <= 9 /\ Service!Listed(ts)
                                /\ s2c = Text(<<Number(Len(ts))>> \o ts)
  BY DEF ListBegins
<1>2. PICK k, l, y : k = Len(ts) /\ l = Number(k) /\ y = Text(ts)
  OBVIOUS
<1>3. k \in 0..9
  <2>1. k \in Nat /\ k <= 9
    BY <1>1, <1>2, LenProperties
  <2>. QED BY <2>1
<1>4. l \in LineSet /\ NoCr(l) /\ Short(l) /\ IsNumber(l) /\ Value(l) = k
  BY <1>2, <1>3, NumberLine, NumberIs, MarksShort
<1>5. y \in Texts /\ s2c = Append(l, NL) \o y
  BY <1>1, <1>2, <1>4, TextStarts
<1>6. PICK r, d : d = DigestResponse(resp, l, request.type) /\ r.rest = y /\ Heard(r, d)
  BY <1>4, <1>5, HearLine, FreshIs DEF ListBegins
<1>7. PICK n, q : Idle(q) /\ d = Begun("new", n, q, l, request.type)
  BY <1>6, FreshBegins DEF ListBegins
<1>8. UNCHANGED <<server, c2s>> /\ request.type = "LIST" /\ request.type # "QUIT"
  BY DEF Hear, ListBegins
<1>9. CASE k = 0
  <2>1. d = Tell(Resp("parsing", Value(l), <<l>>, q), List(<<>>))
    BY <1>2, <1>4, <1>7, <1>8, <1>9 DEF Begun
  <2>2. d.got = List(<<>>) /\ Fresh(d.resp)
    BY <1>7, <2>1, TellIs
  <2>3. r.rest = <<>> /\ ts = <<>>
    <3>1. ts = <<>>
      BY <1>2, <1>9, EmptySeq
    <3>. QED BY <1>2, <1>6, <3>1, TextEmpty
  <2>4. AllTold(d, r.rest)
    BY <1>1, <2>2, <2>3, WordsApart, TrueIs DEF AllTold
  <2>. QED BY <1>6, <1>8, <2>4, ToldAgrees
<1>10. CASE k # 0
  <2>1. l # Number(0)
    <3>1. Value(Number(0)) = 0
      BY NumberIs
    <3>. QED BY <1>4, <1>10, <3>1
  <2>2. d = Await(Resp("parsing", k, <<l>>, q))
    BY <1>4, <1>7, <1>8, <2>1 DEF Begun
  <2>3. d.got = Nothing /\ d.resp = Resp("parsing", k, <<l>>, q)
    BY <2>2 DEF Await
  <2>4. s2c' = Text(ts) /\ resp' = Resp("parsing", Len(ts), <<l>>, q) /\ request' = request
    <3>1. Nothing.type = "nothing"
      BY DEF Nothing
    <3>. QED BY <1>2, <1>6, <2>3, <3>1 DEF Heard
  <2>5. ts # <<>>
    BY <1>2, <1>10, EmptySeq
  <2>6. PICK us : us = <<>>
    OBVIOUS
  <2>7. us \in Seq(Titles) /\ us \o ts = ts /\ <<l>> \o us = <<l>>
    BY <2>6
  <2>8. Service!Listed(us \o ts)'
    <3>1. Service!Listed(ts)'
      BY <1>1, <1>8, <2>4, StillTrue DEF server
    <3>. QED BY <2>7, <3>1
  <2>9. ListGoesOn'
    BY <1>4, <1>7, <1>8, <2>4, <2>5, <2>7, <2>8 DEF ListGoesOn
  <2>10. Coming'
    BY <2>9 DEF Coming
  <2>. QED BY <1>6, <1>8, <2>3, <2>10, WaitAgrees
<1>. QED BY <1>9, <1>10

(* With the next title l, what is collected of a list, after the line h with their
   number, goes from us to a; what is to come, from ts to vs. *)
Collected(h, us, vs, a, e, ts) ==
  /\ a \in Seq(Titles) /\ e = <<h>> \o a /\ Tail(e) = a
  /\ a \o vs = us \o ts /\ (vs = <<>> => a \o vs = a)

LEMMA NextCollected ==
  ASSUME NEW h \in LineSet, NEW us \in Seq(Titles), NEW l \in Titles, NEW vs \in Seq(Titles)
  PROVE  Collected(h, us, vs, Append(us, l), Append(<<h>> \o us, l), <<l>> \o vs)
<1>1. PICK S : S = Titles \cup {h}
  OBVIOUS
<1>2. us \in Seq(S) /\ l \in S /\ h \in S /\ vs \in Seq(S)
  BY <1>1, SeqMonotonic
<1>3. PICK a : a = Append(us, l)
  OBVIOUS
<1>4. a \in Seq(Titles) /\ a \in Seq(S)
  BY <1>2, <1>3
<1>5. Append(<<h>> \o us, l) = <<h>> \o a
  BY <1>2, <1>3
<1>6. Tail(<<h>> \o a) = a
  BY <1>2, <1>4
<1>7. a \o vs = us \o (<<l>> \o vs)
  BY <1>2, <1>3
<1>8. vs = <<>> => a \o vs = a
  BY <1>4
<1>. QED BY <1>3, <1>4, <1>5, <1>6, <1>7, <1>8 DEF Collected

LEMMA HearListGoesOn ==
  ASSUME Agree, Answering, ListGoesOn, Hear
  PROVE  Agree' /\ Telling
<1>1. PICK ts, us, h, q :
        /\ ts \in Seq(Titles) /\ ts # <<>> /\ s2c = Text(ts) /\ Idle(q)
        /\ h \in LineSet /\ us \in Seq(Titles) /\ Service!Listed(us \o ts)
        /\ resp = Resp("parsing", Len(ts), <<h>> \o us, q)
  BY DEF ListGoesOn
<1>2. PICK k, l, vs, y, c : k = Len(ts) /\ l = ts[1] /\ vs = Tail(ts) /\ y = Text(vs) /\ c = <<h>> \o us
  OBVIOUS
<1>3. /\ l \in Titles /\ vs \in Seq(Titles) /\ ts = <<l>> \o vs /\ Len(vs) = k - 1 /\ k \in Nat
      /\ (k - 1 # 0 => vs # <<>>) /\ (k - 1 = 0 => vs = <<>>)
  BY <1>1, <1>2, FirstTitle
<1>4. l \in LineSet /\ NoCr(l) /\ Short(l)
  BY <1>3, WordNoCr DEF Titles
<1>5. y \in Texts /\ s2c = Append(l, NL) \o y
  BY <1>1, <1>2, <1>3, <1>4, TextStarts
<1>6. resp.state = "parsing" /\ resp.parser = q
  BY <1>1 DEF Resp
<1>7. PICK r, d : d = DigestResponse(resp, l, request.type) /\ r.rest = y /\ Heard(r, d)
  <2>1. resp.parser.awaiting = 0
    BY <1>1, <1>6, IdleAwaits
  <2>. QED BY <1>4, <1>5, <2>1, HearLine
<1>8. UNCHANGED <<server, c2s>> /\ request.type = "LIST" /\ request.type # "QUIT"
  BY DEF Hear, ListGoesOn
<1>9. PICK e, a : e = Append(c, l) /\ a = Append(us, l)
  OBVIOUS
<1>10. d = IF k - 1 = 0 THEN Tell(Resp("parsing", k - 1, e, q), List(Tail(e)))
           ELSE Await(Resp("parsing", k - 1, e, q))
  <2>1. d = NextTitle(Resp("parsing", k, c, q), l)
    BY <1>1, <1>2, <1>6, <1>7, <1>8 DEF DigestResponse
  <2>. QED BY <1>3, <1>9, <2>1, NextTitleIs
<1>11. /\ a \in Seq(Titles) /\ e = <<h>> \o a /\ Tail(e) = a /\ Service!Listed(a \o vs)
       /\ vs = <<>> => a \o vs = a
  <2>1. Collected(h, us, vs, a, e, ts)
    <3>1. h \in LineSet /\ us \in Seq(Titles) /\ l \in Titles /\ vs \in Seq(Titles)
      BY <1>1, <1>3
    <3>2. a = Append(us, l) /\ e = Append(<<h>> \o us, l) /\ ts = <<l>> \o vs
      BY <1>2, <1>3, <1>9
    <3>3. Collected(h, us, vs, Append(us, l), Append(<<h>> \o us, l), <<l>> \o vs)
      BY <3>1, NextCollected
    <3>. QED BY <3>2, <3>3
  <2>. QED BY <1>1, <2>1 DEF Collected
<1>12. CASE k - 1 = 0
  <2>1. d.got = List(Tail(e)) /\ Fresh(d.resp)
    BY <1>1, <1>10, <1>12, TellIs
  <2>2. r.rest = <<>>
    BY <1>2, <1>3, <1>7, <1>12, TextEmpty
  <2>3. Service!Listed(Tail(e))
    BY <1>3, <1>12, <1>11
  <2>4. AllTold(d, r.rest)
    BY <2>1, <2>2, <2>3, WordsApart, TrueIs DEF AllTold
  <2>. QED BY <1>7, <1>8, <2>4, ToldAgrees
<1>13. CASE k - 1 # 0
  <2>1. d.got = Nothing /\ d.resp = Resp("parsing", Len(vs), e, q)
    BY <1>3, <1>10, <1>13 DEF Await
  <2>2. s2c' = Text(vs) /\ resp' = Resp("parsing", Len(vs), <<h>> \o a, q) /\ request' = request
    <3>1. Nothing.type = "nothing"
      BY DEF Nothing
    <3>. QED BY <1>2, <1>7, <1>11, <2>1, <3>1 DEF Heard
  <2>3. vs # <<>>
    BY <1>3, <1>13
  <2>4. Service!Listed(a \o vs)'
    <3>1. PICK w : w = a \o vs
      OBVIOUS
    <3>2. Service!Listed(w) /\ UNCHANGED <<request, box, loggedIn>>
      BY <1>8, <1>11, <2>2, <3>1 DEF server
    <3>3. Service!Listed(w)'
      BY <3>2, StillTrue
    <3>. QED BY <3>1, <3>3
  <2>5. ListGoesOn'
    BY <1>1, <1>3, <1>8, <1>11, <2>2, <2>3, <2>4 DEF ListGoesOn
  <2>6. Coming'
    BY <2>5 DEF Coming
  <2>. QED BY <1>7, <1>8, <2>1, <2>6, WaitAgrees
<1>. QED BY <1>12, <1>13

LEMMA HearReadBegins ==
  ASSUME Agree, Answering, ReadBegins, Hear
  PROVE  Agree' /\ Telling
<1>1. Good(handed) /\ Carried(handed) /\ s2c = Text(<<<<"OK">>>>) \o Deflate(handed)
  BY GoodIsCarried DEF ReadBegins
<1>2. PICK l, y : l = <<"OK">> /\ y = Deflate(handed)
  OBVIOUS
<1>3. \A p : Idle(p) => Expect(p, y, handed)
  BY <1>1, <1>2, ExpectAll
<1>4. l \in LineSet /\ NoCr(l) /\ Short(l) /\ y \in Texts /\ s2c = Append(l, NL) \o y
  <2>1. l \in LineSet /\ NoCr(l) /\ Short(l)
    BY <1>2, AnswerTexts, WordsApart, MarksShort
  <2>2. Idle(parser)
    BY DEF Answering
  <2>3. y \in Texts
    BY <1>1, <1>3, <2>2, ExpectSome
  <2>4. Text(<<l>>) = Append(l, NL)
    BY <2>1, Marks, TextOne DEF LineSet, Texts
  <2>. QED BY <1>1, <1>2, <2>1, <2>3, <2>4
<1>5. PICK r, d : d = DigestResponse(resp, l, request.type) /\ r.rest = y /\ Heard(r, d)
  BY <1>4, HearLine, FreshIs DEF ReadBegins
<1>6. PICK n, q : Idle(q) /\ d = Begun("new", n, q, l, request.type)
  BY <1>5, FreshBegins DEF ReadBegins
<1>7. UNCHANGED <<server, c2s>> /\ request.type = "READ"
  BY DEF Hear, ReadBegins
<1>8. d = Await(Resp("parsing", n, <<>>, q))
  BY <1>2, <1>6, <1>7 DEF Begun
<1>9. d.got = Nothing /\ d.resp = Resp("parsing", n, <<>>, q)
  BY <1>8 DEF Await
<1>10. s2c' = y /\ resp' = Resp("parsing", n, <<>>, q) /\ request' = request /\ handed' = handed
  <2>1. Nothing.type = "nothing"
    BY DEF Nothing
  <2>. QED BY <1>5, <1>7, <1>9, <2>1 DEF Heard, server
<1>11. Expect(q, y, handed)
  BY <1>3, <1>6
<1>12. ReadGoesOn'
  <2>1. Service!Shows(Arrived(handed))'
    BY <1>7, <1>10 DEF ReadBegins, server, Service!Shows, Service!Mailbox
  <2>. QED BY <1>1, <1>7, <1>10, <1>11, <2>1 DEF ReadGoesOn
<1>13. Coming'
  BY <1>12 DEF Coming
<1>. QED BY <1>5, <1>7, <1>9, <1>13, WaitAgrees

LEMMA HearReadGoesOn ==
  ASSUME Agree, Answering, ReadGoesOn, Hear
  PROVE  Agree' /\ Telling
<1>1. Good(handed) /\ Carried(handed) /\ handed.type = "SEND"
  BY GoodIsCarried DEF ReadGoesOn
<1>2. PICK n, c, q : resp = Resp("parsing", n, c, q) /\ Expect(q, s2c, handed)
  BY DEF ReadGoesOn
<1>3. resp.state = "parsing" /\ resp.parser = q
  BY <1>2 DEF Resp
<1>4. PICK e, x : e = FALSE /\ x = <<>>
  OBVIOUS
<1>5. e \in BOOLEAN /\ (e <=> spc # "serving")
  BY <1>4 DEF Answering
<1>6. PICK r, d :
        /\ r \in Readings(s2c, resp.parser.awaiting, e)
        /\ d = DigestResponse(resp, r.data, request.type) /\ Heard(r, d)
  BY <1>5, HearIs
<1>7. x \in Texts /\ s2c \in Texts /\ s2c \o x = s2c
  BY <1>1, <1>2, <1>4, ExpectSome, AfterText, TextsAre
<1>8. PICK z : z = Digest(q, r.data)
  OBVIOUS
<1>9. r.rest \in Texts /\ After(z, r.rest, handed)
  <2>1. r \in Readings(s2c, q.awaiting, e)
    BY <1>3, <1>6
  <2>2. Expect(q, s2c \o x, handed)
    BY <1>2, <1>7
  <2>3. r.rest \in Texts /\ After(z, r.rest \o x, handed)
    BY <1>1, <1>4, <1>5, <1>7, <1>8, <2>1, <2>2, ReadOn
  <2>. QED BY <1>4, <2>3, AfterText
<1>10. UNCHANGED <<server, c2s>> /\ request.type = "READ" /\ request.type # "QUIT"
  BY DEF Hear, ReadGoesOn
<1>11. d = NextOfMail(Resp("parsing", n, c, q), r.data)
  BY <1>2, <1>3, <1>6, <1>10 DEF DigestResponse
<1>12. CASE z.got = Nothing /\ z.parser.state # "new" /\ Expect(z.parser, r.rest, handed)
  <2>1. z.got.type \notin {"malformed", "endless", "SEND"}
    BY <1>12 DEF Nothing
  <2>2. d = Await(Resp("parsing", n, c, z.parser))
    BY <1>8, <1>11, <1>12, <2>1, NextOfMailIs
  <2>3. d.got = Nothing /\ d.resp = Resp("parsing", n, c, z.parser)
    BY <2>2 DEF Await
  <2>4. s2c' = r.rest /\ resp' = Resp("parsing", n, c, z.parser) /\ request' = request /\ handed' = handed
    <3>1. Nothing.type = "nothing"
      BY DEF Nothing
    <3>. QED BY <1>6, <1>10, <2>3, <3>1 DEF Heard, server
  <2>5. ReadGoesOn'
    <3>1. Service!Shows(Arrived(handed))'
      BY <1>10, <2>4 DEF ReadGoesOn, server, Service!Shows, Service!Mailbox
    <3>. QED BY <1>1, <1>10, <1>12, <2>4, <3>1 DEF ReadGoesOn
  <2>6. Coming'
    BY <2>5 DEF Coming
  <2>. QED BY <1>6, <1>10, <2>3, <2>6, WaitAgrees
<1>13. CASE z.got = Arrived(handed) /\ Idle(z.parser) /\ r.rest = <<>>
  <2>1. z.got.type = "SEND"
    BY <1>1, <1>13, ArrivedIs
  <2>2. d = Tell(Resp("parsing", n, c, z.parser), Read(z.got))
    BY <1>8, <1>11, <2>1, NextOfMailIs
  <2>3. d.got = Read(Arrived(handed)) /\ Fresh(d.resp)
    BY <1>13, <2>2, TellIs
  <2>4. AllTold(d, r.rest)
    BY <1>1, <1>13, <2>3, WordsApart, TrueIs DEF AllTold, ReadGoesOn
  <2>. QED BY <1>6, <1>10, <2>4, ToldAgrees
<1>. QED BY <1>9, <1>12, <1>13 DEF After

LEMMA HearNothing ==
  ASSUME Hear, s2c = <<>>, resp.parser.awaiting = 0
  PROVE  FALSE
<1>1. PICK e \in BOOLEAN : e <=> spc # "serving"
  OBVIOUS
<1>2. Readings(s2c, resp.parser.awaiting, e) = {}
  BY NothingThere
<1>. QED BY <1>1, <1>2, HearIs

LEMMA HearAnswering == ASSUME Agree, Hear PROVE Answering
<1>1. cpc = "wait"
  BY DEF Hear
<1>2. CASE Asking \/ Closing
  BY <1>2, HearNothing, FreshIs DEF Asking, Closing
<1>. QED BY <1>1, <1>2 DEF Agree, AtStart, AtWelcome, AtMenu, Left

LEMMA HearAgrees == ASSUME Agree, Hear PROVE Agree' /\ Telling
<1>1. Answering
  BY HearAnswering
<1>. QED BY <1>1, HearRefusal, HearAgreement, HearListBegins, HearListGoesOn, HearReadBegins,
            HearReadGoesOn DEF Answering, Coming

-----------------------------------------------------------------------------
(* All mails of all requests so far are plain, or nothing is claimed. *)
AgreeInv == SessionInv /\ (AllPlain => Agree)

LEMMA SentGrows == ASSUME [Next]_vars PROVE sent \subseteq sent'
<1>1. CASE UNCHANGED vars
  BY <1>1 DEF vars, client
<1>2. CASE Connect \/ Welcomed \/ Transmit \/ Hear \/ Leave
  BY <1>2 DEF Connect, Welcomed, Transmit, Hear, Leave
<1>3. CASE Refused \/ Die \/ Lost
  BY <1>2, <1>3 DEF Refused, Die, Lost
<1>4. CASE Greet \/ Receive \/ Disconnected \/ Reset
  BY <1>4 DEF Greet, Receive, Disconnected, Reset, client
<1>5. CASE Choose
  BY <1>5 DEF Choose
<1>. QED BY <1>1, <1>2, <1>3, <1>4, <1>5 DEF Next

LEMMA ComingStays ==
  ASSUME UNCHANGED <<request, resp, s2c, loggedIn, box, handed>>, Coming
  PROVE  Coming'
<1>1. Refusal => Refusal'
  BY DEF Refusal, Fresh
<1>2. Agreement => Agreement'
  BY StillTrue DEF Agreement, Fresh
<1>3. ListBegins => ListBegins'
  <2>1. \A t : Service!Listed(t) => Service!Listed(t)'
    BY StillTrue
  <2>. QED BY <2>1 DEF ListBegins, Fresh
<1>4. ListGoesOn => ListGoesOn'
  <2>1. \A t : Service!Listed(t) => Service!Listed(t)'
    BY StillTrue
  <2>. QED BY <2>1 DEF ListGoesOn
<1>5. /\ ReadBegins => ReadBegins'
      /\ ReadGoesOn => ReadGoesOn'
  <2>1. Service!Shows(Arrived(handed)) => Service!Shows(Arrived(handed))'
    BY DEF Service!Shows, Service!Mailbox
  <2>. QED BY <2>1 DEF ReadBegins, ReadGoesOn, Fresh
<1>. QED BY <1>1, <1>2, <1>3, <1>4, <1>5 DEF Coming

LEMMA AgreeStep == AgreeInv /\ [Next]_vars => AgreeInv'
<1> SUFFICES ASSUME AgreeInv, [Next]_vars, AllPlain' PROVE Agree'
  BY SessionStep DEF AgreeInv
<1>1. AllPlain
  BY SentGrows DEF AllPlain
<1>2. SessionInv /\ Agree /\ asks \in Nat
  BY <1>1, OldCount DEF AgreeInv, SessionInv
<1>3. CASE UNCHANGED vars
  <2>1. Coming => Coming'
    BY <1>3, ComingStays DEF vars, client, server
  <2>. QED BY <1>2, <1>3, <2>1 DEF vars, client, server, Agree, AtStart, AtWelcome, AtMenu, Asking,
         Answering, Closing, Left, GoneQuiet, GoneAsking, Asked, Quiet, Seen
<1>4. CASE Connect
  BY <1>2, <1>4, ConnectAgrees
<1>5. CASE Refused \/ Die \/ Lost
  BY <1>2, <1>5, LeaveAgrees DEF Refused, Die, Lost
<1>6. CASE Greet
  BY <1>2, <1>6, GreetAgrees
<1>7. CASE Welcomed
  BY <1>2, <1>7, WelcomedAgrees
<1>8. CASE Choose
  BY <1>2, <1>8, ChooseAgrees
<1>9. CASE Transmit
  BY <1>2, <1>9, TransmitAgrees
<1>10. CASE Hear
  BY <1>2, <1>10, HearAgrees
<1>11. CASE Receive
  BY <1>2, <1>11, ReceiveAgrees
<1>12. CASE Disconnected
  BY <1>2, <1>12, DisconnectedAgrees
<1>13. CASE Reset
  BY <1>2, <1>13, ResetAgrees
<1>. QED BY <1>3, <1>4, <1>5, <1>6, <1>7, <1>8, <1>9, <1>10, <1>11, <1>12, <1>13 DEF Next

LEMMA AgreeAlways == Spec => []AgreeInv
<1>1. Init => AgreeInv
  BY InitSession, InitAgrees DEF AgreeInv
<1>. QED BY <1>1, AgreeStep, PTL DEF Spec

(* Back at its menu after plain mails, so with lines that fit the buffer, the client
   and the server's thread have finished with the request, whatever else was in it and
   in however many pieces it came: no byte of it is on its way or in a parser. *)
THEOREM BackInStep == Spec => []InStep
<1>1. AgreeInv => InStep
  <2> SUFFICES ASSUME AgreeInv, AllPlain, cpc = "menu", spc = "serving"
               PROVE  /\ c2s = <<>> /\ s2c = <<>>
                      /\ parser.state = "new" /\ parser.data = <<>>
                      /\ resp.state = "new" /\ resp.parser.state = "new" /\ resp.parser.data = <<>>
    BY DEF InStep
  <2>1. AtMenu
    BY DEF AgreeInv, Agree, AtStart, AtWelcome, Asking, Answering, Closing, Left
  <2>. QED BY <2>1, IdleAwaits, FreshIs DEF AtMenu, Quiet
<1>. QED BY <1>1, AgreeAlways, PTL

(* The mail that a READ shows is the one the server's handler handed out, but for the
   last byte of each attachment, after the two ends' parsers. *)
THEOREM ShownAsStored == Spec => []ReadAsStored
<1>1. AgreeInv => ReadAsStored
  <2> SUFFICES ASSUME AgreeInv, AllPlain, cpc = "menu", shown.type = "read"
               PROVE  SameRequest(shown.mail, handed)
    BY DEF ReadAsStored
  <2>1. AtMenu
    BY DEF AgreeInv, Agree, AtStart, AtWelcome, Asking, Answering, Closing, Left
  <2>2. Good(handed) /\ shown.mail = Arrived(handed)
    BY <2>1 DEF AtMenu, Quiet, Seen
  <2>. QED BY <2>2, ArrivedSame
<1>. QED BY <1>1, AgreeAlways, PTL

(* While the client is there, plain mails never end the server's process. *)
THEOREM PlainIsSafe == Spec => []PlainMailsAreSafe
<1>1. AgreeInv => PlainMailsAreSafe
  BY DEF AgreeInv, PlainMailsAreSafe, Agree, AtStart, AtWelcome, AtMenu, Asking, Answering, Closing, Left
<1>. QED BY <1>1, AgreeAlways, PTL

(* A client that takes itself for logged in is so for the server. *)
THEOREM LoginsAgree == Spec => []LoginAgrees
<1>1. AgreeInv => LoginAgrees
  BY DEF AgreeInv, LoginAgrees, Agree
<1>. QED BY <1>1, AgreeAlways, PTL

LEMMA StepDelivers ==
  ASSUME AgreeInv, [Next]_vars, AllPlain
  PROVE  Delivery
<1>1. CASE Receive
  BY <1>1, ReceiveAgrees DEF AgreeInv
<1>2. CASE UNCHANGED vars
  BY <1>2 DEF vars, server, Delivery
<1>3. CASE Connect \/ Greet \/ Disconnected
  BY <1>3 DEF Connect, Greet, Disconnected, Delivery
<1>4. CASE Refused \/ Welcomed \/ Choose \/ Transmit \/ Die \/ Hear \/ Lost \/ Reset
  <2>1. UNCHANGED server
    BY <1>4 DEF Refused, Welcomed, Choose, Transmit, Die, Hear, Lost, Reset
  <2>. QED BY <2>1 DEF server, Delivery
<1>. QED BY <1>1, <1>2, <1>3, <1>4 DEF Next

(* However a request is cut into pieces, its handler gets it once, and as it was sent;
   when its client ended inside it, at most with other or fewer bytes in its
   attachments, a shorter last line or a smaller number. *)
THEOREM AsSent == Spec => ServedAsSent
<1>1. AgreeInv /\ [Next]_vars
        => [AllPlain /\ served' # served => served'.nth <= asks /\ SameRequest(served'.msg, request)]_vars
  <2> SUFFICES ASSUME AgreeInv, [Next]_vars, AllPlain, served' # served
               PROVE  served'.nth <= asks /\ SameRequest(served'.msg, request)
    OBVIOUS
  <2>1. Asked /\ served.nth + 1 = asks /\ \E m : Given(m) /\ Outcome(m)
    BY StepDelivers DEF Delivery
  <2>2. PICK m : Given(m) /\ Outcome(m)
    BY <2>1
  <2>3. served'.nth = served.nth + 1 /\ served'.msg = m
    BY <2>2 DEF Outcome
  <2>4. served.nth \in Nat /\ asks \in Nat
    BY OldCount DEF AgreeInv, Agree, SessionInv
  <2>5. SameRequest(m, request)
    BY <2>1, <2>2, GivenSame DEF Asked
  <2>. QED BY <2>1, <2>3, <2>4, <2>5
<1>. QED BY <1>1, AgreeAlways, PTL DEF Spec, ServedAsSent

(* A mail comes into a mailbox only by the SEND request that the client waits for, or
   has left behind. *)
THEOREM OnlyWhenAsked == Spec => DeliveredWhenAsked
<1>1. AgreeInv /\ [Next]_vars
        => [AllPlain => \A b \in box' \ box : request.type = "SEND" /\ cpc \in {"wait", "gone"}
                                              /\ b[2].title = request.title]_vars
  <2> SUFFICES ASSUME AgreeInv, [Next]_vars, AllPlain, NEW b \in box' \ box
               PROVE  request.type = "SEND" /\ cpc \in {"wait", "gone"} /\ b[2].title = request.title
    OBVIOUS
  <2>1. Asked /\ cpc \in {"wait", "gone"} /\ \E m : Given(m) /\ Outcome(m)
    BY StepDelivers DEF Delivery
  <2>2. PICK m : Given(m) /\ Outcome(m)
    BY <2>1
  <2>3. m.type = "SEND" /\ b[2] = m
    BY <2>2 DEF Outcome
  <2>. QED BY <2>1, <2>2, <2>3, GivenIs DEF Asked
<1>. QED BY <1>1, AgreeAlways, PTL DEF Spec, DeliveredWhenAsked

-----------------------------------------------------------------------------
(* The service that a session is to its user: each step is one of the service's, or
   leaves all of it as it is. *)
LEMMA TurnStays ==
  ASSUME UNCHANGED <<cpc, asks, sent, served>>
  PROVE  UNCHANGED Turn
BY DEF Turn, AllPlain

LEMMA Counts == ASSUME AgreeInv, AllPlain PROVE served.nth \in Nat /\ asks \in Nat /\ Agree
BY OldCount DEF AgreeInv, Agree, SessionInv

LEMMA ChooseAsks ==
  ASSUME AgreeInv, AllPlain, Choose
  PROVE  \E m \in Offers : Service!Ask(m)
<1>1. PICK m \in (IF user.loggedIn THEN MainMenu ELSE LoginMenu) \cup {Quit} :
        /\ request' = m
        /\ sent' = IF m.type = "SEND" THEN sent \cup {m} ELSE sent
  BY DEF Choose
<1>2. cpc = "menu" /\ cpc' = "wait" /\ asks' = asks + 1
      /\ UNCHANGED <<box, loggedIn, served, shown>>
  BY DEF Choose, server
<1>3. m \in Offers
  BY DEF Offers
<1>4. served.nth < asks'
  <2>1. AtMenu
    BY <1>2, Counts DEF Agree, AtStart, AtWelcome, Asking, Answering, Closing, Left
  <2>. QED BY <1>2, <2>1, Counts DEF AtMenu, Quiet
<1>5. AllPlain' <=> (m.type = "SEND" => Plain(m))
  BY <1>1 DEF AllPlain
<1>6. Turn = "idle" /\ Turn' = IF m.type = "SEND" => Plain(m) THEN "asked" ELSE "void"
  BY <1>2, <1>4, <1>5 DEF Turn
<1>7. m \in {n \in Offers : n.type = "SEND" => Plain(n)} <=> (m.type = "SEND" => Plain(m))
  BY <1>3
<1>. QED BY <1>1, <1>2, <1>3, <1>6, <1>7 DEF Service!Ask

LEMMA LeaveLeaves ==
  ASSUME AgreeInv, AllPlain, Leave, cpc # "gone", UNCHANGED server
  PROVE  Service!Leave
<1>1. cpc' = "gone" /\ UNCHANGED <<request, asks, sent, shown, box, loggedIn, served>>
  BY DEF Leave, server
<1>2. cpc # "wait" => served.nth = asks
  BY Counts DEF Agree, AtStart, AtWelcome, AtMenu, Quiet, Asking, Answering, Closing, Left
<1>3. AllPlain'
  BY <1>1 DEF AllPlain
<1>4. /\ Turn = IF cpc # "wait" THEN "idle" ELSE IF served.nth < asks THEN "asked" ELSE "served"
      /\ Turn' = IF served.nth < asks THEN "left" ELSE "over"
  BY <1>1, <1>3 DEF Turn
<1>5. /\ Turn \in {"idle", "asked", "served"}
      /\ Turn' = IF Turn = "asked" THEN "left" ELSE "over"
  BY <1>2, <1>4, Counts
<1>. QED BY <1>1, <1>5 DEF Service!Leave

LEMMA HearShows ==
  ASSUME AgreeInv, AllPlain, Hear
  PROVE  Service!Show \/ UNCHANGED Service!vars
<1>1. Answering /\ Telling
  BY Counts, HearAnswering, HearAgrees
<1>2. UNCHANGED <<request, asks, sent, box, loggedIn, served>>
  BY DEF Hear, Leave, server
<1>3. CASE UNCHANGED <<cpc, shown>>
  BY <1>2, <1>3, TurnStays DEF Service!vars
<1>4. CASE cpc' = "menu" /\ Service!True(shown')
  <2>1. Turn = "served" /\ Turn' = "idle"
    BY <1>1, <1>2, <1>4, Counts DEF Turn, AllPlain, Answering
  <2>. QED BY <1>2, <1>4, <2>1 DEF Service!Show
<1>. QED BY <1>1, <1>3, <1>4 DEF Telling

(* What is made of a request as it was given is made of the one that was asked. *)
LEMMA EffectPerforms ==
  ASSUME Asked, NEW m, Given(m), Effect(m), Turn = "asked" => cpc # "gone"
  PROVE  Service!Perform
<1>1. Carried(request) /\ m.type = request.type
  BY GivenIs DEF Asked
<1>2. CASE UNCHANGED <<box, loggedIn>>
  BY <1>2 DEF Service!Perform
<1>3. CASE /\ m.type = "SEND" /\ loggedIn /\ UNCHANGED loggedIn
           /\ \E n \in 0..Len(m.receivers) : box' = box \cup {<<m.receivers[i], m>> : i \in 1..n}
  <2>1. PICK n \in 0..Len(m.receivers) : box' = box \cup {<<m.receivers[i], m>> : i \in 1..n}
    BY <1>3
  <2>2. /\ m.receivers = request.receivers /\ Service!Torn(m, request)
        /\ cpc # "gone" => Service!Copy(m, request)
    BY <1>1, <1>3, GivenCopy
  <2>3. CASE n = 0
    <3>1. {<<m.receivers[i], m>> : i \in 1..n} = {}
      BY <2>3
    <3>. QED BY <1>3, <2>1, <3>1 DEF Service!Perform
  <2>4. CASE n # 0
    <3>1. <<m.receivers[1], m>> \in box'
      BY <2>1, <2>4
    <3>2. m \in {b[2] : b \in box'}
      BY <3>1
    <3>3. box' = box \cup {<<request.receivers[i], m>> : i \in 1..n} /\ n \in 0..Len(request.receivers)
      BY <2>1, <2>2
    <3>4. Service!Deliver
      BY <1>1, <1>3, <2>2, <3>2, <3>3 DEF Service!Deliver
    <3>. QED BY <1>3, <3>4 DEF Service!Perform
  <2>. QED BY <2>3, <2>4
<1>4. CASE /\ m.type = "DEL" /\ loggedIn /\ UNCHANGED loggedIn
           /\ \E b \in box : b[1] = m.user /\ box' = box \ {b}
  BY <1>1, <1>4, GivenOrder DEF Service!Perform, Service!Delete
<1>5. CASE /\ m.type = "LOGIN" /\ UNCHANGED box
           /\ loggedIn' => loggedIn \/ m.password = <<"right">>
  BY <1>1, <1>5, GivenOrder DEF Service!Perform, Service!Login
<1>. QED BY <1>2, <1>3, <1>4, <1>5 DEF Effect

LEMMA ReceiveServes ==
  ASSUME AgreeInv, AllPlain, Receive
  PROVE  Service!Serve \/ UNCHANGED Service!vars
<1>1. Delivery
  BY Counts, ReceiveAgrees DEF AgreeInv
<1>2. UNCHANGED <<cpc, request, asks, sent, shown>>
  BY DEF Receive, client
<1>3. CASE UNCHANGED <<served, box, loggedIn>>
  BY <1>2, <1>3, TurnStays DEF Service!vars
<1>4. CASE Asked /\ cpc \in {"wait", "gone"} /\ served.nth + 1 = asks /\ \E m : Given(m) /\ Outcome(m)
  <2>1. PICK m : Given(m) /\ Outcome(m)
    BY <1>4
  <2>2. served.nth < asks /\ ~(served'.nth < asks)
    BY <1>4, <2>1, Counts DEF Outcome
  <2>3. AllPlain'
    BY <1>2 DEF AllPlain
  <2>4. /\ Turn = IF cpc = "gone" THEN "left" ELSE "asked"
        /\ Turn' = IF cpc = "gone" THEN "over" ELSE "served"
    BY <1>2, <1>4, <2>2, <2>3 DEF Turn
  <2>5. Service!Perform
    BY <1>4, <2>1, <2>4, EffectPerforms DEF Outcome
  <2>. QED BY <1>2, <2>4, <2>5 DEF Service!Serve
<1>. QED BY <1>1, <1>3, <1>4 DEF Delivery

LEMMA OthersStay ==
  ASSUME AllPlain,
         UNCHANGED vars \/ Connect \/ Welcomed \/ Greet \/ Transmit \/ Disconnected \/ Reset
  PROVE  UNCHANGED Service!vars
<1>1. UNCHANGED <<request, asks, sent, shown, box, loggedIn, served>>
  BY DEF vars, client, server, Connect, Welcomed, Greet, Transmit, Disconnected, Reset
<1>2. CASE Connect \/ Welcomed
  <2>1. cpc \in {"off", "welcome"} /\ cpc' \in {"welcome", "menu"}
    BY <1>2 DEF Connect, Welcomed
  <2>2. Turn = "idle" /\ Turn' = "idle"
    BY <1>1, <2>1 DEF Turn, AllPlain
  <2>. QED BY <1>1, <2>2 DEF Service!vars
<1>3. CASE UNCHANGED vars \/ Greet \/ Transmit \/ Disconnected \/ Reset
  <2>1. UNCHANGED cpc
    BY <1>3 DEF vars, client, Greet, Transmit, Disconnected, Reset
  <2>. QED BY <1>1, <2>1, TurnStays DEF Service!vars
<1>. QED BY <1>2, <1>3

LEMMA ServiceStep == AgreeInv /\ [Next]_vars => [Service!Next]_(Service!vars)
<1> SUFFICES ASSUME AgreeInv, [Next]_vars PROVE [Service!Next]_(Service!vars)
  OBVIOUS
<1>1. CASE ~AllPlain
  <2>1. ~AllPlain'
    BY <1>1, SentGrows DEF AllPlain
  <2>2. Service!Void
    BY <1>1, <2>1 DEF Turn, Service!Void
  <2>. QED BY <2>2 DEF Service!Next
<1>2. CASE AllPlain /\ Choose
  BY <1>2, ChooseAsks DEF Service!Next
<1>3. CASE AllPlain /\ (Refused \/ Die \/ Lost)
  <2>1. Leave /\ cpc # "gone" /\ UNCHANGED server
    BY <1>3 DEF Refused, Die, Lost
  <2>. QED BY <1>3, <2>1, LeaveLeaves DEF Service!Next
<1>4. CASE AllPlain /\ Hear
  BY <1>4, HearShows DEF Service!Next
<1>5. CASE AllPlain /\ Receive
  BY <1>5, ReceiveServes DEF Service!Next
<1>6. CASE AllPlain /\ (UNCHANGED vars \/ Connect \/ Welcomed \/ Greet \/ Transmit \/ Disconnected \/ Reset)
  BY <1>6, OthersStay
<1>. QED BY <1>1, <1>2, <1>3, <1>4, <1>5, <1>6 DEF Next

(* However the texts of requests and responses are cut, and wherever an end goes away,
   the two ends together are the service until a mail is sent that is not plain: a
   request is carried out at most once, in one step and as it was made, and the
   response shown is true of the mailboxes. *)
THEOREM SessionServes == Spec => ServiceSpec
<1>1. Init => Service!Init
  BY DEF Init, Service!Init, Turn
<1>. QED BY <1>1, ServiceStep, AgreeAlways, PTL DEF Spec, ServiceSpec, Service!Spec
===============================================================================
