------------------------- MODULE ConnectionsProofs -------------------------
(* What holds of the server's table of descriptors for any number of clients,
   numbers and things the clients may send. *)
EXTENDS Connections, WellFoundedInduction, TLAPS

(* The connection accept returned waits for its thread. *)
NewInv ==
  /\ new # None => cpc[new] = "none"
  /\ mpc \in {"accept", "created"} => new = None
  /\ \A c \in gaveUp : cpc[c] # "none"

(* A number denotes a socket or a file only while its thread knows of it. *)
LeakInv ==
  \A f \in Fds, c \in Conns :
    /\ fdt[f] = Sock(c) => f = sd[c] /\ (Live(c) \/ new = c)
    /\ fdt[f] = File(c) => f = ffd[c] /\ cpc[c] \in {"write", "flush"}

(* Who has been given the number of a socket, and has not closed it. *)
Holds(c) == (Live(c) \/ new = c) /\ c \notin gaveUp

(* The numbers denote what they were given out for. *)
TableInv ==
  ~reused => \A c \in Conns :
    /\ Holds(c) => fdt[sd[c]] = Sock(c)
    /\ Live(c) /\ c \in gaveUp => fdt[sd[c]] = Free
    /\ cpc[c] \in {"write", "flush"} => fdt[ffd[c]] = File(c)

(* Until shut_down closes it, number 0 is the listening socket. *)
WelcomeInv == ~reused /\ (Serving \/ mpc = "stop") => fdt[0] = Welcome

(* A thread reads from its own client. *)
ReadInv ==
  ~reused => \A c \in Conns :
    /\ on[c] \in {Free, Sock(c)}
    /\ \A k \in DOMAIN todo[c] : todo[c][k][1] = c

(* A thread that reads has nothing left to serve; one that ends inside a message
   has found the end of its own connection. *)
FinishInv ==
  ~reused => \A c \in Conns :
    /\ cpc[c] = "read" => todo[c] = <<>> /\ (c \notin gaveUp => on[c] = Sock(c))
    /\ cpc[c] \in {"close", "ended"} /\ inside[c] /\ c \notin gaveUp =>
         todo[c] = <<>> /\ taken[c] = sent[c]
    /\ cpc[c] = "close" /\ inside[c] /\ c \notin gaveUp => peer[c] = "gone" \/ c \in shut

Inv == TypeOK /\ NewInv /\ LeakInv /\ TableInv /\ WelcomeInv /\ ReadInv /\ FinishInv

-----------------------------------------------------------------------------
(* What numbers denote can be told apart. *)
LEMMA ObjectsDiffer ==
  /\ Free \in Objects /\ Welcome \in Objects /\ Free # Welcome
  /\ Free.kind = "free" /\ Welcome.kind = "welcome"
  /\ \A c \in Conns :
       /\ Sock(c) \in Objects /\ File(c) \in Objects
       /\ Sock(c).kind = "sock" /\ File(c).kind = "file"
       /\ Sock(c).of = c /\ File(c).of = c
       /\ \A d \in Conns : /\ Sock(c) # File(d) /\ (Sock(c) = Sock(d) => c = d)
                           /\ (File(c) = File(d) => c = d)
       /\ Free # Sock(c) /\ Free # File(c) /\ Welcome # Sock(c) /\ Welcome # File(c)
  /\ \A o \in Objects : /\ o.kind = "sock" => o.of \in Conns /\ o = Sock(o.of)
                        /\ o.kind = "file" => o.of \in Conns /\ o = File(o.of)
<1>1. Free \in Objects /\ Welcome \in Objects /\ Free # Welcome
  BY DEF Objects, Free, Welcome
<1>2. Free.kind = "free" /\ Welcome.kind = "welcome"
  BY DEF Free, Welcome
<1>3. ASSUME NEW c \in Conns
      PROVE  /\ Sock(c) \in Objects /\ File(c) \in Objects
             /\ Sock(c).kind = "sock" /\ File(c).kind = "file"
             /\ Sock(c).of = c /\ File(c).of = c
  BY DEF Objects, Sock, File
<1>4. \A o \in Objects : \/ o = Free \/ o = Welcome
                         \/ \E c \in Conns : o = Sock(c) \/ o = File(c)
  BY DEF Objects
<1> HIDE DEF Objects, Free, Welcome, Sock, File
<1>5. \A c, d \in Conns : /\ Sock(c) # File(d) /\ (Sock(c) = Sock(d) => c = d)
                          /\ (File(c) = File(d) => c = d)
                          /\ Free # Sock(c) /\ Free # File(c) /\ Welcome # Sock(c) /\ Welcome # File(c)
  <2> TAKE c, d \in Conns
  <2>1. /\ Sock(c).kind = "sock" /\ File(c).kind = "file" /\ File(d).kind = "file"
        /\ Sock(c).of = c /\ File(c).of = c /\ Sock(d).of = d /\ File(d).of = d
    BY <1>3
  <2> QED BY <1>2, <2>1
<1>6. \A o \in Objects : /\ o.kind = "sock" => o.of \in Conns /\ o = Sock(o.of)
                         /\ o.kind = "file" => o.of \in Conns /\ o = File(o.of)
  <2> TAKE o \in Objects
  <2>1. CASE o = Free \/ o = Welcome
    BY <1>2, <2>1
  <2>2. ASSUME NEW c \in Conns, o = Sock(c) \/ o = File(c)
        PROVE  /\ o.kind = "sock" => o.of \in Conns /\ o = Sock(o.of)
               /\ o.kind = "file" => o.of \in Conns /\ o = File(o.of)
    BY <1>3, <2>2
  <2> QED BY <1>4, <2>1, <2>2
<1> QED BY <1>1, <1>2, <1>3, <1>5, <1>6

(* The kernel gives out a number that was free. *)
LEMMA LowestIsOpen ==
  ASSUME Opening # {}
  PROVE  Lowest \in Opening
<1>1. Opening \subseteq Nat
  BY ConnectionAssumption DEF Opening, Fds
<1>2. PICK f \in Opening : \A g \in Opening : ~ (<<g, f>> \in OpToRel(<, Nat))
  BY <1>1, WFMin, NatLessThanWellFounded
<1>3. OpToRel(<, Nat) = {ss \in Nat \X Nat : ss[1] < ss[2]}
  BY Zenon DEF OpToRel
<1>4. \A g \in Opening : <<g, f>> \notin {ss \in Nat \X Nat : ss[1] < ss[2]}
  BY <1>2, <1>3, Zenon
<1>5. \A m, n \in Nat : m < n => <<m, n>> \in {ss \in Nat \X Nat : ss[1] < ss[2]}
  OBVIOUS
<1>6. \A g \in Opening : ~ (g < f)
  BY <1>1, <1>4, <1>5
<1>7. \A g \in Opening : f <= g
  BY <1>1, <1>6
<1> QED BY <1>7 DEF Lowest

(* A client sends a sequence of pieces. *)
LEMMA ScriptIsSeq ==
  ASSUME TypeOK, NEW c \in Conns
  PROVE  /\ script[c] \in Seq(Pieces) /\ Len(script[c]) \in Nat
         /\ \A k \in 1..Len(script[c]) : script[c][k] \in Pieces
BY ConnectionAssumption DEF TypeOK

LEMMA InitInv == Init => Inv
<1> SUFFICES ASSUME Init PROVE Inv
  OBVIOUS
<1>1. TypeOK
  <2>1. 0 \in Fds /\ \A S : <<>> \in Seq(S)
    BY ConnectionAssumption DEF Fds
  <2>2. \A c \in Conns : Len(script[c]) \in Nat
    BY ConnectionAssumption DEF Init
  <2>3. fdt \in [Fds -> Objects] /\ on \in [Conns -> Objects]
    BY ObjectsDiffer DEF Init
  <2>4. todo \in [Conns -> Lines] /\ listed \in Seq(Fds) /\ toShut \in Seq(Fds)
    BY <2>1 DEF Init, Lines
  <2>5. \A c \in Conns : taken[c] <= sent[c] /\ sent[c] <= Len(script[c])
    BY <2>2 DEF Init
  <2> QED BY <2>1, <2>3, <2>4, <2>5 DEF Init, TypeOK
<1>2. NewInv /\ LeakInv /\ TableInv /\ WelcomeInv
  BY ConnectionAssumption, ObjectsDiffer
     DEF Init, Fds, NewInv, LeakInv, TableInv, WelcomeInv, Serving, Holds, Live
<1>3. ReadInv /\ FinishInv
  BY DEF Init, ReadInv, FinishInv
<1> QED BY <1>1, <1>2, <1>3 DEF Inv

-----------------------------------------------------------------------------
(* The types. *)

LEMMA SendTypeOK ==
  ASSUME TypeOK, NEW c \in Conns, Send(c) \/ GoAway(c)
  PROVE  TypeOK'
<1>1. CASE Send(c)
  <2>1. PICK n \in (sent[c] + 1)..Len(script[c]) : sent' = [sent EXCEPT ![c] = n]
    BY <1>1 DEF Send
  <2>2. n \in Nat /\ sent[c] <= n /\ n <= Len(script[c])
    BY ScriptIsSeq DEF TypeOK
  <2>3. \A d \in Conns : taken[d] <= sent'[d] /\ sent'[d] <= Len(script[d])
    BY <2>1, <2>2 DEF TypeOK
  <2> QED BY <1>1, <2>1, <2>2, <2>3 DEF Send, TypeOK, main, thread, history, Live
<1>2. CASE GoAway(c)
  BY <1>2 DEF GoAway, TypeOK, main, thread, history, Live
<1> QED BY <1>1, <1>2

LEMMA MainTypeOK ==
  ASSUME TypeOK, Signal \/ SpawnFails \/ Main \/ \E c \in Conns : Accept(c) \/ AcceptFails(c)
  PROVE  TypeOK'
<1>1. ASSUME NEW c \in Conns, Accept(c)
      PROVE  TypeOK'
  <2>1. Lowest \in Fds
    BY <1>1, LowestIsOpen DEF Accept, Opening
  <2>2. fdt' \in [Fds -> Objects] /\ sd' \in [Conns -> Fds] /\ reused' \in BOOLEAN
    BY <1>1, <2>1, ObjectsDiffer DEF Accept, GiveOut, TypeOK
  <2> QED BY <1>1, <2>2, ConnectionAssumption DEF Accept, TypeOK, thread, client
<1>2. CASE Signal \/ Join \/ \E c \in Conns : AcceptFails(c)
  BY <1>2 DEF AcceptFails, Signal, Join, Joined, Live, TypeOK, thread, client, history
<1>7. CASE EnterUpdate \/ LeaveUpdate \/ Spawned
  BY <1>7 DEF EnterUpdate, LeaveUpdate, Spawned, TypeOK, thread, client, history
<1>8. CASE SpawnFails
  BY <1>8 DEF SpawnFails, Dies, TypeOK, thread, client, history
<1>3. CASE Enlist
  <2>1. new \in Conns /\ sd[new] \in Fds
    BY <1>3 DEF Enlist, TypeOK
  <2>2. listed' \in Seq(Fds)
    BY <1>3, <2>1 DEF Enlist, TypeOK
  <2> QED BY <1>3, <2>1, <2>2 DEF Enlist, TypeOK, thread, client, history
<1>4. CASE Spawn
  <2>1. new \in Conns
    BY <1>4 DEF Spawn, TypeOK
  <2> QED BY <1>4, <2>1 DEF Spawn, TypeOK, client, history
<1>6. CASE CloseWelcome
  <2>1. Free \in Objects
    BY ObjectsDiffer
  <2>2. fdt' \in [Fds -> Objects]
    BY <1>6, <2>1 DEF CloseWelcome, CloseNumber, TypeOK
  <2> QED BY <1>6, <2>2 DEF CloseWelcome, TypeOK, thread, client, history
<1>9. CASE StopThreads
  <2>1. asked' \in [Conns -> BOOLEAN]
    BY <1>9 DEF StopThreads, Live
  <2> QED BY <1>9, <2>1 DEF StopThreads, ToShut, TypeOK, client, history
<1>5. CASE ShutOne
  <2>1. toShut' \in Seq(Fds) /\ Head(toShut) \in Fds
    BY <1>5 DEF ShutOne, TypeOK
  <2>2. shut' \subseteq Conns
    BY <1>5, <2>1, ObjectsDiffer DEF ShutOne, TypeOK
  <2> QED BY <1>5, <2>1, <2>2 DEF ShutOne, TypeOK, thread, client, history
<1> QED BY <1>1, <1>2, <1>3, <1>4, <1>5, <1>6, <1>7, <1>8, <1>9 DEF Main

(* What a thread does with the lines it has read. *)
LEMMA LineTypeOK ==
  ASSUME TypeOK, NEW c \in Conns, Alive, Collect(c) \/ Dispatch(c) \/ Ignore(c) \/ Quit(c)
  PROVE  TypeOK'
<1>1. PICK piece \in Pieces : NextLine(c, piece)
  BY DEF Collect, Dispatch, Ignore, Quit, Pieces
<1>2. todo' \in [Conns -> Lines]
  BY <1>1 DEF NextLine, TypeOK, Lines
<1>3. cpc' \in [Conns -> {"none", "start", "loop", "read", "login", "keep", "write", "flush",
                          "reply", "stuck", "point", "close", "ended"}]
  BY DEF Collect, Dispatch, Ignore, Quit, Go, TypeOK
<1>4. inside' \in [Conns -> BOOLEAN]
  BY DEF Collect, Dispatch, Ignore, Quit, TypeOK
<1>5. fdt' \in [Fds -> Objects] /\ gaveUp' \subseteq Conns
  <2>1. Free \in Objects
    BY ObjectsDiffer
  <2>2. CASE Quit(c)
    BY <2>1, <2>2 DEF Quit, CloseNumber, TypeOK
  <2>3. CASE Collect(c) \/ Dispatch(c) \/ Ignore(c)
    BY <2>3 DEF Collect, Dispatch, Ignore, TypeOK
  <2> QED BY <2>2, <2>3
<1>6. UNCHANGED <<mpc, held, new, listed, toShut, sd, ffd, on, asked, script, sent, peer, taken, shut,
                  reused>>
  BY <1>1 DEF NextLine, main, client
<1>7. mpc # "done"
  BY DEF Alive
<1> QED BY <1>2, <1>3, <1>4, <1>5, <1>6, <1>7 DEF TypeOK

LEMMA ReadTypeOK ==
  ASSUME TypeOK, NEW c \in Conns, Alive, CallRead(c) \/ GetLines(c) \/ GetNothing(c)
  PROVE  TypeOK'
<1>1. CASE CallRead(c) \/ GetNothing(c)
  <2>1. on' \in [Conns -> Objects]
    <3>1. Free \in Objects /\ fdt[sd[c]] \in Objects
      BY ObjectsDiffer DEF TypeOK
    <3> QED BY <1>1, <3>1 DEF CallRead, GetNothing, TypeOK
  <2> QED BY <1>1, <2>1 DEF CallRead, GetNothing, Go, TypeOK, main, client, history, Alive
<1>2. CASE GetLines(c)
  <2> DEFINE d == on[c].of
             n == sent[d] - taken[d]
  <2>1. d \in Conns
    BY <1>2, ObjectsDiffer DEF GetLines, TypeOK
  <2>2. /\ n \in Nat /\ taken[d] \in Nat /\ sent[d] \in Nat
        /\ taken[d] + n = sent[d] /\ sent[d] <= Len(script[d])
    BY <1>2, <2>1 DEF GetLines, Arrived, TypeOK
  <2>3. \A k \in 1..n : <<d, script[d][taken[d] + k]>> \in Conns \X Pieces
    BY <2>1, <2>2, ScriptIsSeq
  <2>4. [k \in 1..n |-> <<d, script[d][taken[d] + k]>>] \in Lines
    <3> HIDE DEF n, d
    <3>1. PICK m, g : m = n /\ g = [k \in 1..m |-> <<d, script[d][taken[d] + k]>>]
      OBVIOUS
    <3>2. m \in Nat /\ \A k \in 1..m : <<d, script[d][taken[d] + k]>> \in Conns \X Pieces
      BY <2>2, <2>3, <3>1
    <3>3. g \in [1..m -> Conns \X Pieces]
      BY <3>1, <3>2
    <3>4. g \in Lines
      BY <3>2, <3>3 DEF Lines
    <3>. QED BY <3>1, <3>4
  <2>5. todo' \in [Conns -> Lines]
    BY <1>2, <2>4 DEF GetLines, TypeOK
  <2>6. /\ taken' \in [Conns -> Nat] /\ sent' = sent /\ script' = script
        /\ \A e \in Conns : taken'[e] <= sent[e] /\ sent[e] <= Len(script[e])
    BY <1>2, <2>1, <2>2 DEF GetLines, TypeOK, client
  <2>7. on' \in [Conns -> Objects] /\ cpc' = [cpc EXCEPT ![c] = "loop"]
    <3>1. Free \in Objects
      BY ObjectsDiffer
    <3> QED BY <1>2, <3>1 DEF GetLines, Go, TypeOK
  <2>8. UNCHANGED <<mpc, held, new, listed, toShut, fdt, sd, ffd, inside, asked, peer, shut, gaveUp,
                    reused>>
    BY <1>2 DEF GetLines, main, client, history
  <2> HIDE DEF d, n
  <2> QED BY <2>5, <2>6, <2>7, <2>8 DEF TypeOK, Alive
<1> QED BY <1>1, <1>2

LEMMA FileTypeOK ==
  ASSUME TypeOK, NEW c \in Conns, Alive, OpenFile(c) \/ Write(c) \/ CloseFile(c)
  PROVE  TypeOK'
<1>1. CASE OpenFile(c) /\ Opening # {}
  <2>1. Lowest \in Fds
    BY <1>1, LowestIsOpen DEF Opening
  <2>2. GiveOut(Lowest, File(c)) /\ ffd' = [ffd EXCEPT ![c] = Lowest] /\ Go(c, "write")
    BY <1>1 DEF OpenFile
  <2>3. fdt' \in [Fds -> Objects] /\ ffd' \in [Conns -> Fds] /\ reused' \in BOOLEAN
    BY <2>1, <2>2, ObjectsDiffer DEF GiveOut, TypeOK
  <2> QED BY <1>1, <2>2, <2>3 DEF OpenFile, Go, TypeOK, main, client, Alive
<1>2. CASE (OpenFile(c) /\ Opening = {}) \/ Write(c)
  BY <1>2 DEF OpenFile, Write, Go, TypeOK, main, client, history, Alive
<1>3. CASE CloseFile(c)
  <2>1. 0 \in Fds
    BY ConnectionAssumption DEF Fds
  <2> QED BY <1>3, <2>1, ObjectsDiffer
          DEF CloseFile, CloseNumber, Go, TypeOK, main, client, history, Alive
<1> QED BY <1>1, <1>2, <1>3

LEMMA RestTypeOK ==
  ASSUME TypeOK, NEW c \in Conns, Alive,
         TurnAway(c) \/ TooEarly(c) \/ Reply(c) \/ Point(c) \/ Close(c)
  PROVE  TypeOK'
<1>1. CASE TurnAway(c) \/ Close(c)
  <2>0. Free \in Objects
    BY ObjectsDiffer
  <2>1. fdt' \in [Fds -> Objects] /\ gaveUp' \subseteq Conns /\ reused' \in BOOLEAN
    <3>1. CASE TurnAway(c)
      BY <2>0, <3>1 DEF TurnAway, CloseNumber, TypeOK
    <3>2. CASE Close(c)
      BY <2>0, <3>2 DEF Close, CloseNumber, TypeOK, history
    <3> QED BY <1>1, <3>1, <3>2
  <2>2. cpc' \in [Conns -> {"none", "start", "loop", "read", "login", "keep", "write", "flush",
                            "reply", "stuck", "point", "close", "ended"}]
    BY <1>1 DEF TurnAway, Close, Go, TypeOK
  <2> QED BY <1>1, <2>1, <2>2 DEF TurnAway, Close, TypeOK, main, client, Alive
<1>2. CASE Reply(c) \/ TooEarly(c)
  <2>1. CASE Dies
    BY <2>1 DEF Dies, TypeOK, thread, client, history
  <2>2. CASE ~Dies
    BY <1>2, <2>2 DEF Reply, TooEarly, Go, TypeOK, main, client, history, Alive
  <2> QED BY <2>1, <2>2
<1>3. CASE Point(c)
  BY <1>3 DEF Point, Go, TypeOK, main, client, history, Alive
<1> QED BY <1>1, <1>2, <1>3

LEMMA StepTypeOK ==
  ASSUME TypeOK, Next
  PROVE  TypeOK'
<1>1. CASE Signal \/ SpawnFails \/ Main \/ \E c \in Conns : Accept(c) \/ AcceptFails(c)
  BY <1>1, MainTypeOK
<1>2. ASSUME NEW c \in Conns, Send(c) \/ GoAway(c)
      PROVE  TypeOK'
  BY <1>2, SendTypeOK
<1>3. ASSUME NEW c \in Conns, Run(c)
      PROVE  TypeOK'
  BY <1>3, LineTypeOK, ReadTypeOK, FileTypeOK, RestTypeOK DEF Next, Run
<1> QED BY <1>1, <1>2, <1>3 DEF Next

-----------------------------------------------------------------------------
(* The numbers. *)

Numbers == NewInv /\ LeakInv /\ TableInv

(* Steps that give out no number and close none. *)
LEMMA NumbersKept ==
  ASSUME Inv, UNCHANGED <<new, fdt, sd, ffd, gaveUp, reused>>,
         mpc' \in {"accept", "created"} => mpc \in {"accept", "created"},
         \A d \in Conns : /\ Live(d)' <=> Live(d)
                          /\ cpc'[d] = "none" <=> cpc[d] = "none"
                          /\ cpc'[d] \in {"write", "flush"} => cpc[d] \in {"write", "flush"}
                          /\ cpc[d] \in {"write", "flush"} => cpc'[d] \in {"write", "flush"}
  PROVE  Numbers'
<1>1. NewInv'
  BY DEF Inv, TypeOK, NewInv
<1>2. LeakInv'
  BY DEF Inv, LeakInv
<1>3. TableInv'
  BY DEF Inv, TableInv, Holds
<1> QED BY <1>1, <1>2, <1>3 DEF Numbers

LEMMA QuietNumbers ==
  ASSUME Inv, NEW c \in Conns,
         \/ Send(c) \/ GoAway(c) \/ AcceptFails(c)
         \/ CallRead(c) \/ GetLines(c) \/ GetNothing(c) \/ TooEarly(c) \/ Write(c) \/ Reply(c)
         \/ Point(c)
  PROVE  Numbers'
<1>1. CASE Send(c) \/ GoAway(c) \/ AcceptFails(c) \/ TooEarly(c) \/ (Reply(c) /\ Dies)
  BY <1>1, NumbersKept DEF Send, GoAway, AcceptFails, TooEarly, Dies, main, thread, history, Live
<1>2. CASE \/ CallRead(c) \/ GetLines(c) \/ GetNothing(c) \/ Write(c) \/ Point(c)
           \/ Reply(c) /\ ~Dies
  <2>1. UNCHANGED <<mpc, held, new, fdt, sd, ffd, gaveUp, reused>>
    BY <1>2 DEF CallRead, GetLines, GetNothing, Write, Point, Reply, main, history
  <2>2. \A d \in Conns : /\ Live(d)' <=> Live(d)
                         /\ cpc'[d] = "none" <=> cpc[d] = "none"
                         /\ cpc'[d] \in {"write", "flush"} => cpc[d] \in {"write", "flush"}
                         /\ cpc[d] \in {"write", "flush"} => cpc'[d] \in {"write", "flush"}
    BY <1>2 DEF CallRead, GetLines, GetNothing, Write, Point, Reply, Asking, Go, Live, Inv, TypeOK
  <2> QED BY <2>1, <2>2, NumbersKept
<1> QED BY <1>1, <1>2

LEMMA MainQuietNumbers ==
  ASSUME Inv, \/ Signal \/ SpawnFails \/ EnterUpdate \/ LeaveUpdate \/ Enlist \/ Spawned
              \/ StopThreads \/ ShutOne \/ Join
  PROVE  Numbers'
BY NumbersKept DEF Signal, SpawnFails, Dies, EnterUpdate, LeaveUpdate, Enlist, Spawned, StopThreads,
   ShutOne, Join, thread, history, Live

LEMMA LineNumbers ==
  ASSUME Inv, NEW c \in Conns, Collect(c) \/ Dispatch(c) \/ Ignore(c)
  PROVE  Numbers'
<1>1. /\ cpc[c] = "loop" /\ UNCHANGED <<mpc, new, fdt, sd, ffd, gaveUp, reused>>
  BY DEF Collect, Dispatch, Ignore, NextLine, main
<1>2. \E l \in {"point", "login", "keep", "reply", "stuck"} : cpc' = [cpc EXCEPT ![c] = l]
  BY DEF Collect, Dispatch, Ignore, Go
<1>3. \A d \in Conns : /\ Live(d)' <=> Live(d)
                       /\ cpc'[d] = "none" <=> cpc[d] = "none"
                       /\ cpc'[d] \in {"write", "flush"} => cpc[d] \in {"write", "flush"}
                       /\ cpc[d] \in {"write", "flush"} => cpc'[d] \in {"write", "flush"}
  BY <1>1, <1>2 DEF Live, Inv, TypeOK
<1> QED BY <1>1, <1>3, NumbersKept

(* Closing a number: a socket's by its thread, once or again. *)
LEMMA CloseNumbers ==
  ASSUME Inv, NEW c \in Conns, TurnAway(c) \/ Quit(c) \/ Close(c)
  PROVE  Numbers'
<1>1. /\ CloseNumber(sd[c]) /\ cpc[c] \in {"start", "login", "loop", "close"}
      /\ UNCHANGED <<mpc, new, sd, ffd, reused>>
  BY DEF TurnAway, Asking, Quit, Close, NextLine, main, history
<1>2. PICK l \in {"loop", "point", "ended"} :
        /\ cpc' = [cpc EXCEPT ![c] = l]
        /\ gaveUp' = IF l = "ended" THEN gaveUp ELSE gaveUp \cup {c}
  BY DEF TurnAway, Quit, Close, Go, history
<1>3. sd[c] \in Fds /\ new # c
  BY <1>1, ConnectionAssumption DEF Inv, TypeOK, NewInv
<1>4. NewInv'
  BY <1>1, <1>2 DEF Inv, TypeOK, NewInv
<1>5. LeakInv'
  <2> SUFFICES ASSUME NEW f \in Fds, NEW d \in Conns
               PROVE  /\ fdt'[f] = Sock(d) => f = sd[d] /\ (Live(d)' \/ new = d)
                      /\ fdt'[f] = File(d) => f = ffd[d] /\ cpc'[d] \in {"write", "flush"}
    BY <1>1 DEF LeakInv
  <2>1. CASE f = sd[c]
    BY <1>1, <1>3, <2>1, ObjectsDiffer DEF CloseNumber, Inv, TypeOK
  <2>2. CASE f # sd[c]
    BY <1>1, <1>2, <2>2 DEF CloseNumber, Inv, TypeOK, LeakInv, Live
  <2> QED BY <2>1, <2>2
<1>6. TableInv'
  <2> SUFFICES ASSUME ~reused, NEW d \in Conns
               PROVE  /\ Holds(d)' => fdt'[sd[d]] = Sock(d)
                      /\ Live(d)' /\ d \in gaveUp' => fdt'[sd[d]] = Free
                      /\ cpc'[d] \in {"write", "flush"} => fdt'[ffd[d]] = File(d)
    BY <1>1 DEF TableInv
  <2>1. fdt[sd[c]] = Sock(c) \/ fdt[sd[c]] = Free
    BY <1>1 DEF Inv, TableInv, Holds, Live
  <2>2. CASE d = c
    BY <1>1, <1>2, <1>3, <2>2 DEF CloseNumber, Inv, TypeOK, Holds, Live
  <2>3. CASE d # c
    <3>1. /\ Live(d)' <=> Live(d)
          /\ cpc'[d] = cpc[d]
          /\ d \in gaveUp' <=> d \in gaveUp
      BY <1>2, <2>3 DEF Live, Inv, TypeOK
    <3>2. /\ Holds(d) => fdt[sd[d]] = Sock(d) /\ sd[d] # sd[c]
          /\ Live(d) /\ d \in gaveUp => fdt[sd[d]] = Free
          /\ cpc[d] \in {"write", "flush"} => fdt[ffd[d]] = File(d) /\ ffd[d] # sd[c]
      BY <2>1, <2>3, ObjectsDiffer DEF Inv, TableInv
    <3> QED BY <1>1, <1>3, <3>1, <3>2 DEF CloseNumber, Inv, TypeOK, Holds
  <2> QED BY <2>2, <2>3
<1> QED BY <1>4, <1>5, <1>6 DEF Numbers

LEMMA CloseFileNumbers ==
  ASSUME Inv, NEW c \in Conns, CloseFile(c)
  PROVE  Numbers'
<1>1. /\ CloseNumber(ffd[c]) /\ cpc[c] = "flush"
      /\ cpc' = [cpc EXCEPT ![c] = "reply"] /\ ffd' = [ffd EXCEPT ![c] = 0]
      /\ UNCHANGED <<mpc, new, sd, gaveUp, reused>>
  BY DEF CloseFile, Go, main, history
<1>2. ffd[c] \in Fds
  BY DEF Inv, TypeOK
<1>3. NewInv'
  BY <1>1 DEF Inv, TypeOK, NewInv
<1>4. LeakInv'
  <2> SUFFICES ASSUME NEW f \in Fds, NEW d \in Conns
               PROVE  /\ fdt'[f] = Sock(d) => f = sd[d] /\ (Live(d)' \/ new = d)
                      /\ fdt'[f] = File(d) => f = ffd'[d] /\ cpc'[d] \in {"write", "flush"}
    BY <1>1 DEF LeakInv
  <2>1. CASE f = ffd[c]
    BY <1>1, <2>1, ObjectsDiffer DEF CloseNumber, Inv, TypeOK
  <2>2. CASE f # ffd[c]
    BY <1>1, <2>2 DEF CloseNumber, Inv, TypeOK, LeakInv, Live
  <2> QED BY <2>1, <2>2
<1>5. TableInv'
  <2> SUFFICES ASSUME ~reused, NEW d \in Conns
               PROVE  /\ Holds(d)' => fdt'[sd[d]] = Sock(d)
                      /\ Live(d)' /\ d \in gaveUp => fdt'[sd[d]] = Free
                      /\ cpc'[d] \in {"write", "flush"} => fdt'[ffd'[d]] = File(d)
    BY <1>1 DEF TableInv
  <2>1. fdt[ffd[c]] = File(c)
    BY <1>1 DEF Inv, TableInv
  <2>2. /\ Live(d)' <=> Live(d)
        /\ d # c => cpc'[d] = cpc[d] /\ ffd'[d] = ffd[d]
        /\ d = c => cpc'[d] = "reply"
    BY <1>1 DEF Live, Inv, TypeOK
  <2>3. /\ Holds(d) => fdt[sd[d]] = Sock(d) /\ sd[d] # ffd[c]
        /\ Live(d) /\ d \in gaveUp => fdt[sd[d]] = Free /\ sd[d] # ffd[c]
        /\ cpc[d] \in {"write", "flush"} /\ d # c => fdt[ffd[d]] = File(d) /\ ffd[d] # ffd[c]
    BY <2>1, ObjectsDiffer DEF Inv, TableInv
  <2> QED BY <1>1, <1>2, <2>2, <2>3 DEF CloseNumber, Inv, TypeOK, Holds
<1> QED BY <1>3, <1>4, <1>5 DEF Numbers

(* The listening socket's number is closed by the main thread, while it is the
   listening socket's. *)
LEMMA StopNumbers ==
  ASSUME Inv, CloseWelcome
  PROVE  Numbers'
<1>1. CloseNumber(0) /\ UNCHANGED <<new, sd, cpc, ffd, gaveUp, reused>> /\ mpc' = "interrupt"
  BY DEF CloseWelcome, thread, history
<1>2. NewInv'
  BY <1>1 DEF Inv, NewInv
<1>3. LeakInv'
  <2> SUFFICES ASSUME NEW f \in Fds, NEW d \in Conns
               PROVE  /\ fdt'[f] = Sock(d) => f = sd[d] /\ (Live(d)' \/ new = d)
                      /\ fdt'[f] = File(d) => f = ffd[d] /\ cpc'[d] \in {"write", "flush"}
    BY <1>1 DEF LeakInv
  <2>1. CASE f = 0
    BY <1>1, <2>1, ObjectsDiffer DEF CloseNumber, Inv, TypeOK
  <2>2. CASE f # 0
    BY <1>1, <2>2 DEF CloseNumber, Inv, TypeOK, LeakInv, Live
  <2> QED BY <2>1, <2>2
<1>4. TableInv'
  <2> SUFFICES ASSUME ~reused, NEW d \in Conns
               PROVE  /\ Holds(d)' => fdt'[sd[d]] = Sock(d)
                      /\ Live(d)' /\ d \in gaveUp => fdt'[sd[d]] = Free
                      /\ cpc[d] \in {"write", "flush"} => fdt'[ffd[d]] = File(d)
    BY <1>1 DEF TableInv
  <2>1. 0 \in Fds /\ fdt[0] = Welcome
    BY ConnectionAssumption DEF CloseWelcome, Inv, WelcomeInv, Fds
  <2>2. Live(d)' <=> Live(d)
    BY <1>1 DEF Live
  <2>3. /\ Holds(d) => fdt[sd[d]] = Sock(d) /\ sd[d] # 0
        /\ Live(d) /\ d \in gaveUp => fdt[sd[d]] = Free
        /\ cpc[d] \in {"write", "flush"} => fdt[ffd[d]] = File(d) /\ ffd[d] # 0
    BY <2>1, ObjectsDiffer DEF Inv, TableInv
  <2> QED BY <1>1, <2>1, <2>2, <2>3 DEF CloseNumber, Inv, TypeOK, Holds
<1> QED BY <1>2, <1>3, <1>4 DEF Numbers

(* A number that is given out was nobody's, or it is reused. *)
LEMMA GivenOut ==
  ASSUME Inv, Opening # {}, NEW o, GiveOut(Lowest, o), ~reused', NEW d \in Conns
  PROVE  /\ ~reused /\ Lowest \in Fds
         /\ Holds(d) => fdt[sd[d]] = Sock(d) /\ sd[d] # Lowest
         /\ Live(d) /\ d \in gaveUp => fdt[sd[d]] = Free /\ sd[d] # Lowest
         /\ cpc[d] \in {"write", "flush"} => fdt[ffd[d]] = File(d) /\ ffd[d] # Lowest
<1>1. ~reused /\ ~ \E c \in gaveUp : Live(c) /\ sd[c] = Lowest
  BY DEF GiveOut, Inv, TypeOK
<1>2. Lowest \in Fds /\ fdt[Lowest] = Free
  BY LowestIsOpen DEF Opening
<1> QED BY <1>1, <1>2, ObjectsDiffer DEF Inv, TableInv

LEMMA AcceptNumbers ==
  ASSUME Inv, NEW c \in Conns, Accept(c)
  PROVE  Numbers'
<1>1. /\ mpc = "accept" /\ cpc[c] = "none" /\ Opening # {}
      /\ GiveOut(Lowest, Sock(c)) /\ fdt' = [fdt EXCEPT ![Lowest] = Sock(c)]
      /\ sd' = [sd EXCEPT ![c] = Lowest]
      /\ mpc' = "get" /\ new' = c /\ new = None
      /\ UNCHANGED <<cpc, ffd, on, gaveUp>>
  BY DEF Accept, GiveOut, thread, Inv, NewInv
<1>2. c \notin gaveUp
  BY <1>1 DEF Inv, NewInv
<1>3. \A d \in Conns : Live(d)' <=> Live(d)
  BY <1>1 DEF Live
<1>4. NewInv'
  BY <1>1 DEF Inv, NewInv
<1>5. LeakInv'
  <2> SUFFICES ASSUME NEW f \in Fds, NEW d \in Conns
               PROVE  /\ fdt'[f] = Sock(d) => f = sd'[d] /\ (Live(d)' \/ c = d)
                      /\ fdt'[f] = File(d) => f = ffd[d] /\ cpc[d] \in {"write", "flush"}
    BY <1>1 DEF LeakInv
  <2>1. CASE f = Lowest
    BY <1>1, <2>1, ObjectsDiffer DEF Inv, TypeOK
  <2>2. CASE f # Lowest
    <3>1. /\ fdt[f] = Sock(d) => f = sd[d] /\ Live(d)
          /\ fdt[f] = File(d) => f = ffd[d] /\ cpc[d] \in {"write", "flush"}
      BY <1>1, ConnectionAssumption DEF Inv, LeakInv
    <3>2. Live(d) => d # c
      BY <1>1 DEF Live
    <3> QED BY <1>1, <1>3, <2>2, <3>1, <3>2 DEF Inv, TypeOK
  <2> QED BY <2>1, <2>2
<1>6. TableInv'
  <2> SUFFICES ASSUME ~reused', NEW d \in Conns
               PROVE  /\ Holds(d)' => fdt'[sd'[d]] = Sock(d)
                      /\ Live(d)' /\ d \in gaveUp => fdt'[sd'[d]] = Free
                      /\ cpc[d] \in {"write", "flush"} => fdt'[ffd[d]] = File(d)
    BY <1>1 DEF TableInv
  <2>1. Lowest \in Fds
    BY <1>1, GivenOut
  <2>2. CASE d = c
    BY <1>1, <1>2, <2>1, <2>2 DEF Inv, TypeOK
  <2>3. CASE d # c
    <3>1. Holds(d)' => Holds(d)
      BY <1>1, <1>3, <2>3 DEF Holds
    <3>2. /\ Holds(d) => fdt[sd[d]] = Sock(d) /\ sd[d] # Lowest
          /\ Live(d) /\ d \in gaveUp => fdt[sd[d]] = Free /\ sd[d] # Lowest
          /\ cpc[d] \in {"write", "flush"} => fdt[ffd[d]] = File(d) /\ ffd[d] # Lowest
      BY <1>1, GivenOut
    <3> QED BY <1>1, <1>3, <2>1, <2>3, <3>1, <3>2 DEF Inv, TypeOK
  <2> QED BY <2>2, <2>3
<1> QED BY <1>4, <1>5, <1>6 DEF Numbers

LEMMA SpawnNumbers ==
  ASSUME Inv, Spawn
  PROVE  Numbers'
<1>1. /\ mpc = "create" /\ mpc' = "created" /\ new' = None
      /\ cpc' = [cpc EXCEPT ![new] = "start"]
      /\ UNCHANGED <<fdt, sd, ffd, gaveUp, reused>>
  BY DEF Spawn, history
<1>2. new \in Conns /\ cpc[new] = "none" /\ new \notin gaveUp
  BY <1>1 DEF Inv, TypeOK, NewInv
<1>3. \A d \in Conns : /\ Live(d)' <=> Live(d) \/ d = new
                       /\ d # new => cpc'[d] = cpc[d]
                       /\ d = new => cpc'[d] = "start"
  BY <1>1, <1>2 DEF Live, Inv, TypeOK
<1>4. NewInv'
  BY <1>1, <1>2, <1>3 DEF Inv, TypeOK, NewInv
<1>5. LeakInv'
  BY <1>1, <1>2, <1>3 DEF Inv, LeakInv
<1>6. TableInv'
  BY <1>1, <1>2, <1>3, ConnectionAssumption DEF Inv, TableInv, Holds
<1> QED BY <1>4, <1>5, <1>6 DEF Numbers

LEMMA OpenFileNumbers ==
  ASSUME Inv, NEW c \in Conns, OpenFile(c)
  PROVE  Numbers'
<1>1. CASE Opening = {}
  <2>1. /\ UNCHANGED <<mpc, new, fdt, sd, ffd, gaveUp, reused>>
        /\ cpc[c] = "keep" /\ cpc' = [cpc EXCEPT ![c] = "reply"]
    BY <1>1 DEF OpenFile, Go, main
  <2>2. \A d \in Conns : /\ Live(d)' <=> Live(d)
                         /\ cpc'[d] = "none" <=> cpc[d] = "none"
                         /\ cpc'[d] \in {"write", "flush"} <=> cpc[d] \in {"write", "flush"}
    BY <2>1 DEF Live, Inv, TypeOK
  <2> QED BY <2>1, <2>2, NumbersKept
<1>2. CASE Opening # {}
  <2>1. /\ cpc[c] = "keep" /\ cpc' = [cpc EXCEPT ![c] = "write"]
        /\ GiveOut(Lowest, File(c)) /\ fdt' = [fdt EXCEPT ![Lowest] = File(c)]
        /\ ffd' = [ffd EXCEPT ![c] = Lowest]
        /\ UNCHANGED <<mpc, new, sd, gaveUp>>
    BY <1>2 DEF OpenFile, GiveOut, Go, main
  <2>2. \A d \in Conns : /\ Live(d)' <=> Live(d)
                         /\ d # c => cpc'[d] = cpc[d] /\ ffd'[d] = ffd[d]
                         /\ d = c => cpc'[d] = "write" /\ ffd'[d] = Lowest
    BY <2>1 DEF Live, Inv, TypeOK
  <2>3. NewInv'
    BY <2>1 DEF Inv, TypeOK, NewInv
  <2>4. LeakInv'
    <3> SUFFICES ASSUME NEW f \in Fds, NEW d \in Conns
                 PROVE  /\ fdt'[f] = Sock(d) => f = sd[d] /\ (Live(d)' \/ new = d)
                        /\ fdt'[f] = File(d) => f = ffd'[d] /\ cpc'[d] \in {"write", "flush"}
      BY <2>1 DEF LeakInv
    <3>1. CASE f = Lowest
      BY <2>1, <2>2, <3>1, ObjectsDiffer DEF Inv, TypeOK
    <3>2. CASE f # Lowest
      BY <2>1, <2>2, <3>2 DEF Inv, TypeOK, LeakInv
    <3> QED BY <3>1, <3>2
  <2>5. TableInv'
    <3> SUFFICES ASSUME ~reused', NEW d \in Conns
                 PROVE  /\ Holds(d)' => fdt'[sd[d]] = Sock(d)
                        /\ Live(d)' /\ d \in gaveUp => fdt'[sd[d]] = Free
                        /\ cpc'[d] \in {"write", "flush"} => fdt'[ffd'[d]] = File(d)
      BY <2>1 DEF TableInv
    <3>1. /\ Lowest \in Fds
          /\ Holds(d) => fdt[sd[d]] = Sock(d) /\ sd[d] # Lowest
          /\ Live(d) /\ d \in gaveUp => fdt[sd[d]] = Free /\ sd[d] # Lowest
          /\ cpc[d] \in {"write", "flush"} => fdt[ffd[d]] = File(d) /\ ffd[d] # Lowest
      BY <1>2, <2>1, GivenOut
    <3>2. Holds(d)' <=> Holds(d)
      BY <2>1, <2>2 DEF Holds
    <3> QED BY <2>1, <2>2, <3>1, <3>2 DEF Inv, TypeOK
  <2> QED BY <2>3, <2>4, <2>5 DEF Numbers
<1> QED BY <1>1, <1>2

LEMMA StepNumbers ==
  ASSUME Inv, Next
  PROVE  Numbers'
<1>1. CASE Signal \/ SpawnFails \/ Main
  BY <1>1, MainQuietNumbers, SpawnNumbers, StopNumbers DEF Main
<1>2. ASSUME NEW c \in Conns, Send(c) \/ GoAway(c) \/ Accept(c) \/ AcceptFails(c)
      PROVE  Numbers'
  BY <1>2, QuietNumbers, AcceptNumbers
<1>3. ASSUME NEW c \in Conns, Run(c)
      PROVE  Numbers'
  BY <1>3, QuietNumbers, LineNumbers, CloseNumbers, CloseFileNumbers, OpenFileNumbers DEF Run
<1> QED BY <1>1, <1>2, <1>3 DEF Next

(* Nobody but the main thread closes the listening socket, and its number is not
   given out. *)
LEMMA StepWelcome ==
  ASSUME Inv, Next
  PROVE  WelcomeInv'
<1> SUFFICES ASSUME ~reused', (Serving \/ mpc = "stop")'
             PROVE  fdt'[0] = Welcome
  BY DEF WelcomeInv
<1>0. 0 \in Fds /\ mpc # "dead"
  BY ConnectionAssumption DEF Fds, Next, Alive
<1>1. ASSUME UNCHANGED <<fdt, reused>>, Serving \/ mpc = "stop"
      PROVE  fdt'[0] = Welcome
  BY <1>1 DEF Inv, WelcomeInv
<1>2. ASSUME NEW f \in Fds, CloseNumber(f), UNCHANGED <<mpc, reused>>, fdt[f] # Welcome
      PROVE  fdt'[0] = Welcome
  BY <1>0, <1>2 DEF CloseNumber, Inv, TypeOK, WelcomeInv, Serving
<1>3. ASSUME Opening # {}, NEW o, GiveOut(Lowest, o), Serving \/ mpc = "stop"
      PROVE  fdt'[0] = Welcome
  <2>1. ~reused
    BY <1>3 DEF GiveOut, Inv, TypeOK
  <2>2. fdt[0] = Welcome /\ fdt[Lowest] = Free
    BY <1>3, <2>1, LowestIsOpen DEF Inv, WelcomeInv, Opening
  <2>3. Lowest # 0
    BY <2>2, ObjectsDiffer
  <2> QED BY <1>0, <1>3, <2>2, <2>3 DEF GiveOut, Inv, TypeOK
<1>4. CASE Signal \/ SpawnFails \/ Main
  <2>1. CASE Signal \/ EnterUpdate \/ LeaveUpdate \/ Enlist \/ Spawn \/ Spawned
    BY <1>1, <2>1
       DEF Signal, EnterUpdate, LeaveUpdate, Enlist, Spawn, Spawned, Serving, history
  <2>2. CASE SpawnFails \/ CloseWelcome \/ StopThreads \/ ShutOne \/ Join
    BY <2>2 DEF SpawnFails, Dies, CloseWelcome, StopThreads, ShutOne, Join, Serving
  <2> QED BY <1>4, <2>1, <2>2 DEF Main
<1>5. ASSUME NEW c \in Conns, Send(c) \/ GoAway(c) \/ Accept(c) \/ AcceptFails(c)
      PROVE  fdt'[0] = Welcome
  <2>1. CASE Accept(c)
    BY <1>3, <2>1 DEF Accept, Serving
  <2>2. CASE Send(c) \/ GoAway(c) \/ AcceptFails(c)
    BY <1>1, <2>2 DEF Send, GoAway, AcceptFails, Serving, main, history
  <2> QED BY <1>5, <2>1, <2>2
<1>6. ASSUME NEW c \in Conns, Run(c)
      PROVE  fdt'[0] = Welcome
  <2>1. CASE TurnAway(c) \/ Quit(c) \/ Close(c)
    <3>1. /\ CloseNumber(sd[c]) /\ UNCHANGED <<mpc, reused>> /\ Live(c) /\ sd[c] \in Fds
      BY <2>1 DEF TurnAway, Asking, Quit, Close, NextLine, main, history, Live, Inv, TypeOK
    <3>2. fdt[sd[c]] # Welcome
      BY <3>1, ObjectsDiffer DEF Inv, TableInv, Holds
    <3> QED BY <1>2, <3>1, <3>2
  <2>2. CASE CloseFile(c)
    <3>1. CloseNumber(ffd[c]) /\ UNCHANGED <<mpc, reused>> /\ ffd[c] \in Fds
      BY <2>2 DEF CloseFile, main, history, Inv, TypeOK
    <3>2. fdt[ffd[c]] # Welcome
      BY <2>2, <3>1, ObjectsDiffer DEF CloseFile, Inv, TableInv
    <3> QED BY <1>2, <3>1, <3>2
  <2>3. CASE OpenFile(c)
    <3>1. UNCHANGED mpc
      BY <2>3 DEF OpenFile, main
    <3> QED BY <1>1, <1>3, <2>3, <3>1 DEF OpenFile, Serving
  <2>4. CASE Collect(c) \/ Dispatch(c) \/ Ignore(c)
    <3>1. UNCHANGED <<mpc, fdt, reused>>
      BY <2>4 DEF Collect, Dispatch, Ignore, NextLine, main
    <3> QED BY <1>1, <3>1 DEF Serving
  <2>5. CASE \/ CallRead(c) \/ GetLines(c) \/ GetNothing(c) \/ TooEarly(c) \/ Write(c) \/ Reply(c)
             \/ Point(c)
    <3>1. UNCHANGED <<mpc, fdt, reused>> \/ (mpc' = "dead")
      BY <2>5 DEF CallRead, GetLines, GetNothing, TooEarly, Write, Reply, Dies, Point, main, history
    <3> QED BY <1>1, <3>1 DEF Serving
  <2> QED BY <1>6, <2>1, <2>2, <2>3, <2>4, <2>5 DEF Run
<1> QED BY <1>4, <1>5, <1>6 DEF Next

-----------------------------------------------------------------------------
(* What the threads read. *)

(* Steps that neither read nor serve a line, and do not begin or end to. *)
LEMMA LinesKept ==
  ASSUME Inv, UNCHANGED <<on, todo, inside, sent, taken>>,
         gaveUp \subseteq gaveUp', reused => reused', shut \subseteq shut',
         \A d \in Conns : /\ peer[d] = "gone" => peer'[d] = "gone"
                          /\ cpc'[d] \in {"read", "close", "ended"} => cpc'[d] = cpc[d]
  PROVE  ReadInv' /\ FinishInv'
<1>1. ReadInv'
  BY DEF Inv, TypeOK, ReadInv
<1>2. FinishInv'
  BY DEF Inv, TypeOK, FinishInv
<1> QED BY <1>1, <1>2

LEMMA MainLines ==
  ASSUME Inv, Signal \/ SpawnFails \/ Main \/ \E c \in Conns : GoAway(c) \/ Accept(c) \/ AcceptFails(c)
  PROVE  ReadInv' /\ FinishInv'
<1>1. CASE \/ Signal \/ SpawnFails \/ EnterUpdate \/ LeaveUpdate \/ Enlist \/ Spawned
          \/ CloseWelcome \/ StopThreads \/ ShutOne \/ Join
  BY <1>1, LinesKept DEF Signal, SpawnFails, Dies, EnterUpdate, LeaveUpdate, Enlist, Spawned,
     CloseWelcome, StopThreads, ShutOne, Join, thread, client, history
<1>2. CASE Spawn
  <2>1. \A d \in Conns : cpc'[d] \in {"read", "close", "ended"} => cpc'[d] = cpc[d]
    BY <1>2 DEF Spawn, Inv, TypeOK
  <2> QED BY <1>2, <2>1, LinesKept DEF Spawn, client, history
<1>3. CASE \E c \in Conns : GoAway(c) \/ Accept(c) \/ AcceptFails(c)
  BY <1>3, LinesKept
     DEF GoAway, Accept, AcceptFails, GiveOut, thread, client, history, main, Inv, TypeOK
<1> QED BY <1>1, <1>2, <1>3 DEF Main

LEMMA QuietLines ==
  ASSUME Inv, NEW c \in Conns,
         TurnAway(c) \/ TooEarly(c) \/ OpenFile(c) \/ Write(c) \/ CloseFile(c) \/ Reply(c)
  PROVE  ReadInv' /\ FinishInv'
<1>1. UNCHANGED <<on, todo, inside, sent, taken, peer, shut>>
  BY DEF TurnAway, TooEarly, OpenFile, Write, CloseFile, Reply, Dies, thread, client
<1>2. gaveUp \subseteq gaveUp' /\ (reused => reused')
  <2>1. CASE TurnAway(c) \/ TooEarly(c) \/ Write(c) \/ CloseFile(c) \/ Reply(c)
    BY <2>1 DEF TurnAway, TooEarly, Write, CloseFile, Reply, Dies, history
  <2>2. CASE OpenFile(c)
    <3>1. gaveUp' = gaveUp /\ (GiveOut(Lowest, File(c)) \/ reused' = reused)
      BY <2>2 DEF OpenFile
    <3>2. reused => reused'
      BY <3>1, Zenon DEF GiveOut
    <3> QED BY <3>1, <3>2
  <2> QED BY <2>1, <2>2
<1>3. \A d \in Conns : cpc'[d] \in {"read", "close", "ended"} => cpc'[d] = cpc[d]
  BY DEF TurnAway, TooEarly, OpenFile, Write, CloseFile, Reply, Dies, Go, thread, Inv, TypeOK
<1> QED BY <1>1, <1>2, <1>3, LinesKept

(* What arrives is for threads that may still read. *)
LEMMA SendLines ==
  ASSUME Inv, NEW c \in Conns, Send(c)
  PROVE  ReadInv' /\ FinishInv'
<1>1. /\ UNCHANGED <<on, todo, inside, taken, cpc, peer, shut, gaveUp, reused>>
      /\ \A d \in Conns : d # c => sent'[d] = sent[d]
      /\ cpc[c] # "ended" /\ peer[c] = "open" /\ c \notin shut
  BY DEF Send, thread, history, Live, Inv, TypeOK
<1> QED BY <1>1 DEF Inv, ReadInv, FinishInv

LEMMA ServeLines ==
  ASSUME Inv, NEW c \in Conns, Collect(c) \/ Dispatch(c) \/ Ignore(c) \/ Quit(c)
  PROVE  ReadInv' /\ FinishInv'
<1>1. /\ cpc[c] = "loop" /\ todo[c] # <<>> /\ todo' = [todo EXCEPT ![c] = Tail(todo[c])]
      /\ UNCHANGED <<on, sent, taken, peer, shut, reused>>
  BY DEF Collect, Dispatch, Ignore, Quit, NextLine, client
<1>2. PICK l \in {"point", "login", "keep", "reply", "stuck"} : cpc' = [cpc EXCEPT ![c] = l]
  BY DEF Collect, Dispatch, Ignore, Quit, Go
<1>3. gaveUp \subseteq gaveUp' /\ \A d \in Conns : d # c => inside'[d] = inside[d]
  BY DEF Collect, Dispatch, Ignore, Quit, Inv, TypeOK
<1>4. ReadInv'
  <2> SUFFICES ASSUME ~reused, NEW d \in Conns
               PROVE  \A k \in DOMAIN todo'[d] : todo'[d][k][1] = d
    BY <1>1 DEF Inv, ReadInv
  <2>1. CASE d = c
    <3>1. todo[c] \in Seq(Conns \X Pieces) /\ \A k \in 1..Len(todo[c]) : todo[c][k][1] = c
      <4>1. todo[c] \in Seq(Conns \X Pieces)
        BY DEF Inv, TypeOK, Lines
      <4>2. \A k \in DOMAIN todo[c] : todo[c][k][1] = c
        BY DEF Inv, ReadInv
      <4>. QED BY <4>1, <4>2
    <3>2. \A k \in DOMAIN Tail(todo[c]) : k + 1 \in 1..Len(todo[c]) /\ Tail(todo[c])[k] = todo[c][k + 1]
      <4>1. PICK q : q = todo[c]
        OBVIOUS
      <4>2. q \in Seq(Conns \X Pieces) /\ q # <<>>
        BY <1>1, <3>1, <4>1
      <4>3. \A k \in DOMAIN Tail(q) : k + 1 \in 1..Len(q) /\ Tail(q)[k] = q[k + 1]
        BY <4>2
      <4>. QED BY <4>1, <4>3
    <3>3. todo'[c] = Tail(todo[c])
      BY <1>1 DEF Inv, TypeOK
    <3> QED BY <2>1, <3>1, <3>2, <3>3
  <2>2. CASE d # c
    BY <1>1, <2>2 DEF Inv, TypeOK, ReadInv
  <2> QED BY <2>1, <2>2
<1>5. FinishInv'
  BY <1>1, <1>2, <1>3 DEF Inv, TypeOK, FinishInv
<1> QED BY <1>4, <1>5

LEMMA CallReadLines ==
  ASSUME Inv, NEW c \in Conns, CallRead(c)
  PROVE  ReadInv' /\ FinishInv'
<1>1. /\ cpc[c] = "loop" /\ todo[c] = <<>>
      /\ on' = [on EXCEPT ![c] = fdt[sd[c]]] /\ cpc' = [cpc EXCEPT ![c] = "read"]
      /\ UNCHANGED <<todo, inside, sent, taken, peer, shut, gaveUp, reused>>
  BY DEF CallRead, Go, client, history
<1>2. ~reused => fdt[sd[c]] = IF c \in gaveUp THEN Free ELSE Sock(c)
  BY <1>1 DEF Inv, TableInv, Holds, Live
<1>3. ReadInv'
  BY <1>1, <1>2 DEF Inv, TypeOK, ReadInv
<1>4. FinishInv'
  BY <1>1, <1>2 DEF Inv, TypeOK, FinishInv
<1> QED BY <1>3, <1>4

LEMMA GetLinesLines ==
  ASSUME Inv, NEW c \in Conns, GetLines(c)
  PROVE  ReadInv' /\ FinishInv'
<1> SUFFICES ASSUME ~reused
             PROVE  ReadInv' /\ FinishInv'
  BY DEF GetLines, history, ReadInv, FinishInv
<1>1. on[c] = Sock(c) /\ on[c].of = c
  BY ObjectsDiffer DEF GetLines, Inv, ReadInv
<1>2. /\ cpc[c] = "read" /\ cpc' = [cpc EXCEPT ![c] = "loop"]
      /\ on' = [on EXCEPT ![c] = Free]
      /\ taken' = [taken EXCEPT ![c] = sent[c]]
      /\ UNCHANGED <<inside, sent, peer, shut, gaveUp, reused>>
  BY <1>1 DEF GetLines, Go, client, history
<1>3. todo' = [todo EXCEPT ![c] = [k \in 1..(sent[c] - taken[c]) |->
                                    <<c, script[c][taken[c] + k]>>]]
  BY <1>1 DEF GetLines
<1>4. ReadInv'
  BY <1>2, <1>3 DEF Inv, TypeOK, ReadInv
<1>5. FinishInv'
  <2>1. \A d \in Conns : d # c => todo'[d] = todo[d]
    BY <1>3 DEF Inv, TypeOK
  <2> QED BY <1>2, <2>1 DEF Inv, TypeOK, FinishInv
<1> QED BY <1>4, <1>5

(* A thread finds the end of its own connection, and so all that arrived taken. *)
LEMMA GetNothingLines ==
  ASSUME Inv, NEW c \in Conns, GetNothing(c)
  PROVE  ReadInv' /\ FinishInv'
<1>1. /\ cpc[c] = "read" /\ cpc' = [cpc EXCEPT ![c] = "close"]
      /\ on' = [on EXCEPT ![c] = Free]
      /\ UNCHANGED <<todo, inside, sent, taken, peer, shut, gaveUp, reused>>
  BY DEF GetNothing, Go, client, history
<1>2. ReadInv'
  BY <1>1 DEF Inv, TypeOK, ReadInv
<1>3. FinishInv'
  <2> SUFFICES ASSUME ~reused, c \notin gaveUp
               PROVE  todo[c] = <<>> /\ taken[c] = sent[c] /\ (peer[c] = "gone" \/ c \in shut)
    BY <1>1 DEF Inv, TypeOK, FinishInv
  <2>1. todo[c] = <<>> /\ on[c] = Sock(c)
    BY <1>1 DEF Inv, FinishInv
  <2>2. AtEnd(c)
    BY <2>1, ObjectsDiffer DEF GetNothing
  <2>3. sent[c] \in Nat /\ taken[c] \in Nat /\ taken[c] <= sent[c]
    BY DEF Inv, TypeOK
  <2> QED BY <2>1, <2>2, <2>3 DEF AtEnd, Arrived
<1> QED BY <1>2, <1>3

LEMMA EndLines ==
  ASSUME Inv, NEW c \in Conns, Point(c) \/ Close(c)
  PROVE  ReadInv' /\ FinishInv'
<1>1. UNCHANGED <<on, todo, inside, sent, taken, peer, shut, gaveUp, reused>>
  BY DEF Point, Close, client, history
<1>2. ReadInv'
  BY <1>1 DEF Inv, ReadInv
<1>3. CASE Point(c)
  <2>1. /\ \A d \in Conns : d # c => cpc'[d] = cpc[d]
        /\ cpc'[c] = "loop" \/ (cpc'[c] = "close" /\ ~inside[c])
    <3>1. CASE MayEnd(c)
      <4>1. cpc' = [cpc EXCEPT ![c] = "close"]
        BY <1>3, <3>1 DEF Point, Go
      <4>2. ~inside[c]
        BY <3>1 DEF MayEnd
      <4> QED BY <4>1, <4>2 DEF Inv, TypeOK
    <3>2. CASE ~MayEnd(c)
      <4>1. cpc' = [cpc EXCEPT ![c] = "loop"]
        BY <1>3, <3>2 DEF Point, Go
      <4> QED BY <4>1 DEF Inv, TypeOK
    <3> QED BY <3>1, <3>2
  <2> QED BY <1>1, <1>2, <2>1 DEF Inv, FinishInv
<1>4. CASE Close(c)
  BY <1>1, <1>2, <1>4 DEF Close, Go, Inv, TypeOK, FinishInv
<1> QED BY <1>3, <1>4

LEMMA StepLines ==
  ASSUME Inv, Next
  PROVE  ReadInv' /\ FinishInv'
<1>1. CASE Signal \/ SpawnFails \/ Main \/ \E c \in Conns : GoAway(c) \/ Accept(c) \/ AcceptFails(c)
  BY <1>1, MainLines
<1>2. ASSUME NEW c \in Conns, Send(c) \/ Run(c)
      PROVE  ReadInv' /\ FinishInv'
  BY <1>2, SendLines, QuietLines, ServeLines, CallReadLines, GetLinesLines, GetNothingLines, EndLines
     DEF Run
<1> QED BY <1>1, <1>2 DEF Next

-----------------------------------------------------------------------------
LEMMA NextKeepsInv == Inv /\ [Next]_vars => Inv'
<1> SUFFICES ASSUME Inv, [Next]_vars
             PROVE  Inv'
  OBVIOUS
<1>1. CASE Next
  <2>1. TypeOK'
    BY <1>1, StepTypeOK DEF Inv
  <2> QED BY <1>1, <2>1, StepNumbers, StepWelcome, StepLines DEF Inv, Numbers
<1>2. CASE UNCHANGED vars
  <2>1. TypeOK' /\ NewInv' /\ LeakInv'
    BY <1>2 DEF vars, main, thread, client, history, Inv, TypeOK, NewInv, LeakInv, Live
  <2>2. TableInv' /\ WelcomeInv'
    BY <1>2 DEF vars, main, thread, client, history, Inv, TableInv, WelcomeInv, Serving, Holds, Live
  <2>3. ReadInv' /\ FinishInv'
    BY <1>2 DEF vars, main, thread, client, history, Inv, ReadInv, FinishInv
  <2> QED BY <2>1, <2>2, <2>3 DEF Inv
<1> QED BY <1>1, <1>2

LEMMA InvHolds == Spec => []Inv
BY InitInv, NextKeepsInv, PTL DEF Spec

(* The variables of the accept loop and the connections' threads have their
   types, and a process that ended in order has no threads. *)
THEOREM TypeCorrect == Spec => []TypeOK
BY InvHolds, PTL DEF Inv

(* A thread that has ended leaves no number behind, whatever other threads did
   to its numbers and it to theirs. *)
THEOREM NothingLeakedCorrect == Spec => []NothingLeaked
<1>1. Inv => NothingLeaked
  <2> SUFFICES ASSUME Inv, NEW f \in Fds, fdt[f].kind \in {"sock", "file"}
               PROVE  Live(fdt[f].of) \/ fdt[f].of = new
    BY DEF NothingLeaked
  <2>1. PICK c \in Conns : c = fdt[f].of /\ (fdt[f] = Sock(c) \/ fdt[f] = File(c))
    BY ObjectsDiffer DEF Inv, TypeOK
  <2> QED BY <2>1 DEF Inv, LeakInv, Live
<1> QED BY <1>1, InvHolds, PTL

(* Until a number that a thread closed before its end is given out again, every
   thread uses the descriptors it was given, and serves its own client. *)
THEOREM OwnCorrect == Spec => []OwnUnlessReused
<1>1. Inv => OwnUnlessReused
  <2> SUFFICES ASSUME Inv, ~reused, NEW c \in Conns
               PROVE  /\ Live(c) => fdt[sd[c]] = IF c \in gaveUp THEN Free ELSE Sock(c)
                      /\ cpc[c] \in {"write", "flush"} => fdt[ffd[c]] = File(c)
                      /\ on[c] \in {Free, Sock(c)}
                      /\ \A k \in DOMAIN todo[c] : todo[c][k][1] = c
    BY DEF OwnUnlessReused
  <2> QED BY DEF Inv, TableInv, ReadInv, Holds
<1> QED BY <1>1, InvHolds, PTL

(* A thread ends inside a message only when all that has arrived is served, until
   a number that was closed too early is given out again. *)
THEOREM FinishedCorrect == Spec => []MessageFinished
<1>1. Inv => MessageFinished
  BY DEF Inv, FinishInv, MessageFinished
<1> QED BY <1>1, InvHolds, PTL
=============================================================================
