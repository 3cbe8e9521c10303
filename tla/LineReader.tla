----------------------------- MODULE LineReader -----------------------------
(* The line reader (readline.cpp) under the threads of the connections
   (WelcomeServer::handleClient).  my_read keeps what read() returned in three
   static variables that all threads use without a lock.  Each load and store
   of them is a step; a read() is one step, from its return on.

   A byte is named by its connection and its place in what the client sends, so
   that bytes that went astray can be told from those in place. *)
EXTENDS Integers, Sequences

CONSTANTS Threads,    \* connections, each with its thread
          Texts,      \* what the clients may send: [Threads -> sequence of kinds]
          BufSize,    \* MAXLINE, the size of read_buf
          MaxLen,     \* maxlen of readline, the size of the thread's own buffer
          AttSize,    \* the size of an attachment
          None        \* the thread of a byte nobody sent

(* A line ends with "end", or with "size" if it names the size of an attachment
   that follows it. *)
Kinds == {"char", "end", "size"}

ASSUME LineAssumption ==
  /\ Texts \subseteq [Threads -> Seq(Kinds)] /\ None \notin Threads
  /\ BufSize \in Nat \ {0} /\ AttSize \in Nat \ {0}
  /\ MaxLen \in Nat /\ MaxLen > 1

VARIABLES
  read_cnt, read_ptr, read_buf,  \* the statics; read_ptr as an index, 0 for NULL
  pc,      \* [Threads -> where in my_read or its callers the thread is]
  reg,     \* [Threads -> the value it works on: a count or an index]
  item,    \* [Threads -> bytes of the line or attachment being collected]
  size,    \* [Threads -> size of the attachment awaited, 0 for a line]
  text,    \* what the clients send, in this behaviour: a member of Texts
  sent,    \* [Threads -> bytes its client has sent]
  taken,   \* [Threads -> bytes its reads have taken from the socket]
  peer,    \* [Threads -> "open", "closed" or "reset", what its client did last]
  mixed,   \* history: did a thread come in while another one was under way?
  filler,  \* history: the thread whose bytes read_buf holds
  handed   \* history: [Threads -> bytes handed on to the parser, until mixed]

statics == <<read_cnt, read_ptr, read_buf>>
local   == <<item, size>>
client  == <<text, sent, peer>>
history == <<mixed, filler, handed>>
vars    == <<statics, pc, reg, local, client, taken, history>>

Byte    == (Threads \cup {None}) \X Nat
Junk    == <<None, 0>>
Kind(b) == IF b[1] = None THEN "char" ELSE text[b[1]][b[2]]
Piece(t, i, j) == [k \in 1..(j - i) |-> <<t, i + k>>]
Shorter(i, j)  == IF i < j THEN i ELSE j

Init ==
  /\ read_cnt = 0 /\ read_ptr = 0 /\ read_buf = [k \in 1..BufSize |-> Junk]
  /\ pc = [t \in Threads |-> "off"] /\ reg = [t \in Threads |-> 0]
  /\ item = [t \in Threads |-> <<>>] /\ size = [t \in Threads |-> 0]
  /\ text \in Texts /\ sent = [t \in Threads |-> 0] /\ taken = [t \in Threads |-> 0]
  /\ peer = [t \in Threads |-> "open"]
  /\ handed = [t \in Threads |-> <<>>] /\ filler = None /\ mixed = FALSE

-----------------------------------------------------------------------------
(* The clients and the network. *)

Send(t) ==
  /\ peer[t] = "open"
  /\ \E n \in (sent[t] + 1)..Len(text[t]) : sent' = [sent EXCEPT ![t] = n]
  /\ UNCHANGED <<statics, pc, reg, local, taken, text, peer, history>>

Leave(t) ==
  /\ peer[t] = "open"
  /\ \E p \in {"closed", "reset"} : peer' = [peer EXCEPT ![t] = p]
  /\ UNCHANGED <<statics, pc, reg, local, taken, text, sent, history>>

-----------------------------------------------------------------------------
(* my_read. *)

Go(t, l) == pc' = [pc EXCEPT ![t] = l]

Inside == {"count", "test", "zero", "rewind", "left", "lower", "next", "step", "byte"}

(* The thread is inside my_read, or has left bytes in the buffer. *)
Busy(t) == pc[t] \in Inside \/ (filler = t /\ read_cnt > 0)
Meets(t) ==
  /\ mixed' = (mixed \/ \E s \in Threads \ {t} : Busy(s))
  /\ handed' = IF mixed' THEN [s \in Threads |-> <<>>] ELSE handed

Start(t) ==
  /\ pc[t] = "off"
  /\ Go(t, "call")
  /\ UNCHANGED <<statics, reg, local, client, taken, history>>

Drained == read_cnt <= 0

Call(t) ==
  /\ pc[t] = "call"
  /\ Go(t, IF Drained THEN "read" ELSE "left")
  /\ Meets(t)
  /\ UNCHANGED <<statics, reg, local, client, taken, filler>>

Room_Full(n) == BufSize                  \* mutant: not what read() returned
Room(n) == Shorter(n, BufSize)

ReadBytes(t) ==
  /\ pc[t] = "read" /\ peer[t] # "reset" /\ taken[t] < sent[t]
  /\ LET n == Room(sent[t] - taken[t]) IN
       /\ read_buf' = [k \in 1..BufSize |->
                         IF k \in 1..n THEN <<t, taken[t] + k>> ELSE read_buf[k]]
       /\ taken' = [taken EXCEPT ![t] = @ + n]
       /\ reg' = [reg EXCEPT ![t] = n]
  /\ Go(t, "count") /\ Meets(t)
  /\ filler' = t
  /\ UNCHANGED <<read_cnt, read_ptr, local, client>>

(* The end of the stream, or an error. *)
ReadNothing(t) ==
  /\ pc[t] = "read"
  /\ \/ peer[t] = "reset" /\ reg' = [reg EXCEPT ![t] = -1]
     \/ peer[t] = "closed" /\ taken[t] = sent[t] /\ reg' = [reg EXCEPT ![t] = 0]
  /\ Go(t, "count") /\ Meets(t)
  /\ UNCHANGED <<statics, local, client, taken, filler>>

Forget(t) == reg' = [reg EXCEPT ![t] = 0]

StoreCount(t) ==
  /\ pc[t] = "count"
  /\ read_cnt' = reg[t] /\ Forget(t)
  /\ Go(t, "test")
  /\ UNCHANGED <<read_ptr, read_buf, local, client, taken, history>>

(* The build does not optimise: the result is tested where it was stored, and
   each of the two tests loads it. *)
TestCount(t) ==
  /\ pc[t] = "test"
  /\ \/ read_cnt >= 0 /\ Go(t, "zero") /\ UNCHANGED reg
     \/ read_cnt < 0 /\ Go(t, "nothing") /\ reg' = [reg EXCEPT ![t] = -1]
  /\ UNCHANGED <<statics, local, client, taken, history>>

TestZero(t) ==
  /\ pc[t] = "zero"
  /\ Go(t, IF read_cnt = 0 THEN "nothing" ELSE "rewind")
  /\ UNCHANGED <<statics, reg, local, client, taken, history>>

Rewind(t) ==
  /\ pc[t] = "rewind"
  /\ read_ptr' = 1
  /\ Go(t, "left")
  /\ UNCHANGED <<read_cnt, read_buf, reg, local, client, taken, history>>

(* read_cnt-- *)
LoadCount(t) ==
  /\ pc[t] = "left"
  /\ reg' = [reg EXCEPT ![t] = read_cnt]
  /\ Go(t, "lower")
  /\ UNCHANGED <<statics, local, client, taken, history>>

(* -1 stands for all counts that the races have moved below 0: the code only
   tests for the sign. *)
Lowered(n) == IF n < 0 THEN -1 ELSE n - 1

LowerCount(t) ==
  /\ pc[t] = "lower"
  /\ read_cnt' = Lowered(reg[t]) /\ Forget(t)
  /\ Go(t, "next")
  /\ UNCHANGED <<read_ptr, read_buf, local, client, taken, history>>

(* *read_ptr++ *)
LoadPointer(t) ==
  /\ pc[t] = "next"
  /\ reg' = [reg EXCEPT ![t] = read_ptr]
  /\ Go(t, "step")
  /\ UNCHANGED <<statics, local, client, taken, history>>

(* NULL stands for what is counted on from it as well: no page is there; and
   the place behind the buffer for those that follow it. *)
Following(p) == IF p = 0 THEN 0 ELSE Shorter(p, BufSize) + 1

StepPointer(t) ==
  /\ pc[t] = "step"
  /\ read_ptr' = Following(reg[t])
  /\ Go(t, "byte")
  /\ UNCHANGED <<read_cnt, read_buf, reg, local, client, taken, history>>

At_Next(p) == IF p \in 1..(BufSize - 1) THEN read_buf[p + 1] ELSE Junk  \* mutant: *++read_ptr

(* A pointer the races moved out of the buffer reads what lies behind it. *)
At(p) == IF p \in 1..BufSize THEN read_buf[p] ELSE Junk

(* A thread that finds bytes counted before the first read has set read_ptr
   takes the process down. *)
Crash(t) ==
  /\ pc[t] = "byte" /\ reg[t] = 0
  /\ Go(t, "crashed")
  /\ UNCHANGED <<statics, reg, local, client, taken, history>>

-----------------------------------------------------------------------------
(* readline, and the loop that reads an attachment. *)

Complete(t, i) ==
  IF size[t] > 0 THEN Len(i) = size[t]
  ELSE Kind(i[Len(i)]) # "char" \/ Len(i) = MaxLen - 1

Collect(t, b) ==
  /\ item' = [item EXCEPT ![t] = Append(@, b)]
  /\ Go(t, IF Complete(t, item'[t]) THEN "hand" ELSE "call")

GotByte(t) ==
  /\ pc[t] = "byte" /\ reg[t] # 0
  /\ Collect(t, At(reg[t])) /\ Forget(t)
  /\ UNCHANGED <<statics, size, client, taken, history>>

EndOfLine_Dropped(t) == "ended"          \* mutant: a line without its end is dropped
EndOfLine_Again(t) == IF reg[t] = 0 THEN "call" ELSE "ended"  \* mutant: reads on

(* readline hands on what it has at the end of the stream, but not after an
   error. *)
EndOfLine(t) == IF reg[t] = 0 /\ item[t] # <<>> THEN "hand" ELSE "ended"

(* The loop over an attachment looks at neither: the byte stays as the thread's
   own buffer had it. *)
GotNothing(t) ==
  /\ pc[t] = "nothing"
  /\ \/ size[t] > 0 /\ Collect(t, Junk)
     \/ size[t] = 0 /\ Go(t, EndOfLine(t)) /\ UNCHANGED item
  /\ Forget(t)
  /\ UNCHANGED <<statics, size, client, taken, history>>

(* clientReceivedData, from its call to its return: the parser awaits an
   attachment after a line that names a size. *)
Awaited(t) ==
  IF size[t] = 0 /\ Kind(item[t][Len(item[t])]) = "size" THEN AttSize ELSE 0

HandOn(t) ==
  /\ pc[t] = "hand"
  /\ handed' = [handed EXCEPT ![t] = IF mixed THEN @ ELSE @ \o item[t]]
  /\ item' = [item EXCEPT ![t] = <<>>]
  /\ size' = [size EXCEPT ![t] = Awaited(t)]
  /\ Go(t, "call")
  /\ UNCHANGED <<statics, reg, client, taken, filler, mixed>>

Run(t) ==
  \/ Start(t) \/ Call(t) \/ ReadBytes(t) \/ ReadNothing(t) \/ StoreCount(t)
  \/ TestCount(t) \/ TestZero(t) \/ Rewind(t) \/ LoadCount(t) \/ LowerCount(t)
  \/ LoadPointer(t) \/ StepPointer(t) \/ GotByte(t) \/ Crash(t) \/ GotNothing(t) \/ HandOn(t)

Alive == \A t \in Threads : pc[t] # "crashed"

Next == Alive /\ \E t \in Threads : Send(t) \/ Leave(t) \/ Run(t)

Spec == Init /\ [][Next]_vars

(* The kernel runs every thread that can go on, and a read() returns when there
   is something to return. *)
FairSpec == Spec /\ \A t \in Threads : WF_vars(Alive /\ Run(t))

-----------------------------------------------------------------------------
Locations == {"off", "call", "read", "count", "test", "zero", "rewind", "left", "lower",
              "next", "step", "byte", "crashed", "nothing", "hand", "ended"}

(* The variables have their types; no read takes what was not sent. *)
TypeOK ==
  /\ read_cnt \in Int /\ read_ptr \in Int /\ read_buf \in [1..BufSize -> Byte]
  /\ pc \in [Threads -> Locations] /\ reg \in [Threads -> Int]
  /\ item \in [Threads -> Seq(Byte)] /\ size \in [Threads -> {0, AttSize}]
  /\ text \in Texts /\ sent \in [Threads -> Nat] /\ taken \in [Threads -> Nat]
  /\ \A t \in Threads : taken[t] <= sent[t] /\ sent[t] <= Len(text[t])
  /\ peer \in [Threads -> {"open", "closed", "reset"}]
  /\ handed \in [Threads -> Seq(Byte)] /\ filler \in Threads \cup {None}
  /\ mixed \in BOOLEAN

(* While no thread comes into my_read with another one under way or its bytes
   in the buffer, what a thread has handed on, what it is collecting and what
   is left for it in the buffer are the bytes its reads took, in their order:
   none is lost, doubled or another client's.  An attachment that its client
   cuts off is filled up. *)
Resting == {"off", "call", "read", "hand", "ended"}
Got(t)  == handed[t] \o item[t]
Rest(t) == IF filler = t /\ read_cnt > 0
           THEN SubSeq(read_buf, read_ptr, read_ptr + read_cnt - 1) ELSE <<>>
FilledUp(t) ==
  /\ peer[t] # "open" /\ Rest(t) = <<>> /\ Len(Got(t)) >= taken[t]
  /\ \A k \in DOMAIN Got(t) : Got(t)[k] = IF k <= taken[t] THEN <<t, k>> ELSE Junk

InOrderUnlessMixed ==
  ~mixed => \A t \in Threads : pc[t] \in Resting =>
              Got(t) \o Rest(t) = Piece(t, 0, taken[t]) \/ FilledUp(t)

(* A thread ends only when nothing its client sent is left over. *)
NothingLeftUnlessMixed ==
  \A t \in Threads :
    pc[t] = "ended" /\ peer[t] = "closed" /\ ~mixed => Len(handed[t]) >= sent[t]

(* Until threads meet, everything a client sent, up to the end of an item, is
   handed on, and its thread ends when it has left.  Afterwards two threads may
   keep each other from seeing the end of their streams for ever: each lowers
   the count between the other's two tests of it.  But however they disturbed
   each other, a thread whose client has left ends once the others stay out of
   my_read, unless the process has crashed. *)
Settles ==
  \A t \in Threads :
    /\ pc[t] # "off" /\ (peer[t] # "open" \/ sent[t] = Len(text[t]))
         ~> \/ pc[t] = "ended" \/ mixed
            \/ peer[t] = "open" /\ Len(handed[t]) = Len(text[t])
    /\ <>[](/\ pc[t] # "off" /\ peer[t] # "open"
            /\ \A s \in Threads \ {t} : pc[s] \notin Inside)
         => <>(pc[t] = "ended" \/ ~Alive)
=============================================================================
