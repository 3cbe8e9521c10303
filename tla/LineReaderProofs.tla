-------------------------- MODULE LineReaderProofs --------------------------
(* Proofs about LineReader: the types; and that, until two threads come upon
   each other in my_read, every byte a read took is in its place, for any number
   of connections, any texts and any sizes of the buffers. *)
EXTENDS LineReader, SequenceTheorems, TLAPS

-----------------------------------------------------------------------------
(* The inductive invariant. *)

(* The stream of t's client has ended, after a read that returned n. *)
Over(t)    == peer[t] = "reset" \/ (peer[t] = "closed" /\ taken[t] = sent[t])
Ends(t, n) == \/ n = 0 /\ peer[t] = "closed" /\ taken[t] = sent[t]
              \/ n = -1 /\ peer[t] = "reset"

(* The first n bytes of t's client have arrived where they belong, alone or
   with what filled up an attachment. *)
InPlace(t, n) ==
  Len(Got(t)) = n /\ \A k \in 1..n : Got(t)[k] = <<t, k>>
Padded(t) ==
  /\ Over(t) /\ Len(Got(t)) >= taken[t]
  /\ \A k \in 1..Len(Got(t)) : Got(t)[k] = IF k <= taken[t] THEN <<t, k>> ELSE Junk
Emptied(t) == InPlace(t, taken[t]) \/ Padded(t)

(* The last n bytes that t took stand in the buffer, from index i on; those
   before them have arrived. *)
Buffered(t, i, n) ==
  /\ filler = t /\ n \in 1..taken[t] /\ i \in 1..BufSize /\ i + n - 1 <= BufSize
  /\ InPlace(t, taken[t] - n)
  /\ \A k \in 1..n : read_buf[i + k - 1] = <<t, taken[t] - n + k>>

Left(t) == filler = t /\ read_cnt > 0

(* What the statics and t's own value say, step by step. *)
InMyRead(t) ==
  /\ pc[t] = "count" =>
       /\ read_cnt <= 0
       /\ \/ reg[t] > 0 /\ Buffered(t, 1, reg[t])
          \/ Ends(t, reg[t]) /\ Emptied(t)
  /\ pc[t] \in {"test", "zero"} => reg[t] = 0
  /\ pc[t] = "test" =>
       \/ read_cnt > 0 /\ Buffered(t, 1, read_cnt)
       \/ Ends(t, read_cnt) /\ Emptied(t)
  /\ pc[t] = "zero" =>
       \/ read_cnt > 0 /\ Buffered(t, 1, read_cnt)
       \/ read_cnt = 0 /\ Ends(t, 0) /\ Emptied(t)
  /\ pc[t] = "rewind" => Buffered(t, 1, read_cnt)
  /\ pc[t] = "left"   => Buffered(t, read_ptr, read_cnt)
  /\ pc[t] = "lower"  => reg[t] = read_cnt /\ Buffered(t, read_ptr, read_cnt)
  /\ pc[t] = "next"   => Buffered(t, read_ptr, read_cnt + 1)
  /\ pc[t] = "step"   => reg[t] = read_ptr /\ Buffered(t, reg[t], read_cnt + 1)
  /\ pc[t] = "byte"   => read_ptr = reg[t] + 1 /\ Buffered(t, reg[t], read_cnt + 1)

Outside(t) ==
  /\ pc[t] \in {"off", "call", "hand"} =>
       IF Left(t) THEN Buffered(t, read_ptr, read_cnt) ELSE Emptied(t)
  /\ pc[t] \in {"read", "nothing", "ended"} => ~Left(t) /\ Emptied(t)
  /\ pc[t] = "nothing" => Ends(t, reg[t])
  /\ pc[t] = "ended"   => (item[t] = <<>> /\ Ends(t, 0)) \/ peer[t] = "reset"

Placed(t) == InMyRead(t) /\ Outside(t)

(* Only one thread is inside my_read or has bytes in the buffer. *)
Alone ==
  /\ \A s, t \in Threads : Busy(s) /\ Busy(t) => s = t
  /\ read_cnt > 0 => filler \in Threads

Order == ~mixed => Alone /\ \A t \in Threads : Placed(t)

-----------------------------------------------------------------------------
(* Types. *)

LEMMA TypeInit == Init => TypeOK
<1> SUFFICES ASSUME Init PROVE TypeOK
  OBVIOUS
<1>1. \A t \in Threads : text[t] \in Seq(Kinds)
  BY LineAssumption DEF Init
<1>2. ASSUME NEW t \in Threads PROVE Len(text[t]) \in Nat
  BY <1>1, LenProperties
<1>3. Junk \in Byte /\ <<>> \in Seq(Byte)
  BY EmptySeq DEF Junk, Byte
<1>4. \A t \in Threads : taken[t] <= sent[t] /\ sent[t] <= Len(text[t])
  <2> TAKE t \in Threads
  <2>1. taken[t] = 0 /\ sent[t] = 0
    BY DEF Init
  <2>2. Len(text[t]) \in Nat
    BY <1>2
  <2>. QED BY <2>1, <2>2
<1>5. /\ read_cnt \in Int /\ read_ptr \in Int /\ read_buf \in [1..BufSize -> Byte]
      /\ pc \in [Threads -> Locations] /\ reg \in [Threads -> Int]
  BY <1>3 DEF Init, Locations
<1>6. /\ item \in [Threads -> Seq(Byte)] /\ size \in [Threads -> {0, AttSize}]
      /\ handed \in [Threads -> Seq(Byte)]
  BY <1>3 DEF Init
<1>. QED BY <1>4, <1>5, <1>6 DEF Init, TypeOK

(* What a thread takes in: a byte the buffer holds, or the junk behind it. *)
LEMMA AtType == TypeOK => \A p \in Int : At(p) \in Byte
BY LineAssumption DEF TypeOK, At, Junk, Byte

LEMMA CollectType ==
  ASSUME TypeOK, NEW t \in Threads, NEW b \in Byte, Collect(t, b)
  PROVE  /\ item' \in [Threads -> Seq(Byte)] /\ pc' \in [Threads -> Locations]
         /\ item' = [item EXCEPT ![t] = Append(@, b)]
<1>1. Append(item[t], b) \in Seq(Byte)
  BY AppendProperties DEF TypeOK
<1>. QED BY <1>1 DEF TypeOK, Collect, Go, Locations

LEMMA TypeRead ==
  ASSUME TypeOK, NEW t \in Threads, ReadBytes(t)
  PROVE  TypeOK'
<1> DEFINE n == Room(sent[t] - taken[t])
<1>1. /\ sent[t] \in Nat /\ taken[t] \in Nat /\ taken[t] < sent[t]
      /\ BufSize \in Nat \ {0}
  BY LineAssumption DEF TypeOK, ReadBytes
<1>2. n \in 1..BufSize /\ taken[t] + n <= sent[t]
  BY <1>1 DEF Room, Shorter
<1>3. /\ read_buf' = [k \in 1..BufSize |-> IF k \in 1..n THEN <<t, taken[t] + k>> ELSE read_buf[k]]
      /\ taken' = [taken EXCEPT ![t] = @ + n] /\ reg' = [reg EXCEPT ![t] = n]
  BY DEF ReadBytes
<1> HIDE DEF n
<1>4. read_buf' \in [1..BufSize -> Byte]
  <2>1. ASSUME NEW k \in 1..BufSize
        PROVE  (IF k \in 1..n THEN <<t, taken[t] + k>> ELSE read_buf[k]) \in Byte
    <3>1. k \in 1..n => taken[t] + k \in Nat
      BY <1>1, <1>2
    <3>2. <<t, taken[t] + k>> \in Byte \/ k \notin 1..n
      BY <3>1 DEF Byte
    <3>3. read_buf[k] \in Byte
      BY DEF TypeOK
    <3>. QED BY <3>2, <3>3
  <2>. QED BY <1>3, <2>1
<1>5. taken' \in [Threads -> Nat] /\ \A s \in Threads : taken'[s] <= sent[s]
  BY <1>1, <1>2, <1>3 DEF TypeOK
<1>6. reg' \in [Threads -> Int]
  BY <1>2, <1>3 DEF TypeOK
<1>7. handed' \in [Threads -> Seq(Byte)] /\ mixed' \in BOOLEAN
  BY EmptySeq DEF ReadBytes, Meets, TypeOK
<1>8. pc' \in [Threads -> Locations]
  BY DEF ReadBytes, Go, TypeOK, Locations
<1>. QED BY <1>4, <1>5, <1>6, <1>7, <1>8 DEF ReadBytes, TypeOK, local, client

LEMMA TypeHand ==
  ASSUME TypeOK, NEW t \in Threads, HandOn(t)
  PROVE  TypeOK'
<1>1. handed[t] \o item[t] \in Seq(Byte)
  BY ConcatProperties DEF TypeOK
<1>2. handed' \in [Threads -> Seq(Byte)]
  BY <1>1 DEF TypeOK, HandOn
<1>3. item' \in [Threads -> Seq(Byte)] /\ size' \in [Threads -> {0, AttSize}]
  BY EmptySeq DEF TypeOK, HandOn, Awaited
<1>4. pc' \in [Threads -> Locations]
  BY DEF TypeOK, HandOn, Go, Locations
<1>. QED BY <1>2, <1>3, <1>4 DEF TypeOK, HandOn, statics, client

LEMMA TypeStep ==
  ASSUME TypeOK, [Next]_vars
  PROVE  TypeOK'
<1>0. CASE UNCHANGED vars
  BY <1>0 DEF vars, statics, local, client, history, TypeOK
<1>1. ASSUME NEW t \in Threads, Send(t) PROVE TypeOK'
  <2>1. \A s \in Threads : text[s] \in Seq(Kinds)
    BY LineAssumption DEF TypeOK
  <2>2. \A s \in Threads : Len(text[s]) \in Nat
    BY <2>1, LenProperties
  <2>3. PICK n \in (sent[t] + 1)..Len(text[t]) : sent' = [sent EXCEPT ![t] = n]
    BY <1>1 DEF Send
  <2>4. n \in Nat /\ sent[t] <= n /\ n <= Len(text[t])
    BY <2>2, <2>3 DEF TypeOK
  <2>5. sent' \in [Threads -> Nat]
    BY <2>3, <2>4 DEF TypeOK
  <2>6. ASSUME NEW s \in Threads PROVE taken[s] <= sent'[s] /\ sent'[s] <= Len(text[s])
    <3>1. taken[s] \in Nat /\ sent[s] \in Nat /\ taken[s] <= sent[s] /\ sent[s] <= Len(text[s])
      BY DEF TypeOK
    <3>2. sent'[s] = IF s = t THEN n ELSE sent[s]
      BY <2>3 DEF TypeOK
    <3>. QED BY <2>2, <2>4, <3>1, <3>2
  <2>. QED BY <1>1, <2>5, <2>6 DEF Send, TypeOK, statics, local, history
<1>2. ASSUME NEW t \in Threads, Leave(t) PROVE TypeOK'
  BY <1>2 DEF Leave, TypeOK, statics, local, history
<1>3. ASSUME NEW t \in Threads, Run(t) PROVE TypeOK'
  <2> USE DEF statics, local, client, history, Go, Locations
  <2>1. CASE Start(t)
    BY <2>1 DEF Start, TypeOK
  <2>2. CASE Call(t)
    <3>1. pc' \in [Threads -> Locations]
      BY <2>2 DEF Call, TypeOK
    <3>2. handed' \in [Threads -> Seq(Byte)] /\ mixed' \in BOOLEAN
      BY <2>2, EmptySeq DEF Call, Meets, TypeOK
    <3>. QED BY <2>2, <3>1, <3>2 DEF Call, TypeOK
  <2>3. CASE ReadBytes(t)
    BY <2>3, TypeRead
  <2>4. CASE ReadNothing(t)
    <3>1. reg' \in [Threads -> Int] /\ pc' \in [Threads -> Locations]
      BY <2>4 DEF ReadNothing, TypeOK
    <3>2. handed' \in [Threads -> Seq(Byte)] /\ mixed' \in BOOLEAN
      BY <2>4, EmptySeq DEF ReadNothing, Meets, TypeOK
    <3>. QED BY <2>4, <3>1, <3>2 DEF ReadNothing, TypeOK
  <2>5. CASE StoreCount(t)
    BY <2>5 DEF StoreCount, Forget, TypeOK
  <2>6. CASE TestCount(t)
    <3>1. pc' \in [Threads -> Locations]
      BY <2>6 DEF TestCount, TypeOK
    <3>2. reg' \in [Threads -> Int]
      BY <2>6 DEF TestCount, TypeOK
    <3>. QED BY <2>6, <3>1, <3>2 DEF TestCount, TypeOK
  <2>7. CASE Rewind(t)
    BY <2>7 DEF Rewind, TypeOK
  <2>8. CASE LoadCount(t)
    BY <2>8 DEF LoadCount, TypeOK
  <2>9. CASE LowerCount(t)
    BY <2>9 DEF LowerCount, Lowered, Forget, TypeOK
  <2>10. CASE LoadPointer(t)
    BY <2>10 DEF LoadPointer, TypeOK
  <2>11. CASE StepPointer(t)
    <3>1. Following(reg[t]) \in Int
      BY LineAssumption DEF Following, Shorter, TypeOK
    <3>. QED BY <2>11, <3>1 DEF StepPointer, TypeOK
  <2>12. CASE GotByte(t)
    <3>1. At(reg[t]) \in Byte
      BY AtType DEF TypeOK
    <3>2. item' \in [Threads -> Seq(Byte)] /\ pc' \in [Threads -> Locations]
      BY <2>12, <3>1, CollectType DEF GotByte
    <3>3. reg' \in [Threads -> Int]
      BY <2>12 DEF GotByte, Forget, TypeOK
    <3>. QED BY <2>12, <3>2, <3>3 DEF GotByte, TypeOK
  <2>13. CASE GotNothing(t)
    <3>1. Junk \in Byte
      BY DEF Junk, Byte
    <3>2. item' \in [Threads -> Seq(Byte)] /\ pc' \in [Threads -> Locations]
      <4>1. CASE Collect(t, Junk)
        BY <4>1, <3>1, CollectType
      <4>2. CASE Go(t, EndOfLine(t)) /\ UNCHANGED item
        BY <4>2 DEF TypeOK, EndOfLine
      <4>. QED BY <4>1, <4>2, <2>13 DEF GotNothing
    <3>3. reg' \in [Threads -> Int]
      BY <2>13 DEF GotNothing, Forget, TypeOK
    <3>. QED BY <2>13, <3>2, <3>3 DEF GotNothing, TypeOK
  <2>14. CASE HandOn(t)
    BY <2>14, TypeHand
  <2>15. CASE TestZero(t)
    BY <2>15 DEF TestZero, TypeOK
  <2>16. CASE Crash(t)
    BY <2>16 DEF Crash, TypeOK
  <2>. QED BY <1>3, <2>1, <2>2, <2>3, <2>4, <2>5, <2>6, <2>7, <2>8, <2>9, <2>10, <2>11,
              <2>12, <2>13, <2>14, <2>15, <2>16 DEF Run
<1>. QED BY <1>0, <1>1, <1>2, <1>3 DEF Next

(* Every value the line reader keeps has its type, and no read takes more than
   was sent, whatever the threads do to each other. *)
THEOREM TypeCorrect == Spec => []TypeOK
BY TypeInit, TypeStep, PTL DEF Spec

-----------------------------------------------------------------------------
(* The threads a step leaves alone. *)

(* What Placed(s) says of s's own state. *)
Own(s) == <<pc[s], reg[s], item[s], handed[s], taken[s], peer[s], sent[s]>>

LEMMA OthersPlaced ==
  ASSUME NEW s \in Threads, Placed(s), Own(s)' = Own(s),
         UNCHANGED <<statics, filler>> \/ (~Busy(s) /\ ~Left(s)')
  PROVE  Placed(s)'
<1> USE DEF Own, Placed, Got
<1>1. Got(s)' = Got(s)
  OBVIOUS
<1>2. \A n : InPlace(s, n) => InPlace(s, n)'
  BY <1>1 DEF InPlace
<1>3. Emptied(s) => Emptied(s)'
  BY <1>1, <1>2 DEF Emptied, Padded, Over
<1>4. \A n : Ends(s, n) => Ends(s, n)'
  BY DEF Ends
<1>5. CASE UNCHANGED <<statics, filler>>
  <2>1. \A i, n : Buffered(s, i, n) => Buffered(s, i, n)'
    BY <1>1, <1>5 DEF Buffered, InPlace, statics
  <2>2. InMyRead(s)'
    BY <1>3, <1>4, <1>5, <2>1 DEF InMyRead, statics
  <2>3. Outside(s)'
    BY <1>3, <1>4, <1>5, <2>1 DEF Outside, Left, statics
  <2>. QED BY <2>2, <2>3
<1>6. CASE ~Busy(s) /\ ~Left(s)'
  <2>1. InMyRead(s)'
    BY <1>6 DEF Busy, Inside, InMyRead
  <2>2. Outside(s)'
    BY <1>3, <1>4, <1>6 DEF Busy, Inside, Outside, Left
  <2>. QED BY <2>1, <2>2
<1>. QED BY <1>5, <1>6

LEMMA StillAlone ==
  ASSUME Alone, NEW t \in Threads, \A s \in Threads \ {t} : pc'[s] = pc[s],
         read_cnt' > 0 => filler' \in Threads,
         \A s \in Threads \ {t} : Left(s)' => Left(s),
         (Busy(t)' => Busy(t)) \/ \A s \in Threads \ {t} : ~Busy(s)
  PROVE  Alone'
<1>1. \A s \in Threads \ {t} : Busy(s)' => Busy(s)
  BY DEF Busy, Inside, Left
<1>2. \A s, r \in Threads : Busy(s)' /\ Busy(r)' => s = r
  BY <1>1 DEF Alone
<1>. QED BY <1>2 DEF Alone

(* One thread steps: what is left to show of the step. *)
LEMMA OneSteps ==
  ASSUME Alone, \A s \in Threads : Placed(s),
         NEW t \in Threads, \A s \in Threads \ {t} : Own(s)' = Own(s),
         read_cnt' > 0 => filler' \in Threads,
         \/ UNCHANGED <<statics, filler>> /\ (Busy(t)' => Busy(t))
         \/ \A s \in Threads \ {t} : ~Busy(s) /\ ~Left(s)',
         Placed(t)'
  PROVE  Alone' /\ \A s \in Threads : Placed(s)'
<1>1. \A s \in Threads \ {t} : Placed(s)'
  BY OthersPlaced
<1>2. \A s \in Threads \ {t} : pc'[s] = pc[s]
  BY DEF Own
<1>3. \A s \in Threads \ {t} : Left(s)' => Left(s)
  BY DEF Left, statics
<1>4. Alone'
  BY <1>2, <1>3, StillAlone
<1>. QED BY <1>1, <1>4

(* Nobody else is inside, and the buffer holds nobody else's bytes. *)
LEMMA NobodyElse ==
  ASSUME Alone, NEW t \in Threads,
         Busy(t) \/ \A s \in Threads \ {t} : ~Busy(s)
  PROVE  /\ \A s \in Threads \ {t} : ~Busy(s) /\ ~Left(s)
         /\ read_cnt > 0 => filler = t
BY DEF Alone, Busy, Inside, Left

(* A thread that comes in without a mixture meets nobody. *)
LEMMA MeetsNobody ==
  ASSUME NEW t \in Threads, Meets(t), ~mixed'
  PROVE  ~mixed /\ handed' = handed /\ \A s \in Threads \ {t} : ~Busy(s)
BY DEF Meets

-----------------------------------------------------------------------------
(* The steps of a thread inside my_read. *)

Ordered == Alone /\ \A t \in Threads : Placed(t)

LEMMA KeptBuffered ==
  ASSUME NEW t \in Threads, NEW i, NEW n, Buffered(t, i, n),
         UNCHANGED <<read_buf, filler, item, handed, taken>>
  PROVE  Buffered(t, i, n)'
BY DEF Buffered, InPlace, Got

LEMMA KeptEmptied ==
  ASSUME NEW t \in Threads, Emptied(t), UNCHANGED <<item, handed, taken, peer, sent>>
  PROVE  Emptied(t)'
BY DEF Emptied, InPlace, Padded, Over, Got

(* The steps between the read and the byte: others are outside, and what is left
   for t stays where it was. *)
LEMMA InsideStep ==
  ASSUME TypeOK, Ordered, NEW t \in Threads,
         \/ StoreCount(t) \/ TestCount(t) \/ TestZero(t) \/ Rewind(t) \/ LoadCount(t)
         \/ LowerCount(t) \/ LoadPointer(t) \/ StepPointer(t)
  PROVE  Ordered'
<1> USE DEF statics, local, client, history, Go, Forget
<1>1. /\ pc \in [Threads -> Locations] /\ reg \in [Threads -> Int]
      /\ read_cnt \in Int /\ read_ptr \in Int /\ taken[t] \in Nat
  BY DEF TypeOK
<1>2. Busy(t)
  BY DEF Busy, Inside, StoreCount, TestCount, TestZero, Rewind, LoadCount,
     LowerCount, LoadPointer, StepPointer
<1>3. /\ \A s \in Threads \ {t} : ~Busy(s) /\ ~Left(s)
      /\ read_cnt > 0 => filler = t
  BY <1>2, NobodyElse DEF Ordered
<1>4. \A s \in Threads \ {t} : Own(s)' = Own(s)
  BY <1>1 DEF Own, StoreCount, TestCount, TestZero, Rewind, LoadCount,
     LowerCount, LoadPointer, StepPointer
<1>5. UNCHANGED <<read_buf, filler, item, handed, taken, peer, sent>>
  BY DEF StoreCount, TestCount, TestZero, Rewind, LoadCount,
     LowerCount, LoadPointer, StepPointer
<1>6. InMyRead(t)
  BY DEF Ordered, Placed
<1>7. /\ \A i, n : Buffered(t, i, n) => Buffered(t, i, n)'
      /\ Emptied(t) => Emptied(t)'
      /\ \A n : Ends(t, n) => Ends(t, n)'
  BY <1>5, KeptBuffered, KeptEmptied DEF Ends
<1>8. read_cnt' > 0 => filler = t
  <2>1. CASE StoreCount(t)
    BY <1>6, <2>1 DEF StoreCount, InMyRead, Buffered, Ends
  <2>2. CASE LowerCount(t)
    BY <1>6, <2>2 DEF LowerCount, Lowered, InMyRead, Buffered
  <2>3. CASE UNCHANGED read_cnt
    BY <1>3, <2>3
  <2>. QED BY <2>1, <2>2, <2>3 DEF TestCount, TestZero, Rewind, LoadCount, LoadPointer, StepPointer
<1>9. Placed(t)'
  <2>1. CASE StoreCount(t)
    <3> PICK n \in Int : n = reg[t]
      BY <1>1
    <3>1. pc'[t] = "test" /\ read_cnt' = n /\ reg'[t] = 0
      BY <1>1, <2>1 DEF StoreCount
    <3>2. \/ n > 0 /\ Buffered(t, 1, n)'
          \/ Ends(t, n)' /\ Emptied(t)'
      BY <1>6, <1>7, <2>1 DEF StoreCount, InMyRead
    <3>. QED BY <3>1, <3>2 DEF Placed, InMyRead, Outside
  <2>2. CASE TestCount(t)
    <3>1. CASE read_cnt >= 0
      <4>1. pc'[t] = "zero" /\ read_cnt' = read_cnt /\ reg'[t] = 0
        BY <1>1, <1>6, <2>2, <3>1 DEF TestCount, InMyRead
      <4>2. \/ read_cnt > 0 /\ Buffered(t, 1, read_cnt)
            \/ Ends(t, read_cnt) /\ Emptied(t)
        BY <1>6, <2>2 DEF TestCount, InMyRead
      <4>3. \/ read_cnt' > 0 /\ Buffered(t, 1, read_cnt)'
            \/ read_cnt' = 0 /\ Ends(t, 0)' /\ Emptied(t)'
        BY <1>1, <1>7, <3>1, <4>1, <4>2 DEF Ends
      <4>. QED BY <4>1, <4>3 DEF Placed, InMyRead, Outside
    <3>2. CASE read_cnt < 0
      <4>1. Ends(t, read_cnt) /\ Emptied(t)
        BY <1>1, <1>6, <2>2, <3>2 DEF TestCount, InMyRead
      <4>2. reg'[t] = read_cnt /\ pc'[t] = "nothing" /\ ~Left(t)'
        BY <1>1, <2>2, <3>2, <4>1 DEF TestCount, Ends, Left
      <4>. QED BY <1>7, <4>1, <4>2 DEF Placed, InMyRead, Outside
    <3>. QED BY <1>1, <3>1, <3>2
  <2>8. CASE TestZero(t)
    <3>1. CASE read_cnt = 0
      <4>1. Ends(t, 0) /\ Emptied(t) /\ reg[t] = 0
        BY <1>6, <2>8, <3>1 DEF TestZero, InMyRead
      <4>2. reg'[t] = 0 /\ pc'[t] = "nothing" /\ ~Left(t)'
        BY <1>1, <2>8, <3>1, <4>1 DEF TestZero, Left
      <4>. QED BY <1>7, <4>1, <4>2 DEF Placed, InMyRead, Outside
    <3>2. CASE read_cnt # 0
      BY <1>1, <1>6, <1>7, <2>8, <3>2 DEF TestZero, Placed, InMyRead, Outside
    <3>. QED BY <3>1, <3>2
  <2>3. CASE Rewind(t)
    BY <1>1, <1>6, <1>7, <2>3 DEF Rewind, Placed, InMyRead, Outside
  <2>4. CASE LoadCount(t)
    BY <1>1, <1>6, <1>7, <2>4 DEF LoadCount, Placed, InMyRead, Outside
  <2>5. CASE LowerCount(t)
    <3> PICK n \in Int : n = read_cnt
      BY <1>1
    <3>1. pc'[t] = "next" /\ read_cnt' + 1 = n /\ read_ptr' = read_ptr
      BY <1>1, <1>6, <2>5 DEF LowerCount, Lowered, InMyRead, Buffered
    <3>2. Buffered(t, read_ptr, n)'
      BY <1>6, <1>7, <2>5, <3>1 DEF LowerCount, InMyRead
    <3>. QED BY <3>1, <3>2 DEF Placed, InMyRead, Outside
  <2>6. CASE LoadPointer(t)
    BY <1>1, <1>6, <1>7, <2>6 DEF LoadPointer, Placed, InMyRead, Outside
  <2>7. CASE StepPointer(t)
    <3>1. Buffered(t, reg[t], read_cnt + 1) /\ reg[t] = read_ptr
      BY <1>6, <2>7 DEF StepPointer, InMyRead
    <3>2. Following(reg[t]) = reg[t] + 1
      BY <1>1, <3>1, LineAssumption DEF Buffered, Following, Shorter
    <3>. QED BY <1>1, <1>7, <2>7, <3>1, <3>2 DEF StepPointer, Placed, InMyRead, Outside
  <2>. QED BY <2>1, <2>2, <2>3, <2>4, <2>5, <2>6, <2>7, <2>8
<1>10. \A s \in Threads \ {t} : ~Busy(s) /\ ~Left(s)'
  BY <1>3, <1>5, <1>8 DEF Left
<1>. QED BY <1>4, <1>5, <1>8, <1>9, <1>10, OneSteps DEF Ordered

-----------------------------------------------------------------------------
(* The steps of a thread that comes into my_read. *)

LEMMA CallStep ==
  ASSUME TypeOK, Ordered, NEW t \in Threads, Call(t), ~mixed'
  PROVE  Ordered'
<1>1. /\ handed' = handed /\ \A s \in Threads \ {t} : ~Busy(s)
      /\ UNCHANGED <<statics, filler, reg, item, taken, peer, sent>>
  BY MeetsNobody DEF Call, local, client
<1>2. read_cnt > 0 => filler = t
  BY <1>1, NobodyElse DEF Ordered
<1>3. /\ pc[t] = "call" /\ read_cnt \in Int
      /\ pc' = [pc EXCEPT ![t] = IF read_cnt <= 0 THEN "read" ELSE "left"]
  BY DEF Call, Go, Drained, TypeOK
<1>4. pc \in [Threads -> Locations]
  BY DEF TypeOK
<1>5. \A s \in Threads \ {t} : Own(s)' = Own(s)
  BY <1>1, <1>3, <1>4 DEF Own
<1>6. Placed(t)'
  <2>1. IF Left(t) THEN Buffered(t, read_ptr, read_cnt) ELSE Emptied(t)
    BY <1>3 DEF Ordered, Placed, Outside
  <2>2. CASE Left(t)
    <3>1. pc'[t] = "left"
      BY <1>3, <1>4, <2>2 DEF Left
    <3>2. Buffered(t, read_ptr, read_cnt)'
      BY <1>1, <2>1, <2>2 DEF Buffered, InPlace, Got, statics
    <3>. QED BY <3>1, <3>2 DEF Placed, InMyRead, Outside
  <2>3. CASE ~Left(t)
    <3>1. pc'[t] = "read"
      BY <1>2, <1>3, <1>4, <2>3 DEF Left
    <3>2. Emptied(t)' /\ ~Left(t)'
      BY <1>1, <2>1, <2>3, KeptEmptied DEF Left, statics
    <3>. QED BY <3>1, <3>2 DEF Placed, InMyRead, Outside
  <2>. QED BY <2>2, <2>3
<1>7. \A s \in Threads \ {t} : ~Busy(s) /\ ~Left(s)'
  BY <1>1 DEF Busy, Inside, Left, statics
<1>8. read_cnt' > 0 => filler' \in Threads
  BY <1>1, <1>2 DEF statics
<1>. QED BY <1>5, <1>6, <1>7, <1>8, OneSteps DEF Ordered

(* A thread that waits in read() finds the buffer empty when it comes back. *)
LEMMA BackFromRead ==
  ASSUME TypeOK, Ordered, NEW t \in Threads, pc[t] = "read", Meets(t), ~mixed'
  PROVE  /\ handed' = handed /\ \A s \in Threads \ {t} : ~Busy(s)
         /\ read_cnt <= 0 /\ Emptied(t)
<1>1. handed' = handed /\ \A s \in Threads \ {t} : ~Busy(s)
  BY MeetsNobody
<1>2. read_cnt > 0 => filler = t
  BY <1>1, NobodyElse DEF Ordered
<1>3. ~Left(t) /\ Emptied(t)
  BY DEF Ordered, Placed, Outside
<1>. QED BY <1>1, <1>2, <1>3 DEF Left, TypeOK

LEMMA ReadStep ==
  ASSUME TypeOK, Ordered, NEW t \in Threads, ReadBytes(t), ~mixed'
  PROVE  Ordered'
<1> PICK n \in Int : n = Room(sent[t] - taken[t])
  BY LineAssumption DEF TypeOK, ReadBytes, Room, Shorter
<1>1. /\ handed' = handed /\ \A s \in Threads \ {t} : ~Busy(s)
      /\ read_cnt <= 0 /\ Emptied(t) /\ pc[t] = "read"
  BY BackFromRead DEF ReadBytes
<1>2. /\ UNCHANGED <<read_cnt, item, peer, sent>> /\ filler' = t
      /\ pc' = [pc EXCEPT ![t] = "count"] /\ reg' = [reg EXCEPT ![t] = n]
      /\ taken' = [taken EXCEPT ![t] = @ + n]
      /\ read_buf' = [k \in 1..BufSize |-> IF k \in 1..n THEN <<t, taken[t] + k>> ELSE read_buf[k]]
  BY DEF ReadBytes, Go, local, client
<1>3. /\ pc \in [Threads -> Locations] /\ reg \in [Threads -> Int]
      /\ taken \in [Threads -> Nat] /\ taken[t] \in Nat /\ sent[t] \in Nat /\ taken[t] < sent[t]
      /\ BufSize \in Nat \ {0}
  BY LineAssumption DEF TypeOK, ReadBytes
<1>4. n \in 1..BufSize
  BY <1>3 DEF Room, Shorter
<1>5. pc'[t] = "count" /\ reg'[t] = n /\ taken'[t] = taken[t] + n
  BY <1>2, <1>3
<1>6. InPlace(t, taken[t])
  BY <1>1, <1>3 DEF Emptied, Padded, Over, ReadBytes
<1>7. \A k \in 1..n : read_buf'[1 + k - 1] = <<t, taken'[t] - n + k>>
  <2> TAKE k \in 1..n
  <2>1. k \in 1..BufSize /\ 1 + k - 1 = k /\ taken'[t] - n + k = taken[t] + k
    BY <1>3, <1>4, <1>5
  <2>. QED BY <1>2, <2>1
<1>8. InPlace(t, taken[t] - n)'
  <2>1. taken'[t] - n = taken[t]
    BY <1>3, <1>4, <1>5
  <2>. QED BY <1>1, <1>2, <1>6, <2>1 DEF InPlace, Got
<1>9. n \in 1..taken'[t] /\ 1 \in 1..BufSize /\ 1 + n - 1 <= BufSize
  BY <1>3, <1>4, <1>5
<1>10. Buffered(t, 1, n)'
  BY <1>2, <1>7, <1>8, <1>9 DEF Buffered
<1>11. Placed(t)'
  BY <1>1, <1>2, <1>4, <1>5, <1>10 DEF Placed, InMyRead, Outside
<1>12. \A s \in Threads \ {t} : Own(s)' = Own(s)
  BY <1>1, <1>2, <1>3 DEF Own
<1>13. \A s \in Threads \ {t} : ~Busy(s) /\ ~Left(s)'
  BY <1>1, <1>2 DEF Left
<1>. QED BY <1>1, <1>2, <1>11, <1>12, <1>13, OneSteps DEF Ordered

LEMMA NothingReadStep ==
  ASSUME TypeOK, Ordered, NEW t \in Threads, ReadNothing(t), ~mixed'
  PROVE  Ordered'
<1>1. /\ handed' = handed /\ \A s \in Threads \ {t} : ~Busy(s)
      /\ read_cnt <= 0 /\ Emptied(t) /\ pc[t] = "read"
  BY BackFromRead DEF ReadNothing
<1>2. UNCHANGED <<statics, filler, item, taken, peer, sent>> /\ pc' = [pc EXCEPT ![t] = "count"]
  BY DEF ReadNothing, Go, local, client
<1>3. pc \in [Threads -> Locations] /\ reg \in [Threads -> Int]
  BY DEF TypeOK
<1>4. Ends(t, reg'[t])
  BY <1>3 DEF ReadNothing, Ends
<1>5. Placed(t)'
  <2>1. pc'[t] = "count" /\ read_cnt' <= 0 /\ Emptied(t)'
    BY <1>1, <1>2, <1>3, KeptEmptied DEF statics
  <2>2. Ends(t, reg[t])'
    BY <1>2, <1>4 DEF Ends
  <2>. QED BY <2>1, <2>2 DEF Placed, InMyRead, Outside
<1>6. \A s \in Threads \ {t} : Own(s)' = Own(s)
  BY <1>1, <1>2, <1>3 DEF Own, ReadNothing
<1>7. \A s \in Threads \ {t} : ~Busy(s) /\ ~Left(s)'
  BY <1>1, <1>2 DEF Left, statics, TypeOK
<1>8. ~(read_cnt' > 0)
  BY <1>1, <1>2 DEF statics, TypeOK
<1>. QED BY <1>5, <1>6, <1>7, <1>8, OneSteps DEF Ordered

-----------------------------------------------------------------------------
(* The steps of a thread outside: it collects, hands on and starts. *)

(* A byte more at the end of what has arrived. *)
LEMMA OneByteMore ==
  ASSUME TypeOK, NEW t \in Threads, NEW b \in Byte, Collect(t, b), handed' = handed
  PROVE  /\ Len(Got(t)) \in Nat /\ Len(Got(t)') = Len(Got(t)) + 1
         /\ \A k \in 1..Len(Got(t)) : Got(t)'[k] = Got(t)[k]
         /\ Got(t)'[Len(Got(t)) + 1] = b
         /\ pc'[t] \in {"hand", "call"}
         /\ \A s \in Threads \ {t} : pc'[s] = pc[s] /\ item'[s] = item[s]
<1>1. item[t] \in Seq(Byte) /\ handed[t] \in Seq(Byte)
  BY DEF TypeOK
<1>2. item' = [item EXCEPT ![t] = Append(@, b)] /\ item \in [Threads -> Seq(Byte)]
  BY DEF Collect, TypeOK
<1> DEFINE i == item[t]
           h == handed[t]
<1>3. Got(t) = h \o i /\ Got(t)' = h \o Append(i, b)
  BY <1>2 DEF Got
<1>. /\ i \in Seq(Byte) /\ h \in Seq(Byte) /\ Len(i) \in Nat /\ Len(h) \in Nat
  BY <1>1, LenProperties
<1> HIDE DEF i, h
<1>4. /\ Append(i, b) \in Seq(Byte) /\ Len(Append(i, b)) = Len(i) + 1
      /\ \A k \in 1..Len(i) : Append(i, b)[k] = i[k]
      /\ Append(i, b)[Len(i) + 1] = b
  BY AppendProperties
<1>5. /\ Len(h \o i) = Len(h) + Len(i)
      /\ \A k \in 1..Len(h) + Len(i) : (h \o i)[k] = IF k <= Len(h) THEN h[k] ELSE i[k - Len(h)]
  BY ConcatProperties
<1>6. /\ Len(h \o Append(i, b)) = Len(h) + Len(i) + 1
      /\ \A k \in 1..Len(h) + Len(i) + 1 :
           (h \o Append(i, b))[k] = IF k <= Len(h) THEN h[k] ELSE Append(i, b)[k - Len(h)]
  <2> DEFINE a == Append(i, b)
  <2>1. a \in Seq(Byte) /\ h \in Seq(Byte) /\ Len(a) = Len(i) + 1
    BY <1>4
  <2> HIDE DEF a
  <2>2. /\ Len(h \o a) = Len(h) + Len(a)
        /\ \A k \in 1..Len(h) + Len(a) : (h \o a)[k] = IF k <= Len(h) THEN h[k] ELSE a[k - Len(h)]
    BY <2>1, ConcatProperties
  <2>3. Len(h) + Len(a) = Len(h) + Len(i) + 1
    BY <2>1
  <2>. QED BY <2>2, <2>3 DEF a
<1>7. \A k \in 1..Len(h) + Len(i) : (h \o Append(i, b))[k] = (h \o i)[k]
  <2> TAKE k \in 1..Len(h) + Len(i)
  <2>1. k \in 1..Len(h) + Len(i) + 1 /\ (k > Len(h) => k - Len(h) \in 1..Len(i))
    BY <1>4
  <2>. QED BY <1>4, <1>5, <1>6, <2>1
<1>8. (h \o Append(i, b))[Len(h) + Len(i) + 1] = b
  <2>1. /\ Len(h) + Len(i) + 1 \in 1..Len(h) + Len(i) + 1 /\ ~(Len(h) + Len(i) + 1 <= Len(h))
        /\ Len(h) + Len(i) + 1 - Len(h) = Len(i) + 1
    BY <1>4
  <2>. QED BY <1>4, <1>6, <2>1
<1>9. pc'[t] \in {"hand", "call"} /\ \A s \in Threads \ {t} : pc'[s] = pc[s] /\ item'[s] = item[s]
  BY <1>2 DEF Collect, Go, TypeOK
<1>. QED BY <1>3, <1>4, <1>5, <1>6, <1>7, <1>8, <1>9

LEMMA ByteStep ==
  ASSUME TypeOK, Ordered, ~mixed, NEW t \in Threads, GotByte(t)
  PROVE  Ordered'
<1>1. /\ pc \in [Threads -> Locations] /\ reg \in [Threads -> Int] /\ read_cnt \in Int
      /\ taken[t] \in Nat
  BY DEF TypeOK
<1>2. /\ pc[t] = "byte" /\ Collect(t, At(reg[t])) /\ reg' = [reg EXCEPT ![t] = 0]
      /\ UNCHANGED <<statics, taken, sent, peer, filler, handed>>
  BY DEF GotByte, Forget, client, history
<1>3. read_ptr = reg[t] + 1 /\ Buffered(t, reg[t], read_cnt + 1)
  BY <1>2 DEF Ordered, Placed, InMyRead
<1> PICK n \in Int : n = taken[t] - (read_cnt + 1)
  BY <1>1
<1>4. /\ filler = t /\ n >= 0 /\ read_cnt >= 0 /\ InPlace(t, n)
      /\ reg[t] \in 1..BufSize /\ reg[t] + read_cnt <= BufSize
  BY <1>1, <1>3, LineAssumption DEF Buffered
<1>5. \A k \in 1..(read_cnt + 1) : read_buf[reg[t] + k - 1] = <<t, n + k>>
  BY <1>3 DEF Buffered
<1>6. At(reg[t]) = <<t, n + 1>>
  <2>1. 1 \in 1..(read_cnt + 1) /\ reg[t] + 1 - 1 = reg[t]
    BY <1>1, <1>4
  <2>. QED BY <1>4, <1>5, <2>1 DEF At
<1>7. At(reg[t]) \in Byte
  BY <1>1, AtType
<1>8. /\ Len(Got(t)) = n /\ Len(Got(t)') = n + 1
      /\ \A k \in 1..n : Got(t)'[k] = Got(t)[k]
      /\ Got(t)'[n + 1] = <<t, n + 1>>
      /\ pc'[t] \in {"hand", "call"}
      /\ \A s \in Threads \ {t} : pc'[s] = pc[s] /\ item'[s] = item[s]
  BY <1>2, <1>4, <1>6, <1>7, OneByteMore DEF InPlace
<1>9. InPlace(t, n + 1)'
  <2>1. \A k \in 1..(n + 1) : Got(t)'[k] = <<t, k>>
    <3> TAKE k \in 1..(n + 1)
    <3>1. CASE k \in 1..n
      BY <1>4, <1>8, <3>1 DEF InPlace
    <3>2. CASE k = n + 1
      BY <1>8, <3>2
    <3>. QED BY <1>4, <3>1, <3>2
  <2>. QED BY <1>8, <2>1 DEF InPlace
<1>10. Placed(t)'
  <2>1. CASE read_cnt = 0
    <3>1. n + 1 = taken'[t] /\ ~Left(t)'
      BY <1>1, <1>2, <2>1 DEF Left, statics
    <3>2. Emptied(t)'
      BY <1>9, <3>1 DEF Emptied
    <3>. QED BY <1>8, <3>1, <3>2 DEF Placed, InMyRead, Outside
  <2>2. CASE read_cnt > 0
    <3>1. n + 1 = taken'[t] - read_cnt' /\ read_cnt' \in 1..taken'[t] /\ Left(t)'
      BY <1>1, <1>2, <1>4, <2>2 DEF Left, statics
    <3>2. read_ptr' \in 1..BufSize /\ read_ptr' + read_cnt' - 1 <= BufSize
      BY <1>1, <1>2, <1>3, <1>4, <2>2, LineAssumption DEF statics
    <3>3. \A k \in 1..read_cnt' : read_buf'[read_ptr' + k - 1] = <<t, taken'[t] - read_cnt' + k>>
      <4> TAKE k \in 1..read_cnt'
      <4>1. /\ k + 1 \in 1..(read_cnt + 1) /\ reg[t] + (k + 1) - 1 = read_ptr' + k - 1
            /\ n + (k + 1) = taken'[t] - read_cnt' + k
        BY <1>1, <1>2, <1>3, <3>1 DEF statics
      <4>2. read_buf' = read_buf
        BY <1>2 DEF statics
      <4>. QED BY <1>5, <4>1, <4>2
    <3>4. Buffered(t, read_ptr, read_cnt)'
      BY <1>2, <1>4, <1>9, <3>1, <3>2, <3>3 DEF Buffered
    <3>. QED BY <1>8, <3>1, <3>4 DEF Placed, InMyRead, Outside
  <2>. QED BY <1>1, <1>4, <2>1, <2>2
<1>11. \A s \in Threads \ {t} : Own(s)' = Own(s)
  BY <1>1, <1>2, <1>8 DEF Own
<1>12. Busy(t)
  BY <1>2 DEF Busy, Inside
<1>13. \A s \in Threads \ {t} : ~Busy(s) /\ ~Left(s)'
  BY <1>2, <1>12, NobodyElse DEF Ordered, Left, statics
<1>14. read_cnt' > 0 => filler' \in Threads
  BY <1>2, <1>4 DEF statics
<1>. QED BY <1>10, <1>11, <1>13, <1>14, OneSteps DEF Ordered

LEMMA NothingStep ==
  ASSUME TypeOK, Ordered, ~mixed, NEW t \in Threads, GotNothing(t)
  PROVE  Ordered'
<1>1. /\ pc \in [Threads -> Locations] /\ reg \in [Threads -> Int]
      /\ taken[t] \in Nat /\ size[t] \in Nat
  BY LineAssumption DEF TypeOK
<1>2. /\ pc[t] = "nothing" /\ reg' = [reg EXCEPT ![t] = 0]
      /\ UNCHANGED <<statics, taken, sent, peer, filler, handed>>
  BY DEF GotNothing, Forget, client, history
<1>3. ~Left(t) /\ Emptied(t) /\ Ends(t, reg[t])
  BY <1>2 DEF Ordered, Placed, Outside
<1>4. ~Left(t)'
  BY <1>2, <1>3 DEF Left, statics
<1>5. /\ Placed(t)' /\ ~Busy(t)'
      /\ \A s \in Threads \ {t} : pc'[s] = pc[s] /\ item'[s] = item[s]
  <2>1. CASE Collect(t, Junk)
    <3>1. Junk \in Byte
      BY DEF Junk, Byte
    <3> DEFINE n == Len(Got(t))
    <3>2. /\ n \in Nat /\ Len(Got(t)') = n + 1
          /\ \A k \in 1..n : Got(t)'[k] = Got(t)[k]
          /\ Got(t)'[n + 1] = Junk
          /\ pc'[t] \in {"hand", "call"}
          /\ \A s \in Threads \ {t} : pc'[s] = pc[s] /\ item'[s] = item[s]
      BY <1>2, <2>1, <3>1, OneByteMore
    <3>3. /\ Over(t) /\ n >= taken[t]
          /\ \A k \in 1..n : Got(t)[k] = IF k <= taken[t] THEN <<t, k>> ELSE Junk
      <4>1. Over(t)
        BY <1>3 DEF Over, Ends
      <4>2. CASE InPlace(t, taken[t])
        <5>1. n = taken[t] /\ \A k \in 1..n : k <= taken[t] /\ Got(t)[k] = <<t, k>>
          BY <1>1, <4>2 DEF InPlace
        <5>2. \A k \in 1..n : Got(t)[k] = IF k <= taken[t] THEN <<t, k>> ELSE Junk
          BY <5>1, Zenon
        <5> HIDE DEF n
        <5>3. n >= taken[t]
          BY <1>1, <5>1
        <5>. QED BY <4>1, <5>2, <5>3
      <4>3. CASE Padded(t)
        BY <4>3 DEF Padded
      <4>. QED BY <1>3, <4>2, <4>3 DEF Emptied
    <3> HIDE DEF n
    <3>4. \A k \in 1..(n + 1) : Got(t)'[k] = IF k <= taken[t] THEN <<t, k>> ELSE Junk
      <4> TAKE k \in 1..(n + 1)
      <4>1. CASE k \in 1..n
        <5>1. Got(t)'[k] = Got(t)[k]
          BY <3>2, <4>1
        <5>2. Got(t)[k] = IF k <= taken[t] THEN <<t, k>> ELSE Junk
          BY <3>3, <4>1
        <5>. QED BY <5>1, <5>2
      <4>2. CASE k = n + 1
        BY <1>1, <3>2, <3>3, <4>2
      <4>. QED BY <3>2, <4>1, <4>2
    <3>5. Padded(t)'
      BY <1>1, <1>2, <3>2, <3>3, <3>4 DEF Padded, Over
    <3>. QED BY <1>4, <3>2, <3>5 DEF Placed, InMyRead, Outside, Emptied, Busy, Inside, Left
  <2>2. CASE size[t] = 0 /\ Go(t, EndOfLine(t)) /\ UNCHANGED item
    <3>1. /\ pc'[t] = EndOfLine(t) /\ item' = item
          /\ \A s \in Threads \ {t} : pc'[s] = pc[s]
      BY <1>1, <2>2 DEF Go
    <3>2. Emptied(t)'
      BY <1>2, <1>3, <3>1, KeptEmptied
    <3>3. pc'[t] = "ended" => (item'[t] = <<>> /\ Ends(t, 0)') \/ peer'[t] = "reset"
      BY <1>2, <1>3, <3>1 DEF Ends, EndOfLine
    <3>4. pc'[t] \in {"hand", "ended"}
      BY <3>1 DEF EndOfLine
    <3>. QED BY <1>4, <3>1, <3>2, <3>3, <3>4 DEF Placed, InMyRead, Outside, Busy, Inside, Left
  <2>. QED BY <2>1, <2>2 DEF GotNothing
<1>6. \A s \in Threads \ {t} : Own(s)' = Own(s)
  BY <1>1, <1>2, <1>5 DEF Own
<1>7. read_cnt' > 0 => filler' \in Threads
  BY <1>2 DEF Ordered, Alone, statics
<1>. QED BY <1>2, <1>5, <1>6, <1>7, OneSteps DEF Ordered

(* No thread finds bytes counted before read_ptr is set. *)
LEMMA NoCrash ==
  ASSUME Ordered, NEW t \in Threads
  PROVE  ~Crash(t)
BY DEF Ordered, Placed, InMyRead, Crash, Buffered

LEMMA HandStep ==
  ASSUME TypeOK, Ordered, ~mixed, NEW t \in Threads, HandOn(t)
  PROVE  Ordered'
<1>1. /\ pc \in [Threads -> Locations] /\ item \in [Threads -> Seq(Byte)]
      /\ handed \in [Threads -> Seq(Byte)]
  BY DEF TypeOK
<1>2. /\ pc[t] = "hand" /\ pc' = [pc EXCEPT ![t] = "call"]
      /\ item' = [item EXCEPT ![t] = <<>>]
      /\ handed' = [handed EXCEPT ![t] = @ \o item[t]]
      /\ UNCHANGED <<statics, reg, taken, sent, peer, filler>>
  BY DEF HandOn, Go, client
<1>3. Got(t)' = Got(t)
  <2>1. handed[t] \o item[t] \in Seq(Byte)
    BY <1>1, ConcatProperties
  <2>2. (handed[t] \o item[t]) \o <<>> = handed[t] \o item[t]
    BY <2>1, ConcatEmptySeq
  <2>. QED BY <1>1, <1>2, <2>2 DEF Got
<1>4. IF Left(t) THEN Buffered(t, read_ptr, read_cnt) ELSE Emptied(t)
  BY <1>2 DEF Ordered, Placed, Outside
<1>5. IF Left(t)' THEN Buffered(t, read_ptr, read_cnt)' ELSE Emptied(t)'
  BY <1>2, <1>3, <1>4 DEF Left, Buffered, Emptied, InPlace, Padded, Over, statics
<1>6. pc'[t] = "call"
  BY <1>1, <1>2
<1>7. Placed(t)'
  BY <1>5, <1>6 DEF Placed, InMyRead, Outside
<1>8. \A s \in Threads \ {t} : Own(s)' = Own(s)
  BY <1>1, <1>2 DEF Own
<1>9. Busy(t)' => Busy(t)
  BY <1>2, <1>6 DEF Busy, Inside, statics
<1>10. read_cnt' > 0 => filler' \in Threads
  BY <1>2 DEF Ordered, Alone, statics
<1>. QED BY <1>2, <1>7, <1>8, <1>9, <1>10, OneSteps DEF Ordered

LEMMA StartStep ==
  ASSUME TypeOK, Ordered, NEW t \in Threads, Start(t)
  PROVE  Ordered'
<1>1. pc \in [Threads -> Locations]
  BY DEF TypeOK
<1>2. /\ pc[t] = "off" /\ pc' = [pc EXCEPT ![t] = "call"]
      /\ UNCHANGED <<statics, reg, item, handed, taken, sent, peer, filler>>
  BY DEF Start, Go, local, client, history
<1>3. IF Left(t)' THEN Buffered(t, read_ptr, read_cnt)' ELSE Emptied(t)'
  BY <1>2 DEF Ordered, Placed, Outside, Left, Buffered, Emptied, InPlace, Padded, Over, Got, statics
<1>4. pc'[t] = "call"
  BY <1>1, <1>2
<1>5. Placed(t)'
  BY <1>3, <1>4 DEF Placed, InMyRead, Outside
<1>6. \A s \in Threads \ {t} : Own(s)' = Own(s)
  BY <1>1, <1>2 DEF Own
<1>7. Busy(t)' => Busy(t)
  BY <1>2, <1>4 DEF Busy, Inside, statics
<1>8. read_cnt' > 0 => filler' \in Threads
  BY <1>2 DEF Ordered, Alone, statics
<1>. QED BY <1>2, <1>5, <1>6, <1>7, <1>8, OneSteps DEF Ordered

(* While its client is there, no thread has seen the end of its stream; what the
   client does next is all the same to what has arrived. *)
LEMMA ClientStep ==
  ASSUME TypeOK, Ordered, NEW t \in Threads, Send(t) \/ Leave(t)
  PROVE  Ordered'
<1>1. /\ peer[t] = "open"
      /\ UNCHANGED <<statics, pc, reg, item, handed, taken, filler>>
      /\ \A s \in Threads \ {t} : peer'[s] = peer[s] /\ sent'[s] = sent[s]
  BY DEF Send, Leave, local, history, TypeOK
<1>2. ~Over(t) /\ \A n : ~Ends(t, n)
  BY <1>1 DEF Over, Ends
<1>3. /\ \A i, n : Buffered(t, i, n) => Buffered(t, i, n)'
      /\ Emptied(t) => Emptied(t)'
  BY <1>1, <1>2 DEF Buffered, Emptied, Padded, InPlace, Got, statics
<1>4. InMyRead(t)' /\ Outside(t)'
  BY <1>1, <1>2, <1>3 DEF Ordered, Placed, InMyRead, Outside, Left, statics
<1>5. \A s \in Threads \ {t} : Own(s)' = Own(s)
  BY <1>1 DEF Own
<1>6. Busy(t)' => Busy(t)
  BY <1>1 DEF Busy, Inside, statics
<1>7. read_cnt' > 0 => filler' \in Threads
  BY <1>1 DEF Ordered, Alone, statics
<1>. QED BY <1>1, <1>4, <1>5, <1>6, <1>7, OneSteps DEF Ordered, Placed

-----------------------------------------------------------------------------
(* The invariant, and what it says of the properties. *)

LEMMA OrderInit == Init => Order
<1> SUFFICES ASSUME Init PROVE Ordered
  BY DEF Order, Ordered
<1>1. read_cnt = 0 /\ \A t \in Threads : ~Busy(t) /\ ~Left(t)
  BY DEF Init, Busy, Inside, Left
<1>2. Alone
  BY <1>1 DEF Alone
<1>3. ASSUME NEW t \in Threads PROVE Placed(t)
  <2>1. /\ handed[t] = <<>> /\ item[t] = <<>> /\ taken[t] = 0 /\ pc[t] = "off"
    BY DEF Init
  <2>2. <<>> \o <<>> = <<>>
    BY EmptySeq, ConcatEmptySeq
  <2>3. Emptied(t)
    BY <2>1, <2>2, EmptySeq DEF Emptied, InPlace, Got
  <2>. QED BY <1>1, <2>1, <2>3 DEF Placed, InMyRead, Outside
<1>. QED BY <1>2, <1>3 DEF Ordered

LEMMA OrderStep ==
  ASSUME TypeOK, Order, [Next]_vars
  PROVE  Order'
<1> SUFFICES ASSUME ~mixed' PROVE Ordered'
  BY DEF Order, Ordered
<1>0. CASE UNCHANGED vars
  <2>1. Ordered /\ UNCHANGED <<statics, pc, reg, item, handed, taken, peer, sent, filler>>
    BY <1>0 DEF vars, local, client, history, Order, Ordered
  <2>2. \A s \in Threads : Placed(s)'
    BY <2>1, OthersPlaced DEF Own, Ordered
  <2>3. Alone'
    BY <2>1 DEF Ordered, Alone, Busy, Inside, statics
  <2>. QED BY <2>2, <2>3 DEF Ordered
<1>1. ASSUME NEW t \in Threads, Send(t) \/ Leave(t) PROVE Ordered'
  <2>1. Ordered
    BY <1>1 DEF Order, Ordered, Send, Leave, history
  <2>. QED BY <1>1, <2>1, ClientStep
<1>2. ASSUME NEW t \in Threads, Run(t) PROVE Ordered'
  <2>1. ~mixed
    BY <1>2, MeetsNobody DEF Run, Start, Call, ReadBytes, ReadNothing, StoreCount, TestCount,
       TestZero, Rewind, LoadCount, LowerCount, LoadPointer, StepPointer, GotByte, Crash,
       GotNothing, HandOn, history
  <2>2. Ordered
    BY <2>1 DEF Order, Ordered
  <2>. QED BY <1>2, <2>1, <2>2, StartStep, CallStep, ReadStep, NothingReadStep, InsideStep,
              ByteStep, NoCrash, NothingStep, HandStep DEF Run
<1>. QED BY <1>0, <1>1, <1>2 DEF Next

LEMMA OrderHolds == Spec => []Order
<1>1. TypeOK /\ Order /\ [Next]_vars => Order'
  BY OrderStep
<1>. QED BY <1>1, OrderInit, TypeCorrect, PTL DEF Spec

LEMMA OrderInOrder == TypeOK /\ Order => InOrderUnlessMixed
<1> SUFFICES ASSUME TypeOK, Ordered, NEW t \in Threads, pc[t] \in Resting
             PROVE  Got(t) \o Rest(t) = Piece(t, 0, taken[t]) \/ FilledUp(t)
  BY DEF Order, Ordered, InOrderUnlessMixed
<1>1. item[t] \in Seq(Byte) /\ handed[t] \in Seq(Byte)
      /\ taken[t] \in Nat /\ read_cnt \in Int /\ read_ptr \in Int
  BY DEF TypeOK
<1>2. Got(t) \in Seq(Byte)
  BY <1>1, ConcatProperties DEF Got
<1>3. /\ Piece(t, 0, taken[t]) \in Seq(Byte) /\ Len(Piece(t, 0, taken[t])) = taken[t]
      /\ \A k \in 1..taken[t] : Piece(t, 0, taken[t])[k] = <<t, k>>
  <2>1. Piece(t, 0, taken[t]) = [k \in 1..taken[t] |-> <<t, k>>]
    BY <1>1 DEF Piece
  <2>2. \A k \in 1..taken[t] : <<t, k>> \in Byte
    BY DEF Byte
  <2>3. [k \in 1..taken[t] |-> <<t, k>>] \in [1..taken[t] -> Byte]
    BY <2>2
  <2>. QED BY <1>1, <2>1, <2>3, LenProperties, SeqDef
<1>4. CASE Left(t)
  <2>1. Buffered(t, read_ptr, read_cnt)
    BY <1>4 DEF Ordered, Placed, Outside, Resting
  <2> DEFINE r == SubSeq(read_buf, read_ptr, read_ptr + read_cnt - 1)
  <2>2. Rest(t) = r
    BY <1>4 DEF Rest, Left
  <2>3. /\ read_cnt \in 1..taken[t] /\ read_ptr \in 1..BufSize /\ read_ptr + read_cnt - 1 <= BufSize
        /\ BufSize \in Nat
    BY <2>1, LineAssumption DEF Buffered
  <2>4. \A k \in read_ptr..(read_ptr + read_cnt - 1) : read_buf[k] \in Byte
    BY <1>1, <2>3 DEF TypeOK
  <2>5. /\ r \in Seq(Byte) /\ Len(r) = read_cnt
        /\ \A k \in 1..read_cnt : r[k] = read_buf[read_ptr + k - 1]
    BY <1>1, <2>3, <2>4, SubSeqProperties
  <2> HIDE DEF r
  <2>6. \A k \in 1..read_cnt : r[k] = <<t, taken[t] - read_cnt + k>>
    BY <2>1, <2>5 DEF Buffered
  <2>7. Len(Got(t)) = taken[t] - read_cnt /\ \A k \in 1..(taken[t] - read_cnt) : Got(t)[k] = <<t, k>>
    BY <2>1 DEF Buffered, InPlace
  <2> DEFINE g == Got(t)
  <2>. g \in Seq(Byte) /\ Len(g) = taken[t] - read_cnt /\ \A k \in 1..(taken[t] - read_cnt) : g[k] = <<t, k>>
    BY <1>2, <2>7
  <2> HIDE DEF g
  <2>8. /\ g \o r \in Seq(Byte) /\ Len(g \o r) = Len(g) + Len(r)
        /\ \A k \in 1..Len(g) + Len(r) : (g \o r)[k] = IF k <= Len(g) THEN g[k] ELSE r[k - Len(g)]
    BY <2>5, ConcatProperties
  <2>9. Len(g) + Len(r) = taken[t]
    BY <1>1, <2>3, <2>5
  <2>10. \A k \in 1..taken[t] : (g \o r)[k] = <<t, k>>
    <3> TAKE k \in 1..taken[t]
    <3>1. CASE k <= Len(g)
      <4>1. k \in 1..(taken[t] - read_cnt)
        BY <1>1, <2>3, <3>1
      <4>2. (g \o r)[k] = g[k]
        BY <2>8, <2>9, <3>1
      <4>. QED BY <4>1, <4>2
    <3>2. CASE ~(k <= Len(g))
      <4>1. k - Len(g) \in 1..read_cnt /\ taken[t] - read_cnt + (k - Len(g)) = k
        BY <1>1, <2>3, <3>2
      <4>. QED BY <2>6, <2>8, <2>9, <3>2, <4>1
    <3>. QED BY <3>1, <3>2
  <2>11. g \o r = Piece(t, 0, taken[t])
    <3> DEFINE gr == g \o r
               p == Piece(t, 0, taken[t])
    <3>1. gr \in Seq(Byte) /\ Len(gr) = taken[t] /\ \A k \in 1..taken[t] : gr[k] = <<t, k>>
      BY <2>8, <2>9, <2>10
    <3>2. p \in Seq(Byte) /\ Len(p) = taken[t] /\ \A k \in 1..taken[t] : p[k] = <<t, k>>
      BY <1>3
    <3> HIDE DEF gr, p
    <3>3. gr = p
      BY <3>1, <3>2, SeqEqual
    <3>. QED BY <3>3 DEF gr, p
  <2>. QED BY <2>2, <2>11 DEF g
<1>5. CASE ~Left(t)
  <2>1. Emptied(t) /\ Rest(t) = <<>>
    BY <1>5 DEF Ordered, Placed, Outside, Resting, Rest, Left
  <2>2. Got(t) \o Rest(t) = Got(t)
    BY <1>2, <2>1, ConcatEmptySeq
  <2>3. CASE InPlace(t, taken[t])
    BY <1>2, <1>3, <2>2, <2>3, SeqEqual DEF InPlace
  <2>4. CASE Padded(t)
    <3>1. DOMAIN Got(t) = 1..Len(Got(t))
      BY <1>2, LenProperties
    <3>. QED BY <2>1, <2>4, <3>1 DEF Padded, Over, FilledUp
  <2>. QED BY <2>1, <2>3, <2>4 DEF Emptied
<1>. QED BY <1>4, <1>5

(* Until threads meet in my_read, every thread has the bytes of its own client,
   all of them and in their order. *)
THEOREM InOrder == Spec => []InOrderUnlessMixed
BY OrderHolds, TypeCorrect, OrderInOrder, PTL

(* Until then, no thread ends before it has handed on all its client sent. *)
THEOREM NothingLeft == Spec => []NothingLeftUnlessMixed
<1>1. TypeOK /\ Order => NothingLeftUnlessMixed
  <2> SUFFICES ASSUME TypeOK, Ordered, NEW t \in Threads, pc[t] = "ended", peer[t] = "closed"
               PROVE  Len(handed[t]) >= sent[t]
    BY DEF Order, Ordered, NothingLeftUnlessMixed
  <2>1. /\ Emptied(t) /\ item[t] = <<>> /\ taken[t] = sent[t]
    BY DEF Ordered, Placed, Outside, Ends
  <2>2. handed[t] \in Seq(Byte) /\ sent[t] \in Nat
    BY DEF TypeOK
  <2>3. Got(t) = handed[t]
    BY <2>1, <2>2, ConcatEmptySeq DEF Got
  <2>. QED BY <2>1, <2>2, <2>3 DEF Emptied, InPlace, Padded
<1>. QED BY <1>1, OrderHolds, TypeCorrect, PTL
=============================================================================
