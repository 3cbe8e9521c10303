----------------------------- MODULE CodecProofs -----------------------------
(* Proofs about the text of messages: what a reader finds of a text that was
   written line by line, that Inflate takes back what Deflate wrote, and that the
   parser's counting finds the end of every mail the two grammars agree about. *)
EXTENDS MessageParser, SequenceTheorems, FiniteSetTheorems, WellFoundedInduction, TLAPS

-----------------------------------------------------------------------------
(* Induction, on the smallest number of a set. *)

LEMMA Smallest ==
  ASSUME NEW T, T \subseteq Nat, T # {}
  PROVE  \E n \in T : \A k \in T : n <= k
<1> DEFINE R == OpToRel(<, Nat)
<1>1. IsWellFoundedOn(R, Nat)
  BY NatLessThanWellFounded
<1>2. R = {ss \in Nat \X Nat : ss[1] < ss[2]}
  BY DEF OpToRel
<1> HIDE DEF R
<1>3. PICK x \in T : \A y \in T : ~ (<<y, x>> \in R)
  BY <1>1, WFMin
<1>4. \A y \in T : ~(y < x)
  BY <1>2, <1>3
<1>. QED BY <1>4

LEMMA Counting ==
  ASSUME NEW T, 0 \in T, \A n \in T \cap Nat : n + 1 \in T
  PROVE  Nat \subseteq T
<1> SUFFICES ASSUME Nat \ T # {} PROVE FALSE
  OBVIOUS
<1>1. PICK n \in Nat \ T : \A k \in Nat \ T : n <= k
  BY Smallest, Nat \ T \subseteq Nat
<1>2. n # 0 /\ n - 1 \in Nat
  BY <1>1
<1>3. n - 1 \in T
  BY <1>1, <1>2
<1>4. (n - 1) + 1 \in T
  BY <1>2, <1>3
<1>. QED BY <1>1, <1>2, <1>4

-----------------------------------------------------------------------------
(* Sequences put together from pieces. *)

LEMMA FlattenEmpty == FlattenSeq(<<>>) = <<>>
BY EmptySeq DEF FlattenSeq

(* What the recursive function in FlattenSeq is. *)
Joins(f, cs, n) ==
  f = [i \in 1..n |-> IF i = 1 THEN cs[i] ELSE f[i - 1] \o cs[i]]

LEMMA JoinExists ==
  ASSUME NEW S, NEW cs \in Seq(Seq(S)), NEW n \in Nat
  PROVE  \E f : Joins(f, cs, n)
<1> DEFINE T == {k \in Nat : \E f : Joins(f, cs, k)}
<1>1. 0 \in T
  <2>1. Joins([i \in 1..0 |-> cs[i]], cs, 0)
    BY DEF Joins
  <2>. QED BY <2>1
<1>2. ASSUME NEW k \in T PROVE k + 1 \in T
  <2>1. PICK g : Joins(g, cs, k)
    OBVIOUS
  <2>2. PICK h : h = [i \in 1..(k + 1) |-> IF i = 1 THEN cs[i]
                                           ELSE IF i = k + 1 THEN g[k] \o cs[i] ELSE g[i]]
    OBVIOUS
  <2>3. ASSUME NEW i \in 1..(k + 1)
        PROVE  h[i] = IF i = 1 THEN cs[i] ELSE h[i - 1] \o cs[i]
    <3>1. CASE i = 1
      BY <2>2, <3>1
    <3>2. CASE i # 1
      <4>1. i - 1 \in 1..k /\ i - 1 # k + 1
        BY <3>2
      <4>2. h[i - 1] = g[i - 1]
        BY <2>1, <2>2, <4>1 DEF Joins
      <4>3. CASE i = k + 1
        <5>1. h[i] = g[k] \o cs[i]
          BY <2>2, <3>2, <4>3
        <5>2. i - 1 = k
          BY <4>3
        <5>. QED BY <3>2, <4>2, <5>1, <5>2
      <4>4. CASE i # k + 1
        <5>1. i \in 1..k /\ h[i] = g[i]
          BY <2>2, <3>2, <4>4
        <5>2. g[i] = g[i - 1] \o cs[i]
          BY <2>1, <3>2, <5>1 DEF Joins
        <5>. QED BY <3>2, <4>2, <5>1, <5>2
      <4>. QED BY <4>3, <4>4
    <3>. QED BY <3>1, <3>2
  <2>4. Joins(h, cs, k + 1)
    BY <2>2, <2>3 DEF Joins
  <2>. QED BY <2>4
<1>3. Nat \subseteq T
  <2> HIDE DEF T
  <2>. QED BY <1>1, <1>2, Counting
<1>. QED BY <1>3

LEMMA JoinSeq ==
  ASSUME NEW S, NEW cs \in Seq(Seq(S)), NEW n \in 0..Len(cs), NEW f, Joins(f, cs, n)
  PROVE  \A i \in 1..n : f[i] \in Seq(S)
<1>0. Len(cs) \in Nat /\ n \in Nat
  <2>1. Len(cs) \in Nat
    BY LenProperties
  <2>. QED BY <2>1
<1> DEFINE T == {k \in Nat : \A i \in 1..n : i <= k => f[i] \in Seq(S)}
<1>1. 0 \in T
  OBVIOUS
<1>2. ASSUME NEW k \in T PROVE k + 1 \in T
  <2>1. ASSUME k + 1 \in 1..n PROVE f[k + 1] \in Seq(S)
    <3>1. k + 1 \in 1..Len(cs)
      BY <1>0, <2>1
    <3>2. cs[k + 1] \in Seq(S)
      BY <3>1, ElementOfSeq
    <3>3. f[k + 1] = IF k + 1 = 1 THEN cs[k + 1] ELSE f[(k + 1) - 1] \o cs[k + 1]
      BY <2>1 DEF Joins
    <3>4. CASE k = 0
      BY <3>2, <3>3, <3>4
    <3>5. CASE k # 0
      <4>1. (k + 1) - 1 = k /\ k \in 1..n /\ k + 1 # 1
        BY <1>0, <2>1, <3>5
      <4>2. f[k] \in Seq(S)
        BY <4>1
      <4>3. f[k] \o cs[k + 1] \in Seq(S)
        BY <3>2, <4>2, ConcatProperties
      <4>. QED BY <3>3, <4>1, <4>3
    <3>. QED BY <3>4, <3>5
  <2>2. ASSUME NEW i \in 1..n, i <= k + 1 PROVE f[i] \in Seq(S)
    <3>1. i <= k \/ i = k + 1
      BY <1>0, <2>2
    <3>. QED BY <2>1, <3>1
  <2>. QED BY <2>2
<1>3. Nat \subseteq T
  <2> HIDE DEF T
  <2>. QED BY <1>1, <1>2, Counting
<1>4. n \in T /\ \A i \in 1..n : i <= n
  BY <1>0, <1>3
<1>. QED BY <1>4

LEMMA FlattenIs ==
  ASSUME NEW S, NEW cs \in Seq(Seq(S)), cs # <<>>
  PROVE  \E f : Joins(f, cs, Len(cs)) /\ FlattenSeq(cs) = f[Len(cs)] /\ FlattenSeq(cs) \in Seq(S)
<1>1. Len(cs) \in Nat /\ Len(cs) # 0
  BY LenProperties, EmptySeq
<1> DEFINE f == CHOOSE f : Joins(f, cs, Len(cs))
<1>2. Joins(f, cs, Len(cs))
  BY <1>1, JoinExists
<1>3. FlattenSeq(cs) = f[Len(cs)]
  BY <1>1 DEF FlattenSeq, Joins
<1> HIDE DEF f
<1>4. f[Len(cs)] \in Seq(S)
  BY <1>1, <1>2, JoinSeq
<1>. QED BY <1>2, <1>3, <1>4

LEMMA JoinUnique ==
  ASSUME NEW S, NEW cs \in Seq(Seq(S)), NEW c \in Seq(S), NEW f, NEW g,
         Joins(f, cs, Len(cs)), Joins(g, Append(cs, c), Len(cs) + 1)
  PROVE  \A i \in 1..Len(cs) : g[i] = f[i]
<1>0. Len(cs) \in Nat
  BY LenProperties
<1> DEFINE T == {k \in Nat : \A i \in 1..Len(cs) : i <= k => g[i] = f[i]}
<1>1. 0 \in T
  BY <1>0
<1>2. ASSUME NEW k \in T PROVE k + 1 \in T
  <2>1. ASSUME k + 1 \in 1..Len(cs) PROVE g[k + 1] = f[k + 1]
    <3>1. Append(cs, c)[k + 1] = cs[k + 1]
      BY <2>1, AppendProperties
    <3>2. f[k + 1] = IF k + 1 = 1 THEN cs[k + 1] ELSE f[(k + 1) - 1] \o cs[k + 1]
      BY <2>1 DEF Joins
    <3>3. k + 1 \in 1..(Len(cs) + 1)
      BY <1>0, <2>1
    <3>4. g[k + 1] = IF k + 1 = 1 THEN cs[k + 1] ELSE g[(k + 1) - 1] \o cs[k + 1]
      BY <3>1, <3>3 DEF Joins
    <3>5. k # 0 => k \in 1..Len(cs) /\ (k + 1) - 1 = k
      BY <1>0, <2>1
    <3>6. k # 0 => g[(k + 1) - 1] = f[(k + 1) - 1]
      BY <3>5
    <3>7. k = 0 => k + 1 = 1
      OBVIOUS
    <3>. QED BY <3>2, <3>4, <3>6, <3>7
  <2>2. ASSUME NEW i \in 1..Len(cs), i <= k + 1 PROVE g[i] = f[i]
    <3>1. i <= k \/ i = k + 1
      BY <1>0, <2>2
    <3>. QED BY <2>1, <3>1
  <2>. QED BY <2>2
<1>3. Nat \subseteq T
  <2> HIDE DEF T
  <2>. QED BY <1>1, <1>2, Counting
<1>4. Len(cs) \in T
  BY <1>0, <1>3
<1>5. \A i \in 1..Len(cs) : i <= Len(cs)
  BY <1>0
<1>. QED BY <1>4, <1>5

LEMMA FlattenAppend ==
  ASSUME NEW S, NEW cs \in Seq(Seq(S)), NEW c \in Seq(S)
  PROVE  /\ FlattenSeq(cs) \in Seq(S)
         /\ FlattenSeq(Append(cs, c)) = FlattenSeq(cs) \o c
<1>1. /\ Append(cs, c) \in Seq(Seq(S)) /\ Append(cs, c) # <<>>
      /\ Len(Append(cs, c)) = Len(cs) + 1 /\ Append(cs, c)[Len(cs) + 1] = c /\ Len(cs) \in Nat
  BY AppendProperties, LenProperties
<1>2. PICK g : /\ Joins(g, Append(cs, c), Len(cs) + 1)
               /\ FlattenSeq(Append(cs, c)) = g[Len(cs) + 1]
  BY <1>1, FlattenIs
<1>3. CASE cs = <<>>
  <2>1. Len(cs) = 0
    BY <1>3, EmptySeq
  <2>2. g[Len(cs) + 1] = c
    BY <1>1, <1>2, <2>1 DEF Joins
  <2>3. FlattenSeq(cs) = <<>> /\ FlattenSeq(cs) \in Seq(S)
    BY <1>3, FlattenEmpty, EmptySeq
  <2>. QED BY <1>2, <2>2, <2>3, ConcatEmptySeq
<1>4. CASE cs # <<>>
  <2>1. PICK f : Joins(f, cs, Len(cs)) /\ FlattenSeq(cs) = f[Len(cs)] /\ FlattenSeq(cs) \in Seq(S)
    BY <1>4, FlattenIs
  <2>2. Len(cs) # 0 /\ Len(cs) \in 1..Len(cs) /\ (Len(cs) + 1) - 1 = Len(cs)
    BY <1>1, <1>4, EmptySeq
  <2>3. g[Len(cs)] = f[Len(cs)]
    BY <1>2, <2>1, <2>2, JoinUnique
  <2>4. g[Len(cs) + 1] = g[(Len(cs) + 1) - 1] \o c
    <3>1. Len(cs) + 1 \in 1..(Len(cs) + 1) /\ Len(cs) + 1 # 1
      BY <2>2
    <3>. QED BY <1>1, <1>2, <3>1 DEF Joins
  <2>. QED BY <1>2, <2>1, <2>2, <2>3, <2>4
<1>. QED BY <1>3, <1>4

LEMMA FlattenOne ==
  ASSUME NEW S, NEW c \in Seq(S)
  PROVE  FlattenSeq(<<c>>) = c
<1>1. Append(<<>>, c) = <<c>> /\ <<>> \in Seq(Seq(S))
  BY EmptySeq
<1>2. FlattenSeq(<<c>>) = <<>> \o c
  BY <1>1, FlattenAppend, FlattenEmpty
<1>. QED BY <1>2, ConcatEmptySeq

LEMMA Associative ==
  ASSUME NEW S
  PROVE  \A s, t, u \in Seq(S) : (s \o t) \o u = s \o (t \o u)
BY ConcatAssociative

LEMMA FlattenConcat ==
  ASSUME NEW S, NEW cs \in Seq(Seq(S)), NEW ds \in Seq(Seq(S))
  PROVE  FlattenSeq(cs \o ds) = FlattenSeq(cs) \o FlattenSeq(ds)
<1>0. \A s, t, u \in Seq(S) : (s \o t) \o u = s \o (t \o u)
  BY Associative
<1> DEFINE T == {n \in Nat : \A es \in Seq(Seq(S)) :
                               Len(es) = n => FlattenSeq(cs \o es) = FlattenSeq(cs) \o FlattenSeq(es)}
<1>1. 0 \in T
  <2> SUFFICES ASSUME NEW es \in Seq(Seq(S)), Len(es) = 0
               PROVE  FlattenSeq(cs \o es) = FlattenSeq(cs) \o FlattenSeq(es)
    OBVIOUS
  <2>1. es = <<>>
    BY EmptySeq
  <2>2. cs \o es = cs /\ FlattenSeq(es) = <<>>
    BY <2>1, ConcatEmptySeq, FlattenEmpty
  <2>3. FlattenSeq(cs) \in Seq(S)
    BY FlattenAppend, EmptySeq
  <2>. QED BY <2>2, <2>3, ConcatEmptySeq
<1>2. ASSUME NEW n \in T PROVE n + 1 \in T
  <2> SUFFICES ASSUME NEW es \in Seq(Seq(S)), Len(es) = n + 1
               PROVE  FlattenSeq(cs \o es) = FlattenSeq(cs) \o FlattenSeq(es)
    OBVIOUS
  <2>1. es # <<>>
    BY EmptySeq
  <2>2. PICK fs \in Seq(Seq(S)), c \in Seq(S) : es = Append(fs, c)
    BY <2>1, SequenceEmptyOrAppend
  <2>3. Len(fs) = n
    <3>1. Len(es) = Len(fs) + 1 /\ Len(fs) \in Nat
      BY <2>2, AppendProperties, LenProperties
    <3>. QED BY <3>1
  <2>4. FlattenSeq(cs \o fs) = FlattenSeq(cs) \o FlattenSeq(fs)
    BY <2>3
  <2>5. cs \o es = Append(cs \o fs, c) /\ cs \o fs \in Seq(Seq(S))
    <3>1. <<c>> \in Seq(Seq(S)) /\ es = fs \o <<c>>
      BY <2>2, AppendIsConcat
    <3>2. cs \o es = (cs \o fs) \o <<c>>
      BY <3>1, ConcatAssociative
    <3>3. cs \o fs \in Seq(Seq(S))
      BY ConcatProperties
    <3>4. Append(cs \o fs, c) = (cs \o fs) \o <<c>>
      BY <3>3, AppendIsConcat
    <3>. QED BY <3>2, <3>3, <3>4
  <2>6. FlattenSeq(cs \o es) = (FlattenSeq(cs) \o FlattenSeq(fs)) \o c
    <3>1. FlattenSeq(Append(cs \o fs, c)) = FlattenSeq(cs \o fs) \o c
      BY <2>5, FlattenAppend
    <3>. QED BY <2>4, <2>5, <3>1
  <2>7. FlattenSeq(es) = FlattenSeq(fs) \o c /\ FlattenSeq(cs) \in Seq(S) /\ FlattenSeq(fs) \in Seq(S)
    BY <2>2, FlattenAppend
  <2>8. (FlattenSeq(cs) \o FlattenSeq(fs)) \o c = FlattenSeq(cs) \o (FlattenSeq(fs) \o c)
    <3>1. PICK x \in Seq(S), y \in Seq(S) : x = FlattenSeq(cs) /\ y = FlattenSeq(fs)
      BY <2>7
    <3>2. (x \o y) \o c = x \o (y \o c)
      BY <1>0
    <3>. QED BY <3>1, <3>2
  <2>. QED BY <2>6, <2>7, <2>8
<1>3. Nat \subseteq T
  <2> HIDE DEF T
  <2>. QED BY <1>1, <1>2, Counting
<1>4. Len(ds) \in Nat
  BY LenProperties
<1>. QED BY <1>3, <1>4

-----------------------------------------------------------------------------
(* Text: lines, each with its end. *)

LEMMA FunctionIsSeq ==
  ASSUME NEW T, NEW n \in Nat, NEW f \in [1..n -> T]
  PROVE  f \in Seq(T)
BY SeqDef

LEMMA Concat ==
  ASSUME NEW T
  PROVE  \A a, b \in Seq(T) :
           /\ a \o b \in Seq(T) /\ Len(a \o b) = Len(a) + Len(b)
           /\ \A i \in 1..(Len(a) + Len(b)) :
                (a \o b)[i] = IF i <= Len(a) THEN a[i] ELSE b[i - Len(a)]
BY ConcatProperties

LEMMA EndedLine ==
  ASSUME NEW S, NL \in S, NEW l \in Seq(S)
  PROVE  /\ Append(l, NL) \in Seq(S) /\ Append(l, NL) # <<>>
         /\ Len(Append(l, NL)) = Len(l) + 1 /\ Len(l) \in Nat
         /\ \A i \in 1..Len(l) : Append(l, NL)[i] = l[i]
         /\ Append(l, NL)[Len(l) + 1] = NL
BY AppendProperties, LenProperties

Ended(ls) == [i \in DOMAIN ls |-> Append(ls[i], NL)]

LEMMA EndedLines ==
  ASSUME NEW S, NL \in S, NEW ls \in Seq(Seq(S))
  PROVE  /\ Ended(ls) \in Seq(Seq(S)) /\ Len(Ended(ls)) = Len(ls) /\ Len(ls) \in Nat
         /\ \A i \in 1..Len(ls) : Ended(ls)[i] = Append(ls[i], NL)
<1>1. DOMAIN ls = 1..Len(ls) /\ Len(ls) \in Nat
  BY LenProperties
<1>2. \A i \in 1..Len(ls) : Append(ls[i], NL) \in Seq(S)
  BY ElementOfSeq, EndedLine
<1>3. Ended(ls) \in [1..Len(ls) -> Seq(S)]
  BY <1>1, <1>2 DEF Ended
<1>4. Ended(ls) \in Seq(Seq(S))
  BY <1>1, <1>3, FunctionIsSeq
<1>. QED BY <1>1, <1>3, <1>4, LenProperties DEF Ended

LEMMA TextEmpty == Text(<<>>) = <<>>
<1>1. [i \in DOMAIN <<>> |-> Append(<<>>[i], NL)] = <<>>
  OBVIOUS
<1>. QED BY <1>1, FlattenEmpty DEF Text

LEMMA TextOne ==
  ASSUME NEW S, NL \in S, NEW l \in Seq(S)
  PROVE  Text(<<l>>) = Append(l, NL)
<1>1. [i \in DOMAIN <<l>> |-> Append(<<l>>[i], NL)] = <<Append(l, NL)>>
  OBVIOUS
<1>2. Append(l, NL) \in Seq(S)
  BY EndedLine
<1>. QED BY <1>1, <1>2, FlattenOne DEF Text

LEMMA TextConcat ==
  ASSUME NEW S, NL \in S, NEW ls \in Seq(Seq(S)), NEW ms \in Seq(Seq(S))
  PROVE  /\ Text(ls) \in Seq(S) /\ Text(ms) \in Seq(S) /\ Text(ls \o ms) \in Seq(S)
         /\ Text(ls \o ms) = Text(ls) \o Text(ms)
<1>1. ls \o ms \in Seq(Seq(S)) /\ Len(ls \o ms) = Len(ls) + Len(ms)
      /\ \A i \in 1..(Len(ls) + Len(ms)) : (ls \o ms)[i] = IF i <= Len(ls) THEN ls[i] ELSE ms[i - Len(ls)]
  BY ConcatProperties
<1>2. PICK a, b, c : a = Ended(ls) /\ b = Ended(ms) /\ c = Ended(ls \o ms)
  OBVIOUS
<1>3. /\ a \in Seq(Seq(S)) /\ Len(a) = Len(ls) /\ Len(ls) \in Nat
      /\ \A i \in 1..Len(ls) : a[i] = Append(ls[i], NL)
  BY <1>2, EndedLines
<1>4. /\ b \in Seq(Seq(S)) /\ Len(b) = Len(ms) /\ Len(ms) \in Nat
      /\ \A i \in 1..Len(ms) : b[i] = Append(ms[i], NL)
  BY <1>2, EndedLines
<1>5. /\ c \in Seq(Seq(S)) /\ Len(c) = Len(ls \o ms)
      /\ \A i \in 1..Len(ls \o ms) : c[i] = Append((ls \o ms)[i], NL)
  BY <1>1, <1>2, EndedLines
<1>6. /\ a \o b \in Seq(Seq(S)) /\ Len(a \o b) = Len(a) + Len(b)
      /\ \A i \in 1..(Len(a) + Len(b)) : (a \o b)[i] = IF i <= Len(a) THEN a[i] ELSE b[i - Len(a)]
  <2>1. a \in Seq(Seq(S)) /\ b \in Seq(Seq(S))
    BY <1>3, <1>4
  <2>. QED BY <2>1, Concat
<1>7. Len(c) = Len(a \o b)
  BY <1>1, <1>3, <1>4, <1>5, <1>6
<1>8. ASSUME NEW i \in 1..Len(c) PROVE c[i] = (a \o b)[i]
  <2>1. CASE i <= Len(ls)
    <3>1. i \in 1..Len(ls) /\ i \in 1..(Len(ls) + Len(ms))
      BY <1>1, <1>3, <1>4, <1>5, <2>1
    <3>2. c[i] = Append(ls[i], NL)
      BY <1>1, <1>5, <2>1, <3>1
    <3>3. (a \o b)[i] = a[i]
      BY <1>3, <1>4, <1>6, <2>1, <3>1
    <3>. QED BY <1>3, <3>1, <3>2, <3>3
  <2>2. CASE ~(i <= Len(ls))
    <3>1. i - Len(ls) \in 1..Len(ms)
      BY <1>1, <1>3, <1>4, <1>5, <2>2
    <3>2. c[i] = Append(ms[i - Len(ls)], NL)
      BY <1>1, <1>5, <2>2
    <3>3. (a \o b)[i] = b[i - Len(ls)]
      BY <1>1, <1>3, <1>4, <1>5, <1>6, <2>2
    <3>. QED BY <1>4, <3>1, <3>2, <3>3
  <2>. QED BY <2>1, <2>2
<1>9. c = a \o b
  BY <1>5, <1>6, <1>7, <1>8, SeqEqual
<1>10. FlattenSeq(a \o b) = FlattenSeq(a) \o FlattenSeq(b)
  BY <1>3, <1>4, FlattenConcat
<1>11. FlattenSeq(a) \in Seq(S) /\ FlattenSeq(b) \in Seq(S) /\ FlattenSeq(a \o b) \in Seq(S)
  BY <1>3, <1>4, <1>6, FlattenAppend, EmptySeq
<1>12. Text(ls) = FlattenSeq(a) /\ Text(ms) = FlattenSeq(b) /\ Text(ls \o ms) = FlattenSeq(c)
  BY <1>2 DEF Text, Ended
<1>. QED BY <1>9, <1>10, <1>11, <1>12

LEMMA TextAppend ==
  ASSUME NEW S, NL \in S, NEW ls \in Seq(Seq(S)), NEW l \in Seq(S)
  PROVE  Text(Append(ls, l)) = Text(ls) \o Append(l, NL)
<1>1. <<l>> \in Seq(Seq(S)) /\ Append(ls, l) = ls \o <<l>>
  BY AppendIsConcat
<1>2. Text(ls \o <<l>>) = Text(ls) \o Text(<<l>>)
  BY <1>1, TextConcat
<1>3. Text(<<l>>) = Append(l, NL)
  BY TextOne
<1>. QED BY <1>1, <1>2, <1>3

(* The lines from the k-th on. *)
From(ls, k) == SubSeq(ls, k, Len(ls))

LEMMA FromNext ==
  ASSUME NEW S, NEW ls \in Seq(S), NEW k \in 1..Len(ls)
  PROVE  From(ls, k) = <<ls[k]>> \o From(ls, k + 1)
<1>1. Len(ls) \in Nat /\ Len(ls) \in k..Len(ls)
  BY LenProperties
<1>. QED BY <1>1, SubSeqRecursiveFirst DEF From

LEMMA FromType ==
  ASSUME NEW S, NEW ls \in Seq(S), NEW k \in Nat \ {0}
  PROVE  /\ From(ls, k) \in Seq(S)
         /\ Len(From(ls, k)) = IF k <= Len(ls) THEN Len(ls) - k + 1 ELSE 0
         /\ k > Len(ls) => From(ls, k) = <<>>
         /\ \A i \in 1..(Len(ls) - k + 1) : From(ls, k)[i] = ls[k + i - 1]
<1>1. Len(ls) \in Nat
  BY LenProperties
<1>2. \A i \in k..Len(ls) : i \in 1..Len(ls)
  BY <1>1
<1>3. \A i \in k..Len(ls) : ls[i] \in S
  BY <1>2, ElementOfSeq
<1>4. k \in Int /\ Len(ls) \in Int
  BY <1>1
<1>5. k > Len(ls) => Len(ls) < k
  BY <1>4
<1>. QED BY <1>3, <1>4, <1>5, SubSeqProperties, SubSeqEmpty DEF From

LEMMA TextFrom ==
  ASSUME NEW S, NL \in S, NEW ls \in Seq(Seq(S)), NEW k \in 1..Len(ls)
  PROVE  Text(From(ls, k)) = Append(ls[k], NL) \o Text(From(ls, k + 1))
<1>1. From(ls, k) = <<ls[k]>> \o From(ls, k + 1)
  BY FromNext
<1>2. From(ls, k + 1) \in Seq(Seq(S)) /\ ls[k] \in Seq(S)
  <2>1. Len(ls) \in Nat
    BY LenProperties
  <2>2. k + 1 \in Nat \ {0}
    BY <2>1
  <2>. QED BY <2>2, FromType, ElementOfSeq
<1>3. <<ls[k]>> \in Seq(Seq(S))
  BY <1>2
<1>4. Text(<<ls[k]>>) = Append(ls[k], NL)
  BY <1>2, TextOne
<1>. QED BY <1>1, <1>2, <1>3, <1>4, TextConcat

LEMMA UpTo ==
  ASSUME NEW S, NEW ls \in Seq(S), NEW k \in 1..Len(ls)
  PROVE  /\ SubSeq(ls, 1, k) \in Seq(S) /\ SubSeq(ls, 1, k - 1) \in Seq(S) /\ ls[k] \in S
         /\ Len(SubSeq(ls, 1, k)) = k
         /\ SubSeq(ls, 1, k) = Append(SubSeq(ls, 1, k - 1), ls[k])
<1>1. Len(ls) \in Nat /\ 1 \in 1..Len(ls) /\ k \in 1..Len(ls) /\ 1 \in Int /\ k \in Int /\ k - 1 \in Int
  BY LenProperties
<1>2. \A i \in 1..k : i \in 1..Len(ls)
  BY <1>1
<1>3. \A i \in 1..k : ls[i] \in S
  BY <1>2, ElementOfSeq
<1>4. \A i \in 1..(k - 1) : i \in 1..k
  BY <1>1
<1>5. /\ SubSeq(ls, 1, k) \in Seq(S) /\ Len(SubSeq(ls, 1, k)) = IF 1 <= k THEN k - 1 + 1 ELSE 0
  BY <1>1, <1>3, SubSeqProperties
<1>6. SubSeq(ls, 1, k - 1) \in Seq(S)
  BY <1>1, <1>3, <1>4, SubSeqProperties
<1>7. SubSeq(ls, 1, k) = SubSeq(ls, 1, k - 1) \o <<ls[k]>>
  BY <1>1, SubSeqRecursiveSecond
<1>8. ls[k] \in S
  BY ElementOfSeq
<1>9. Append(SubSeq(ls, 1, k - 1), ls[k]) = SubSeq(ls, 1, k - 1) \o <<ls[k]>>
  BY <1>6, <1>8, AppendIsConcat
<1>10. Len(SubSeq(ls, 1, k)) = k
  BY <1>1, <1>5
<1>. QED BY <1>5, <1>6, <1>7, <1>8, <1>9, <1>10

-----------------------------------------------------------------------------
(* Reading lines: what a text written from lines is taken for. *)

LEMMA TheOne == ASSUME NEW v PROVE (CHOOSE y \in {v} : TRUE) = v
OBVIOUS

Ends(s)     == {0} \cup {i \in DOMAIN s : s[i] = NL}
Below(s, e) == {x \in Ends(s) : x < e}
Start(s, k) == CHOOSE e \in Ends(s) : Cardinality(Below(s, e)) = k - 1

LEMMA LinesIs ==
  ASSUME NEW s
  PROVE  Lines(s) = [k \in 1..(Cardinality(Ends(s)) - 1) |->
                       SubSeq(s, Start(s, k) + 1, Start(s, k + 1) - 1)]
<1> DEFINE F(ends) ==
      LET start(k) == CHOOSE e \in ends : Cardinality({x \in ends : x < e}) = k - 1
      IN  [k \in 1..(Cardinality(ends) - 1) |-> SubSeq(s, start(k) + 1, start(k + 1) - 1)]
<1>1. PICK e : e = {0} \cup {i \in DOMAIN s : s[i] = NL}
  OBVIOUS
<1>2. Lines(s) = CHOOSE y \in {F(z) : z \in {e}} : TRUE
  BY <1>1 DEF Lines, With
<1>3. F(e) = [k \in 1..(Cardinality(Ends(s)) - 1) |->
                       SubSeq(s, Start(s, k) + 1, Start(s, k + 1) - 1)]
  BY <1>1 DEF Ends, Start, Below
<1> HIDE DEF F
<1>4. {F(z) : z \in {e}} = {F(e)}
  OBVIOUS
<1>5. Lines(s) = F(e)
  BY <1>2, <1>4, TheOne
<1>. QED BY <1>3, <1>5

(* Line ends up to the end of a text. *)
LEMMA EndsFinite ==
  ASSUME NEW S, NEW s \in Seq(S)
  PROVE  /\ Ends(s) \subseteq 0..Len(s) /\ IsFiniteSet(Ends(s))
         /\ \A e : IsFiniteSet(Below(s, e)) /\ Cardinality(Below(s, e)) \in Nat
         /\ Cardinality(Ends(s)) \in Nat
<1>1. DOMAIN s = 1..Len(s) /\ Len(s) \in Nat
  BY LenProperties
<1>2. Ends(s) \subseteq 0..Len(s)
  BY <1>1 DEF Ends
<1>3. IsFiniteSet(0..Len(s))
  BY <1>1, FS_Interval
<1>4. IsFiniteSet(Ends(s))
  BY <1>2, <1>3, FS_Subset
<1>5. \A e : IsFiniteSet(Below(s, e))
  <2> TAKE e
  <2>1. Below(s, e) \subseteq Ends(s)
    BY DEF Below
  <2>. QED BY <1>4, <2>1, FS_Subset
<1>. QED BY <1>2, <1>4, <1>5, FS_CardinalityType

LEMMA StartIs ==
  ASSUME NEW S, NEW s \in Seq(S), NEW e \in Ends(s)
  PROVE  Start(s, Cardinality(Below(s, e)) + 1) = e
<1>1. \A d : IsFiniteSet(Below(s, d)) /\ Cardinality(Below(s, d)) \in Nat
  BY EndsFinite
<1>2. Ends(s) \subseteq Int
  <2>1. Len(s) \in Nat /\ Ends(s) \subseteq 0..Len(s)
    BY LenProperties, EndsFinite
  <2>. QED BY <2>1
<1>3. ASSUME NEW c \in Ends(s), NEW d \in Ends(s), c < d
      PROVE  Cardinality(Below(s, c)) < Cardinality(Below(s, d))
  <2>1. Below(s, c) \subseteq Below(s, d) /\ c \in Below(s, d) /\ c \notin Below(s, c)
    BY <1>2, <1>3 DEF Below
  <2>2. Below(s, c) # Below(s, d)
    BY <2>1
  <2>3. Cardinality(Below(s, c)) <= Cardinality(Below(s, d))
        /\ (Cardinality(Below(s, c)) = Cardinality(Below(s, d)) => Below(s, c) = Below(s, d))
    BY <1>1, <2>1, FS_Subset
  <2>. QED BY <1>1, <2>2, <2>3
<1>4. \A c, d \in Ends(s) : Cardinality(Below(s, c)) = Cardinality(Below(s, d)) => c = d
  <2> SUFFICES ASSUME NEW c \in Ends(s), NEW d \in Ends(s), c # d
               PROVE  Cardinality(Below(s, c)) # Cardinality(Below(s, d))
    OBVIOUS
  <2>1. c < d \/ d < c
    BY <1>2
  <2>2. Cardinality(Below(s, c)) \in Nat /\ Cardinality(Below(s, d)) \in Nat
    BY <1>1
  <2>. QED BY <1>3, <2>1, <2>2
<1>5. PICK n : n = Cardinality(Below(s, e)) /\ n \in Nat
  BY <1>1
<1>6. (n + 1) - 1 = n
  BY <1>5
<1>7. Start(s, n + 1) = CHOOSE d \in Ends(s) : Cardinality(Below(s, d)) = n
  BY <1>6 DEF Start
<1>8. \A d \in Ends(s) : Cardinality(Below(s, d)) = n => d = e
  BY <1>4, <1>5
<1>9. (CHOOSE d \in Ends(s) : Cardinality(Below(s, d)) = n) = e
  BY <1>5, <1>8
<1>. QED BY <1>5, <1>7, <1>9

(* The lines ls stand in s one behind the other, the k-th of them up to place
   p[k]. *)
Standing(s, ls, p) ==
  /\ p \in [0..Len(ls) -> 0..Len(s)] /\ p[0] = 0
  /\ \A k \in 1..Len(ls) :
       /\ p[k] = p[k - 1] + Len(ls[k]) + 1 /\ s[p[k]] = NL
       /\ \A i \in 1..Len(ls[k]) : s[p[k - 1] + i] = ls[k][i] /\ ls[k][i] # NL

LEMMA StandingEnds ==
  ASSUME NEW S, NEW s \in Seq(S), NEW ls \in Seq(Seq(S)), NEW p, Standing(s, ls, p)
  PROVE  \A k \in 0..Len(ls) : p[k] \in Ends(s) /\ Cardinality(Below(s, p[k])) = k
<1>1. /\ Len(ls) \in Nat /\ Len(s) \in Nat /\ DOMAIN s = 1..Len(s)
      /\ Ends(s) \subseteq 0..Len(s) /\ \A e : IsFiniteSet(Below(s, e))
  BY LenProperties, EndsFinite
<1> DEFINE T == {k \in Nat : k <= Len(ls) => p[k] \in Ends(s) /\ Cardinality(Below(s, p[k])) = k}
<1>2. 0 \in T
  <2>1. p[0] = 0 /\ 0 \in Ends(s)
    BY DEF Standing, Ends
  <2>2. Below(s, 0) = {}
    BY <1>1 DEF Below
  <2>3. Cardinality({}) = 0
    BY FS_EmptySet
  <2>. QED BY <2>1, <2>2, <2>3
<1>3. ASSUME NEW k \in T PROVE k + 1 \in T
  <2> SUFFICES ASSUME k + 1 <= Len(ls)
               PROVE  p[k + 1] \in Ends(s) /\ Cardinality(Below(s, p[k + 1])) = k + 1
    OBVIOUS
  <2>1. k + 1 \in 1..Len(ls) /\ (k + 1) - 1 = k /\ k \in 0..Len(ls) /\ k + 1 \in 0..Len(ls)
    BY <1>1
  <2>2. /\ p[k + 1] = p[k] + Len(ls[k + 1]) + 1 /\ s[p[k + 1]] = NL
        /\ \A i \in 1..Len(ls[k + 1]) : s[p[k] + i] = ls[k + 1][i] /\ ls[k + 1][i] # NL
    BY <2>1 DEF Standing
  <2>3. p[k] \in 0..Len(s) /\ p[k + 1] \in 0..Len(s)
    BY <2>1 DEF Standing
  <2>4. ls[k + 1] \in Seq(S) /\ Len(ls[k + 1]) \in Nat
    BY <2>1, ElementOfSeq, LenProperties
  <2>5. p[k] \in Ends(s) /\ Cardinality(Below(s, p[k])) = k
    BY <1>1, <2>1
  <2>6. p[k + 1] \in Ends(s)
    BY <1>1, <2>2, <2>3, <2>4 DEF Ends
  <2>7. PICK a, b : a = p[k] /\ b = p[k + 1]
    OBVIOUS
  <2>8. a \in Nat /\ b \in Nat /\ b = a + Len(ls[k + 1]) + 1
    BY <1>1, <2>2, <2>3, <2>7
  <2>9. ASSUME NEW x \in Ends(s), a < x, x < b PROVE FALSE
    <3>1. x \in 0..Len(s) /\ x \in DOMAIN s /\ s[x] = NL
      BY <1>1, <2>8, <2>9 DEF Ends
    <3>2. PICK m : m = Len(ls[k + 1])
      OBVIOUS
    <3>3. m \in Nat /\ x \in Nat /\ b = a + m + 1
      BY <1>1, <2>4, <2>8, <3>1, <3>2
    <3>4. x - a \in 1..m /\ a + (x - a) = x
      BY <2>8, <2>9, <3>3
    <3>. QED BY <2>2, <2>7, <3>1, <3>2, <3>4
  <2>10. Below(s, b) = Below(s, a) \cup {a}
    <3>1. Ends(s) \subseteq Int
      BY <1>1
    <3>2. ASSUME NEW x \in Ends(s) PROVE x < b <=> x < a \/ x = a
      BY <2>4, <2>8, <2>9, <3>1
    <3>. QED BY <2>5, <2>7, <3>2 DEF Below
  <2>11. a \notin Below(s, a)
    BY <2>8 DEF Below
  <2>12. Cardinality(Below(s, b)) = Cardinality(Below(s, a)) + 1
    BY <1>1, <2>10, <2>11, FS_AddElement
  <2>. QED BY <2>5, <2>6, <2>7, <2>12
<1>4. Nat \subseteq T
  <2> HIDE DEF T
  <2>. QED BY <1>2, <1>3, Counting
<1>5. \A k \in 0..Len(ls) : k \in Nat /\ k <= Len(ls)
  BY <1>1
<1>. QED BY <1>4, <1>5

LEMMA StandingLines ==
  ASSUME NEW S, NEW s \in Seq(S), NEW ls \in Seq(Seq(S)), NEW p, Standing(s, ls, p)
  PROVE  /\ Len(Lines(s)) \in Nat /\ DOMAIN Lines(s) = 1..Len(Lines(s)) /\ Len(Lines(s)) >= Len(ls)
         /\ \A k \in 1..Len(ls) : Lines(s)[k] = ls[k]
<1>1. /\ Len(ls) \in Nat /\ Len(s) \in Nat
      /\ Ends(s) \subseteq 0..Len(s) /\ \A e : IsFiniteSet(Below(s, e)) /\ Cardinality(Below(s, e)) \in Nat
      /\ IsFiniteSet(Ends(s)) /\ Cardinality(Ends(s)) \in Nat
  BY LenProperties, EndsFinite
<1>2. \A k \in 0..Len(ls) : p[k] \in Ends(s) /\ Cardinality(Below(s, p[k])) = k
  BY StandingEnds
<1>3. \A k \in 0..Len(ls) : Start(s, k + 1) = p[k]
  BY <1>2, StartIs
<1>4. Cardinality(Ends(s)) >= Len(ls) + 1
  <2>1. PICK n : n = Len(ls) /\ n \in 0..Len(ls) /\ n \in Nat
    BY <1>1
  <2>2. PICK e : e = p[n] /\ e \in Ends(s) /\ Cardinality(Below(s, e)) = n
    BY <1>2, <2>1
  <2>3. Below(s, e) \subseteq Ends(s) /\ e \notin Below(s, e) /\ e \in Int
    BY <1>1, <2>2 DEF Below
  <2>4. Below(s, e) # Ends(s)
    BY <2>2, <2>3
  <2>5. Cardinality(Below(s, e)) <= Cardinality(Ends(s))
        /\ (Cardinality(Below(s, e)) = Cardinality(Ends(s)) => Below(s, e) = Ends(s))
    BY <1>1, <2>3, FS_Subset
  <2>. QED BY <1>1, <2>1, <2>2, <2>4, <2>5
<1>5. PICK n : n = Cardinality(Ends(s)) - 1
  OBVIOUS
<1>6. n \in Nat /\ n >= Len(ls)
  BY <1>1, <1>4, <1>5
<1>7. Lines(s) = [k \in 1..n |-> SubSeq(s, Start(s, k) + 1, Start(s, k + 1) - 1)]
  BY <1>5, LinesIs
<1>8. Len(Lines(s)) = n /\ DOMAIN Lines(s) = 1..n
  BY <1>6, <1>7
<1>9. ASSUME NEW k \in 1..Len(ls) PROVE Lines(s)[k] = ls[k]
  <2>1. k \in 1..n /\ k \in 0..Len(ls) /\ k - 1 \in 0..Len(ls) /\ (k - 1) + 1 = k
    BY <1>1, <1>6
  <2>2. Start(s, k) = p[k - 1] /\ Start(s, k + 1) = p[k]
    BY <1>3, <2>1
  <2>3. Lines(s)[k] = SubSeq(s, p[k - 1] + 1, p[k] - 1)
    BY <1>7, <2>1, <2>2
  <2>4. /\ p[k] = p[k - 1] + Len(ls[k]) + 1 /\ p[k - 1] \in 0..Len(s) /\ p[k] \in 0..Len(s)
        /\ \A i \in 1..Len(ls[k]) : s[p[k - 1] + i] = ls[k][i]
    BY <2>1 DEF Standing
  <2>5. PICK a, m : a = p[k - 1] /\ m = Len(ls[k])
    OBVIOUS
  <2>6. ls[k] \in Seq(S) /\ m \in Nat /\ a \in Nat /\ a + m + 1 <= Len(s) /\ p[k] - 1 = a + m
    BY <1>1, <2>4, <2>5, ElementOfSeq, LenProperties
  <2>7. \A i \in (a + 1)..(a + m) : i \in 1..Len(s)
    BY <1>1, <2>6
  <2>8. \A i \in (a + 1)..(a + m) : s[i] \in S
    BY <2>7, ElementOfSeq
  <2>9. PICK u, v : u = a + 1 /\ v = a + m
    OBVIOUS
  <2>10. PICK q : q = SubSeq(s, u, v)
    OBVIOUS
  <2>11. /\ q \in Seq(S) /\ Len(q) = IF u <= v THEN v - u + 1 ELSE 0
         /\ \A i \in 1..(v - u + 1) : q[i] = s[u + i - 1]
    <3>1. u \in Int /\ v \in Int
      BY <2>6, <2>9
    <3>2. \A i \in u..v : s[i] \in S
      BY <2>8, <2>9
    <3>. QED BY <2>10, <3>1, <3>2, SubSeqProperties
  <2>12. Len(q) = m /\ v - u + 1 = m
    BY <2>6, <2>9, <2>11
  <2>13. \A i \in 1..m : q[i] = s[a + i]
    <3>1. \A i \in 1..m : u + i - 1 = a + i
      BY <2>6, <2>9
    <3>. QED BY <2>11, <2>12, <3>1
  <2>14. \A i \in 1..Len(q) : q[i] = ls[k][i]
    BY <2>4, <2>5, <2>12, <2>13
  <2>15. q = ls[k]
    BY <2>5, <2>6, <2>11, <2>12, <2>14, SeqEqual
  <2>. QED BY <2>3, <2>5, <2>6, <2>9, <2>10, <2>15
<1>. QED BY <1>6, <1>8, <1>9

-----------------------------------------------------------------------------
(* Lines of symbols, as they may be written. *)
Texts == Seq(Symbol)
IsLines(ls) == ls \in Seq(Texts) /\ \A k \in 1..Len(ls) : IsLine(ls[k])

LEMMA Marks == NL \in Symbol /\ CR \in Symbol
BY SymbolAssumption

LEMMA TextsAre ==
  /\ <<>> \in Texts
  /\ \A x, y \in Texts : x \o y \in Texts /\ Len(x \o y) = Len(x) + Len(y)
  /\ \A x \in Texts : Append(x, NL) \in Texts /\ Len(x) \in Nat /\ Len(Append(x, NL)) = Len(x) + 1
  /\ \A x, y, z \in Texts : (x \o y) \o z = x \o (y \o z)
<1>1. <<>> \in Texts
  BY EmptySeq DEF Texts
<1>2. \A x, y \in Texts : x \o y \in Texts /\ Len(x \o y) = Len(x) + Len(y)
  BY ConcatProperties DEF Texts
<1>3. \A x \in Texts : Append(x, NL) \in Texts /\ Len(x) \in Nat /\ Len(Append(x, NL)) = Len(x) + 1
  BY Marks, AppendProperties, LenProperties DEF Texts
<1>4. \A x, y, z \in Texts : (x \o y) \o z = x \o (y \o z)
  BY ConcatAssociative DEF Texts
<1>. QED BY <1>1, <1>2, <1>3, <1>4

LEMMA Regroup ==
  ASSUME NEW x \in Texts, NEW y \in Texts, NEW z \in Texts
  PROVE  (x \o y) \o z = x \o (y \o z)
BY TextsAre

LEMMA SetOf ==
  ASSUME NEW S, NEW s \in Seq(S)
  PROVE  ToSet(s) = {s[i] : i \in 1..Len(s)}
BY LenProperties DEF ToSet

LEMMA SplitAt ==
  ASSUME NEW ls \in Seq(Texts), NEW k \in 1..Len(ls)
  PROVE  /\ SubSeq(ls, 1, k - 1) \in Seq(Texts) /\ From(ls, k + 1) \in Seq(Texts)
         /\ Text(ls) = Text(SubSeq(ls, 1, k - 1)) \o (Append(ls[k], NL) \o Text(From(ls, k + 1)))
<1>1. Len(ls) \in Nat /\ NL \in Symbol
  BY LenProperties, Marks
<1>2. k - 1 \in (1 - 1)..Len(ls) /\ 1 \in 1..(Len(ls) + 1) /\ Len(ls) \in (k - 1)..Len(ls)
      /\ (k - 1) + 1 = k /\ k \in Nat \ {0} /\ k + 1 \in Nat \ {0}
  BY <1>1
<1>3. SubSeq(ls, 1, k - 1) \o SubSeq(ls, (k - 1) + 1, Len(ls)) = SubSeq(ls, 1, Len(ls))
  BY <1>2, ConcatAdjacentSubSeq
<1>4. SubSeq(ls, 1, k - 1) \in Seq(Texts)
  BY UpTo
<1>5. From(ls, k) \in Seq(Texts) /\ From(ls, k + 1) \in Seq(Texts)
  BY <1>2, FromType
<1>6. ls = SubSeq(ls, 1, k - 1) \o From(ls, k)
  BY <1>2, <1>3, SubSeqFull DEF From
<1>7. Text(SubSeq(ls, 1, k - 1) \o From(ls, k)) = Text(SubSeq(ls, 1, k - 1)) \o Text(From(ls, k))
  BY <1>1, <1>4, <1>5, TextConcat DEF Texts
<1>8. Text(From(ls, k)) = Append(ls[k], NL) \o Text(From(ls, k + 1))
  BY <1>1, TextFrom DEF Texts
<1>. QED BY <1>4, <1>5, <1>6, <1>7, <1>8

(* A line between two texts. *)
LEMMA Middle ==
  ASSUME NEW a \in Texts, NEW l \in Texts, NEW c \in Texts, NEW s,
         s = a \o (Append(l, NL) \o c)
  PROVE  /\ s \in Texts /\ Len(s) \in Nat /\ Len(a) \in Nat /\ Len(l) \in Nat
         /\ Len(s) = Len(a) + Len(l) + 1 + Len(c)
         /\ Len(s) >= Len(a) + Len(l) + 1
         /\ s[Len(a) + Len(l) + 1] = NL
         /\ \A i \in 1..Len(l) : s[Len(a) + i] = l[i]
<1>1. PICK e, f : e = Append(l, NL) /\ f = e \o c
  OBVIOUS
<1>2. /\ e \in Texts /\ Len(e) = Len(l) + 1 /\ Len(l) \in Nat /\ Len(a) \in Nat /\ Len(c) \in Nat
      /\ \A i \in 1..Len(l) : e[i] = l[i]
      /\ e[Len(l) + 1] = NL
  BY <1>1, AppendProperties, LenProperties, Marks DEF Texts
<1>3. /\ f \in Texts /\ Len(f) = Len(e) + Len(c)
      /\ \A i \in 1..(Len(e) + Len(c)) : f[i] = IF i <= Len(e) THEN e[i] ELSE c[i - Len(e)]
  BY <1>1, <1>2, ConcatProperties DEF Texts
<1>4. /\ s \in Texts /\ Len(s) = Len(a) + Len(f)
      /\ \A i \in 1..(Len(a) + Len(f)) : s[i] = IF i <= Len(a) THEN a[i] ELSE f[i - Len(a)]
  <2>1. s = a \o f /\ a \in Seq(Symbol) /\ f \in Seq(Symbol)
    BY <1>1, <1>3 DEF Texts
  <2>. QED BY <2>1, ConcatProperties DEF Texts
<1>5. ASSUME NEW i \in 1..Len(l) PROVE s[Len(a) + i] = l[i]
  <2>1. Len(a) + i \in 1..(Len(a) + Len(f)) /\ ~(Len(a) + i <= Len(a)) /\ (Len(a) + i) - Len(a) = i
    BY <1>2, <1>3
  <2>2. i \in 1..(Len(e) + Len(c)) /\ i <= Len(e)
    BY <1>2
  <2>3. s[Len(a) + i] = f[i]
    BY <1>4, <2>1
  <2>. QED BY <1>2, <1>3, <2>2, <2>3
<1>6. s[Len(a) + Len(l) + 1] = NL
  <2>1. PICK n : n = Len(l) + 1 /\ n = Len(e)
    BY <1>2
  <2>2. n \in 1..(Len(e) + Len(c)) /\ n <= Len(e)
    BY <1>2, <2>1
  <2>3. f[n] = NL
    BY <1>2, <1>3, <2>1, <2>2
  <2>4. Len(a) + n \in 1..(Len(a) + Len(f)) /\ ~(Len(a) + n <= Len(a)) /\ (Len(a) + n) - Len(a) = n
        /\ Len(a) + Len(l) + 1 = Len(a) + n
    BY <1>2, <1>3, <2>1
  <2>. QED BY <1>4, <2>3, <2>4
<1>7. Len(s) = Len(a) + Len(l) + 1 + Len(c) /\ Len(s) >= Len(a) + Len(l) + 1 /\ Len(s) \in Nat
  BY <1>2, <1>3, <1>4
<1>. QED BY <1>2, <1>4, <1>5, <1>6, <1>7

LEMMA TextStanding ==
  ASSUME NEW ls, IsLines(ls), NEW w \in Texts
  PROVE  /\ Text(ls) \o w \in Texts
         /\ \E p : Standing(Text(ls) \o w, ls, p)
<1>1. ls \in Seq(Texts) /\ Len(ls) \in Nat /\ NL \in Symbol
  BY LenProperties, Marks DEF IsLines
<1>2. PICK s : s = Text(ls) \o w
  OBVIOUS
<1>3. s \in Texts /\ Text(ls) \in Texts
  <2>1. Text(ls) \in Texts
    BY <1>1, TextConcat DEF Texts
  <2>. QED BY <1>2, <2>1, ConcatProperties DEF Texts
<1> DEFINE q == [k \in 0..Len(ls) |-> Len(Text(SubSeq(ls, 1, k)))]
<1>4. q[0] = 0
  <2>1. SubSeq(ls, 1, 0) = <<>>
    BY SubSeqEmpty
  <2>2. 0 \in 0..Len(ls)
    BY <1>1
  <2>3. Text(<<>>) = <<>> /\ Len(<<>>) = 0
    BY TextEmpty, EmptySeq
  <2>. QED BY <2>1, <2>2, <2>3
<1>5. ASSUME NEW k \in 1..Len(ls)
      PROVE  /\ q[k] = q[k - 1] + Len(ls[k]) + 1 /\ s[q[k]] = NL /\ q[k] \in 0..Len(s)
             /\ \A i \in 1..Len(ls[k]) : s[q[k - 1] + i] = ls[k][i] /\ ls[k][i] # NL
  <2>1. /\ SubSeq(ls, 1, k - 1) \in Seq(Texts) /\ From(ls, k + 1) \in Seq(Texts)
        /\ Text(ls) = Text(SubSeq(ls, 1, k - 1)) \o (Append(ls[k], NL) \o Text(From(ls, k + 1)))
    BY <1>1, SplitAt
  <2>2. PICK a, c, l : a = Text(SubSeq(ls, 1, k - 1)) /\ c = Text(From(ls, k + 1)) /\ l = ls[k]
    OBVIOUS
  <2>3. a \in Texts /\ c \in Texts /\ l \in Texts
    <3>1. l \in Texts
      BY <1>1, <2>2, ElementOfSeq
    <3>. QED BY <1>1, <2>1, <2>2, <3>1, TextConcat DEF Texts
  <2>4. s = a \o (Append(l, NL) \o (c \o w))
    <3>1. PICK e : e = Append(l, NL) /\ e \in Texts
      BY <1>1, <2>3, AppendProperties DEF Texts
    <3>2. e \o c \in Texts
      BY <2>3, <3>1, ConcatProperties DEF Texts
    <3>3. PICK f : f = e \o c
      OBVIOUS
    <3>4. s = (a \o f) \o w
      BY <1>2, <2>1, <2>2, <3>1, <3>3
    <3>5. (a \o f) \o w = a \o (f \o w)
      BY <2>3, <3>2, <3>3, Regroup, ZenonT(60)
    <3>6. (e \o c) \o w = e \o (c \o w)
      BY <2>3, <3>1, Regroup
    <3>. QED BY <3>1, <3>3, <3>4, <3>5, <3>6
  <2>5. c \o w \in Texts
    BY <2>3, ConcatProperties DEF Texts
  <2>6. /\ Len(s) \in Nat /\ Len(a) \in Nat /\ Len(l) \in Nat
        /\ Len(s) >= Len(a) + Len(l) + 1
        /\ s[Len(a) + Len(l) + 1] = NL
        /\ \A i \in 1..Len(l) : s[Len(a) + i] = l[i]
    BY <2>3, <2>4, <2>5, Middle
  <2>7. q[k - 1] = Len(a)
    BY <1>1, <2>2
  <2>8. q[k] = Len(a) + Len(l) + 1
    <3>1. SubSeq(ls, 1, k) = Append(SubSeq(ls, 1, k - 1), ls[k])
      BY <1>1, UpTo
    <3>2. Text(SubSeq(ls, 1, k)) = a \o Append(l, NL)
      BY <1>1, <2>1, <2>2, <2>3, <3>1, TextAppend DEF Texts
    <3>3. Append(l, NL) \in Texts /\ Len(Append(l, NL)) = Len(l) + 1
      BY <1>1, <2>3, AppendProperties DEF Texts
    <3>4. Len(a \o Append(l, NL)) = Len(a) + Len(Append(l, NL))
      BY <2>3, <3>3, ConcatProperties DEF Texts
    <3>5. q[k] = Len(Text(SubSeq(ls, 1, k)))
      BY <1>1
    <3>. QED BY <2>6, <3>2, <3>3, <3>4, <3>5
  <2>9. \A i \in 1..Len(l) : l[i] # NL
    <3>1. NL \notin ToSet(l)
      BY <2>2 DEF IsLines, IsLine
    <3>. QED BY <2>3, <3>1, SetOf DEF Texts
  <2>10. q[k] = q[k - 1] + Len(l) + 1 /\ q[k] = Len(a) + Len(l) + 1
    BY <2>7, <2>8
  <2>11. q[k] \in 0..Len(s)
    BY <2>6, <2>10
  <2> HIDE DEF q
  <2>. QED BY <2>2, <2>6, <2>7, <2>9, <2>10, <2>11
<1>6. q \in [0..Len(ls) -> 0..Len(s)]
  <2>1. 0 \in 0..Len(s)
    BY <1>3, LenProperties DEF Texts
  <2>2. \A k \in 0..Len(ls) : k = 0 \/ k \in 1..Len(ls)
    BY <1>1
  <2>3. \A k \in 0..Len(ls) : q[k] \in 0..Len(s)
    BY <1>4, <1>5, <2>1, <2>2
  <2>4. q = [k \in 0..Len(ls) |-> q[k]]
    OBVIOUS
  <2> HIDE DEF q
  <2>. QED BY <2>3, <2>4
<1> HIDE DEF q
<1>7. Standing(s, ls, q)
  BY <1>4, <1>5, <1>6 DEF Standing
<1>. QED BY <1>2, <1>3, <1>7

(* The lines found in a text that begins with lines. *)
LEMMA LinesOfText ==
  ASSUME NEW ls, IsLines(ls), NEW w \in Texts
  PROVE  /\ Len(Lines(Text(ls) \o w)) \in Nat
         /\ DOMAIN Lines(Text(ls) \o w) = 1..Len(Lines(Text(ls) \o w))
         /\ Len(Lines(Text(ls) \o w)) >= Len(ls)
         /\ \A k \in 1..Len(ls) : Lines(Text(ls) \o w)[k] = ls[k]
<1>1. PICK s : s = Text(ls) \o w
  OBVIOUS
<1>2. PICK p : Standing(s, ls, p)
  BY <1>1, TextStanding
<1>3. s \in Seq(Symbol) /\ ls \in Seq(Seq(Symbol))
  BY <1>1, TextStanding DEF IsLines, Texts
<1>4. /\ Len(Lines(s)) \in Nat /\ DOMAIN Lines(s) = 1..Len(Lines(s)) /\ Len(Lines(s)) >= Len(ls)
      /\ \A k \in 1..Len(ls) : Lines(s)[k] = ls[k]
  BY <1>2, <1>3, StandingLines
<1>. QED BY <1>1, <1>4

-----------------------------------------------------------------------------
(* The attachments of a text. *)

LEMMA NumberIs ==
  ASSUME NEW n \in 0..9
  PROVE  /\ IsNumber(Number(n)) /\ Value(Number(n)) = n
         /\ IsLine(Number(n)) /\ Len(Number(n)) = 1 /\ Number(n)[1] # CR /\ Number(n) # <<>>
<1>1. \A k \in 0..9 : Digits[k + 1] = Digits[n + 1] => k = n
  BY DEF Digits
<1>2. \A k \in 0..9 : Number(k) = Number(n) => k = n
  BY <1>1 DEF Number
<1>3. IsNumber(Number(n)) /\ Value(Number(n)) = n
  BY <1>2 DEF IsNumber, Value
<1>4. Digits[n + 1] \in Symbol /\ Digits[n + 1] # NL /\ Digits[n + 1] # CR
  <2>1. Digits[n + 1] \in ToSet(Digits)
    BY DEF Digits, ToSet
  <2>2. Digits[n + 1] # NL /\ Digits[n + 1] # CR
    BY DEF Digits, NL, CR
  <2>. QED BY <2>1, <2>2, SymbolAssumption
<1>5. PICK d : d = Digits[n + 1]
  OBVIOUS
<1>6. Number(n) = <<d>> /\ d \in Symbol /\ d # NL /\ d # CR
  BY <1>4, <1>5 DEF Number
<1>7. <<d>> \in Seq(Symbol) /\ NL \notin ToSet(<<d>>) /\ Len(<<d>>) = 1 /\ <<d>>[1] = d /\ <<d>> # <<>>
  BY <1>6 DEF ToSet
<1>. QED BY <1>3, <1>6, <1>7 DEF IsLine

ReadsFiles(f, b, n) ==
  f = [k \in 0..n |-> IF k = 0 THEN [ok |-> TRUE, rest |-> b, list |-> <<>>]
                      ELSE With(f[k - 1], OneMore)]

LEMMA ReadExists ==
  ASSUME NEW b, NEW n \in Nat
  PROVE  \E f : ReadsFiles(f, b, n)
<1> DEFINE T == {k \in Nat : \E f : ReadsFiles(f, b, k)}
<1>1. 0 \in T
  <2>1. PICK f : f = [k \in 0..0 |-> [ok |-> TRUE, rest |-> b, list |-> <<>>]]
    OBVIOUS
  <2>2. ReadsFiles(f, b, 0)
    BY <2>1 DEF ReadsFiles
  <2>. QED BY <2>2
<1>2. ASSUME NEW k \in T PROVE k + 1 \in T
  <2>1. PICK g : ReadsFiles(g, b, k)
    OBVIOUS
  <2>2. PICK h : h = [i \in 0..(k + 1) |-> IF i = k + 1 THEN With(g[k], OneMore) ELSE g[i]]
    OBVIOUS
  <2>3. ASSUME NEW i \in 0..(k + 1)
        PROVE  h[i] = IF i = 0 THEN [ok |-> TRUE, rest |-> b, list |-> <<>>] ELSE With(h[i - 1], OneMore)
    <3>1. i # 0 => i - 1 \in 0..k /\ i - 1 # k + 1 /\ i - 1 \in 0..(k + 1)
      OBVIOUS
    <3>2. i # 0 => h[i - 1] = g[i - 1]
      BY <2>2, <3>1
    <3>3. CASE i = k + 1
      <4>1. h[i] = With(g[k], OneMore) /\ i # 0 /\ i - 1 = k
        BY <2>2, <3>3
      <4>. QED BY <3>2, <4>1
    <3>4. CASE i # k + 1
      <4>1. i \in 0..k /\ h[i] = g[i]
        BY <2>2, <3>4
      <4>2. g[i] = IF i = 0 THEN [ok |-> TRUE, rest |-> b, list |-> <<>>] ELSE With(g[i - 1], OneMore)
        BY <2>1, <4>1 DEF ReadsFiles
      <4>. QED BY <3>2, <4>1, <4>2
    <3>. QED BY <3>3, <3>4
  <2>4. ReadsFiles(h, b, k + 1)
    BY <2>2, <2>3 DEF ReadsFiles
  <2>. QED BY <2>4
<1>3. Nat \subseteq T
  <2> HIDE DEF T
  <2>. QED BY <1>1, <1>2, Counting
<1>. QED BY <1>3

LEMMA ReadUnique ==
  ASSUME NEW b, NEW n \in Nat, NEW f, NEW g, ReadsFiles(f, b, n), ReadsFiles(g, b, n + 1)
  PROVE  \A i \in 0..n : g[i] = f[i]
<1> DEFINE T == {k \in Nat : k <= n => g[k] = f[k]}
<1>1. 0 \in T
  BY DEF ReadsFiles
<1>2. ASSUME NEW k \in T PROVE k + 1 \in T
  <2>1. ASSUME k + 1 <= n PROVE g[k + 1] = f[k + 1]
    <3>1. k + 1 \in 0..n /\ k + 1 \in 0..(n + 1) /\ k + 1 # 0 /\ (k + 1) - 1 = k /\ g[k] = f[k]
      BY <2>1
    <3>2. f[k + 1] = With(f[(k + 1) - 1], OneMore)
      BY <3>1 DEF ReadsFiles
    <3>3. g[k + 1] = With(g[(k + 1) - 1], OneMore)
      BY <3>1 DEF ReadsFiles
    <3>. QED BY <3>1, <3>2, <3>3
  <2>. QED BY <2>1
<1>3. Nat \subseteq T
  <2> HIDE DEF T
  <2>. QED BY <1>1, <1>2, Counting
<1>. QED BY <1>3

LEMMA WithOneMore == ASSUME NEW x PROVE With(x, OneMore) = OneMore(x)
<1>1. {OneMore(z) : z \in {x}} = {OneMore(x)}
  OBVIOUS
<1>. QED BY <1>1, TheOne DEF With

LEMMA AttachmentsNext ==
  ASSUME NEW b, NEW n \in Nat
  PROVE  /\ Attachments(b, 0) = [ok |-> TRUE, rest |-> b, list |-> <<>>]
         /\ Attachments(b, n + 1) = OneMore(Attachments(b, n))
<1> DEFINE R(k) == CHOOSE f : ReadsFiles(f, b, k)
<1>1. ASSUME NEW k \in Nat PROVE ReadsFiles(R(k), b, k)
  BY ReadExists
<1>2. ASSUME NEW k \in Nat PROVE Attachments(b, k) = R(k)[k]
  BY DEF Attachments, ReadsFiles
<1> HIDE DEF R
<1>3. Attachments(b, 0) = [ok |-> TRUE, rest |-> b, list |-> <<>>]
  <2>1. ReadsFiles(R(0), b, 0) /\ Attachments(b, 0) = R(0)[0]
    BY <1>1, <1>2
  <2>. QED BY <2>1 DEF ReadsFiles
<1>4. Attachments(b, n + 1) = With(Attachments(b, n), OneMore)
  <2>1. n + 1 \in Nat /\ n + 1 \in 0..(n + 1) /\ n + 1 # 0 /\ (n + 1) - 1 = n /\ n \in 0..n
    OBVIOUS
  <2>2. ReadsFiles(R(n), b, n) /\ ReadsFiles(R(n + 1), b, n + 1)
    BY <1>1, <2>1
  <2>3. R(n + 1)[n] = R(n)[n]
    BY <2>1, <2>2, ReadUnique
  <2>4. R(n + 1)[n + 1] = With(R(n + 1)[(n + 1) - 1], OneMore)
    BY <2>1, <2>2 DEF ReadsFiles
  <2>5. Attachments(b, n) = R(n)[n] /\ Attachments(b, n + 1) = R(n + 1)[n + 1]
    BY <1>2, <2>1
  <2>. QED BY <2>1, <2>3, <2>4, <2>5
<1>. QED BY <1>3, <1>4, WithOneMore

-----------------------------------------------------------------------------
Files == [filename : {l \in Texts : IsLine(l)}, data : {d \in Texts : Len(d) \in 1..9}]

Heading(a) == <<a.filename, Number(Len(a.data))>>

LEMMA FileIs ==
  ASSUME NEW a \in Files
  PROVE  /\ IsLines(Heading(a)) /\ Heading(a) \in Seq(Texts) /\ Len(Heading(a)) = 2
         /\ Heading(a)[1] = a.filename /\ Heading(a)[2] = Number(Len(a.data))
         /\ a.filename \in Texts /\ IsLine(a.filename) /\ a.data \in Texts /\ Len(a.data) \in 1..9
         /\ Text(Heading(a)) \in Texts /\ AttachmentText(a) = Text(Heading(a)) \o a.data
         /\ AttachmentText(a) \in Texts
         /\ Len(Text(Heading(a))) = Len(a.filename) + 3
<1>1. /\ a.filename \in Texts /\ IsLine(a.filename) /\ a.data \in Texts /\ Len(a.data) \in 1..9
      /\ Len(a.data) \in 0..9
  BY DEF Files
<1>2. PICK l, n : l = a.filename /\ n = Number(Len(a.data))
  OBVIOUS
<1>3. l \in Texts /\ n \in Texts /\ IsLine(l) /\ IsLine(n) /\ Len(n) = 1
  BY <1>1, <1>2, NumberIs DEF IsLine, Texts
<1>4. <<l, n>> \in Seq(Texts) /\ Len(<<l, n>>) = 2 /\ <<l, n>>[1] = l /\ <<l, n>>[2] = n
  BY <1>3
<1>5. IsLines(<<l, n>>)
  BY <1>3, <1>4 DEF IsLines
<1>6. Text(<<l, n>>) = Append(l, NL) \o Append(n, NL) /\ Text(<<l, n>>) \in Texts
  <2>0. Append(<<l>>, n) = <<l, n>>
    <3>1. PICK x : x = Append(<<l>>, n)
      OBVIOUS
    <3>2. <<l>> \in Seq(Texts) /\ Len(<<l>>) = 1 /\ <<l>>[1] = l
      BY <1>3
    <3>3. x \in Seq(Texts) /\ Len(x) = 2 /\ x[1] = l /\ x[2] = n
      BY <1>3, <3>1, <3>2, AppendProperties
    <3>4. \A i \in 1..2 : x[i] = <<l, n>>[i]
      <4>1. \A i \in 1..2 : i = 1 \/ i = 2
        OBVIOUS
      <4>. QED BY <1>4, <3>3, <4>1
    <3>. QED BY <1>4, <3>1, <3>3, <3>4, SeqEqual
  <2>1. <<l>> \in Seq(Texts) /\ <<n>> \in Seq(Texts) /\ <<l, n>> = <<l>> \o <<n>>
    <3>1. <<l>> \in Seq(Texts) /\ <<n>> \in Seq(Texts)
      BY <1>3
    <3>2. Append(<<l>>, n) = <<l>> \o <<n>>
      BY <1>3, <3>1, AppendIsConcat
    <3>. QED BY <2>0, <3>1, <3>2
  <2>2. Text(<<l>> \o <<n>>) = Text(<<l>>) \o Text(<<n>>) /\ Text(<<l>> \o <<n>>) \in Texts
    BY <2>1, Marks, TextConcat DEF Texts
  <2>3. Text(<<l>>) = Append(l, NL) /\ Text(<<n>>) = Append(n, NL)
    BY <1>3, Marks, TextOne DEF Texts
  <2>. QED BY <2>1, <2>2, <2>3
<1>7. Len(Text(<<l, n>>)) = Len(l) + 3
  <2>1. PICK x, y : x = Append(l, NL) /\ y = Append(n, NL)
    OBVIOUS
  <2>2. x \in Texts /\ y \in Texts /\ Len(x) = Len(l) + 1 /\ Len(y) = Len(n) + 1 /\ Len(l) \in Nat
    BY <1>3, <2>1, TextsAre
  <2>3. Len(x \o y) = Len(x) + Len(y)
    BY <2>2, TextsAre
  <2>. QED BY <1>3, <1>6, <2>1, <2>2, <2>3
<1>8. Heading(a) = <<l, n>>
  BY <1>2 DEF Heading
<1>9. AttachmentText(a) = Text(Heading(a)) \o a.data
  BY DEF AttachmentText, Heading
<1>10. AttachmentText(a) \in Texts
  BY <1>1, <1>6, <1>8, <1>9, TextsAre
<1>. QED BY <1>1, <1>2, <1>3, <1>4, <1>5, <1>6, <1>7, <1>8, <1>9, <1>10

(* The attachments' text, as MailText has it. *)
Packed(files)    == [i \in DOMAIN files |-> AttachmentText(files[i])]
FilesText(files) == FlattenSeq(Packed(files))

LEMMA PackedFiles ==
  ASSUME NEW A \in Seq(Files)
  PROVE  /\ Packed(A) \in Seq(Texts) /\ Len(Packed(A)) = Len(A) /\ Len(A) \in Nat
         /\ \A i \in 1..Len(A) : Packed(A)[i] = AttachmentText(A[i])
<1>1. Len(A) \in Nat /\ DOMAIN A = 1..Len(A)
  BY LenProperties
<1>2. \A i \in 1..Len(A) : AttachmentText(A[i]) \in Texts
  <2> TAKE i \in 1..Len(A)
  <2>1. A[i] \in Files
    BY ElementOfSeq
  <2>. QED BY <2>1, FileIs
<1>3. Packed(A) = [i \in 1..Len(A) |-> AttachmentText(A[i])]
  BY <1>1 DEF Packed
<1>4. Packed(A) \in Seq(Texts) /\ Len(Packed(A)) = Len(A)
  BY <1>1, <1>2, <1>3, FunctionIsSeq
<1>. QED BY <1>1, <1>3, <1>4

LEMMA FilesConcat ==
  ASSUME NEW A \in Seq(Files), NEW B \in Seq(Files)
  PROVE  /\ FilesText(A) \in Texts /\ FilesText(B) \in Texts
         /\ FilesText(A \o B) = FilesText(A) \o FilesText(B)
<1>1. A \o B \in Seq(Files) /\ Len(A \o B) = Len(A) + Len(B)
      /\ \A i \in 1..(Len(A) + Len(B)) : (A \o B)[i] = IF i <= Len(A) THEN A[i] ELSE B[i - Len(A)]
  BY ConcatProperties
<1>2. PICK a, b, c : a = Packed(A) /\ b = Packed(B) /\ c = Packed(A \o B)
  OBVIOUS
<1>3. /\ a \in Seq(Texts) /\ Len(a) = Len(A) /\ Len(A) \in Nat
      /\ \A i \in 1..Len(A) : a[i] = AttachmentText(A[i])
  BY <1>2, PackedFiles
<1>4. /\ b \in Seq(Texts) /\ Len(b) = Len(B) /\ Len(B) \in Nat
      /\ \A i \in 1..Len(B) : b[i] = AttachmentText(B[i])
  BY <1>2, PackedFiles
<1>5. /\ c \in Seq(Texts) /\ Len(c) = Len(A \o B)
      /\ \A i \in 1..Len(A \o B) : c[i] = AttachmentText((A \o B)[i])
  BY <1>1, <1>2, PackedFiles
<1>6. /\ a \o b \in Seq(Texts) /\ Len(a \o b) = Len(a) + Len(b)
      /\ \A i \in 1..(Len(a) + Len(b)) : (a \o b)[i] = IF i <= Len(a) THEN a[i] ELSE b[i - Len(a)]
  <2>1. a \in Seq(Texts) /\ b \in Seq(Texts)
    BY <1>3, <1>4
  <2>. QED BY <2>1, Concat DEF Texts
<1>7. Len(c) = Len(a \o b)
  BY <1>1, <1>3, <1>4, <1>5, <1>6
<1>8. ASSUME NEW i \in 1..Len(c) PROVE c[i] = (a \o b)[i]
  <2>1. CASE i <= Len(A)
    <3>1. i \in 1..Len(A) /\ i \in 1..(Len(A) + Len(B))
      BY <1>1, <1>3, <1>4, <1>5, <2>1
    <3>2. c[i] = AttachmentText(A[i])
      BY <1>1, <1>5, <2>1, <3>1
    <3>3. (a \o b)[i] = a[i]
      BY <1>3, <1>4, <1>6, <2>1, <3>1
    <3>. QED BY <1>3, <3>1, <3>2, <3>3
  <2>2. CASE ~(i <= Len(A))
    <3>1. i - Len(A) \in 1..Len(B)
      BY <1>1, <1>3, <1>4, <1>5, <2>2
    <3>2. c[i] = AttachmentText(B[i - Len(A)])
      BY <1>1, <1>5, <2>2
    <3>3. (a \o b)[i] = b[i - Len(A)]
      BY <1>1, <1>3, <1>4, <1>5, <1>6, <2>2
    <3>. QED BY <1>4, <3>1, <3>2, <3>3
  <2>. QED BY <2>1, <2>2
<1>9. c = a \o b
  BY <1>5, <1>6, <1>7, <1>8, SeqEqual
<1>10. FlattenSeq(a \o b) = FlattenSeq(a) \o FlattenSeq(b)
  BY <1>3, <1>4, FlattenConcat DEF Texts
<1>11. FlattenSeq(a) \in Texts /\ FlattenSeq(b) \in Texts
  BY <1>3, <1>4, FlattenAppend, EmptySeq DEF Texts
<1>. QED BY <1>2, <1>9, <1>10, <1>11 DEF FilesText

LEMMA FilesOne ==
  ASSUME NEW a \in Files
  PROVE  FilesText(<<a>>) = AttachmentText(a) /\ FilesText(<<>>) = <<>>
<1>1. AttachmentText(a) \in Seq(Symbol)
  BY FileIs DEF Texts
<1>2. PICK t : t = AttachmentText(a)
  OBVIOUS
<1>3. Packed(<<a>>) = <<t>>
  BY <1>2 DEF Packed
<1>4. FlattenSeq(<<t>>) = t
  BY <1>1, <1>2, FlattenOne
<1>5. Packed(<<>>) = <<>>
  BY DEF Packed
<1>. QED BY <1>2, <1>3, <1>4, <1>5, FlattenEmpty DEF FilesText

LEMMA FilesFrom ==
  ASSUME NEW A \in Seq(Files), NEW k \in 1..Len(A)
  PROVE  /\ A[k] \in Files /\ From(A, k) \in Seq(Files) /\ From(A, k + 1) \in Seq(Files)
         /\ FilesText(From(A, k)) = AttachmentText(A[k]) \o FilesText(From(A, k + 1))
<1>1. A[k] \in Files /\ Len(A) \in Nat
  BY ElementOfSeq, LenProperties
<1>2. k \in Nat \ {0} /\ k + 1 \in Nat \ {0}
  BY <1>1
<1>3. From(A, k) \in Seq(Files) /\ From(A, k + 1) \in Seq(Files)
  BY <1>2, FromType
<1>4. From(A, k) = <<A[k]>> \o From(A, k + 1)
  BY FromNext
<1>5. <<A[k]>> \in Seq(Files)
  BY <1>1
<1>6. FilesText(<<A[k]>> \o From(A, k + 1)) = FilesText(<<A[k]>>) \o FilesText(From(A, k + 1))
  BY <1>3, <1>5, FilesConcat
<1>. QED BY <1>1, <1>3, <1>4, <1>6, FilesOne

LEMMA FilesUpTo ==
  ASSUME NEW A \in Seq(Files), NEW k \in 1..Len(A)
  PROVE  FilesText(SubSeq(A, 1, k)) = FilesText(SubSeq(A, 1, k - 1)) \o AttachmentText(A[k])
<1>1. /\ SubSeq(A, 1, k - 1) \in Seq(Files) /\ A[k] \in Files
      /\ SubSeq(A, 1, k) = Append(SubSeq(A, 1, k - 1), A[k])
  BY UpTo
<1>2. <<A[k]>> \in Seq(Files) /\ SubSeq(A, 1, k) = SubSeq(A, 1, k - 1) \o <<A[k]>>
  BY <1>1, AppendIsConcat
<1>. QED BY <1>1, <1>2, FilesConcat, FilesOne

-----------------------------------------------------------------------------
(* Parts of a text put together. *)
LEMMA Part ==
  ASSUME NEW s \in Texts, NEW u \in Nat \ {0}, NEW v \in Nat, v <= Len(s), u <= v + 1
  PROVE  /\ SubSeq(s, u, v) \in Texts /\ Len(SubSeq(s, u, v)) = v - u + 1
         /\ \A i \in 1..(v - u + 1) : SubSeq(s, u, v)[i] = s[u + i - 1]
<1>1. Len(s) \in Nat
  BY LenProperties DEF Texts
<1>2. \A i \in u..v : i \in 1..Len(s)
  BY <1>1
<1>3. \A i \in u..v : s[i] \in Symbol
  BY <1>2, ElementOfSeq DEF Texts
<1>4. PICK q : q = SubSeq(s, u, v)
  OBVIOUS
<1>5. /\ q \in Seq(Symbol) /\ Len(q) = IF u <= v THEN v - u + 1 ELSE 0
      /\ \A i \in 1..(v - u + 1) : q[i] = s[u + i - 1]
  BY <1>3, <1>4, SubSeqProperties
<1>6. Len(q) = v - u + 1
  BY <1>5
<1>. QED BY <1>4, <1>5, <1>6 DEF Texts

LEMMA Joined ==
  ASSUME NEW x \in Texts, NEW y \in Texts
  PROVE  /\ x \o y \in Texts /\ Len(x) \in Nat /\ Len(y) \in Nat /\ Len(x \o y) = Len(x) + Len(y)
         /\ \A i \in 1..Len(x) : (x \o y)[i] = x[i]
         /\ \A i \in 1..Len(y) : (x \o y)[Len(x) + i] = y[i]
<1>0. PICK s : s = x \o y
  OBVIOUS
<1>1. s \in Texts /\ Len(x) \in Nat /\ Len(y) \in Nat /\ Len(s) = Len(x) + Len(y)
  BY <1>0, TextsAre
<1>2. \A i \in 1..(Len(x) + Len(y)) : s[i] = IF i <= Len(x) THEN x[i] ELSE y[i - Len(x)]
  BY <1>0, ConcatProperties DEF Texts
<1>3. \A i \in 1..Len(x) : i \in 1..(Len(x) + Len(y)) /\ i <= Len(x)
  BY <1>1
<1>4. \A i \in 1..Len(y) : /\ Len(x) + i \in 1..(Len(x) + Len(y)) /\ ~(Len(x) + i <= Len(x))
                           /\ (Len(x) + i) - Len(x) = i
  BY <1>1
<1>5. \A i \in 1..Len(y) : s[Len(x) + i] = y[i]
  BY <1>2, <1>4
<1>. QED BY <1>0, <1>1, <1>2, <1>3, <1>5

LEMMA TextCut ==
  ASSUME NEW x \in Texts, NEW y \in Texts
  PROVE  /\ SubSeq(x \o y, 1, Len(x)) = x
         /\ SubSeq(x \o y, Len(x) + 1, Len(x \o y)) = y
<1>1. PICK s : s = x \o y
  OBVIOUS
<1>2. /\ s \in Texts /\ Len(x) \in Nat /\ Len(y) \in Nat /\ Len(s) = Len(x) + Len(y)
      /\ \A i \in 1..Len(x) : s[i] = x[i]
      /\ \A i \in 1..Len(y) : s[Len(x) + i] = y[i]
  BY <1>1, Joined
<1>3. SubSeq(s, 1, Len(x)) = x
  <2>1. PICK q : q = SubSeq(s, 1, Len(x))
    OBVIOUS
  <2>2. 1 \in Nat \ {0} /\ Len(x) <= Len(s) /\ 1 <= Len(x) + 1 /\ Len(x) - 1 + 1 = Len(x)
    BY <1>2
  <2>3. /\ q \in Texts /\ Len(q) = Len(x) - 1 + 1 /\ \A i \in 1..(Len(x) - 1 + 1) : q[i] = s[1 + i - 1]
    BY <1>2, <2>1, <2>2, Part
  <2>4. Len(q) = Len(x)
    BY <2>2, <2>3
  <2>5. \A i \in 1..Len(q) : q[i] = x[i]
    <3>1. \A i \in 1..Len(q) : 1 + i - 1 = i
      BY <1>2, <2>4
    <3>. QED BY <1>2, <2>2, <2>3, <2>4, <3>1
  <2>. QED BY <2>1, <2>3, <2>4, <2>5, SeqEqual DEF Texts
<1>4. SubSeq(s, Len(x) + 1, Len(s)) = y
  <2>1. PICK q, u, v : u = Len(x) + 1 /\ v = Len(s) /\ q = SubSeq(s, u, v)
    OBVIOUS
  <2>2. u \in Nat \ {0} /\ v \in Nat /\ v <= Len(s) /\ u <= v + 1 /\ v - u + 1 = Len(y)
    BY <1>2, <2>1
  <2>3. q \in Texts /\ Len(q) = v - u + 1 /\ \A i \in 1..(v - u + 1) : q[i] = s[u + i - 1]
    BY <1>2, <2>1, <2>2, Part
  <2>4. Len(q) = Len(y)
    BY <2>2, <2>3
  <2>5. \A i \in 1..Len(q) : q[i] = y[i]
    <3>1. \A i \in 1..Len(y) : u + i - 1 = Len(x) + i
      BY <1>2, <2>1
    <3>. QED BY <1>2, <2>2, <2>3, <2>4, <3>1
  <2>. QED BY <2>1, <2>3, <2>4, <2>5, SeqEqual DEF Texts
<1>. QED BY <1>1, <1>3, <1>4

LEMMA CutTwice ==
  ASSUME NEW x \in Texts, NEW y \in Texts, NEW z \in Texts
  PROVE  /\ SubSeq(x \o (y \o z), Len(x) + 1, Len(x) + Len(y)) = y
         /\ SubSeq(x \o (y \o z), Len(x) + Len(y) + 1, Len(x \o (y \o z))) = z
         /\ Len(x \o (y \o z)) = Len(x) + Len(y) + Len(z)
<1>0. PICK s : s = x \o (y \o z)
  OBVIOUS
<1>1. x \o y \in Texts /\ y \o z \in Texts /\ Len(x \o y) = Len(x) + Len(y)
      /\ Len(y \o z) = Len(y) + Len(z) /\ Len(x) \in Nat /\ Len(y) \in Nat /\ Len(z) \in Nat
      /\ s \in Texts /\ Len(s) = Len(x) + Len(y \o z)
  BY <1>0, TextsAre
<1>2. s = (x \o y) \o z
  BY <1>0, Regroup
<1>3. SubSeq(s, Len(x) + Len(y) + 1, Len(s)) = z
  BY <1>1, <1>2, TextCut
<1>4. SubSeq(s, Len(x) + 1, Len(x) + Len(y)) = y
  <2>1. PICK q, u, v : u = Len(x) + 1 /\ v = Len(x) + Len(y) /\ q = SubSeq(s, u, v)
    OBVIOUS
  <2>2. u \in Nat \ {0} /\ v \in Nat /\ v <= Len(s) /\ u <= v + 1 /\ v - u + 1 = Len(y)
    BY <1>1, <2>1
  <2>3. q \in Texts /\ Len(q) = v - u + 1 /\ \A i \in 1..(v - u + 1) : q[i] = s[u + i - 1]
    <3>1. s \in Texts /\ u \in Nat \ {0} /\ v \in Nat /\ v <= Len(s) /\ u <= v + 1
      BY <1>1, <1>2, <2>2
    <3>2. /\ SubSeq(s, u, v) \in Texts /\ Len(SubSeq(s, u, v)) = v - u + 1
          /\ \A i \in 1..(v - u + 1) : SubSeq(s, u, v)[i] = s[u + i - 1]
      BY <3>1, Part
    <3>. QED BY <2>1, <3>2
  <2>4. Len(q) = Len(y)
    BY <2>2, <2>3
  <2>5. /\ \A i \in 1..Len(y \o z) : s[Len(x) + i] = (y \o z)[i]
        /\ \A i \in 1..Len(y) : (y \o z)[i] = y[i]
    <3>1. \A i \in 1..Len(y) : (y \o z)[i] = y[i]
      BY Joined
    <3>2. PICK c : c = y \o z
      OBVIOUS
    <3>3. c \in Texts /\ s = x \o c
      BY <1>0, <1>1, <3>2
    <3>4. \A i \in 1..Len(c) : s[Len(x) + i] = c[i]
      BY <3>3, Joined
    <3>. QED BY <3>1, <3>2, <3>4
  <2>6. \A i \in 1..Len(q) : q[i] = y[i]
    <3>1. \A i \in 1..Len(y) : u + i - 1 = Len(x) + i /\ i \in 1..Len(y \o z)
      BY <1>1, <2>1
    <3>. QED BY <2>2, <2>3, <2>4, <2>5, <3>1
  <2>. QED BY <2>1, <2>3, <2>4, <2>6, SeqEqual DEF Texts
<1>5. Len(s) = Len(x) + Len(y) + Len(z)
  BY <1>1
<1>. QED BY <1>0, <1>3, <1>4, <1>5

-----------------------------------------------------------------------------
LEMMA OneMoreIs ==
  ASSUME NEW a \in Files, NEW y \in Texts, NEW list, NEW s, s = Text(Heading(a)) \o y
  PROVE  LET n == Len(a.data)
             f == Len(Text(Heading(a)))
         IN  IF f + n <= Len(s)
             THEN OneMore([ok |-> TRUE, rest |-> s, list |-> list]) =
                    [ok |-> TRUE, rest |-> SubSeq(s, f + n + 1, Len(s)),
                     list |-> Append(list, [filename |-> a.filename, data |-> SubSeq(s, f + 1, f + n)])]
             ELSE ~OneMore([ok |-> TRUE, rest |-> s, list |-> list]).ok
<1>1. PICK ls : ls = Lines(s)
  OBVIOUS
<1>2. /\ IsLines(Heading(a)) /\ Len(Heading(a)) = 2
      /\ Heading(a)[1] = a.filename /\ Heading(a)[2] = Number(Len(a.data))
      /\ Len(a.data) \in 0..9 /\ Len(Text(Heading(a))) = Len(a.filename) + 3 /\ Len(a.filename) \in Nat
  <2>1. Len(a.filename) \in Nat
    BY FileIs, TextsAre
  <2>. QED BY <2>1, FileIs
<1>3. /\ Len(ls) \in Nat /\ DOMAIN ls = 1..Len(ls) /\ Len(ls) >= 2
      /\ \A k \in 1..2 : ls[k] = Heading(a)[k]
  BY <1>1, <1>2, LinesOfText
<1>4. LineOf(ls, 1) = a.filename /\ LineOf(ls, 2) = Number(Len(a.data))
  BY <1>2, <1>3 DEF LineOf
<1>5. PICK l, n, num : l = a.filename /\ n = Len(a.data) /\ num = Number(n)
  OBVIOUS
<1>6. /\ LineOf(ls, 1) = l /\ LineOf(ls, 2) = num /\ IsNumber(num) /\ Value(num) = n
      /\ Len(l) + Len(num) + 2 = Len(Text(Heading(a)))
  <2>1. IsNumber(num) /\ Value(num) = n /\ Len(num) = 1
    BY <1>2, <1>5, NumberIs
  <2>. QED BY <1>2, <1>4, <1>5, <2>1
<1>7. PICK r, f : r = [ok |-> TRUE, rest |-> s, list |-> list] /\ f = Len(l) + Len(num) + 2
  OBVIOUS
<1>8. r.ok = TRUE /\ r.rest = s /\ r.list = list /\ ~[r EXCEPT !.ok = FALSE].ok
  BY <1>7
<1>9. IF f + n <= Len(s)
      THEN OneMore(r) = [ok |-> TRUE, rest |-> SubSeq(s, f + n + 1, Len(s)),
                         list |-> Append(list, [filename |-> l, data |-> SubSeq(s, f + 1, f + n)])]
      ELSE OneMore(r) = [r EXCEPT !.ok = FALSE]
  BY <1>1, <1>6, <1>7, <1>8 DEF OneMore, Enough
<1>. QED BY <1>5, <1>6, <1>7, <1>8, <1>9

LEMMA OneMoreReads ==
  ASSUME NEW a \in Files, NEW z \in Texts, NEW list
  PROVE  OneMore([ok |-> TRUE, rest |-> AttachmentText(a) \o z, list |-> list])
           = [ok |-> TRUE, rest |-> z, list |-> Append(list, a)]
<1>1. PICK x, y, s : x = Text(Heading(a)) /\ y = a.data /\ s = AttachmentText(a) \o z
  OBVIOUS
<1>2. x \in Texts /\ y \in Texts /\ AttachmentText(a) = x \o y
  BY <1>1, FileIs
<1>3. s = x \o (y \o z)
  <2>1. s = (x \o y) \o z
    BY <1>1, <1>2
  <2>2. (x \o y) \o z = x \o (y \o z)
    BY <1>2, TextsAre
  <2>. QED BY <2>1, <2>2
<1>4. y \o z \in Texts /\ Len(x) \in Nat /\ Len(y) \in Nat /\ Len(z) \in Nat
  BY <1>2, TextsAre
<1>5. /\ SubSeq(s, Len(x) + 1, Len(x) + Len(y)) = y
      /\ SubSeq(s, Len(x) + Len(y) + 1, Len(s)) = z
      /\ Len(s) = Len(x) + Len(y) + Len(z)
  BY <1>2, <1>3, CutTwice
<1>6. Len(x) + Len(y) <= Len(s)
  BY <1>4, <1>5
<1>7. OneMore([ok |-> TRUE, rest |-> s, list |-> list]) =
        [ok |-> TRUE, rest |-> SubSeq(s, Len(x) + Len(y) + 1, Len(s)),
         list |-> Append(list, [filename |-> a.filename, data |-> SubSeq(s, Len(x) + 1, Len(x) + Len(y))])]
  BY <1>1, <1>3, <1>4, <1>6, OneMoreIs
<1>8. [filename |-> a.filename, data |-> y] = a
  BY <1>1 DEF Files
<1>. QED BY <1>1, <1>5, <1>7, <1>8

LEMMA OneMoreFails ==
  ASSUME NEW a \in Files, NEW y \in Texts, Len(y) < Len(a.data), NEW list
  PROVE  ~OneMore([ok |-> TRUE, rest |-> Text(Heading(a)) \o y, list |-> list]).ok
<1>1. PICK x, s : x = Text(Heading(a)) /\ s = x \o y
  OBVIOUS
<1>2. x \in Texts /\ Len(a.data) \in Nat
  BY <1>1, FileIs
<1>3. Len(s) = Len(x) + Len(y) /\ Len(x) \in Nat /\ Len(y) \in Nat
  BY <1>1, <1>2, TextsAre
<1>4. ~(Len(x) + Len(a.data) <= Len(s))
  BY <1>2, <1>3
<1>5. ~OneMore([ok |-> TRUE, rest |-> s, list |-> list]).ok
  BY <1>1, <1>4, OneMoreIs
<1>. QED BY <1>1, <1>5

LEMMA AttachmentsRead ==
  ASSUME NEW A \in Seq(Files), NEW x \in Texts
  PROVE  Attachments(FilesText(A) \o x, Len(A)) = [ok |-> TRUE, rest |-> x, list |-> A]
<1>1. Len(A) \in Nat
  BY LenProperties
<1>2. PICK b : b = FilesText(A) \o x
  OBVIOUS
<1> DEFINE T == {k \in Nat : k <= Len(A) =>
                   Attachments(b, k) = [ok   |-> TRUE, rest |-> FilesText(From(A, k + 1)) \o x,
                                        list |-> SubSeq(A, 1, k)]}
<1>3. 0 \in T
  <2>1. Attachments(b, 0) = [ok |-> TRUE, rest |-> b, list |-> <<>>]
    BY AttachmentsNext, 0 \in Nat
  <2>2. SubSeq(A, 1, 0) = <<>>
    BY SubSeqEmpty
  <2>3. From(A, 0 + 1) = A
    BY SubSeqFull DEF From
  <2>. QED BY <1>2, <2>1, <2>2, <2>3
<1>4. ASSUME NEW k \in T PROVE k + 1 \in T
  <2> SUFFICES ASSUME k + 1 <= Len(A)
               PROVE  Attachments(b, k + 1) = [ok   |-> TRUE, rest |-> FilesText(From(A, (k + 1) + 1)) \o x,
                                               list |-> SubSeq(A, 1, k + 1)]
    OBVIOUS
  <2>1. k \in Nat /\ k + 1 \in 1..Len(A) /\ (k + 1) - 1 = k
    BY <1>1
  <2>2. Attachments(b, k) = [ok |-> TRUE, rest |-> FilesText(From(A, k + 1)) \o x, list |-> SubSeq(A, 1, k)]
    BY <1>1, <2>1
  <2>3. PICK a, t : a = A[k + 1] /\ t = FilesText(From(A, (k + 1) + 1))
    OBVIOUS
  <2>4. /\ a \in Files /\ FilesText(From(A, k + 1)) = AttachmentText(a) \o t
        /\ From(A, (k + 1) + 1) \in Seq(Files)
    BY <2>1, <2>3, FilesFrom
  <2>5. t \in Texts /\ AttachmentText(a) \in Texts
    BY <2>3, <2>4, FilesConcat, FileIs
  <2>6. t \o x \in Texts /\ (AttachmentText(a) \o t) \o x = AttachmentText(a) \o (t \o x)
    <3>1. t \o x \in Texts
      BY <2>5, TextsAre
    <3>. QED BY <2>5, <3>1, Regroup
  <2>7. SubSeq(A, 1, k + 1) = Append(SubSeq(A, 1, k), a)
    BY <2>1, <2>3, UpTo
  <2>8. Attachments(b, k + 1) = OneMore(Attachments(b, k))
    BY <2>1, AttachmentsNext
  <2>9. Attachments(b, k) = [ok |-> TRUE, rest |-> AttachmentText(a) \o (t \o x), list |-> SubSeq(A, 1, k)]
    BY <2>2, <2>4, <2>6
  <2>10. OneMore(Attachments(b, k)) = [ok |-> TRUE, rest |-> t \o x, list |-> Append(SubSeq(A, 1, k), a)]
    BY <2>4, <2>6, <2>9, OneMoreReads
  <2>. QED BY <2>3, <2>7, <2>8, <2>10
<1>5. Nat \subseteq T
  <2> HIDE DEF T
  <2>. QED BY <1>3, <1>4, Counting
<1>6. Attachments(b, Len(A)) = [ok   |-> TRUE, rest |-> FilesText(From(A, Len(A) + 1)) \o x,
                                list |-> SubSeq(A, 1, Len(A))]
  BY <1>1, <1>5
<1>7. SubSeq(A, 1, Len(A)) = A
  BY SubSeqFull
<1>8. From(A, Len(A) + 1) = <<>>
  <2>1. Len(A) + 1 \in Nat \ {0} /\ Len(A) + 1 > Len(A)
    BY <1>1
  <2>. QED BY <2>1, FromType
<1>9. FilesText(<<>>) \o x = x
  <2>1. Packed(<<>>) = <<>>
    BY DEF Packed
  <2>2. FilesText(<<>>) = <<>>
    BY <2>1, FlattenEmpty DEF FilesText
  <2>. QED BY <2>2, ConcatEmptySeq DEF Texts
<1>. QED BY <1>2, <1>6, <1>7, <1>8, <1>9

-----------------------------------------------------------------------------
LineSet == {l \in Texts : IsLine(l)}

(* Two sequences put together, as seen by its places. *)
LEMMA Places ==
  ASSUME NEW S, NEW x \in Seq(S), NEW y \in Seq(S)
  PROVE  /\ x \o y \in Seq(S) /\ Len(x) \in Nat /\ Len(y) \in Nat /\ Len(x \o y) = Len(x) + Len(y)
         /\ \A i \in 1..Len(x) : (x \o y)[i] = x[i]
         /\ \A i \in 1..Len(y) : (x \o y)[Len(x) + i] = y[i]
<1>0. PICK s : s = x \o y
  OBVIOUS
<1>1. s \in Seq(S) /\ Len(x) \in Nat /\ Len(y) \in Nat /\ Len(s) = Len(x) + Len(y)
  BY <1>0, ConcatProperties, LenProperties
<1>2. \A i \in 1..(Len(x) + Len(y)) : s[i] = IF i <= Len(x) THEN x[i] ELSE y[i - Len(x)]
  BY <1>0, ConcatProperties
<1>3. \A i \in 1..Len(x) : i \in 1..(Len(x) + Len(y)) /\ i <= Len(x)
  BY <1>1
<1>4. \A i \in 1..Len(y) : /\ Len(x) + i \in 1..(Len(x) + Len(y)) /\ ~(Len(x) + i <= Len(x))
                           /\ (Len(x) + i) - Len(x) = i
  BY <1>1
<1>5. \A i \in 1..Len(y) : s[Len(x) + i] = y[i]
  BY <1>2, <1>4
<1>. QED BY <1>0, <1>1, <1>2, <1>3, <1>5

LEMMA LinePlaces ==
  \A x, y \in Seq(LineSet) :
    /\ x \o y \in Seq(LineSet) /\ Len(x) \in Nat /\ Len(y) \in Nat /\ Len(x \o y) = Len(x) + Len(y)
    /\ \A i \in 1..Len(x) : (x \o y)[i] = x[i]
    /\ \A i \in 1..Len(y) : (x \o y)[Len(x) + i] = y[i]
BY Places

LEMMA SameSub ==
  ASSUME NEW S, NEW r \in Seq(S), NEW ls, NEW u \in Nat, \A i \in 1..Len(r) : ls[u + i] = r[i]
  PROVE  SubSeq(ls, u + 1, u + Len(r)) = r
<1>1. Len(r) \in Nat /\ \A i \in 1..Len(r) : r[i] \in S
  BY LenProperties, ElementOfSeq
<1>2. PICK v, w, q : v = u + 1 /\ w = u + Len(r) /\ q = SubSeq(ls, v, w)
  OBVIOUS
<1>3. v \in Int /\ w \in Int /\ (v <= w <=> Len(r) > 0) /\ w - v + 1 = Len(r)
  BY <1>1, <1>2
<1>4. \A i \in v..w : i - u \in 1..Len(r) /\ u + (i - u) = i
  BY <1>1, <1>2
<1>5. \A i \in v..w : ls[i] \in S
  BY <1>1, <1>4
<1>6. q \in Seq(S) /\ (Len(q) = IF v <= w THEN w - v + 1 ELSE 0)
      /\ \A i \in 1..(w - v + 1) : q[i] = ls[v + i - 1]
  BY <1>2, <1>3, <1>5, SubSeqProperties
<1>7. Len(q) = Len(r)
  BY <1>1, <1>3, <1>6
<1>8. \A i \in 1..Len(r) : v + i - 1 = u + i
  BY <1>1, <1>2
<1>9. \A i \in 1..Len(q) : q[i] = r[i]
  BY <1>3, <1>6, <1>7, <1>8
<1>. QED BY <1>2, <1>6, <1>7, <1>9, SeqEqual

LEMMA FirstIs ==
  ASSUME NEW ls, Len(ls) \in Nat, NEW from \in Nat, NEW mark, NEW k \in from..Len(ls),
         ls[k] = mark, \A j \in from..(k - 1) : ls[j] # mark
  PROVE  Has(ls, from, mark) /\ First(ls, from, mark) = k
<1>1. Has(ls, from, mark)
  BY DEF Has
<1>2. ASSUME NEW i \in from..Len(ls), ls[i] = mark, \A j \in from..(i - 1) : ls[j] # mark
      PROVE  i = k
  <2>1. i \in Int /\ k \in Int /\ from \in Int
    OBVIOUS
  <2>2. i < k => i \in from..(k - 1)
    BY <2>1
  <2>3. k < i => k \in from..(i - 1)
    BY <2>1
  <2>. QED BY <1>2, <2>1, <2>2, <2>3
<1>3. First(ls, from, mark) = k
  BY <1>2 DEF First
<1>. QED BY <1>1, <1>3

-----------------------------------------------------------------------------
LEMMA WritableIs ==
  ASSUME NEW m, Writable(m)
  PROVE  /\ m = Mail(m.sender, m.receivers, m.title, m.body, m.attachments) /\ m.type = "SEND"
         /\ m.sender \in LineSet /\ m.title \in LineSet
         /\ m.receivers \in Seq(LineSet) /\ m.receivers # <<>> /\ m.body \in Seq(LineSet)
         /\ m.attachments \in Seq(Files) /\ Len(m.attachments) \in 0..9
         /\ \A i \in 1..Len(m.body) : m.body[i] # Dot
<1>1. m = Mail(m.sender, m.receivers, m.title, m.body, m.attachments)
  BY DEF Writable
<1>2. m.type = "SEND"
  BY <1>1 DEF Mail
<1>3. \A l : IsLine(l) => l \in LineSet
  BY DEF IsLine, LineSet, Texts
<1>4. m.sender \in LineSet /\ m.title \in LineSet
  BY <1>3 DEF Writable, IsWord
<1>5. m.receivers \in Seq(LineSet) /\ m.receivers # <<>>
  <2>1. ToSet(m.receivers) \subseteq LineSet /\ m.receivers \in Seq(ToSet(m.receivers)) /\ m.receivers # <<>>
    BY <1>3 DEF Writable, IsWord
  <2>. QED BY <2>1, SeqMonotonic
<1>6. m.body \in Seq(LineSet) /\ \A i \in 1..Len(m.body) : m.body[i] # Dot
  <2>1. ToSet(m.body) \subseteq LineSet /\ m.body \in Seq(ToSet(m.body)) /\ \A l \in ToSet(m.body) : l # Dot
    BY <1>3 DEF Writable
  <2>2. m.body \in Seq(LineSet)
    BY <2>1, SeqMonotonic
  <2>3. \A i \in 1..Len(m.body) : m.body[i] \in ToSet(m.body)
    BY <2>1, ElementOfSeq
  <2>. QED BY <2>1, <2>2, <2>3
<1>7. m.attachments \in Seq(Files) /\ Len(m.attachments) \in 0..9
  <2>1. m.attachments \in Seq(ToSet(m.attachments)) /\ Len(m.attachments) <= 9
        /\ \A a \in ToSet(m.attachments) : /\ a = [filename |-> a.filename, data |-> a.data]
                                           /\ IsWord(a.filename) /\ a.data \in Seq(Symbol) /\ Len(a.data) \in 1..9
    BY DEF Writable
  <2>2. ASSUME NEW a \in ToSet(m.attachments) PROVE a \in Files
    <3>1. a.filename \in {l \in Texts : IsLine(l)} /\ a.data \in {d \in Texts : Len(d) \in 1..9}
      BY <2>1 DEF IsWord, IsLine, Texts
    <3>2. a = [filename |-> a.filename, data |-> a.data]
      BY <2>1
    <3>. QED BY <3>1, <3>2 DEF Files
  <2>3. m.attachments \in Seq(Files)
    BY <2>1, <2>2, SeqMonotonic
  <2>4. Len(m.attachments) \in Nat
    BY <2>3, LenProperties
  <2>5. PICK k : k = Len(m.attachments)
    OBVIOUS
  <2>6. k \in Nat /\ k <= 9
    BY <2>1, <2>4, <2>5
  <2>7. k \in 0..9
    BY <2>6
  <2>. QED BY <2>3, <2>5, <2>7
<1>. QED BY <1>1, <1>2, <1>4, <1>5, <1>6, <1>7

Header(m) ==
  <<<<"SEND">>, m.sender>> \o m.receivers \o <<Eot, m.title>> \o m.body
     \o <<Dot, Number(Len(m.attachments))>>

LEMMA MarksAre ==
  /\ Eot \in LineSet /\ Dot \in LineSet /\ Eot # Dot /\ \A t \in Types : <<t>> \in LineSet
  /\ \A n \in 0..9 : Number(n) \in LineSet /\ Number(n) # Dot
<1>1. ASSUME NEW s \in Symbol, s # NL PROVE <<s>> \in LineSet
  <2>1. <<s>> \in Seq(Symbol) /\ NL \notin ToSet(<<s>>)
    BY <1>1 DEF ToSet
  <2>. QED BY <2>1 DEF LineSet, IsLine, Texts
<1>2. "ETX" \in Symbol /\ "." \in Symbol /\ Types \subseteq Symbol /\ "ETX" # NL /\ "." # NL /\ NL \notin Types
  BY SymbolAssumption DEF NL, Types
<1>3. Eot \in LineSet /\ Dot \in LineSet /\ \A t \in Types : <<t>> \in LineSet
  BY <1>1, <1>2 DEF Eot, Dot
<1>4. Eot # Dot
  <2>1. <<"ETX">>[1] # <<".">>[1]
    OBVIOUS
  <2>. QED BY <2>1 DEF Eot, Dot
<1>5. ASSUME NEW n \in 0..9 PROVE Number(n) \in LineSet /\ Number(n) # Dot
  <2>1. Number(n) \in LineSet
    BY NumberIs DEF IsLine, LineSet, Texts
  <2>2. Digits[n + 1] # "."
    BY DEF Digits
  <2>3. Number(n)[1] # Dot[1]
    BY <2>2 DEF Number, Dot
  <2>. QED BY <2>1, <2>3
<1>. QED BY <1>3, <1>4, <1>5

(* Where the lines of the head of a mail stand. *)
HeaderFor(m, r, b) ==
  /\ r \in Nat \ {0} /\ b \in Nat
  /\ Header(m) \in Seq(LineSet) /\ IsLines(Header(m)) /\ Len(Header(m)) = r + b + 6
  /\ Header(m)[1] = <<"SEND">> /\ Header(m)[2] = m.sender
  /\ \A i \in 1..r : Header(m)[2 + i] = m.receivers[i]
  /\ Header(m)[r + 3] = Eot /\ Header(m)[r + 4] = m.title
  /\ \A i \in 1..b : Header(m)[r + 4 + i] = m.body[i]
  /\ Header(m)[r + b + 5] = Dot /\ Header(m)[r + b + 6] = Number(Len(m.attachments))

LEMMA HeaderIs ==
  ASSUME NEW m, Writable(m)
  PROVE  HeaderFor(m, Len(m.receivers), Len(m.body))
<1>0. PICK r, b : r = Len(m.receivers) /\ b = Len(m.body)
  OBVIOUS
<1>1. /\ m.sender \in LineSet /\ m.title \in LineSet
      /\ m.receivers \in Seq(LineSet) /\ m.receivers # <<>> /\ m.body \in Seq(LineSet)
      /\ Len(m.attachments) \in 0..9
  BY WritableIs
<1>2. r \in Nat \ {0} /\ b \in Nat
  BY <1>0, <1>1, LenProperties, EmptySeq
<1>3. PICK n, s : n = Number(Len(m.attachments)) /\ s = <<"SEND">>
  OBVIOUS
<1>4. s \in LineSet /\ Eot \in LineSet /\ Dot \in LineSet /\ n \in LineSet
  BY <1>1, <1>3, MarksAre DEF Types
<1>5. PICK p, q, t : p = <<s, m.sender>> /\ q = <<Eot, m.title>> /\ t = <<Dot, n>>
  OBVIOUS
<1>6. /\ p \in Seq(LineSet) /\ Len(p) = 2 /\ p[1] = s /\ p[2] = m.sender
      /\ q \in Seq(LineSet) /\ Len(q) = 2 /\ q[1] = Eot /\ q[2] = m.title
      /\ t \in Seq(LineSet) /\ Len(t) = 2 /\ t[1] = Dot /\ t[2] = n
  BY <1>1, <1>4, <1>5
<1>7. PICK x : x = p \o m.receivers
  OBVIOUS
<1>8. /\ x \in Seq(LineSet) /\ Len(x) = 2 + r /\ x[1] = s /\ x[2] = m.sender
      /\ \A i \in 1..r : x[2 + i] = m.receivers[i]
  <2>1. /\ x \in Seq(LineSet) /\ Len(x) = Len(p) + Len(m.receivers)
        /\ \A i \in 1..Len(p) : x[i] = p[i]
        /\ \A i \in 1..Len(m.receivers) : x[Len(p) + i] = m.receivers[i]
    <3>1. p \in Seq(LineSet) /\ m.receivers \in Seq(LineSet)
      BY <1>1, <1>6, <1>7
    <3>. QED BY <1>7, <3>1, LinePlaces
  <2>2. 1 \in 1..Len(p) /\ 2 \in 1..Len(p)
    BY <1>6
  <2>. QED BY <1>0, <1>6, <2>1, <2>2
<1>9. PICK y : y = x \o q
  OBVIOUS
<1>10. /\ y \in Seq(LineSet) /\ Len(y) = r + 4 /\ y[1] = s /\ y[2] = m.sender
       /\ \A i \in 1..r : y[2 + i] = m.receivers[i]
       /\ y[r + 3] = Eot /\ y[r + 4] = m.title
  <2>1. /\ y \in Seq(LineSet) /\ Len(y) = Len(x) + Len(q)
        /\ \A i \in 1..Len(x) : y[i] = x[i]
        /\ \A i \in 1..Len(q) : y[Len(x) + i] = q[i]
    <3>1. x \in Seq(LineSet) /\ q \in Seq(LineSet)
      BY <1>6, <1>8, <1>9
    <3>. QED BY <1>9, <3>1, LinePlaces
  <2>2. 1 \in 1..Len(x) /\ 2 \in 1..Len(x) /\ 1 \in 1..Len(q) /\ 2 \in 1..Len(q)
        /\ Len(x) + 1 = r + 3 /\ Len(x) + 2 = r + 4 /\ \A i \in 1..r : 2 + i \in 1..Len(x)
    BY <1>2, <1>6, <1>8
  <2>. QED BY <1>2, <1>6, <1>8, <2>1, <2>2
<1>11. PICK z : z = y \o m.body
  OBVIOUS
<1>12. /\ z \in Seq(LineSet) /\ Len(z) = r + b + 4 /\ z[1] = s /\ z[2] = m.sender
       /\ \A i \in 1..r : z[2 + i] = m.receivers[i]
       /\ z[r + 3] = Eot /\ z[r + 4] = m.title
       /\ \A i \in 1..b : z[r + 4 + i] = m.body[i]
  <2>1. /\ z \in Seq(LineSet) /\ Len(z) = Len(y) + Len(m.body)
        /\ \A i \in 1..Len(y) : z[i] = y[i]
        /\ \A i \in 1..Len(m.body) : z[Len(y) + i] = m.body[i]
    <3>1. y \in Seq(LineSet) /\ m.body \in Seq(LineSet)
      BY <1>1, <1>10, <1>11
    <3>. QED BY <1>11, <3>1, LinePlaces
  <2>2. 1 \in 1..Len(y) /\ 2 \in 1..Len(y) /\ r + 3 \in 1..Len(y) /\ r + 4 \in 1..Len(y)
        /\ \A i \in 1..r : 2 + i \in 1..Len(y)
    BY <1>2, <1>10
  <2>3. z[1] = s /\ z[2] = m.sender /\ z[r + 3] = Eot /\ z[r + 4] = m.title
        /\ \A i \in 1..r : z[2 + i] = m.receivers[i]
    BY <1>10, <2>1, <2>2
  <2>4. Len(z) = r + b + 4 /\ \A i \in 1..b : z[r + 4 + i] = m.body[i]
    <3>1. PICK k, l : k = Len(y) /\ l = Len(z)
      OBVIOUS
    <3>2. k = r + 4 /\ l = k + b /\ \A i \in 1..b : z[k + i] = m.body[i]
      BY <1>0, <1>10, <2>1, <3>1
    <3>3. l = r + b + 4
      BY <1>2, <3>2
    <3>. QED BY <3>1, <3>2, <3>3
  <2>. QED BY <2>1, <2>3, <2>4
<1>13. PICK h : h = z \o t
  OBVIOUS
<1>14. /\ h \in Seq(LineSet) /\ Len(h) = r + b + 6 /\ h[1] = s /\ h[2] = m.sender
       /\ \A i \in 1..r : h[2 + i] = m.receivers[i]
       /\ h[r + 3] = Eot /\ h[r + 4] = m.title
       /\ \A i \in 1..b : h[r + 4 + i] = m.body[i]
       /\ h[r + b + 5] = Dot /\ h[r + b + 6] = n
  <2>1. /\ h \in Seq(LineSet) /\ Len(h) = Len(z) + Len(t)
        /\ \A i \in 1..Len(z) : h[i] = z[i]
        /\ \A i \in 1..Len(t) : h[Len(z) + i] = t[i]
    <3>1. z \in Seq(LineSet) /\ t \in Seq(LineSet)
      BY <1>6, <1>12, <1>13
    <3>. QED BY <1>13, <3>1, LinePlaces
  <2>0. PICK l : l = Len(z) /\ l = r + b + 4
    BY <1>12
  <2>2. 1 \in 1..l /\ 2 \in 1..l /\ r + 3 \in 1..l /\ r + 4 \in 1..l
    BY <1>2, <2>0
  <2>3. (\A i \in 1..r : 2 + i \in 1..l) /\ (\A i \in 1..b : r + 4 + i \in 1..l)
    BY <1>2, <2>0
  <2>4. 1 \in 1..Len(t) /\ 2 \in 1..Len(t) /\ Len(z) + 1 = r + b + 5 /\ Len(z) + 2 = r + b + 6
    BY <1>2, <1>6, <1>12
  <2>5. h[1] = s /\ h[2] = m.sender /\ h[r + 3] = Eot /\ h[r + 4] = m.title
    BY <1>12, <2>0, <2>1, <2>2
  <2>6. (\A i \in 1..r : h[2 + i] = m.receivers[i]) /\ (\A i \in 1..b : h[r + 4 + i] = m.body[i])
    BY <1>12, <2>0, <2>1, <2>3
  <2>7. h[r + b + 5] = Dot /\ h[r + b + 6] = n
    BY <1>6, <2>1, <2>4
  <2>8. Len(h) = r + b + 6
    BY <1>2, <1>6, <1>12, <2>1
  <2>. QED BY <2>1, <2>5, <2>6, <2>7, <2>8
<1>15. Header(m) = h
  BY <1>3, <1>5, <1>7, <1>9, <1>11, <1>13 DEF Header
<1>16. IsLines(h)
  <2>1. \A k \in 1..Len(h) : h[k] \in LineSet
    BY <1>14, ElementOfSeq
  <2>2. h \in Seq(Texts)
    BY <1>14, SeqMonotonic, LineSet \subseteq Texts DEF LineSet
  <2>. QED BY <2>1, <2>2 DEF IsLines, LineSet
<1>17. HeaderFor(m, r, b)
  BY <1>2, <1>3, <1>14, <1>15, <1>16 DEF HeaderFor
<1>. QED BY <1>0, <1>17

-----------------------------------------------------------------------------
TextInflated(s, ls) ==
  LET type == LineOf(ls, 1)
  IN  CASE type = <<"SEND">>  -> InflateLines(s, ls)
        [] type = <<"LIST">>  -> InflateList(ls)
        [] type = <<"LOGIN">> -> InflateLogin(ls)
        [] type = <<"QUIT">>  -> [type |-> "QUIT"]
        [] type \in {<<"READ">>, <<"DEL">>} -> InflateIndex(ls)

LEMMA InflateTextIs ==
  ASSUME NEW s
  PROVE  InflateText(s) = TextInflated(s, Lines(s))
<1> DEFINE F(ls) == TextInflated(s, ls)
<1>1. PICK ls : ls = Lines(s)
  OBVIOUS
<1>2. InflateText(s) = CHOOSE y \in {F(z) : z \in {ls}} : TRUE
  BY <1>1 DEF InflateText, With, TextInflated
<1>3. F(ls) = TextInflated(s, Lines(s))
  BY <1>1
<1> HIDE DEF F
<1>4. {F(z) : z \in {ls}} = {F(ls)}
  OBVIOUS
<1>. QED BY <1>2, <1>3, <1>4, TheOne

LEMMA InflateIs == ASSUME NEW data PROVE Inflate(data) = InflateText(Text(data))
<1>1. PICK s : s = Text(data)
  OBVIOUS
<1>2. {InflateText(z) : z \in {s}} = {InflateText(s)}
  OBVIOUS
<1>. QED BY <1>1, <1>2, TheOne DEF Inflate, With

Found(m, found) ==
  IF found.ok THEN Mail(m.sender, m.receivers, m.title, m.body, found.list) ELSE Malformed

LEMMA InflateMail ==
  ASSUME NEW m, Writable(m), Eot \notin ToSet(m.receivers), NEW b \in Texts
  PROVE  InflateText(Text(Header(m)) \o b) = Found(m, Attachments(b, Len(m.attachments)))
<1>1. PICK h, s, ls, r, c : /\ h = Header(m) /\ s = Text(h) \o b /\ ls = Lines(s)
                            /\ r = Len(m.receivers) /\ c = Len(m.body)
  OBVIOUS
<1>2. /\ r \in Nat \ {0} /\ c \in Nat
      /\ h \in Seq(LineSet) /\ IsLines(h) /\ Len(h) = r + c + 6
      /\ h[1] = <<"SEND">> /\ h[2] = m.sender
      /\ \A i \in 1..r : h[2 + i] = m.receivers[i]
      /\ h[r + 3] = Eot /\ h[r + 4] = m.title
      /\ \A i \in 1..c : h[r + 4 + i] = m.body[i]
      /\ h[r + c + 5] = Dot /\ h[r + c + 6] = Number(Len(m.attachments))
  BY <1>1, HeaderIs DEF HeaderFor
<1>3. /\ m.receivers \in Seq(LineSet) /\ m.body \in Seq(LineSet)
      /\ Len(m.attachments) \in 0..9 /\ \A i \in 1..Len(m.body) : m.body[i] # Dot
  BY WritableIs
<1>4. PICK n : n = Len(ls)
  OBVIOUS
<1>5. n \in Nat /\ DOMAIN ls = 1..n /\ n >= r + c + 6 /\ \A k \in 1..(r + c + 6) : ls[k] = h[k]
  <2>1. /\ Len(Lines(Text(h) \o b)) \in Nat
        /\ DOMAIN Lines(Text(h) \o b) = 1..Len(Lines(Text(h) \o b))
        /\ Len(Lines(Text(h) \o b)) >= Len(h)
        /\ \A k \in 1..Len(h) : Lines(Text(h) \o b)[k] = h[k]
    BY <1>2, LinesOfText
  <2>2. Lines(Text(h) \o b) = ls
    BY <1>1
  <2>. QED BY <1>2, <1>4, <2>1, <2>2
<1>6. /\ ls[1] = <<"SEND">> /\ ls[2] = m.sender /\ ls[r + 3] = Eot /\ ls[r + 4] = m.title
      /\ ls[r + c + 5] = Dot /\ ls[r + c + 6] = Number(Len(m.attachments))
      /\ \A k \in {1, 2, r + 3, r + 4, r + c + 5, r + c + 6} : k \in 1..n
  <2>1. \A k \in {1, 2, r + 3, r + 4, r + c + 5, r + c + 6} : k \in 1..(r + c + 6) /\ k \in 1..n
    BY <1>2, <1>5
  <2>. QED BY <1>2, <1>5, <2>1
<1>7. \A i \in 1..r : ls[2 + i] = m.receivers[i]
  <2>1. \A i \in 1..r : 2 + i \in 1..(r + c + 6)
    BY <1>2
  <2>. QED BY <1>2, <1>5, <2>1
<1>8. \A i \in 1..c : ls[r + 4 + i] = m.body[i]
  <2>1. \A i \in 1..c : r + 4 + i \in 1..(r + c + 6)
    BY <1>2
  <2>. QED BY <1>2, <1>5, <2>1
<1>9. Has(ls, 3, Eot) /\ First(ls, 3, Eot) = r + 3
  <2>1. ASSUME NEW j \in 3..((r + 3) - 1) PROVE ls[j] # Eot
    <3>1. j - 2 \in 1..r /\ 2 + (j - 2) = j
      BY <1>2
    <3>2. m.receivers[j - 2] \in ToSet(m.receivers)
      BY <1>1, <1>3, <3>1, SetOf
    <3>3. ls[j] = m.receivers[j - 2]
      BY <1>7, <3>1
    <3>. QED BY <3>2, <3>3
  <2>2. r + 3 \in 3..Len(ls) /\ Len(ls) \in Nat /\ 3 \in Nat
    BY <1>2, <1>4, <1>5
  <2>. QED BY <1>6, <2>1, <2>2, FirstIs
<1>10. Has(ls, r + 5, Dot) /\ First(ls, r + 5, Dot) = r + c + 5
  <2>1. ASSUME NEW j \in (r + 5)..((r + c + 5) - 1) PROVE ls[j] # Dot
    <3>0. r \in Nat /\ c \in Nat /\ j \in Int /\ r + 5 <= j /\ j <= r + c + 4
      BY <1>2, <2>1
    <3>1. j - (r + 4) \in 1..c /\ r + 4 + (j - (r + 4)) = j
      BY <3>0
    <3>2. m.body[j - (r + 4)] # Dot
      BY <1>1, <1>3, <3>1
    <3>. QED BY <1>8, <3>1, <3>2
  <2>2. r + c + 5 \in (r + 5)..Len(ls) /\ Len(ls) \in Nat /\ r + 5 \in Nat
    BY <1>2, <1>4, <1>5
  <2>. QED BY <1>6, <2>1, <2>2, FirstIs
<1>11. SubSeq(ls, 3, (r + 3) - 1) = m.receivers
  <2>1. 2 + 1 = 3 /\ 2 + r = (r + 3) - 1 /\ 2 \in Nat
    BY <1>2
  <2>2. SubSeq(ls, 2 + 1, 2 + Len(m.receivers)) = m.receivers
    BY <1>1, <1>3, <1>7, SameSub
  <2>. QED BY <1>1, <2>1, <2>2
<1>12. SubSeq(ls, r + 5, (r + c + 5) - 1) = m.body
  <2>1. PICK u : u = r + 4
    OBVIOUS
  <2>2. u \in Nat /\ u + 1 = r + 5 /\ u + c = (r + c + 5) - 1
    <3>1. r \in Nat /\ c \in Nat
      BY <1>2
    <3>. QED BY <2>1, <3>1
  <2>3. \A i \in 1..Len(m.body) : ls[u + i] = m.body[i]
    BY <1>1, <1>8, <2>1
  <2>4. SubSeq(ls, u + 1, u + Len(m.body)) = m.body
    BY <1>3, <2>2, <2>3, SameSub
  <2>. QED BY <1>1, <2>2, <2>4
<1>13. SubSeq(ls, 1, r + c + 6) = h
  <2>1. 0 + 1 = 1 /\ 0 + Len(h) = r + c + 6 /\ 0 \in Nat
    BY <1>2
  <2>2. \A i \in 1..Len(h) : ls[0 + i] = h[i]
    BY <1>2, <1>5
  <2>3. SubSeq(ls, 0 + 1, 0 + Len(h)) = h
    BY <1>2, <2>1, <2>2, SameSub
  <2>. QED BY <2>1, <2>3
<1>14. SubSeq(s, Len(Text(h)) + 1, Len(s)) = b
  <2>1. Text(h) \in Texts
    <3>1. h \in Seq(Seq(Symbol)) /\ NL \in Symbol
      BY <1>2, Marks DEF IsLines, Texts
    <3>. QED BY <3>1, TextConcat DEF Texts
  <2>. QED BY <1>1, <2>1, TextCut
<1>15. PICK eot, dot, num, w : eot = r + 3 /\ dot = r + c + 5 /\ num = Len(m.attachments)
                               /\ w = Attachments(b, num)
  OBVIOUS
<1>16. /\ eot + 1 = r + 4 /\ eot + 2 = r + 5 /\ dot + 1 = r + c + 6
  BY <1>2, <1>15
<1>17. /\ LineOf(ls, 1) = <<"SEND">> /\ LineOf(ls, 2) = m.sender /\ LineOf(ls, eot + 1) = m.title
       /\ LineOf(ls, dot + 1) = Number(num)
  BY <1>5, <1>6, <1>15, <1>16 DEF LineOf
<1>18. IsNumber(Number(num)) /\ Value(Number(num)) = num
  BY <1>3, <1>15, NumberIs
<1> DEFINE F(found) == Found(m, found)
<1>19. InflateLines(s, ls) = CHOOSE y \in {F(z) : z \in {w}} : TRUE
  <2>1. First(ls, 3, Eot) = eot /\ First(ls, eot + 2, Dot) = dot /\ Has(ls, 3, Eot) /\ Has(ls, eot + 2, Dot)
    BY <1>9, <1>10, <1>15, <1>16
  <2>2. SubSeq(ls, 3, eot - 1) = m.receivers /\ SubSeq(ls, eot + 2, dot - 1) = m.body
    BY <1>11, <1>12, <1>15, <1>16
  <2>3. Len(Text(SubSeq(ls, 1, dot + 1))) = Len(Text(h))
    BY <1>13, <1>16
  <2>4. Attachments(SubSeq(s, Len(Text(SubSeq(ls, 1, dot + 1))) + 1, Len(s)), Value(LineOf(ls, dot + 1))) = w
    BY <1>14, <1>15, <1>17, <1>18, <2>3
  <2>. QED BY <1>17, <1>18, <2>1, <2>2, <2>4, ZenonT(60) DEF InflateLines, With, Found
<1>20. F(w) = Found(m, w)
  OBVIOUS
<1> HIDE DEF F
<1>21. {F(z) : z \in {w}} = {F(w)}
  OBVIOUS
<1>22. InflateLines(s, ls) = Found(m, w)
  BY <1>19, <1>20, <1>21, TheOne
<1>23. TextInflated(s, ls) = InflateLines(s, ls)
  BY <1>17 DEF TextInflated
<1>. QED BY <1>1, <1>15, <1>22, <1>23, InflateTextIs

-----------------------------------------------------------------------------
(* What the parser becomes with a line, state by state. *)
Parser(s, t, n, a, d) == [state |-> s, type |-> t, total |-> n, awaiting |-> a, data |-> d]

LEMMA FinishIs ==
  ASSUME NEW p
  PROVE  Finish(p) = [parser |-> [p EXCEPT !.data = IF Clean(Inflate(p.data)) THEN <<>> ELSE @],
                      got |-> Inflate(p.data)]
<1> DEFINE F(m) == [parser |-> [p EXCEPT !.data = IF Clean(m) THEN <<>> ELSE @], got |-> m]
<1>1. PICK m : m = Inflate(p.data)
  OBVIOUS
<1>2. Finish(p) = CHOOSE y \in {F(z) : z \in {m}} : TRUE
  BY <1>1 DEF Finish, With
<1> HIDE DEF F
<1>3. {F(z) : z \in {m}} = {F(m)}
  OBVIOUS
<1>4. Finish(p) = F(m)
  BY <1>2, <1>3, TheOne
<1>. QED BY <1>1, <1>4 DEF F

(* A message is made of the data, which is dropped if that throws nothing. *)
Finished(t, n, a, d) ==
  [parser |-> Parser("new", t, n, a, IF Clean(Inflate(d)) THEN <<>> ELSE d), got |-> Inflate(d)]

LEMMA FinishedIs ==
  ASSUME NEW t, NEW n, NEW a, NEW d
  PROVE  Finish(Parser("new", t, n, a, d)) = Finished(t, n, a, d)
<1>1. PICK p : p = Parser("new", t, n, a, d)
  OBVIOUS
<1>2. p.data = d
  BY <1>1 DEF Parser
<1>3. PICK m, e : m = Inflate(d) /\ e = IF Clean(m) THEN <<>> ELSE d
  OBVIOUS
<1>4. Finish(p) = [parser |-> [p EXCEPT !.data = IF Clean(m) THEN <<>> ELSE @], got |-> m]
  BY <1>2, <1>3, FinishIs
<1>5. [p EXCEPT !.data = IF Clean(m) THEN <<>> ELSE @] = Parser("new", t, n, a, e)
  BY <1>1, <1>3 DEF Parser
<1>. QED BY <1>1, <1>3, <1>4, <1>5 DEF Finished

LEMMA DigestNewIs ==
  ASSUME NEW t, NEW n, NEW d, NEW line, NEW p, p = Parser("new", t, n, 0, d)
  PROVE  /\ \A u \in Types \ {"QUIT"} : line = <<u>> =>
               Digest(p, line) = Continue(Parser("parsing", u, TotalLines(u), 0, Append(d, line)))
         /\ line = <<"QUIT">> => Digest(p, line) = Finished("QUIT", n, 0, Append(d, line))
         /\ (\A u \in Types : line # <<u>>) =>
               Digest(p, line) = Continue(Parser("new", "none", n, 0, d))
<1>1. PICK u : u = IF \E x \in Types : line = <<x>> THEN line[1] ELSE "none"
  OBVIOUS
<1>2. PICK e : e = Append(d, line)
  OBVIOUS
<1>3. p.state = "new" /\ p.data = d
  BY DEF Parser
<1>4. Digest(p, line) = DigestNew(p, line)
  BY <1>3 DEF Digest
<1>5. [p EXCEPT !.type = u] = Parser("new", u, n, 0, d)
  BY DEF Parser
<1>6. [p EXCEPT !.type = u, !.data = Append(@, line)] = Parser("new", u, n, 0, e)
  <2>1. PICK q : q = [p EXCEPT !.type = u]
    OBVIOUS
  <2>2. q = Parser("new", u, n, 0, d)
    BY <1>5, <2>1
  <2>3. [q EXCEPT !.data = e] = Parser("new", u, n, 0, e)
    BY <2>2 DEF Parser
  <2>4. [p EXCEPT !.type = u, !.data = e] = [[p EXCEPT !.type = u] EXCEPT !.data = e]
    OBVIOUS
  <2>. QED BY <1>2, <1>3, <2>1, <2>3, <2>4
<1>7. ASSUME NEW v \in Types, line = <<v>> PROVE u = v
  BY <1>1, <1>7
<1>8. ASSUME NEW v \in Types \ {"QUIT"}, line = <<v>>
      PROVE  Digest(p, line) = Continue(Parser("parsing", v, TotalLines(v), 0, Append(d, line)))
  <2>1. u = v /\ u # "none" /\ u # "QUIT"
    BY <1>7, <1>8 DEF Types
  <2>2. PICK b : b = [p EXCEPT !.type = u, !.data = Append(@, line)]
    OBVIOUS
  <2>3. DigestNew(p, line) = Continue([b EXCEPT !.state = "parsing", !.total = TotalLines(u)])
    BY <1>1, <2>1, <2>2 DEF DigestNew
  <2>4. b = Parser("new", u, n, 0, e)
    BY <1>6, <2>2
  <2>5. [b EXCEPT !.state = "parsing", !.total = TotalLines(u)] = Parser("parsing", u, TotalLines(u), 0, e)
    <3>1. PICK c, k : c = [b EXCEPT !.state = "parsing"] /\ k = TotalLines(u)
      OBVIOUS
    <3>2. c = Parser("parsing", u, n, 0, e)
      BY <2>4, <3>1 DEF Parser
    <3>3. [c EXCEPT !.total = k] = Parser("parsing", u, k, 0, e)
      BY <3>2 DEF Parser
    <3>4. [b EXCEPT !.state = "parsing", !.total = k] = [[b EXCEPT !.state = "parsing"] EXCEPT !.total = k]
      OBVIOUS
    <3>. QED BY <3>1, <3>3, <3>4
  <2>. QED BY <1>2, <1>4, <2>1, <2>3, <2>5
<1>9. ASSUME line = <<"QUIT">>
      PROVE  Digest(p, line) = Finished("QUIT", n, 0, Append(d, line))
  <2>1. u = "QUIT" /\ u # "none"
    BY <1>7, <1>9 DEF Types
  <2>2. DigestNew(p, line) = Finish([p EXCEPT !.type = u, !.data = Append(@, line)])
    BY <1>1, <2>1 DEF DigestNew
  <2>. QED BY <1>2, <1>4, <1>6, <2>1, <2>2, FinishedIs
<1>10. ASSUME \A v \in Types : line # <<v>>
       PROVE  Digest(p, line) = Continue(Parser("new", "none", n, 0, d))
  <2>1. u = "none"
    BY <1>1, <1>10
  <2>2. DigestNew(p, line) = Continue([p EXCEPT !.type = u])
    BY <1>1, <2>1 DEF DigestNew
  <2>. QED BY <1>4, <1>5, <2>1, <2>2
<1>. QED BY <1>8, <1>9, <1>10

LEMMA DigestParsingIs ==
  ASSUME NEW t, NEW n \in Int, NEW d, NEW line, NEW p, p = Parser("parsing", t, n, 0, d)
  PROVE  /\ t = "SEND" =>
              Digest(p, line) = Continue(Parser(IF n - 1 < 0 /\ line = Dot THEN "attachments" ELSE "parsing",
                                                t, n - 1, 0, Append(d, line)))
         /\ t # "SEND" /\ n - 1 = 0 => Digest(p, line) = Finished(t, n - 1, 0, Append(d, line))
         /\ t # "SEND" /\ n - 1 # 0 =>
              Digest(p, line) = Continue(Parser("parsing", t, n - 1, 0, Append(d, line)))
<1>1. p.state = "parsing" /\ p.type = t /\ p.total = n /\ p.data = d
  BY DEF Parser
<1>2. PICK e : e = Append(d, line)
  OBVIOUS
<1>3. PICK next : next = [p EXCEPT !.data = Append(@, line), !.total = @ - 1]
  OBVIOUS
<1>4. next = Parser("parsing", t, n - 1, 0, e) /\ next.total = n - 1
  BY <1>2, <1>3 DEF Parser
<1>5. Digest(p, line) = DigestParsing(p, line)
  BY <1>1 DEF Digest
<1>6. ASSUME t = "SEND"
      PROVE  Digest(p, line) = Continue(Parser(IF n - 1 < 0 /\ line = Dot THEN "attachments" ELSE "parsing",
                                                t, n - 1, 0, Append(d, line)))
  <2>1. PICK u : u = IF n - 1 < 0 /\ line = Dot THEN "attachments" ELSE "parsing"
    OBVIOUS
  <2>2. next.state = "parsing"
    BY <1>4 DEF Parser
  <2>3. PICK v : v = IF next.total < 0 /\ line = Dot THEN "attachments" ELSE next.state
    OBVIOUS
  <2>4. u = v
    BY <1>4, <2>1, <2>2, <2>3
  <2>5. [next EXCEPT !.state = v] = Parser(v, t, n - 1, 0, e)
    BY <1>4 DEF Parser
  <2>6. DigestParsing(p, line) = Continue([next EXCEPT !.state = IF next.total < 0 /\ line = Dot
                                                                 THEN "attachments" ELSE @])
    BY <1>1, <1>3, <1>6 DEF DigestParsing
  <2>7. [next EXCEPT !.state = IF next.total < 0 /\ line = Dot THEN "attachments" ELSE @]
          = [next EXCEPT !.state = v]
    BY <2>3
  <2>. QED BY <1>2, <1>5, <2>1, <2>4, <2>5, <2>6, <2>7
<1>7. ASSUME t # "SEND", n - 1 = 0
      PROVE  Digest(p, line) = Finished(t, n - 1, 0, Append(d, line))
  <2>1. [next EXCEPT !.state = "new"] = Parser("new", t, n - 1, 0, e)
    BY <1>4 DEF Parser
  <2>2. DigestParsing(p, line) = Finish([next EXCEPT !.state = "new"])
    BY <1>1, <1>3, <1>4, <1>7 DEF DigestParsing
  <2>. QED BY <1>2, <1>5, <2>1, <2>2, FinishedIs
<1>8. ASSUME t # "SEND", n - 1 # 0
      PROVE  Digest(p, line) = Continue(Parser("parsing", t, n - 1, 0, Append(d, line)))
  <2>1. DigestParsing(p, line) = Continue(next)
    BY <1>1, <1>3, <1>4, <1>8 DEF DigestParsing
  <2>. QED BY <1>2, <1>4, <1>5, <2>1
<1>. QED BY <1>6, <1>7, <1>8

LEMMA DigestAttachmentsIs ==
  ASSUME NEW t, NEW n \in Int, NEW a, NEW d, NEW line, NEW p, p = Parser("attachments", t, n, a, d)
  PROVE  /\ n - 1 < 0 /\ IsNumber(line) =>
              Digest(p, line) = IF Value(line) * 3 = 0 THEN Finished(t, Value(line) * 3, a, Append(d, line))
                                ELSE Continue(Parser("attachments", t, Value(line) * 3, a, Append(d, line)))
         /\ n - 1 >= 0 /\ (n - 1) % 3 = 1 /\ IsNumber(line) =>
              Digest(p, line) = Continue(Parser("attachments", t, n - 1, Value(line), Append(d, line)))
         /\ n - 1 >= 0 /\ (n - 1) % 3 = 0 =>
              Digest(p, line) = IF n - 1 = 0 THEN Finished(t, n - 1, 0, Append(d, line))
                                ELSE Continue(Parser("attachments", t, n - 1, 0, Append(d, line)))
         /\ n - 1 >= 0 /\ (n - 1) % 3 = 2 =>
              Digest(p, line) = Continue(Parser("attachments", t, n - 1, a, Append(d, line)))
         /\ (n - 1 < 0 \/ (n - 1) % 3 = 1) /\ ~IsNumber(line) =>
              Digest(p, line) = Finished(t, n - 1, a, Append(d, line))
<1>1. p.state = "attachments" /\ p.type = t /\ p.total = n /\ p.data = d
  BY DEF Parser
<1>2. PICK e : e = Append(d, line)
  OBVIOUS
<1>3. PICK next : next = [p EXCEPT !.data = Append(@, line), !.total = @ - 1]
  OBVIOUS
<1>4. next = Parser("attachments", t, n - 1, a, e) /\ next.total = n - 1
  BY <1>2, <1>3 DEF Parser
<1> DEFINE count == n - 1 < 0
           size  == n - 1 >= 0 /\ (n - 1) % 3 = 1
           bytes == n - 1 >= 0 /\ (n - 1) % 3 = 0
<1>5. PICK read : read = IF (count \/ size) /\ ~IsNumber(line) THEN [next EXCEPT !.state = "new"]
                         ELSE IF count THEN [next EXCEPT !.total = Value(line) * 3]
                         ELSE IF size THEN [next EXCEPT !.awaiting = Value(line)]
                         ELSE IF bytes THEN BytesRead(next)
                         ELSE next
  OBVIOUS
<1>6. Digest(p, line) = IF read.total = 0 \/ read.state = "new"
                        THEN Finish([read EXCEPT !.state = "new"]) ELSE Continue(read)
  <2>1. Digest(p, line) = DigestAttachments(p, line)
    BY <1>1 DEF Digest
  <2>2. next.total = n - 1
    BY <1>4
  <2>3. DigestAttachments(p, line) = IF read.total = 0 \/ read.state = "new"
                                     THEN Finish([read EXCEPT !.state = "new"]) ELSE Continue(read)
    BY <1>3, <1>5, <2>2 DEF DigestAttachments
  <2>. QED BY <2>1, <2>3
<1>7. ASSUME NEW s, NEW i, NEW b, read = Parser(s, t, i, b, e)
      PROVE  Digest(p, line) = IF i = 0 \/ s = "new" THEN Finished(t, i, b, e)
                               ELSE Continue(Parser(s, t, i, b, e))
  <2>1. read.total = i /\ read.state = s
    BY <1>7 DEF Parser
  <2>2. [read EXCEPT !.state = "new"] = Parser("new", t, i, b, e)
    BY <1>7 DEF Parser
  <2>. QED BY <1>6, <1>7, <2>1, <2>2, FinishedIs
<1>8. ASSUME count, IsNumber(line)
      PROVE  Digest(p, line) = IF Value(line) * 3 = 0 THEN Finished(t, Value(line) * 3, a, e)
                               ELSE Continue(Parser("attachments", t, Value(line) * 3, a, e))
  <2>1. PICK k : k = Value(line) * 3
    OBVIOUS
  <2>2. read = Parser("attachments", t, k, a, e)
    BY <1>4, <1>5, <1>8, <2>1 DEF Parser
  <2>. QED BY <1>7, <2>1, <2>2
<1>9. ASSUME size, IsNumber(line)
      PROVE  Digest(p, line) = Continue(Parser("attachments", t, n - 1, Value(line), e))
  <2>1. PICK k : k = Value(line)
    OBVIOUS
  <2>2. read = Parser("attachments", t, n - 1, k, e)
    BY <1>4, <1>5, <1>9, <2>1 DEF Parser
  <2>3. n - 1 # 0
    BY <1>9
  <2>. QED BY <1>7, <2>1, <2>2, <2>3
<1>10. ASSUME bytes
       PROVE  Digest(p, line) = IF n - 1 = 0 THEN Finished(t, n - 1, 0, e)
                                ELSE Continue(Parser("attachments", t, n - 1, 0, e))
  <2>1. ~count /\ ~size
    BY <1>10
  <2>2. read = Parser("attachments", t, n - 1, 0, e)
    BY <1>4, <1>5, <1>10, <2>1 DEF Parser, BytesRead
  <2>. QED BY <1>7, <2>2
<1>11. ASSUME n - 1 >= 0, (n - 1) % 3 = 2
       PROVE  Digest(p, line) = Continue(Parser("attachments", t, n - 1, a, e))
  <2>1. ~count /\ ~size /\ ~bytes /\ n - 1 # 0
    BY <1>11
  <2>2. read = Parser("attachments", t, n - 1, a, e)
    BY <1>4, <1>5, <2>1
  <2>. QED BY <1>7, <2>1, <2>2
<1>12. ASSUME n - 1 < 0 \/ (n - 1) % 3 = 1, ~IsNumber(line)
       PROVE  Digest(p, line) = Finished(t, n - 1, a, e)
  <2>1. count \/ size
    BY <1>12
  <2>2. read = Parser("new", t, n - 1, a, e)
    BY <1>4, <1>5, <1>12, <2>1 DEF Parser
  <2>. QED BY <1>7, <2>2
<1>. QED BY <1>2, <1>8, <1>9, <1>10, <1>11, <1>12

-----------------------------------------------------------------------------
(* The lines a message begins with, and the bytes behind them. *)
Leading(m) ==
  CASE m.type = "SEND"            -> Header(m)
    [] m.type = "LIST"            -> <<<<"LIST">>, m.user>>
    [] m.type \in {"READ", "DEL"} -> <<<<m.type>>, m.user, Number(m.index)>>
    [] m.type = "LOGIN"           -> <<<<"LOGIN">>, m.user, m.password>>
    [] m.type = "QUIT"            -> <<<<"QUIT">>>>

Trailing(m) == IF m.type = "SEND" THEN FilesText(m.attachments) ELSE <<>>

Words == {l \in LineSet : IsWord(l)}

(* The messages a client writes: mails, and the other requests. *)
Orders == [type : {"LIST"}, user : Words]
          \cup [type : {"READ", "DEL"}, user : Words, index : 0..9]
          \cup [type : {"LOGIN"}, user : Words, password : Words]
          \cup {[type |-> "QUIT"]}

LEMMA OrderIs ==
  ASSUME NEW m \in Orders
  PROVE  \/ \E u \in Words : m = [type |-> "LIST", user |-> u]
         \/ \E u \in Words, n \in 0..9, t \in {"READ", "DEL"} : m = [type |-> t, user |-> u, index |-> n]
         \/ \E u \in Words, w \in Words : m = [type |-> "LOGIN", user |-> u, password |-> w]
         \/ m = [type |-> "QUIT"]
<1>1. ASSUME m \in [type : {"LIST"}, user : Words]
      PROVE  \E u \in Words : m = [type |-> "LIST", user |-> u]
  BY <1>1
<1>2. ASSUME m \in [type : {"READ", "DEL"}, user : Words, index : 0..9]
      PROVE  \E u \in Words, n \in 0..9, t \in {"READ", "DEL"} : m = [type |-> t, user |-> u, index |-> n]
  BY <1>2
<1>3. ASSUME m \in [type : {"LOGIN"}, user : Words, password : Words]
      PROVE  \E u \in Words, w \in Words : m = [type |-> "LOGIN", user |-> u, password |-> w]
  BY <1>3
<1>. QED BY <1>1, <1>2, <1>3 DEF Orders

LEMMA LineSetLines ==
  ASSUME NEW ls \in Seq(LineSet)
  PROVE  /\ IsLines(ls) /\ ls \in Seq(Texts) /\ Text(ls) \in Texts /\ Len(ls) \in Nat
         /\ \A k \in 1..Len(ls) : ls[k] \in LineSet /\ IsLine(ls[k]) /\ ls[k] \in Texts
<1>1. \A k \in 1..Len(ls) : ls[k] \in LineSet
  OBVIOUS
<1>2. LineSet \subseteq Texts
  BY DEF LineSet
<1>3. ls \in Seq(Texts)
  BY <1>2
<1>4. \A k \in 1..Len(ls) : IsLine(ls[k]) /\ ls[k] \in Texts
  BY <1>1 DEF LineSet
<1>5. IsLines(ls)
  BY <1>3, <1>4 DEF IsLines
<1>6. Text(ls) \o <<>> \in Texts
  BY <1>5, TextStanding, TextsAre
<1>7. Text(ls) \in Texts
  BY <1>3, Marks, TextFrom, TextConcat, TextsAre DEF Texts
<1>. QED BY <1>1, <1>3, <1>4, <1>5, <1>7

LEMMA AfterText == ASSUME NEW t \in Texts PROVE t \o <<>> = t
BY DEF Texts

(* The lines found in a text made of lines. *)
LEMMA LinesBack ==
  ASSUME NEW ls \in Seq(LineSet)
  PROVE  \A k \in 1..Len(ls) : LineOf(Lines(Text(ls)), k) = ls[k]
<1>1. IsLines(ls) /\ Text(ls) \in Texts /\ Len(ls) \in Nat
  BY LineSetLines
<1>2. PICK s : s = Text(ls) \o <<>>
  OBVIOUS
<1>3. s = Text(ls)
  BY <1>1, <1>2, AfterText
<1>4. PICK x : x = Lines(s)
  OBVIOUS
<1>5. /\ Len(x) \in Nat /\ DOMAIN x = 1..Len(x) /\ Len(x) >= Len(ls)
      /\ \A k \in 1..Len(ls) : x[k] = ls[k]
  BY <1>1, <1>2, <1>4, LinesOfText, TextsAre
<1>6. \A k \in 1..Len(ls) : k \in DOMAIN x
  BY <1>1, <1>5
<1>. QED BY <1>3, <1>4, <1>5, <1>6 DEF LineOf

(* What an order is taken for, by its lines. *)
LEMMA OrderLines ==
  /\ \A u \in LineSet : Inflate(<<<<"LIST">>, u>>) = [type |-> "LIST", user |-> u]
  /\ \A u, w \in LineSet :
       Inflate(<<<<"LOGIN">>, u, w>>) = [type |-> "LOGIN", user |-> u, password |-> w]
  /\ \A t \in {"READ", "DEL"}, u \in LineSet, n \in 0..9 :
       Inflate(<<<<t>>, u, Number(n)>>) = [type |-> t, user |-> u, index |-> n]
  /\ Inflate(<<<<"QUIT">>>>) = [type |-> "QUIT"]
<1>1. \A t \in Types : <<t>> \in LineSet
  BY MarksAre
<1>2. ASSUME NEW u \in LineSet
      PROVE  Inflate(<<<<"LIST">>, u>>) = [type |-> "LIST", user |-> u]
  <2>1. PICK ls : ls = <<<<"LIST">>, u>>
    OBVIOUS
  <2>2. <<"LIST">> \in LineSet
    BY <1>1 DEF Types
  <2>3. ls \in Seq(LineSet) /\ Len(ls) = 2 /\ ls[1] = <<"LIST">> /\ ls[2] = u
    BY <2>1, <2>2
  <2>4. PICK x : x = Lines(Text(ls))
    OBVIOUS
  <2>5. LineOf(x, 1) = <<"LIST">> /\ LineOf(x, 2) = u
    <3>1. \A k \in 1..Len(ls) : LineOf(x, k) = ls[k]
      BY <2>3, <2>4, LinesBack
    <3>2. {1, 2} \subseteq 1..Len(ls)
      BY <2>3
    <3>. QED BY <2>3, <3>1, <3>2
  <2>6. TextInflated(Text(ls), x) = InflateList(x)
    BY <2>5 DEF TextInflated
  <2>7. Inflate(ls) = InflateList(x)
    BY <2>4, <2>6, InflateIs, InflateTextIs
  <2>. QED BY <2>1, <2>5, <2>7 DEF InflateList
<1>3. ASSUME NEW u \in LineSet, NEW w \in LineSet
      PROVE  Inflate(<<<<"LOGIN">>, u, w>>) = [type |-> "LOGIN", user |-> u, password |-> w]
  <2>1. PICK ls : ls = <<<<"LOGIN">>, u, w>>
    OBVIOUS
  <2>2. <<"LOGIN">> \in LineSet
    BY <1>1 DEF Types
  <2>3. ls \in Seq(LineSet) /\ Len(ls) = 3 /\ ls[1] = <<"LOGIN">> /\ ls[2] = u /\ ls[3] = w
    BY <2>1, <2>2
  <2>4. PICK x : x = Lines(Text(ls))
    OBVIOUS
  <2>5. LineOf(x, 1) = <<"LOGIN">> /\ LineOf(x, 2) = u /\ LineOf(x, 3) = w
    <3>1. \A k \in 1..Len(ls) : LineOf(x, k) = ls[k]
      BY <2>3, <2>4, LinesBack
    <3>2. {1, 2, 3} \subseteq 1..Len(ls)
      BY <2>3
    <3>. QED BY <2>3, <3>1, <3>2
  <2>6. TextInflated(Text(ls), x) = InflateLogin(x)
    BY <2>5 DEF TextInflated
  <2>7. Inflate(ls) = InflateLogin(x)
    BY <2>4, <2>6, InflateIs, InflateTextIs
  <2>. QED BY <2>1, <2>5, <2>7 DEF InflateLogin
<1>4. ASSUME NEW t \in {"READ", "DEL"}, NEW u \in LineSet, NEW n \in 0..9
      PROVE  Inflate(<<<<t>>, u, Number(n)>>) = [type |-> t, user |-> u, index |-> n]
  <2>1. PICK ls, num : num = Number(n) /\ ls = <<<<t>>, u, num>>
    OBVIOUS
  <2>2. <<t>> \in LineSet /\ num \in LineSet
    BY <1>1, <2>1, MarksAre DEF Types
  <2>3. ls \in Seq(LineSet) /\ Len(ls) = 3 /\ ls[1] = <<t>> /\ ls[2] = u /\ ls[3] = num
    BY <2>1, <2>2
  <2>4. PICK x : x = Lines(Text(ls))
    OBVIOUS
  <2>5. LineOf(x, 1) = <<t>> /\ LineOf(x, 2) = u /\ LineOf(x, 3) = num
    <3>1. \A k \in 1..Len(ls) : LineOf(x, k) = ls[k]
      BY <2>3, <2>4, LinesBack
    <3>2. {1, 2, 3} \subseteq 1..Len(ls)
      BY <2>3
    <3>. QED BY <2>3, <3>1, <3>2
  <2>6. TextInflated(Text(ls), x) = InflateIndex(x)
    <3>1. LineOf(x, 1) \notin {<<"SEND">>, <<"LIST">>, <<"LOGIN">>, <<"QUIT">>}
      BY <2>5
    <3>. QED BY <2>5, <3>1 DEF TextInflated
  <2>7. Inflate(ls) = InflateIndex(x)
    BY <2>4, <2>6, InflateIs, InflateTextIs
  <2>8. IsNumber(num) /\ Value(num) = n
    BY <2>1, NumberIs
  <2>9. x[1][1] = t
    <3>1. PICK y : y = x[1]
      OBVIOUS
    <3>2. y = <<t>>
      <4>1. <<t>> # <<>>
        OBVIOUS
      <4>. QED BY <2>5, <3>1, <4>1 DEF LineOf
    <3>. QED BY <3>1, <3>2
  <2>. QED BY <2>1, <2>5, <2>7, <2>8, <2>9 DEF InflateIndex
<1>5. Inflate(<<<<"QUIT">>>>) = [type |-> "QUIT"]
  <2>1. PICK ls : ls = <<<<"QUIT">>>>
    OBVIOUS
  <2>2. <<"QUIT">> \in LineSet
    BY <1>1 DEF Types
  <2>3. ls \in Seq(LineSet) /\ Len(ls) = 1 /\ ls[1] = <<"QUIT">>
    BY <2>1, <2>2
  <2>4. PICK x : x = Lines(Text(ls))
    OBVIOUS
  <2>5. LineOf(x, 1) = <<"QUIT">>
    <3>1. \A k \in 1..Len(ls) : LineOf(x, k) = ls[k]
      BY <2>3, <2>4, LinesBack
    <3>2. {1} \subseteq 1..Len(ls)
      BY <2>3
    <3>. QED BY <2>3, <3>1, <3>2
  <2>6. TextInflated(Text(ls), x) = [type |-> "QUIT"]
    BY <2>5 DEF TextInflated
  <2>. QED BY <2>1, <2>4, <2>6, InflateIs, InflateTextIs
<1>. QED BY <1>2, <1>3, <1>4, <1>5

LEMMA WordsAre == Words \subseteq LineSet
BY DEF Words

(* A message's text is its leading lines and what trails them. *)
LEMMA DeflateIs ==
  ASSUME NEW m, Writable(m) \/ m \in Orders
  PROVE  /\ Leading(m) \in Seq(LineSet) /\ Trailing(m) \in Texts
         /\ Deflate(m) = Text(Leading(m)) \o Trailing(m)
         /\ m.type # "SEND" => Inflate(Leading(m)) = m /\ m \in Orders
         /\ m.type = "SEND" => Writable(m)
<1>1. \A t \in Types : <<t>> \in LineSet
  BY MarksAre
<1>2. ASSUME Writable(m)
      PROVE  /\ Leading(m) \in Seq(LineSet) /\ Trailing(m) \in Texts
             /\ Deflate(m) = Text(Leading(m)) \o Trailing(m) /\ m.type = "SEND"
  <2>1. m.type = "SEND" /\ m.attachments \in Seq(Files)
    BY <1>2, WritableIs
  <2>2. Leading(m) = Header(m) /\ Trailing(m) = FilesText(m.attachments)
    BY <2>1 DEF Leading, Trailing
  <2>3. Header(m) \in Seq(LineSet)
    BY <1>2, HeaderIs DEF HeaderFor
  <2>4. FilesText(m.attachments) \in Texts
    BY <2>1, FilesConcat
  <2>5. Deflate(m) = MailText(m)
    BY <2>1 DEF Deflate
  <2>6. MailText(m) = Text(Header(m)) \o FilesText(m.attachments)
    BY DEF MailText, Header, FilesText, Packed
  <2>. QED BY <2>1, <2>2, <2>3, <2>4, <2>5, <2>6
<1>3. ASSUME m \in Orders
      PROVE  /\ Leading(m) \in Seq(LineSet) /\ Inflate(Leading(m)) = m /\ m.type # "SEND"
             /\ Deflate(m) = Text(Leading(m))
  <2>1. CASE \E u \in Words : m = [type |-> "LIST", user |-> u]
    <3>1. PICK u \in Words : m = [type |-> "LIST", user |-> u]
      BY <2>1
    <3>2. m.type = "LIST" /\ m.user = u /\ u \in LineSet /\ <<"LIST">> \in LineSet
      BY <1>1, <3>1, WordsAre DEF Types
    <3>3. Leading(m) = <<<<"LIST">>, u>>
      BY <3>2 DEF Leading
    <3>4. Deflate(m) = Text(<<<<"LIST">>, u>>)
      BY <3>2 DEF Deflate, ListText
    <3>5. <<<<"LIST">>, u>> \in Seq(LineSet)
      BY <3>2
    <3>. QED BY <3>1, <3>2, <3>3, <3>4, <3>5, OrderLines
  <2>2. CASE \E u \in Words, n \in 0..9, t \in {"READ", "DEL"} :
               m = [type |-> t, user |-> u, index |-> n]
    <3>1. PICK u \in Words, n \in 0..9, t \in {"READ", "DEL"} : m = [type |-> t, user |-> u, index |-> n]
      BY <2>2
    <3>2. m.type = t /\ m.user = u /\ m.index = n /\ u \in LineSet /\ <<t>> \in LineSet
      BY <1>1, <3>1, WordsAre DEF Types
    <3>3. Leading(m) = <<<<t>>, u, Number(n)>>
      BY <3>2 DEF Leading
    <3>4. Deflate(m) = Text(<<<<t>>, u, Number(n)>>)
      BY <3>2 DEF Deflate, IndexText
    <3>5. <<<<t>>, u, Number(n)>> \in Seq(LineSet)
      <4>1. Number(n) \in LineSet
        BY MarksAre
      <4>. QED BY <3>2, <4>1
    <3>6. Inflate(<<<<t>>, u, Number(n)>>) = m
      BY <3>1, <3>2, OrderLines
    <3>7. m.type # "SEND"
      BY <3>2
    <3>. QED BY <3>3, <3>4, <3>5, <3>6, <3>7
  <2>3. CASE \E u \in Words, w \in Words : m = [type |-> "LOGIN", user |-> u, password |-> w]
    <3>1. PICK u \in Words, w \in Words : m = [type |-> "LOGIN", user |-> u, password |-> w]
      BY <2>3
    <3>2. /\ m.type = "LOGIN" /\ m.user = u /\ m.password = w
          /\ u \in LineSet /\ w \in LineSet /\ <<"LOGIN">> \in LineSet
      BY <1>1, <3>1, WordsAre DEF Types
    <3>3. Leading(m) = <<<<"LOGIN">>, u, w>>
      BY <3>2 DEF Leading
    <3>4. Deflate(m) = Text(<<<<"LOGIN">>, u, w>>)
      BY <3>2 DEF Deflate, LoginText
    <3>5. <<<<"LOGIN">>, u, w>> \in Seq(LineSet)
      BY <3>2
    <3>. QED BY <3>1, <3>2, <3>3, <3>4, <3>5, OrderLines
  <2>4. CASE m = [type |-> "QUIT"]
    <3>1. m.type = "QUIT" /\ <<"QUIT">> \in LineSet
      BY <1>1, <2>4 DEF Types
    <3>2. Leading(m) = <<<<"QUIT">>>>
      BY <3>1 DEF Leading
    <3>3. Deflate(m) = Text(<<<<"QUIT">>>>)
      BY <3>1 DEF Deflate, QuitText
    <3>4. <<<<"QUIT">>>> \in Seq(LineSet)
      BY <3>1
    <3>. QED BY <2>4, <3>1, <3>2, <3>3, <3>4, OrderLines
  <2>. QED BY <1>3, <2>1, <2>2, <2>3, <2>4, OrderIs
<1>4. ASSUME m \in Orders
      PROVE  Trailing(m) \in Texts /\ Text(Leading(m)) \o Trailing(m) = Text(Leading(m))
  <2>1. Trailing(m) = <<>>
    BY <1>3, <1>4 DEF Trailing
  <2>2. Text(Leading(m)) \in Texts
    BY <1>3, <1>4, LineSetLines
  <2>. QED BY <2>1, <2>2, AfterText, TextsAre
<1>. QED BY <1>2, <1>3, <1>4

LEMMA MailBack ==
  ASSUME NEW m, Writable(m), Eot \notin ToSet(m.receivers), NEW F \in Seq(Files),
         Len(F) = Len(m.attachments), NEW x \in Texts
  PROVE  InflateText(Text(Header(m)) \o (FilesText(F) \o x))
           = Mail(m.sender, m.receivers, m.title, m.body, F)
<1>1. PICK b, n : b = FilesText(F) \o x /\ n = Len(m.attachments)
  OBVIOUS
<1>2. b \in Texts
  BY <1>1, FilesConcat, TextsAre
<1>3. Attachments(b, n) = [ok |-> TRUE, rest |-> x, list |-> F]
  BY <1>1, AttachmentsRead
<1>4. InflateText(Text(Header(m)) \o b) = Found(m, Attachments(b, n))
  BY <1>1, <1>2, InflateMail
<1>. QED BY <1>1, <1>3, <1>4 DEF Found

(* A message is read as it was written: inflate takes back every field of every
   message the client may write and every attachment byte for byte, however long the
   lists and whatever the lines, as long as no receiver is the mark that ends the
   receivers (deflate and inflate of messages/). *)
THEOREM ReadBack ==
  \A m : \/ Writable(m) /\ Eot \notin ToSet(m.receivers)
         \/ m \in Orders
         => InflateText(Deflate(m)) = m
<1>1. ASSUME NEW m, Writable(m), Eot \notin ToSet(m.receivers)
      PROVE  InflateText(Deflate(m)) = m
  <2>1. /\ m = Mail(m.sender, m.receivers, m.title, m.body, m.attachments) /\ m.type = "SEND"
        /\ m.attachments \in Seq(Files)
    BY <1>1, WritableIs
  <2>2. Deflate(m) = Text(Header(m)) \o FilesText(m.attachments)
    BY <1>1, <2>1, DeflateIs DEF Leading, Trailing
  <2>3. FilesText(m.attachments) \o <<>> = FilesText(m.attachments)
    BY <2>1, FilesConcat, AfterText
  <2>4. InflateText(Text(Header(m)) \o (FilesText(m.attachments) \o <<>>))
          = Mail(m.sender, m.receivers, m.title, m.body, m.attachments)
    BY <1>1, <2>1, MailBack, TextsAre
  <2>. QED BY <2>1, <2>2, <2>3, <2>4
<1>2. ASSUME NEW m \in Orders
      PROVE  InflateText(Deflate(m)) = m
  <2>1. /\ Deflate(m) = Text(Leading(m)) \o Trailing(m) /\ Leading(m) \in Seq(LineSet)
        /\ (m.type # "SEND" => Inflate(Leading(m)) = m)
    BY DeflateIs
  <2>2. m.type # "SEND"
    BY OrderIs
  <2>3. Trailing(m) = <<>>
    BY <2>2 DEF Trailing
  <2>4. Text(Leading(m)) \in Texts
    BY <2>1, LineSetLines
  <2>. QED BY <2>1, <2>2, <2>3, <2>4, AfterText, InflateIs
<1>. QED BY <1>1, <1>2

-----------------------------------------------------------------------------
(* The messages both ends agree about. *)
Carried(m) == \/ Writable(m) /\ Plain(m)
              \/ m \in Orders /\ \A i \in 1..Len(Leading(m)) : Short(Leading(m)[i])

NoCr(l) == l = <<>> \/ l[Len(l)] # CR

LEMMA WordNoCr == \A l \in Words : NoCr(l) /\ l \in LineSet
BY DEF Words, NoCr, IsWord

LEMMA MarksNoCr ==
  /\ NoCr(Eot) /\ NoCr(Dot) /\ \A t \in Types : NoCr(<<t>>) /\ <<t>> # <<>> /\ <<t>> # Dot
  /\ \A n \in 0..9 : NoCr(Number(n))
<1>1. Len(<<"ETX">>) = 1 /\ Len(<<".">>) = 1 /\ \A t : Len(<<t>>) = 1
  OBVIOUS
<1>2. NoCr(Eot) /\ NoCr(Dot)
  BY <1>1 DEF NoCr, Eot, Dot, CR
<1>3. ASSUME NEW t \in Types PROVE NoCr(<<t>>) /\ <<t>> # <<>> /\ <<t>> # Dot
  <2>1. t # "CR" /\ t # "."
    BY DEF Types
  <2>2. <<t>>[1] = t /\ <<".">>[1] = "." /\ <<t>> # <<>>
    OBVIOUS
  <2>. QED BY <1>1, <2>1, <2>2 DEF NoCr, CR, Dot
<1>4. ASSUME NEW n \in 0..9 PROVE NoCr(Number(n))
  <2>1. Len(Number(n)) = 1 /\ Number(n)[1] # CR
    BY NumberIs
  <2>. QED BY <2>1 DEF NoCr
<1>. QED BY <1>2, <1>3, <1>4

LEMMA MarksShort ==
  /\ Short(Eot) /\ Short(Dot) /\ \A t : Short(<<t>>)
  /\ \A n \in 0..9 : Short(Number(n))
<1>1. ASSUME NEW l, Len(l) = 1 PROVE Short(l)
  BY <1>1, BufferAssumption DEF Short
<1>2. Len(Eot) = 1 /\ Len(Dot) = 1 /\ \A t : Len(<<t>>) = 1
  BY DEF Eot, Dot
<1>. QED BY <1>1, <1>2, NumberIs

LEMMA HeaderPlain ==
  ASSUME NEW m, Writable(m), Plain(m)
  PROVE  /\ Header(m) \in Seq(LineSet) /\ Len(Header(m)) \in Nat /\ Len(Header(m)) >= 7
         /\ Header(m)[1] = <<"SEND">>
         /\ \A i \in 1..Len(Header(m)) : NoCr(Header(m)[i]) /\ Short(Header(m)[i])
         /\ \A i \in 5..(Len(Header(m)) - 2) : Header(m)[i] # Dot
         /\ Header(m)[Len(Header(m)) - 1] = Dot
         /\ Header(m)[Len(Header(m))] = Number(Len(m.attachments))
<1>1. HeaderFor(m, Len(m.receivers), Len(m.body))
  BY HeaderIs
<1>2. PICK r, b, h : r = Len(m.receivers) /\ b = Len(m.body) /\ h = Header(m)
  OBVIOUS
<1>3. /\ r \in Nat \ {0} /\ b \in Nat
      /\ h \in Seq(LineSet) /\ IsLines(h) /\ Len(h) = r + b + 6
      /\ h[1] = <<"SEND">> /\ h[2] = m.sender
      /\ \A i \in 1..r : h[2 + i] = m.receivers[i]
      /\ h[r + 3] = Eot /\ h[r + 4] = m.title
      /\ \A i \in 1..b : h[r + 4 + i] = m.body[i]
      /\ h[r + b + 5] = Dot /\ h[r + b + 6] = Number(Len(m.attachments))
  BY <1>1, <1>2 DEF HeaderFor
<1>4. /\ IsWord(m.sender) /\ IsWord(m.title)
      /\ \A l \in ToSet(m.receivers) : IsWord(l)
      /\ m.receivers \in Seq(ToSet(m.receivers)) /\ m.body \in Seq(ToSet(m.body))
      /\ \A l \in ToSet(m.body) : l # Dot
  BY DEF Writable
<1>5. /\ m.title # Dot
      /\ \A i \in 3..Len(m.receivers) : m.receivers[i] # Dot
      /\ \A l \in ToSet(m.body) : l # <<>> => l[Len(l)] # CR
  BY DEF Plain
<1>13. /\ Short(m.sender) /\ Short(m.title)
       /\ \A l \in ToSet(m.receivers) : Short(l)
       /\ \A l \in ToSet(m.body) : Short(l)
  BY DEF Plain
<1>6. \A i \in 1..r : NoCr(m.receivers[i]) /\ Short(m.receivers[i]) /\ (i >= 3 => m.receivers[i] # Dot)
  <2>1. \A i \in 1..r : m.receivers[i] \in ToSet(m.receivers)
    BY <1>2, <1>4
  <2>2. \A i \in 1..r : i >= 3 => i \in 3..r
    BY <1>3
  <2>3. \A i \in 1..r : Short(m.receivers[i])
    BY <1>13, <2>1
  <2>. QED BY <1>2, <1>4, <1>5, <2>1, <2>2, <2>3 DEF NoCr, IsWord
<1>7. \A i \in 1..b : NoCr(m.body[i]) /\ Short(m.body[i]) /\ m.body[i] # Dot
  <2>1. \A i \in 1..b : m.body[i] \in ToSet(m.body)
    BY <1>2, <1>4
  <2>2. \A i \in 1..b : Short(m.body[i])
    BY <1>13, <2>1
  <2>. QED BY <1>4, <1>5, <2>1, <2>2 DEF NoCr
<1>8. NoCr(m.sender) /\ NoCr(m.title) /\ NoCr(<<"SEND">>) /\ NoCr(Number(Len(m.attachments)))
  <2>1. NoCr(<<"SEND">>)
    BY MarksNoCr DEF Types
  <2>2. Len(m.attachments) \in 0..9
    BY WritableIs
  <2>3. NoCr(m.sender) /\ NoCr(m.title)
    BY <1>4 DEF NoCr, IsWord
  <2>. QED BY <2>1, <2>2, <2>3, MarksNoCr
<1>9. ASSUME NEW i \in 1..(r + b + 6)
      PROVE  \/ i \in {1, 2, r + 3, r + 4, r + b + 5, r + b + 6}
             \/ \E j \in 1..r : i = 2 + j
             \/ \E j \in 1..b : i = r + 4 + j
  <2>1. CASE i \in 3..(r + 2)
    <3>1. i - 2 \in 1..r /\ i = 2 + (i - 2)
      BY <1>3, <2>1
    <3>. QED BY <3>1
  <2>2. CASE i \in (r + 5)..(r + b + 4)
    <3>1. i - (r + 4) \in 1..b /\ i = r + 4 + (i - (r + 4))
      BY <1>3, <2>2
    <3>. QED BY <3>1
  <2>3. CASE i \notin 3..(r + 2) /\ i \notin (r + 5)..(r + b + 4)
    BY <1>3, <2>3
  <2>. QED BY <2>1, <2>2, <2>3
<1>10. \A i \in 1..(r + b + 6) : NoCr(h[i]) /\ Short(h[i])
  <2>1. NoCr(Eot) /\ NoCr(Dot)
    BY MarksNoCr
  <2>5. Short(Eot) /\ Short(Dot) /\ Short(<<"SEND">>) /\ Short(Number(Len(m.attachments)))
    BY MarksShort, WritableIs
  <2>2. \A i \in {1, 2, r + 3, r + 4, r + b + 5, r + b + 6} : NoCr(h[i]) /\ Short(h[i])
    BY <1>3, <1>8, <1>13, <2>1, <2>5
  <2>3. \A j \in 1..r : NoCr(h[2 + j]) /\ Short(h[2 + j])
    BY <1>3, <1>6
  <2>4. \A j \in 1..b : NoCr(h[r + 4 + j]) /\ Short(h[r + 4 + j])
    BY <1>3, <1>7
  <2>. QED BY <1>9, <2>2, <2>3, <2>4
<1>11. ASSUME NEW i \in 5..(r + b + 4) PROVE h[i] # Dot
  <2>1. i \in 1..(r + b + 6) /\ i \notin {1, 2, r + b + 5, r + b + 6}
    BY <1>3
  <2>2. ASSUME NEW j \in 1..r, i = 2 + j PROVE h[i] # Dot
    <3>1. j >= 3
      BY <2>2
    <3>. QED BY <1>3, <1>6, <2>2, <3>1
  <2>3. Eot # Dot
    BY MarksAre
  <2>4. ASSUME NEW j \in 1..b, i = r + 4 + j PROVE h[i] # Dot
    BY <1>3, <1>7, <2>4
  <2>5. h[r + 3] # Dot /\ h[r + 4] # Dot
    BY <1>3, <1>5, <2>3
  <2>6. i \in {r + 3, r + 4} \/ (\E j \in 1..r : i = 2 + j) \/ (\E j \in 1..b : i = r + 4 + j)
    BY <1>9, <2>1
  <2>. QED BY <2>2, <2>4, <2>5, <2>6
<1>12. Len(h) - 2 = r + b + 4 /\ Len(h) - 1 = r + b + 5 /\ Len(h) >= 7 /\ Len(h) \in Nat
  <2>1. r \in Nat \ {0} /\ b \in Nat /\ Len(h) = r + b + 6
    BY <1>3
  <2>. QED BY <2>1
<1>. QED BY <1>2, <1>3, <1>10, <1>11, <1>12

-----------------------------------------------------------------------------
(* What arrives of a file: its last byte has become a line end. *)
Turned(a) == [filename |-> a.filename, data |-> [a.data EXCEPT ![Len(a.data)] = NL]]

LEMMA ChopIs ==
  ASSUME NEW b \in Texts, Len(b) > 0
  PROVE  /\ Chop(b) \in Texts /\ Len(Chop(b)) \in {Len(b) - 1, Len(b) - 2}
         /\ Len(Chop(b)) = Len(b) - 2 => Len(b) >= 2
         /\ Len(b) < 2 \/ b[Len(b) - 1] # CR => Chop(b) = SubSeq(b, 1, Len(b) - 1)
<1>1. PICK n : n = Len(b)
  OBVIOUS
<1>2. n \in Nat /\ n > 0
  BY <1>1 DEF Texts
<1>3. CASE n >= 2 /\ b[n - 1] = CR
  <2>1. Chop(b) = SubSeq(b, 1, n - 2)
    BY <1>1, <1>3 DEF Chop
  <2>2. n - 2 \in Nat /\ n - 2 <= n /\ 1 <= (n - 2) + 1 /\ (n - 2) - 1 + 1 = n - 2 /\ 1 \in Nat \ {0}
    BY <1>2, <1>3
  <2>3. SubSeq(b, 1, n - 2) \in Texts /\ Len(SubSeq(b, 1, n - 2)) = (n - 2) - 1 + 1
    BY <1>1, <2>2, Part
  <2>4. ~(n < 2 \/ b[n - 1] # CR)
    BY <1>2, <1>3
  <2>. QED BY <1>1, <1>3, <2>1, <2>2, <2>3, <2>4
<1>4. CASE ~(n >= 2 /\ b[n - 1] = CR)
  <2>1. Chop(b) = SubSeq(b, 1, n - 1)
    BY <1>1, <1>4 DEF Chop
  <2>2. n - 1 \in Nat /\ n - 1 <= n /\ 1 <= (n - 1) + 1 /\ (n - 1) - 1 + 1 = n - 1 /\ 1 \in Nat \ {0}
    BY <1>2
  <2>3. SubSeq(b, 1, n - 1) \in Texts /\ Len(SubSeq(b, 1, n - 1)) = (n - 1) - 1 + 1
    BY <1>1, <2>2, Part
  <2>4. n - 1 # n - 2
    BY <1>2
  <2>. QED BY <1>1, <2>1, <2>2, <2>3, <2>4
<1>. QED BY <1>3, <1>4

LEMMA TurnedIs ==
  ASSUME NEW a \in Files, Len(a.data) >= 2 => a.data[Len(a.data) - 1] # CR
  PROVE  /\ Turned(a) \in Files /\ Turned(a).filename = a.filename /\ Heading(Turned(a)) = Heading(a)
         /\ Turned(a).data = Append(Chop(a.data), NL) /\ Chop(a.data) \in Texts
         /\ Len(Turned(a).data) = Len(a.data)
<1>1. PICK d, n : d = a.data /\ n = Len(d)
  OBVIOUS
<1>2. d \in Texts /\ n \in 1..9 /\ a.filename \in Texts /\ IsLine(a.filename)
  BY <1>1, FileIs
<1>3. Chop(d) \in Texts /\ Chop(d) = SubSeq(d, 1, n - 1)
  <2>1. n >= 2 => d[n - 1] # CR
    <3>1. Len(a.data) = n /\ a.data = d
      BY <1>1
    <3>. QED BY <3>1
  <2>4. n >= 2 \/ n < 2
    BY <1>2
  <2>2. Len(d) > 0
    <3>1. n > 0
      BY <1>2
    <3>2. Len(d) = n
      BY <1>1
    <3>. QED BY <3>1, <3>2
  <2>. QED BY <1>1, <1>2, <2>1, <2>2, <2>4, ChopIs
<1>4. [d EXCEPT ![n] = NL] \in Texts /\ Len([d EXCEPT ![n] = NL]) = n
  <2>1. d \in Seq(Symbol) /\ NL \in Symbol
    BY <1>2, Marks DEF Texts
  <2>2. n \in 1..Len(d)
    <3>1. n \in 1..n
      BY <1>2
    <3>2. Len(d) = n
      BY <1>1
    <3>. QED BY <3>1, <3>2
  <2>. QED BY <1>1, <2>1, <2>2, ExceptSeq DEF Texts
<1>5. [d EXCEPT ![n] = NL] = Append(Chop(d), NL)
  <2>1. n - 1 \in Nat /\ n - 1 <= n /\ 1 <= (n - 1) + 1 /\ (n - 1) - 1 + 1 = n - 1 /\ 1 \in Nat \ {0}
    BY <1>2
  <2>2. /\ Len(Chop(d)) = n - 1 /\ \A i \in 1..(n - 1) : Chop(d)[i] = d[1 + i - 1]
    <3>1. /\ Len(SubSeq(d, 1, n - 1)) = (n - 1) - 1 + 1
          /\ \A i \in 1..((n - 1) - 1 + 1) : SubSeq(d, 1, n - 1)[i] = d[1 + i - 1]
      BY <1>1, <1>2, <2>1, Part
    <3>. QED BY <1>3, <2>1, <3>1
  <2>3. PICK e : e = Append(Chop(d), NL)
    OBVIOUS
  <2>4. /\ e \in Texts /\ Len(e) = n /\ \A i \in 1..(n - 1) : e[i] = d[i]
        /\ e[n] = NL
    <3>1. NL \in Symbol /\ Chop(d) \in Seq(Symbol)
      BY <1>3, Marks DEF Texts
    <3>2. /\ e \in Seq(Symbol) /\ Len(e) = Len(Chop(d)) + 1
          /\ \A i \in 1..Len(Chop(d)) : e[i] = Chop(d)[i]
          /\ e[Len(Chop(d)) + 1] = NL
      BY <2>3, <3>1, EndedLine
    <3>3. (n - 1) + 1 = n /\ \A i \in 1..(n - 1) : 1 + i - 1 = i
      BY <1>2
    <3>. QED BY <2>2, <3>2, <3>3 DEF Texts
  <2>5. PICK f : f = [d EXCEPT ![n] = NL]
    OBVIOUS
  <2>6. f \in Texts /\ Len(f) = n /\ \A i \in 1..n : f[i] = IF i = n THEN NL ELSE d[i]
    <3>1. DOMAIN d = 1..n
      BY <1>1, <1>2 DEF Texts
    <3>. QED BY <1>2, <1>4, <2>5, <3>1
  <2>7. \A i \in 1..n : e[i] = f[i]
    <3>1. \A i \in 1..n : i = n \/ i \in 1..(n - 1)
      BY <1>2
    <3>. QED BY <2>4, <2>6, <3>1
  <2>8. e = f
    BY <2>4, <2>6, <2>7, SeqEqual DEF Texts
  <2>. QED BY <2>3, <2>5, <2>8
<1>6. Turned(a) = [filename |-> a.filename, data |-> [d EXCEPT ![n] = NL]]
  BY <1>1 DEF Turned
<1>7. PICK e : e = [d EXCEPT ![n] = NL]
  OBVIOUS
<1>8. Turned(a) \in Files /\ Turned(a).filename = a.filename /\ Turned(a).data = e
  <2>1. e \in {x \in Texts : Len(x) \in 1..9} /\ a.filename \in {l \in Texts : IsLine(l)}
    BY <1>2, <1>4, <1>7
  <2>2. Turned(a) = [filename |-> a.filename, data |-> e]
    BY <1>6, <1>7
  <2>. QED BY <2>1, <2>2 DEF Files
<1>9. Heading(Turned(a)) = Heading(a)
  BY <1>1, <1>4, <1>7, <1>8 DEF Heading
<1>. QED BY <1>1, <1>3, <1>4, <1>5, <1>7, <1>8, <1>9

-----------------------------------------------------------------------------
(* Where a parser is in a message, and what of it is still to come: before the
   k+1-th of its leading lines, or before the j+1-th part of its i+1-th file. *)
Idle(p) == \E t, n : p = Parser("new", t, n, 0, <<>>)

TurnedAll(files) == [i \in DOMAIN files |-> Turned(files[i])]

AtLine(p, w, m, k) ==
  /\ w = Text(From(Leading(m), k + 1)) \o Trailing(m)
  /\ IF k = 0 THEN Idle(p)
     ELSE p = Parser(IF m.type = "SEND" /\ k = Len(Leading(m)) - 1 THEN "attachments" ELSE "parsing",
                     m.type, TotalLines(m.type) + 1 - k, 0, SubSeq(Leading(m), 1, k))

AtFile(p, w, m, i, j) ==
  LET a == m.attachments[i + 1]
  IN  /\ w = Text(From(Heading(a), j + 1)) \o (a.data \o FilesText(From(m.attachments, i + 2)))
      /\ \E d \in Seq(Texts) :
           /\ p = Parser("attachments", "SEND", 3 * (Len(m.attachments) - i) - j,
                         IF j = 2 THEN Len(a.data) ELSE 0, d)
           /\ Text(d) = Text(Header(m)) \o (FilesText(SubSeq(TurnedAll(m.attachments), 1, i))
                                            \o Text(SubSeq(Heading(a), 1, j)))

Expect(p, w, m) ==
  \/ \E k \in 0..(Len(Leading(m)) - 1) : AtLine(p, w, m, k)
  \/ m.type = "SEND" /\ \E i \in 0..(Len(m.attachments) - 1), j \in 0..2 : AtFile(p, w, m, i, j)

(* The message a parser hands on, and what reading a part leads to. *)
Arrived(m) ==
  IF m.type = "SEND" THEN Mail(m.sender, m.receivers, m.title, m.body, TurnedAll(m.attachments)) ELSE m

After(d, w, m) ==
  \/ d.got = Nothing /\ d.parser.state # "new" /\ Expect(d.parser, w, m)
  \/ d.got = Arrived(m) /\ Idle(d.parser) /\ w = <<>>

LEMMA OrderLeading ==
  ASSUME NEW m \in Orders
  PROVE  /\ Leading(m) \in Seq(LineSet) /\ Trailing(m) = <<>>
         /\ m.type \in Types \ {"SEND"} /\ Leading(m)[1] = <<m.type>>
         /\ Len(Leading(m)) \in {1, 2, 3} /\ Inflate(Leading(m)) = m
         /\ m.type = "QUIT" => Len(Leading(m)) = 1 /\ Leading(m) = <<<<"QUIT">>>>
         /\ m.type # "QUIT" => Len(Leading(m)) = TotalLines(m.type) + 1 /\ TotalLines(m.type) \in {1, 2}
         /\ \A i \in 1..Len(Leading(m)) : NoCr(Leading(m)[i])
<1>1. Leading(m) \in Seq(LineSet) /\ (m.type # "SEND" => Inflate(Leading(m)) = m)
  BY DeflateIs
<1>2. \A t \in Types : NoCr(<<t>>)
  BY MarksNoCr
<1>3. CASE \E u \in Words : m = [type |-> "LIST", user |-> u]
  <2>1. PICK u \in Words : m = [type |-> "LIST", user |-> u]
    BY <1>3
  <2>2. m.type = "LIST" /\ m.user = u /\ NoCr(u) /\ NoCr(<<"LIST">>) /\ "LIST" \in Types \ {"SEND"}
    BY <1>2, <2>1, WordNoCr DEF Types
  <2>3. PICK ls : ls = Leading(m)
    OBVIOUS
  <2>4. ls = <<<<"LIST">>, u>>
    BY <2>2, <2>3 DEF Leading
  <2>5. Len(ls) = 2 /\ ls[1] = <<"LIST">> /\ ls[2] = u
    BY <2>4
  <2>6. TotalLines("LIST") = 1
    BY DEF TotalLines
  <2>7. \A i \in 1..2 : NoCr(ls[i])
    BY <2>2, <2>5
  <2>8. Trailing(m) = <<>>
    BY <2>2 DEF Trailing
  <2>. QED BY <1>1, <2>2, <2>3, <2>5, <2>6, <2>7, <2>8
<1>4. CASE \E u \in Words, n \in 0..9, t \in {"READ", "DEL"} : m = [type |-> t, user |-> u, index |-> n]
  <2>1. PICK u \in Words, n \in 0..9, t \in {"READ", "DEL"} : m = [type |-> t, user |-> u, index |-> n]
    BY <1>4
  <2>2. /\ m.type = t /\ m.user = u /\ m.index = n /\ NoCr(u) /\ NoCr(<<t>>) /\ NoCr(Number(n))
        /\ t \in Types \ {"SEND"} /\ t # "QUIT"
    BY <1>2, <2>1, WordNoCr, MarksNoCr DEF Types
  <2>3. PICK ls, num : ls = Leading(m) /\ num = Number(n)
    OBVIOUS
  <2>4. ls = <<<<t>>, u, num>>
    BY <2>2, <2>3 DEF Leading
  <2>5. Len(ls) = 3 /\ ls[1] = <<t>> /\ ls[2] = u /\ ls[3] = num
    BY <2>4
  <2>6. TotalLines(t) = 2
    BY DEF TotalLines
  <2>7. \A i \in 1..3 : NoCr(ls[i])
    BY <2>2, <2>3, <2>5
  <2>8. Trailing(m) = <<>>
    BY <2>2 DEF Trailing
  <2>. QED BY <1>1, <2>2, <2>3, <2>5, <2>6, <2>7, <2>8
<1>5. CASE \E u \in Words, v \in Words : m = [type |-> "LOGIN", user |-> u, password |-> v]
  <2>1. PICK u \in Words, v \in Words : m = [type |-> "LOGIN", user |-> u, password |-> v]
    BY <1>5
  <2>2. /\ m.type = "LOGIN" /\ m.user = u /\ m.password = v /\ NoCr(u) /\ NoCr(v) /\ NoCr(<<"LOGIN">>)
        /\ "LOGIN" \in Types \ {"SEND"}
    BY <1>2, <2>1, WordNoCr DEF Types
  <2>3. PICK ls : ls = Leading(m)
    OBVIOUS
  <2>4. ls = <<<<"LOGIN">>, u, v>>
    BY <2>2, <2>3 DEF Leading
  <2>5. Len(ls) = 3 /\ ls[1] = <<"LOGIN">> /\ ls[2] = u /\ ls[3] = v
    BY <2>4
  <2>6. TotalLines("LOGIN") = 2
    BY DEF TotalLines
  <2>7. \A i \in 1..3 : NoCr(ls[i])
    BY <2>2, <2>5
  <2>8. Trailing(m) = <<>>
    BY <2>2 DEF Trailing
  <2>. QED BY <1>1, <2>2, <2>3, <2>5, <2>6, <2>7, <2>8
<1>6. CASE m = [type |-> "QUIT"]
  <2>1. m.type = "QUIT" /\ NoCr(<<"QUIT">>) /\ "QUIT" \in Types \ {"SEND"}
    BY <1>2, <1>6 DEF Types
  <2>2. PICK ls : ls = Leading(m)
    OBVIOUS
  <2>3. ls = <<<<"QUIT">>>>
    BY <2>1, <2>2 DEF Leading
  <2>4. Len(ls) = 1 /\ ls[1] = <<"QUIT">>
    BY <2>3
  <2>5. Trailing(m) = <<>>
    BY <2>1 DEF Trailing
  <2>. QED BY <1>1, <2>1, <2>2, <2>3, <2>4, <2>5
<1>. QED BY <1>3, <1>4, <1>5, <1>6, OrderIs

LEMMA MailLeading ==
  ASSUME NEW m, Writable(m), Plain(m)
  PROVE  /\ Leading(m) = Header(m) /\ Trailing(m) = FilesText(m.attachments) /\ m.type = "SEND"
         /\ Leading(m) \in Seq(LineSet) /\ Len(Leading(m)) \in Nat /\ Len(Leading(m)) >= 7
         /\ Leading(m)[1] = <<"SEND">>
         /\ \A i \in 1..Len(Leading(m)) : NoCr(Leading(m)[i]) /\ Short(Leading(m)[i])
         /\ \A i \in 5..(Len(Leading(m)) - 2) : Leading(m)[i] # Dot
         /\ Leading(m)[Len(Leading(m)) - 1] = Dot
         /\ Leading(m)[Len(Leading(m))] = Number(Len(m.attachments))
<1>1. m.type = "SEND"
  BY WritableIs
<1>2. Leading(m) = Header(m) /\ Trailing(m) = FilesText(m.attachments)
  BY <1>1 DEF Leading, Trailing
<1>. QED BY <1>1, <1>2, HeaderPlain

(* What a message needs the parser to get through. *)
LEMMA CarriedIs ==
  ASSUME NEW m, Carried(m)
  PROVE  /\ Leading(m) \in Seq(LineSet) /\ Len(Leading(m)) \in Nat \ {0} /\ Trailing(m) \in Texts
         /\ Leading(m)[1] = <<m.type>> /\ m.type \in Types
         /\ \A i \in 1..Len(Leading(m)) : NoCr(Leading(m)[i]) /\ Short(Leading(m)[i])
         /\ m.type = "SEND" <=> Writable(m) /\ Plain(m)
         /\ m.type = "SEND" => Len(Leading(m)) >= 7 /\ TotalLines(m.type) = 3
         /\ m.type # "SEND" <=> m \in Orders
<1>1. ASSUME m \in Orders PROVE m.type # "SEND" /\ ~Writable(m)
  <2>1. m.type # "SEND"
    BY <1>1, OrderLeading
  <2>. QED BY <2>1, WritableIs
<1>2. ASSUME Writable(m), Plain(m) PROVE m.type = "SEND" /\ "SEND" \in Types /\ TotalLines("SEND") = 3
  BY <1>2, MailLeading DEF Types, TotalLines
<1>3. Trailing(m) \in Texts
  BY DeflateIs DEF Carried
<1>4. CASE m \in Orders
  <2>1. \A i \in 1..Len(Leading(m)) : Short(Leading(m)[i])
    BY <1>1, <1>4 DEF Carried
  <2>. QED BY <1>1, <1>3, <1>4, <2>1, OrderLeading
<1>5. CASE Writable(m) /\ Plain(m)
  <2>1. /\ Leading(m) \in Seq(LineSet) /\ Len(Leading(m)) \in Nat /\ Len(Leading(m)) >= 7
        /\ Leading(m)[1] = <<"SEND">>
        /\ \A i \in 1..Len(Leading(m)) : NoCr(Leading(m)[i]) /\ Short(Leading(m)[i])
    BY <1>5, MailLeading
  <2>2. Len(Leading(m)) \in Nat \ {0}
    BY <2>1
  <2>3. m \notin Orders
    BY <1>1, <1>5
  <2>. QED BY <1>2, <1>3, <1>5, <2>1, <2>2, <2>3
<1>. QED BY <1>4, <1>5 DEF Carried

-----------------------------------------------------------------------------
(* The next line. *)
LEMMA LineAhead ==
  ASSUME NEW ls \in Seq(LineSet), NEW t \in Texts, NEW k \in 1..Len(ls)
  PROVE  /\ ls[k] \in LineSet /\ From(ls, k + 1) \in Seq(LineSet)
         /\ Text(From(ls, k + 1)) \o t \in Texts
         /\ Text(From(ls, k)) \o t = Append(ls[k], NL) \o (Text(From(ls, k + 1)) \o t)
         /\ SubSeq(ls, 1, k) = Append(SubSeq(ls, 1, k - 1), ls[k])
         /\ k = Len(ls) => Text(From(ls, k + 1)) \o t = t
<1>1. Len(ls) \in Nat /\ k + 1 \in Nat \ {0} /\ ls[k] \in LineSet
  <2>1. Len(ls) \in Nat
    OBVIOUS
  <2>2. k + 1 \in Nat \ {0}
    BY <2>1
  <2>. QED BY <2>1, <2>2
<1>2. From(ls, k + 1) \in Seq(LineSet) /\ (k + 1 > Len(ls) => From(ls, k + 1) = <<>>)
  BY <1>1, FromType
<1>3. Text(From(ls, k + 1)) \in Texts /\ ls[k] \in Texts /\ ls \in Seq(Texts)
  <2>1. LineSet \subseteq Texts
    BY DEF LineSet
  <2>2. Text(From(ls, k + 1)) \in Texts
    BY <1>2, LineSetLines
  <2>. QED BY <1>1, <2>1, <2>2
<1>4. Text(From(ls, k)) = Append(ls[k], NL) \o Text(From(ls, k + 1))
  BY <1>3, Marks, TextFrom DEF Texts
<1>5. Append(ls[k], NL) \in Texts
  BY <1>3, TextsAre
<1>6. Text(From(ls, k)) \o t = Append(ls[k], NL) \o (Text(From(ls, k + 1)) \o t)
  <2>1. \A x, y, z \in Texts : (x \o y) \o z = x \o (y \o z)
    BY TextsAre
  <2>2. PICK x, y : x = Append(ls[k], NL) /\ y = Text(From(ls, k + 1))
    OBVIOUS
  <2>3. x \in Texts /\ y \in Texts
    BY <1>3, <1>5, <2>2
  <2>4. (x \o y) \o t = x \o (y \o t)
    BY <2>1, <2>3
  <2>. QED BY <1>4, <2>2, <2>4
<1>7. SubSeq(ls, 1, k) = Append(SubSeq(ls, 1, k - 1), ls[k])
  BY UpTo
<1>8. Text(From(ls, k + 1)) \o t \in Texts
  BY <1>3, TextsAre
<1>9. ASSUME k = Len(ls) PROVE Text(From(ls, k + 1)) \o t = t
  <2>1. From(ls, k + 1) = <<>>
    BY <1>1, <1>2, <1>9
  <2>2. Text(<<>>) = <<>> /\ <<>> \o t = t
    BY TextEmpty DEF Texts
  <2>. QED BY <2>1, <2>2
<1>. QED BY <1>1, <1>2, <1>6, <1>7, <1>8, <1>9

-----------------------------------------------------------------------------
(* What is left of a line whose sender ended: only a number is cut inside. *)
Stub(x, l) == \E c \in 0..Len(l) : x \in Cuts(SubSeq(l, 1, c)) /\ (Len(l) = 1 => c = 1)

(* The mail m, with attachments that may be shorter. *)
Resembles(a, m) ==
  \E F \in Seq(Files) :
    /\ a = Mail(m.sender, m.receivers, m.title, m.body, F) /\ Len(F) = Len(m.attachments)
    /\ \A i \in 1..Len(F) : /\ F[i].filename = m.attachments[i].filename
                            /\ Len(F[i].data) <= Len(m.attachments[i].data)

Shorter(n, m) == n = m \/ (m.type = "SEND" /\ Writable(n) /\ Plain(n) /\ Resembles(n, m))

(* What reading a part that was cut off leads to: no message, or one that differs
   where it was cut. *)
Almost(a, m) ==
  \/ a = m
  \/ m.type = "LIST" /\ \E u \in LineSet : Stub(u, m.user) /\ a = [type |-> "LIST", user |-> u]
  \/ m.type = "LOGIN" /\ \E w \in LineSet : /\ Stub(w, m.password)
                                            /\ a = [type |-> "LOGIN", user |-> m.user, password |-> w]
  \/ m.type \in {"READ", "DEL"} /\ \E k \in 0..9 :
       k <= m.index /\ a = [type |-> m.type, user |-> m.user, index |-> k]
  \/ m.type = "SEND" /\ Resembles(a, m)

Cut(d, m) ==
  \/ /\ d.got \in {Nothing, Malformed}
     /\ d.parser.awaiting = 0 \/ \E n : Shorter(n, m) /\ \E w \in Texts : Expect(d.parser, w, n)
  \/ Almost(d.got, m) /\ d.parser.awaiting = 0

LEMMA CutsAre ==
  ASSUME NEW l, NEW x \in Cuts(l), x # l
  PROVE  IsNumber(l) /\ \E k \in 1..9 : x = Number(k) /\ k < Value(l)
BY DEF Cuts

LEMMA PrefixIs ==
  ASSUME NEW l \in LineSet, NEW c \in 0..Len(l), NEW x, x = SubSeq(l, 1, c)
  PROVE  x \in LineSet /\ (c = Len(l) => x = l)
<1>2. l \in Texts /\ l \in Seq(Symbol) /\ NL \notin ToSet(l)
  BY DEF LineSet, Texts, IsLine
<1>3. Len(l) \in Nat
  BY <1>2
<1>4. c \in Nat /\ c <= Len(l) /\ 1 <= c + 1 /\ 1 \in Nat \ {0} /\ c - 1 + 1 = c
  BY <1>3
<1>5. /\ x \in Texts /\ Len(x) = c - 1 + 1
      /\ \A i \in 1..(c - 1 + 1) : x[i] = l[1 + i - 1]
  BY <1>2, <1>4, Part
<1>6. Len(x) = c /\ \A i \in 1..c : x[i] = l[i] /\ i \in 1..Len(l)
  BY <1>4, <1>5
<1>7. NL \notin ToSet(x)
  <2>1. \A s \in Texts : ToSet(s) = {s[i] : i \in 1..Len(s)}
    BY SetOf DEF Texts
  <2>2. ToSet(x) = {x[i] : i \in 1..Len(x)} /\ ToSet(l) = {l[i] : i \in 1..Len(l)}
    BY <1>2, <1>5, <2>1
  <2>. QED BY <1>2, <1>6, <2>2
<1>8. x \in LineSet
  BY <1>5, <1>7 DEF LineSet, IsLine, Texts
<1>9. ASSUME c = Len(l) PROVE x = l
  <2>1. Len(x) = Len(l) /\ \A i \in 1..Len(x) : x[i] = l[i]
    BY <1>6, <1>9
  <2>. QED BY <1>2, <1>5, <2>1, SeqEqual DEF Texts
<1>. QED BY <1>8, <1>9

LEMMA StubIs ==
  ASSUME NEW l \in LineSet, NEW x, Stub(x, l)
  PROVE  /\ x \in LineSet
         /\ Len(l) = 1 /\ x # l => IsNumber(l) /\ \E k \in 1..9 : x = Number(k) /\ k < Value(l)
<1>1. PICK c \in 0..Len(l) : x \in Cuts(SubSeq(l, 1, c)) /\ (Len(l) = 1 => c = 1)
  BY DEF Stub
<1>2. PICK s : s = SubSeq(l, 1, c)
  OBVIOUS
<1>3. s \in LineSet /\ (c = Len(l) => s = l)
  BY <1>2, PrefixIs
<1>4. x # s => IsNumber(s) /\ \E k \in 1..9 : x = Number(k) /\ k < Value(s)
  BY <1>1, <1>2, CutsAre
<1>5. x \in LineSet
  BY <1>3, <1>4, MarksAre
<1>6. Len(l) = 1 => s = l
  BY <1>1, <1>3
<1>. QED BY <1>4, <1>5, <1>6

(* What resembles a mail that resembles another resembles that one. *)
LEMMA ResemblesOn ==
  ASSUME NEW m, Writable(m), NEW n, Resembles(n, m), NEW a, Resembles(a, n)
  PROVE  Resembles(a, m)
<1>1. PICK F \in Seq(Files) :
        /\ n = Mail(m.sender, m.receivers, m.title, m.body, F) /\ Len(F) = Len(m.attachments)
        /\ \A i \in 1..Len(F) : /\ F[i].filename = m.attachments[i].filename
                                /\ Len(F[i].data) <= Len(m.attachments[i].data)
  BY DEF Resembles
<1>2. /\ n.sender = m.sender /\ n.receivers = m.receivers /\ n.title = m.title /\ n.body = m.body
      /\ n.attachments = F
  BY <1>1 DEF Mail
<1>3. PICK G \in Seq(Files) :
        /\ a = Mail(m.sender, m.receivers, m.title, m.body, G) /\ Len(G) = Len(F)
        /\ \A i \in 1..Len(G) : G[i].filename = F[i].filename /\ Len(G[i].data) <= Len(F[i].data)
  BY <1>2 DEF Resembles
<1>4. ASSUME NEW i \in 1..Len(G)
      PROVE  /\ G[i].filename = m.attachments[i].filename
             /\ Len(G[i].data) <= Len(m.attachments[i].data)
  <2>1. G[i] \in Files /\ F[i] \in Files /\ m.attachments[i] \in Files
    <3>1. m.attachments \in Seq(Files)
      BY WritableIs
    <3>. QED BY <1>1, <1>3, <3>1
  <2>2. PICK x, y, z : x = Len(G[i].data) /\ y = Len(F[i].data) /\ z = Len(m.attachments[i].data)
    OBVIOUS
  <2>3. x \in Int /\ y \in Int /\ z \in Int
    BY <2>1, <2>2, FileIs
  <2>4. x <= y /\ y <= z /\ G[i].filename = m.attachments[i].filename
    BY <1>1, <1>3, <2>2
  <2>. QED BY <2>2, <2>3, <2>4
<1>5. Len(G) = Len(m.attachments)
  BY <1>1, <1>3
<1>. QED BY <1>3, <1>4, <1>5 DEF Resembles

LEMMA CutLonger ==
  ASSUME NEW m, Writable(m), NEW n, Shorter(n, m), NEW d, Cut(d, n)
  PROVE  Cut(d, m)
<1>1. CASE n = m
  BY <1>1
<1>2. CASE n # m
  <2>1. m.type = "SEND" /\ Writable(n) /\ Plain(n) /\ Resembles(n, m) /\ n.type = "SEND"
    BY <1>2, WritableIs DEF Shorter
  <2>2. ASSUME NEW o, Shorter(o, n) PROVE Shorter(o, m)
    BY <2>1, <2>2, ResemblesOn DEF Shorter
  <2>3. ASSUME NEW a, Almost(a, n) PROVE Almost(a, m)
    BY <2>1, <2>3, ResemblesOn DEF Almost
  <2>. QED BY <2>2, <2>3 DEF Cut
<1>. QED BY <1>1, <1>2

LEMMA AppendOne == ASSUME NEW a PROVE Append(<<>>, a) = <<a>>
OBVIOUS

LEMMA AppendTwo ==
  ASSUME NEW a, NEW x
  PROVE  Append(<<a>>, x) = <<a, x>>
<1>1. PICK S : S = {a, x}
  OBVIOUS
<1>2. PICK s, e, f : s = <<a>> /\ e = Append(s, x) /\ f = <<a, x>>
  OBVIOUS
<1>3. s \in Seq(S) /\ Len(s) = 1 /\ s[1] = a /\ x \in S
  BY <1>1, <1>2
<1>4. f \in Seq(S) /\ Len(f) = 2 /\ f[1] = a /\ f[2] = x
  BY <1>1, <1>2
<1>5. e \in Seq(S) /\ Len(e) = Len(s) + 1 /\ (\A i \in 1..Len(s) : e[i] = s[i]) /\ e[Len(s) + 1] = x
  BY <1>2, <1>3, AppendProperties
<1>6. Len(e) = 2 /\ e[1] = a /\ e[2] = x
  BY <1>3, <1>5
<1>7. \A i \in 1..Len(e) : e[i] = f[i]
  <2>1. \A i \in 1..2 : i = 1 \/ i = 2
    OBVIOUS
  <2>. QED BY <1>4, <1>6, <2>1
<1>8. e = f
  BY <1>4, <1>5, <1>6, <1>7, SeqEqual
<1>. QED BY <1>2, <1>8

LEMMA AppendThree ==
  ASSUME NEW a, NEW b, NEW x
  PROVE  Append(<<a, b>>, x) = <<a, b, x>>
<1>1. PICK S : S = {a, b, x}
  OBVIOUS
<1>2. PICK s, e, f : s = <<a, b>> /\ e = Append(s, x) /\ f = <<a, b, x>>
  OBVIOUS
<1>3. s \in Seq(S) /\ Len(s) = 2 /\ s[1] = a /\ s[2] = b /\ x \in S
  BY <1>1, <1>2
<1>4. f \in Seq(S) /\ Len(f) = 3 /\ f[1] = a /\ f[2] = b /\ f[3] = x
  BY <1>1, <1>2
<1>5. e \in Seq(S) /\ Len(e) = Len(s) + 1 /\ (\A i \in 1..Len(s) : e[i] = s[i]) /\ e[Len(s) + 1] = x
  BY <1>2, <1>3, AppendProperties
<1>6. Len(e) = 3 /\ e[1] = a /\ e[2] = b /\ e[3] = x
  BY <1>3, <1>5
<1>7. \A i \in 1..Len(e) : e[i] = f[i]
  <2>1. \A i \in 1..3 : i = 1 \/ i = 2 \/ i = 3
    OBVIOUS
  <2>. QED BY <1>4, <1>6, <2>1
<1>8. e = f
  BY <1>4, <1>5, <1>6, <1>7, SeqEqual
<1>. QED BY <1>2, <1>8

(* All lines but the last. *)
LEMMA ButLast ==
  /\ \A a, b : SubSeq(<<a, b>>, 1, 1) = <<a>> /\ Len(<<a, b>>) = 2 /\ <<a, b>>[2] = b
  /\ \A a, b, c : SubSeq(<<a, b, c>>, 1, 2) = <<a, b>> /\ Len(<<a, b, c>>) = 3 /\ <<a, b, c>>[3] = c
<1>1. ASSUME NEW a, NEW b PROVE SubSeq(<<a, b>>, 1, 1) = <<a>>
  <2>1. PICK s, S : S = {a, b} /\ s = <<a, b>>
    OBVIOUS
  <2>2. s \in Seq(S) /\ Len(s) = 2 /\ s[1] = a
    BY <2>1
  <2>3. 1 \in 1..Len(s)
    BY <2>2
  <2>4. SubSeq(s, 1, 1) = Append(SubSeq(s, 1, 1 - 1), a)
    BY <2>2, <2>3, UpTo
  <2>5. SubSeq(s, 1, 1 - 1) = <<>>
    BY <2>2, SubSeqEmpty
  <2>. QED BY <2>1, <2>4, <2>5, AppendOne
<1>2. ASSUME NEW a, NEW b, NEW c PROVE SubSeq(<<a, b, c>>, 1, 2) = <<a, b>>
  <2>1. PICK s, S : S = {a, b, c} /\ s = <<a, b, c>>
    OBVIOUS
  <2>2. s \in Seq(S) /\ Len(s) = 3 /\ s[1] = a /\ s[2] = b
    BY <2>1
  <2>3. 1 \in 1..Len(s) /\ 2 \in 1..Len(s) /\ 2 - 1 = 1
    BY <2>2
  <2>4. SubSeq(s, 1, 1) = Append(SubSeq(s, 1, 1 - 1), a)
    BY <2>2, <2>3, UpTo
  <2>5. SubSeq(s, 1, 1 - 1) = <<>>
    BY <2>2, SubSeqEmpty
  <2>6. SubSeq(s, 1, 2) = Append(SubSeq(s, 1, 2 - 1), b)
    BY <2>2, <2>3, UpTo
  <2>7. SubSeq(s, 1, 1) = <<a>>
    BY <2>4, <2>5, AppendOne
  <2>. QED BY <2>1, <2>3, <2>6, <2>7, AppendTwo
<1>. QED BY <1>1, <1>2

LEMMA ContinueIs ==
  \A s, t, n, a, d : /\ Continue(Parser(s, t, n, a, d)).parser = Parser(s, t, n, a, d)
                     /\ Continue(Parser(s, t, n, a, d)).got = Nothing
                     /\ Continue(Parser(s, t, n, a, d)).parser.state = s
                     /\ Continue(Parser(s, t, n, a, d)).parser.awaiting = a
BY DEF Continue, Parser

LEMMA FinishedHas ==
  ASSUME NEW t, NEW n, NEW a, NEW d
  PROVE  /\ Finished(t, n, a, d).got = Inflate(d) /\ Finished(t, n, a, d).parser.awaiting = a
         /\ Clean(Inflate(d)) => Finished(t, n, a, d).parser = Parser("new", t, n, a, <<>>)
<1>1. PICK e : e = IF Clean(Inflate(d)) THEN <<>> ELSE d
  OBVIOUS
<1>2. /\ Finished(t, n, a, d).parser = Parser("new", t, n, a, e) /\ Finished(t, n, a, d).got = Inflate(d)
  BY <1>1 DEF Finished
<1>3. Parser("new", t, n, a, e).awaiting = a
  BY DEF Parser
<1>. QED BY <1>1, <1>2, <1>3

(* A message that comes whole leaves the parser ready. *)
LEMMA FinishedWell ==
  ASSUME NEW t, NEW n, NEW d, NEW m, NEW w, w = <<>>, Inflate(d) = Arrived(m), Clean(Inflate(d))
  PROVE  After(Finished(t, n, 0, d), w, m)
<1>1. /\ Finished(t, n, 0, d).got = Inflate(d)
      /\ Finished(t, n, 0, d).parser = Parser("new", t, n, 0, <<>>)
  BY FinishedHas
<1>2. Idle(Finished(t, n, 0, d).parser)
  BY <1>1 DEF Idle
<1>. QED BY <1>1, <1>2 DEF After

LEMMA OrderClean ==
  ASSUME NEW m \in Orders
  PROVE  Inflate(Leading(m)) = Arrived(m) /\ Clean(Inflate(Leading(m)))
<1>1. Inflate(Leading(m)) = m /\ m.type \in Types \ {"SEND"}
  BY OrderLeading
<1>2. m.type \notin {"malformed", "endless", "SEND"}
  BY <1>1 DEF Types
<1>3. Arrived(m) = m
  BY <1>2 DEF Arrived
<1>. QED BY <1>1, <1>2, <1>3 DEF Clean

LEMMA FirstLine ==
  ASSUME NEW m, Carried(m), NEW p, Idle(p)
  PROVE  After(Digest(p, Leading(m)[1]), Text(From(Leading(m), 2)) \o Trailing(m), m)
<1>1. PICK ls, l, t, w, n : /\ ls = Leading(m) /\ l = ls[1] /\ t = Trailing(m) /\ n = Len(ls)
                            /\ w = Text(From(ls, 2)) \o t
  OBVIOUS
<1>2. ls \in Seq(LineSet) /\ n \in Nat \ {0} /\ t \in Texts /\ l = <<m.type>> /\ m.type \in Types
  BY <1>1, CarriedIs
<1>3. PICK u, c : p = Parser("new", u, c, 0, <<>>)
  BY DEF Idle
<1>7. PICK e, d : e = <<>> /\ d = Append(e, l)
  OBVIOUS
<1>8. p = Parser("new", u, c, 0, e)
  BY <1>3, <1>7
<1>9. d = Append(<<>>, l)
  BY <1>7
<1>4. SubSeq(ls, 1, 1) = Append(<<>>, l)
  <2>1. 1 \in 1..Len(ls)
    BY <1>1, <1>2
  <2>2. SubSeq(ls, 1, 1) = Append(SubSeq(ls, 1, 1 - 1), ls[1])
    BY <1>2, <2>1, LineAhead
  <2>3. SubSeq(ls, 1, 1 - 1) = <<>>
    BY <1>2
  <2>. QED BY <1>1, <2>2, <2>3
<1>5. CASE m.type # "QUIT"
  <2>1. Digest(p, l) = Continue(Parser("parsing", m.type, TotalLines(m.type), 0, Append(<<>>, l)))
    <3>1. \A v \in Types \ {"QUIT"} : l = <<v>> =>
               Digest(p, l) = Continue(Parser("parsing", v, TotalLines(v), 0, Append(e, l)))
      BY <1>8, DigestNewIs
    <3>2. m.type \in Types \ {"QUIT"}
      BY <1>2, <1>5
    <3>. QED BY <1>2, <1>7, <1>9, <3>1, <3>2
  <2>2. PICK tl : tl = TotalLines(m.type)
    OBVIOUS
  <2>3. n >= 2 /\ (m.type = "SEND" => 1 # n - 1) /\ tl \in Int /\ 1 \in 0..(n - 1)
    <3>1. CASE m.type = "SEND"
      <4>1. n >= 7 /\ tl = 3
        BY <1>1, <2>2, <3>1, CarriedIs
      <4>. QED BY <1>2, <4>1
    <3>2. CASE m.type # "SEND"
      <4>1. n = tl + 1 /\ tl \in {1, 2}
        BY <1>1, <1>5, <2>2, <3>2, CarriedIs, OrderLeading
      <4>. QED BY <3>2, <4>1
    <3>. QED BY <3>1, <3>2
  <2>4. tl + 1 - 1 = tl /\ 1 + 1 = 2 /\ 1 # 0
    BY <2>3
  <2>5. AtLine(Parser("parsing", m.type, tl, 0, Append(<<>>, l)), w, m, 1)
    BY <1>1, <1>4, <2>2, <2>3, <2>4 DEF AtLine
  <2>6. Expect(Parser("parsing", m.type, tl, 0, Append(<<>>, l)), w, m)
    BY <1>1, <2>3, <2>5 DEF Expect
  <2>7. After(Digest(p, l), w, m)
    BY <2>1, <2>2, <2>6, ContinueIs DEF After
  <2>. QED BY <1>1, <2>7
<1>6. CASE m.type = "QUIT"
  <2>1. m \in Orders
    BY <1>6, CarriedIs
  <2>2. ls = <<<<"QUIT">>>> /\ n = 1 /\ t = <<>>
    BY <1>1, <1>6, <2>1, OrderLeading
  <2>3. l = <<"QUIT">> /\ Append(<<>>, l) = ls
    BY <1>1, <2>2
  <2>4. Digest(p, l) = Finished("QUIT", c, 0, Append(<<>>, l))
    <3>1. l = <<"QUIT">> => Digest(p, l) = Finished("QUIT", c, 0, Append(e, l))
      BY <1>8, DigestNewIs
    <3>. QED BY <1>7, <1>9, <2>3, <3>1
  <2>5. w = <<>>
    <3>1. 1 \in 1..Len(ls) /\ 1 = Len(ls)
      BY <2>2
    <3>2. Text(From(ls, 1 + 1)) \o t = t
      BY <1>2, <3>1, LineAhead
    <3>. QED BY <1>1, <2>2, <3>2
  <2>6. After(Digest(p, l), w, m)
    BY <1>1, <2>1, <2>3, <2>4, <2>5, OrderClean, FinishedWell
  <2>. QED BY <1>1, <2>6
<1>. QED BY <1>5, <1>6

(* A line of an order. *)
LEMMA OrderLine ==
  ASSUME NEW m \in Orders, NEW k \in 1..(Len(Leading(m)) - 1), NEW p, NEW w, AtLine(p, w, m, k)
  PROVE  /\ p.awaiting = 0
         /\ After(Digest(p, Leading(m)[k + 1]), Text(From(Leading(m), k + 2)) \o Trailing(m), m)
         /\ \A x : Stub(x, Leading(m)[k + 1]) => Cut(Digest(p, x), m)
<1>1. PICK ls, l, n, y : /\ ls = Leading(m) /\ l = ls[k + 1] /\ n = Len(ls)
                         /\ y = Text(From(ls, k + 2)) \o Trailing(m)
  OBVIOUS
<1>2. /\ ls \in Seq(LineSet) /\ Trailing(m) = <<>> /\ m.type \in Types \ {"SEND"} /\ n \in {1, 2, 3}
      /\ Inflate(ls) = m
      /\ (m.type = "QUIT" => n = 1) /\ (m.type # "QUIT" => n = TotalLines(m.type) + 1)
  BY <1>1, OrderLeading
<1>3. k \in Nat /\ k >= 1 /\ k <= n - 1 /\ k + 1 \in 1..n /\ (k + 1) + 1 = k + 2 /\ (k + 1) - 1 = k /\ k # 0
  BY <1>1, <1>2
<1>4. PICK c : c = TotalLines(m.type) + 1 - k
  OBVIOUS
<1>5. c = n - k /\ c \in Int
  <2>1. PICK tl : tl = TotalLines(m.type)
    OBVIOUS
  <2>2. n = tl + 1 /\ tl \in {1, 2}
    BY <1>1, <1>2, <1>3, <2>1, OrderLeading
  <2>3. c = tl + 1 - k
    BY <1>4, <2>1
  <2>. QED BY <1>3, <2>2, <2>3
<1>6. p = Parser("parsing", m.type, c, 0, SubSeq(ls, 1, k))
  BY <1>1, <1>2, <1>3, <1>4 DEF AtLine
<1>7. p.awaiting = 0
  BY <1>6 DEF Parser
<1>8. /\ l \in LineSet /\ SubSeq(ls, 1, k + 1) = Append(SubSeq(ls, 1, k), l)
      /\ (k + 1 = n => y = <<>>)
  <2>1. PICK j : j = k + 1
    OBVIOUS
  <2>2. j \in 1..Len(ls) /\ j - 1 = k /\ j + 1 = k + 2
    BY <1>1, <1>3, <2>1
  <2>3. /\ ls[j] \in LineSet /\ SubSeq(ls, 1, j) = Append(SubSeq(ls, 1, j - 1), ls[j])
        /\ j = Len(ls) => Text(From(ls, j + 1)) \o <<>> = <<>>
    BY <1>2, <2>2, LineAhead, TextsAre
  <2>. QED BY <1>1, <1>2, <2>1, <2>2, <2>3
<1>9. ASSUME NEW x
      PROVE  /\ c - 1 = 0 => Digest(p, x) = Finished(m.type, c - 1, 0, Append(SubSeq(ls, 1, k), x))
             /\ c - 1 # 0 => Digest(p, x) = Continue(Parser("parsing", m.type, c - 1, 0,
                                                            Append(SubSeq(ls, 1, k), x)))
  BY <1>2, <1>5, <1>6, DigestParsingIs
<1>10. CASE k + 1 # n
  <2>1. c - 1 # 0 /\ k + 1 \in 0..(n - 1) /\ c - 1 = TotalLines(m.type) + 1 - (k + 1) /\ k + 1 # 0
    <3>1. n = TotalLines(m.type) + 1
      BY <1>2, <1>3
    <3>2. \A tl \in Int : n = tl + 1 => c - 1 = tl + 1 - (k + 1)
      BY <1>2, <1>3, <1>5
    <3>3. TotalLines(m.type) \in Int
      BY <1>2, <1>3, OrderLeading
    <3>. QED BY <1>2, <1>3, <1>5, <1>10, <3>1, <3>2, <3>3
  <2>2. \A x : Digest(p, x) = Continue(Parser("parsing", m.type, c - 1, 0, Append(SubSeq(ls, 1, k), x)))
    BY <1>9, <2>1
  <2>3. AtLine(Parser("parsing", m.type, c - 1, 0, Append(SubSeq(ls, 1, k), l)), y, m, k + 1)
    BY <1>1, <1>2, <1>3, <1>8, <2>1 DEF AtLine
  <2>4. After(Digest(p, l), y, m)
    BY <1>1, <2>1, <2>2, <2>3, ContinueIs DEF After, Expect
  <2>5. \A x : Cut(Digest(p, x), m)
    BY <2>2, ContinueIs DEF Cut
  <2>. QED BY <1>1, <1>7, <2>4, <2>5
<1>11. CASE k + 1 = n
  <2>1. c - 1 = 0 /\ SubSeq(ls, 1, n) = ls
    BY <1>1, <1>2, <1>5, <1>11
  <2>2. \A x : Digest(p, x) = Finished(m.type, c - 1, 0, Append(SubSeq(ls, 1, k), x))
    BY <1>9, <2>1
  <2>3. Append(SubSeq(ls, 1, k), l) = ls
    BY <1>8, <1>11, <2>1
  <2>4. After(Digest(p, l), y, m)
    BY <1>1, <1>8, <1>11, <2>2, <2>3, OrderClean, FinishedWell
  <2>5. ASSUME NEW x, Stub(x, l) PROVE Cut(Digest(p, x), m)
    <3>1. /\ x \in LineSet
          /\ Len(l) = 1 /\ x # l => IsNumber(l) /\ \E i \in 1..9 : x = Number(i) /\ i < Value(l)
      BY <1>8, <2>5, StubIs
    <3>2. Digest(p, x).got = Inflate(Append(SubSeq(ls, 1, k), x)) /\ Digest(p, x).parser.awaiting = 0
      BY <2>2, FinishedHas
    <3>3. Almost(Inflate(Append(SubSeq(ls, 1, k), x)), m)
      <4>1. CASE \E u \in Words : m = [type |-> "LIST", user |-> u]
        <5>1. PICK u \in Words : m = [type |-> "LIST", user |-> u]
          BY <4>1
        <5>2. m.type = "LIST" /\ m.user = u
          BY <5>1
        <5>3. ls = <<<<"LIST">>, u>>
          BY <1>1, <5>2 DEF Leading
        <5>4. n = 2 /\ k = 1 /\ l = u
          <6>1. n = 2 /\ ls[2] = u
            BY <1>1, <5>3, ButLast
          <6>. QED BY <1>1, <1>3, <1>11, <6>1
        <5>5. Append(SubSeq(ls, 1, k), x) = <<<<"LIST">>, x>>
          <6>1. SubSeq(ls, 1, k) = <<<<"LIST">>>>
            BY <5>3, <5>4, ButLast
          <6>. QED BY <6>1, AppendTwo
        <5>6. Inflate(<<<<"LIST">>, x>>) = [type |-> "LIST", user |-> x]
          BY <3>1, OrderLines
        <5>. QED BY <2>5, <3>1, <5>2, <5>4, <5>5, <5>6 DEF Almost
      <4>2. CASE \E u \in Words, i \in 0..9, t \in {"READ", "DEL"} :
                   m = [type |-> t, user |-> u, index |-> i]
        <5>1. PICK u \in Words, i \in 0..9, t \in {"READ", "DEL"} :
                     m = [type |-> t, user |-> u, index |-> i]
          BY <4>2
        <5>2. PICK num : num = Number(i)
          OBVIOUS
        <5>3. ls = <<<<t>>, u, num>>
          <6>1. m.type = t /\ m.user = u /\ m.index = i
            BY <5>1
          <6>. QED BY <1>1, <5>2, <6>1 DEF Leading
        <5>4. n = 3 /\ k = 2 /\ l = num
          BY <1>1, <1>3, <1>11, <5>3
        <5>5. Len(l) = 1 /\ Value(l) = i
          BY <5>2, <5>4, NumberIs
        <5>6. CASE x = l
          BY <1>2, <2>3, <5>6 DEF Almost
        <5>7. CASE x # l
          <6>1. PICK j \in 1..9 : x = Number(j) /\ j < i
            BY <3>1, <5>5, <5>7
          <6>2. Append(SubSeq(ls, 1, k), x) = <<<<t>>, u, x>>
            <7>1. PICK a : a = <<t>>
              OBVIOUS
            <7>2. SubSeq(<<a, u, num>>, 1, 2) = <<a, u>> /\ Append(<<a, u>>, x) = <<a, u, x>>
              BY ButLast, AppendThree
            <7>3. SubSeq(ls, 1, k) = <<a, u>>
              BY <5>3, <5>4, <7>1, <7>2
            <7>. QED BY <7>1, <7>2, <7>3
          <6>3. Inflate(<<<<t>>, u, x>>) = [type |-> t, user |-> u, index |-> j]
            <7>1. u \in LineSet /\ j \in 0..9
              BY WordsAre
            <7>. QED BY <6>1, <7>1, OrderLines
          <6>4. m.type = t /\ m.user = u /\ m.index = i
            BY <5>1
          <6>5. j \in 0..9 /\ j <= m.index
            BY <6>1, <6>4
          <6>6. m.type \in {"READ", "DEL"}
            BY <6>4
          <6>. QED BY <6>2, <6>3, <6>4, <6>5, <6>6 DEF Almost
        <5>. QED BY <5>6, <5>7
      <4>3. CASE \E u \in Words, v \in Words : m = [type |-> "LOGIN", user |-> u, password |-> v]
        <5>1. PICK u \in Words, v \in Words : m = [type |-> "LOGIN", user |-> u, password |-> v]
          BY <4>3
        <5>2. m.type = "LOGIN" /\ m.user = u /\ m.password = v
          BY <5>1
        <5>3. ls = <<<<"LOGIN">>, u, v>>
          BY <1>1, <5>2 DEF Leading
        <5>4. n = 3 /\ k = 2 /\ l = v
          <6>1. n = 3 /\ ls[3] = v
            BY <1>1, <5>3, ButLast
          <6>. QED BY <1>1, <1>3, <1>11, <6>1
        <5>5. Append(SubSeq(ls, 1, k), x) = <<<<"LOGIN">>, u, x>>
          <6>1. PICK a : a = <<"LOGIN">>
            OBVIOUS
          <6>2. SubSeq(<<a, u, v>>, 1, 2) = <<a, u>> /\ Append(<<a, u>>, x) = <<a, u, x>>
            BY ButLast, AppendThree
          <6>3. SubSeq(ls, 1, k) = <<a, u>>
            BY <5>3, <5>4, <6>1, <6>2
          <6>. QED BY <6>1, <6>2, <6>3
        <5>6. Inflate(<<<<"LOGIN">>, u, x>>) = [type |-> "LOGIN", user |-> u, password |-> x]
          <6>1. u \in LineSet
            BY WordsAre
          <6>. QED BY <3>1, <6>1, OrderLines
        <5>. QED BY <2>5, <3>1, <5>2, <5>4, <5>5, <5>6 DEF Almost
      <4>4. CASE m = [type |-> "QUIT"]
        <5>1. n = 1
          BY <1>2, <4>4
        <5>. QED BY <1>3, <5>1
      <4>. QED BY <4>1, <4>2, <4>3, <4>4, OrderIs
    <3>. QED BY <3>2, <3>3 DEF Cut
  <2>. QED BY <1>1, <1>7, <2>4, <2>5
<1>. QED BY <1>10, <1>11

-----------------------------------------------------------------------------
(* The files of a mail, as sent and as they arrive. *)
LEMMA FilesAre ==
  ASSUME NEW m, Writable(m), Plain(m)
  PROVE  /\ m.attachments \in Seq(Files) /\ Len(m.attachments) \in 0..9 /\ m.type = "SEND"
         /\ TurnedAll(m.attachments) \in Seq(Files) /\ Len(TurnedAll(m.attachments)) = Len(m.attachments)
         /\ \A i \in 1..Len(m.attachments) :
              /\ m.attachments[i] \in Files /\ TurnedAll(m.attachments)[i] = Turned(m.attachments[i])
              /\ Len(m.attachments[i].data) >= 2 =>
                   m.attachments[i].data[Len(m.attachments[i].data) - 1] # CR
<1>1. PICK A : A = m.attachments
  OBVIOUS
<1>2. A \in Seq(Files) /\ Len(A) \in 0..9 /\ m.type = "SEND"
  BY <1>1, WritableIs
<1>3. DOMAIN A = 1..Len(A) /\ Len(A) \in Nat /\ \A i \in 1..Len(A) : A[i] \in Files
  BY <1>2
<1>4. \A i \in 1..Len(A) : Len(A[i].data) >= 2 => A[i].data[Len(A[i].data) - 1] # CR
  BY <1>1, <1>3 DEF Plain
<1>5. \A i \in 1..Len(A) : Turned(A[i]) \in Files
  BY <1>3, <1>4, TurnedIs
<1>6. PICK T : T = TurnedAll(A)
  OBVIOUS
<1>7. T = [i \in 1..Len(A) |-> Turned(A[i])]
  BY <1>3, <1>6 DEF TurnedAll
<1>8. T \in [1..Len(A) -> Files]
  BY <1>5, <1>7
<1>9. T \in Seq(Files)
  BY <1>3, <1>8, FunctionIsSeq
<1>10. Len(T) = Len(A) /\ \A i \in 1..Len(A) : T[i] = Turned(A[i])
  BY <1>3, <1>7, <1>8, <1>9
<1>. QED BY <1>1, <1>2, <1>3, <1>4, <1>6, <1>9, <1>10

(* A parser at the start of a file, the text before it collected. *)
LEMMA FileStart ==
  ASSUME NEW m, Writable(m), Plain(m), NEW i \in 0..(Len(m.attachments) - 1), NEW d \in Seq(Texts),
         Text(d) = Text(Header(m)) \o FilesText(SubSeq(TurnedAll(m.attachments), 1, i))
  PROVE  AtFile(Parser("attachments", "SEND", 3 * (Len(m.attachments) - i), 0, d),
                FilesText(From(m.attachments, i + 1)), m, i, 0)
<1>1. PICK A, n, a, t, w : /\ A = m.attachments /\ n = Len(A) /\ a = A[i + 1]
                           /\ t = FilesText(SubSeq(TurnedAll(A), 1, i)) /\ w = FilesText(From(A, i + 2))
  OBVIOUS
<1>2. A \in Seq(Files) /\ n \in 0..9 /\ TurnedAll(A) \in Seq(Files) /\ Len(TurnedAll(A)) = n
  BY <1>1, FilesAre
<1>3. i \in Nat /\ i + 1 \in 1..n /\ i <= n /\ (i + 1) + 1 = i + 2 /\ 3 * (n - i) - 0 = 3 * (n - i) /\ 0 + 1 = 1 /\ 0 # 2
  BY <1>1, <1>2
<1>4. /\ a \in Files /\ FilesText(From(A, i + 1)) = AttachmentText(a) \o w /\ w \in Texts
  <2>1. /\ A[i + 1] \in Files /\ From(A, (i + 1) + 1) \in Seq(Files)
        /\ FilesText(From(A, i + 1)) = AttachmentText(A[i + 1]) \o FilesText(From(A, (i + 1) + 1))
    BY <1>1, <1>2, <1>3, FilesFrom
  <2>2. From(A, i + 2) \in Seq(Files)
    BY <1>3, <2>1
  <2>3. FilesText(From(A, i + 2)) \in Texts
    BY <2>2, FilesConcat
  <2>. QED BY <1>1, <1>3, <2>1, <2>3
<1>5. /\ Heading(a) \in Seq(Texts) /\ Len(Heading(a)) = 2 /\ Text(Heading(a)) \in Texts /\ a.data \in Texts
      /\ AttachmentText(a) = Text(Heading(a)) \o a.data
  BY <1>4, FileIs
<1>6. From(Heading(a), 0 + 1) = Heading(a) /\ SubSeq(Heading(a), 1, 0) = <<>>
  BY <1>5, SubSeqEmpty DEF From
<1>7. FilesText(From(A, i + 1)) = Text(From(Heading(a), 0 + 1)) \o (a.data \o w)
  <2>1. PICK x : x = Text(Heading(a))
    OBVIOUS
  <2>2. x \in Texts /\ a.data \in Texts /\ w \in Texts
    BY <1>4, <1>5, <2>1
  <2>3. (x \o a.data) \o w = x \o (a.data \o w)
    BY <2>2, TextsAre
  <2>. QED BY <1>4, <1>5, <1>6, <2>1, <2>3
<1>8. t \in Texts
  <2>1. \A k \in 1..i : TurnedAll(A)[k] \in Files
    BY <1>2, <1>3
  <2>2. 1 \in Int /\ i \in Int
    BY <1>3
  <2>3. SubSeq(TurnedAll(A), 1, i) \in Seq(Files)
    BY <2>1, <2>2, SubSeqProperties
  <2>. QED BY <1>1, <2>3, FilesConcat
<1>9. t \o Text(SubSeq(Heading(a), 1, 0)) = t
  BY <1>6, <1>8, TextEmpty, AfterText
<1>10. Text(d) = Text(Header(m)) \o (t \o Text(SubSeq(Heading(a), 1, 0)))
  BY <1>1, <1>9
<1>11. PICK q : q = Parser("attachments", "SEND", 3 * (n - i), 0, d)
  OBVIOUS
<1>12. q = Parser("attachments", "SEND", 3 * (n - i) - 0, IF 0 = 2 THEN Len(a.data) ELSE 0, d)
  BY <1>3, <1>11
<1>13. AtFile(q, FilesText(From(A, i + 1)), m, i, 0)
  BY <1>1, <1>7, <1>10, <1>12 DEF AtFile
<1>. QED BY <1>1, <1>11, <1>13

-----------------------------------------------------------------------------
(* A line of a mail up to its mark. *)
LEMMA MailLine ==
  ASSUME NEW m, Writable(m), Plain(m), NEW k \in 1..(Len(Leading(m)) - 2), NEW p, NEW w, AtLine(p, w, m, k)
  PROVE  /\ p.awaiting = 0
         /\ After(Digest(p, Leading(m)[k + 1]), Text(From(Leading(m), k + 2)) \o Trailing(m), m)
         /\ \A x : Cut(Digest(p, x), m)
<1>1. PICK ls, l, n, y : /\ ls = Leading(m) /\ l = ls[k + 1] /\ n = Len(ls)
                         /\ y = Text(From(ls, k + 2)) \o Trailing(m)
  OBVIOUS
<1>2. /\ ls \in Seq(LineSet) /\ m.type = "SEND" /\ n \in Nat /\ n >= 7
      /\ (\A i \in 5..(n - 2) : ls[i] # Dot) /\ ls[n - 1] = Dot
  BY <1>1, MailLeading
<1>3. TotalLines("SEND") = 3
  BY DEF TotalLines
<1>4. /\ k \in Nat /\ k >= 1 /\ k <= n - 2 /\ k + 1 \in 1..n /\ (k + 1) + 1 = k + 2 /\ (k + 1) - 1 = k
      /\ k # 0 /\ k # n - 1 /\ k + 1 \in 0..(n - 1) /\ k + 1 # 0 /\ n \in Nat
  BY <1>1, <1>2
<1>5. PICK c, d : c = 3 + 1 - k /\ d = SubSeq(ls, 1, k)
  OBVIOUS
<1>6. c \in Int /\ c - 1 = 3 + 1 - (k + 1) /\ (c - 1 < 0 <=> k + 1 >= 5)
  BY <1>4, <1>5
<1>7. p = Parser("parsing", "SEND", c, 0, d)
  BY <1>1, <1>2, <1>3, <1>4, <1>5 DEF AtLine
<1>8. p.awaiting = 0
  BY <1>7 DEF Parser
<1>9. SubSeq(ls, 1, k + 1) = Append(d, l)
  <2>1. PICK j : j = k + 1
    OBVIOUS
  <2>2. j \in 1..Len(ls) /\ j - 1 = k
    BY <1>1, <1>4, <2>1
  <2>3. SubSeq(ls, 1, j) = Append(SubSeq(ls, 1, j - 1), ls[j])
    BY <1>2, <2>2, LineAhead
  <2>. QED BY <1>1, <1>5, <2>1, <2>2, <2>3
<1>10. ASSUME NEW x
       PROVE  Digest(p, x) = Continue(Parser(IF c - 1 < 0 /\ x = Dot THEN "attachments" ELSE "parsing",
                                             "SEND", c - 1, 0, Append(d, x)))
  BY <1>6, <1>7, DigestParsingIs
<1>11. \A x : Cut(Digest(p, x), m)
  BY <1>10, ContinueIs DEF Cut
<1>12. (c - 1 < 0 /\ l = Dot) <=> k + 1 = n - 1
  <2>1. CASE k + 1 = n - 1
    <3>1. k + 1 >= 5
      BY <1>2, <1>4, <2>1
    <3>. QED BY <1>1, <1>2, <1>6, <2>1, <3>1
  <2>2. CASE k + 1 # n - 1
    <3>1. c - 1 < 0 => k + 1 \in 5..(n - 2)
      BY <1>4, <1>6, <2>2
    <3>. QED BY <1>1, <1>2, <2>2, <3>1
  <2>. QED BY <2>1, <2>2
<1>13. PICK s : s = IF k + 1 = n - 1 THEN "attachments" ELSE "parsing"
  OBVIOUS
<1>14. Digest(p, l) = Continue(Parser(s, "SEND", c - 1, 0, Append(d, l))) /\ s # "new"
  BY <1>10, <1>12, <1>13
<1>15. AtLine(Parser(s, "SEND", c - 1, 0, Append(d, l)), y, m, k + 1)
  <2>1. Parser(s, "SEND", c - 1, 0, Append(d, l))
          = Parser(IF m.type = "SEND" /\ k + 1 = Len(ls) - 1 THEN "attachments" ELSE "parsing",
                   m.type, TotalLines(m.type) + 1 - (k + 1), 0, SubSeq(ls, 1, k + 1))
    BY <1>1, <1>2, <1>3, <1>6, <1>9, <1>13
  <2>. QED BY <1>1, <1>4, <2>1 DEF AtLine
<1>16. After(Digest(p, l), y, m)
  BY <1>1, <1>4, <1>14, <1>15, ContinueIs DEF After, Expect
<1>. QED BY <1>1, <1>8, <1>11, <1>16

(* The number of attachments. *)
LEMMA CountLine ==
  ASSUME NEW m, Writable(m), Plain(m), NEW p, NEW w, AtLine(p, w, m, Len(Leading(m)) - 1)
  PROVE  /\ p.awaiting = 0 /\ Len(Leading(m)[Len(Leading(m))]) = 1
         /\ After(Digest(p, Leading(m)[Len(Leading(m))]), Trailing(m), m)
         /\ \A j \in 1..9 : Cut(Digest(p, Number(j)), m)
<1>1. PICK ls, l, n, A, k : /\ ls = Leading(m) /\ l = ls[n] /\ n = Len(ls) /\ A = m.attachments
                            /\ k = Len(A)
  OBVIOUS
<1>2. /\ ls \in Seq(LineSet) /\ m.type = "SEND" /\ n \in Nat /\ n >= 7 /\ l = Number(k)
      /\ ls = Header(m) /\ Trailing(m) = FilesText(A)
  BY <1>1, MailLeading
<1>3. TotalLines("SEND") = 3
  BY DEF TotalLines
<1>4. n - 1 # 0 /\ n \in 1..n /\ n - 1 = Len(ls) - 1
  BY <1>1, <1>2
<1>5. PICK c, d : c = 3 + 1 - (n - 1) /\ d = SubSeq(ls, 1, n - 1)
  OBVIOUS
<1>6. c \in Int /\ c - 1 < 0
  BY <1>2, <1>5
<1>7. p = Parser("attachments", "SEND", c, 0, d)
  BY <1>1, <1>2, <1>3, <1>4, <1>5 DEF AtLine
<1>8. p.awaiting = 0
  BY <1>7 DEF Parser
<1>9. A \in Seq(Files) /\ k \in 0..9 /\ TurnedAll(A) \in Seq(Files) /\ Len(TurnedAll(A)) = k
  BY <1>1, FilesAre
<1>10. IsNumber(l) /\ Value(l) = k /\ Len(l) = 1
  BY <1>2, <1>9, NumberIs
<1>11. Append(d, l) = ls
  <2>1. SubSeq(ls, 1, n) = Append(SubSeq(ls, 1, n - 1), ls[n])
    BY <1>1, <1>2, <1>4, LineAhead
  <2>2. SubSeq(ls, 1, n) = ls
    BY <1>1, <1>2
  <2>. QED BY <1>1, <1>5, <2>1, <2>2
<1>12. Digest(p, l) = IF k * 3 = 0 THEN Finished("SEND", k * 3, 0, ls)
                      ELSE Continue(Parser("attachments", "SEND", k * 3, 0, ls))
  <2>1. Digest(p, l) = IF Value(l) * 3 = 0 THEN Finished("SEND", Value(l) * 3, 0, Append(d, l))
                       ELSE Continue(Parser("attachments", "SEND", Value(l) * 3, 0, Append(d, l)))
    BY <1>6, <1>7, <1>10, DigestAttachmentsIs
  <2>. QED BY <1>10, <1>11, <2>1
<1>16. ASSUME NEW j \in 1..9 PROVE Cut(Digest(p, Number(j)), m)
  <2>1. PICK x : x = Number(j)
    OBVIOUS
  <2>2. IsNumber(x) /\ Value(x) = j
    <3>1. j \in 0..9
      OBVIOUS
    <3>. QED BY <2>1, <3>1, NumberIs
  <2>3. Digest(p, x) = IF Value(x) * 3 = 0 THEN Finished("SEND", Value(x) * 3, 0, Append(d, x))
                       ELSE Continue(Parser("attachments", "SEND", Value(x) * 3, 0, Append(d, x)))
    BY <1>6, <1>7, <2>2, DigestAttachmentsIs
  <2>4. j * 3 # 0
    OBVIOUS
  <2>5. Digest(p, x) = Continue(Parser("attachments", "SEND", j * 3, 0, Append(d, x)))
    BY <2>2, <2>3, <2>4
  <2>. QED BY <2>1, <2>5, ContinueIs DEF Cut
<1>13. ls \in Seq(Texts) /\ Text(ls) \in Texts
  BY <1>2, LineSetLines
<1>14. CASE k = 0
  <2>1. Digest(p, l) = Finished("SEND", k * 3, 0, ls)
    BY <1>12, <1>14
  <2>2. A = <<>> /\ TurnedAll(A) = <<>>
    <3>1. \A s \in Seq(Files) : Len(s) = 0 => s = <<>>
      BY EmptySeq
    <3>2. Len(A) = 0 /\ Len(TurnedAll(A)) = 0
      BY <1>1, <1>9, <1>14
    <3>. QED BY <1>9, <3>1, <3>2
  <2>3. FilesText(<<>>) = <<>> /\ Packed(<<>>) = <<>>
    <3>1. Packed(<<>>) = <<>>
      BY DEF Packed
    <3>. QED BY <3>1, FlattenEmpty DEF FilesText
  <2>4. Inflate(ls) = Arrived(m)
    <3>1. Inflate(ls) = InflateText(Text(ls))
      BY InflateIs
    <3>2. Text(ls) \o (FilesText(<<>>) \o <<>>) = Text(ls)
      BY <1>13, <2>3, AfterText, TextsAre
    <3>3. Eot \notin ToSet(m.receivers)
      BY DEF Plain
    <3>4. <<>> \in Seq(Files) /\ Len(<<>>) = Len(m.attachments)
      BY <1>1, <1>14
    <3>5. InflateText(Text(Header(m)) \o (FilesText(<<>>) \o <<>>))
            = Mail(m.sender, m.receivers, m.title, m.body, <<>>)
      BY <3>3, <3>4, MailBack, TextsAre
    <3>. QED BY <1>1, <1>2, <2>2, <3>1, <3>2, <3>5 DEF Arrived
  <2>5. Clean(Inflate(ls))
    <3>1. Arrived(m).type = "SEND"
      BY <1>2 DEF Arrived, Mail
    <3>. QED BY <2>4, <3>1 DEF Clean
  <2>6. Trailing(m) = <<>>
    BY <1>2, <2>2, <2>3
  <2>7. After(Digest(p, l), Trailing(m), m)
    BY <2>1, <2>4, <2>5, <2>6, FinishedWell
  <2>. QED BY <1>1, <1>8, <1>10, <1>16, <2>7
<1>15. CASE k # 0
  <2>1. k * 3 # 0 /\ 0 \in 0..(k - 1) /\ k * 3 = 3 * (k - 0) /\ 0 + 1 = 1
    BY <1>9, <1>15
  <2>2. Digest(p, l) = Continue(Parser("attachments", "SEND", k * 3, 0, ls))
    BY <1>12, <2>1
  <2>3. SubSeq(TurnedAll(A), 1, 0) = <<>> /\ From(A, 1) = A
    BY <1>9, SubSeqEmpty DEF From
  <2>4. Text(ls) = Text(Header(m)) \o FilesText(SubSeq(TurnedAll(A), 1, 0))
    <3>1. FilesText(<<>>) = <<>>
      <4>1. Packed(<<>>) = <<>>
        BY DEF Packed
      <4>. QED BY <4>1, FlattenEmpty DEF FilesText
    <3>. QED BY <1>2, <1>13, <2>3, <3>1, AfterText
  <2>5. AtFile(Parser("attachments", "SEND", 3 * (k - 0), 0, ls), FilesText(From(A, 0 + 1)), m, 0, 0)
    BY <1>1, <1>13, <2>1, <2>4, FileStart
  <2>6. AtFile(Parser("attachments", "SEND", k * 3, 0, ls), Trailing(m), m, 0, 0)
    BY <1>2, <2>1, <2>3, <2>5
  <2>7. 0 \in 0..2
    OBVIOUS
  <2>8. Expect(Parser("attachments", "SEND", k * 3, 0, ls), Trailing(m), m)
    BY <1>1, <1>2, <2>1, <2>6, <2>7 DEF Expect
  <2>9. After(Digest(p, l), Trailing(m), m)
    BY <2>2, <2>8, ContinueIs DEF After
  <2>. QED BY <1>1, <1>8, <1>10, <1>16, <2>9
<1>. QED BY <1>14, <1>15

-----------------------------------------------------------------------------
(* The parts of a file. *)
LEMMA FileParts ==
  ASSUME NEW a \in Files, NEW z \in Texts
  PROVE  /\ a.filename \in LineSet /\ Number(Len(a.data)) \in LineSet /\ a.data \in Texts /\ Len(a.data) \in 1..9
         /\ Heading(a) \in Seq(Texts) /\ Text(Heading(a)) \in Texts
         /\ SubSeq(Heading(a), 1, 1) = <<a.filename>> /\ SubSeq(Heading(a), 1, 2) = Heading(a)
         /\ Text(<<a.filename>>) = Append(a.filename, NL)
         /\ Text(Heading(a)) = Append(a.filename, NL) \o Append(Number(Len(a.data)), NL)
         /\ Text(From(Heading(a), 1)) \o z = Append(a.filename, NL) \o (Text(From(Heading(a), 2)) \o z)
         /\ Text(From(Heading(a), 2)) \o z = Append(Number(Len(a.data)), NL) \o (Text(From(Heading(a), 3)) \o z)
         /\ Text(From(Heading(a), 3)) \o z = z
         /\ Text(From(Heading(a), 2)) \o z \in Texts
<1>1. PICK h, l, c : h = Heading(a) /\ l = a.filename /\ c = Number(Len(a.data))
  OBVIOUS
<1>2. l \in Texts /\ IsLine(l) /\ a.data \in Texts /\ Len(a.data) \in 1..9 /\ Text(h) \in Texts
  BY <1>1, FileIs
<1>3. l \in LineSet /\ c \in LineSet
  <2>1. Len(a.data) \in 0..9
    BY <1>2
  <2>. QED BY <1>1, <1>2, <2>1, MarksAre DEF LineSet
<1>4. h = <<l, c>>
  BY <1>1 DEF Heading
<1>5. h \in Seq(LineSet) /\ Len(h) = 2 /\ h[1] = l /\ h[2] = c /\ h \in Seq(Texts)
  <2>1. LineSet \subseteq Texts
    BY DEF LineSet
  <2>. QED BY <1>3, <1>4, <2>1
<1>6. SubSeq(h, 1, 1) = <<l>>
  BY <1>4, ButLast
<1>7. SubSeq(h, 1, 2) = h
  BY <1>5
<1>8. Text(<<l>>) = Append(l, NL) /\ Text(<<c>>) = Append(c, NL) /\ c \in Texts
  <2>1. c \in Texts
    BY <1>3 DEF LineSet
  <2>. QED BY <1>2, <2>1, Marks, TextOne DEF Texts
<1>9. Text(h) = Append(l, NL) \o Append(c, NL)
  <2>1. <<l>> \in Seq(Texts) /\ <<l>> \o <<c>> = h /\ c \in Seq(Symbol)
    <3>1. <<l>> \in Seq(Texts) /\ c \in Seq(Symbol)
      BY <1>2, <1>8 DEF Texts
    <3>2. Append(<<l>>, c) = <<l, c>>
      BY AppendTwo
    <3>3. Append(<<l>>, c) = <<l>> \o <<c>>
      <4>1. c \in Texts
        BY <1>8
      <4>. QED BY <3>1, <4>1, AppendIsConcat
    <3>. QED BY <1>4, <3>1, <3>2, <3>3
  <2>2. <<l>> \in Seq(Seq(Symbol)) /\ <<c>> \in Seq(Seq(Symbol))
    BY <2>1 DEF Texts
  <2>3. Text(<<l>> \o <<c>>) = Text(<<l>>) \o Text(<<c>>)
    BY <2>2, Marks, TextConcat
  <2>. QED BY <1>8, <2>1, <2>3
<1>10. /\ Text(From(h, 1)) \o z = Append(l, NL) \o (Text(From(h, 2)) \o z)
       /\ Text(From(h, 2)) \o z \in Texts
  <2>1. 1 \in 1..Len(h) /\ 1 + 1 = 2
    BY <1>5
  <2>2. /\ Text(From(h, 1)) \o z = Append(h[1], NL) \o (Text(From(h, 1 + 1)) \o z)
        /\ Text(From(h, 1 + 1)) \o z \in Texts
    BY <1>5, <2>1, LineAhead
  <2>. QED BY <1>5, <2>1, <2>2
<1>11. /\ Text(From(h, 2)) \o z = Append(c, NL) \o (Text(From(h, 3)) \o z)
       /\ Text(From(h, 3)) \o z = z
  <2>1. 2 \in 1..Len(h) /\ 2 + 1 = 3 /\ 2 = Len(h)
    BY <1>5
  <2>2. /\ Text(From(h, 2)) \o z = Append(h[2], NL) \o (Text(From(h, 2 + 1)) \o z)
        /\ (2 = Len(h) => Text(From(h, 2 + 1)) \o z = z)
    BY <1>5, <2>1, LineAhead
  <2>. QED BY <1>5, <2>1, <2>2
<1>. QED BY <1>1, <1>2, <1>3, <1>5, <1>6, <1>7, <1>8, <1>9, <1>10, <1>11

(* What a parser inside a file has. *)
InFile(m, A, n, i, a, r, h, g) ==
  /\ A = m.attachments /\ n = Len(A) /\ a = A[i + 1]
  /\ r = FilesText(From(A, i + 2)) /\ h = Text(Header(m)) /\ g = FilesText(SubSeq(TurnedAll(A), 1, i))

LEMMA InFileIs ==
  ASSUME NEW m, Writable(m), Plain(m), NEW i \in 0..(Len(m.attachments) - 1),
         NEW A, NEW n, NEW a, NEW r, NEW h, NEW g, InFile(m, A, n, i, a, r, h, g)
  PROVE  /\ A \in Seq(Files) /\ n \in Nat /\ n <= 9 /\ a \in Files /\ r \in Texts /\ h \in Texts /\ g \in Texts
         /\ TurnedAll(A) \in Seq(Files) /\ Len(TurnedAll(A)) = n /\ SubSeq(TurnedAll(A), 1, i) \in Seq(Files)
         /\ Len(SubSeq(TurnedAll(A), 1, i)) = i
         /\ TurnedAll(A)[i + 1] = Turned(a) /\ (Len(a.data) >= 2 => a.data[Len(a.data) - 1] # CR)
         /\ i \in Nat /\ i <= n - 1 /\ i + 1 \in 1..n /\ m.type = "SEND"
         /\ From(A, i + 2) \in Seq(Files) /\ (i = n - 1 => r = <<>>)
<1>1. /\ A = m.attachments /\ n = Len(A) /\ a = A[i + 1]
      /\ r = FilesText(From(A, i + 2)) /\ h = Text(Header(m)) /\ g = FilesText(SubSeq(TurnedAll(A), 1, i))
  BY DEF InFile
<1>2. /\ A \in Seq(Files) /\ n \in 0..9 /\ TurnedAll(A) \in Seq(Files) /\ Len(TurnedAll(A)) = n /\ m.type = "SEND"
  BY <1>1, FilesAre
<1>3. n \in Nat /\ n <= 9 /\ i \in Nat /\ i <= n - 1 /\ i + 1 \in 1..n /\ i + 2 \in Nat \ {0} /\ i <= n
  <2>1. Len(m.attachments) = n
    BY <1>1
  <2>2. i \in 0..(n - 1)
    BY <2>1
  <2>. QED BY <1>2, <2>2
<1>4. /\ a \in Files /\ TurnedAll(A)[i + 1] = Turned(a)
      /\ Len(a.data) >= 2 => a.data[Len(a.data) - 1] # CR
  BY <1>1, <1>3, FilesAre
<1>5. From(A, i + 2) \in Seq(Files) /\ (i + 2 > Len(A) => From(A, i + 2) = <<>>)
  BY <1>2, <1>3, FromType
<1>6. r \in Texts /\ (i = n - 1 => r = <<>>)
  <2>1. r \in Texts
    BY <1>1, <1>5, FilesConcat
  <2>2. i = n - 1 => From(A, i + 2) = <<>>
    BY <1>1, <1>3, <1>5
  <2>3. FilesText(<<>>) = <<>>
    BY <1>4, FilesOne
  <2>. QED BY <1>1, <2>1, <2>2, <2>3
<1>7. h \in Texts
  <2>1. Header(m) \in Seq(LineSet)
    BY HeaderPlain
  <2>. QED BY <1>1, <2>1, LineSetLines
<1>8. SubSeq(TurnedAll(A), 1, i) \in Seq(Files) /\ Len(SubSeq(TurnedAll(A), 1, i)) = i
  <2>1. \A k \in 1..i : TurnedAll(A)[k] \in Files
    BY <1>2, <1>3
  <2>2. 1 \in Int /\ i \in Int
    BY <1>3
  <2>3. SubSeq(TurnedAll(A), 1, i) \in Seq(Files) /\ Len(SubSeq(TurnedAll(A), 1, i)) = IF 1 <= i THEN i - 1 + 1 ELSE 0
    BY <2>1, <2>2, SubSeqProperties
  <2>. QED BY <1>3, <2>3
<1>9. g \in Texts
  BY <1>1, <1>8, FilesConcat
<1>. QED BY <1>1, <1>2, <1>3, <1>4, <1>5, <1>6, <1>7, <1>8, <1>9

(* Three texts, and one more behind them. *)
LEMMA FourTexts ==
  \A s, t, u, v \in Texts : (s \o (t \o u)) \o v = s \o (t \o (u \o v))
<1> DEFINE J(x, y) == x \o y
<1>1. \A x, y \in Texts : J(x, y) \in Texts
  BY TextsAre
<1>2. \A x, y, z \in Texts : J(J(x, y), z) = J(x, J(y, z))
  BY Regroup
<1>3. \A s, t, u, v \in Texts : J(J(s, J(t, u)), v) = J(s, J(t, J(u, v)))
  <2> HIDE DEF J
  <2> TAKE s, t, u, v \in Texts
  <2>1. J(J(s, J(t, u)), v) = J(s, J(J(t, u), v))
    BY <1>1, <1>2
  <2>. QED BY <1>2, <2>1
<1>. QED BY <1>3

LEMMA OneMoreLine ==
  ASSUME NEW d \in Seq(Texts), NEW l \in Texts
  PROVE  Append(d, l) \in Seq(Texts) /\ Text(Append(d, l)) = Text(d) \o Append(l, NL)
<1>1. Append(d, l) \in Seq(Texts)
  OBVIOUS
<1>2. d \in Seq(Seq(Symbol)) /\ l \in Seq(Symbol)
  BY DEF Texts
<1>. QED BY <1>1, <1>2, Marks, TextAppend

LEMMA FileName ==
  ASSUME NEW m, Writable(m), Plain(m), NEW i \in 0..(Len(m.attachments) - 1), NEW p, NEW w,
         AtFile(p, w, m, i, 0)
  PROVE  \E l \in LineSet, y \in Texts :
           /\ NoCr(l) /\ Short(l) /\ p.awaiting = 0 /\ w = Append(l, NL) \o y
           /\ After(Digest(p, l), y, m) /\ \A x : Cut(Digest(p, x), m)
<1>1. PICK A, n, a, r, h, g : InFile(m, A, n, i, a, r, h, g)
  BY DEF InFile
<1>2. PICK l, y, z : l = a.filename /\ z = a.data \o r /\ y = Text(From(Heading(a), 2)) \o z
  OBVIOUS
<1>3. /\ n \in Nat /\ a \in Files /\ r \in Texts /\ h \in Texts /\ g \in Texts /\ i \in Nat /\ i <= n - 1
      /\ m.type = "SEND"
  BY <1>1, InFileIs
<1>4. /\ A = m.attachments /\ n = Len(A) /\ a = A[i + 1]
      /\ r = FilesText(From(A, i + 2)) /\ h = Text(Header(m)) /\ g = FilesText(SubSeq(TurnedAll(A), 1, i))
  BY <1>1 DEF InFile
<1>5. a.data \in Texts /\ z \in Texts
  BY <1>2, <1>3, FileIs, TextsAre
<1>6. /\ l \in LineSet /\ Heading(a) \in Seq(Texts) /\ SubSeq(Heading(a), 1, 1) = <<l>>
      /\ Text(<<l>>) = Append(l, NL) /\ y \in Texts
      /\ Text(From(Heading(a), 1)) \o z = Append(l, NL) \o y
  BY <1>2, <1>3, <1>5, FileParts
<1>7. NoCr(l) /\ Short(l)
  <2>1. IsWord(a.filename) /\ Short(a.filename)
    <3>1. A[i + 1] \in ToSet(A)
      <4>1. i + 1 \in 1..Len(A) /\ A \in Seq(Files)
        BY <1>1, <1>4, InFileIs
      <4>2. ToSet(A) = {A[k] : k \in 1..Len(A)}
        BY <4>1, SetOf
      <4>. QED BY <4>1, <4>2
    <3>2. IsWord(a.filename)
      BY <1>4, <3>1 DEF Writable
    <3>3. Short(a.filename)
      BY <1>4, <3>1 DEF Plain
    <3>. QED BY <3>2, <3>3
  <2>. QED BY <1>2, <2>1 DEF NoCr, IsWord
<1>8. PICK d \in Seq(Texts) :
        /\ p = Parser("attachments", "SEND", 3 * (n - i) - 0, IF 0 = 2 THEN Len(a.data) ELSE 0, d)
        /\ Text(d) = h \o (g \o Text(SubSeq(Heading(a), 1, 0)))
  BY <1>4 DEF AtFile
<1>9. w = Append(l, NL) \o y
  <2>1. w = Text(From(Heading(a), 0 + 1)) \o (a.data \o r)
    BY <1>4 DEF AtFile
  <2>2. 0 + 1 = 1
    OBVIOUS
  <2>. QED BY <1>2, <1>6, <2>1, <2>2
<1>10. PICK c : c = 3 * (n - i)
  OBVIOUS
<1>11. c \in Int /\ c - 1 = 3 * (n - i) - 1 /\ c - 1 >= 0 /\ (c - 1) % 3 = 2 /\ 3 * (n - i) - 0 = c
  BY <1>3, <1>10
<1>12. p = Parser("attachments", "SEND", c, 0, d)
  BY <1>8, <1>11
<1>13. \A x : Digest(p, x) = Continue(Parser("attachments", "SEND", c - 1, 0, Append(d, x)))
  BY <1>11, <1>12, DigestAttachmentsIs
<1>14. \A x : Cut(Digest(p, x), m)
  BY <1>13, ContinueIs DEF Cut
<1>15. /\ Append(d, l) \in Seq(Texts)
       /\ Text(Append(d, l)) = h \o (g \o Text(SubSeq(Heading(a), 1, 1)))
  <2>1. SubSeq(Heading(a), 1, 0) = <<>> /\ g \o Text(<<>>) = g
    <3>1. SubSeq(Heading(a), 1, 0) = <<>>
      BY <1>6, SubSeqEmpty
    <3>2. g \o <<>> = g
      BY <1>3, AfterText
    <3>. QED BY <3>1, <3>2, TextEmpty
  <2>2. l \in Texts
    BY <1>6 DEF LineSet
  <2>3. Append(d, l) \in Seq(Texts) /\ Text(Append(d, l)) = Text(d) \o Append(l, NL)
    BY <2>2, OneMoreLine
  <2>4. (h \o g) \o Append(l, NL) = h \o (g \o Append(l, NL))
    <3>1. PICK e : e = Append(l, NL)
      OBVIOUS
    <3>2. e \in Texts
      BY <2>2, <3>1, TextsAre
    <3>3. (h \o g) \o e = h \o (g \o e)
      BY <1>3, <3>2, Regroup
    <3>. QED BY <3>1, <3>3
  <2>. QED BY <1>6, <1>8, <2>1, <2>3, <2>4
<1>16. AtFile(Parser("attachments", "SEND", c - 1, 0, Append(d, l)), y, m, i, 1)
  <2>1. PICK e, q : e = Append(d, l) /\ q = Parser("attachments", "SEND", c - 1, 0, e)
    OBVIOUS
  <2>2. q = Parser("attachments", "SEND", 3 * (n - i) - 1, IF 1 = 2 THEN Len(a.data) ELSE 0, e)
    BY <1>11, <2>1
  <2>3. y = Text(From(Heading(a), 1 + 1)) \o (a.data \o r)
    BY <1>2
  <2>4. e \in Seq(Texts) /\ Text(e) = h \o (g \o Text(SubSeq(Heading(a), 1, 1)))
    BY <1>15, <2>1
  <2>5. AtFile(q, y, m, i, 1)
    BY <1>4, <2>2, <2>3, <2>4 DEF AtFile
  <2>. QED BY <2>1, <2>5
<1>17. After(Digest(p, l), y, m)
  <2>1. i \in 0..(Len(m.attachments) - 1) /\ 1 \in 0..2
    OBVIOUS
  <2>2. Expect(Parser("attachments", "SEND", c - 1, 0, Append(d, l)), y, m)
    BY <1>3, <1>16, <2>1 DEF Expect
  <2>. QED BY <1>13, <2>2, ContinueIs DEF After
<1>18. p.awaiting = 0
  BY <1>12 DEF Parser
<1>. QED BY <1>6, <1>7, <1>9, <1>14, <1>17, <1>18

LEMMA FileSize ==
  ASSUME NEW m, Writable(m), Plain(m), NEW i \in 0..(Len(m.attachments) - 1), NEW p, NEW w,
         AtFile(p, w, m, i, 1)
  PROVE  \E l \in LineSet, y \in Texts :
           /\ NoCr(l) /\ p.awaiting = 0 /\ w = Append(l, NL) \o y
           /\ l = Number(Len(m.attachments[i + 1].data)) /\ After(Digest(p, l), y, m)
<1>1. PICK A, n, a, r, h, g : InFile(m, A, n, i, a, r, h, g)
  BY DEF InFile
<1>2. PICK l, z, k : k = Len(a.data) /\ l = Number(k) /\ z = a.data \o r
  OBVIOUS
<1>3. /\ n \in Nat /\ a \in Files /\ r \in Texts /\ h \in Texts /\ g \in Texts /\ i \in Nat /\ i <= n - 1
      /\ m.type = "SEND"
  BY <1>1, InFileIs
<1>4. /\ A = m.attachments /\ n = Len(A) /\ a = A[i + 1]
      /\ r = FilesText(From(A, i + 2)) /\ h = Text(Header(m)) /\ g = FilesText(SubSeq(TurnedAll(A), 1, i))
  BY <1>1 DEF InFile
<1>5. a.data \in Texts /\ z \in Texts
  BY <1>2, <1>3, FileIs, TextsAre
<1>6. /\ l \in LineSet /\ k \in 1..9 /\ a.filename \in LineSet
      /\ SubSeq(Heading(a), 1, 1) = <<a.filename>> /\ SubSeq(Heading(a), 1, 2) = Heading(a)
      /\ Text(<<a.filename>>) = Append(a.filename, NL)
      /\ Text(Heading(a)) = Append(a.filename, NL) \o Append(l, NL)
      /\ Text(From(Heading(a), 2)) \o z = Append(l, NL) \o (Text(From(Heading(a), 3)) \o z)
      /\ Text(From(Heading(a), 3)) \o z = z
  BY <1>2, <1>3, <1>5, FileParts
<1>7. k \in 0..9 /\ IsNumber(l) /\ Value(l) = k /\ Len(l) = 1 /\ NoCr(l)
  <2>1. k \in 0..9
    BY <1>6
  <2>. QED BY <1>2, <2>1, NumberIs, MarksNoCr
<1>8. PICK d \in Seq(Texts) :
        /\ p = Parser("attachments", "SEND", 3 * (n - i) - 1, IF 1 = 2 THEN Len(a.data) ELSE 0, d)
        /\ Text(d) = h \o (g \o Text(SubSeq(Heading(a), 1, 1)))
  BY <1>4 DEF AtFile
<1>9. w = Append(l, NL) \o z
  <2>1. w = Text(From(Heading(a), 1 + 1)) \o (a.data \o r)
    BY <1>4 DEF AtFile
  <2>2. 1 + 1 = 2
    OBVIOUS
  <2>. QED BY <1>2, <1>6, <2>1, <2>2
<1>10. PICK c : c = 3 * (n - i) - 1
  OBVIOUS
<1>11. c \in Int /\ c - 1 = 3 * (n - i) - 2 /\ c - 1 >= 0 /\ (c - 1) % 3 = 1
  BY <1>3, <1>10
<1>12. p = Parser("attachments", "SEND", c, 0, d)
  BY <1>8, <1>10
<1>13. Digest(p, l) = Continue(Parser("attachments", "SEND", c - 1, k, Append(d, l)))
  <2>1. Digest(p, l) = Continue(Parser("attachments", "SEND", c - 1, Value(l), Append(d, l)))
    BY <1>7, <1>11, <1>12, DigestAttachmentsIs
  <2>. QED BY <1>7, <2>1
<1>15. /\ Append(d, l) \in Seq(Texts)
       /\ Text(Append(d, l)) = h \o (g \o Text(SubSeq(Heading(a), 1, 2)))
  <2>1. PICK e, f : e = Append(a.filename, NL) /\ f = Append(l, NL)
    OBVIOUS
  <2>2. l \in Texts /\ a.filename \in Texts
    BY <1>6 DEF LineSet
  <2>3. Append(d, l) \in Seq(Texts) /\ Text(Append(d, l)) = Text(d) \o f
    BY <2>1, <2>2, OneMoreLine
  <2>4. e \in Texts /\ f \in Texts
    BY <2>1, <2>2, TextsAre
  <2>5. (h \o (g \o e)) \o f = h \o (g \o (e \o f))
    <3>1. h \in Texts /\ g \in Texts /\ e \in Texts /\ f \in Texts
      BY <1>3, <2>4
    <3>2. \A s, t, u, v \in Texts : (s \o (t \o u)) \o v = s \o (t \o (u \o v))
      BY FourTexts
    <3>3. \A t, u, v \in Texts : (h \o (t \o u)) \o v = h \o (t \o (u \o v))
      BY <3>1, <3>2
    <3>4. \A u, v \in Texts : (h \o (g \o u)) \o v = h \o (g \o (u \o v))
      BY <3>1, <3>3
    <3>. QED BY <3>1, <3>4
  <2>6. Text(d) = h \o (g \o e) /\ Text(SubSeq(Heading(a), 1, 2)) = e \o f
    BY <1>6, <1>8, <2>1
  <2>. QED BY <2>3, <2>5, <2>6
<1>16. AtFile(Parser("attachments", "SEND", c - 1, k, Append(d, l)), z, m, i, 2)
  <2>1. PICK e, q : e = Append(d, l) /\ q = Parser("attachments", "SEND", c - 1, k, e)
    OBVIOUS
  <2>2. q = Parser("attachments", "SEND", 3 * (n - i) - 2, IF 2 = 2 THEN Len(a.data) ELSE 0, e)
    BY <1>2, <1>11, <2>1
  <2>3. z = Text(From(Heading(a), 2 + 1)) \o (a.data \o r)
    <3>1. 2 + 1 = 3
      OBVIOUS
    <3>2. z = Text(From(Heading(a), 3)) \o z
      BY <1>6
    <3>. QED BY <1>2, <3>1, <3>2
  <2>4. e \in Seq(Texts) /\ Text(e) = h \o (g \o Text(SubSeq(Heading(a), 1, 2)))
    BY <1>15, <2>1
  <2>5. AtFile(q, z, m, i, 2)
    BY <1>4, <2>2, <2>3, <2>4 DEF AtFile
  <2>. QED BY <2>1, <2>5
<1>17. After(Digest(p, l), z, m)
  <2>1. i \in 0..(Len(m.attachments) - 1) /\ 2 \in 0..2
    OBVIOUS
  <2>2. Expect(Parser("attachments", "SEND", c - 1, k, Append(d, l)), z, m)
    BY <1>3, <1>16, <2>1 DEF Expect
  <2>. QED BY <1>13, <2>2, ContinueIs DEF After
<1>18. p.awaiting = 0
  BY <1>12 DEF Parser
<1>. QED BY <1>2, <1>4, <1>5, <1>6, <1>7, <1>9, <1>17, <1>18

-----------------------------------------------------------------------------
(* A file in place of another of the same name and size. *)
LEMMA InPlace ==
  ASSUME NEW a \in Files, NEW x \in Texts, Len(x) = Len(a.data) - 1
  PROVE  /\ [filename |-> a.filename, data |-> Append(x, NL)] \in Files
         /\ Len(Append(x, NL)) = Len(a.data)
         /\ AttachmentText([filename |-> a.filename, data |-> Append(x, NL)])
              = Text(Heading(a)) \o Append(x, NL)
<1>1. PICK z, f : z = Append(x, NL) /\ f = [filename |-> a.filename, data |-> z]
  OBVIOUS
<1>2. Len(a.data) \in 1..9 /\ a.filename \in Texts /\ IsLine(a.filename)
  BY FileIs
<1>3. z \in Texts /\ Len(z) = Len(x) + 1
  BY <1>1, TextsAre
<1>4. Len(z) = Len(a.data)
  <2>1. PICK n : n = Len(a.data)
    OBVIOUS
  <2>2. n \in 1..9 /\ Len(x) = n - 1
    BY <1>2, <2>1
  <2>. QED BY <1>3, <2>1, <2>2
<1>5. f \in Files
  <2>1. z \in {d \in Texts : Len(d) \in 1..9} /\ a.filename \in {l \in Texts : IsLine(l)}
    BY <1>2, <1>3, <1>4
  <2>. QED BY <1>1, <2>1 DEF Files
<1>6. f.filename = a.filename /\ f.data = z
  BY <1>1
<1>7. Heading(f) = Heading(a)
  BY <1>4, <1>6 DEF Heading
<1>8. AttachmentText(f) = Text(Heading(f)) \o f.data
  BY <1>5, FileIs
<1>. QED BY <1>1, <1>4, <1>5, <1>6, <1>7, <1>8

(* The bytes of the last file. *)
LEMMA LastBytes ==
  ASSUME NEW m, Writable(m), Plain(m), NEW d \in Seq(Texts), NEW x \in Texts, NEW G \in Seq(Files),
         NEW a \in Files, Len(G) = Len(m.attachments) - 1,
         Text(d) = Text(Header(m)) \o (FilesText(G) \o Text(Heading(a)))
  PROVE  /\ Len(x) = Len(a.data) - 1 =>
              Inflate(Append(d, x)) = Mail(m.sender, m.receivers, m.title, m.body,
                                           Append(G, [filename |-> a.filename, data |-> Append(x, NL)]))
         /\ Len(x) < Len(a.data) - 1 => Inflate(Append(d, x)) = Malformed
<1>1. PICK h, g, e, z : h = Text(Header(m)) /\ g = FilesText(G) /\ e = Text(Heading(a)) /\ z = Append(x, NL)
  OBVIOUS
<1>2. h \in Texts /\ g \in Texts /\ e \in Texts /\ z \in Texts /\ Len(z) = Len(x) + 1
  <2>1. Header(m) \in Seq(LineSet)
    BY HeaderPlain
  <2>2. h \in Texts
    BY <1>1, <2>1, LineSetLines
  <2>3. g \in Texts /\ e \in Texts
    BY <1>1, FilesConcat, FileIs
  <2>. QED BY <1>1, <2>2, <2>3, TextsAre
<1>3. Inflate(Append(d, x)) = InflateText(h \o (g \o (e \o z)))
  <2>1. Inflate(Append(d, x)) = InflateText(Text(Append(d, x)))
    BY InflateIs
  <2>2. Text(Append(d, x)) = (h \o (g \o e)) \o z
    BY <1>1, OneMoreLine
  <2>3. \A s, t, u, v \in Texts : (s \o (t \o u)) \o v = s \o (t \o (u \o v))
    BY FourTexts
  <2>4. \A u, v \in Texts : (h \o (g \o u)) \o v = h \o (g \o (u \o v))
    BY <1>2, <2>3
  <2>. QED BY <1>2, <2>1, <2>2, <2>4
<1>4. Eot \notin ToSet(m.receivers)
  BY DEF Plain
<1>5. Len(m.attachments) \in 0..9 /\ Len(G) \in Nat /\ Len(a.data) \in 1..9 /\ Len(x) \in Nat
  <2>1. Len(m.attachments) \in 0..9 /\ Len(a.data) \in 1..9
    BY WritableIs, FileIs
  <2>2. Len(G) \in Nat /\ Len(x) \in Nat
    BY TextsAre
  <2>. QED BY <2>1, <2>2
<1>6. ASSUME Len(x) = Len(a.data) - 1
      PROVE  Inflate(Append(d, x)) = Mail(m.sender, m.receivers, m.title, m.body,
                                          Append(G, [filename |-> a.filename, data |-> z]))
  <2>1. PICK f : f = [filename |-> a.filename, data |-> z]
    OBVIOUS
  <2>2. f \in Files /\ AttachmentText(f) = e \o z
    BY <1>1, <1>6, <2>1, InPlace
  <2>3. Append(G, f) = G \o <<f>> /\ <<f>> \in Seq(Files) /\ Append(G, f) \in Seq(Files)
    BY <2>2, AppendIsConcat
  <2>4. FilesText(G \o <<f>>) = g \o (e \o z)
    BY <1>1, <2>2, <2>3, FilesConcat, FilesOne
  <2>5. Len(Append(G, f)) = Len(m.attachments)
    BY <1>5, <2>2
  <2>6. InflateText(h \o (FilesText(Append(G, f)) \o <<>>))
          = Mail(m.sender, m.receivers, m.title, m.body, Append(G, f))
    BY <1>1, <1>4, <2>3, <2>5, MailBack, TextsAre
  <2>7. FilesText(Append(G, f)) \in Texts
    BY <2>3, FilesConcat
  <2>8. FilesText(Append(G, f)) \o <<>> = g \o (e \o z)
    BY <2>3, <2>4, <2>7, AfterText
  <2>. QED BY <1>3, <2>1, <2>6, <2>8
<1>7. ASSUME Len(x) < Len(a.data) - 1
      PROVE  Inflate(Append(d, x)) = Malformed
  <2>1. PICK b, n : b = g \o (e \o z) /\ n = Len(G)
    OBVIOUS
  <2>2. e \o z \in Texts /\ b \in Texts
    <3>1. e \o z \in Texts
      BY <1>2, TextsAre
    <3>. QED BY <1>2, <2>1, <3>1, TextsAre
  <2>3. InflateText(h \o b) = Found(m, Attachments(b, Len(m.attachments)))
    BY <1>1, <1>4, <2>2, InflateMail
  <2>4. Len(m.attachments) = n + 1 /\ n \in Nat
    BY <1>5, <2>1
  <2>5. Attachments(b, n) = [ok |-> TRUE, rest |-> e \o z, list |-> G]
    BY <1>1, <2>1, <2>2, AttachmentsRead
  <2>6. Attachments(b, n + 1) = OneMore(Attachments(b, n))
    BY <2>4, AttachmentsNext
  <2>7. Len(z) < Len(a.data)
    BY <1>2, <1>5, <1>7
  <2>8. ~OneMore([ok |-> TRUE, rest |-> e \o z, list |-> G]).ok
    BY <1>1, <1>2, <2>7, OneMoreFails
  <2>9. ~Attachments(b, Len(m.attachments)).ok
    BY <2>4, <2>5, <2>6, <2>8
  <2>. QED BY <1>3, <2>1, <2>3, <2>9 DEF Found
<1>. QED BY <1>1, <1>6, <1>7

LEMMA NotLonger ==
  ASSUME NEW a \in Files, Len(a.data) >= 2 => a.data[Len(a.data) - 1] # CR
  PROVE  Turned(a).filename = a.filename /\ Len(Turned(a).data) <= Len(a.data)
<1>1. PICK k : k = Len(a.data)
  OBVIOUS
<1>2. k \in 1..9 /\ Turned(a).filename = a.filename /\ Len(Turned(a).data) = k
  BY <1>1, FileIs, TurnedIs
<1>3. k <= k
  BY <1>2
<1>. QED BY <1>1, <1>2, <1>3

(* Files that come one after the other, the last one perhaps with other bytes. *)
LEMMA AllArrived ==
  ASSUME NEW m, Writable(m), Plain(m), Len(m.attachments) > 0
  PROVE  LET n == Len(m.attachments)
             G == SubSeq(TurnedAll(m.attachments), 1, n - 1)
         IN  /\ Append(G, Turned(m.attachments[n])) = TurnedAll(m.attachments)
             /\ \A f \in Files : /\ f.filename = m.attachments[n].filename
                                 /\ Len(f.data) <= Len(m.attachments[n].data)
                  => Almost(Mail(m.sender, m.receivers, m.title, m.body, Append(G, f)), m)
<1>1. PICK A, n, T, G : A = m.attachments /\ n = Len(A) /\ T = TurnedAll(A) /\ G = SubSeq(T, 1, n - 1)
  OBVIOUS
<1>2. /\ A \in Seq(Files) /\ n \in 0..9 /\ T \in Seq(Files) /\ Len(T) = n /\ m.type = "SEND"
      /\ \A i \in 1..n : /\ A[i] \in Files /\ T[i] = Turned(A[i])
                         /\ Len(A[i].data) >= 2 => A[i].data[Len(A[i].data) - 1] # CR
  BY <1>1, FilesAre
<1>3. n \in 1..Len(T) /\ n - 1 \in Nat /\ (n - 1) + 1 = n /\ \A i \in 1..n : i = n \/ i \in 1..(n - 1)
  BY <1>1, <1>2
<1>4. G \in Seq(Files) /\ Len(G) = n - 1 /\ \A i \in 1..(n - 1) : G[i] = T[i]
  <2>1. \A i \in 1..(n - 1) : T[i] \in Files
    BY <1>2, <1>3
  <2>2. 1 \in Int /\ n - 1 \in Int
    BY <1>3
  <2>3. /\ G \in Seq(Files) /\ Len(G) = IF 1 <= n - 1 THEN (n - 1) - 1 + 1 ELSE 0
        /\ \A i \in 1..((n - 1) - 1 + 1) : G[i] = T[1 + i - 1]
    BY <1>1, <2>1, <2>2, SubSeqProperties
  <2>4. /\ (n - 1) - 1 + 1 = n - 1 /\ (~(1 <= n - 1) => n - 1 = 0) /\ \A i \in 1..(n - 1) : 1 + i - 1 = i
    BY <1>3
  <2>. QED BY <2>3, <2>4
<1>5. Append(G, Turned(A[n])) = T
  <2>1. SubSeq(T, 1, n) = Append(SubSeq(T, 1, n - 1), T[n])
    BY <1>2, <1>3, UpTo
  <2>2. SubSeq(T, 1, n) = T
    BY <1>2
  <2>3. T[n] = Turned(A[n])
    BY <1>2, <1>3
  <2>. QED BY <1>1, <2>1, <2>2, <2>3
<1>6. \A i \in 1..n : T[i].filename = A[i].filename /\ Len(T[i].data) <= Len(A[i].data)
  BY <1>2, NotLonger
<1>7. ASSUME NEW f \in Files, f.filename = A[n].filename, Len(f.data) <= Len(A[n].data)
      PROVE  Almost(Mail(m.sender, m.receivers, m.title, m.body, Append(G, f)), m)
  <2>1. PICK F : F = Append(G, f)
    OBVIOUS
  <2>2. /\ F \in Seq(Files) /\ Len(F) = n /\ F[n] = f /\ \A i \in 1..(n - 1) : F[i] = G[i]
    <3>1. /\ F \in Seq(Files) /\ Len(F) = Len(G) + 1 /\ (\A i \in 1..Len(G) : F[i] = G[i])
          /\ F[Len(G) + 1] = f
      BY <1>4, <2>1, AppendProperties
    <3>. QED BY <1>3, <1>4, <3>1
  <2>3. \A i \in 1..n : F[i].filename = A[i].filename /\ Len(F[i].data) <= Len(A[i].data)
    <3>1. \A i \in 1..(n - 1) : F[i] = T[i] /\ i \in 1..n
      BY <1>3, <1>4, <2>2
    <3>. QED BY <1>3, <1>6, <1>7, <2>2, <3>1
  <2>4. \E Z \in Seq(Files) :
          /\ Mail(m.sender, m.receivers, m.title, m.body, F) = Mail(m.sender, m.receivers, m.title, m.body, Z)
          /\ Len(Z) = Len(m.attachments)
          /\ \A i \in 1..Len(Z) : /\ Z[i].filename = m.attachments[i].filename
                                  /\ Len(Z[i].data) <= Len(m.attachments[i].data)
    BY <1>1, <2>2, <2>3
  <2>. QED BY <1>2, <2>1, <2>4 DEF Almost, Resembles
<1>. QED BY <1>1, <1>5, <1>7

-----------------------------------------------------------------------------
LEMMA FileBytes ==
  ASSUME NEW m, Writable(m), Plain(m), NEW i \in 0..(Len(m.attachments) - 1), NEW p, NEW w,
         AtFile(p, w, m, i, 2)
  PROVE  \E l \in Texts, y \in Texts :
           /\ p.awaiting = Len(l) /\ Len(l) \in 1..9 /\ w = l \o y
           /\ After(Digest(p, Chop(l)), y, m)
           /\ \A b \in Texts : Len(b) = Len(l) => Cut(Digest(p, Chop(b)), m)
<1>1. PICK A, n, a, r, h, g : InFile(m, A, n, i, a, r, h, g)
  BY DEF InFile
<1>2. PICK k, l, T, G : k = Len(a.data) /\ l = a.data /\ T = TurnedAll(A) /\ G = SubSeq(T, 1, i)
  OBVIOUS
<1>3. /\ n \in Nat /\ a \in Files /\ r \in Texts /\ h \in Texts /\ g \in Texts /\ i \in Nat /\ i <= n - 1
      /\ m.type = "SEND" /\ T \in Seq(Files) /\ Len(T) = n /\ G \in Seq(Files) /\ Len(G) = i
      /\ T[i + 1] = Turned(a) /\ (k >= 2 => l[k - 1] # CR) /\ i + 1 \in 1..n
      /\ From(A, i + 2) \in Seq(Files) /\ (i = n - 1 => r = <<>>)
  BY <1>1, <1>2, InFileIs
<1>4. /\ A = m.attachments /\ n = Len(A) /\ a = A[i + 1]
      /\ r = FilesText(From(A, i + 2)) /\ h = Text(Header(m)) /\ g = FilesText(G)
  BY <1>1, <1>2 DEF InFile
<1>5. l \in Texts /\ k = Len(l) /\ k \in 1..9
  BY <1>2, <1>3, FileIs
<1>6. PICK d \in Seq(Texts) :
        /\ p = Parser("attachments", "SEND", 3 * (n - i) - 2, IF 2 = 2 THEN Len(a.data) ELSE 0, d)
        /\ Text(d) = h \o (g \o Text(SubSeq(Heading(a), 1, 2)))
  BY <1>2, <1>4 DEF AtFile
<1>7. w = l \o r
  <2>1. w = Text(From(Heading(a), 2 + 1)) \o (a.data \o r)
    BY <1>4 DEF AtFile
  <2>2. 2 + 1 = 3
    OBVIOUS
  <2>3. a.data \o r \in Texts
    BY <1>2, <1>3, <1>5, TextsAre
  <2>4. Text(From(Heading(a), 3)) \o (a.data \o r) = a.data \o r
    BY <1>3, <2>3, FileParts
  <2>. QED BY <1>2, <2>1, <2>2, <2>4
<1>8. Text(d) = h \o (g \o Text(Heading(a)))
  <2>1. SubSeq(Heading(a), 1, 2) = Heading(a)
    BY <1>3, FileParts, TextsAre
  <2>. QED BY <1>6, <2>1
<1>9. PICK c : c = 3 * (n - i) - 2
  OBVIOUS
<1>10. /\ c \in Int /\ c - 1 = 3 * (n - (i + 1)) /\ c - 1 >= 0 /\ (c - 1) % 3 = 0
       /\ c - 1 = 0 <=> i = n - 1
  BY <1>3, <1>9
<1>11. p = Parser("attachments", "SEND", c, k, d)
  BY <1>2, <1>6, <1>9
<1>12. p.awaiting = k
  BY <1>11 DEF Parser
<1>13. \A x : Digest(p, x) = IF i = n - 1 THEN Finished("SEND", c - 1, 0, Append(d, x))
                             ELSE Continue(Parser("attachments", "SEND", c - 1, 0, Append(d, x)))
  <2>1. \A x : Digest(p, x) = IF c - 1 = 0 THEN Finished("SEND", c - 1, 0, Append(d, x))
                              ELSE Continue(Parser("attachments", "SEND", c - 1, 0, Append(d, x)))
    BY <1>10, <1>11, DigestAttachmentsIs
  <2>. QED BY <1>10, <2>1
<1>14. /\ Turned(a) \in Files /\ Turned(a).filename = a.filename /\ Heading(Turned(a)) = Heading(a)
       /\ Turned(a).data = Append(Chop(l), NL) /\ Chop(l) \in Texts /\ Len(Turned(a).data) = k
  BY <1>2, <1>3, TurnedIs
<1>15. Len(Chop(l)) = k - 1
  <2>1. Len(Append(Chop(l), NL)) = Len(Chop(l)) + 1 /\ Len(Chop(l)) \in Nat
    BY <1>14, TextsAre
  <2>2. \A u \in Nat : k = u + 1 => u = k - 1
    BY <1>5
  <2>. QED BY <1>14, <2>1, <2>2
<1>16. CASE i = n - 1
  <2>1. Len(m.attachments) = n /\ Len(m.attachments) > 0 /\ a = m.attachments[n] /\ G = SubSeq(T, 1, n - 1)
        /\ Len(G) = Len(m.attachments) - 1 /\ r = <<>>
    BY <1>2, <1>3, <1>4, <1>16
  <2>2. /\ Append(G, Turned(a)) = T
        /\ \A f \in Files : f.filename = a.filename /\ Len(f.data) = k
             => Almost(Mail(m.sender, m.receivers, m.title, m.body, Append(G, f)), m)
    <3>1. k <= k
      BY <1>5
    <3>. QED BY <1>2, <1>4, <2>1, <3>1, AllArrived
  <2>3. ASSUME NEW x \in Texts
        PROVE  /\ Len(x) = k - 1 =>
                    Inflate(Append(d, x)) = Mail(m.sender, m.receivers, m.title, m.body,
                                                 Append(G, [filename |-> a.filename, data |-> Append(x, NL)]))
               /\ Len(x) < k - 1 => Inflate(Append(d, x)) = Malformed
    <3>1. Text(d) = Text(Header(m)) \o (FilesText(G) \o Text(Heading(a)))
      BY <1>4, <1>8
    <3>2. /\ Len(x) = Len(a.data) - 1 =>
               Inflate(Append(d, x)) = Mail(m.sender, m.receivers, m.title, m.body,
                                            Append(G, [filename |-> a.filename, data |-> Append(x, NL)]))
          /\ Len(x) < Len(a.data) - 1 => Inflate(Append(d, x)) = Malformed
      <4>1. G \in Seq(Files) /\ a \in Files /\ Len(G) = Len(m.attachments) - 1
        BY <1>3, <2>1
      <4>. QED BY <3>1, <4>1, LastBytes
    <3>3. Len(a.data) = k
      BY <1>2
    <3>. QED BY <3>2, <3>3
  <2>4. After(Digest(p, Chop(l)), r, m)
    <3>1. [filename |-> a.filename, data |-> Append(Chop(l), NL)] = Turned(a)
      <4>1. Turned(a) = [filename |-> Turned(a).filename, data |-> Turned(a).data]
        BY DEF Turned
      <4>. QED BY <1>14, <4>1
    <3>2. Inflate(Append(d, Chop(l))) = Mail(m.sender, m.receivers, m.title, m.body, T)
      BY <1>14, <1>15, <2>2, <2>3, <3>1
    <3>3. Inflate(Append(d, Chop(l))) = Arrived(m)
      BY <1>2, <1>3, <1>4, <3>2 DEF Arrived
    <3>4. Clean(Inflate(Append(d, Chop(l))))
      <4>1. Mail(m.sender, m.receivers, m.title, m.body, T).type = "SEND"
        BY DEF Mail
      <4>. QED BY <3>2, <4>1 DEF Clean
    <3>5. Digest(p, Chop(l)) = Finished("SEND", c - 1, 0, Append(d, Chop(l)))
      BY <1>13, <1>16
    <3>. QED BY <2>1, <3>3, <3>4, <3>5, FinishedWell
  <2>5. ASSUME NEW b \in Texts, Len(b) = k PROVE Cut(Digest(p, Chop(b)), m)
    <3>1. PICK x : x = Chop(b)
      OBVIOUS
    <3>2. x \in Texts /\ Len(x) \in {k - 1, k - 2}
      <4>1. Len(b) > 0
        BY <1>5, <2>5
      <4>. QED BY <2>5, <3>1, <4>1, ChopIs
    <3>3. Digest(p, x).got = Inflate(Append(d, x)) /\ Digest(p, x).parser.awaiting = 0
      <4>1. Digest(p, x) = Finished("SEND", c - 1, 0, Append(d, x))
        BY <1>13, <1>16
      <4>. QED BY <4>1, FinishedHas
    <3>4. CASE Len(x) = k - 1
      <4>1. PICK f : f = [filename |-> a.filename, data |-> Append(x, NL)]
        OBVIOUS
      <4>2. f \in Files /\ f.filename = a.filename /\ Len(f.data) = k
        <5>1. f \in Files /\ Len(Append(x, NL)) = Len(a.data)
          BY <1>2, <1>3, <3>2, <3>4, <4>1, InPlace
        <5>. QED BY <1>2, <4>1, <5>1
      <4>3. Almost(Inflate(Append(d, x)), m)
        BY <2>2, <2>3, <3>2, <3>4, <4>1, <4>2
      <4>. QED BY <3>1, <3>3, <4>3 DEF Cut
    <3>5. CASE Len(x) = k - 2
      <4>1. Len(x) < k - 1
        BY <1>5, <3>5
      <4>2. Inflate(Append(d, x)) = Malformed
        BY <2>3, <3>2, <4>1
      <4>. QED BY <3>1, <3>3, <4>2 DEF Cut
    <3>. QED BY <3>2, <3>4, <3>5
  <2>. QED BY <1>3, <1>5, <1>7, <1>12, <2>4, <2>5
<1>17. CASE i # n - 1
  <2>1. \A x : Digest(p, x) = Continue(Parser("attachments", "SEND", c - 1, 0, Append(d, x)))
    BY <1>13, <1>17
  <2>2. \A x : Cut(Digest(p, x), m)
    BY <2>1, ContinueIs DEF Cut
  <2>3. PICK j : j = i + 1
    OBVIOUS
  <2>4. /\ j \in 0..(Len(m.attachments) - 1) /\ c - 1 = 3 * (Len(m.attachments) - j)
        /\ j + 1 = i + 2 /\ j \in 1..n
    <3>1. Len(m.attachments) = n
      BY <1>4
    <3>2. j \in 0..(n - 1) /\ j + 1 = i + 2 /\ j \in 1..n
      BY <1>3, <1>17, <2>3
    <3>3. c - 1 = 3 * (n - j)
      BY <1>10, <2>3
    <3>. QED BY <3>1, <3>2, <3>3
  <2>5. /\ Append(d, Chop(l)) \in Seq(Texts)
        /\ Text(Append(d, Chop(l))) = h \o FilesText(SubSeq(T, 1, j))
    <3>1. PICK e, z : e = Text(Heading(a)) /\ z = Append(Chop(l), NL)
      OBVIOUS
    <3>2. e \in Texts /\ z \in Texts
      BY <1>3, <1>14, <3>1, FileIs, TextsAre
    <3>3. Append(d, Chop(l)) \in Seq(Texts) /\ Text(Append(d, Chop(l))) = Text(d) \o z
      BY <1>14, <3>1, OneMoreLine
    <3>4. (h \o (g \o e)) \o z = h \o (g \o (e \o z))
      <4>1. \A s, t, u, v \in Texts : (s \o (t \o u)) \o v = s \o (t \o (u \o v))
        BY FourTexts
      <4>2. \A u, v \in Texts : (h \o (g \o u)) \o v = h \o (g \o (u \o v))
        BY <1>3, <4>1
      <4>. QED BY <3>2, <4>2
    <3>5. AttachmentText(Turned(a)) = e \o z
      <4>1. AttachmentText(Turned(a)) = Text(Heading(Turned(a))) \o Turned(a).data
        BY <1>14, FileIs
      <4>. QED BY <1>14, <3>1, <4>1
    <3>6. FilesText(SubSeq(T, 1, j)) = FilesText(SubSeq(T, 1, j - 1)) \o AttachmentText(T[j])
      BY <1>3, <2>4, FilesUpTo
    <3>7. j - 1 = i /\ T[j] = Turned(a)
      BY <1>3, <2>3
    <3>8. FilesText(SubSeq(T, 1, j)) = g \o (e \o z)
      <4>1. FilesText(SubSeq(T, 1, j - 1)) = g
        BY <1>2, <1>4, <3>7
      <4>. QED BY <3>5, <3>6, <3>7, <4>1
    <3>9. Text(d) = h \o (g \o e)
      BY <1>8, <3>1
    <3>. QED BY <3>3, <3>4, <3>8, <3>9
  <2>6. AtFile(Parser("attachments", "SEND", 3 * (Len(m.attachments) - j), 0, Append(d, Chop(l))),
               FilesText(From(m.attachments, j + 1)), m, j, 0)
    BY <1>2, <1>4, <2>4, <2>5, FileStart
  <2>7. AtFile(Parser("attachments", "SEND", c - 1, 0, Append(d, Chop(l))), r, m, j, 0)
    BY <1>4, <2>4, <2>6
  <2>8. 0 \in 0..2
    OBVIOUS
  <2>9. Expect(Parser("attachments", "SEND", c - 1, 0, Append(d, Chop(l))), r, m)
    BY <1>3, <2>4, <2>7, <2>8 DEF Expect
  <2>10. After(Digest(p, Chop(l)), r, m)
    BY <2>1, <2>9, ContinueIs DEF After
  <2>. QED BY <1>3, <1>5, <1>7, <1>12, <2>2, <2>10
<1>. QED BY <1>16, <1>17

-----------------------------------------------------------------------------
LEMMA ArrivedAlmost ==
  ASSUME NEW m, Carried(m)
  PROVE  Almost(Arrived(m), m)
<1>1. CASE m.type # "SEND"
  BY <1>1 DEF Arrived, Almost
<1>2. CASE m.type = "SEND"
  <2>1. Writable(m) /\ Plain(m)
    BY <1>2, CarriedIs
  <2>2. PICK A, T : A = m.attachments /\ T = TurnedAll(A)
    OBVIOUS
  <2>3. /\ T \in Seq(Files) /\ Len(T) = Len(A)
        /\ \A i \in 1..Len(A) : /\ A[i] \in Files /\ T[i] = Turned(A[i])
                                /\ Len(A[i].data) >= 2 => A[i].data[Len(A[i].data) - 1] # CR
    BY <2>1, <2>2, FilesAre
  <2>4. \A i \in 1..Len(T) : T[i].filename = A[i].filename /\ Len(T[i].data) <= Len(A[i].data)
    BY <2>3, NotLonger
  <2>5. Arrived(m) = Mail(m.sender, m.receivers, m.title, m.body, T)
    BY <1>2, <2>2 DEF Arrived
  <2>. QED BY <1>2, <2>2, <2>3, <2>4, <2>5 DEF Almost, Resembles
<1>. QED BY <1>1, <1>2

LEMMA IdleAwaits == ASSUME NEW p, Idle(p) PROVE p.awaiting = 0 /\ p.state = "new" /\ p.data = <<>>
BY DEF Idle, Parser

LEMMA AfterCut ==
  ASSUME NEW m, Carried(m), NEW d, NEW w \in Texts, After(d, w, m)
  PROVE  Cut(d, m)
<1>1. CASE d.got = Nothing /\ d.parser.state # "new" /\ Expect(d.parser, w, m)
  BY <1>1 DEF Cut, Shorter
<1>2. CASE d.got = Arrived(m) /\ Idle(d.parser) /\ w = <<>>
  BY <1>2, ArrivedAlmost, IdleAwaits DEF Cut
<1>. QED BY <1>1, <1>2 DEF After

(* A size that was cut: the parser is, before it, one in a mail where that file is
   shorter. *)
LEMMA SizeCut ==
  ASSUME NEW m, Writable(m), Plain(m), NEW i \in 0..(Len(m.attachments) - 1), NEW p, NEW w,
         AtFile(p, w, m, i, 1), NEW k \in 1..9, k < Len(m.attachments[i + 1].data)
  PROVE  Cut(Digest(p, Number(k)), m)
<1>1. PICK A, a, z, f, F, n :
        /\ A = m.attachments /\ a = A[i + 1] /\ z = [x \in 1..k |-> NL]
        /\ f = [filename |-> a.filename, data |-> z]
        /\ F = [A EXCEPT ![i + 1] = f]
        /\ n = Mail(m.sender, m.receivers, m.title, m.body, F)
  OBVIOUS
<1>2. /\ A \in Seq(Files) /\ Len(A) \in 0..9 /\ i + 1 \in 1..Len(A) /\ i \in Nat /\ i <= Len(A) - 1
      /\ m.type = "SEND"
  <2>1. A \in Seq(Files) /\ Len(A) \in 0..9 /\ m.type = "SEND"
    BY <1>1, FilesAre
  <2>2. i \in 0..(Len(A) - 1)
    BY <1>1
  <2>. QED BY <2>1, <2>2
<1>3. a \in Files /\ a.filename \in Texts /\ IsLine(a.filename)
  <2>1. a \in Files
    BY <1>1, <1>2
  <2>. QED BY <2>1, FileIs
<1>4. z \in Texts /\ Len(z) = k /\ \A j \in 1..k : z[j] = NL
  <2>1. z \in [1..k -> Symbol]
    BY <1>1, Marks
  <2>2. k \in Nat
    OBVIOUS
  <2>3. z \in Seq(Symbol) /\ Len(z) = k
    BY <2>1, <2>2, FunctionIsSeq
  <2>. QED BY <1>1, <2>3 DEF Texts
<1>5. f \in Files /\ f.filename = a.filename /\ f.data = z /\ f = [filename |-> f.filename, data |-> f.data]
  BY <1>1, <1>3, <1>4 DEF Files
<1>6. /\ F \in Seq(Files) /\ Len(F) = Len(A) /\ F[i + 1] = f
      /\ \A j \in 1..Len(A) : j # i + 1 => F[j] = A[j]
  BY <1>1, <1>2, <1>5
<1>7. /\ n.sender = m.sender /\ n.receivers = m.receivers /\ n.title = m.title /\ n.body = m.body
      /\ n.attachments = F
  BY <1>1 DEF Mail
<1>8. \A j \in 1..Len(F) : F[j].filename = A[j].filename /\ Len(F[j].data) <= Len(A[j].data)
  <2>1. ASSUME NEW j \in 1..Len(A), j # i + 1 PROVE Len(A[j].data) <= Len(A[j].data)
    <3>1. PICK x : x = Len(A[j].data)
      OBVIOUS
    <3>2. A[j] \in Files
      BY <1>2
    <3>3. x \in 1..9
      BY <3>1, <3>2, FileIs
    <3>. QED BY <3>1, <3>3
  <2>2. Len(f.data) <= Len(a.data)
    <3>1. PICK x : x = Len(a.data)
      OBVIOUS
    <3>2. x \in 1..9 /\ k < x
      BY <1>1, <1>3, <3>1, FileIs
    <3>. QED BY <1>4, <1>5, <3>1, <3>2
  <2>. QED BY <1>1, <1>5, <1>6, <2>1, <2>2
<1>9. Resembles(n, m)
  <2>1. /\ Len(F) = Len(m.attachments)
        /\ \A j \in 1..Len(F) : /\ F[j].filename = m.attachments[j].filename
                                /\ Len(F[j].data) <= Len(m.attachments[j].data)
    BY <1>1, <1>6, <1>8
  <2>2. n = Mail(m.sender, m.receivers, m.title, m.body, F) /\ F \in Seq(Files)
    BY <1>1, <1>6
  <2>. QED BY <2>1, <2>2 DEF Resembles
<1>10. ToSet(A) = {A[j] : j \in 1..Len(A)} /\ ToSet(F) = {F[j] : j \in 1..Len(F)}
  BY <1>2, <1>6, SetOf
<1>11. \A g \in ToSet(F) : g = f \/ g \in ToSet(A)
  BY <1>6, <1>10
<1>12. a \in ToSet(A)
  BY <1>1, <1>2, <1>10
<1>13. Writable(n)
  <2>1. F \in Seq(ToSet(F)) /\ Len(F) <= 9
    <3>1. F \in Seq(ToSet(F))
      BY <1>6, <1>10
    <3>2. PICK x : x = Len(A)
      OBVIOUS
    <3>3. x \in 0..9 /\ Len(F) = x
      BY <1>2, <1>6, <3>2
    <3>4. Len(F) <= 9
      BY <3>3
    <3>. QED BY <3>1, <3>4
  <2>2. \A g \in ToSet(A) : /\ g = [filename |-> g.filename, data |-> g.data]
                             /\ IsWord(g.filename) /\ g.data \in Seq(Symbol) /\ Len(g.data) \in 1..9
    BY <1>1 DEF Writable
  <2>3. \A g \in ToSet(F) : /\ g = [filename |-> g.filename, data |-> g.data]
                             /\ IsWord(g.filename) /\ g.data \in Seq(Symbol) /\ Len(g.data) \in 1..9
    <3>1. /\ f = [filename |-> f.filename, data |-> f.data]
          /\ IsWord(f.filename) /\ f.data \in Seq(Symbol) /\ Len(f.data) \in 1..9
      BY <1>4, <1>5, <1>12, <2>2 DEF Texts
    <3>. QED BY <1>11, <2>2, <3>1
  <2>4. /\ IsWord(m.sender) /\ IsWord(m.title)
        /\ m.receivers \in Seq(ToSet(m.receivers)) /\ m.receivers # <<>>
        /\ \A l \in ToSet(m.receivers) : IsWord(l)
        /\ m.body \in Seq(ToSet(m.body)) /\ \A l \in ToSet(m.body) : IsLine(l) /\ l # Dot
    BY DEF Writable
  <2>. QED BY <1>1, <1>7, <2>1, <2>3, <2>4, ZenonT(30) DEF Writable
<1>14. Plain(n)
  <2>1. /\ Short(m.sender) /\ Short(m.title)
        /\ \A l \in ToSet(m.receivers) \cup ToSet(m.body) : Short(l)
        /\ \A g \in ToSet(A) : Short(g.filename)
        /\ m.title # Dot
        /\ Eot \notin ToSet(m.receivers) /\ \A j \in 3..Len(m.receivers) : m.receivers[j] # Dot
        /\ \A l \in ToSet(m.body) : l # <<>> => l[Len(l)] # CR
    BY <1>1 DEF Plain
  <2>2. \A g \in ToSet(F) : Short(g.filename)
    BY <1>5, <1>11, <1>12, <2>1
  <2>3. DOMAIN F = 1..Len(F)
    BY <1>6
  <2>4. ASSUME NEW j \in 1..Len(F), Len(F[j].data) >= 2 PROVE F[j].data[Len(F[j].data) - 1] # CR
    <3>1. CASE j = i + 1
      <4>1. F[j].data = z /\ k >= 2 /\ k - 1 \in 1..k
        BY <1>4, <1>5, <1>6, <2>4, <3>1
      <4>2. z[k - 1] = NL /\ NL # CR
        BY <1>4, <4>1 DEF NL, CR
      <4>. QED BY <1>4, <4>1, <4>2
    <3>2. CASE j # i + 1
      <4>1. F[j] = A[j] /\ j \in 1..Len(m.attachments)
        BY <1>1, <1>6, <3>2
      <4>2. \A x \in 1..Len(m.attachments) :
              Len(m.attachments[x].data) >= 2 => m.attachments[x].data[Len(m.attachments[x].data) - 1] # CR
        BY FilesAre
      <4>3. F[j] = m.attachments[j]
        BY <1>1, <4>1
      <4>. QED BY <2>4, <4>1, <4>2, <4>3
    <3>. QED BY <3>1, <3>2
  <2>. QED BY <1>7, <2>1, <2>2, <2>3, <2>4 DEF Plain
<1>15. Shorter(n, m)
  BY <1>2, <1>9, <1>13, <1>14 DEF Shorter
<1>16. Header(n) = Header(m)
  BY <1>1, <1>6, <1>7 DEF Header
<1>17. SubSeq(TurnedAll(F), 1, i) = SubSeq(TurnedAll(A), 1, i)
  <2>1. /\ TurnedAll(A) \in Seq(Files) /\ Len(TurnedAll(A)) = Len(A)
        /\ \A j \in 1..Len(A) : TurnedAll(A)[j] = Turned(A[j])
    BY <1>1, FilesAre
  <2>2. /\ TurnedAll(F) \in Seq(Files) /\ Len(TurnedAll(F)) = Len(F)
        /\ \A j \in 1..Len(F) : TurnedAll(F)[j] = Turned(F[j])
    BY <1>7, <1>13, <1>14, FilesAre
  <2>3. \A j \in 1..i : TurnedAll(F)[j] = TurnedAll(A)[j]
    BY <1>2, <1>6, <2>1, <2>2
  <2>. QED BY <1>2, <1>6, <2>1, <2>2, <2>3, SameSub
<1>18. SubSeq(Heading(f), 1, 1) = SubSeq(Heading(a), 1, 1)
  BY <1>3, <1>5, FileParts, TextsAre
<1>19. PICK d \in Seq(Texts) :
         /\ p = Parser("attachments", "SEND", 3 * (Len(A) - i) - 1, IF 1 = 2 THEN Len(a.data) ELSE 0, d)
         /\ Text(d) = Text(Header(m)) \o (FilesText(SubSeq(TurnedAll(A), 1, i)) \o Text(SubSeq(Heading(a), 1, 1)))
  BY <1>1 DEF AtFile
<1>20. PICK v : v = Text(From(Heading(f), 1 + 1)) \o (f.data \o FilesText(From(F, i + 2)))
  OBVIOUS
<1>21. AtFile(p, v, n, i, 1)
  <2>1. p = Parser("attachments", "SEND", 3 * (Len(F) - i) - 1, IF 1 = 2 THEN Len(f.data) ELSE 0, d)
    BY <1>6, <1>19
  <2>2. Text(d) = Text(Header(n)) \o (FilesText(SubSeq(TurnedAll(F), 1, i)) \o Text(SubSeq(Heading(f), 1, 1)))
    BY <1>16, <1>17, <1>18, <1>19
  <2>. QED BY <1>6, <1>7, <1>20, <2>1, <2>2 DEF AtFile
<1>22. i \in 0..(Len(n.attachments) - 1) /\ Len(n.attachments[i + 1].data) = k
  BY <1>2, <1>4, <1>5, <1>6, <1>7
<1>23. PICK y \in Texts : After(Digest(p, Number(k)), y, n)
  <2>1. \E l \in LineSet, y \in Texts :
          l = Number(Len(n.attachments[i + 1].data)) /\ After(Digest(p, l), y, n)
    BY <1>13, <1>14, <1>21, <1>22, FileSize
  <2>. QED BY <1>22, <2>1
<1>24. Cut(Digest(p, Number(k)), n)
  <2>1. Carried(n)
    BY <1>13, <1>14 DEF Carried
  <2>. QED BY <1>23, <2>1, AfterCut
<1>. QED BY <1>15, <1>24, CutLonger

(* What is expected comes: the next line, or the bytes awaited, is there, the parser
   gets on with it as with the message, and with a part of it gets into no message
   that is not cut there. *)
Due(p, w, m) ==
  \/ \E l \in LineSet, y \in Texts :
       /\ NoCr(l) /\ Short(l) /\ p.awaiting = 0 /\ w = Append(l, NL) \o y
       /\ After(Digest(p, l), y, m) /\ \A x : Stub(x, l) => Cut(Digest(p, x), m)
  \/ \E l \in Texts, y \in Texts :
       /\ p.awaiting = Len(l) /\ Len(l) \in 1..9 /\ w = l \o y
       /\ After(Digest(p, Chop(l)), y, m)
       /\ \A b \in Texts : Len(b) = Len(l) => Cut(Digest(p, Chop(b)), m)

LEMMA TypeNoNumber == ASSUME NEW t \in Types PROVE ~IsNumber(<<t>>)
<1>1. \A n \in 0..9 : Digits[n + 1] \notin Types
  BY DEF Digits, Types
<1>2. \A n \in 0..9 : <<t>> = Number(n) => t = Digits[n + 1]
  BY DEF Number
<1>. QED BY <1>1, <1>2 DEF IsNumber

LEMMA Progress ==
  ASSUME NEW m, Carried(m), NEW p, NEW w, Expect(p, w, m)
  PROVE  Due(p, w, m)
<1>1. ASSUME NEW k \in 0..(Len(Leading(m)) - 1), AtLine(p, w, m, k)
      PROVE  Due(p, w, m)
  <2>1. PICK ls, n, l, y, j : /\ ls = Leading(m) /\ n = Len(ls) /\ j = k + 1 /\ l = ls[j]
                              /\ y = Text(From(ls, k + 2)) \o Trailing(m)
    OBVIOUS
  <2>2. /\ ls \in Seq(LineSet) /\ n \in Nat \ {0} /\ Trailing(m) \in Texts
        /\ \A i \in 1..n : NoCr(ls[i]) /\ Short(ls[i])
    BY <2>1, CarriedIs
  <2>3. k \in Nat /\ k <= n - 1 /\ j \in 1..Len(ls) /\ j + 1 = k + 2
    <3>1. k \in 0..(n - 1)
      BY <2>1
    <3>2. Len(ls) = n
      BY <2>1
    <3>. QED BY <2>1, <2>2, <3>1, <3>2
  <2>4. l \in LineSet /\ y \in Texts /\ w = Append(l, NL) \o y /\ NoCr(l) /\ Short(l)
    <3>1. w = Text(From(ls, j)) \o Trailing(m)
      BY <1>1, <2>1 DEF AtLine
    <3>2. /\ ls[j] \in LineSet /\ Text(From(ls, j + 1)) \o Trailing(m) \in Texts
          /\ Text(From(ls, j)) \o Trailing(m) = Append(ls[j], NL) \o (Text(From(ls, j + 1)) \o Trailing(m))
      BY <2>2, <2>3, LineAhead
    <3>. QED BY <2>1, <2>2, <2>3, <3>1, <3>2
  <2>5. ASSUME Len(l) = 1, After(Digest(p, l), y, m),
               IsNumber(l) => \A i \in 1..9 : Cut(Digest(p, Number(i)), m)
        PROVE  \A x : Stub(x, l) => Cut(Digest(p, x), m)
    <3>1. Cut(Digest(p, l), m)
      BY <2>4, <2>5, AfterCut
    <3>2. \A x : Stub(x, l) => x = l \/ (IsNumber(l) /\ \E i \in 1..9 : x = Number(i))
      BY <2>4, <2>5, StubIs
    <3>. QED BY <2>5, <3>1, <3>2
  <2>6. /\ p.awaiting = 0 /\ After(Digest(p, l), y, m)
        /\ \A x : Stub(x, l) => Cut(Digest(p, x), m)
    <3>1. CASE k = 0
      <4>1. Idle(p)
        BY <1>1, <3>1 DEF AtLine
      <4>2. j = 1 /\ k + 2 = 2
        BY <2>1, <3>1
      <4>3. After(Digest(p, ls[1]), Text(From(ls, 2)) \o Trailing(m), m)
        BY <2>1, <4>1, FirstLine
      <4>4. After(Digest(p, l), y, m)
        BY <2>1, <4>2, <4>3
      <4>5. l = <<m.type>>
        BY <2>1, <4>2, CarriedIs
      <4>6. Len(l) = 1
        BY <4>5
      <4>7. ~IsNumber(l)
        BY <4>5, CarriedIs, TypeNoNumber
      <4>. QED BY <2>5, <4>1, <4>4, <4>6, <4>7, IdleAwaits
    <3>2. CASE k # 0 /\ m.type # "SEND"
      <4>1. m \in Orders
        BY <3>2, CarriedIs
      <4>2. k \in 1..(Len(Leading(m)) - 1)
        BY <2>3, <3>2
      <4>3. /\ p.awaiting = 0
            /\ After(Digest(p, Leading(m)[k + 1]), Text(From(Leading(m), k + 2)) \o Trailing(m), m)
            /\ \A x : Stub(x, Leading(m)[k + 1]) => Cut(Digest(p, x), m)
        BY <1>1, <4>1, <4>2, OrderLine
      <4>. QED BY <2>1, <4>3
    <3>3. CASE k # 0 /\ m.type = "SEND" /\ k # n - 1
      <4>1. Writable(m) /\ Plain(m)
        BY <3>3, CarriedIs
      <4>2. k \in 1..(Len(Leading(m)) - 2)
        BY <2>1, <2>2, <2>3, <3>3
      <4>3. /\ p.awaiting = 0
            /\ After(Digest(p, Leading(m)[k + 1]), Text(From(Leading(m), k + 2)) \o Trailing(m), m)
            /\ \A x : Cut(Digest(p, x), m)
        BY <1>1, <4>1, <4>2, MailLine
      <4>. QED BY <2>1, <4>3
    <3>4. CASE k # 0 /\ m.type = "SEND" /\ k = n - 1
      <4>1. Writable(m) /\ Plain(m)
        BY <3>4, CarriedIs
      <4>2. AtLine(p, w, m, Len(Leading(m)) - 1)
        BY <1>1, <2>1, <3>4
      <4>3. j = n
        BY <2>1, <2>2, <3>4
      <4>4. /\ p.awaiting = 0 /\ Len(ls[n]) = 1
            /\ After(Digest(p, ls[n]), Trailing(m), m)
            /\ \A i \in 1..9 : Cut(Digest(p, Number(i)), m)
        BY <2>1, <4>1, <4>2, CountLine
      <4>5. y = Trailing(m)
        <5>1. n \in 1..Len(ls) /\ n = Len(ls) /\ n + 1 = k + 2
          BY <2>1, <2>2, <2>3, <4>3
        <5>2. Text(From(ls, n + 1)) \o Trailing(m) = Trailing(m)
          BY <2>2, <5>1, LineAhead
        <5>. QED BY <2>1, <5>1, <5>2
      <4>. QED BY <2>1, <2>5, <4>3, <4>4, <4>5
    <3>. QED BY <3>1, <3>2, <3>3, <3>4
  <2>. QED BY <2>4, <2>6 DEF Due
<1>2. ASSUME m.type = "SEND", NEW i \in 0..(Len(m.attachments) - 1), NEW j \in 0..2, AtFile(p, w, m, i, j)
      PROVE  Due(p, w, m)
  <2>1. Writable(m) /\ Plain(m)
    BY <1>2, CarriedIs
  <2>2. CASE j = 0
    <3>1. AtFile(p, w, m, i, 0)
      BY <1>2, <2>2
    <3>2. PICK l \in LineSet, y \in Texts :
            /\ NoCr(l) /\ Short(l) /\ p.awaiting = 0 /\ w = Append(l, NL) \o y
            /\ After(Digest(p, l), y, m) /\ \A x : Cut(Digest(p, x), m)
      BY <2>1, <3>1, FileName
    <3>. QED BY <3>2 DEF Due
  <2>3. CASE j = 1
    <3>1. AtFile(p, w, m, i, 1)
      BY <1>2, <2>3
    <3>2. PICK l \in LineSet, y \in Texts :
            /\ NoCr(l) /\ p.awaiting = 0 /\ w = Append(l, NL) \o y
            /\ l = Number(Len(m.attachments[i + 1].data)) /\ After(Digest(p, l), y, m)
      BY <2>1, <3>1, FileSize
    <3>3. PICK k : k = Len(m.attachments[i + 1].data)
      OBVIOUS
    <3>4. k \in 1..9
      <4>1. m.attachments \in Seq(Files) /\ i + 1 \in 1..Len(m.attachments)
        BY <2>1, FilesAre
      <4>2. m.attachments[i + 1] \in Files
        BY <4>1
      <4>. QED BY <3>3, <4>2, FileIs
    <3>5. Len(l) = 1 /\ Value(l) = k /\ Short(l)
      <4>1. k \in 0..9
        BY <3>4
      <4>. QED BY <3>2, <3>3, <4>1, NumberIs, MarksShort
    <3>6. ASSUME NEW x, Stub(x, l) PROVE Cut(Digest(p, x), m)
      <4>1. CASE x = l
        BY <3>2, <4>1, AfterCut
      <4>2. CASE x # l
        <5>1. PICK c \in 1..9 : x = Number(c) /\ c < k
          BY <3>5, <3>6, <4>2, StubIs
        <5>. QED BY <2>1, <3>1, <3>3, <5>1, SizeCut
      <4>. QED BY <4>1, <4>2
    <3>. QED BY <3>2, <3>5, <3>6 DEF Due
  <2>4. CASE j = 2
    <3>1. AtFile(p, w, m, i, 2)
      BY <1>2, <2>4
    <3>. QED BY <2>1, <3>1, FileBytes DEF Due
  <2>. QED BY <2>2, <2>3, <2>4
<1>. QED BY <1>1, <1>2 DEF Expect

(* A parser that holds nothing expects a message whole. *)
LEMMA ExpectAll ==
  ASSUME NEW m, Carried(m), NEW p, Idle(p)
  PROVE  Expect(p, Deflate(m), m)
<1>1. Leading(m) \in Seq(LineSet) /\ Len(Leading(m)) \in Nat \ {0}
  BY CarriedIs
<1>2. Deflate(m) = Text(Leading(m)) \o Trailing(m)
  BY DeflateIs DEF Carried
<1>3. From(Leading(m), 0 + 1) = Leading(m)
  BY <1>1 DEF From
<1>4. AtLine(p, Deflate(m), m, 0)
  BY <1>2, <1>3 DEF AtLine
<1>5. 0 \in 0..(Len(Leading(m)) - 1)
  BY <1>1
<1>. QED BY <1>4, <1>5 DEF Expect
=============================================================================
