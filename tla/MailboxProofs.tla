---------------------------- MODULE MailboxProofs ----------------------------
(* Proofs about Mailbox: the order the mails are listed in names each of them
   once, and a number taken from a list stays that of its mail until the list is
   out of date, for any number of clients, mails and seconds. *)
EXTENDS Mailbox, FiniteSetTheorems, FunctionTheorems, SequenceTheorems, WellFoundedInduction, TLAPS

-----------------------------------------------------------------------------
(* The inductive invariant. *)

(* A list that is not out of date is the beginning of the order, but for the
   mail its client has just deleted. *)
Leads(list) ==
  \A k \in 1..Len(list) : list[k] \in ToSet(Content) /\ Cardinality(Ahead(list[k])) = k - 1

Deleted(c) == cpc[c] = "answered" /\ op[c] = "DEL"

ListLeads(c) == ~moved[c] /\ ~Deleted(c) => Leads(Known(c))

(* A READ or DEL under way has a number of the list on the screen. *)
NumberKnown(c) == cpc[c] # "menu" /\ op[c] # "LIST" => index[c] + 1 \in 1..Len(shown[c])

MeantOf(c) == cpc[c] = "answered" /\ op[c] # "LIST" /\ ~moved[c] =>
                answer[c] = <<shown[c][index[c] + 1]>>

MailboxInv == TypeOK /\ \A c \in Clients : ListLeads(c) /\ NumberKnown(c) /\ MeantOf(c)

-----------------------------------------------------------------------------
(* The order of the mails. *)

Held == ToSet(Content)

LEMMA ContentType ==
  ASSUME TypeOK
  PROVE  /\ Content \in Seq(Mails) /\ Len(Content) \in Nat
         /\ DOMAIN Content = 1..Len(Content) /\ Content \in [1..Len(Content) -> Mails]
         /\ Held \subseteq Mails
         /\ \A m \in Held : time[m] \in Nat
         /\ \A i, j \in 1..Len(Content) : Content[i] = Content[j] => i = j
<1>1. Content \in Seq(Mails)
  BY EmptySeq DEF TypeOK, Content
<1>2. /\ Len(Content) \in Nat /\ DOMAIN Content = 1..Len(Content)
      /\ Content \in [1..Len(Content) -> Mails]
  BY <1>1, LenProperties
<1>3. Held \subseteq Mails
  BY <1>2 DEF Held, ToSet
<1>4. \A m \in Held : time[m] \in Nat
  BY <1>3, MailboxAssumption DEF TypeOK
<1>5. \A i, j \in 1..Len(Content) : Content[i] = Content[j] => i = j
  BY <1>2 DEF TypeOK, IsInjective
<1>. QED BY <1>1, <1>2, <1>3, <1>4, <1>5

(* Two mails of the directory are never each in front of the other, one of them
   is in front, and who is in front of the one is in front of the other. *)
LEMMA BeforeOrders ==
  ASSUME TypeOK
  PROVE  /\ \A m \in Held : ~Before(m, m)
         /\ \A m, n \in Held : m # n => Before(m, n) \/ Before(n, m)
         /\ \A m, n, o \in Held : Before(m, n) /\ Before(n, o) => Before(m, o)
<1> DEFINE D == 1..Len(Content)
<1>1. /\ D = DOMAIN Content /\ D \subseteq Nat
      /\ \A i, j \in D : Content[i] = Content[j] => i = j
      /\ \A m \in Held : \E i \in D : Content[i] = m
      /\ \A m \in Held : time[m] \in Nat
  BY ContentType DEF Held, ToSet
<1>2. \A m, n : Precedes(m, n) <=> \E i, j \in D : i < j /\ Content[i] = m /\ Content[j] = n
  BY <1>1 DEF Precedes
<1> HIDE DEF D
<1>3. \A m \in Held : ~Precedes(m, m)
  BY <1>1, <1>2
<1>4. \A m, n \in Held : m # n => Precedes(m, n) \/ Precedes(n, m)
  <2> TAKE m, n \in Held
  <2>1. PICK i \in D, j \in D : Content[i] = m /\ Content[j] = n
    BY <1>1
  <2>2. i \in Nat /\ j \in Nat
    BY <1>1
  <2>. QED BY <1>2, <2>1, <2>2
<1>5. \A m, n, o \in Held : Precedes(m, n) /\ Precedes(n, o) => Precedes(m, o)
  <2> SUFFICES ASSUME NEW m \in Held, NEW n \in Held, NEW o \in Held, Precedes(m, n), Precedes(n, o)
               PROVE  Precedes(m, o)
    OBVIOUS
  <2>1. PICK i \in D, j \in D : i < j /\ Content[i] = m /\ Content[j] = n
    BY <1>2
  <2>2. PICK h \in D, k \in D : h < k /\ Content[h] = n /\ Content[k] = o
    BY <1>2
  <2>3. h = j
    BY <1>1, <2>1, <2>2
  <2>4. i \in Nat /\ j \in Nat /\ k \in Nat
    BY <1>1
  <2>5. i < k
    BY <2>1, <2>2, <2>3, <2>4
  <2>. QED BY <1>2, <2>1, <2>2, <2>5
<1>6. \A m \in Held : ~Before(m, m)
  BY <1>1, <1>3 DEF Before
<1>7. \A m, n \in Held : m # n => Before(m, n) \/ Before(n, m)
  BY <1>1, <1>4 DEF Before
<1>8. \A m, n, o \in Held : Before(m, n) /\ Before(n, o) => Before(m, o)
  BY <1>1, <1>5 DEF Before
<1>. QED BY <1>6, <1>7, <1>8

LEMMA HeldFinite ==
  ASSUME TypeOK
  PROVE  IsFiniteSet(Held) /\ Cardinality(Held) = Len(Content)
<1>1. /\ Content \in [1..Len(Content) -> Held] /\ Len(Content) \in Nat
      /\ \A i, j \in 1..Len(Content) : Content[i] = Content[j] => i = j
      /\ \A m \in Held : \E i \in 1..Len(Content) : Content[i] = m
  BY ContentType DEF Held, ToSet
<1>2. Content \in Bijection(1..Len(Content), Held)
  BY <1>1, Fun_IsBij
<1>3. \A n \in Nat : IsFiniteSet(1..n) /\ Cardinality(1..n) = n
  BY FS_Interval
<1>. QED BY <1>1, <1>2, <1>3, FS_Bijection DEF ExistsBijection

(* The mails in front of another one are fewer, the further in front it is. *)
LEMMA AheadCounts ==
  ASSUME TypeOK
  PROVE  /\ \A m \in Held : IsFiniteSet(Ahead(m)) /\ Cardinality(Ahead(m)) \in 0..(Len(Content) - 1)
         /\ \A m, n \in Held : Before(m, n) => Cardinality(Ahead(m)) < Cardinality(Ahead(n))
         /\ \A m, n \in Held : Cardinality(Ahead(m)) = Cardinality(Ahead(n)) => m = n
<1>1. ASSUME NEW m \in Held
      PROVE  /\ IsFiniteSet(Ahead(m)) /\ Cardinality(Ahead(m)) \in Nat
             /\ Cardinality(Ahead(m)) <= Len(Content) - 1
  <2>1. Ahead(m) \subseteq Held \ {m}
    BY BeforeOrders DEF Ahead, Held
  <2>2. IsFiniteSet(Held \ {m}) /\ Cardinality(Held \ {m}) = Len(Content) - 1
    BY HeldFinite, FS_RemoveElement
  <2>. QED BY <2>1, <2>2, FS_Subset, FS_CardinalityType
<1>2. ASSUME NEW m \in Held, NEW n \in Held, Before(m, n)
      PROVE  Cardinality(Ahead(m)) < Cardinality(Ahead(n))
  <2>1. Ahead(m) \subseteq Ahead(n)
    BY <1>2, BeforeOrders DEF Ahead, Held
  <2>2. m \in Ahead(n) /\ m \notin Ahead(m)
    BY <1>2, BeforeOrders DEF Ahead, Held
  <2>3. Cardinality(Ahead(m)) <= Cardinality(Ahead(n)) /\ Cardinality(Ahead(m)) # Cardinality(Ahead(n))
    BY <1>1, <2>1, <2>2, FS_Subset
  <2>4. Cardinality(Ahead(m)) \in Nat /\ Cardinality(Ahead(n)) \in Nat
    BY <1>1
  <2>. QED BY <2>3, <2>4
<1>3. \A m, n \in Held : Cardinality(Ahead(m)) = Cardinality(Ahead(n)) => m = n
  <2> SUFFICES ASSUME NEW m \in Held, NEW n \in Held, m # n
               PROVE  Cardinality(Ahead(m)) # Cardinality(Ahead(n))
    OBVIOUS
  <2>1. Cardinality(Ahead(m)) \in Nat /\ Cardinality(Ahead(n)) \in Nat
    BY <1>1
  <2>2. Before(m, n) \/ Before(n, m)
    BY BeforeOrders
  <2>. QED BY <1>2, <2>1, <2>2
<1>4. Len(Content) \in Nat
  BY ContentType
<1>. QED BY <1>1, <1>2, <1>3, <1>4

(* The list has every mail of the directory once, each in its place. *)
LEMMA SortedLists ==
  ASSUME TypeOK
  PROVE  /\ Sorted \in Seq(Mails) /\ Len(Sorted) = Len(Content)
         /\ Leads(Sorted)
         /\ \A m \in Held : \A k \in 1..Len(Content) : Cardinality(Ahead(m)) = k - 1 => Sorted[k] = m
<1> DEFINE N == Len(Content)
           place == [m \in Held |-> Cardinality(Ahead(m)) + 1]
<1>1. N \in Nat /\ Held \subseteq Mails
  BY ContentType
<1>2. /\ \A m \in Held : Cardinality(Ahead(m)) \in 0..(N - 1)
      /\ \A m, n \in Held : Cardinality(Ahead(m)) = Cardinality(Ahead(n)) => m = n
  BY AheadCounts
<1>3. place \in [Held -> 1..N]
  <2> SUFFICES ASSUME NEW m \in Held PROVE Cardinality(Ahead(m)) + 1 \in 1..N
    OBVIOUS
  <2>1. Cardinality(Ahead(m)) \in 0..(N - 1)
    BY <1>2
  <2>. QED BY <1>1, <2>1
<1>4. \A m, n \in Held : place[m] = place[n] => m = n
  <2> TAKE m, n \in Held
  <2>1. Cardinality(Ahead(m)) \in 0..(N - 1) /\ Cardinality(Ahead(n)) \in 0..(N - 1)
    BY <1>2
  <2>2. place[m] = Cardinality(Ahead(m)) + 1 /\ place[n] = Cardinality(Ahead(n)) + 1
    OBVIOUS
  <2>. QED BY <1>1, <1>2, <2>1, <2>2
<1>5. place \in Surjection(Held, 1..N)
  <2>1. place \in Injection(Held, 1..N)
    BY <1>3, <1>4, Fun_IsInj
  <2>2. Cardinality(Held) = N
    BY HeldFinite
  <2> HIDE DEF N, place
  <2>3. IsFiniteSet(1..N) /\ Cardinality(1..N) = N
    BY <1>1, FS_Interval
  <2>. QED BY <2>1, <2>2, <2>3, FS_Injection
<1>6. \A k \in 1..N : \E m \in Held : Cardinality(Ahead(m)) = k - 1
  <2> TAKE k \in 1..N
  <2>1. PICK m \in Held : place[m] = k
    BY <1>5 DEF Surjection
  <2>2. Cardinality(Ahead(m)) \in 0..(N - 1) /\ place[m] = Cardinality(Ahead(m)) + 1
    BY <1>2
  <2>. QED BY <1>1, <2>1, <2>2
<1> HIDE DEF place
<1>7. Sorted = [k \in 1..N |-> CHOOSE m \in Held : Cardinality(Ahead(m)) = k - 1]
  BY DEF Sorted, Held
<1>8. \A k \in 1..N : Sorted[k] \in Held /\ Cardinality(Ahead(Sorted[k])) = k - 1
  BY <1>6, <1>7
<1>9. Sorted \in [1..N -> Mails]
  BY <1>1, <1>7, <1>8
<1>10. Sorted \in Seq(Mails) /\ Len(Sorted) = N
  BY <1>1, <1>9, SeqDef, LenProperties
<1>. QED BY <1>2, <1>8, <1>10 DEF Leads, Held

-----------------------------------------------------------------------------
(* A file more, and a file less, in the directory. *)

LEMMA Inserted ==
  ASSUME NEW S, NEW s \in Seq(S), NEW e \in S, NEW k \in 1..(Len(s) + 1)
  PROVE  /\ InsertAt(s, k, e) \in Seq(S) /\ Len(InsertAt(s, k, e)) = Len(s) + 1
         /\ InsertAt(s, k, e)[k] = e
         /\ \A i \in 1..Len(s) : InsertAt(s, k, e)[IF i < k THEN i ELSE i + 1] = s[i]
<1> DEFINE a == SubSeq(s, 1, k - 1)
           b == SubSeq(s, k, Len(s))
           c == <<e>>
<1>1. Len(s) \in Nat /\ k \in Nat /\ k >= 1 /\ k <= Len(s) + 1 /\ \A i \in 1..Len(s) : s[i] \in S
  BY LenProperties
<1>2. a \in Seq(S) /\ Len(a) = k - 1 /\ \A i \in 1..(k - 1) : a[i] = s[i]
  <2>1. /\ a \in Seq(S) /\ Len(a) = IF 1 <= k - 1 THEN k - 1 - 1 + 1 ELSE 0
        /\ \A i \in 1..(k - 1 - 1 + 1) : a[i] = s[1 + i - 1]
    BY <1>1, SubSeqProperties
  <2>. QED BY <1>1, <2>1
<1>3. b \in Seq(S) /\ Len(b) = Len(s) - k + 1 /\ \A i \in 1..(Len(s) - k + 1) : b[i] = s[k + i - 1]
  <2>1. /\ b \in Seq(S) /\ Len(b) = IF k <= Len(s) THEN Len(s) - k + 1 ELSE 0
        /\ \A i \in 1..(Len(s) - k + 1) : b[i] = s[k + i - 1]
    BY <1>1, SubSeqProperties
  <2>. QED BY <1>1, <2>1
<1>4. c \in Seq(S) /\ Len(c) = 1 /\ c[1] = e
  OBVIOUS
<1>5. InsertAt(s, k, e) = (a \o c) \o b
  BY DEF InsertAt
<1> HIDE DEF a, b, c
<1> DEFINE ac == a \o c
<1>6. /\ ac \in Seq(S) /\ Len(ac) = k
      /\ \A i \in 1..k : ac[i] = IF i <= k - 1 THEN a[i] ELSE c[i - (k - 1)]
  <2>1. /\ ac \in Seq(S) /\ Len(ac) = Len(a) + Len(c)
        /\ \A i \in 1..(Len(a) + Len(c)) : ac[i] = IF i <= Len(a) THEN a[i] ELSE c[i - Len(a)]
    BY <1>2, <1>4, ConcatProperties
  <2>2. Len(a) + Len(c) = k
    BY <1>1, <1>2, <1>4
  <2>. QED BY <1>2, <2>1, <2>2
<1> HIDE DEF ac
<1>7. /\ ac \o b \in Seq(S) /\ Len(ac \o b) = Len(s) + 1
      /\ \A i \in 1..(Len(s) + 1) : (ac \o b)[i] = IF i <= k THEN ac[i] ELSE b[i - k]
  <2>1. /\ ac \o b \in Seq(S) /\ Len(ac \o b) = Len(ac) + Len(b)
        /\ \A i \in 1..(Len(ac) + Len(b)) : (ac \o b)[i] = IF i <= Len(ac) THEN ac[i] ELSE b[i - Len(ac)]
    BY <1>3, <1>6, ConcatProperties
  <2>2. Len(ac) + Len(b) = Len(s) + 1
    BY <1>1, <1>3, <1>6
  <2>. QED BY <1>6, <2>1, <2>2
<1>8. (ac \o b)[k] = e
  <2>1. k \in 1..(Len(s) + 1) /\ k \in 1..k /\ ~(k <= k - 1) /\ k - (k - 1) = 1
    BY <1>1
  <2>. QED BY <1>4, <1>6, <1>7, <2>1
<1>9. \A i \in 1..Len(s) : (ac \o b)[IF i < k THEN i ELSE i + 1] = s[i]
  <2> TAKE i \in 1..Len(s)
  <2>1. CASE i < k
    <3>1. i \in 1..(Len(s) + 1) /\ i \in 1..k /\ i \in 1..(k - 1) /\ i <= k /\ i <= k - 1
      BY <1>1, <2>1
    <3>. QED BY <1>2, <1>6, <1>7, <2>1, <3>1
  <2>2. CASE ~(i < k)
    <3>1. /\ i + 1 \in 1..(Len(s) + 1) /\ ~(i + 1 <= k) /\ i + 1 - k \in 1..(Len(s) - k + 1)
          /\ k + (i + 1 - k) - 1 = i
      BY <1>1, <2>2
    <3>2. (ac \o b)[i + 1] = b[i + 1 - k]
      <4>1. PICK j \in 1..(Len(s) + 1) : j = i + 1
        BY <3>1
      <4>2. (ac \o b)[j] = b[j - k]
        BY <1>7, <3>1, <4>1
      <4>. QED BY <4>1, <4>2
    <3>3. b[i + 1 - k] = s[i]
      BY <1>3, <3>1
    <3>. QED BY <2>2, <3>2, <3>3
  <2>. QED BY <2>1, <2>2
<1>. QED BY <1>5, <1>7, <1>8, <1>9 DEF ac

LEMMA Removed ==
  ASSUME NEW S, NEW s \in Seq(S), NEW k \in 1..Len(s)
  PROVE  /\ RemoveAt(s, k) \in Seq(S) /\ Len(RemoveAt(s, k)) = Len(s) - 1
         /\ \A i \in 1..(Len(s) - 1) : RemoveAt(s, k)[i] = s[IF i < k THEN i ELSE i + 1]
<1> DEFINE a == SubSeq(s, 1, k - 1)
           b == SubSeq(s, k + 1, Len(s))
<1>1. Len(s) \in Nat /\ k \in Nat /\ k >= 1 /\ k <= Len(s) /\ \A i \in 1..Len(s) : s[i] \in S
  BY LenProperties
<1>2. a \in Seq(S) /\ Len(a) = k - 1 /\ \A i \in 1..(k - 1) : a[i] = s[i]
  <2>1. /\ a \in Seq(S) /\ Len(a) = IF 1 <= k - 1 THEN k - 1 - 1 + 1 ELSE 0
        /\ \A i \in 1..(k - 1 - 1 + 1) : a[i] = s[1 + i - 1]
    BY <1>1, SubSeqProperties
  <2>. QED BY <1>1, <2>1
<1>3. b \in Seq(S) /\ Len(b) = Len(s) - k /\ \A i \in 1..(Len(s) - k) : b[i] = s[k + i]
  <2>1. /\ b \in Seq(S) /\ Len(b) = IF k + 1 <= Len(s) THEN Len(s) - (k + 1) + 1 ELSE 0
        /\ \A i \in 1..(Len(s) - (k + 1) + 1) : b[i] = s[k + 1 + i - 1]
    BY <1>1, SubSeqProperties
  <2>. QED BY <1>1, <2>1
<1>4. RemoveAt(s, k) = a \o b
  BY DEF RemoveAt
<1> HIDE DEF a, b
<1>5. /\ a \o b \in Seq(S) /\ Len(a \o b) = Len(s) - 1
      /\ \A i \in 1..(Len(s) - 1) : (a \o b)[i] = IF i <= k - 1 THEN a[i] ELSE b[i - (k - 1)]
  <2>1. /\ a \o b \in Seq(S) /\ Len(a \o b) = Len(a) + Len(b)
        /\ \A i \in 1..(Len(a) + Len(b)) : (a \o b)[i] = IF i <= Len(a) THEN a[i] ELSE b[i - Len(a)]
    BY <1>2, <1>3, ConcatProperties
  <2>2. Len(a) + Len(b) = Len(s) - 1
    BY <1>1, <1>2, <1>3
  <2>. QED BY <1>2, <2>1, <2>2
<1>6. \A i \in 1..(Len(s) - 1) : (a \o b)[i] = s[IF i < k THEN i ELSE i + 1]
  <2> TAKE i \in 1..(Len(s) - 1)
  <2>1. CASE i < k
    <3>1. i \in 1..(k - 1) /\ i <= k - 1
      BY <1>1, <2>1
    <3>. QED BY <1>2, <1>5, <2>1, <3>1
  <2>2. CASE ~(i < k)
    <3>1. ~(i <= k - 1) /\ i - (k - 1) \in 1..(Len(s) - k) /\ k + (i - (k - 1)) = i + 1
      BY <1>1, <2>2
    <3>2. b[i - (k - 1)] = s[i + 1]
      BY <1>3, <3>1
    <3>. QED BY <1>5, <2>2, <3>1, <3>2
  <2>. QED BY <2>1, <2>2
<1>. QED BY <1>4, <1>5, <1>6

LEMMA NewFile ==
  ASSUME TypeOK, NEW m \in Mails, m \notin Held, NEW k \in 1..(Len(Content) + 1),
         dir' = InsertAt(Content, k, m)
  PROVE  /\ dir' \in Seq(Mails) /\ IsInjective(Content)' /\ Held' = Held \cup {m}
         /\ \A x, y \in Held : Precedes(x, y)' <=> Precedes(x, y)
<1> DEFINE N == Len(Content)
           p(i) == IF i < k THEN i ELSE i + 1
<1>1. /\ Content \in Seq(Mails) /\ N \in Nat /\ DOMAIN Content = 1..N /\ Held = {Content[i] : i \in 1..N}
      /\ \A i, j \in 1..N : Content[i] = Content[j] => i = j
  BY ContentType DEF Held, ToSet
<1>2. /\ dir' \in Seq(Mails) /\ Len(dir') = N + 1 /\ dir'[k] = m
      /\ \A i \in 1..N : dir'[p(i)] = Content[i]
  <2>1. Content \in Seq(Mails) /\ k \in 1..(Len(Content) + 1)
    BY <1>1
  <2>2. /\ InsertAt(Content, k, m) \in Seq(Mails) /\ Len(InsertAt(Content, k, m)) = Len(Content) + 1
        /\ InsertAt(Content, k, m)[k] = m
        /\ \A i \in 1..Len(Content) : InsertAt(Content, k, m)[IF i < k THEN i ELSE i + 1] = Content[i]
    BY <2>1, Inserted
  <2>. QED BY <2>2
<1>3. Content' = dir' /\ DOMAIN Content' = 1..(N + 1)
  BY <1>1, <1>2, MailboxAssumption, LenProperties DEF Content
<1> HIDE DEF N
<1>4. /\ \A i \in 1..N : p(i) \in 1..(N + 1) /\ p(i) # k
      /\ \A j \in 1..(N + 1) : j = k \/ \E i \in 1..N : j = p(i)
      /\ \A i, j \in 1..N : i < j <=> p(i) < p(j)
  <2>1. k \in Nat /\ k >= 1 /\ k <= N + 1
    BY <1>1 DEF N
  <2>2. \A j \in 1..(N + 1) : j = k \/ \E i \in 1..N : j = p(i)
    <3> TAKE j \in 1..(N + 1)
    <3>1. CASE j < k
      <4>1. j \in 1..N /\ j = p(j)
        BY <1>1, <2>1, <3>1
      <4>. QED BY <4>1
    <3>2. CASE j > k
      <4>1. j - 1 \in 1..N /\ j = p(j - 1)
        BY <1>1, <2>1, <3>2
      <4>. QED BY <4>1
    <3>. QED BY <2>1, <3>1, <3>2
  <2>3. \A i \in 1..N : p(i) \in 1..(N + 1) /\ p(i) # k
    BY <1>1, <2>1
  <2>4. \A i, j \in 1..N : i < j <=> p(i) < p(j)
    BY <1>1, <2>1
  <2>. QED BY <2>2, <2>3, <2>4
<1> HIDE DEF p
<1>5. k \in 1..(N + 1)
  BY DEF N
<1>6. Held' = Held \cup {m}
  <2>1. Held' = {dir'[j] : j \in 1..(N + 1)}
    BY <1>3 DEF Held, ToSet
  <2>. QED BY <1>1, <1>2, <1>4, <1>5, <2>1
<1>7. \A x, y \in Held : Precedes(x, y)' <=> Precedes(x, y)
  <2> TAKE x, y \in Held
  <2>1. Precedes(x, y)' <=> \E i, j \in 1..(N + 1) : i < j /\ dir'[i] = x /\ dir'[j] = y
    BY <1>3 DEF Precedes
  <2>2. Precedes(x, y) <=> \E i, j \in 1..N : i < j /\ Content[i] = x /\ Content[j] = y
    BY <1>1 DEF Precedes
  <2>3. ASSUME NEW i \in 1..N, NEW j \in 1..N, i < j, Content[i] = x, Content[j] = y
        PROVE  \E r, q \in 1..(N + 1) : r < q /\ dir'[r] = x /\ dir'[q] = y
    BY <1>2, <1>4, <2>3
  <2>4. ASSUME NEW r \in 1..(N + 1), NEW q \in 1..(N + 1), r < q, dir'[r] = x, dir'[q] = y
        PROVE  \E i, j \in 1..N : i < j /\ Content[i] = x /\ Content[j] = y
    <3>1. r # k /\ q # k
      BY <1>2, <2>4
    <3>2. PICK i \in 1..N, j \in 1..N : r = p(i) /\ q = p(j)
      BY <1>4, <3>1
    <3>. QED BY <1>2, <1>4, <2>4, <3>2
  <2>. QED BY <2>1, <2>2, <2>3, <2>4
<1>8. IsInjective(Content)'
  <2>1. \A i \in 1..N : Content[i] # m
    BY <1>1
  <2>2. ASSUME NEW r \in 1..(N + 1), NEW q \in 1..(N + 1), dir'[r] = dir'[q]
        PROVE  r = q
    <3>1. CASE r = k \/ q = k
      BY <1>2, <1>4, <2>1, <2>2, <3>1
    <3>2. CASE r # k /\ q # k
      <4>1. PICK i \in 1..N, j \in 1..N : r = p(i) /\ q = p(j)
        BY <1>4, <3>2
      <4>. QED BY <1>1, <1>2, <2>2, <4>1
    <3>. QED BY <3>1, <3>2
  <2>. QED BY <1>3, <2>2 DEF IsInjective
<1>. QED BY <1>2, <1>6, <1>7, <1>8

LEMMA LostFile ==
  ASSUME TypeOK, dir # None, NEW a \in Held, dir' = Without(a)
  PROVE  /\ dir' \in Seq(Mails) /\ IsInjective(Content)' /\ Held' = Held \ {a}
         /\ \A x, y \in Held \ {a} : Precedes(x, y)' <=> Precedes(x, y)
<1> DEFINE N == Len(Content)
           k == CHOOSE i \in DOMAIN dir : dir[i] = a
           p(i) == IF i < k THEN i ELSE i + 1
<1>1. /\ Content = dir
      /\ Content \in Seq(Mails) /\ N \in Nat /\ DOMAIN Content = 1..N /\ Held = {Content[i] : i \in 1..N}
      /\ \A i, j \in 1..N : Content[i] = Content[j] => i = j
  BY ContentType DEF Held, ToSet, Content
<1>2. k \in 1..N /\ Content[k] = a /\ dir' = RemoveAt(Content, k)
  BY <1>1 DEF Without
<1> HIDE DEF k
<1>3. /\ dir' \in Seq(Mails) /\ Len(dir') = N - 1
      /\ \A i \in 1..(N - 1) : dir'[i] = Content[p(i)]
  <2>1. Content \in Seq(Mails) /\ k \in 1..Len(Content)
    BY <1>1, <1>2
  <2>2. /\ RemoveAt(Content, k) \in Seq(Mails) /\ Len(RemoveAt(Content, k)) = Len(Content) - 1
        /\ \A i \in 1..(Len(Content) - 1) : RemoveAt(Content, k)[i] = Content[IF i < k THEN i ELSE i + 1]
    BY <2>1, Removed
  <2>. QED BY <1>2, <2>2
<1>4. Content' = dir' /\ DOMAIN Content' = 1..(N - 1)
  BY <1>1, <1>3, MailboxAssumption, LenProperties DEF Content
<1> HIDE DEF N
<1>5. /\ \A i \in 1..(N - 1) : p(i) \in 1..N /\ p(i) # k
      /\ \A j \in 1..N : j = k \/ \E i \in 1..(N - 1) : j = p(i)
      /\ \A i, j \in 1..(N - 1) : i < j <=> p(i) < p(j)
      /\ \A i, j \in 1..(N - 1) : p(i) = p(j) => i = j
  <2>1. k \in Nat /\ k >= 1 /\ k <= N
    BY <1>1, <1>2
  <2>2. \A j \in 1..N : j = k \/ \E i \in 1..(N - 1) : j = p(i)
    <3> TAKE j \in 1..N
    <3>1. CASE j < k
      <4>1. j \in 1..(N - 1) /\ j = p(j)
        BY <1>1, <2>1, <3>1
      <4>. QED BY <4>1
    <3>2. CASE j > k
      <4>1. j - 1 \in 1..(N - 1) /\ j = p(j - 1)
        BY <1>1, <2>1, <3>2
      <4>. QED BY <4>1
    <3>. QED BY <2>1, <3>1, <3>2
  <2>3. \A i \in 1..(N - 1) : p(i) \in 1..N /\ p(i) # k
    BY <1>1, <2>1
  <2>4. \A i, j \in 1..(N - 1) : (i < j <=> p(i) < p(j)) /\ (p(i) = p(j) => i = j)
    BY <1>1, <2>1
  <2>. QED BY <2>2, <2>3, <2>4
<1> HIDE DEF p
<1>6. Held' = Held \ {a}
  <2>1. Held' = {dir'[j] : j \in 1..(N - 1)}
    BY <1>4 DEF Held, ToSet
  <2>2. \A i \in 1..(N - 1) : dir'[i] \in Held \ {a}
    BY <1>1, <1>2, <1>3, <1>5
  <2>3. ASSUME NEW x \in Held \ {a} PROVE \E i \in 1..(N - 1) : dir'[i] = x
    <3>1. PICK j \in 1..N : Content[j] = x
      BY <1>1
    <3>2. PICK i \in 1..(N - 1) : j = p(i)
      BY <1>2, <1>5, <3>1
    <3>. QED BY <1>3, <3>1, <3>2
  <2>. QED BY <2>1, <2>2, <2>3
<1>7. \A x, y \in Held \ {a} : Precedes(x, y)' <=> Precedes(x, y)
  <2> TAKE x, y \in Held \ {a}
  <2>1. Precedes(x, y)' <=> \E i, j \in 1..(N - 1) : i < j /\ dir'[i] = x /\ dir'[j] = y
    BY <1>4 DEF Precedes
  <2>2. Precedes(x, y) <=> \E i, j \in 1..N : i < j /\ Content[i] = x /\ Content[j] = y
    BY <1>1 DEF Precedes
  <2>3. ASSUME NEW i \in 1..(N - 1), NEW j \in 1..(N - 1), i < j, dir'[i] = x, dir'[j] = y
        PROVE  \E r, q \in 1..N : r < q /\ Content[r] = x /\ Content[q] = y
    BY <1>3, <1>5, <2>3
  <2>4. ASSUME NEW r \in 1..N, NEW q \in 1..N, r < q, Content[r] = x, Content[q] = y
        PROVE  \E i, j \in 1..(N - 1) : i < j /\ dir'[i] = x /\ dir'[j] = y
    <3>1. r # k /\ q # k
      BY <1>2, <2>4
    <3>2. PICK i \in 1..(N - 1), j \in 1..(N - 1) : r = p(i) /\ q = p(j)
      BY <1>5, <3>1
    <3>. QED BY <1>3, <1>5, <2>4, <3>2
  <2>. QED BY <2>1, <2>2, <2>3, <2>4
<1>8. IsInjective(Content)'
  <2>1. ASSUME NEW r \in 1..(N - 1), NEW q \in 1..(N - 1), dir'[r] = dir'[q]
        PROVE  r = q
    <3>1. Content[p(r)] = Content[p(q)] /\ p(r) \in 1..N /\ p(q) \in 1..N
      BY <1>3, <1>5, <2>1
    <3>. QED BY <1>1, <1>5, <3>1
  <2>. QED BY <1>4, <2>1 DEF IsInjective
<1>. QED BY <1>3, <1>6, <1>7, <1>8

(* A mail that is younger than n is behind it. *)
LEMMA DeliverKeeps ==
  ASSUME TypeOK, NEW m \in Mails, Deliver(m), NEW n \in Held, clock > time[n]
  PROVE  n \in Held' /\ Ahead(n)' = Ahead(n)
<1>1. /\ m \notin Held /\ time' = [time EXCEPT ![m] = clock] /\ time \in [Mails -> 0..MaxTime]
      /\ clock \in Nat /\ Held \subseteq Mails /\ time[n] \in Nat
  <2>1. Held \subseteq Mails
    BY ContentType
  <2>2. m \notin Held /\ time' = [time EXCEPT ![m] = clock]
    BY DEF Deliver, Arrived, Held
  <2>3. time \in [Mails -> 0..MaxTime] /\ clock \in Nat
    BY MailboxAssumption DEF TypeOK
  <2>. QED BY <2>1, <2>2, <2>3, MailboxAssumption
<1>2. PICK k \in 1..(Len(Content) + 1) : dir' = InsertAt(Content, k, m)
  BY DEF Deliver
<1>3. Held' = Held \cup {m} /\ \A x, y \in Held : Precedes(x, y)' <=> Precedes(x, y)
  BY <1>1, <1>2, NewFile
<1>4. ~Before(m, n)'
  BY <1>1 DEF Before
<1>5. \A x \in Held : Before(x, n)' <=> Before(x, n)
  BY <1>1, <1>3 DEF Before
<1>6. Ahead(n)' = {x \in Held' : Before(x, n)'} /\ Ahead(n) = {x \in Held : Before(x, n)}
  BY DEF Ahead, Held
<1>. QED BY <1>3, <1>4, <1>5, <1>6

(* A mail that is not in a list that leads is behind all of it. *)
LEMMA BehindList ==
  ASSUME TypeOK, NEW list \in Seq(Mails), Leads(list), NEW a \in Held, a \notin ToSet(list),
         NEW k \in 1..Len(list)
  PROVE  a \notin Ahead(list[k])
<1> SUFFICES ASSUME Before(a, list[k]) PROVE FALSE
  BY DEF Ahead
<1>1. list[k] \in Held /\ Cardinality(Ahead(list[k])) = k - 1
  BY DEF Leads, Held
<1> PICK j \in Nat : j = Cardinality(Ahead(a))
  BY AheadCounts
<1>2. Len(list) \in Nat /\ DOMAIN list = 1..Len(list) /\ k \in Nat
  BY LenProperties
<1>3. j < k - 1
  BY <1>1, AheadCounts
<1>4. j + 1 \in 1..Len(list) /\ (j + 1) - 1 = j
  BY <1>2, <1>3
<1>5. list[j + 1] \in Held /\ Cardinality(Ahead(list[j + 1])) = j
  <2>1. list[j + 1] \in Held /\ Cardinality(Ahead(list[j + 1])) = (j + 1) - 1
    BY <1>4 DEF Leads, Held
  <2>. QED BY <1>4, <2>1
<1>6. list[j + 1] = a
  BY <1>5, AheadCounts
<1>. QED BY <1>2, <1>4, <1>6 DEF ToSet

LEMMA DeleteKeeps ==
  ASSUME TypeOK, dir # None, NEW a \in Held, dir' = Without(a), time' = time,
         NEW list \in Seq(Mails), Leads(list), a \notin ToSet(list)
  PROVE  Leads(list)'
<1>1. Held' = Held \ {a} /\ \A x, y \in Held \ {a} : Precedes(x, y)' <=> Precedes(x, y)
  BY LostFile
<1>2. \A x, y \in Held \ {a} : Before(x, y)' <=> Before(x, y)
  BY <1>1 DEF Before
<1>3. ASSUME NEW k \in 1..Len(list)
      PROVE  list[k] \in Held' /\ Cardinality(Ahead(list[k]))' = k - 1
  <2>1. list[k] \in Held /\ Cardinality(Ahead(list[k])) = k - 1
    BY DEF Leads, Held
  <2>2. list[k] # a
    BY LenProperties DEF ToSet
  <2>3. a \notin Ahead(list[k])
    BY BehindList
  <2>4. Ahead(list[k])' = {x \in Held' : Before(x, list[k])'} /\ Ahead(list[k]) = {x \in Held : Before(x, list[k])}
    BY DEF Ahead, Held
  <2>5. Ahead(list[k])' = Ahead(list[k])
    BY <1>1, <1>2, <2>1, <2>2, <2>3, <2>4
  <2>. QED BY <1>1, <2>1, <2>2, <2>5
<1>. QED BY <1>3 DEF Leads, Held

LEMMA SameOrder ==
  ASSUME UNCHANGED <<dir, time>>
  PROVE  /\ Content' = Content /\ Held' = Held
         /\ \A list : Leads(list) => Leads(list)'
<1>1. Content' = Content
  BY DEF Content
<1>2. \A x, y : Precedes(x, y)' <=> Precedes(x, y)
  BY <1>1 DEF Precedes
<1>3. \A x, y : Before(x, y)' <=> Before(x, y)
  BY <1>2 DEF Before
<1>4. \A x : Ahead(x)' = Ahead(x)
  BY <1>1, <1>3 DEF Ahead
<1>. QED BY <1>1, <1>4 DEF Leads, Held

-----------------------------------------------------------------------------
(* The invariant. *)

LEMMA KnownType ==
  ASSUME TypeOK, NEW c \in Clients
  PROVE  Known(c) \in Seq(Mails)
BY DEF TypeOK, Known

(* What a number of a list that leads names. *)
LEMMA InPlace ==
  ASSUME TypeOK, NEW list \in Seq(Mails), Leads(list), NEW i \in Nat, i + 1 \in 1..Len(list)
  PROVE  /\ AtIndex(i) = <<list[i + 1]>> /\ <<list[i + 1]>> # None /\ list[i + 1] \in Held
<1>1. list[i + 1] \in Held /\ Cardinality(Ahead(list[i + 1])) = (i + 1) - 1
  BY DEF Leads, Held
<1>2. Cardinality(Ahead(list[i + 1])) \in 0..(Len(Content) - 1) /\ Len(Content) \in Nat
      /\ Held \subseteq Mails
  BY <1>1, AheadCounts, ContentType
<1>3. i + 1 \in 1..Len(Content)
  BY <1>1, <1>2
<1>4. Sorted[i + 1] = list[i + 1]
  BY <1>1, <1>3, SortedLists
<1>5. i + 1 \in DOMAIN Sorted
  BY <1>3, SortedLists, LenProperties
<1>6. <<list[i + 1]>> \in Seq(Mails)
  BY <1>1, <1>2
<1>. QED BY <1>1, <1>4, <1>5, <1>6, MailboxAssumption DEF AtIndex

LEMMA AtIndexType ==
  ASSUME TypeOK, NEW i \in Nat
  PROVE  /\ AtIndex(i) \in Seq(Mails) \cup {None}
         /\ AtIndex(i) # None => \E m \in Held : AtIndex(i) = <<m>>
<1>1. /\ DOMAIN Sorted = 1..Len(Sorted) /\ Held \subseteq Mails
      /\ \A k \in DOMAIN Sorted : Sorted[k] \in Held
  BY SortedLists, LenProperties, ContentType DEF Leads, Held
<1>2. ASSUME NEW m \in Held PROVE <<m>> \in Seq(Mails)
  BY <1>1
<1>. QED BY <1>1, <1>2 DEF AtIndex

-----------------------------------------------------------------------------
(* What the steps leave of the lists. *)

(* The list a client has after a step leads if the same list, named before the
   step, does. *)
LEMMA NextList ==
  ASSUME NEW c \in Clients, NEW list, Known(c)' = list, Leads(list)'
  PROVE  Leads(Known(c))'
BY DEF Leads, Ahead, Before

LEMMA KeptList ==
  ASSUME UNCHANGED <<dir, time>>, NEW c \in Clients, Known(c)' = Known(c), Leads(Known(c))
  PROVE  Leads(Known(c))'
<1>1. PICK list : list = Known(c)
  OBVIOUS
<1>2. Leads(list)
  BY <1>1
<1>3. Leads(list)'
  BY <1>2, SameOrder
<1>. QED BY <1>1, <1>3, NextList

(* A step that has nothing to do with a client keeps what is known of it. *)
LEMMA Bystander ==
  ASSUME NEW d \in Clients, ListLeads(d) /\ NumberKnown(d) /\ MeantOf(d), UNCHANGED <<dir, time>>,
         cpc'[d] = cpc[d], op'[d] = op[d], index'[d] = index[d],
         answer'[d] = answer[d], shown'[d] = shown[d], moved'[d] = moved[d]
  PROVE  ListLeads(d)' /\ NumberKnown(d)' /\ MeantOf(d)'
<1>1. Known(d)' = Known(d)
  BY DEF Known
<1>2. ListLeads(d)'
  BY <1>1, KeptList DEF ListLeads, Deleted
<1>. QED BY <1>2 DEF NumberKnown, MeantOf

-----------------------------------------------------------------------------
(* The steps. *)

LEMMA InitHolds == Init => MailboxInv
<1> SUFFICES ASSUME Init PROVE MailboxInv
  OBVIOUS
<1>1. <<>> \in Seq(Mails) /\ Len(<<>>) = 0 /\ Content = <<>>
  BY EmptySeq DEF Init, Content
<1>2. TypeOK
  <2>1. IsInjective(Content) /\ ToSet(Content) \cap gone = {}
    BY <1>1 DEF Init, IsInjective, ToSet
  <2>. QED BY <1>1, <2>1, MailboxAssumption DEF Init, TypeOK
<1>3. ASSUME NEW c \in Clients PROVE ListLeads(c) /\ NumberKnown(c) /\ MeantOf(c)
  <2>1. Known(c) = <<>> /\ cpc[c] = "menu"
    BY DEF Known, Init
  <2>. QED BY <1>1, <2>1 DEF ListLeads, Leads, NumberKnown, MeantOf
<1>. QED BY <1>2, <1>3 DEF MailboxInv

LEMMA TickHolds == ASSUME MailboxInv, Tick PROVE MailboxInv'
<1>1. TypeOK'
  BY MailboxAssumption DEF MailboxInv, TypeOK, Tick, box, request, Content
<1>2. ASSUME NEW c \in Clients PROVE ListLeads(c)' /\ NumberKnown(c)' /\ MeantOf(c)'
  BY Bystander DEF MailboxInv, Tick, box, request
<1>. QED BY <1>1, <1>2 DEF MailboxInv

LEMMA AskHolds == ASSUME MailboxInv, NEW c \in Clients, Ask(c) PROVE MailboxInv'
<1>1. TypeOK
  BY DEF MailboxInv
<1>2. ASSUME NEW n \in DOMAIN shown[c] PROVE n - 1 \in Nat /\ n \in 1..Len(shown[c])
  <2>1. shown[c] \in Seq(Mails)
    BY <1>1 DEF TypeOK
  <2>. QED BY <2>1, LenProperties
<1>3. asks[c] + 1 \in 0..MaxAsks
  BY <1>1, MailboxAssumption DEF TypeOK, Ask
<1>4. TypeOK'
  <2>1. asks' \in [Clients -> 0..MaxAsks] /\ cpc' \in [Clients -> {"menu", "asked", "answered"}]
    BY <1>1, <1>3 DEF TypeOK, Ask
  <2>2. op' \in [Clients -> {"LIST", "READ", "DEL"}] /\ index' \in [Clients -> Nat]
    <3>1. CASE op' = [op EXCEPT ![c] = "LIST"] /\ UNCHANGED index
      BY <1>1, <3>1 DEF TypeOK
    <3>2. ASSUME NEW o \in {"READ", "DEL"}, NEW n \in DOMAIN shown[c],
                 op' = [op EXCEPT ![c] = o], index' = [index EXCEPT ![c] = n - 1]
          PROVE  op' \in [Clients -> {"LIST", "READ", "DEL"}] /\ index' \in [Clients -> Nat]
      BY <1>1, <1>2, <3>2 DEF TypeOK
    <3>. QED BY <3>1, <3>2 DEF Ask
  <2>. QED BY <1>1, <2>1, <2>2 DEF TypeOK, Ask, box, Content
<1>5. ASSUME NEW d \in Clients PROVE ListLeads(d)' /\ NumberKnown(d)' /\ MeantOf(d)'
  <2>1. CASE d # c
    BY <1>1, <2>1, Bystander DEF MailboxInv, Ask, box, TypeOK
  <2>2. CASE d = c
    <3>1. /\ cpc[c] = "menu" /\ cpc'[c] = "asked" /\ shown' = shown /\ moved' = moved
          /\ answer' = answer /\ UNCHANGED <<dir, time>>
      BY <1>1 DEF Ask, TypeOK, box
    <3>2. Known(c)' = Known(c)
      BY <3>1 DEF Known
    <3>3. ListLeads(c)'
      BY <3>1, <3>2, KeptList DEF MailboxInv, ListLeads, Deleted
    <3>4. NumberKnown(c)'
      <4>1. op'[c] = "LIST" \/ \E n \in DOMAIN shown[c] : index'[c] = n - 1
        BY <1>1 DEF Ask, TypeOK
      <4>2. ASSUME NEW n \in DOMAIN shown[c], index'[c] = n - 1 PROVE index'[c] + 1 \in 1..Len(shown'[c])
        BY <1>2, <3>1, <4>2
      <4>. QED BY <4>1, <4>2 DEF NumberKnown
    <3>. QED BY <2>2, <3>1, <3>3, <3>4 DEF MeantOf
  <2>. QED BY <2>1, <2>2
<1>. QED BY <1>4, <1>5 DEF MailboxInv

LEMMA DeliverHolds == ASSUME MailboxInv, NEW m \in Mails, Deliver(m) PROVE MailboxInv'
<1>1. TypeOK
  BY DEF MailboxInv
<1>2. m \notin Held /\ m \notin gone /\ UNCHANGED <<clock, gone, cpc, asks, op, index, answer, shown>>
  BY DEF Deliver, Arrived, Held, request
<1>3. PICK k \in 1..(Len(Content) + 1) : dir' = InsertAt(Content, k, m)
  BY DEF Deliver
<1>4. dir' \in Seq(Mails) /\ IsInjective(Content)' /\ Held' = Held \cup {m}
  BY <1>1, <1>2, <1>3, NewFile
<1>5. TypeOK'
  <2>1. Held \cap gone = {}
    BY <1>1 DEF TypeOK, Held
  <2>2. (ToSet(Content) \cap gone = {})'
    BY <1>2, <1>4, <2>1 DEF Held
  <2>3. time' \in [Mails -> 0..MaxTime]
    BY <1>1 DEF TypeOK, Deliver
  <2>4. moved' \in [Clients -> BOOLEAN]
    <3>1. \A c \in Clients : (moved[c] \/ \E n \in ToSet(Known(c)) : clock <= time[n]) \in BOOLEAN
      BY <1>1 DEF TypeOK
    <3>. QED BY <3>1 DEF Deliver
  <2>. QED BY <1>1, <1>2, <1>4, <2>2, <2>3, <2>4 DEF TypeOK
<1>6. ASSUME NEW c \in Clients PROVE ListLeads(c)' /\ NumberKnown(c)' /\ MeantOf(c)'
  <2>1. Known(c)' = Known(c) /\ (Deleted(c)' <=> Deleted(c))
    BY <1>2 DEF Known, Deleted
  <2>2. ~moved'[c] => ~moved[c] /\ \A n \in ToSet(Known(c)) : ~(clock <= time[n])
    BY <1>1 DEF Deliver, TypeOK
  <2>3. NumberKnown(c)' /\ MeantOf(c)'
    BY <1>2, <2>2 DEF MailboxInv, NumberKnown, MeantOf
  <2>4. ListLeads(c)'
    <3> SUFFICES ASSUME ~moved'[c], ~Deleted(c) PROVE Leads(Known(c))'
      BY <2>1 DEF ListLeads
    <3>1. PICK list \in Seq(Mails) : list = Known(c)
      BY <1>1, KnownType
    <3>2. Leads(list)
      BY <2>2, <3>1 DEF MailboxInv, ListLeads
    <3>3. ASSUME NEW i \in 1..Len(list)
          PROVE  list[i] \in Held' /\ Cardinality(Ahead(list[i]))' = i - 1
      <4>1. list[i] \in Held /\ Cardinality(Ahead(list[i])) = i - 1
        BY <3>2 DEF Leads, Held
      <4>2. list[i] \in ToSet(Known(c))
        BY <3>1, LenProperties DEF ToSet
      <4>3. clock > time[list[i]]
        <5>1. clock \in Nat /\ time[list[i]] \in Nat
          BY <1>1, <4>1, ContentType, MailboxAssumption DEF TypeOK
        <5>. QED BY <2>2, <4>2, <5>1
      <4>4. PICK n \in Held : n = list[i]
        BY <4>1
      <4>5. n \in Held' /\ Ahead(n)' = Ahead(n)
        BY <1>1, <4>3, <4>4, DeliverKeeps
      <4>. QED BY <4>1, <4>4, <4>5
    <3>4. Leads(list)'
      BY <3>3 DEF Leads, Held
    <3>. QED BY <2>1, <3>1, <3>4, NextList
  <2>. QED BY <2>3, <2>4
<1>. QED BY <1>5, <1>6 DEF MailboxInv

(* What a reply changes whatever it is. *)
LEMMA ReplyKeeps ==
  ASSUME MailboxInv, NEW c \in Clients, NEW a \in Seq(Mails) \cup {None}, Reply(c, a)
  PROVE  /\ UNCHANGED <<clock, time, asks, op, index, shown>>
         /\ cpc' \in [Clients -> {"menu", "asked", "answered"}]
         /\ answer' \in [Clients -> Seq(Mails) \cup {None}]
         /\ cpc[c] = "asked" /\ cpc'[c] = "answered" /\ answer'[c] = a /\ NumberKnown(c)'
         /\ \A d \in Clients \ {c} : cpc'[d] = cpc[d] /\ answer'[d] = answer[d]
         /\ Known(c) = shown[c] /\ (op[c] # "LIST" => Known(c)' = shown[c])
<1>1. TypeOK
  BY DEF MailboxInv
<1>2. UNCHANGED <<clock, time, asks, op, index, shown>> /\ cpc[c] = "asked"
  BY DEF Reply, request
<1>3. /\ cpc' \in [Clients -> {"menu", "asked", "answered"}]
      /\ answer' \in [Clients -> Seq(Mails) \cup {None}]
      /\ cpc'[c] = "answered" /\ answer'[c] = a
      /\ \A d \in Clients \ {c} : cpc'[d] = cpc[d] /\ answer'[d] = answer[d]
  BY <1>1 DEF Reply, TypeOK
<1>4. NumberKnown(c)'
  BY <1>2 DEF MailboxInv, NumberKnown
<1>. QED BY <1>2, <1>3, <1>4 DEF Known

LEMMA ListHolds == ASSUME MailboxInv, NEW c \in Clients, List(c) PROVE MailboxInv'
<1> DEFINE a == IF dir = None THEN None ELSE Sorted
<1>1. TypeOK
  BY DEF MailboxInv
<1>2. Sorted \in Seq(Mails) /\ Leads(Sorted) /\ None \notin Seq(Mails)
  BY <1>1, SortedLists, MailboxAssumption
<1>3. a \in Seq(Mails) \cup {None} /\ Reply(c, a)
  BY <1>2 DEF List
<1> HIDE DEF a
<1>4. /\ UNCHANGED <<clock, time, asks, op, index, shown>>
      /\ cpc' \in [Clients -> {"menu", "asked", "answered"}]
      /\ answer' \in [Clients -> Seq(Mails) \cup {None}]
      /\ cpc[c] = "asked" /\ cpc'[c] = "answered" /\ answer'[c] = a /\ NumberKnown(c)'
      /\ \A d \in Clients \ {c} : cpc'[d] = cpc[d] /\ answer'[d] = answer[d]
      /\ Known(c) = shown[c]
  BY <1>3, ReplyKeeps
<1>5. UNCHANGED <<dir, gone>> /\ op[c] = "LIST"
      /\ moved' = [moved EXCEPT ![c] = IF dir = None THEN @ ELSE FALSE]
  BY DEF List
<1>6. TypeOK'
  <2>1. moved' \in [Clients -> BOOLEAN]
    BY <1>1, <1>5 DEF TypeOK
  <2>. QED BY <1>1, <1>4, <1>5, <2>1 DEF TypeOK, Content
<1>7. ASSUME NEW d \in Clients PROVE ListLeads(d)' /\ NumberKnown(d)' /\ MeantOf(d)'
  <2>1. CASE d # c
    BY <1>1, <1>4, <1>5, <2>1, Bystander DEF MailboxInv, TypeOK
  <2>2. CASE d = c
    <3>1. MeantOf(c)'
      BY <1>4, <1>5 DEF MeantOf
    <3>2. CASE dir = None
      <4>1. Known(c)' = Known(c) /\ moved'[c] = moved[c]
        BY <1>1, <1>4, <1>5, <3>2 DEF Known, a, TypeOK
      <4>2. ListLeads(c)'
        BY <1>4, <1>5, <4>1, KeptList DEF MailboxInv, ListLeads, Deleted
      <4>. QED BY <1>4, <2>2, <3>1, <4>2
    <3>3. CASE dir # None
      <4>1. PICK list : list = Sorted
        OBVIOUS
      <4>2. Known(c)' = list
        BY <1>2, <1>4, <1>5, <3>3, <4>1 DEF Known, a
      <4>3. Leads(list)'
        BY <1>2, <1>4, <1>5, <4>1, SameOrder
      <4>4. Leads(Known(c))'
        BY <4>2, <4>3, NextList
      <4>. QED BY <1>4, <2>2, <3>1, <4>4 DEF ListLeads
    <3>. QED BY <3>2, <3>3
  <2>. QED BY <2>1, <2>2
<1>. QED BY <1>6, <1>7 DEF MailboxInv

(* The mail a number names is the one of the client's list. *)
LEMMA Named ==
  ASSUME MailboxInv, NEW c \in Clients, cpc[c] = "asked", op[c] # "LIST"
  PROVE  /\ index[c] \in Nat /\ shown[c] \in Seq(Mails)
         /\ ~moved[c] => AtIndex(index[c]) = <<shown[c][index[c] + 1]>>
<1>1. TypeOK /\ index[c] \in Nat /\ shown[c] \in Seq(Mails)
  BY DEF MailboxInv, TypeOK
<1>2. index[c] + 1 \in 1..Len(shown[c])
  BY DEF MailboxInv, NumberKnown
<1>3. ASSUME ~moved[c] PROVE Leads(shown[c])
  BY <1>3 DEF MailboxInv, ListLeads, Deleted, Known
<1>4. PICK list \in Seq(Mails), i \in Nat : list = shown[c] /\ i = index[c]
  BY <1>1
<1>5. Leads(list) => AtIndex(i) = <<list[i + 1]>>
  BY <1>1, <1>2, <1>4, InPlace
<1>. QED BY <1>1, <1>3, <1>4, <1>5

LEMMA ReadHolds == ASSUME MailboxInv, NEW c \in Clients, Read(c) PROVE MailboxInv'
<1>1. TypeOK /\ op[c] = "READ" /\ UNCHANGED <<dir, gone, moved>> /\ cpc[c] = "asked"
  BY DEF MailboxInv, Read, Reply
<1>2. index[c] \in Nat /\ (~moved[c] => AtIndex(index[c]) = <<shown[c][index[c] + 1]>>)
  BY <1>1, Named
<1>3. PICK a : a = AtIndex(index[c])
  OBVIOUS
<1>4. a \in Seq(Mails) \cup {None} /\ Reply(c, a)
  BY <1>1, <1>2, <1>3, AtIndexType DEF Read
<1>5. /\ UNCHANGED <<clock, time, asks, op, index, shown>>
      /\ cpc' \in [Clients -> {"menu", "asked", "answered"}]
      /\ answer' \in [Clients -> Seq(Mails) \cup {None}]
      /\ cpc'[c] = "answered" /\ answer'[c] = a /\ NumberKnown(c)'
      /\ \A d \in Clients \ {c} : cpc'[d] = cpc[d] /\ answer'[d] = answer[d]
      /\ Known(c) = shown[c] /\ (op[c] # "LIST" => Known(c)' = shown[c])
  BY <1>4, ReplyKeeps
<1>6. TypeOK'
  BY <1>1, <1>5 DEF TypeOK, Content
<1>7. ASSUME NEW d \in Clients PROVE ListLeads(d)' /\ NumberKnown(d)' /\ MeantOf(d)'
  <2>1. CASE d # c
    BY <1>1, <1>5, <2>1, Bystander DEF MailboxInv
  <2>2. CASE d = c
    <3>1. ListLeads(c)'
      BY <1>1, <1>5, KeptList DEF MailboxInv, ListLeads, Deleted
    <3>2. MeantOf(c)'
      BY <1>1, <1>2, <1>3, <1>5 DEF MeantOf
    <3>. QED BY <1>5, <2>2, <3>1, <3>2
  <2>. QED BY <2>1, <2>2
<1>. QED BY <1>6, <1>7 DEF MailboxInv

LEMMA DeleteHolds == ASSUME MailboxInv, NEW c \in Clients, Delete(c) PROVE MailboxInv'
<1>1. TypeOK /\ op[c] = "DEL" /\ cpc[c] = "asked"
  BY DEF MailboxInv, Delete, Reply
<1>2. index[c] \in Nat /\ (~moved[c] => AtIndex(index[c]) = <<shown[c][index[c] + 1]>>)
  BY <1>1, Named
<1>3. PICK a : a = AtIndex(index[c])
  OBVIOUS
<1>4. a \in Seq(Mails) \cup {None} /\ Reply(c, a) /\ (a # None => \E m \in Held : a = <<m>>)
  BY <1>1, <1>2, <1>3, AtIndexType DEF Delete
<1>5. /\ UNCHANGED <<clock, time, asks, op, index, shown>>
      /\ cpc' \in [Clients -> {"menu", "asked", "answered"}]
      /\ answer' \in [Clients -> Seq(Mails) \cup {None}]
      /\ cpc'[c] = "answered" /\ answer'[c] = a /\ NumberKnown(c)'
      /\ \A d \in Clients \ {c} : cpc'[d] = cpc[d] /\ answer'[d] = answer[d]
  BY <1>4, ReplyKeeps
<1>6. ListLeads(c)'
  BY <1>1, <1>5 DEF ListLeads, Deleted
<1>7. CASE a = None
  <2>1. UNCHANGED <<dir, gone, moved>>
    BY <1>3, <1>7 DEF Delete
  <2>2. TypeOK'
    BY <1>1, <1>5, <2>1 DEF TypeOK, Content
  <2>3. MeantOf(c)'
    BY <1>1, <1>2, <1>3, <1>5, <2>1 DEF MeantOf
  <2>4. ASSUME NEW d \in Clients \ {c} PROVE ListLeads(d)' /\ NumberKnown(d)' /\ MeantOf(d)'
    BY <1>5, <2>1, Bystander DEF MailboxInv
  <2>. QED BY <1>5, <1>6, <2>2, <2>3, <2>4 DEF MailboxInv
<1>8. CASE a # None
  <2>1. PICK m \in Held : a = <<m>>
    BY <1>4, <1>8
  <2>2. /\ dir' = Without(m) /\ gone' = gone \cup {m}
        /\ moved' = [d \in Clients |-> moved[d] \/ (d # c /\ m \in ToSet(Known(d)))]
    BY <1>3, <1>8, <2>1 DEF Delete
  <2>3. dir # None
    BY <2>1, LenProperties DEF Held, Content, ToSet
  <2>4. dir' \in Seq(Mails) /\ IsInjective(Content)' /\ Held' = Held \ {m}
    BY <1>1, <2>2, <2>3, LostFile
  <2>5. TypeOK'
    <3>1. Held \cap gone = {} /\ Held \subseteq Mails
      BY <1>1, ContentType DEF TypeOK, Held
    <3>2. (ToSet(Content) \cap gone = {})'
      BY <2>2, <2>4, <3>1 DEF Held
    <3>3. moved' \in [Clients -> BOOLEAN]
      <4>1. \A d \in Clients : (moved[d] \/ (d # c /\ m \in ToSet(Known(d)))) \in BOOLEAN
        BY <1>1 DEF TypeOK
      <4>. QED BY <2>2, <4>1
    <3>. QED BY <1>1, <1>5, <2>2, <2>4, <3>1, <3>2, <3>3 DEF TypeOK
  <2>6. MeantOf(c)'
    BY <1>1, <1>2, <1>3, <1>5, <2>2 DEF MeantOf
  <2>7. ASSUME NEW d \in Clients \ {c} PROVE ListLeads(d)' /\ NumberKnown(d)' /\ MeantOf(d)'
    <3>1. Known(d)' = Known(d) /\ (Deleted(d)' <=> Deleted(d))
      BY <1>5, <2>7 DEF Known, Deleted
    <3>2. ~moved'[d] => ~moved[d] /\ m \notin ToSet(Known(d))
      BY <2>2, <2>7
    <3>3. NumberKnown(d)' /\ MeantOf(d)'
      BY <1>5, <2>7, <3>2 DEF MailboxInv, NumberKnown, MeantOf
    <3>4. ASSUME ~moved'[d], ~Deleted(d) PROVE Leads(Known(d))'
      <4>1. PICK list \in Seq(Mails) : list = Known(d)
        BY <1>1, <2>7, KnownType
      <4>2. Leads(list) /\ m \notin ToSet(list)
        BY <2>7, <3>2, <3>4, <4>1 DEF MailboxInv, ListLeads
      <4>3. Leads(list)'
        BY <1>1, <1>5, <2>2, <2>3, <4>2, DeleteKeeps
      <4>. QED BY <2>7, <3>1, <4>1, <4>3, NextList
    <3>. QED BY <3>1, <3>3, <3>4 DEF ListLeads
  <2>. QED BY <1>5, <1>6, <2>5, <2>6, <2>7 DEF MailboxInv
<1>. QED BY <1>7, <1>8

LEMMA HearHolds == ASSUME MailboxInv, NEW c \in Clients, Hear(c) PROVE MailboxInv'
<1>1. TypeOK /\ cpc[c] = "answered"
  BY DEF MailboxInv, Hear
<1>2. <<>> \in Seq(Mails) /\ Len(<<>>) = 0
  BY EmptySeq
<1>3. PICK list : list = IF op[c] # "LIST" THEN shown[c]
                         ELSE IF answer[c] = None THEN <<>> ELSE answer[c]
  OBVIOUS
<1>4. list \in Seq(Mails)
  BY <1>1, <1>2, <1>3 DEF TypeOK
<1>5. /\ UNCHANGED <<clock, dir, time, gone, asks, op, index>>
      /\ cpc' = [cpc EXCEPT ![c] = "menu"] /\ answer' = [answer EXCEPT ![c] = None]
      /\ shown' = [shown EXCEPT ![c] = list] /\ moved' = [moved EXCEPT ![c] = @ \/ op[c] = "DEL"]
  BY <1>1, <1>3 DEF Hear, box, request, TypeOK
<1>6. TypeOK'
  <2>1. cpc' \in [Clients -> {"menu", "asked", "answered"}] /\ shown' \in [Clients -> Seq(Mails)]
        /\ answer' \in [Clients -> Seq(Mails) \cup {None}]
    BY <1>1, <1>4, <1>5 DEF TypeOK
  <2>2. moved' \in [Clients -> BOOLEAN]
    <3>1. (moved[c] \/ op[c] = "DEL") \in BOOLEAN
      BY <1>1 DEF TypeOK
    <3>. QED BY <1>1, <1>5, <3>1 DEF TypeOK
  <2>. QED BY <1>1, <1>5, <2>1, <2>2 DEF TypeOK, Content
<1>7. ASSUME NEW d \in Clients PROVE ListLeads(d)' /\ NumberKnown(d)' /\ MeantOf(d)'
  <2>1. CASE d # c
    BY <1>1, <1>5, <2>1, Bystander DEF MailboxInv, TypeOK
  <2>2. CASE d = c
    <3>1. cpc'[c] = "menu" /\ Known(c)' = list /\ (moved'[c] <=> moved[c] \/ op[c] = "DEL")
      BY <1>1, <1>5 DEF Known, TypeOK
    <3>2. ASSUME ~moved'[c] PROVE Leads(Known(c))'
      <4>1. Known(c) = list \/ list = <<>>
        BY <1>1, <1>3 DEF Known
      <4>2. Leads(list)
        <5>1. ~moved[c] /\ ~Deleted(c)
          BY <3>1, <3>2 DEF Deleted
        <5>2. Leads(Known(c))
          BY <5>1 DEF MailboxInv, ListLeads
        <5>3. Leads(<<>>)
          BY <1>2 DEF Leads
        <5>. QED BY <4>1, <5>2, <5>3
      <4>3. Leads(list)'
        BY <1>5, <4>2, SameOrder
      <4>. QED BY <3>1, <4>3, NextList
    <3>. QED BY <2>2, <3>1, <3>2 DEF ListLeads, NumberKnown, MeantOf
  <2>. QED BY <2>1, <2>2
<1>. QED BY <1>6, <1>7 DEF MailboxInv

LEMMA StepHolds == MailboxInv /\ [Next]_vars => MailboxInv'
<1> SUFFICES ASSUME MailboxInv, [Next]_vars PROVE MailboxInv'
  OBVIOUS
<1>1. CASE UNCHANGED vars
  <2>1. UNCHANGED <<clock, dir, time, gone, cpc, asks, op, index, answer, shown, moved>>
    BY <1>1 DEF vars, box, request
  <2>2. TypeOK'
    BY <2>1 DEF MailboxInv, TypeOK, Content
  <2>3. ASSUME NEW d \in Clients PROVE ListLeads(d)' /\ NumberKnown(d)' /\ MeantOf(d)'
    BY <2>1, Bystander DEF MailboxInv
  <2>. QED BY <2>2, <2>3 DEF MailboxInv
<1>2. CASE Tick
  BY <1>2, TickHolds
<1>3. CASE \E m \in Mails : Deliver(m)
  BY <1>3, DeliverHolds
<1>4. ASSUME NEW c \in Clients, Ask(c) \/ List(c) \/ Read(c) \/ Delete(c) \/ Hear(c)
      PROVE  MailboxInv'
  BY <1>4, AskHolds, ListHolds, ReadHolds, DeleteHolds, HearHolds
<1>. QED BY <1>1, <1>2, <1>3, <1>4 DEF Next

LEMMA AlwaysInv == Spec => []MailboxInv
BY InitHolds, StepHolds, PTL DEF Spec

-----------------------------------------------------------------------------
(* The variables keep their types, and no mail is in the directory twice or in
   it after it was deleted (persistSendMessage, removeFile). *)
THEOREM TypeCorrect == Spec => []TypeOK
<1>1. MailboxInv => TypeOK
  BY DEF MailboxInv
<1>. QED BY <1>1, AlwaysInv, PTL

(* A READ or DEL of a number acts on the mail the client's list has there
   (getMessageAtIndex), while mails arrive and others are deleted, unless a mail of
   the list is among those or the clock was not past all the list's times when
   one arrived. *)
THEOREM Meant == Spec => []MeantUnlessMoved
<1>1. MailboxInv => MeantUnlessMoved
  BY DEF MailboxInv, MeantOf, MeantUnlessMoved
<1>. QED BY <1>1, AlwaysInv, PTL

-----------------------------------------------------------------------------
(* The order is the one the multimap has when the last file is in it.  Induction
   is on a set of numbers, whose smallest there is. *)

LEMMA Smallest ==
  ASSUME NEW T, T \subseteq Nat, T # {}
  PROVE  \E n \in T : \A k \in T : n <= k
<1> DEFINE R == OpToRel(<, Nat)
<1>1. IsWellFoundedOn(R, Nat)
  BY NatLessThanWellFounded
<1>2. R = {ss \in Nat \X Nat : ss[1] < ss[2]}
  BY DEF OpToRel
<1> HIDE DEF R
<1>3. PICK x \in T : \A y \in T : ~ (<<y, x>> \in R)
  BY <1>1, WFMin
<1>4. \A y \in T : ~(y < x)
  BY <1>2, <1>3
<1>. QED BY <1>4

LEMMA Counting ==
  ASSUME NEW T, 0 \in T, \A n \in T \cap Nat : n + 1 \in T
  PROVE  Nat \subseteq T
<1> SUFFICES ASSUME Nat \ T # {} PROVE FALSE
  OBVIOUS
<1>1. PICK n \in Nat \ T : \A k \in Nat \ T : n <= k
  BY Smallest, Nat \ T \subseteq Nat
<1>2. n # 0 /\ n - 1 \in Nat
  BY <1>1
<1>3. n - 1 \in T
  BY <1>1, <1>2
<1>4. (n - 1) + 1 \in T
  BY <1>2, <1>3
<1>. QED BY <1>1, <1>2, <1>4

(* Numbers up to n that go down to 1 with each of them are the first ones. *)
LEMMA Initial ==
  ASSUME NEW n \in Nat, NEW T, T \subseteq 1..n, \A i \in T : \A j \in 1..i : j \in T
  PROVE  Cardinality(T) \in 0..n /\ T = 1..Cardinality(T)
<1> DEFINE U == {i \in 1..(n + 1) : i \notin T}
<1>1. n + 1 \in U /\ U \subseteq Nat
  OBVIOUS
<1> HIDE DEF U
<1>2. PICK u \in U : \A k \in U : u <= k
  BY <1>1, Smallest
<1>3. u \in 1..(n + 1) /\ u \notin T /\ \A i \in 1..(n + 1) : i < u => i \in T
  BY <1>2 DEF U
<1>4. T = 1..(u - 1)
  <2>1. ASSUME NEW i \in T PROVE i \in 1..(u - 1)
    <3>1. i \in 1..n
      OBVIOUS
    <3>2. ~(u <= i)
      <4>1. u <= i => u \in 1..i
        BY <1>3, <3>1
      <4>. QED BY <1>3, <4>1
    <3>. QED BY <1>3, <3>1, <3>2
  <2>2. ASSUME NEW i \in 1..(u - 1) PROVE i \in T
    <3>1. i \in 1..(n + 1) /\ i < u
      BY <1>3
    <3>. QED BY <1>3, <3>1
  <2>. QED BY <2>1, <2>2
<1>5. u - 1 \in 0..n /\ u - 1 \in Nat
  BY <1>3
<1>6. Cardinality(1..(u - 1)) = u - 1
  BY <1>5, FS_Interval
<1>. QED BY <1>4, <1>5, <1>6

(* A function defined by recursion on its argument has the values it says. *)
LEMMA FilledValues ==
  ASSUME TypeOK
  PROVE  Filled = [k \in 0..Len(Content) |->
                     IF k = 0 THEN <<>> ELSE Insert(Filled[k - 1], Content[k])]
<1> DEFINE N == Len(Content)
           OK(g, n) == g = [k \in 0..n |-> IF k = 0 THEN <<>> ELSE Insert(g[k - 1], Content[k])]
           T == {n \in Nat : \E g : OK(g, n)}
<1>1. N \in Nat
  BY ContentType
<1>2. 0 \in T
  <2>1. OK([k \in 0..0 |-> <<>>], 0)
    OBVIOUS
  <2>. QED BY <2>1
<1>3. ASSUME NEW n \in T PROVE n + 1 \in T
  <2>1. PICK g : OK(g, n)
    OBVIOUS
  <2>2. PICK h : h = [k \in 0..(n + 1) |-> IF k = n + 1 THEN Insert(g[n], Content[n + 1]) ELSE g[k]]
    OBVIOUS
  <2>3. ASSUME NEW k \in 0..(n + 1)
        PROVE  h[k] = IF k = 0 THEN <<>> ELSE Insert(h[k - 1], Content[k])
    <3>1. CASE k = 0
      BY <2>1, <2>2, <3>1
    <3>2. CASE k # 0
      <4>1. k - 1 \in 0..n /\ h[k - 1] = g[k - 1]
        BY <2>2, <3>2
      <4>2. CASE k = n + 1
        <5>1. h[k] = Insert(g[n], Content[n + 1]) /\ k - 1 = n
          BY <2>2, <4>2
        <5>. QED BY <3>2, <4>1, <4>2, <5>1
      <4>3. CASE k # n + 1
        <5>1. k \in 0..n /\ h[k] = g[k]
          BY <2>2, <4>3
        <5>2. g[k] = Insert(g[k - 1], Content[k])
          BY <2>1, <3>2, <5>1
        <5>. QED BY <3>2, <4>1, <5>1, <5>2
      <4>. QED BY <4>2, <4>3
    <3>. QED BY <3>1, <3>2
  <2>4. OK(h, n + 1)
    BY <2>2, <2>3
  <2>. QED BY <2>4
<1>4. \E g : OK(g, N)
  <2> HIDE DEF OK
  <2>1. Nat \subseteq T
    <3> HIDE DEF T
    <3>. QED BY <1>2, <1>3, Counting
  <2>. QED BY <1>1, <2>1
<1>. QED BY <1>4 DEF Filled

(* The first k files of the directory, in the order. *)
Ordered(s, k) ==
  /\ s \in Seq(Held) /\ Len(s) = k /\ ToSet(s) = {Content[i] : i \in 1..k}
  /\ \A i, j \in 1..k : i < j => Before(s[i], s[j])

LEMMA InsertSorts ==
  ASSUME TypeOK, NEW k \in Nat, k + 1 <= Len(Content), NEW s, Ordered(s, k),
         NEW m, m = Content[k + 1]
  PROVE  Ordered(Insert(s, m), k + 1)
<1> DEFINE D == {i \in 1..k : time[s[i]] <= time[m]}
           c == 1 + Cardinality(D)
           p(i) == IF i < c THEN i ELSE i + 1
           z == InsertAt(s, c, m)
<1>1. /\ \A i \in 1..(k + 1) : i \in DOMAIN Content /\ Content[i] \in Held
      /\ \A x \in Held : time[x] \in Nat
  BY ContentType DEF Held, ToSet
<1>2. /\ s \in Seq(Held) /\ Len(s) = k /\ DOMAIN s = 1..k /\ \A i \in 1..k : s[i] \in Held
      /\ ToSet(s) = {Content[i] : i \in 1..k} /\ \A i, j \in 1..k : i < j => Before(s[i], s[j])
  BY LenProperties DEF Ordered
<1>3. m \in Held
  BY <1>1
<1>4. \A i \in 1..k : Precedes(s[i], m)
  <2> SUFFICES ASSUME NEW i \in 1..k PROVE Precedes(s[i], m)
    OBVIOUS
  <2>1. s[i] \in ToSet(s)
    BY <1>2 DEF ToSet
  <2>2. PICK j \in 1..k : s[i] = Content[j]
    BY <1>2, <2>1
  <2>3. j \in 1..(k + 1) /\ k + 1 \in 1..(k + 1) /\ j < k + 1
    OBVIOUS
  <2>. QED BY <1>1, <2>2, <2>3 DEF Precedes
<1>5. c \in 1..(k + 1) /\ D = 1..(c - 1)
  <2>1. ASSUME NEW i \in D, NEW j \in 1..i PROVE j \in D
    <3>1. i \in 1..k /\ j \in 1..k /\ (j < i \/ j = i)
      OBVIOUS
    <3>2. j < i => Before(s[j], s[i])
      BY <1>2, <3>1
    <3>3. time[s[i]] \in Nat /\ time[s[j]] \in Nat /\ time[m] \in Nat
      BY <1>1, <1>2, <1>3, <3>1
    <3>4. time[s[j]] <= time[s[i]] /\ time[s[i]] <= time[m]
      BY <3>1, <3>2, <3>3 DEF Before
    <3>. QED BY <3>1, <3>3, <3>4
  <2>2. D \subseteq 1..k
    OBVIOUS
  <2> HIDE DEF D
  <2>3. Cardinality(D) \in 0..k /\ D = 1..Cardinality(D)
    BY <2>1, <2>2, Initial
  <2>. QED BY <2>3
<1>6. Insert(s, m) = z
  <2>1. {i \in DOMAIN s : time[s[i]] <= time[m]} = D
    BY <1>2
  <2>. QED BY <2>1 DEF Insert
<1>7. \A i \in 1..k : (i < c => Before(s[i], m)) /\ (~(i < c) => Before(m, s[i]))
  <2> SUFFICES ASSUME NEW i \in 1..k
               PROVE  (i < c => Before(s[i], m)) /\ (~(i < c) => Before(m, s[i]))
    OBVIOUS
  <2>1. time[s[i]] \in Nat /\ time[m] \in Nat
    BY <1>1, <1>2, <1>3
  <2>2. i < c <=> time[s[i]] <= time[m]
    <3>1. i \in D <=> time[s[i]] <= time[m]
      OBVIOUS
    <3>2. i \in 1..(c - 1) <=> i < c
      BY <1>5
    <3>. QED BY <1>5, <3>1, <3>2
  <2>. QED BY <1>4, <2>1, <2>2 DEF Before
<1> HIDE DEF D, c
<1>8. /\ z \in Seq(Held) /\ Len(z) = k + 1 /\ z[c] = m /\ \A i \in 1..k : z[p(i)] = s[i]
  <2>1. c \in 1..(Len(s) + 1)
    BY <1>2, <1>5
  <2>2. /\ InsertAt(s, c, m) \in Seq(Held) /\ Len(InsertAt(s, c, m)) = Len(s) + 1
        /\ InsertAt(s, c, m)[c] = m
        /\ \A i \in 1..Len(s) : InsertAt(s, c, m)[IF i < c THEN i ELSE i + 1] = s[i]
    <3>1. PICK q \in 1..(Len(s) + 1) : q = c
      BY <2>1
    <3>2. s \in Seq(Held) /\ m \in Held
      BY <1>2, <1>3
    <3>3. /\ InsertAt(s, q, m) \in Seq(Held) /\ Len(InsertAt(s, q, m)) = Len(s) + 1
          /\ InsertAt(s, q, m)[q] = m
          /\ \A i \in 1..Len(s) : InsertAt(s, q, m)[IF i < q THEN i ELSE i + 1] = s[i]
      BY <3>2, Inserted
    <3>. QED BY <3>1, <3>3
  <2>. QED BY <1>2, <2>2
<1> HIDE DEF z
<1>9. /\ c \in Nat /\ \A i \in 1..k : p(i) \in 1..(k + 1) /\ p(i) # c
      /\ \A x \in 1..(k + 1) : x = c \/ \E i \in 1..k : x = p(i)
      /\ \A i, j \in 1..k : p(i) < p(j) => i < j
      /\ \A i \in 1..k : (p(i) < c => i < c) /\ (c < p(i) => ~(i < c))
  <2>1. ASSUME NEW x \in 1..(k + 1), x # c PROVE \E i \in 1..k : x = p(i)
    <3>1. CASE x < c
      BY <1>5, <3>1
    <3>2. CASE x > c
      <4>1. x - 1 \in 1..k /\ ~(x - 1 < c) /\ (x - 1) + 1 = x
        BY <1>5, <3>2
      <4>. QED BY <4>1
    <3>. QED BY <1>5, <2>1, <3>1, <3>2
  <2>. QED BY <1>5, <2>1
<1> HIDE DEF p
<1>10. \A x, y \in 1..(k + 1) : x < y => Before(z[x], z[y])
  <2> SUFFICES ASSUME NEW x \in 1..(k + 1), NEW y \in 1..(k + 1), x < y PROVE Before(z[x], z[y])
    OBVIOUS
  <2>1. CASE x = c
    <3>1. PICK j \in 1..k : y = p(j)
      BY <1>9, <2>1
    <3>2. ~(j < c) /\ z[x] = m /\ z[y] = s[j]
      BY <1>8, <1>9, <2>1, <3>1
    <3>3. Before(m, s[j])
      BY <1>7, <3>2
    <3>. QED BY <3>2, <3>3
  <2>2. CASE y = c
    <3>1. PICK i \in 1..k : x = p(i)
      BY <1>9, <2>2
    <3>2. i < c /\ z[y] = m /\ z[x] = s[i]
      BY <1>8, <1>9, <2>2, <3>1
    <3>3. Before(s[i], m)
      BY <1>7, <3>2
    <3>. QED BY <3>2, <3>3
  <2>3. CASE x # c /\ y # c
    <3>1. PICK i \in 1..k, j \in 1..k : x = p(i) /\ y = p(j)
      BY <1>9, <2>3
    <3>2. i < j
      BY <1>9, <3>1
    <3>. QED BY <1>2, <1>8, <3>1, <3>2
  <2>. QED BY <2>1, <2>2, <2>3
<1>11. ToSet(z) = {Content[i] : i \in 1..(k + 1)}
  <2>1. DOMAIN z = 1..(k + 1)
    BY <1>8, LenProperties
  <2>2. ToSet(z) = {m} \cup ToSet(s)
    <3>1. ASSUME NEW x \in 1..(k + 1) PROVE z[x] \in {m} \cup ToSet(s)
      <4>1. CASE x = c
        BY <1>8, <4>1
      <4>2. CASE x # c
        <5>1. PICK i \in 1..k : x = p(i)
          BY <1>9, <4>2
        <5>. QED BY <1>2, <1>8, <5>1 DEF ToSet
      <4>. QED BY <4>1, <4>2
    <3>2. m \in ToSet(z)
      BY <1>5, <1>8, <2>1 DEF ToSet
    <3>3. ASSUME NEW i \in 1..k PROVE s[i] \in ToSet(z)
      BY <1>8, <1>9, <2>1 DEF ToSet
    <3>. QED BY <1>2, <2>1, <3>1, <3>2, <3>3 DEF ToSet
  <2>3. \A i \in 1..(k + 1) : i \in 1..k \/ i = k + 1
    OBVIOUS
  <2>4. k + 1 \in 1..(k + 1) /\ \A i \in 1..k : i \in 1..(k + 1)
    OBVIOUS
  <2>. QED BY <1>2, <2>2, <2>3, <2>4
<1>. QED BY <1>6, <1>8, <1>10, <1>11 DEF Ordered

LEMMA FilledOrdered ==
  ASSUME TypeOK
  PROVE  Ordered(Multimap, Len(Content))
<1> DEFINE N == Len(Content)
           T == {n \in Nat : n <= N => Ordered(Filled[n], n)}
<1>1. N \in Nat /\ Filled = [k \in 0..N |-> IF k = 0 THEN <<>> ELSE Insert(Filled[k - 1], Content[k])]
  BY ContentType, FilledValues
<1>2. 0 \in T
  <2>1. Filled[0] = <<>>
    BY <1>1
  <2>2. <<>> \in Seq(Held) /\ Len(<<>>) = 0
    BY EmptySeq
  <2>3. ToSet(<<>>) = {} /\ {Content[i] : i \in 1..0} = {}
    BY DEF ToSet
  <2>. QED BY <2>1, <2>2, <2>3 DEF Ordered
<1>3. ASSUME NEW n \in T PROVE n + 1 \in T
  <2> SUFFICES ASSUME n + 1 <= N PROVE Ordered(Filled[n + 1], n + 1)
    OBVIOUS
  <2>1. n \in Nat /\ n <= N /\ n + 1 \in 0..N /\ n + 1 # 0 /\ (n + 1) - 1 = n
    BY <1>1
  <2>2. Filled[n + 1] = Insert(Filled[n], Content[n + 1])
    BY <1>1, <2>1
  <2>3. Ordered(Filled[n], n)
    BY <2>1
  <2>. QED BY <2>1, <2>2, <2>3, InsertSorts
<1>4. Nat \subseteq T
  <2> HIDE DEF T
  <2>. QED BY <1>2, <1>3, Counting
<1>5. Ordered(Filled[N], N)
  <2>1. N \in T
    <3> HIDE DEF T
    <3>. QED BY <1>1, <1>4
  <2>2. N <= N
    BY <1>1
  <2>. QED BY <2>1, <2>2
<1>. QED BY <1>5 DEF Multimap

LEMMA SortedIsMultimap == TypeOK => SortedByInsertion
<1> SUFFICES ASSUME TypeOK PROVE Sorted = Multimap
  BY DEF SortedByInsertion
<1> PICK s : s = Multimap
  OBVIOUS
<1> DEFINE N == Len(Content)
<1>1. /\ N \in Nat /\ s \in Seq(Held) /\ Len(s) = N /\ ToSet(s) = Held
      /\ \A i, j \in 1..N : i < j => Before(s[i], s[j])
  <2>1. Ordered(s, N)
    BY FilledOrdered
  <2>2. {Content[i] : i \in 1..N} = Held
    BY ContentType DEF Held, ToSet
  <2>. QED BY <2>1, <2>2, ContentType DEF Ordered
<1>2. DOMAIN s = 1..N /\ (\A i \in 1..N : s[i] \in Held) /\ \A x \in Held : \E i \in 1..N : x = s[i]
  <2>1. DOMAIN s = 1..N
    BY <1>1, LenProperties
  <2>. QED BY <1>1, <2>1 DEF ToSet
<1>3. \A i, j \in 1..N : i < j <=> Before(s[i], s[j])
  <2> SUFFICES ASSUME NEW i \in 1..N, NEW j \in 1..N, Before(s[i], s[j]), ~(i < j) PROVE FALSE
    BY <1>1
  <2>1. i = j \/ j < i
    OBVIOUS
  <2>2. Before(s[j], s[i]) \/ s[j] = s[i]
    BY <1>1, <2>1
  <2>. QED BY <1>2, <2>2, BeforeOrders
<1>4. ASSUME NEW k \in 1..N PROVE Cardinality(Ahead(s[k])) = k - 1
  <2> DEFINE f == [i \in 1..(k - 1) |-> s[i]]
  <2>1. k - 1 \in Nat /\ \A i \in 1..(k - 1) : i \in 1..N /\ i < k
    BY <1>1
  <2>2. Ahead(s[k]) = {x \in Held : Before(x, s[k])}
    BY DEF Ahead, Held
  <2>3. \A i \in 1..(k - 1) : f[i] \in Ahead(s[k])
    BY <1>2, <1>3, <2>1, <2>2
  <2>4. \A x \in Ahead(s[k]) : \E i \in 1..(k - 1) : f[i] = x
    <3> SUFFICES ASSUME NEW x \in Held, Before(x, s[k]) PROVE \E i \in 1..(k - 1) : f[i] = x
      BY <2>2
    <3>1. PICK i \in 1..N : x = s[i]
      BY <1>2
    <3>2. i < k
      BY <1>3, <3>1
    <3>3. i \in 1..(k - 1)
      BY <1>1, <3>2
    <3>. QED BY <3>1, <3>3
  <2>5. \A i, j \in 1..(k - 1) : f[i] = f[j] => i = j
    <3> SUFFICES ASSUME NEW i \in 1..(k - 1), NEW j \in 1..(k - 1), s[i] = s[j], i < j PROVE FALSE
      <4>1. \A i, j \in 1..(k - 1) : i < j \/ j < i \/ i = j
        OBVIOUS
      <4>. QED BY <4>1
    <3>1. Before(s[i], s[j]) /\ s[i] \in Held
      BY <1>2, <1>3, <2>1
    <3>. QED BY <3>1, BeforeOrders
  <2>6. f \in [1..(k - 1) -> Ahead(s[k])]
    BY <2>3
  <2>7. f \in Bijection(1..(k - 1), Ahead(s[k]))
    <3> HIDE DEF f
    <3>. QED BY <2>4, <2>5, <2>6, Fun_IsBij
  <2>8. IsFiniteSet(1..(k - 1)) /\ Cardinality(1..(k - 1)) = k - 1
    BY <2>1, FS_Interval
  <2>. QED BY <2>7, <2>8, FS_Bijection DEF ExistsBijection
<1>5. Sorted \in Seq(Mails) /\ Len(Sorted) = N
  BY SortedLists
<1>6. \A k \in 1..N : Sorted[k] = s[k]
  BY <1>2, <1>4, SortedLists
<1>. QED BY <1>1, <1>5, <1>6, SeqEqual

(* LIST numbers the mails as the multimap does that getMessageList and
   getMessageAtIndex fill from the directory, whatever the directory holds. *)
THEOREM OrderIsMultimaps == Spec => []SortedByInsertion
BY SortedIsMultimap, TypeCorrect, PTL
=============================================================================
