------------------------------ MODULE Mailbox ------------------------------
(* One mailbox as the clients of its owner see it: LIST answers the mails in
   the order of their files' modification times, and READ and DEL name a mail by
   its place in that order, as it is when they are served.  The order is that of
   a multimap filled by a walk of the directory: files of one second stay as the
   directory has them, and where a new file appears there is up to it.

   Each operation is one step here, since it holds the mailbox's mutex; MailSpool
   shows when that fails.  The times are seconds of the server's clock. *)
EXTENDS Integers, SequencesExt

CONSTANTS Clients,   \* connections of the owner, logged in
          Mails,     \* mails that may arrive
          MaxTime,   \* bound: seconds
          MaxAsks,   \* bound: requests of a client
          None

ASSUME MailboxAssumption ==
  None \notin Mails /\ None \notin Seq(Mails) /\ MaxTime \in Nat /\ MaxAsks \in Nat

VARIABLES
  clock,   \* the server's clock
  dir,     \* the mailbox's directory: a sequence of mails; None before the first
  time,    \* [Mails -> modification time of its file]
  gone,    \* mails deleted
  cpc,     \* [Clients -> "menu", "asked", "answered"]
  asks,    \* [Clients -> requests it made]
  op,      \* [Clients -> "LIST", "READ" or "DEL", the last request]
  index,   \* [Clients -> the message number of that request]
  answer,  \* [Clients -> the list, or the mail in a list; None is ERR]
  shown,   \* [Clients -> the list on its screen]
  moved    \* history: [Clients -> may its list be out of date?]

box     == <<dir, time, gone>>
request == <<asks, op, index>>
vars    == <<clock, box, cpc, request, answer, shown, moved>>

Content == IF dir = None THEN <<>> ELSE dir
Arrived == ToSet(Content) \cup gone

Insert_Before(files, m) ==               \* mutant: newest first
  InsertAt(files, 1 + Cardinality({i \in DOMAIN files : time[files[i]] > time[m]}), m)

(* multimap::insert puts a file behind those of the same time. *)
Insert(files, m) ==
  InsertAt(files, 1 + Cardinality({i \in DOMAIN files : time[files[i]] <= time[m]}), m)

Filled[k \in 0..Len(Content)] == IF k = 0 THEN <<>> ELSE Insert(Filled[k - 1], Content[k])
Multimap == Filled[Len(Content)]

(* What that comes to: who is in front of whom, and the list this makes. *)
Precedes(m, n) == \E i, j \in DOMAIN Content : i < j /\ Content[i] = m /\ Content[j] = n

Before_Newest(m, n) ==                   \* mutant: newest first
  time[m] > time[n] \/ (time[m] = time[n] /\ Precedes(m, n))
Before(m, n) == time[m] < time[n] \/ (time[m] = time[n] /\ Precedes(m, n))

Ahead(m) == {n \in ToSet(Content) : Before(n, m)}
Sorted   == [k \in 1..Len(Content) |->
               CHOOSE m \in ToSet(Content) : Cardinality(Ahead(m)) = k - 1]

Init ==
  /\ clock = 0 /\ dir = None /\ time = [m \in Mails |-> 0] /\ gone = {}
  /\ cpc = [c \in Clients |-> "menu"] /\ asks = [c \in Clients |-> 0]
  /\ op = [c \in Clients |-> "LIST"] /\ index = [c \in Clients |-> 0]
  /\ answer = [c \in Clients |-> None] /\ shown = [c \in Clients |-> <<>>]
  /\ moved = [c \in Clients |-> FALSE]

-----------------------------------------------------------------------------
(* The clock goes on, or is set back. *)
Tick ==
  /\ \E t \in 0..MaxTime : t # clock /\ t <= clock + 1 /\ clock' = t
  /\ UNCHANGED <<box, cpc, request, answer, shown, moved>>

(* The list a client has, or is about to get. *)
Known(c) == IF cpc[c] = "answered" /\ op[c] = "LIST" /\ answer[c] # None THEN answer[c] ELSE shown[c]

(* persistSendMessage.  A mail that is not younger than all in a list may take
   a place before them. *)
Deliver(m) ==
  /\ m \notin Arrived
  /\ \E k \in 1..(Len(Content) + 1) : dir' = InsertAt(Content, k, m)
  /\ time' = [time EXCEPT ![m] = clock]
  /\ moved' = [c \in Clients |-> \/ moved[c]
                                 \/ \E n \in ToSet(Known(c)) : clock <= time[n]]
  /\ UNCHANGED <<clock, gone, cpc, request, answer, shown>>

(* presentMainMenu *)
Ask(c) ==
  /\ cpc[c] = "menu" /\ asks[c] < MaxAsks
  /\ cpc' = [cpc EXCEPT ![c] = "asked"] /\ asks' = [asks EXCEPT ![c] = @ + 1]
  /\ \/ op' = [op EXCEPT ![c] = "LIST"] /\ UNCHANGED index
     \/ \E o \in {"READ", "DEL"}, n \in DOMAIN shown[c] :
          op' = [op EXCEPT ![c] = o] /\ index' = [index EXCEPT ![c] = n - 1]
  /\ UNCHANGED <<clock, box, answer, shown, moved>>

Reply(c, a) ==
  /\ cpc[c] = "asked" /\ cpc' = [cpc EXCEPT ![c] = "answered"]
  /\ answer' = [answer EXCEPT ![c] = a]
  /\ UNCHANGED <<clock, time, request, shown>>

(* getMessageList *)
List(c) ==
  /\ op[c] = "LIST"
  /\ Reply(c, IF dir = None THEN None ELSE Sorted)
  /\ moved' = [moved EXCEPT ![c] = IF dir = None THEN @ ELSE FALSE]
  /\ UNCHANGED <<dir, gone>>

(* getMessageAtIndex *)
AtIndex(n) == IF n + 1 \in DOMAIN Sorted THEN <<Sorted[n + 1]>> ELSE None

Read(c) ==
  /\ op[c] = "READ" /\ Reply(c, AtIndex(index[c]))
  /\ UNCHANGED <<dir, gone, moved>>

Without_None(m) == dir                   \* mutant: the file stays
Without(m) == RemoveAt(dir, CHOOSE i \in DOMAIN dir : dir[i] = m)

(* removeFile *)
Delete(c) ==
  /\ op[c] = "DEL"
  /\ LET a == AtIndex(index[c]) IN
       /\ Reply(c, a)
       /\ \/ a = None /\ UNCHANGED <<dir, gone, moved>>
          \/ /\ a # None
             /\ dir' = Without(a[1]) /\ gone' = gone \cup {a[1]}
             /\ moved' = [d \in Clients |-> moved[d] \/ (d # c /\ a[1] \in ToSet(Known(d)))]

(* didReceiveResponse; a failed LIST shows an empty list.  After its own DEL a
   client's list is out of date. *)
Hear(c) ==
  /\ cpc[c] = "answered" /\ cpc' = [cpc EXCEPT ![c] = "menu"]
  /\ shown' = [shown EXCEPT ![c] = IF op[c] # "LIST" THEN @
                                   ELSE IF answer[c] = None THEN <<>> ELSE answer[c]]
  /\ answer' = [answer EXCEPT ![c] = None]
  /\ moved' = [moved EXCEPT ![c] = @ \/ op[c] = "DEL"]
  /\ UNCHANGED <<clock, box, request>>

Next == \/ Tick \/ \E m \in Mails : Deliver(m)
        \/ \E c \in Clients : Ask(c) \/ List(c) \/ Read(c) \/ Delete(c) \/ Hear(c)

Spec == Init /\ [][Next]_vars

-----------------------------------------------------------------------------
(* The variables have their types; a mail is in the directory once, or gone. *)
TypeOK ==
  /\ clock \in 0..MaxTime /\ dir \in Seq(Mails) \cup {None} /\ gone \subseteq Mails
  /\ time \in [Mails -> 0..MaxTime] /\ cpc \in [Clients -> {"menu", "asked", "answered"}]
  /\ asks \in [Clients -> 0..MaxAsks] /\ op \in [Clients -> {"LIST", "READ", "DEL"}]
  /\ index \in [Clients -> Nat] /\ answer \in [Clients -> Seq(Mails) \cup {None}]
  /\ shown \in [Clients -> Seq(Mails)] /\ moved \in [Clients -> BOOLEAN]
  /\ IsInjective(Content) /\ ToSet(Content) \cap gone = {}

(* The list is what the multimap would hold. *)
SortedByInsertion == Sorted = Multimap

(* READ shows and DEL deletes the mail the user meant, the one its list had at
   that number, whatever was delivered and deleted since, as long as no mail of
   the list was deleted and none arrived that is not younger than all of them. *)
MeantUnlessMoved ==
  \A c \in Clients :
    cpc[c] = "answered" /\ op[c] # "LIST" /\ ~moved[c] =>
      answer[c] = <<shown[c][index[c] + 1]>>
=============================================================================
