-------------------------- MODULE MailSpoolProofs --------------------------
(* What holds of the mail spool for any number of threads, users, mails, names
   and requests: the types, and the exclusion the named mutexes give as long as
   none is unlinked while it is in use. *)
EXTENDS MailSpool, TLAPS

(* A request names a sequence of users. *)
LEMMA RequestBoxes ==
  ASSUME NEW r \in Requests
  PROVE  /\ r.boxes \in Seq(Users)
         /\ r.op \in {"SEND", "LIST", "READ", "DEL"}
         /\ r.op = "SEND" => r.msg \in Messages
         /\ r.op # "SEND" => r.msg = None /\ Len(r.boxes) = 1
<1>1. \/ r.boxes \in UNION {[1..n -> Users] : n \in 0..MaxReceivers}
      \/ r.boxes \in [1..1 -> Users]
  BY DEF Requests
<1>2. PICK n \in Nat : r.boxes \in [1..n -> Users]
  <2>1. CASE r.boxes \in UNION {[1..n -> Users] : n \in 0..MaxReceivers}
    <3>1. PICK n \in 0..MaxReceivers : r.boxes \in [1..n -> Users]
      BY <2>1
    <3> QED BY <3>1, SpoolAssumption
  <2>2. CASE r.boxes \in [1..1 -> Users]
    BY <2>2
  <2> QED BY <1>1, <2>1, <2>2
<1>3. r.boxes \in Seq(Users)
  BY <1>2
<1>4. /\ r.op \in ({"SEND"} \cap Ops) \cup (Ops \ {"SEND"})
      /\ r.op = "SEND" => r.msg \in Messages
      /\ r.op # "SEND" => r.msg = None /\ r.boxes \in [1..1 -> Users]
  BY DEF Requests
<1> QED BY <1>3, <1>4, SpoolAssumption

(* A thread under way works on the mailbox of a user. *)
LEMMA BoxIsUser ==
  ASSUME TypeOK, NEW t \in Threads, pc[t] \notin {"idle", "answer"}
  PROVE  /\ req[t] \in Requests
         /\ Box(t) \in Users
<1>1. req[t] \in Requests
  BY DEF TypeOK, ThreadOK
<1>2. at[t] \in 1..Len(req[t].boxes)
  BY <1>1, RequestBoxes DEF TypeOK, ThreadOK
<1> QED BY <1>1, <1>2, RequestBoxes DEF Box

LEMMA InitTypeOK == Init => TypeOK
BY DEF Init, TypeOK, ThreadOK, Locations, Opened, Inside, NoNames

-----------------------------------------------------------------------------
(* A failing operation goes to its handler. *)
LEMMA ThrowTypeOK ==
  ASSUME TypeOK, NEW t \in Threads, pc[t] \in Inside, NEW o \in {"ERR", "ABORT"}, Throw(t, o)
  PROVE  TypeOK'
BY DEF Throw, Go, TypeOK, ThreadOK, request, cursor, mutex, disk, mails, bounds, Locations, Opened, Inside

LEMMA ReceiveTypeOK ==
  ASSUME TypeOK, NEW t \in Threads, Receive(t)
  PROVE  TypeOK'
<1>1. PICK r \in Requests : /\ req' = [req EXCEPT ![t] = r]
                            /\ sent' = sent \cup ({r.msg} \cap Messages)
                            /\ Go(t, IF r.boxes = <<>> THEN "answer" ELSE "open")
  BY DEF Receive
<1>2. r.boxes # <<>> => 1 <= Len(r.boxes)
  BY RequestBoxes
<1> QED BY <1>1, <1>2, SpoolAssumption DEF Receive, Go, TypeOK, ThreadOK, cursor, mutex, disk, mails, Locations, Opened,
                         Inside

LEMMA OpenTypeOK ==
  ASSUME TypeOK, NEW t \in Threads, Open(t)
  PROVE  TypeOK'
<1>1. Box(t) \in Users
  BY BoxIsUser DEF Open
<1>2. PICK m \in Mutexes : handle' = [handle EXCEPT ![t] = m]
  BY <1>1 DEF Open, TypeOK, ThreadOK, Unused
<1>3. /\ names' \in [Users -> Mutexes \cup {None}]
      /\ owner' \in [Mutexes -> Threads \cup {None, Dead}]
  <2>1. CASE UNCHANGED <<names, owner>>
    BY <2>1 DEF TypeOK, ThreadOK
  <2>2. CASE \E x \in Unused : /\ names' = [names EXCEPT ![Box(t)] = x]
                               /\ owner' = [owner EXCEPT ![x] = None]
    BY <1>1, <2>2 DEF TypeOK, ThreadOK, Unused
  <2> QED BY <2>1, <2>2 DEF Open
<1> QED BY <1>2, <1>3, SpoolAssumption
        DEF Open, Go, TypeOK, ThreadOK, request, cursor, disk, mails, bounds, Locations, Opened, Inside

LEMMA OpenFailsTypeOK ==
  ASSUME TypeOK, NEW t \in Threads, OpenFails(t)
  PROVE  TypeOK'
BY DEF OpenFails, Go, TypeOK, ThreadOK, request, cursor, mutex, disk, mails, bounds, Locations,
       Opened, Inside

LEMMA LockTypeOK ==
  ASSUME TypeOK, NEW t \in Threads, Lock(t)
  PROVE  TypeOK'
<1>1. handle[t] \in Mutexes
  BY DEF Lock, TypeOK, ThreadOK, Opened
<1> QED BY <1>1 DEF Lock, Go, TypeOK, ThreadOK, request, cursor, disk, mails, bounds, Locations, Opened,
                   Inside

LEMMA AccessTypeOK ==
  ASSUME TypeOK, NEW t \in Threads, Access(t)
  PROVE  TypeOK'
<1>1. PICK i \in Ids : /\ file' = [file EXCEPT ![t] = i]
                       /\ drawn' = drawn \cup {i}
  BY DEF Access
<1> QED BY <1>1 DEF Access, Go, TypeOK, ThreadOK, request, mutex, disk, mails, Locations, Opened, Inside

LEMMA MkDirTypeOK ==
  ASSUME TypeOK, NEW t \in Threads, MkDir(t)
  PROVE  TypeOK'
<1>1. CASE Throw(t, "ERR")
  BY <1>1, ThrowTypeOK DEF MkDir, Inside
<1>2. CASE ~Throw(t, "ERR")
  <2>1. Box(t) \in Users
    BY BoxIsUser DEF MkDir
  <2>2. /\ pc[t] = "mkdir" /\ pc' = [pc EXCEPT ![t] = "create"]
        /\ dirs' = dirs \cup {Box(t)}
        /\ UNCHANGED <<outcome, request, cursor, mutex, entries, stored, partial, mails,
                       bounds, tainted>>
    BY <1>2 DEF MkDir, Go
  <2>3. \A s \in Threads : ThreadOK(s)'
    BY <2>2 DEF TypeOK, ThreadOK, request, cursor, mutex, Opened, Inside
  <2> QED BY <2>1, <2>2, <2>3 DEF TypeOK, request, cursor, mutex, mails, bounds, Locations,
                                 Opened, Inside
<1> QED BY <1>1, <1>2

(* Removing a file's content leaves a part of what was there. *)
LEMMA WithoutSubset ==
  ASSUME NEW S, NEW u, NEW i
  PROVE  Without(S, u, i) \subseteq S
BY DEF Without

LEMMA CreateTypeOK ==
  ASSUME TypeOK, NEW t \in Threads, Create(t)
  PROVE  TypeOK'
<1>1. <<Box(t), file[t]>> \in Users \X Ids
  BY BoxIsUser DEF Create, TypeOK, ThreadOK
<1>2. entries' \subseteq Users \X Ids
  BY <1>1 DEF Create, TypeOK, ThreadOK
<1>3. stored' \subseteq stored /\ partial' \subseteq partial
  BY WithoutSubset DEF Create
<1> QED BY <1>2, <1>3 DEF Create, Go, TypeOK, ThreadOK, request, cursor, mutex, mails, bounds, Locations,
                         Opened, Inside

(* Cutting files off leaves a part of what was stored. *)
LEMMA CutOffSubset ==
  ASSUME NEW files, CutOff(files)
  PROVE  stored' \subseteq stored /\ partial' = partial \cup files
BY DEF CutOff

LEMMA WriteTypeOK ==
  ASSUME TypeOK, NEW t \in Threads, Write(t)
  PROVE  TypeOK'
<1> DEFINE f == <<Box(t), file[t], req[t].msg>>
<1>1. Box(t) \in Users /\ file[t] \in Ids /\ req[t].msg \in Messages
  BY BoxIsUser, RequestBoxes DEF Write, TypeOK, ThreadOK
<1>2. Without(stored, Box(t), file[t]) \subseteq stored
  BY WithoutSubset
<1>3. Without(partial, Box(t), file[t]) \subseteq partial
  BY WithoutSubset
<1>4. /\ stored' \subseteq stored \cup {f}
      /\ delivered' \subseteq delivered \cup {f}
      /\ lost' \subseteq lost \cup {f}
  BY <1>2, CutOffSubset DEF Write
<1>5. partial' \subseteq Users \X Ids
  <2>1. partial' \subseteq partial \cup entries
    BY <1>3, CutOffSubset DEF Write
  <2> QED BY <2>1 DEF TypeOK
<1>6. stored' \cup delivered' \cup lost' \subseteq Users \X Ids \X Messages
  BY <1>1, <1>4 DEF TypeOK, ThreadOK
<1>7. /\ pc[t] = "write"
      /\ outcome' \in [Threads -> {"OK", "ERR", "ABORT"}]
      /\ \E l \in {"unlock", "unwind"} : pc' = [pc EXCEPT ![t] = l]
      /\ UNCHANGED <<request, cursor, mutex, dirs, entries, deleted, bounds, tainted>>
  BY DEF Write, Go, TypeOK
<1>8. \A s \in Threads : ThreadOK(s)'
  BY <1>7 DEF TypeOK, ThreadOK, request, cursor, mutex, Opened, Inside
<1> QED BY <1>5, <1>6, <1>7, <1>8
        DEF TypeOK, request, cursor, mutex, bounds, Locations, Opened, Inside

LEMMA EnterTypeOK ==
  ASSUME TypeOK, NEW t \in Threads, Enter(t)
  PROVE  TypeOK'
<1>1. CASE Throw(t, "ERR")
  BY <1>1, ThrowTypeOK DEF Enter, Inside
<1>2. CASE ~Throw(t, "ERR")
  <2>1. Listed(Box(t)) \subseteq Ids
    BY DEF Listed
  <2>2. /\ pc[t] = "enter"
        /\ scan' = [scan EXCEPT ![t] = Listed(Box(t))]
        /\ pc' = [pc EXCEPT ![t] = "visit"]
        /\ UNCHANGED <<outcome, request, file, seen, mutex, disk, mails, bounds, tainted>>
    BY <1>2 DEF Enter, Go
  <2>3. \A s \in Threads : ThreadOK(s)'
    BY <2>2 DEF TypeOK, ThreadOK, request, mutex, Opened, Inside
  <2> QED BY <2>1, <2>2, <2>3 DEF TypeOK, request, mutex, disk, mails, bounds,
                           Locations, Opened, Inside
<1> QED BY <1>1, <1>2

LEMMA SkipTypeOK ==
  ASSUME TypeOK, NEW t \in Threads, NEW i, Skip(t, i)
  PROVE  TypeOK'
BY DEF Skip, TypeOK, ThreadOK, request, mutex, disk, mails, bounds

LEMMA SeenTypeOK ==
  ASSUME TypeOK, NEW t \in Threads, pc[t] \in Inside \ {"unwind"}, NEW i \in Ids, Seen(t, i)
  PROVE  TypeOK'
BY DEF Seen, Go, TypeOK, ThreadOK, request, mutex, disk, mails, bounds, Locations, Opened, Inside

LEMMA InflateTypeOK ==
  ASSUME TypeOK, NEW t \in Threads, pc[t] \in Inside, NEW i \in Ids,
         NEW l \in {"stat", "unlock"}, Inflate(t, i, l)
  PROVE  TypeOK'
<1>1. CASE \E o \in {"ERR", "ABORT"} : Throw(t, o)
  BY <1>1, ThrowTypeOK
<1>2. CASE Whole(Box(t), i)
  <2>1. /\ pc' = [pc EXCEPT ![t] = l]
        /\ file' = [file EXCEPT ![t] = i]
        /\ UNCHANGED <<outcome, request, scan, seen, mutex, disk, mails, bounds, tainted>>
    BY <1>2 DEF Inflate, Go
  <2>2. \A s \in Threads : ThreadOK(s)'
    BY <2>1 DEF TypeOK, ThreadOK, request, mutex, Opened, Inside
  <2> QED BY <2>1, <2>2 DEF TypeOK, request, mutex, disk, mails, bounds, Locations, Opened, Inside
<1> QED BY <1>1, <1>2 DEF Inflate

(* The directory walk stays within the names files can have. *)
LEMMA VisitTypeOK ==
  ASSUME TypeOK, NEW t \in Threads, ListVisit(t) \/ ListStat(t) \/ IndexVisit(t) \/ ScanDone(t)
  PROVE  TypeOK'
<1>1. Returned(t) \subseteq Ids
  BY DEF Returned, Listed, TypeOK, ThreadOK
<1>2. CASE ListVisit(t)
  BY <1>1, <1>2, InflateTypeOK, SkipTypeOK DEF ListVisit, Inside
<1>3. CASE ListStat(t)
  <2>1. file[t] \in Ids
    BY <1>3 DEF ListStat, TypeOK, ThreadOK
  <2> QED BY <1>3, <2>1, SeenTypeOK, ThrowTypeOK DEF ListStat, Inside
<1>4. CASE IndexVisit(t)
  BY <1>1, <1>4, SeenTypeOK, SkipTypeOK, ThrowTypeOK DEF IndexVisit, Inside
<1>5. CASE ScanDone(t)
  BY <1>5 DEF ScanDone, Go, TypeOK, ThreadOK, request, cursor, mutex, disk, mails, bounds, Locations,
              Opened, Inside
<1> QED BY <1>2, <1>3, <1>4, <1>5

(* READ and DEL pick a file; READ loads it, DEL removes it. *)
LEMMA PickTypeOK ==
  ASSUME TypeOK, NEW t \in Threads, Pick(t) \/ Load(t) \/ Remove(t)
  PROVE  TypeOK'
<1>1. CASE \E o \in {"ERR", "ABORT"} : Throw(t, o) /\ pc[t] \in Inside
  BY <1>1, ThrowTypeOK
<1>2. CASE Pick(t) /\ ~Throw(t, "ERR")
  <2>1. PICK i \in Ids : file' = [file EXCEPT ![t] = i]
    BY <1>2 DEF Pick, Listed
  <2>2. /\ pc[t] = "pick"
        /\ \E l \in {"load", "remove"} : pc' = [pc EXCEPT ![t] = l]
        /\ UNCHANGED <<outcome, request, scan, seen, mutex, disk, mails, bounds, tainted>>
    BY <1>2 DEF Pick, Go
  <2>3. \A s \in Threads : ThreadOK(s)'
    BY <2>1, <2>2 DEF TypeOK, ThreadOK, request, mutex, Opened, Inside
  <2> QED BY <2>1, <2>2, <2>3 DEF TypeOK, request, mutex, disk, mails, bounds, Locations,
                                 Opened, Inside
<1>3. CASE Load(t)
  BY <1>3, InflateTypeOK DEF Load, TypeOK, ThreadOK, Inside
<1>4. CASE Remove(t) /\ ~Throw(t, "ERR")
  <2>1. <<Box(t), file[t]>> \in Users \X Ids
    BY <1>4, BoxIsUser DEF Remove, TypeOK, ThreadOK
  <2>2. entries' \subseteq entries /\ stored' \subseteq stored /\ partial' \subseteq partial
    BY <1>4, WithoutSubset DEF Remove
  <2>3. /\ pc[t] = "remove" /\ pc' = [pc EXCEPT ![t] = "unlock"]
        /\ deleted' = deleted \cup {<<Box(t), file[t]>>}
        /\ UNCHANGED <<outcome, request, cursor, mutex, dirs, delivered, lost, bounds, tainted>>
    BY <1>4 DEF Remove, Go
  <2>4. \A s \in Threads : ThreadOK(s)'
    BY <2>3 DEF TypeOK, ThreadOK, request, cursor, mutex, Opened, Inside
  <2> QED BY <2>1, <2>2, <2>3, <2>4 DEF TypeOK, request, cursor, mutex, bounds, Locations,
                                       Opened, Inside
<1> QED BY <1>1, <1>2, <1>3, <1>4 DEF Pick, Remove, Inside

LEMMA CallFailsTypeOK ==
  ASSUME TypeOK, NEW t \in Threads, CallFails(t)
  PROVE  TypeOK'
BY ThrowTypeOK DEF CallFails, Inside

(* The end of an operation: the mutex is closed, the cursor forgotten. *)
LEMMA LeaveTypeOK ==
  ASSUME TypeOK, NEW t \in Threads, Unlock(t) \/ Unwind(t)
  PROVE  TypeOK'
<1>1. pc[t] \in Inside /\ handle[t] \in Mutexes
  BY DEF Unlock, Unwind, TypeOK, ThreadOK, Opened, Inside
<1>2. /\ owner' = [owner EXCEPT ![handle[t]] = None]
      /\ handle' = [handle EXCEPT ![t] = None]
      /\ file' = [file EXCEPT ![t] = None]
      /\ scan' = [scan EXCEPT ![t] = {}] /\ seen' = [seen EXCEPT ![t] = {}]
      /\ tainted' \subseteq tainted
      /\ UNCHANGED <<req, issued, outcome, names, disk, mails, bounds>>
  BY DEF Unlock, Unwind, Release, Unowned
<1>3. \/ /\ at[t] < Len(req[t].boxes)
         /\ pc' = [pc EXCEPT ![t] = "open"] /\ at' = [at EXCEPT ![t] = @ + 1]
      \/ /\ pc' = [pc EXCEPT ![t] = "answer"] /\ UNCHANGED at
      \/ /\ pc' = [pc EXCEPT ![t] = "unlink"] /\ UNCHANGED at
  BY DEF Unlock, Unwind, More, Go
<1>4. Len(req[t].boxes) \in Nat
  BY <1>1, BoxIsUser, RequestBoxes DEF Inside
<1>5. /\ pc' \in [Threads -> Locations] /\ at' \in [Threads -> Nat \ {0}]
  <2>1. pc \in [Threads -> Locations] /\ at \in [Threads -> Nat \ {0}]
    BY DEF TypeOK
  <2>2. {"open", "answer", "unlink"} \subseteq Locations
    BY DEF Locations
  <2>3. pc' \in [Threads -> Locations]
    BY <1>3, <2>1, <2>2
  <2>4. at' \in [Threads -> Nat \ {0}]
    BY <1>3, <2>1
  <2> QED BY <2>3, <2>4
<1>6. \A s \in Threads : ThreadOK(s)'
  BY <1>1, <1>2, <1>3, <1>4 DEF TypeOK, ThreadOK, Opened, Inside
<1> QED BY <1>1, <1>2, <1>5, <1>6 DEF TypeOK, disk, mails, bounds

LEMMA AnswerTypeOK ==
  ASSUME TypeOK, NEW t \in Threads, Unlink(t) \/ Answer(t)
  PROVE  TypeOK'
<1>1. CASE Unlink(t)
  <2>1. Box(t) \in Users
    BY <1>1, BoxIsUser DEF Unlink
  <2>2. \A s \in Threads : ThreadOK(s)'
    BY <1>1 DEF Unlink, Go, TypeOK, ThreadOK, request, cursor, Opened, Inside
  <2> QED BY <1>1, <2>1, <2>2 DEF Unlink, Go, TypeOK, request, cursor, disk, mails, bounds,
                                 Locations
<1>2. CASE Answer(t)
  <2>1. \A s \in Threads : ThreadOK(s)'
    BY <1>2, SpoolAssumption DEF Answer, Go, TypeOK, ThreadOK, cursor, mutex, Opened, Inside
  <2> QED BY <1>2, <2>1 DEF Answer, Go, TypeOK, cursor, mutex, disk, mails, bounds, Locations
<1> QED BY <1>1, <1>2

(* The process ends, by an exception or from outside. *)
LEMMA DiesTypeOK ==
  ASSUME TypeOK, ProcessDies, names' \in {names, NoNames}, crashes' \in Nat
  PROVE  TypeOK'
<1>1. stored' \subseteq stored /\ partial' \subseteq partial \cup entries
  BY CutOffSubset DEF ProcessDies
<1>2. \A t \in Threads : ThreadOK(t)'
  BY DEF ProcessDies, ThreadOK, Opened, Inside
<1>3. /\ stored' \subseteq Users \X Ids \X Messages /\ partial' \subseteq Users \X Ids
      /\ UNCHANGED <<issued, dirs, entries, mails, drawn, sent>>
  BY <1>1 DEF TypeOK, ProcessDies
<1>4. /\ pc' = [t \in Threads |-> "idle"] /\ req' = [t \in Threads |-> None]
      /\ at' = [t \in Threads |-> 1] /\ file' = [t \in Threads |-> None]
      /\ scan' = [t \in Threads |-> {}] /\ seen' = [t \in Threads |-> {}]
      /\ outcome' = [t \in Threads |-> "OK"] /\ handle' = [t \in Threads |-> None]
      /\ owner' = [m \in Mutexes |-> IF owner[m] = None THEN None ELSE Dead]
      /\ tainted' = {} /\ names' \in [Users -> Mutexes \cup {None}]
  BY DEF ProcessDies, NoNames, TypeOK
<1> QED BY <1>2, <1>3, <1>4 DEF TypeOK, mails, Locations

LEMMA StutterTypeOK ==
  ASSUME TypeOK, UNCHANGED vars
  PROVE  TypeOK'
BY DEF vars, request, cursor, mutex, disk, mails, bounds, TypeOK, ThreadOK

-----------------------------------------------------------------------------
(* Whatever its clients ask for and however it fails, the spool keeps its state
   within the types, and a thread under way has a receiver in range. *)
THEOREM TypeCorrect == Spec => []TypeOK
<1>1. TypeOK /\ [Next]_vars => TypeOK'
  <2> SUFFICES ASSUME TypeOK, [Next]_vars PROVE TypeOK'
    OBVIOUS
  <2>1. ASSUME NEW t \in Threads, Receive(t) PROVE TypeOK'
    BY <2>1, ReceiveTypeOK
  <2>2. ASSUME NEW t \in Threads, Serve(t) PROVE TypeOK'
    <3>1. CASE Abort(t)
      BY <3>1, DiesTypeOK DEF Abort, TypeOK
    <3> QED BY <2>2, <3>1, OpenTypeOK, OpenFailsTypeOK, LockTypeOK, AccessTypeOK, MkDirTypeOK, CreateTypeOK,
               WriteTypeOK, EnterTypeOK, VisitTypeOK, PickTypeOK, CallFailsTypeOK,
               LeaveTypeOK, AnswerTypeOK DEF Serve
  <2>3. CASE Crash
    BY <2>3, DiesTypeOK DEF Crash, TypeOK
  <2> QED BY <2>1, <2>2, <2>3, StutterTypeOK DEF Next
<1> QED BY <1>1, InitTypeOK, PTL DEF Spec

-----------------------------------------------------------------------------
(* Why the mutexes exclude: whoever is inside owns the object it has open, and
   in an untainted mailbox every opener has open the one object the name
   denotes, so that two insiders would own the same object.  The second part is
   what an unlinking breaks, and what Unlink's taint records. *)
InsideOwns == \A t \in Threads : pc[t] \in Inside => owner[handle[t]] = t

OpenersShare ==
  \A t \in Threads : pc[t] \in Opened /\ Box(t) \notin tainted => handle[t] = names[Box(t)]

ExclusionInv == TypeOK /\ InsideOwns /\ OpenersShare

LEMMA ExclusionInvExcludes == ExclusionInv => ExclusiveUnlessTainted
BY DEF ExclusionInv, InsideOwns, OpenersShare, ExclusiveUnlessTainted, Holders, Opened

LEMMA InitExclusionInv == Init => ExclusionInv
BY InitTypeOK DEF ExclusionInv, InsideOwns, OpenersShare, Init, Opened, Inside

(* A step inside a mailbox that leaves the mutexes and the requests alone. *)
LEMMA InsideStep ==
  ASSUME ExclusionInv, TypeOK', NEW t \in Threads, pc[t] \in Inside,
         NEW l \in Inside, pc' = [pc EXCEPT ![t] = l],
         UNCHANGED <<request, mutex, tainted>>
  PROVE  ExclusionInv'
<1>1. \A s \in Threads : /\ Box(s)' = Box(s)
                         /\ pc'[s] \in Inside <=> pc[s] \in Inside
                         /\ pc'[s] \in Opened <=> pc[s] \in Opened
  BY DEF Box, request, ExclusionInv, TypeOK, Opened
<1> QED BY <1>1 DEF ExclusionInv, InsideOwns, OpenersShare, mutex

(* The steps of Serve that neither enter, leave nor unlink. *)
Works(t) ==
  \/ Access(t) \/ MkDir(t) \/ Create(t) \/ Write(t)
  \/ Enter(t) \/ ListVisit(t) \/ ListStat(t) \/ IndexVisit(t) \/ ScanDone(t)
  \/ Pick(t) \/ Load(t) \/ Remove(t) \/ CallFails(t)

LEMMA WorksInside ==
  ASSUME TypeOK, NEW t \in Threads, Works(t)
  PROVE  /\ pc[t] \in Inside
         /\ \E l \in Inside : pc' = [pc EXCEPT ![t] = l]
         /\ UNCHANGED <<request, mutex, tainted>>
         /\ \A s \in Threads \ {t} : outcome'[s] = outcome[s]
<1> DEFINE Kept == \A s \in Threads \ {t} : outcome'[s] = outcome[s]
<1>1. ASSUME NEW o, Throw(t, o)
      PROVE  /\ \E l \in Inside : pc' = [pc EXCEPT ![t] = l]
             /\ UNCHANGED <<request, mutex, tainted>> /\ Kept
  BY <1>1 DEF Throw, Go, Inside, TypeOK
<1>2. ASSUME NEW i, Skip(t, i)
      PROVE  pc' = [pc EXCEPT ![t] = pc[t]] /\ UNCHANGED <<request, mutex, tainted>> /\ Kept
  BY <1>2 DEF Skip, TypeOK
<1>3. ASSUME NEW i, Seen(t, i)
      PROVE  pc' = [pc EXCEPT ![t] = "visit"] /\ UNCHANGED <<request, mutex, tainted>> /\ Kept
  BY <1>3 DEF Seen, Go
<1>4. ASSUME NEW i, NEW l \in {"stat", "unlock"}, Inflate(t, i, l)
      PROVE  /\ \E k \in Inside : pc' = [pc EXCEPT ![t] = k]
             /\ UNCHANGED <<request, mutex, tainted>> /\ Kept
  BY <1>1, <1>4 DEF Inflate, Go, Inside
<1>5. CASE Access(t) \/ MkDir(t) \/ Create(t) \/ Write(t)
  <2>1. CASE Write(t)
    BY <2>1 DEF Write, Go, Inside, mutex, request, TypeOK
  <2> QED BY <1>1, <1>5, <2>1 DEF Access, MkDir, Create, Go, Inside, mutex, request
<1>6. CASE Enter(t) \/ ListVisit(t) \/ ListStat(t) \/ IndexVisit(t) \/ ScanDone(t)
  BY <1>1, <1>2, <1>3, <1>4, <1>6
     DEF Enter, ListVisit, ListStat, IndexVisit, ScanDone, Go, Inside
<1>7. CASE Pick(t) \/ Load(t) \/ Remove(t) \/ CallFails(t)
  BY <1>1, <1>4, <1>7 DEF Pick, Load, Remove, CallFails, Go, Inside
<1> QED BY <1>5, <1>6, <1>7 DEF Works

LEMMA OpenExclusion ==
  ASSUME ExclusionInv, TypeOK', NEW t \in Threads, Open(t)
  PROVE  ExclusionInv'
<1>1. /\ pc[t] = "open" /\ pc' = [pc EXCEPT ![t] = "lock"]
      /\ UNCHANGED <<req, at, tainted>> /\ Box(t) \in Users
  BY BoxIsUser DEF Open, Go, request, ExclusionInv
<1>2. \A s \in Threads : Box(s)' = Box(s)
  BY <1>1 DEF Box
<1>3. \A s \in Threads \ {t} : pc'[s] = pc[s] /\ handle'[s] = handle[s]
  BY <1>1 DEF Open, ExclusionInv, TypeOK
<1>4. PICK m \in Mutexes :
        /\ handle' = [handle EXCEPT ![t] = m]
        /\ \/ m = names[Box(t)] /\ UNCHANGED <<names, owner>>
           \/ /\ names[Box(t)] = None /\ m \in Unused
              /\ names' = [names EXCEPT ![Box(t)] = m]
              /\ owner' = [owner EXCEPT ![m] = None]
  <2>1. names[Box(t)] \in Mutexes \cup {None}
    BY <1>1 DEF ExclusionInv, TypeOK
  <2> QED BY <2>1 DEF Open, Unused
<1>5. InsideOwns'
  <2>1. ASSUME NEW s \in Threads, pc'[s] \in Inside PROVE owner'[handle'[s]] = s
    <3>1. s # t /\ pc[s] \in Inside
      BY <1>1, <1>3, <2>1 DEF Inside, ExclusionInv, TypeOK
    <3>2. owner[handle[s]] = s /\ handle[s] \in Mutexes
      BY <3>1 DEF ExclusionInv, InsideOwns, TypeOK, ThreadOK, Opened
    <3>3. owner'[handle[s]] = owner[handle[s]]
      BY <1>4, <3>2 DEF Unused, ExclusionInv, TypeOK
    <3> QED BY <1>3, <3>1, <3>2, <3>3
  <2> QED BY <2>1 DEF InsideOwns
<1>6. handle'[t] = m /\ names'[Box(t)] = m
  BY <1>1, <1>4 DEF ExclusionInv, TypeOK
<1>7. ASSUME NEW s \in Threads \ {t}, pc[s] \in Opened, Box(s) \notin tainted
      PROVE  handle[s] = names'[Box(s)]
  <2>1. handle[s] = names[Box(s)] /\ handle[s] # None
    BY <1>7 DEF ExclusionInv, OpenersShare, TypeOK, ThreadOK
  <2>2. names[Box(t)] = None => Box(s) # Box(t)
    BY <2>1
  <2>3. Box(s) \in Users
    BY <1>7, BoxIsUser DEF ExclusionInv, Opened, Inside
  <2> QED BY <1>1, <1>4, <2>1, <2>2, <2>3 DEF ExclusionInv, TypeOK
<1>8. OpenersShare'
  BY <1>1, <1>2, <1>3, <1>6, <1>7 DEF OpenersShare
<1> QED BY <1>5, <1>8 DEF ExclusionInv

LEMMA OpenFailsExclusion ==
  ASSUME ExclusionInv, TypeOK', NEW t \in Threads, OpenFails(t)
  PROVE  ExclusionInv'
<1>1. \A s \in Threads : /\ Box(s)' = Box(s)
                         /\ pc'[s] \in Inside <=> pc[s] \in Inside
                         /\ pc'[s] \in Opened <=> pc[s] \in Opened
  BY DEF OpenFails, Go, Box, request, ExclusionInv, TypeOK, Opened, Inside
<1> QED BY <1>1 DEF OpenFails, ExclusionInv, InsideOwns, OpenersShare, mutex

LEMMA LockExclusion ==
  ASSUME ExclusionInv, TypeOK', NEW t \in Threads, Lock(t)
  PROVE  ExclusionInv'
<1>1. /\ pc[t] = "lock" /\ owner[handle[t]] = None /\ handle[t] \in Mutexes
      /\ owner' = [owner EXCEPT ![handle[t]] = t]
      /\ \E l \in {"access", "enter"} : pc' = [pc EXCEPT ![t] = l]
      /\ UNCHANGED <<req, at, names, handle, tainted>>
  <2>1. pc[t] = "lock"
    BY DEF Lock
  <2>2. handle[t] \in Mutexes
    BY <2>1 DEF ExclusionInv, TypeOK, ThreadOK, Opened
  <2> QED BY <2>1, <2>2 DEF Lock, Free, Go, request
<1>2. \A s \in Threads : /\ Box(s)' = Box(s)
                         /\ pc'[s] \in Opened <=> pc[s] \in Opened
                         /\ s # t => pc'[s] = pc[s]
  BY <1>1 DEF Box, ExclusionInv, TypeOK, Opened, Inside
<1>3. OpenersShare'
  BY <1>1, <1>2 DEF OpenersShare, ExclusionInv
<1>4. InsideOwns'
  BY <1>1, <1>2, SpoolAssumption DEF InsideOwns, ExclusionInv, TypeOK
<1> QED BY <1>3, <1>4 DEF ExclusionInv

LEMMA LeaveExclusion ==
  ASSUME ExclusionInv, TypeOK', NEW t \in Threads, Unlock(t) \/ Unwind(t)
  PROVE  ExclusionInv'
<1>1. /\ pc[t] \in Inside /\ handle[t] \in Mutexes /\ owner[handle[t]] = t
      /\ Box(t) \in Users
  <2>1. pc[t] \in Inside /\ pc[t] \notin {"idle", "answer"}
    BY DEF Unlock, Unwind, Inside
  <2> QED BY <2>1, BoxIsUser DEF ExclusionInv, InsideOwns, TypeOK, ThreadOK, Opened
<1>2. /\ owner' = [owner EXCEPT ![handle[t]] = None]
      /\ handle' = [handle EXCEPT ![t] = None]
      /\ tainted' = IF Openers(Box(t)) \subseteq {t} THEN tainted \ {Box(t)} ELSE tainted
      /\ UNCHANGED <<req, names>>
      /\ \E l \in {"open", "answer", "unlink"} : pc' = [pc EXCEPT ![t] = l]
      /\ at' = at \/ at' = [at EXCEPT ![t] = @ + 1]
  BY DEF Unlock, Unwind, Release, Unowned, Go
<1>3. pc'[t] \notin Opened
  BY <1>2 DEF Opened, Inside, ExclusionInv, TypeOK
<1>4. \A s \in Threads \ {t} :
         pc'[s] = pc[s] /\ handle'[s] = handle[s] /\ Box(s)' = Box(s)
  BY <1>2 DEF Box, ExclusionInv, TypeOK
<1>5. InsideOwns'
  BY <1>1, <1>2, <1>3, <1>4 DEF InsideOwns, ExclusionInv, TypeOK, ThreadOK, Opened
<1>6. ASSUME NEW s \in Threads \ {t}, pc[s] \in Opened, Box(s) \notin tainted'
      PROVE  handle[s] = names[Box(s)]
  <2>1. Box(s) \notin tainted
    BY <1>2, <1>6 DEF Openers
  <2> QED BY <1>6, <2>1 DEF OpenersShare, ExclusionInv
<1>7. OpenersShare'
  BY <1>2, <1>3, <1>4, <1>6 DEF OpenersShare
<1> QED BY <1>5, <1>7 DEF ExclusionInv

LEMMA UnlinkExclusion ==
  ASSUME ExclusionInv, TypeOK', NEW t \in Threads, Unlink(t)
  PROVE  ExclusionInv'
<1>1. /\ pc[t] = "unlink" /\ pc' = [pc EXCEPT ![t] = "answer"]
      /\ names' = [names EXCEPT ![Box(t)] = None]
      /\ tainted' = IF Openers(Box(t)) = {} THEN tainted \ {Box(t)}
                                            ELSE tainted \cup {Box(t)}
      /\ UNCHANGED <<req, at, handle, owner>>
      /\ Box(t) \in Users
  BY BoxIsUser DEF Unlink, Go, request, ExclusionInv
<1>2. \A s \in Threads : /\ Box(s)' = Box(s)
                         /\ pc'[s] \in Opened => pc[s] \in Opened
                         /\ pc'[s] \in Inside => pc[s] \in Inside
  BY <1>1 DEF Box, ExclusionInv, TypeOK, Opened, Inside
<1>3. ASSUME NEW s \in Threads, pc[s] \in Opened, Box(s) \notin tainted'
      PROVE  handle[s] = names'[Box(s)]
  <2>1. Box(s) # Box(t)
    BY <1>1, <1>3 DEF Openers
  <2> QED BY <1>1, <1>3, <2>1 DEF OpenersShare, ExclusionInv, TypeOK
<1>4. InsideOwns' /\ OpenersShare'
  BY <1>1, <1>2, <1>3 DEF InsideOwns, OpenersShare, ExclusionInv
<1> QED BY <1>4 DEF ExclusionInv

LEMMA QuietExclusion ==
  ASSUME ExclusionInv, TypeOK', NEW t \in Threads, Receive(t) \/ Answer(t)
  PROVE  ExclusionInv'
<1>1. /\ pc[t] \in {"idle", "answer"}
      /\ \E l \in {"idle", "open", "answer"} : pc' = [pc EXCEPT ![t] = l]
      /\ UNCHANGED <<mutex, tainted>>
      /\ \A s \in Threads \ {t} : req'[s] = req[s] /\ at'[s] = at[s]
  BY DEF Receive, Answer, Go, ExclusionInv, TypeOK
<1>2. pc'[t] \notin Opened
  BY <1>1 DEF Opened, Inside, ExclusionInv, TypeOK
<1>3. \A s \in Threads \ {t} : pc'[s] = pc[s] /\ Box(s)' = Box(s)
  BY <1>1 DEF Box, ExclusionInv, TypeOK
<1> QED BY <1>1, <1>2, <1>3 DEF ExclusionInv, InsideOwns, OpenersShare, mutex, Opened

LEMMA NextKeepsExclusion ==
  ASSUME ExclusionInv, TypeOK', [Next]_vars
  PROVE  ExclusionInv'
<1>1. ASSUME NEW t \in Threads, Receive(t) PROVE ExclusionInv'
  BY <1>1, QuietExclusion
<1>2. ASSUME NEW t \in Threads, Serve(t) PROVE ExclusionInv'
  <2>1. CASE Works(t)
    <3>1. TypeOK
      BY DEF ExclusionInv
    <3> QED BY <2>1, <3>1, WorksInside, InsideStep
  <2>2. CASE Abort(t)
    BY <2>2 DEF Abort, ProcessDies, ExclusionInv, InsideOwns, OpenersShare, Opened, Inside
  <2> QED BY <1>2, <2>1, <2>2, OpenExclusion, LockExclusion, LeaveExclusion,
             OpenFailsExclusion, UnlinkExclusion, QuietExclusion DEF Serve, Works
<1>3. CASE Crash
  BY <1>3 DEF Crash, ProcessDies, ExclusionInv, InsideOwns, OpenersShare, Opened, Inside
<1>4. CASE UNCHANGED vars
  BY <1>4 DEF vars, request, mutex, Box, ExclusionInv, InsideOwns, OpenersShare
<1> QED BY <1>1, <1>2, <1>3, <1>4 DEF Next

(* At any time, over any number of threads, requests, failures and crashes: two
   threads are inside one mailbox only if its mutex was unlinked while one of
   its openers had it open. *)
THEOREM ExclusionCorrect == Spec => []ExclusiveUnlessTainted
<1>1. ExclusionInv /\ [Next]_vars /\ TypeOK' => ExclusionInv'
  BY NextKeepsExclusion
<1> QED BY <1>1, TypeCorrect, InitExclusionInv, ExclusionInvExcludes, PTL DEF Spec

-----------------------------------------------------------------------------
(* What a process that dies inside a mailbox leaves behind, for any number of
   threads, users and later processes: the mailbox stays locked. *)

(* Who comes to a mailbox whose mutex was left locked by a dead process has that
   mutex open and waits for it; nobody is inside, and only who could not open it
   is about to unlink it. *)
Unopened(t) == DiskFails /\ pc[t] = "unlink" /\ outcome[t] = "ABORT"

OrphansKeepOut ==
  \A u \in Users, t \in Threads :
    Orphaned(u) /\ pc[t] \in Opened \cup {"unlink"} /\ Box(t) = u =>
      (pc[t] = "lock" /\ handle[t] = names[u]) \/ Unopened(t)

OrphanInv == ExclusionInv /\ OrphansKeepOut

LEMMA InitOrphanInv == Init => OrphanInv
BY InitExclusionInv DEF Init, OrphanInv, OrphansKeepOut, Orphaned, NoNames

(* What holds of a step of the process's threads. *)
Forced(u) ==
  /\ DiskFails /\ names'[u] = None
  /\ \E t \in Threads : pc[t] = "unlink" /\ Box(t) = u /\ outcome[t] = "ABORT"

StaysStuck ==
  \A u \in Users : Orphaned(u) => (Orphaned(u)' /\ Holders(u)' = {}) \/ Forced(u)

LEMMA StuckHoldersOut ==
  ASSUME OrphansKeepOut', NEW u \in Users, Orphaned(u)'
  PROVE  Holders(u)' = {}
BY DEF OrphansKeepOut, Unopened, Holders, Opened, Inside

LEMMA WorksOrphan ==
  ASSUME OrphanInv, TypeOK', NEW t \in Threads, Works(t)
  PROVE  OrphansKeepOut' /\ StaysStuck
<1>1. /\ pc[t] \in Inside /\ pc' = [pc EXCEPT ![t] = pc'[t]] /\ pc'[t] \in Inside
      /\ UNCHANGED <<request, mutex, tainted>>
      /\ \A s \in Threads \ {t} : outcome'[s] = outcome[s]
  BY WorksInside DEF OrphanInv, ExclusionInv, TypeOK
<1>2. \A s \in Threads : Box(s)' = Box(s)
  BY <1>1 DEF Box, request
<1>3. \A u \in Users : Orphaned(u)' <=> Orphaned(u)
  BY <1>1 DEF Orphaned, mutex
<1>4. OrphansKeepOut'
  <2> SUFFICES ASSUME NEW u \in Users, NEW s \in Threads, Orphaned(u),
                      pc'[s] \in Opened \cup {"unlink"}, Box(s) = u
               PROVE  (pc'[s] = "lock" /\ handle[s] = names[u]) \/ Unopened(s)'
    BY <1>1, <1>2, <1>3 DEF OrphansKeepOut, mutex
  <2>1. CASE s = t
    BY <1>1, <2>1 DEF OrphanInv, OrphansKeepOut, Unopened, Opened, Inside
  <2>2. CASE s # t
    <3>1. pc'[s] = pc[s] /\ outcome'[s] = outcome[s]
      BY <1>1, <2>2 DEF OrphanInv, ExclusionInv, TypeOK
    <3> QED BY <3>1 DEF OrphanInv, OrphansKeepOut, Unopened
  <2> QED BY <2>1, <2>2
<1> QED BY <1>3, <1>4, StuckHoldersOut DEF StaysStuck

LEMMA OpenOrphan ==
  ASSUME OrphanInv, NEW t \in Threads, Open(t)
  PROVE  OrphansKeepOut' /\ StaysStuck
<1>0. TypeOK
  BY DEF OrphanInv, ExclusionInv
<1>1. /\ pc[t] = "open" /\ pc' = [pc EXCEPT ![t] = "lock"]
      /\ UNCHANGED <<req, at, tainted, outcome>> /\ Box(t) \in Users
  BY <1>0, BoxIsUser DEF Open, Go, request
<1>2. \A s \in Threads : Box(s)' = Box(s)
  BY <1>1 DEF Box
<1>3. PICK m \in Mutexes :
        /\ handle' = [handle EXCEPT ![t] = m]
        /\ \/ m = names[Box(t)] /\ UNCHANGED <<names, owner>>
           \/ /\ names[Box(t)] = None /\ m \in Unused
              /\ names' = [names EXCEPT ![Box(t)] = m]
              /\ owner' = [owner EXCEPT ![m] = None]
  <2>1. names[Box(t)] \in Mutexes \cup {None}
    BY <1>0, <1>1 DEF TypeOK
  <2> QED BY <2>1 DEF Open, Unused
<1>4. names'[Box(t)] = m /\ handle'[t] = m
  BY <1>0, <1>1, <1>3 DEF TypeOK
<1>5. \A u \in Users : Orphaned(u)' <=> Orphaned(u)
  <2> TAKE u \in Users
  <2>1. CASE UNCHANGED <<names, owner>>
    BY <2>1 DEF Orphaned
  <2>2. CASE /\ names[Box(t)] = None /\ m \in Unused
             /\ names' = [names EXCEPT ![Box(t)] = m]
             /\ owner' = [owner EXCEPT ![m] = None]
    <3>1. CASE u = Box(t)
      <4>1. owner'[m] = None
        BY <1>0, <2>2 DEF TypeOK
      <4> QED BY <1>4, <2>2, <3>1, <4>1, SpoolAssumption DEF Orphaned
    <3>2. CASE u # Box(t)
      <4>1. names'[u] = names[u] /\ names[u] # m
        BY <1>0, <2>2, <3>2 DEF TypeOK, Unused
      <4>2. names[u] # None => owner'[names[u]] = owner[names[u]]
        BY <1>0, <2>2, <4>1 DEF TypeOK
      <4> QED BY <4>1, <4>2 DEF Orphaned
    <3> QED BY <3>1, <3>2
  <2> QED BY <1>3, <2>1, <2>2
<1>6. \A u \in Users : Orphaned(u) => names'[u] = names[u]
  BY <1>0, <1>1, <1>3 DEF Orphaned, TypeOK
<1>7. \A s \in Threads \ {t} : pc'[s] = pc[s] /\ handle'[s] = handle[s]
  BY <1>0, <1>1, <1>3 DEF TypeOK
<1>8. pc'[t] = "lock"
  BY <1>0, <1>1 DEF TypeOK
<1>9. OrphansKeepOut'
  <2> SUFFICES ASSUME NEW u \in Users, NEW s \in Threads, Orphaned(u),
                      pc'[s] \in Opened \cup {"unlink"}, Box(s) = u
               PROVE  (pc'[s] = "lock" /\ handle'[s] = names'[u]) \/ Unopened(s)'
    BY <1>2, <1>5 DEF OrphansKeepOut
  <2>1. CASE s = t
    BY <1>4, <1>8, <2>1
  <2>2. CASE s # t
    BY <1>1, <1>6, <1>7, <2>2 DEF OrphanInv, OrphansKeepOut, Unopened
  <2> QED BY <2>1, <2>2
<1> QED BY <1>5, <1>9, StuckHoldersOut DEF StaysStuck

LEMMA OpenFailsOrphan ==
  ASSUME OrphanInv, NEW t \in Threads, OpenFails(t)
  PROVE  OrphansKeepOut' /\ StaysStuck
<1>1. /\ DiskFails /\ pc' = [pc EXCEPT ![t] = "unlink"]
      /\ outcome' = [outcome EXCEPT ![t] = "ABORT"]
      /\ UNCHANGED <<req, at, names, handle, owner>>
  BY DEF OpenFails, Go, request, mutex
<1>2. /\ Unopened(t)'
      /\ \A s \in Threads \ {t} : pc'[s] = pc[s] /\ outcome'[s] = outcome[s]
  BY <1>1 DEF Unopened, OrphanInv, ExclusionInv, TypeOK
<1>3. \A s \in Threads : Box(s)' = Box(s)
  BY <1>1 DEF Box
<1>4. \A u \in Users : Orphaned(u)' <=> Orphaned(u)
  BY <1>1 DEF Orphaned
<1>5. \A s \in Threads \ {t} : Unopened(s)' <=> Unopened(s)
  BY <1>2 DEF Unopened
<1>6. OrphansKeepOut'
  BY <1>1, <1>2, <1>3, <1>4, <1>5 DEF OrphanInv, OrphansKeepOut
<1> QED BY <1>4, <1>6, StuckHoldersOut DEF StaysStuck

(* A mutex left locked is not free: nobody gets past Lock. *)
LEMMA LockOrphan ==
  ASSUME OrphanInv, NEW t \in Threads, Lock(t)
  PROVE  OrphansKeepOut' /\ StaysStuck
<1>0. TypeOK
  BY DEF OrphanInv, ExclusionInv
<1>1. /\ pc[t] = "lock" /\ owner[handle[t]] = None
      /\ owner' = [owner EXCEPT ![handle[t]] = t]
      /\ UNCHANGED <<req, at, names, handle, outcome>>
      /\ \A s \in Threads \ {t} : pc'[s] = pc[s]
  BY <1>0 DEF Lock, Free, Go, request, TypeOK
<1>2. \A s \in Threads : Box(s)' = Box(s)
  BY <1>1 DEF Box
<1>3. \A u \in Users : Orphaned(u)' <=> Orphaned(u)
  BY <1>0, <1>1, SpoolAssumption DEF Orphaned, TypeOK
<1>4. \A u \in Users : Orphaned(u) => Box(t) # u
  BY <1>1, SpoolAssumption DEF OrphanInv, OrphansKeepOut, Unopened, Orphaned, Opened
<1>5. OrphansKeepOut'
  BY <1>1, <1>2, <1>3, <1>4 DEF OrphanInv, OrphansKeepOut, Unopened
<1> QED BY <1>3, <1>5, StuckHoldersOut DEF StaysStuck

(* Who releases a mutex holds it, and so it is not one that a dead process left. *)
LEMMA LeaveOrphan ==
  ASSUME OrphanInv, NEW t \in Threads, Unlock(t) \/ Unwind(t)
  PROVE  OrphansKeepOut' /\ StaysStuck
<1>0. TypeOK
  BY DEF OrphanInv, ExclusionInv
<1>1. /\ pc[t] \in Inside /\ owner[handle[t]] = t
  BY DEF Unlock, Unwind, Inside, OrphanInv, ExclusionInv, InsideOwns
<1>2. /\ owner' = [owner EXCEPT ![handle[t]] = None]
      /\ UNCHANGED <<req, names, outcome>>
      /\ pc'[t] \in {"open", "answer", "unlink"}
      /\ pc[t] = "unlock" => pc'[t] # "unlink"
      /\ pc[t] = "unwind" => at' = at
      /\ pc[t] \in {"unlock", "unwind"}
      /\ \A s \in Threads \ {t} : pc'[s] = pc[s] /\ handle'[s] = handle[s] /\ at'[s] = at[s]
  BY <1>0 DEF Unlock, Unwind, Release, Unowned, Go, TypeOK
<1>3. \A u \in Users : Orphaned(u)' <=> Orphaned(u)
  BY <1>0, <1>1, <1>2, SpoolAssumption DEF Orphaned, TypeOK
<1>4. \A u \in Users : Orphaned(u) => Box(t) # u
  BY <1>1 DEF OrphanInv, OrphansKeepOut, Unopened, Opened, Inside
<1>5. \A s \in Threads \ {t} : Box(s)' = Box(s)
  BY <1>2 DEF Box
<1>6. pc'[t] = "unlink" => Box(t)' = Box(t)
  BY <1>2 DEF Box
<1>7. OrphansKeepOut'
  <2> SUFFICES ASSUME NEW u \in Users, NEW s \in Threads, Orphaned(u),
                      pc'[s] \in Opened \cup {"unlink"}, Box(s)' = u
               PROVE  (pc'[s] = "lock" /\ handle'[s] = names[u]) \/ Unopened(s)'
    BY <1>2, <1>3 DEF OrphansKeepOut
  <2>1. CASE s = t
    BY <1>2, <1>4, <1>6, <2>1 DEF Opened, Inside
  <2>2. CASE s # t
    BY <1>2, <1>5, <2>2 DEF OrphanInv, OrphansKeepOut, Unopened
  <2> QED BY <2>1, <2>2
<1> QED BY <1>3, <1>7, StuckHoldersOut DEF StaysStuck

(* Only who could not open a mutex left locked unlinks it. *)
LEMMA UnlinkOrphan ==
  ASSUME OrphanInv, NEW t \in Threads, Unlink(t)
  PROVE  OrphansKeepOut' /\ StaysStuck
<1>0. TypeOK
  BY DEF OrphanInv, ExclusionInv
<1>1. /\ pc[t] = "unlink" /\ pc' = [pc EXCEPT ![t] = "answer"]
      /\ names' = [names EXCEPT ![Box(t)] = None]
      /\ UNCHANGED <<req, at, handle, owner, outcome>>
      /\ Box(t) \in Users
  BY <1>0, BoxIsUser DEF Unlink, Go, request
<1>2. Orphaned(Box(t)) => Forced(Box(t))
  BY <1>0, <1>1 DEF OrphanInv, OrphansKeepOut, Unopened, Forced, TypeOK
<1>3. ~Orphaned(Box(t))'
  <2>1. names'[Box(t)] = None /\ Box(t)' = Box(t)
    BY <1>0, <1>1 DEF TypeOK, Box
  <2> QED BY <2>1 DEF Orphaned
<1>4. \A u \in Users \ {Box(t)} : names'[u] = names[u]
  BY <1>0, <1>1 DEF TypeOK
<1>5. \A u \in Users \ {Box(t)} : Orphaned(u)' <=> Orphaned(u)
  BY <1>1, <1>4 DEF Orphaned
<1>6. \A s \in Threads : Box(s)' = Box(s)
  BY <1>1 DEF Box
<1>7. \A s \in Threads : pc'[s] = pc[s] \/ pc'[s] = "answer"
  BY <1>0, <1>1 DEF TypeOK
<1>8. ~Orphaned(Box(t)) \/ Forced(Box(t))
  BY <1>2
<1>9. OrphansKeepOut'
  <2> SUFFICES ASSUME NEW u \in Users, NEW s \in Threads, Orphaned(u)',
                      pc'[s] \in Opened \cup {"unlink"}, Box(s) = u
               PROVE  (pc'[s] = "lock" /\ handle'[s] = names'[u]) \/ Unopened(s)'
    BY <1>6 DEF OrphansKeepOut
  <2>1. u # Box(t)
    BY <1>3, <1>6 DEF Orphaned
  <2>2. pc'[s] = pc[s]
    BY <1>7 DEF Opened, Inside
  <2> QED BY <1>1, <1>4, <1>5, <2>1, <2>2 DEF OrphanInv, OrphansKeepOut, Unopened
<1>10. \A u \in Users : Orphaned(u) /\ u # Box(t) => Orphaned(u)' /\ Holders(u)' = {}
  BY <1>5, <1>9, StuckHoldersOut
<1> QED BY <1>2, <1>9, <1>10 DEF StaysStuck

LEMMA QuietOrphan ==
  ASSUME OrphanInv, NEW t \in Threads, Receive(t) \/ Answer(t)
  PROVE  OrphansKeepOut' /\ StaysStuck
<1>1. /\ pc'[t] \notin Opened \cup {"unlink"} /\ UNCHANGED mutex
      /\ \A s \in Threads \ {t} : /\ pc'[s] = pc[s] /\ req'[s] = req[s] /\ at'[s] = at[s]
                                 /\ outcome'[s] = outcome[s]
  BY DEF Receive, Answer, Go, Opened, Inside, OrphanInv, ExclusionInv, TypeOK
<1>2. \A s \in Threads \ {t} : Box(s)' = Box(s)
  BY <1>1 DEF Box
<1>3. \A u \in Users : Orphaned(u)' <=> Orphaned(u)
  BY <1>1 DEF Orphaned, mutex
<1>4. OrphansKeepOut'
  BY <1>1, <1>2, <1>3 DEF OrphanInv, OrphansKeepOut, Unopened, mutex
<1> QED BY <1>3, <1>4, StuckHoldersOut DEF StaysStuck

LEMMA DiesOrphan ==
  ASSUME OrphanInv, ProcessDies, names' = names
  PROVE  OrphansKeepOut' /\ StaysStuck
<1>1. \A t \in Threads : pc'[t] = "idle"
  BY DEF ProcessDies
<1>2. OrphansKeepOut'
  BY <1>1 DEF OrphansKeepOut, Opened, Inside
<1>3. \A u \in Users : Orphaned(u) => Orphaned(u)'
  BY SpoolAssumption DEF Orphaned, ProcessDies, OrphanInv, ExclusionInv, TypeOK
<1> QED BY <1>2, <1>3, StuckHoldersOut DEF StaysStuck

LEMMA StepOrphan ==
  ASSUME OrphanInv, TypeOK', Next
  PROVE  /\ OrphansKeepOut'
         /\ StaysStuck \/ (crashes' # crashes /\ names' = NoNames)
<1>1. ASSUME NEW t \in Threads, Receive(t) \/ Serve(t)
      PROVE  OrphansKeepOut' /\ StaysStuck
  BY <1>1, WorksOrphan, OpenOrphan, OpenFailsOrphan, LockOrphan, LeaveOrphan, UnlinkOrphan, QuietOrphan, DiesOrphan
     DEF Serve, Works, Abort
<1>2. CASE Crash
  <2>1. CASE names' = names
    BY <1>2, <2>1, DiesOrphan DEF Crash
  <2>2. CASE names' = NoNames
    <3>1. \A u \in Users : ~Orphaned(u)'
      BY <2>2 DEF Orphaned, NoNames
    <3>2. crashes' # crashes
      BY <1>2 DEF Crash, OrphanInv, ExclusionInv, TypeOK
    <3> QED BY <2>2, <3>1, <3>2 DEF OrphansKeepOut
  <2> QED BY <1>2, <2>1, <2>2 DEF Crash
<1> QED BY <1>1, <1>2 DEF Next

(* A mutex whose holder's process died stays locked, and nobody is ever inside
   its mailbox again, until a restart of the machine empties the kernel's names
   or a thread that cannot open it unlinks it: those inside would, too, but nobody
   is. *)
THEOREM OrphanCorrect == Spec => OrphanStaysStuck
<1>1. OrphanInv /\ TypeOK' /\ [Next]_vars => OrphanInv'
  <2>1. OrphanInv /\ TypeOK' /\ [Next]_vars => ExclusionInv'
    BY NextKeepsExclusion DEF OrphanInv
  <2>2. OrphanInv /\ TypeOK' /\ Next => OrphansKeepOut'
    BY StepOrphan
  <2>3. OrphanInv /\ UNCHANGED vars => OrphansKeepOut'
    BY DEF vars, request, mutex, OrphanInv, OrphansKeepOut, Unopened, Orphaned, Box
  <2> QED BY <2>1, <2>2, <2>3 DEF OrphanInv
<1>2. OrphanInv /\ TypeOK' /\ [Next]_vars =>
        [\A u \in Users : Orphaned(u) =>
           \/ Orphaned(u)' /\ Holders(u)' = {}
           \/ crashes' # crashes /\ names' = NoNames
           \/ /\ DiskFails /\ names'[u] = None
              /\ \E t \in Threads : pc[t] = "unlink" /\ Box(t) = u /\ outcome[t] = "ABORT"]_vars
  BY StepOrphan DEF StaysStuck, Forced
<1> QED BY <1>1, <1>2, TypeCorrect, InitOrphanInv, PTL DEF Spec, OrphanStaysStuck
=============================================================================
