----------------------------- MODULE WalkProofs -----------------------------
(* What a thread may rely on while it is inside a mailbox that is not tainted,
   what it saw of the directory and the files is still so; and what becomes of the
   mails when no name is drawn twice: none is lost, and the spool implements the
   abstract store.  For any number of threads, users, mails and names. *)
EXTENDS MailSpoolProofs, FiniteSetTheorems

Undisturbed(t) == pc[t] \in Inside /\ Box(t) \notin tainted

Walking == {"visit", "stat", "pick", "load", "remove", "unlock", "unwind"}

(* Who is where: each operation has its own places, and looks at a directory
   only from "visit" on. *)
Fits(t) ==
  /\ pc[t] \in {"enter", "visit"} => req[t].op # "SEND"
  /\ pc[t] = "stat" => req[t].op = "LIST"
  /\ pc[t] = "pick" => req[t].op \in {"READ", "DEL"}
  /\ pc[t] = "load" => req[t].op = "READ"
  /\ pc[t] = "remove" => req[t].op = "DEL"
  /\ pc[t] \notin Walking => seen[t] = {}

(* The directory walk has passed over what it has seen and has the rest ahead;
   what LIST has seen are whole mails. *)
WalkSound(t) ==
  /\ pc[t] \in {"visit", "stat"} => scan[t] \cup seen[t] = Listed(Box(t))
  /\ pc[t] \in {"visit", "stat"} /\ req[t].op = "LIST" =>
       \A i \in seen[t] : Whole(Box(t), i)
  /\ pc[t] = "stat" => file[t] \in Listed(Box(t)) /\ Whole(Box(t), file[t])

(* What holds at the end, of success and of failure. *)
EndSound(t) ==
  /\ pc[t] = "unlock" =>
       /\ req[t].op = "LIST" => /\ seen[t] = Listed(Box(t))
                                /\ \A i \in seen[t] : Whole(Box(t), i)
       /\ req[t].op = "READ" => Whole(Box(t), file[t])
  /\ pc[t] = "unwind" /\ ~DiskFails =>
       /\ req[t].op # "SEND"
       /\ outcome[t] = "ABORT" =>
            req[t].op # "DEL" /\ \E i \in Listed(Box(t)) : <<Box(t), i>> \in partial
       /\ req[t].op = "LIST" => \/ Box(t) \notin dirs
                                \/ \E i \in Listed(Box(t)) : ~Whole(Box(t), i)

Knows(t) ==
  /\ pc[t] = "mkdir" => Box(t) \notin dirs
  /\ WalkSound(t)
  /\ EndSound(t)

WalkInv ==
  /\ \A t \in Threads : Fits(t) /\ (Undisturbed(t) => Knows(t))
  /\ partial \subseteq entries

LEMMA InitWalkInv == Init => WalkInv
BY DEF Init, WalkInv, Fits, Undisturbed, Walking, Inside

LEMMA WalkInvAnswers == TypeOK /\ WalkInv => SnapshotUnlessTainted /\ FailureNeedsTaint
BY DEF WalkInv, Undisturbed, Knows, EndSound, SnapshotUnlessTainted, FailureNeedsTaint, Inside

-----------------------------------------------------------------------------
(* A step of one thread and what it leaves to the others. *)
OnlyMoves(t) ==
  \A s \in Threads \ {t} :
    /\ pc'[s] = pc[s] /\ req'[s] = req[s] /\ at'[s] = at[s] /\ outcome'[s] = outcome[s]
    /\ file'[s] = file[s] /\ scan'[s] = scan[s] /\ seen'[s] = seen[s]

SameBox(u) ==
  /\ u \in dirs' <=> u \in dirs
  /\ \A i \in Ids : <<u, i>> \in entries' <=> <<u, i>> \in entries
  /\ \A i : <<u, i>> \in partial' <=> <<u, i>> \in partial
  /\ \A i, m : <<u, i, m>> \in stored' <=> <<u, i, m>> \in stored

LEMMA SameBoxLooksSame ==
  ASSUME NEW s \in Threads, SameBox(Box(s)), Box(s)' = Box(s)
  PROVE  /\ (Box(s) \in dirs)' <=> Box(s) \in dirs
         /\ Listed(Box(s))' = Listed(Box(s))
         /\ \A i : Whole(Box(s), i)' <=> Whole(Box(s), i)
         /\ \A i : <<Box(s), i>>' \in partial' <=> <<Box(s), i>> \in partial
BY DEF SameBox, Listed, Whole

(* Who is inside an untainted mailbox keeps what it knows when another goes on:
   that one is elsewhere or does not touch the disk, and the taint is lifted only
   where nobody else is. *)
LEMMA OthersKeepWalk ==
  ASSUME TypeOK, WalkInv, NEW t \in Threads, OnlyMoves(t),
         \A s \in Threads \ {t} :
           Undisturbed(s)' => Undisturbed(s) /\ SameBox(Box(s))
  PROVE  \A s \in Threads \ {t} : Fits(s)' /\ (Undisturbed(s)' => Knows(s)')
<1> TAKE s \in Threads \ {t}
<1>1. Box(s)' = Box(s)
  BY DEF OnlyMoves, Box
<1>2. Fits(s)'
  BY DEF OnlyMoves, WalkInv, Fits
<1>3. ASSUME Undisturbed(s)'
      PROVE  Knows(s)'
  <2>1. Knows(s) /\ SameBox(Box(s))
    BY <1>3 DEF WalkInv
  <2>2. /\ (Box(s) \in dirs)' <=> Box(s) \in dirs
        /\ Listed(Box(s))' = Listed(Box(s))
        /\ \A i : Whole(Box(s), i)' <=> Whole(Box(s), i)
        /\ \A i : <<Box(s), i>>' \in partial' <=> <<Box(s), i>> \in partial
    BY <1>1, <2>1, SameBoxLooksSame
  <2>3. WalkSound(s)'
    BY <2>1, <2>2 DEF OnlyMoves, Knows, WalkSound
  <2>4. EndSound(s)'
    BY <2>1, <2>2 DEF OnlyMoves, Knows, EndSound
  <2>5. pc'[s] = "mkdir" => Box(s)' \notin dirs'
    BY <2>1, <2>2 DEF OnlyMoves, Knows
  <2> QED BY <2>3, <2>4, <2>5 DEF Knows
<1> QED BY <1>2, <1>3

(* A step that touches neither the disk nor a taint disturbs nobody. *)
LEMMA CalmStep ==
  ASSUME TypeOK, WalkInv, NEW t \in Threads, OnlyMoves(t), UNCHANGED <<disk, tainted>>,
         Fits(t)', Undisturbed(t)' => Knows(t)'
  PROVE  WalkInv'
<1>1. ASSUME NEW s \in Threads \ {t}, Undisturbed(s)'
      PROVE  Undisturbed(s) /\ SameBox(Box(s))
  BY <1>1 DEF Undisturbed, OnlyMoves, Box, SameBox, disk
<1>2. \A s \in Threads \ {t} : Fits(s)' /\ (Undisturbed(s)' => Knows(s)')
  BY <1>1, OthersKeepWalk
<1> QED BY <1>2 DEF WalkInv, disk

(* Who touches the disk is inside, so nobody else is inside that mailbox. *)
LEMMA DiskStep ==
  ASSUME ExclusionInv, WalkInv, NEW t \in Threads, OnlyMoves(t), pc[t] \in Inside,
         UNCHANGED tainted, \A u \in Users \ {Box(t)} : SameBox(u),
         Fits(t)', Undisturbed(t)' => Knows(t)', partial' \subseteq entries'
  PROVE  WalkInv'
<1>0. TypeOK
  BY DEF ExclusionInv
<1>1. ASSUME NEW s \in Threads \ {t}, Undisturbed(s)'
      PROVE  Undisturbed(s) /\ SameBox(Box(s))
  <2>1. Undisturbed(s)
    BY <1>1 DEF Undisturbed, OnlyMoves, Box
  <2>2. Box(s) \in Users
    BY <1>0, <2>1, BoxIsUser DEF Undisturbed, Inside
  <2>3. Box(s) # Box(t)
    BY <2>1, <2>2, ExclusionInvExcludes DEF Undisturbed, ExclusiveUnlessTainted, Holders
  <2> QED BY <2>1, <2>2, <2>3 DEF SameBox
<1>2. \A s \in Threads \ {t} : Fits(s)' /\ (Undisturbed(s)' => Knows(s)')
  BY <1>0, <1>1, OthersKeepWalk
<1> QED BY <1>2 DEF WalkInv

-----------------------------------------------------------------------------
(* The steps one by one. *)

LEMMA ThrowWalk ==
  ASSUME TypeOK, WalkInv, NEW t \in Threads, pc[t] \in Inside,
         NEW o \in {"ERR", "ABORT"}, Throw(t, o),
         Undisturbed(t) /\ ~DiskFails =>
           /\ req[t].op # "SEND"
           /\ o = "ABORT" =>
                req[t].op # "DEL" /\ \E i \in Listed(Box(t)) : <<Box(t), i>> \in partial
           /\ req[t].op = "LIST" => \/ Box(t) \notin dirs
                                    \/ \E i \in Listed(Box(t)) : ~Whole(Box(t), i)
  PROVE  WalkInv'
<1>1. /\ pc' = [pc EXCEPT ![t] = "unwind"] /\ outcome' = [outcome EXCEPT ![t] = o]
      /\ UNCHANGED <<req, at, file, scan, seen, disk, tainted>>
  BY DEF Throw, Go, request, cursor
<1>2. pc'[t] = "unwind" /\ outcome'[t] = o /\ OnlyMoves(t)
  BY <1>1 DEF OnlyMoves, TypeOK
<1>3. Box(t)' = Box(t)
  BY <1>1 DEF Box
<1>4. Fits(t)'
  BY <1>2 DEF Fits, Walking
<1>5. ASSUME Undisturbed(t)'
      PROVE  Knows(t)'
  <2>1. Undisturbed(t)
    BY <1>1, <1>3, <1>5 DEF Undisturbed
  <2>2. /\ (Box(t) \in dirs)' <=> Box(t) \in dirs
        /\ Listed(Box(t))' = Listed(Box(t))
        /\ \A i : Whole(Box(t), i)' <=> Whole(Box(t), i)
        /\ \A i : <<Box(t), i>>' \in partial' <=> <<Box(t), i>> \in partial
    BY <1>1, <1>3 DEF disk, Listed, Whole
  <2>3. EndSound(t)'
    BY <1>1, <1>2, <2>1, <2>2 DEF EndSound
  <2> QED BY <1>2, <2>3 DEF Knows, WalkSound
<1> QED BY <1>1, <1>2, <1>4, <1>5, CalmStep

(* Outside the mailboxes. *)
LEMMA OutsideWalk ==
  ASSUME TypeOK, WalkInv, NEW t \in Threads,
         Receive(t) \/ Open(t) \/ OpenFails(t) \/ Lock(t) \/ Answer(t)
  PROVE  WalkInv'
<1>1. /\ pc'[t] \in {"idle", "open", "unlink", "lock", "answer", "access", "enter"}
      /\ pc'[t] = "enter" => req'[t].op # "SEND"
      /\ pc[t] \notin Walking /\ seen'[t] = seen[t]
      /\ OnlyMoves(t) /\ UNCHANGED <<disk, tainted>>
  <2>1. CASE Receive(t)
    BY <2>1 DEF Receive, Go, TypeOK, OnlyMoves, cursor, Walking
  <2>2. CASE Open(t) \/ OpenFails(t) \/ Lock(t)
    BY <2>2 DEF Open, OpenFails, Lock, Go, TypeOK, OnlyMoves, request, cursor, Walking
  <2>3. CASE Answer(t)
    BY <2>3 DEF Answer, Go, TypeOK, OnlyMoves, cursor, Walking
  <2> QED BY <2>1, <2>2, <2>3
<1>2. Fits(t)'
  BY <1>1 DEF WalkInv, Fits, Walking
<1>3. Knows(t)'
  BY <1>1 DEF Knows, WalkSound, EndSound
<1> QED BY <1>1, <1>2, <1>3, CalmStep

LEMMA LeaveWalk ==
  ASSUME TypeOK, WalkInv, NEW t \in Threads, Unlock(t) \/ Unwind(t) \/ Unlink(t)
  PROVE  WalkInv'
<1>1. /\ pc'[t] \in {"open", "answer", "unlink"} /\ seen'[t] = {}
      /\ OnlyMoves(t) /\ UNCHANGED disk
      /\ \A u \in tainted : u \in tainted' \/ Openers(u) \subseteq {t}
  <2>1. CASE Unlock(t) \/ Unwind(t)
    BY <2>1 DEF Unlock, Unwind, Release, Go, TypeOK, OnlyMoves
  <2>2. CASE Unlink(t)
    BY <2>2 DEF Unlink, Go, TypeOK, OnlyMoves, request, cursor, WalkInv, Fits, Walking
  <2> QED BY <2>1, <2>2
<1>2. Fits(t)' /\ ~Undisturbed(t)'
  BY <1>1 DEF Fits, Walking, Undisturbed, Inside
<1>3. ASSUME NEW s \in Threads \ {t}, Undisturbed(s)'
      PROVE  Undisturbed(s) /\ SameBox(Box(s))
  <2>1. pc[s] \in Inside /\ Box(s)' = Box(s)
    BY <1>1, <1>3 DEF OnlyMoves, Undisturbed, Box
  <2>2. Box(s) \notin tainted
    BY <1>1, <1>3, <2>1 DEF Undisturbed, Openers, Opened
  <2> QED BY <1>1, <2>1, <2>2 DEF Undisturbed, SameBox, disk
<1>4. \A s \in Threads \ {t} : Fits(s)' /\ (Undisturbed(s)' => Knows(s)')
  BY <1>1, <1>3, OthersKeepWalk
<1> QED BY <1>1, <1>2, <1>4 DEF WalkInv, disk

LEMMA DiesWalk ==
  ASSUME TypeOK, WalkInv, ProcessDies
  PROVE  WalkInv'
<1>1. \A t \in Threads : pc'[t] = "idle" /\ seen'[t] = {}
  BY DEF ProcessDies
<1>2. partial' \subseteq entries'
  BY CutOffSubset DEF WalkInv, ProcessDies
<1> QED BY <1>1, <1>2 DEF WalkInv, Fits, Undisturbed, Walking, Inside

-----------------------------------------------------------------------------
(* The steps of a SEND. *)

LEMMA AccessWalk ==
  ASSUME TypeOK, WalkInv, NEW t \in Threads, Access(t)
  PROVE  WalkInv'
<1>1. /\ pc[t] = "access" /\ pc'[t] \in {"mkdir", "create"}
      /\ pc'[t] = "mkdir" => Box(t) \notin dirs
      /\ seen'[t] = seen[t] /\ OnlyMoves(t) /\ UNCHANGED <<req, at, disk, tainted>>
  BY DEF Access, Missing, Go, TypeOK, OnlyMoves, request
<1>2. Fits(t)'
  BY <1>1 DEF WalkInv, Fits, Walking
<1>3. Knows(t)'
  BY <1>1 DEF Knows, WalkSound, EndSound, Box, disk
<1> QED BY <1>1, <1>2, <1>3, CalmStep

(* Directories are made, and files created, written and removed, in one mailbox. *)
LEMMA OtherBoxesSame ==
  ASSUME TypeOK, NEW t \in Threads, MkDir(t) \/ Create(t) \/ Write(t) \/ Remove(t)
  PROVE  \A u \in Users \ {Box(t)} : SameBox(u)
<1> TAKE u \in Users \ {Box(t)}
<1>1. CASE MkDir(t)
  BY <1>1 DEF MkDir, Throw, disk, SameBox
<1>2. CASE Create(t)
  BY <1>2 DEF Create, Without, SameBox
<1>3. CASE Write(t)
  BY <1>3 DEF Write, Without, CutOff, SameBox
<1>4. CASE Remove(t)
  BY <1>4 DEF Remove, Throw, Without, disk, SameBox
<1> QED BY <1>1, <1>2, <1>3, <1>4

LEMMA MkDirWalk ==
  ASSUME ExclusionInv, WalkInv, NEW t \in Threads, MkDir(t)
  PROVE  WalkInv'
<1>0. TypeOK /\ pc[t] = "mkdir" /\ pc[t] \in Inside
  BY DEF ExclusionInv, MkDir, Inside
<1>1. CASE Box(t) \in dirs /\ Throw(t, "ERR")
  <2>1. ~Undisturbed(t)
    BY <1>0, <1>1 DEF WalkInv, Knows
  <2> QED BY <1>0, <1>1, <2>1, ThrowWalk
<1>2. CASE ~(Box(t) \in dirs /\ Throw(t, "ERR"))
  <2>1. /\ pc'[t] = "create" /\ seen'[t] = seen[t] /\ OnlyMoves(t)
        /\ UNCHANGED <<entries, partial, tainted>>
    BY <1>0, <1>2 DEF MkDir, Go, TypeOK, OnlyMoves, request, cursor
  <2>2. Fits(t)'
    BY <1>0, <2>1 DEF WalkInv, Fits, Walking
  <2>3. Knows(t)'
    BY <2>1 DEF Knows, WalkSound, EndSound
  <2>4. partial' \subseteq entries'
    BY <2>1 DEF WalkInv
  <2> QED BY <1>0, <2>1, <2>2, <2>3, <2>4, OtherBoxesSame, DiskStep
<1> QED BY <1>1, <1>2

LEMMA CreateWalk ==
  ASSUME ExclusionInv, WalkInv, NEW t \in Threads, Create(t)
  PROVE  WalkInv'
<1>1. /\ TypeOK /\ pc[t] = "create" /\ pc[t] \in Inside /\ pc'[t] = "write"
      /\ seen'[t] = seen[t] /\ OnlyMoves(t) /\ UNCHANGED tainted
  BY DEF ExclusionInv, Create, Go, Inside, TypeOK, OnlyMoves, request, cursor
<1>2. Fits(t)'
  BY <1>1 DEF WalkInv, Fits, Walking
<1>3. Knows(t)'
  BY <1>1 DEF Knows, WalkSound, EndSound
<1>4. partial' \subseteq entries'
  BY DEF WalkInv, Create, Without
<1> QED BY <1>1, <1>2, <1>3, <1>4, OtherBoxesSame, DiskStep

LEMMA WriteWalk ==
  ASSUME ExclusionInv, WalkInv, NEW t \in Threads, Write(t)
  PROVE  WalkInv'
<1>1. /\ TypeOK /\ pc[t] = "write" /\ pc[t] \in Inside
      /\ pc'[t] = "unlock" \/ (DiskFails /\ pc'[t] = "unwind")
      /\ OnlyMoves(t) /\ UNCHANGED <<req, tainted>>
  BY DEF ExclusionInv, Write, Go, Inside, TypeOK, OnlyMoves, request, cursor
<1>2. req[t].op = "SEND"
  BY <1>1 DEF TypeOK, ThreadOK
<1>3. Fits(t)'
  BY <1>1 DEF Fits, Walking
<1>4. Knows(t)'
  BY <1>1, <1>2 DEF Knows, WalkSound, EndSound
<1>5. partial' \subseteq entries'
  BY CutOffSubset DEF WalkInv, Write, Without
<1> QED BY <1>1, <1>3, <1>4, <1>5, OtherBoxesSame, DiskStep

-----------------------------------------------------------------------------
(* The steps of a directory walk.  Undisturbed, the iterator returns no name that
   is gone. *)

LEMMA ReturnedIsListed ==
  ASSUME WalkInv, NEW t \in Threads, Undisturbed(t), pc[t] = "visit"
  PROVE  Returned(t) \subseteq Listed(Box(t))
BY DEF WalkInv, Knows, WalkSound, Returned

LEMMA EnterWalk ==
  ASSUME TypeOK, WalkInv, NEW t \in Threads, Enter(t)
  PROVE  WalkInv'
<1>0. pc[t] = "enter" /\ pc[t] \in Inside /\ req[t].op # "SEND" /\ seen[t] = {}
  BY DEF Enter, Inside, WalkInv, Fits, Walking
<1>1. CASE Box(t) \notin dirs /\ Throw(t, "ERR")
  BY <1>0, <1>1, ThrowWalk
<1>2. CASE ~(Box(t) \notin dirs /\ Throw(t, "ERR"))
  <2>1. /\ scan'[t] = Listed(Box(t)) /\ pc'[t] = "visit" /\ seen'[t] = {}
        /\ OnlyMoves(t) /\ UNCHANGED <<req, at, disk, tainted>>
    BY <1>0, <1>2 DEF Enter, Go, TypeOK, OnlyMoves, request
  <2>2. Listed(Box(t))' = Listed(Box(t))
    BY <2>1 DEF Listed, Box, disk
  <2>3. Fits(t)'
    BY <1>0, <2>1 DEF Fits, Walking
  <2>4. Knows(t)'
    BY <2>1, <2>2 DEF Knows, WalkSound, EndSound
  <2> QED BY <2>1, <2>3, <2>4, CalmStep
<1> QED BY <1>1, <1>2

(* LIST finds the next mail whole, and its file there. *)
LEMMA ListWalk ==
  ASSUME TypeOK, WalkInv, NEW t \in Threads, ListVisit(t) \/ ListStat(t)
  PROVE  WalkInv'
<1>0. pc[t] \in Inside /\ req[t].op = "LIST" /\ pc[t] \in {"visit", "stat"}
  BY DEF ListVisit, ListStat, Inside, WalkInv, Fits
<1>1. ASSUME NEW i \in Returned(t), Inflate(t, i, "stat"), pc[t] = "visit"
      PROVE  WalkInv'
  <2>1. CASE Whole(Box(t), i)
    <3>1. /\ pc'[t] = "stat" /\ file'[t] = i /\ scan'[t] = scan[t] /\ seen'[t] = seen[t]
          /\ OnlyMoves(t) /\ UNCHANGED <<req, at, disk, tainted>>
      BY <1>1, <2>1 DEF Inflate, Go, TypeOK, OnlyMoves, request
    <3>2. /\ Box(t)' = Box(t) /\ Listed(Box(t))' = Listed(Box(t))
          /\ \A j : Whole(Box(t), j)' <=> Whole(Box(t), j)
      BY <3>1 DEF Listed, Whole, Box, disk
    <3>3. Fits(t)'
      BY <1>0, <3>1 DEF Fits, Walking
    <3>4. ASSUME Undisturbed(t)'
          PROVE  Knows(t)'
      <4>1. Undisturbed(t)
        BY <1>0, <3>1, <3>2, <3>4 DEF Undisturbed
      <4>2. Knows(t) /\ i \in Listed(Box(t))
        BY <1>1, <4>1, ReturnedIsListed DEF WalkInv
      <4>3. WalkSound(t)'
        BY <1>0, <1>1, <2>1, <3>1, <3>2, <4>2 DEF Knows, WalkSound
      <4> QED BY <3>1, <4>3 DEF Knows, EndSound
    <3> QED BY <3>1, <3>3, <3>4, CalmStep
  <2>2. CASE ~Whole(Box(t), i)
    <3>1. Throw(t, "ERR") \/ (<<Box(t), i>> \in partial /\ Throw(t, "ABORT"))
      BY <1>1, <2>2 DEF Inflate
    <3>2. Undisturbed(t) => i \in Listed(Box(t))
      BY <1>1, ReturnedIsListed
    <3> QED BY <1>0, <2>2, <3>1, <3>2, ThrowWalk
  <2> QED BY <2>1, <2>2
<1>2. ASSUME NEW i \in Returned(t), i \notin Listed(Box(t)), Skip(t, i), pc[t] = "visit"
      PROVE  WalkInv'
  <2>1. /\ pc' = pc /\ seen' = seen /\ OnlyMoves(t) /\ UNCHANGED <<req, at, disk, tainted>>
    BY <1>2 DEF Skip, TypeOK, OnlyMoves, request
  <2>2. ~Undisturbed(t)
    BY <1>2, ReturnedIsListed
  <2>3. Fits(t)' /\ ~Undisturbed(t)'
    BY <2>1, <2>2 DEF WalkInv, Fits, Undisturbed, Box
  <2> QED BY <2>1, <2>3, CalmStep
<1>3. ASSUME pc[t] = "stat", file[t] \in Listed(Box(t)), Seen(t, file[t])
      PROVE  WalkInv'
  <2>1. /\ pc'[t] = "visit" /\ scan'[t] = scan[t] \ {file[t]}
        /\ seen'[t] = seen[t] \cup {file[t]}
        /\ OnlyMoves(t) /\ UNCHANGED <<req, at, disk, tainted>>
    BY <1>3 DEF Seen, Go, TypeOK, OnlyMoves, request
  <2>2. /\ Box(t)' = Box(t) /\ Listed(Box(t))' = Listed(Box(t))
        /\ \A j : Whole(Box(t), j)' <=> Whole(Box(t), j)
    BY <2>1 DEF Listed, Whole, Box, disk
  <2>3. Fits(t)'
    BY <1>0, <2>1 DEF Fits, Walking
  <2>4. ASSUME Undisturbed(t)'
        PROVE  Knows(t)'
    <3>1. Knows(t)
      BY <1>0, <2>1, <2>2, <2>4 DEF Undisturbed, WalkInv
    <3>2. WalkSound(t)'
      BY <1>0, <1>3, <2>1, <2>2, <3>1 DEF Knows, WalkSound
    <3> QED BY <2>1, <3>2 DEF Knows, EndSound
  <2> QED BY <2>1, <2>3, <2>4, CalmStep
<1>4. ASSUME pc[t] = "stat", file[t] \notin Listed(Box(t)), Throw(t, "ABORT")
      PROVE  WalkInv'
  <2>1. ~Undisturbed(t)
    BY <1>4 DEF WalkInv, Knows, WalkSound
  <2> QED BY <1>0, <1>4, <2>1, ThrowWalk
<1> QED BY <1>1, <1>2, <1>3, <1>4 DEF ListVisit, ListStat

LEMMA IndexWalk ==
  ASSUME TypeOK, WalkInv, NEW t \in Threads, IndexVisit(t)
  PROVE  WalkInv'
<1>0. pc[t] = "visit" /\ pc[t] \in Inside /\ req[t].op \in {"READ", "DEL"}
  BY DEF IndexVisit, Inside
<1>1. ASSUME NEW i \in Returned(t), i \in Listed(Box(t)), Seen(t, i)
      PROVE  WalkInv'
  <2>1. /\ pc'[t] = "visit" /\ scan'[t] = scan[t] \ {i} /\ seen'[t] = seen[t] \cup {i}
        /\ OnlyMoves(t) /\ UNCHANGED <<req, at, disk, tainted>>
    BY <1>1 DEF Seen, Go, TypeOK, OnlyMoves, request
  <2>2. Box(t)' = Box(t) /\ Listed(Box(t))' = Listed(Box(t))
    BY <2>1 DEF Listed, Box, disk
  <2>3. Fits(t)'
    BY <1>0, <2>1 DEF Fits, Walking
  <2>4. ASSUME Undisturbed(t)'
        PROVE  Knows(t)'
    <3>1. Knows(t)
      BY <1>0, <2>1, <2>2, <2>4 DEF Undisturbed, WalkInv
    <3>2. WalkSound(t)'
      BY <1>0, <1>1, <2>1, <2>2, <3>1 DEF Knows, WalkSound
    <3> QED BY <2>1, <3>2 DEF Knows, EndSound
  <2> QED BY <2>1, <2>3, <2>4, CalmStep
<1>2. ASSUME NEW i \in Returned(t), i \notin Listed(Box(t)), Skip(t, i) \/ Throw(t, "ABORT")
      PROVE  WalkInv'
  <2>1. ~Undisturbed(t)
    BY <1>0, <1>2, ReturnedIsListed
  <2>2. CASE Throw(t, "ABORT")
    BY <1>0, <2>1, <2>2, ThrowWalk
  <2>3. CASE Skip(t, i)
    <3>1. /\ pc' = pc /\ seen' = seen /\ OnlyMoves(t) /\ UNCHANGED <<req, at, disk, tainted>>
      BY <2>3 DEF Skip, TypeOK, OnlyMoves, request
    <3>2. Fits(t)' /\ ~Undisturbed(t)'
      BY <2>1, <3>1 DEF WalkInv, Fits, Undisturbed, Box
    <3> QED BY <3>1, <3>2, CalmStep
  <2> QED BY <1>2, <2>2, <2>3
<1> QED BY <1>1, <1>2 DEF IndexVisit

(* At the end of the directory what was seen is what is there. *)
LEMMA ScanDoneWalk ==
  ASSUME TypeOK, WalkInv, NEW t \in Threads, ScanDone(t)
  PROVE  WalkInv'
<1>1. /\ pc[t] = "visit" /\ scan[t] = {} /\ req[t] \in Requests
      /\ pc'[t] = IF req[t].op = "LIST" THEN "unlock" ELSE "pick"
      /\ seen' = seen /\ OnlyMoves(t) /\ UNCHANGED <<req, at, disk, tainted>>
  BY BoxIsUser DEF ScanDone, AtEnd, Go, TypeOK, OnlyMoves, request, cursor
<1>2. /\ Box(t)' = Box(t) /\ Listed(Box(t))' = Listed(Box(t))
      /\ \A j : Whole(Box(t), j)' <=> Whole(Box(t), j)
  BY <1>1 DEF Listed, Whole, Box, disk
<1>3. req[t].op # "SEND" /\ req[t].op \in {"SEND", "LIST", "READ", "DEL"}
  BY <1>1, RequestBoxes DEF WalkInv, Fits
<1>4. Fits(t)'
  BY <1>1, <1>3 DEF Fits, Walking
<1>5. ASSUME Undisturbed(t)'
      PROVE  Knows(t)'
  <2>1. Knows(t)
    BY <1>1, <1>2, <1>5 DEF Undisturbed, WalkInv, Inside
  <2>2. seen[t] = Listed(Box(t)) /\ (req[t].op = "LIST" => \A i \in seen[t] : Whole(Box(t), i))
    BY <1>1, <2>1 DEF Knows, WalkSound
  <2> QED BY <1>1, <1>2, <2>2 DEF Knows, WalkSound, EndSound
<1> QED BY <1>1, <1>4, <1>5, CalmStep

-----------------------------------------------------------------------------
(* READ and DEL after the walk, and failing calls. *)

LEMMA PickWalk ==
  ASSUME TypeOK, WalkInv, NEW t \in Threads, Pick(t)
  PROVE  WalkInv'
<1>0. pc[t] = "pick" /\ pc[t] \in Inside /\ req[t].op \in {"READ", "DEL"}
  BY DEF Pick, Inside, WalkInv, Fits
<1>1. CASE Throw(t, "ERR")
  BY <1>0, <1>1, ThrowWalk
<1>2. CASE ~Throw(t, "ERR")
  <2>1. /\ pc'[t] = IF req[t].op = "READ" THEN "load" ELSE "remove"
        /\ OnlyMoves(t) /\ UNCHANGED <<req, disk, tainted>>
    BY <1>2 DEF Pick, Go, TypeOK, OnlyMoves, request
  <2>2. Fits(t)'
    BY <1>0, <2>1 DEF Fits, Walking
  <2>3. Knows(t)'
    BY <2>1 DEF Knows, WalkSound, EndSound
  <2> QED BY <2>1, <2>2, <2>3, CalmStep
<1> QED BY <1>1, <1>2

LEMMA LoadWalk ==
  ASSUME TypeOK, WalkInv, NEW t \in Threads, Load(t)
  PROVE  WalkInv'
<1>0. /\ pc[t] = "load" /\ pc[t] \in Inside /\ req[t].op = "READ"
      /\ Inflate(t, file[t], "unlock") /\ file[t] \in Ids
  BY DEF Load, Inside, WalkInv, Fits, TypeOK, ThreadOK
<1>1. CASE Whole(Box(t), file[t])
  <2>1. /\ pc'[t] = "unlock" /\ file'[t] = file[t]
        /\ OnlyMoves(t) /\ UNCHANGED <<req, at, disk, tainted>>
    BY <1>0, <1>1 DEF Inflate, Go, TypeOK, OnlyMoves, request
  <2>2. Whole(Box(t), file[t])'
    BY <1>1, <2>1 DEF Whole, Box, disk
  <2>3. Fits(t)'
    BY <2>1 DEF Fits, Walking
  <2>4. Knows(t)'
    BY <1>0, <2>1, <2>2 DEF Knows, WalkSound, EndSound
  <2> QED BY <2>1, <2>3, <2>4, CalmStep
<1>2. CASE ~Whole(Box(t), file[t])
  <2>1. Throw(t, "ERR") \/ (<<Box(t), file[t]>> \in partial /\ Throw(t, "ABORT"))
    BY <1>0, <1>2 DEF Inflate
  <2>2. <<Box(t), file[t]>> \in partial => file[t] \in Listed(Box(t))
    BY <1>0 DEF WalkInv, Listed
  <2> QED BY <1>0, <2>1, <2>2, ThrowWalk
<1> QED BY <1>1, <1>2

LEMMA RemoveWalk ==
  ASSUME ExclusionInv, WalkInv, NEW t \in Threads, Remove(t)
  PROVE  WalkInv'
<1>0. TypeOK /\ pc[t] = "remove" /\ pc[t] \in Inside /\ req[t].op = "DEL"
  BY DEF ExclusionInv, Remove, Inside, WalkInv, Fits
<1>1. CASE Throw(t, "ERR")
  BY <1>0, <1>1, ThrowWalk
<1>2. CASE ~Throw(t, "ERR")
  <2>1. /\ pc'[t] = "unlock" /\ OnlyMoves(t) /\ UNCHANGED <<req, tainted>>
    BY <1>0, <1>2 DEF Remove, Go, TypeOK, OnlyMoves, request, cursor
  <2>2. Fits(t)'
    BY <2>1 DEF Fits, Walking
  <2>3. Knows(t)'
    BY <1>0, <2>1 DEF Knows, WalkSound, EndSound
  <2>4. partial' \subseteq entries'
    BY <1>2 DEF WalkInv, Remove, Without
  <2> QED BY <1>0, <2>1, <2>2, <2>3, <2>4, OtherBoxesSame, DiskStep
<1> QED BY <1>1, <1>2

LEMMA CallFailsWalk ==
  ASSUME TypeOK, WalkInv, NEW t \in Threads, CallFails(t)
  PROVE  WalkInv'
BY ThrowWalk DEF CallFails, Inside

-----------------------------------------------------------------------------
LEMMA NextKeepsWalk ==
  ASSUME ExclusionInv, WalkInv, [Next]_vars
  PROVE  WalkInv'
<1>0. TypeOK
  BY DEF ExclusionInv
<1>1. ASSUME NEW t \in Threads, Receive(t) \/ Serve(t) PROVE WalkInv'
  BY <1>0, <1>1, OutsideWalk, AccessWalk, MkDirWalk, CreateWalk, WriteWalk, EnterWalk,
     ListWalk, IndexWalk, ScanDoneWalk, PickWalk, LoadWalk, RemoveWalk, CallFailsWalk,
     LeaveWalk, DiesWalk DEF Serve, Abort
<1>2. CASE Crash
  BY <1>0, <1>2, DiesWalk DEF Crash
<1>3. CASE UNCHANGED vars
  BY <1>3, ZenonT(60) DEF vars, request, cursor, disk, WalkInv, Fits, Undisturbed, Box, Knows,
                          WalkSound, EndSound, Listed, Whole
<1> QED BY <1>1, <1>2, <1>3 DEF Next

(* What LIST answers is what the mailbox holds when it lets go of it, and what
   READ answers is in it, unless the mutex was unlinked under an opener: for any
   number of threads and mails, and over failing calls and crashes. *)
THEOREM SnapshotCorrect == Spec => []SnapshotUnlessTainted
<1>1. TypeOK' /\ ExclusionInv /\ WalkInv /\ [Next]_vars => ExclusionInv' /\ WalkInv'
  BY NextKeepsExclusion, NextKeepsWalk
<1> QED BY <1>1, TypeCorrect, InitExclusionInv, InitWalkInv, WalkInvAnswers, PTL DEF Spec

(* Over a working disk, and until a mutex is unlinked under an opener, no SEND
   fails, LIST fails only on a mailbox that is missing or holds a file that is not
   whole, and only LIST and READ of a mailbox with a file that a killed process
   left cut off throw what nobody catches. *)
THEOREM FailureCorrect == Spec => []FailureNeedsTaint
<1>1. TypeOK' /\ ExclusionInv /\ WalkInv /\ [Next]_vars => ExclusionInv' /\ WalkInv'
  BY NextKeepsExclusion, NextKeepsWalk
<1> QED BY <1>1, TypeCorrect, InitExclusionInv, InitWalkInv, WalkInvAnswers, PTL DEF Spec

-----------------------------------------------------------------------------
(* How many copies of a mail there are at any point of its delivery, for any
   number of threads, receivers and names, over failing calls and crashes, when
   no name is drawn twice. *)

Copies(u, m) == {i \in Ids : <<u, i, m>> \in delivered \cup lost}
Turns(t, u)  == {k \in Served(t) : req[t].boxes[k] = u}
Sends(t)     == pc[t] # "idle" /\ req[t].op = "SEND"
Naming       == {"mkdir", "create", "write"}
Failed       == {"unwind", "unlink"}

(* A SEND works on a mail of its own and, from the draw to the write, under a
   name that no copy has; it fails when an operation does. *)
OwnMail(t) ==
  Sends(t) => /\ req[t].msg \in sent
              /\ \A s \in Threads \ {t} : Sends(s) => req[s].msg # req[t].msg

NewName(t) ==
  pc[t] \in Naming => /\ file[t] \in drawn
                      /\ \A f \in delivered \cup lost : f[2] # file[t]
                      /\ \A s \in Threads \ {t} : pc[s] \in Naming => file[s] # file[t]

OutcomeFits(t) ==
  /\ pc[t] \notin Failed \cup {"answer"} => outcome[t] = "OK"
  /\ pc[t] \in Failed => outcome[t] # "OK"

(* One copy for each turn that was served, for every user. *)
Counted(t) ==
  Sends(t) => \A u \in Users : /\ IsFiniteSet(Copies(u, req[t].msg))
                               /\ Cardinality(Copies(u, req[t].msg)) = Cardinality(Turns(t, u))

CopyInv ==
  /\ \A f \in delivered \cup lost : f[2] \in drawn /\ f[3] \in sent
  /\ \A t \in Threads : OwnMail(t) /\ NewName(t) /\ OutcomeFits(t) /\ Counted(t)

LEMMA InitCopyInv == Init => CopyInv
BY DEF Init, CopyInv, OwnMail, NewName, OutcomeFits, Counted, Sends, Naming, Failed

LEMMA CopyInvCounts == CopyInv => CopiesMatchProgress
BY DEF CopyInv, Counted, Sends, Copies, Turns, CopiesMatchProgress

-----------------------------------------------------------------------------
(* Most steps write no copy, draw no name and end no turn. *)
Uncounted(t) ==
  /\ OnlyMoves(t) /\ UNCHANGED <<delivered, lost, drawn, sent>>
  /\ pc'[t] \in Naming => pc[t] \in Naming /\ file'[t] = file[t]
  /\ OutcomeFits(t)'
  /\ Sends(t)' => Sends(t) /\ req'[t] = req[t] /\ Served(t)' = Served(t)

LEMMA OthersServed ==
  ASSUME NEW t \in Threads, OnlyMoves(t)
  PROVE  \A s \in Threads \ {t} : Served(s)' = Served(s)
BY DEF OnlyMoves, Served

LEMMA UncountedCopies ==
  ASSUME CopyInv, NEW t \in Threads, Uncounted(t)
  PROVE  CopyInv'
<1>1. \A s \in Threads : Sends(s)' => Sends(s) /\ req'[s] = req[s] /\ Served(s)' = Served(s)
  BY OthersServed DEF Uncounted, OnlyMoves, Sends
<1>2. \A s \in Threads : pc'[s] \in Naming => pc[s] \in Naming /\ file'[s] = file[s]
  BY DEF Uncounted, OnlyMoves
<1>3. \A s \in Threads : OutcomeFits(s)'
  BY DEF Uncounted, OnlyMoves, CopyInv, OutcomeFits
<1>4. \A s \in Threads : OwnMail(s)'
  BY <1>1 DEF CopyInv, OwnMail, Uncounted
<1>5. \A s \in Threads : NewName(s)'
  BY <1>2 DEF CopyInv, NewName, Uncounted
<1>6. \A s \in Threads : Counted(s)'
  <2> SUFFICES ASSUME NEW s \in Threads, Sends(s)', NEW u \in Users
               PROVE  /\ IsFiniteSet(Copies(u, req[s].msg))'
                      /\ (Cardinality(Copies(u, req[s].msg)) = Cardinality(Turns(s, u)))'
    BY DEF Counted
  <2>1. Copies(u, req[s].msg)' = Copies(u, req[s].msg)
    BY <1>1 DEF Copies, Uncounted
  <2>2. Turns(s, u)' = Turns(s, u)
    BY <1>1 DEF Turns
  <2> QED BY <1>1, <2>1, <2>2 DEF CopyInv, Counted
<1> QED BY <1>3, <1>4, <1>5, <1>6 DEF CopyInv, Uncounted

LEMMA ThrowUncounted ==
  ASSUME TypeOK, NEW t \in Threads, NEW o \in {"ERR", "ABORT"}, Throw(t, o),
         pc[t] \in Inside \ {"unlock"}
  PROVE  Uncounted(t)
<1>1. /\ pc'[t] = "unwind" /\ outcome'[t] = o /\ OnlyMoves(t)
      /\ UNCHANGED <<req, at, delivered, lost, drawn, sent>>
  BY DEF Throw, Go, TypeOK, OnlyMoves, request, cursor, mails, bounds
<1>2. Served(t)' = Served(t)
  BY <1>1 DEF Served, Inside
<1>3. OutcomeFits(t)'
  BY <1>1 DEF OutcomeFits, Failed
<1> QED BY <1>1, <1>2, <1>3 DEF Uncounted, Naming, Sends, Inside

(* A step from one place to another with neither of them the end of a turn. *)
LEMMA GoUncounted ==
  ASSUME CopyInv, NEW t \in Threads, OnlyMoves(t), pc[t] \notin {"idle", "answer"},
         UNCHANGED <<req, at, outcome, delivered, lost, drawn, sent>>,
         pc[t] \in Failed <=> pc'[t] \in Failed, pc'[t] # "answer",
         Sends(t) => "unlock" \notin {pc[t], pc'[t]},
         pc'[t] \in Naming => pc[t] \in Naming /\ file'[t] = file[t]
  PROVE  Uncounted(t)
<1>1. OutcomeFits(t)'
  BY DEF CopyInv, OutcomeFits, Failed
<1>2. Sends(t)' => Sends(t)
  BY DEF Sends
<1>3. Sends(t) => Served(t)' = Served(t)
  BY DEF Served
<1> QED BY <1>1, <1>2, <1>3 DEF Uncounted

LEMMA OpenFailsUncounted ==
  ASSUME TypeOK, NEW t \in Threads, OpenFails(t)
  PROVE  Uncounted(t)
<1>1. /\ pc[t] = "open" /\ pc'[t] = "unlink" /\ outcome'[t] = "ABORT" /\ OnlyMoves(t)
      /\ UNCHANGED <<req, at, delivered, lost, drawn, sent>>
  BY DEF OpenFails, Go, TypeOK, OnlyMoves, request, cursor, mails, bounds
<1>2. Served(t)' = Served(t)
  BY <1>1 DEF Served
<1> QED BY <1>1, <1>2 DEF Uncounted, OutcomeFits, Failed, Naming, Sends

LEMMA InsideUncounted ==
  ASSUME TypeOK, CopyInv, WalkInv, NEW t \in Threads,
         \/ Open(t) \/ Lock(t) \/ MkDir(t) \/ Create(t) \/ CallFails(t)
         \/ Enter(t) \/ ListVisit(t) \/ ListStat(t) \/ IndexVisit(t) \/ ScanDone(t)
         \/ Pick(t) \/ Load(t) \/ Remove(t)
  PROVE  Uncounted(t)
<1>1. CASE Open(t)
  BY <1>1, GoUncounted
     DEF Open, Go, TypeOK, OnlyMoves, request, cursor, mails, bounds, Naming, Failed
<1>2. CASE Lock(t)
  BY <1>2, GoUncounted
     DEF Lock, Go, TypeOK, OnlyMoves, request, cursor, mails, bounds, Naming, Failed
<1>3. CASE MkDir(t)
  BY <1>3, GoUncounted, ThrowUncounted
     DEF MkDir, Go, TypeOK, OnlyMoves, request, cursor, mails, bounds, Naming, Failed, Inside
<1>4. CASE Create(t)
  BY <1>4, GoUncounted
     DEF Create, Go, TypeOK, OnlyMoves, request, cursor, mails, bounds, Naming, Failed
<1>5. CASE Enter(t)
  BY <1>5, GoUncounted, ThrowUncounted
     DEF Enter, Go, TypeOK, OnlyMoves, request, mails, bounds, Naming, Failed, Inside
<1>6. CASE ScanDone(t)
  <2>1. req[t].op # "SEND"
    BY <1>6 DEF ScanDone, WalkInv, Fits
  <2> QED BY <1>6, <2>1, GoUncounted
          DEF ScanDone, Go, TypeOK, OnlyMoves, request, cursor, mails, bounds, Naming, Failed, Sends
<1>7. CASE Pick(t)
  BY <1>7, GoUncounted, ThrowUncounted
     DEF Pick, Go, TypeOK, OnlyMoves, request, mails, bounds, Naming, Failed, Inside
<1>8. CASE Remove(t)
  <2>1. req[t].op # "SEND"
    BY <1>8 DEF Remove, WalkInv, Fits
  <2>2. CASE Throw(t, "ERR")
    BY <1>8, <2>2, ThrowUncounted DEF Remove, Inside
  <2>3. CASE ~Throw(t, "ERR")
    BY <1>8, <2>1, <2>3, GoUncounted
       DEF Remove, Go, TypeOK, OnlyMoves, request, cursor, bounds, Naming, Failed, Sends
  <2> QED BY <2>2, <2>3
<1>9. ASSUME NEW i, NEW l \in {"stat", "unlock"}, Inflate(t, i, l), pc[t] \in {"visit", "load"},
             req[t].op # "SEND"
      PROVE  Uncounted(t)
  <2>1. CASE ~Whole(Box(t), i)
    BY <1>9, <2>1, ThrowUncounted DEF Inflate, Inside
  <2>2. CASE Whole(Box(t), i)
    BY <1>9, <2>2, GoUncounted
       DEF Inflate, Go, TypeOK, OnlyMoves, request, mails, bounds, Naming, Failed, Sends
  <2> QED BY <2>1, <2>2
<1>10. ASSUME NEW i, Skip(t, i) \/ Seen(t, i), pc[t] \in {"visit", "stat"}
       PROVE  Uncounted(t)
  BY <1>10, GoUncounted
     DEF Skip, Seen, Go, TypeOK, OnlyMoves, request, mails, bounds, Naming, Failed
<1>11. CASE ListVisit(t) \/ ListStat(t)
  BY <1>9, <1>10, <1>11, ThrowUncounted DEF ListVisit, ListStat, Inside
<1>12. CASE IndexVisit(t)
  BY <1>10, <1>12, ThrowUncounted DEF IndexVisit, Inside
<1>13. CASE Load(t)
  <2>1. req[t].op # "SEND"
    BY <1>13 DEF Load, WalkInv, Fits
  <2> QED BY <1>9, <1>13, <2>1 DEF Load
<1>14. CASE CallFails(t)
  BY <1>14, ThrowUncounted DEF CallFails, Inside
<1> QED BY <1>1, <1>2, <1>3, <1>4, <1>5, <1>6, <1>7, <1>8, <1>11, <1>12, <1>13, <1>14

(* The turns served before the end of a turn are those served after it. *)
LEMMA LeaveUncounted ==
  ASSUME TypeOK, CopyInv, NEW t \in Threads, Unlock(t) \/ Unwind(t) \/ Unlink(t) \/ Answer(t)
  PROVE  Uncounted(t)
<1>1. CASE Unlock(t)
  <2>1. /\ pc[t] = "unlock" /\ OnlyMoves(t)
        /\ UNCHANGED <<req, outcome, delivered, lost, drawn, sent>>
        /\ IF More(t) THEN pc'[t] = "open" /\ at'[t] = at[t] + 1
                      ELSE pc'[t] = "answer" /\ at'[t] = at[t]
    BY <1>1 DEF Unlock, Release, Go, TypeOK, OnlyMoves, mails, bounds
  <2>2. outcome[t] = "OK"
    BY <2>1 DEF CopyInv, OutcomeFits, Failed
  <2>3. req[t].boxes \in Seq(Users)
    BY <2>1, BoxIsUser, RequestBoxes
  <2>4. /\ at[t] \in Nat /\ at[t] <= Len(req[t].boxes) /\ Len(req[t].boxes) \in Nat
        /\ DOMAIN req[t].boxes = 1..Len(req[t].boxes)
    <3>1. at[t] \in Nat /\ at[t] <= Len(req[t].boxes)
      BY <2>1 DEF TypeOK, ThreadOK
    <3>2. Len(req[t].boxes) \in Nat /\ DOMAIN req[t].boxes = 1..Len(req[t].boxes)
      BY <2>3
    <3> QED BY <3>1, <3>2
  <2>5. Served(t)' = Served(t)
    BY <2>1, <2>2, <2>4 DEF Served, More
  <2> QED BY <2>1, <2>2, <2>5 DEF Uncounted, Naming, Sends, OutcomeFits, Failed
<1>2. CASE Unwind(t)
  BY <1>2, GoUncounted DEF Unwind, Release, Go, TypeOK, OnlyMoves, mails, bounds, Naming, Failed
<1>3. CASE Unlink(t)
  <2>1. /\ pc[t] = "unlink" /\ pc'[t] = "answer" /\ OnlyMoves(t)
        /\ UNCHANGED <<req, at, outcome, delivered, lost, drawn, sent>>
    BY <1>3 DEF Unlink, Go, TypeOK, OnlyMoves, request, cursor, mails, bounds
  <2>2. outcome[t] # "OK"
    BY <2>1 DEF CopyInv, OutcomeFits, Failed
  <2>3. Served(t)' = Served(t)
    BY <2>1, <2>2 DEF Served
  <2> QED BY <2>1, <2>3 DEF Uncounted, Naming, Sends, OutcomeFits, Failed
<1>4. CASE Answer(t)
  BY <1>4 DEF Answer, Go, TypeOK, OnlyMoves, cursor, mails, bounds, Uncounted, Naming, Sends,
              OutcomeFits, Failed
<1> QED BY <1>1, <1>2, <1>3, <1>4

-----------------------------------------------------------------------------
(* A new request brings a mail nobody sent, so there are no copies of it. *)
LEMMA ReceiveCopies ==
  ASSUME TypeOK, CopyInv, NEW t \in Threads, Receive(t)
  PROVE  CopyInv'
<1>1. PICK r \in Requests :
        /\ r.msg \notin sent /\ req' = [req EXCEPT ![t] = r]
        /\ sent' = sent \cup ({r.msg} \cap Messages)
        /\ Go(t, IF r.boxes = <<>> THEN "answer" ELSE "open")
  BY DEF Receive
<1>2. /\ pc[t] = "idle" /\ at[t] = 1 /\ OnlyMoves(t) /\ req'[t] = r
      /\ pc'[t] = IF r.boxes = <<>> THEN "answer" ELSE "open"
      /\ UNCHANGED <<at, outcome, delivered, lost, drawn>>
  BY <1>1 DEF Receive, Go, TypeOK, ThreadOK, OnlyMoves, cursor, mails
<1>3. \A s \in Threads \ {t} : /\ Sends(s)' <=> Sends(s)
                               /\ Served(s)' = Served(s) /\ req'[s] = req[s]
  BY <1>2, OthersServed DEF Sends, OnlyMoves
<1>4. Sends(t)' => r.msg \in sent' /\ r.msg \notin sent
  BY <1>1, <1>2, RequestBoxes DEF Sends
<1>5. \A s \in Threads : OwnMail(s)'
  BY <1>1, <1>2, <1>3, <1>4 DEF CopyInv, OwnMail
<1>6. \A s \in Threads : NewName(s)' /\ OutcomeFits(s)'
  BY <1>2 DEF CopyInv, NewName, OutcomeFits, OnlyMoves, Naming, Failed
<1>7. \A s \in Threads \ {t} : Counted(s)'
  <2> TAKE s \in Threads \ {t}
  <2>1. \A u \in Users : /\ Copies(u, req[s].msg)' = Copies(u, req[s].msg)
                         /\ Turns(s, u)' = Turns(s, u)
    BY <1>2, <1>3 DEF Copies, Turns
  <2> QED BY <1>3, <2>1 DEF CopyInv, Counted
<1>8. Counted(t)'
  <2> SUFFICES ASSUME Sends(t)', NEW u \in Users
               PROVE  Copies(u, req[t].msg)' = {} /\ Turns(t, u)' = {}
    BY FS_EmptySet DEF Counted
  <2>1. Copies(u, req[t].msg)' = {}
    BY <1>2, <1>4 DEF CopyInv, Copies
  <2>2. r.boxes \in Seq(Users)
    BY RequestBoxes
  <2>3. DOMAIN r.boxes = 1..Len(r.boxes) /\ Len(r.boxes) \in Nat
    BY <2>2
  <2>4. r.boxes = <<>> => DOMAIN r.boxes = {}
    OBVIOUS
  <2>5. Served(t)' = {}
    BY <1>2, <2>3, <2>4 DEF Served
  <2> QED BY <2>1, <2>5 DEF Turns
<1>9. \A f \in (delivered \cup lost)' : f[2] \in drawn' /\ f[3] \in sent'
  BY <1>1, <1>2 DEF CopyInv
<1> QED BY <1>5, <1>6, <1>7, <1>8, <1>9 DEF CopyInv

LEMMA AccessCopies ==
  ASSUME TypeOK, CopyInv, ~RepeatedIds, NEW t \in Threads, Access(t)
  PROVE  CopyInv'
<1>1. PICK i \in Ids : /\ i \notin drawn /\ file' = [file EXCEPT ![t] = i]
                       /\ drawn' = drawn \cup {i}
  BY DEF Access, Fresh
<1>2. /\ pc[t] = "access" /\ pc'[t] \in {"mkdir", "create"} /\ OnlyMoves(t) /\ file'[t] = i
      /\ UNCHANGED <<req, at, outcome, delivered, lost, sent>>
  BY <1>1 DEF Access, Go, TypeOK, OnlyMoves, request, mails
<1>3. \A s \in Threads : (Sends(s)' <=> Sends(s)) /\ Served(s)' = Served(s)
  BY <1>2, OthersServed DEF Sends, Served, OnlyMoves
<1>4. \A s \in Threads : OwnMail(s)'
  BY <1>2, <1>3 DEF CopyInv, OwnMail
<1>5. \A s \in Threads : NewName(s)'
  BY <1>1, <1>2 DEF CopyInv, NewName, OnlyMoves
<1>6. \A s \in Threads : OutcomeFits(s)'
  BY <1>2 DEF CopyInv, OutcomeFits, OnlyMoves, Failed
<1>7. \A s \in Threads : Counted(s)'
  <2> TAKE s \in Threads
  <2>1. \A u \in Users : /\ Copies(u, req[s].msg)' = Copies(u, req[s].msg)
                         /\ Turns(s, u)' = Turns(s, u)
    BY <1>2, <1>3 DEF Copies, Turns
  <2> QED BY <1>2, <1>3, <2>1 DEF CopyInv, Counted
<1>8. \A f \in (delivered \cup lost)' : f[2] \in drawn' /\ f[3] \in sent'
  BY <1>1, <1>2 DEF CopyInv
<1> QED BY <1>4, <1>5, <1>6, <1>7, <1>8 DEF CopyInv

(* The write of a copy, and its loss at close: one copy more, and one turn. *)
LEMMA WriteCopies ==
  ASSUME TypeOK, CopyInv, NEW t \in Threads, Write(t)
  PROVE  CopyInv'
<1> DEFINE m == req[t].msg
           c == <<Box(t), file[t], m>>
<1>0. /\ pc[t] = "write" /\ req[t].op = "SEND" /\ file[t] \in Ids /\ Box(t) \in Users
      /\ Sends(t) /\ OnlyMoves(t) /\ UNCHANGED <<req, at, file, drawn, sent>>
  BY BoxIsUser DEF Write, Go, TypeOK, ThreadOK, OnlyMoves, Sends, request, cursor, bounds
<1>1. CASE UNCHANGED <<delivered, lost>>
  <2>1. \/ pc'[t] = "unwind" /\ outcome'[t] = "ERR"
        \/ (delivered \cup lost)' = delivered \cup lost \cup {c}
    BY <1>1 DEF Write, Go, TypeOK
  <2>2. c \notin delivered \cup lost
    BY <1>0 DEF CopyInv, NewName, Naming
  <2>3. pc'[t] = "unwind" /\ outcome'[t] = "ERR"
    BY <1>1, <2>1, <2>2
  <2>4. Served(t)' = Served(t)
    BY <1>0, <2>3 DEF Served
  <2>5. Uncounted(t)
    BY <1>0, <1>1, <2>3, <2>4 DEF Uncounted, Naming, OutcomeFits, Failed
  <2> QED BY <2>5, UncountedCopies
<1>2. CASE ~UNCHANGED <<delivered, lost>>
  <2>1. /\ (delivered \cup lost)' = delivered \cup lost \cup {c}
        /\ pc'[t] = "unlock" /\ outcome'[t] = outcome[t]
    BY <1>2 DEF Write, Go, TypeOK
  <2>2. \A s \in Threads \ {t} : Served(s)' = Served(s) /\ (Sends(s)' <=> Sends(s))
    BY <1>0, OthersServed DEF OnlyMoves, Sends
  <2>3. \A f \in (delivered \cup lost)' : f[2] \in drawn' /\ f[3] \in sent'
    BY <1>0, <2>1 DEF CopyInv, NewName, OwnMail, Naming
  <2>4. \A s \in Threads : OwnMail(s)'
    BY <1>0, <2>2 DEF CopyInv, OwnMail
  <2>5. \A s \in Threads : NewName(s)'
    BY <1>0, <2>1 DEF CopyInv, NewName, OnlyMoves, Naming
  <2>6. \A s \in Threads : OutcomeFits(s)'
    BY <1>0, <2>1 DEF CopyInv, OutcomeFits, OnlyMoves, Failed
  <2>7. \A s \in Threads \ {t} : Counted(s)'
    <3> TAKE s \in Threads \ {t}
    <3>1. ASSUME Sends(s)
          PROVE  \A u \in Users : Copies(u, req[s].msg)' = Copies(u, req[s].msg)
      <4>1. req[s].msg # m
        BY <1>0, <3>1 DEF CopyInv, OwnMail
      <4> QED BY <1>0, <2>1, <4>1 DEF Copies
    <3>2. \A u \in Users : Turns(s, u)' = Turns(s, u)
      BY <1>0, <2>2 DEF Turns
    <3> QED BY <1>0, <2>2, <3>1, <3>2 DEF CopyInv, Counted
  <2>8. Counted(t)'
    <3> SUFFICES ASSUME NEW u \in Users
                 PROVE  /\ IsFiniteSet(Copies(u, m)')
                        /\ Cardinality(Copies(u, m)') = Cardinality(Turns(t, u)')
      BY <1>0 DEF Counted
    <3>1. /\ IsFiniteSet(Copies(u, m))
          /\ Cardinality(Copies(u, m)) = Cardinality(Turns(t, u))
      BY <1>0 DEF CopyInv, Counted
    <3>2. Served(t)' = Served(t) \cup {at[t]} /\ at[t] \notin Served(t) /\ IsFiniteSet(Served(t))
      <4>1. req[t].boxes \in Seq(Users)
        BY <1>0, BoxIsUser, RequestBoxes
      <4>2. Len(req[t].boxes) \in Nat /\ DOMAIN req[t].boxes = 1..Len(req[t].boxes)
        BY <4>1
      <4>3. at[t] \in 1..Len(req[t].boxes)
        <5>1. at[t] \in Nat \ {0} /\ at[t] <= Len(req[t].boxes)
          BY <1>0 DEF TypeOK, ThreadOK
        <5> QED BY <4>2, <5>1
      <4>4. Served(t) \in SUBSET (1..Len(req[t].boxes))
        BY <4>2 DEF Served
      <4>5. IsFiniteSet(Served(t))
        <5>1. IsFiniteSet(1..Len(req[t].boxes))
          BY <4>2, FS_Interval
        <5> QED BY <4>4, <5>1, FS_Subset
      <4>6. Served(t)' = {k \in 1..Len(req[t].boxes) : k < at[t] \/ k = at[t]}
        BY <1>0, <2>1, <4>2 DEF Served
      <4>7. Served(t) = {k \in 1..Len(req[t].boxes) : k < at[t]}
        BY <1>0, <4>2 DEF Served
      <4> QED BY <4>3, <4>5, <4>6, <4>7
    <3>3. CASE u = Box(t)
      <4>1. Copies(u, m)' = Copies(u, m) \cup {file[t]} /\ file[t] \notin Copies(u, m)
        BY <1>0, <2>1, <3>3 DEF Copies, CopyInv, NewName, Naming
      <4>2. Turns(t, u)' = Turns(t, u) \cup {at[t]} /\ at[t] \notin Turns(t, u)
        BY <1>0, <3>2, <3>3 DEF Turns, Box
      <4>3. IsFiniteSet(Turns(t, u))
        BY <3>2, FS_Subset DEF Turns
      <4>4. /\ IsFiniteSet(Copies(u, m) \cup {file[t]})
            /\ Cardinality(Copies(u, m) \cup {file[t]}) = Cardinality(Copies(u, m)) + 1
        BY <3>1, <4>1, FS_AddElement
      <4>5. Cardinality(Turns(t, u) \cup {at[t]}) = Cardinality(Turns(t, u)) + 1
        BY <4>2, <4>3, FS_AddElement
      <4> QED BY <3>1, <4>1, <4>2, <4>4, <4>5
    <3>4. CASE u # Box(t)
      <4>1. Copies(u, m)' = Copies(u, m)
        BY <1>0, <2>1, <3>4 DEF Copies
      <4>2. Turns(t, u)' = Turns(t, u)
        BY <1>0, <3>2, <3>4 DEF Turns, Box
      <4> QED BY <3>1, <4>1, <4>2
    <3> QED BY <3>3, <3>4
  <2> QED BY <2>3, <2>4, <2>5, <2>6, <2>7, <2>8 DEF CopyInv
<1> QED BY <1>1, <1>2

LEMMA DiesCopies ==
  ASSUME TypeOK, CopyInv, ProcessDies
  PROVE  CopyInv'
BY DEF CopyInv, ProcessDies, OwnMail, NewName, OutcomeFits, Counted, Sends, Naming, Failed, mails

LEMMA NextKeepsCopies ==
  ASSUME TypeOK, WalkInv, CopyInv, ~RepeatedIds, [Next]_vars
  PROVE  CopyInv'
<1>1. ASSUME NEW t \in Threads, Receive(t) \/ Serve(t) PROVE CopyInv'
  BY <1>1, ReceiveCopies, AccessCopies, WriteCopies, OpenFailsUncounted,
     InsideUncounted, LeaveUncounted, UncountedCopies, DiesCopies DEF Serve, Abort
<1>2. CASE Crash
  BY <1>2, DiesCopies DEF Crash
<1>3. CASE UNCHANGED vars
  BY <1>3 DEF vars, request, cursor, mails, bounds, CopyInv, OwnMail, NewName, OutcomeFits,
              Counted, Sends, Copies, Turns, Served
<1> QED BY <1>1, <1>2, <1>3 DEF Next

(* At any point of a SEND to any number of receivers, over failing calls and
   crashes, each mailbox has one copy for each receiver line served so far. *)
THEOREM CopiesCorrect ==
  ASSUME ~RepeatedIds
  PROVE  Spec => []CopiesMatchProgress
<1>1. TypeOK' /\ ExclusionInv /\ WalkInv /\ CopyInv /\ [Next]_vars
        => ExclusionInv' /\ WalkInv' /\ CopyInv'
  BY NextKeepsExclusion, NextKeepsWalk, NextKeepsCopies DEF ExclusionInv
<1> QED BY <1>1, TypeCorrect, InitExclusionInv, InitWalkInv, InitCopyInv, CopyInvCounts, PTL
        DEF Spec

-----------------------------------------------------------------------------
(* The store, over failures and crashes, with exclusion or without. *)

(* Who has drawn a name has it for itself, and no file bore it before the thread
   creates its own; until it is written, that file holds no mail. *)
OwnName(t) ==
  /\ file[t] \in drawn
  /\ \A s \in Threads \ {t} : pc[s] \in Naming => file[s] # file[t]
  /\ pc[t] \in {"mkdir", "create"} =>
       \A u \in Users : /\ <<u, file[t]>> \notin entries \cup deleted
                        /\ \A f \in delivered : f[2] # file[t]
  /\ pc[t] = "write" =>
       /\ <<Box(t), file[t]>> \in entries \cup deleted
       /\ \A f \in delivered : <<f[1], f[2]>> # <<Box(t), file[t]>>

NamesInv ==
  /\ \A t \in Threads : pc[t] \in Naming => OwnName(t)
  /\ \A p \in entries \cup deleted : p[2] \in drawn
  /\ \A f \in delivered : f[2] \in drawn
  /\ \A f, g \in delivered : <<f[1], f[2]>> = <<g[1], g[2]>> => f = g

StoreInv == NamesInv /\ NoMailLost

files == <<entries, stored, delivered, deleted, drawn>>

LEMMA InitStoreInv == Init => StoreInv
BY DEF Init, StoreInv, NamesInv, NoMailLost, Naming

-----------------------------------------------------------------------------
(* Most steps neither touch a file nor take or give up a name. *)
Keeps(t) ==
  /\ UNCHANGED files
  /\ \A s \in Threads \ {t} : /\ pc'[s] = pc[s] /\ file'[s] = file[s]
                              /\ req'[s] = req[s] /\ at'[s] = at[s]
  /\ pc'[t] \notin Naming

LEMMA KeepsStoreInv ==
  ASSUME StoreInv, NEW t \in Threads, Keeps(t)
  PROVE  StoreInv'
<1>1. \A s \in Threads \ {t} : Box(s)' = Box(s)
  BY DEF Keeps, Box
<1>2. ASSUME NEW s \in Threads, pc'[s] \in Naming
      PROVE  OwnName(s)'
  BY <1>1, <1>2 DEF Keeps, files, StoreInv, NamesInv, OwnName
<1>3. NoMailLost'
  BY DEF Keeps, files, StoreInv, NoMailLost
<1> QED BY <1>2, <1>3 DEF Keeps, files, StoreInv, NamesInv

LEMMA ThrowKeeps ==
  ASSUME TypeOK, NEW t \in Threads, NEW o, Throw(t, o)
  PROVE  Keeps(t)
BY DEF Throw, Go, Keeps, files, request, cursor, disk, mails, bounds, TypeOK, Naming

LEMMA WalkKeeps ==
  ASSUME TypeOK, NEW t \in Threads,
         \/ Enter(t) \/ ListVisit(t) \/ ListStat(t) \/ IndexVisit(t) \/ ScanDone(t)
         \/ Pick(t) \/ Load(t) \/ CallFails(t)
  PROVE  Keeps(t)
<1>1. ASSUME NEW i, Skip(t, i), pc[t] = "visit"
      PROVE  Keeps(t)
  BY <1>1 DEF Skip, Keeps, files, request, disk, mails, bounds, Naming
<1>2. ASSUME NEW i, Seen(t, i)
      PROVE  Keeps(t)
  BY <1>2 DEF Seen, Go, Keeps, files, request, disk, mails, bounds, TypeOK, Naming
<1>3. ASSUME NEW i, NEW l \in {"stat", "unlock"}, Inflate(t, i, l)
      PROVE  Keeps(t)
  BY <1>3, ThrowKeeps
     DEF Inflate, Go, Keeps, files, request, disk, mails, bounds, TypeOK, Naming
<1>4. CASE Enter(t) \/ ScanDone(t)
  BY <1>4, ThrowKeeps DEF Enter, ScanDone, Go, Keeps, files, request, cursor, disk, mails, bounds,
                          TypeOK, Naming
<1>5. CASE ListVisit(t) \/ ListStat(t) \/ IndexVisit(t)
  BY <1>1, <1>2, <1>3, <1>5, ThrowKeeps DEF ListVisit, ListStat, IndexVisit
<1>6. CASE Pick(t)
  BY <1>6, ThrowKeeps
     DEF Pick, Go, Keeps, files, request, disk, mails, bounds, TypeOK, Naming
<1>7. CASE Load(t) \/ CallFails(t)
  BY <1>3, <1>7, ThrowKeeps DEF Load, CallFails
<1> QED BY <1>4, <1>5, <1>6, <1>7

LEMMA LeaveKeeps ==
  ASSUME TypeOK, NEW t \in Threads,
         \/ Receive(t) \/ Open(t) \/ OpenFails(t) \/ Lock(t)
         \/ Unlock(t) \/ Unwind(t) \/ Unlink(t) \/ Answer(t)
  PROVE  Keeps(t)
<1>1. CASE Receive(t)
  BY <1>1 DEF Receive, Go, Keeps, files, cursor, disk, mails, TypeOK, Naming
<1>2. CASE Open(t) \/ OpenFails(t) \/ Lock(t)
  BY <1>2 DEF Open, OpenFails, Lock, Go, Keeps, files, request, cursor, disk, mails, bounds, TypeOK, Naming
<1>3. CASE Unlock(t) \/ Unwind(t)
  BY <1>3 DEF Unlock, Unwind, Release, Go, Keeps, files, disk, mails, bounds, TypeOK, Naming
<1>4. CASE Unlink(t) \/ Answer(t)
  BY <1>4 DEF Unlink, Answer, Go, Keeps, files, request, cursor, disk, mails, bounds, TypeOK, Naming
<1> QED BY <1>1, <1>2, <1>3, <1>4

-----------------------------------------------------------------------------
(* The steps of a SEND that touch names and files. *)

LEMMA DrawStoreInv ==
  ASSUME TypeOK, StoreInv, ~RepeatedIds, NEW t \in Threads, Access(t)
  PROVE  StoreInv'
<1>1. PICK i \in Ids : /\ i \notin drawn /\ file' = [file EXCEPT ![t] = i]
                       /\ drawn' = drawn \cup {i}
  BY DEF Access, Fresh
<1>2. /\ UNCHANGED <<entries, stored, delivered, deleted, req, at>>
      /\ pc'[t] \in {"mkdir", "create"}
      /\ \A s \in Threads \ {t} : pc'[s] = pc[s]
  BY DEF Access, Go, request, disk, mails, TypeOK
<1>3. file'[t] = i /\ \A s \in Threads \ {t} : file'[s] = file[s]
  BY <1>1 DEF TypeOK
<1>4. \A s \in Threads : Box(s)' = Box(s)
  BY <1>2 DEF Box
<1>5. OwnName(t)'
  <2>1. \A s \in Threads \ {t} : pc[s] \in Naming => file[s] # i
    BY <1>1 DEF StoreInv, NamesInv, OwnName
  <2>2. \A u \in Users : <<u, i>> \notin entries \cup deleted
    BY <1>1 DEF StoreInv, NamesInv
  <2>3. \A f \in delivered : f[2] # i
    BY <1>1 DEF StoreInv, NamesInv
  <2> QED BY <1>1, <1>2, <1>3, <2>1, <2>2, <2>3 DEF OwnName
<1>6. ASSUME NEW s \in Threads \ {t}, pc[s] \in Naming
      PROVE  OwnName(s)'
  BY <1>1, <1>2, <1>3, <1>4, <1>6 DEF StoreInv, NamesInv, OwnName
<1>7. NamesInv'
  BY <1>1, <1>2, <1>5, <1>6 DEF StoreInv, NamesInv
<1> QED BY <1>2, <1>7 DEF StoreInv, NoMailLost

LEMMA MkDirStoreInv ==
  ASSUME TypeOK, StoreInv, NEW t \in Threads, MkDir(t)
  PROVE  StoreInv'
<1>1. CASE Throw(t, "ERR")
  BY <1>1, ThrowKeeps, KeepsStoreInv
<1>2. CASE ~Throw(t, "ERR")
  <2>1. /\ UNCHANGED <<entries, stored, delivered, deleted, drawn, file, req, at>>
        /\ pc[t] = "mkdir" /\ pc'[t] = "create"
        /\ \A s \in Threads \ {t} : pc'[s] = pc[s]
    BY <1>2 DEF MkDir, Go, request, cursor, mails, bounds, TypeOK
  <2>2. \A s \in Threads : Box(s)' = Box(s)
    BY <2>1 DEF Box
  <2>3. ASSUME NEW s \in Threads, pc'[s] \in Naming
        PROVE  OwnName(s)'
    BY <2>1, <2>2, <2>3 DEF StoreInv, NamesInv, OwnName, Naming
  <2>4. NamesInv'
    BY <2>1, <2>3 DEF StoreInv, NamesInv
  <2> QED BY <2>1, <2>4 DEF StoreInv, NoMailLost
<1> QED BY <1>1, <1>2

(* Nothing is emptied by the creation of a file, as no file had its name. *)
LEMMA CreateKeepsMails ==
  ASSUME TypeOK, StoreInv, NEW t \in Threads, Create(t)
  PROVE  stored' = stored
<1>1. \A f \in delivered : f[2] # file[t]
  <2>1. PICK u \in Users : TRUE
    BY BoxIsUser DEF Create
  <2> QED BY <2>1 DEF Create, StoreInv, NamesInv, OwnName, Naming
<1>2. \A f \in stored : <<f[1], f[2]>> # <<Box(t), file[t]>>
  BY <1>1 DEF StoreInv, NoMailLost
<1> QED BY <1>2 DEF Create, Without

(* Nor by a write that is cut off, as nobody delivered under its name. *)
LEMMA CutOffKeepsMails ==
  ASSUME StoreInv, NEW cut \in SUBSET Writing, CutOff(cut)
  PROVE  stored' = stored
<1>1. ASSUME NEW f \in stored
      PROVE  <<f[1], f[2]>> \notin cut
  <2>1. ASSUME NEW t \in Threads, pc[t] = "write"
        PROVE  <<f[1], f[2]>> # <<Box(t), file[t]>>
    BY <1>1, <2>1 DEF StoreInv, NoMailLost, NamesInv, OwnName, Naming
  <2> QED BY <2>1 DEF Writing
<1> QED BY <1>1 DEF CutOff

LEMMA CreateStoreInv ==
  ASSUME TypeOK, StoreInv, NEW t \in Threads, Create(t)
  PROVE  StoreInv'
<1>1. /\ entries' = entries \cup {<<Box(t), file[t]>>} /\ stored' = stored
      /\ UNCHANGED <<delivered, deleted, drawn, file, req, at>>
      /\ pc[t] = "create" /\ pc'[t] = "write"
      /\ \A s \in Threads \ {t} : pc'[s] = pc[s]
  BY CreateKeepsMails DEF Create, Go, request, cursor, mails, bounds, TypeOK
<1>2. \A s \in Threads : Box(s)' = Box(s)
  BY <1>1 DEF Box
<1>3. Box(t) \in Users /\ OwnName(t)
  BY <1>1, BoxIsUser DEF StoreInv, NamesInv, Naming
<1>4. OwnName(t)'
  BY <1>1, <1>2, <1>3 DEF OwnName
<1>5. ASSUME NEW s \in Threads \ {t}, pc[s] \in Naming
      PROVE  OwnName(s)'
  <2>1. OwnName(s) /\ file[s] # file[t]
    BY <1>1, <1>5 DEF StoreInv, NamesInv, OwnName, Naming
  <2> QED BY <1>1, <1>2, <2>1 DEF OwnName
<1>6. NamesInv'
  BY <1>1, <1>3, <1>4, <1>5 DEF StoreInv, NamesInv, OwnName
<1> QED BY <1>1, <1>6 DEF StoreInv, NoMailLost

(* A mail goes to the file that has its name, or has none any more. *)
LEMMA WriteDelivers ==
  ASSUME TypeOK, StoreInv, NEW t \in Threads, Write(t)
  PROVE  \/ Keeps(t) /\ UNCHANGED <<stored, delivered>>
         \/ \E f \in Users \X Ids \X Messages :
              /\ f = <<Box(t), file[t], req[t].msg>>
              /\ \A g \in delivered : <<g[1], g[2]>> # <<f[1], f[2]>>
              /\ delivered' = delivered \cup {f}
              /\ \/ stored' = stored \cup {f}
                 \/ stored' = stored /\ <<f[1], f[2]>> \in deleted
<1> DEFINE f == <<Box(t), file[t], req[t].msg>>
<1>1. f \in Users \X Ids \X Messages /\ pc[t] = "write"
  BY BoxIsUser, RequestBoxes DEF Write, TypeOK, ThreadOK
<1>2. OwnName(t)
  BY <1>1 DEF StoreInv, NamesInv, Naming
<1>3. \A g \in delivered : <<g[1], g[2]>> # <<f[1], f[2]>>
  BY <1>1, <1>2 DEF OwnName
<1>4. Without(stored, Box(t), file[t]) = stored
  BY <1>3 DEF Without, StoreInv, NoMailLost
<1>5. CASE Go(t, "unlock") /\ UNCHANGED lost /\ delivered' = delivered \cup {f}
              /\ stored' = IF <<Box(t), file[t]>> \in entries THEN stored \cup {f} ELSE stored
  BY <1>1, <1>2, <1>3, <1>5 DEF OwnName
<1>6. CASE UNCHANGED <<stored, delivered>>
  <2>1. /\ UNCHANGED <<stored, delivered, entries, deleted, drawn, file, req, at>>
        /\ pc' = [pc EXCEPT ![t] = "unlock"] \/ pc' = [pc EXCEPT ![t] = "unwind"]
    BY <1>6 DEF Write, Go, request, cursor, bounds
  <2> QED BY <2>1 DEF Keeps, files, TypeOK, Naming
<1>7. CASE CutOff({<<Box(t), file[t]>>} \cap entries) /\ UNCHANGED delivered
  <2>1. {<<Box(t), file[t]>>} \cap entries \subseteq Writing
    BY <1>1 DEF Writing
  <2> QED BY <1>6, <1>7, <2>1, CutOffKeepsMails
<1> QED BY <1>4, <1>5, <1>6, <1>7 DEF Write

LEMMA WriteStoreInv ==
  ASSUME TypeOK, StoreInv, NEW t \in Threads, Write(t)
  PROVE  StoreInv'
<1>1. CASE Keeps(t)
  BY <1>1, KeepsStoreInv
<1>2. ASSUME NEW f \in Users \X Ids \X Messages,
             f = <<Box(t), file[t], req[t].msg>>,
             \A g \in delivered : <<g[1], g[2]>> # <<f[1], f[2]>>,
             delivered' = delivered \cup {f},
             \/ stored' = stored \cup {f}
             \/ stored' = stored /\ <<f[1], f[2]>> \in deleted
      PROVE  StoreInv'
  <2>1. /\ UNCHANGED <<entries, deleted, drawn, file, req, at>>
        /\ pc[t] = "write" /\ pc'[t] \notin Naming
        /\ \A s \in Threads \ {t} : pc'[s] = pc[s]
    BY DEF Write, Go, request, cursor, bounds, TypeOK, Naming
  <2>2. \A s \in Threads : Box(s)' = Box(s)
    BY <2>1 DEF Box
  <2>3. f[2] = file[t] /\ file[t] \in drawn
    BY <1>2, <2>1 DEF StoreInv, NamesInv, OwnName, Naming
  <2>4. ASSUME NEW s \in Threads \ {t}, pc[s] \in Naming
        PROVE  OwnName(s)'
    <3>1. OwnName(s) /\ file[s] # f[2]
      BY <2>1, <2>3, <2>4 DEF StoreInv, NamesInv, OwnName, Naming
    <3> QED BY <1>2, <2>1, <2>2, <3>1 DEF OwnName
  <2>5. NamesInv'
    BY <1>2, <2>1, <2>3, <2>4 DEF StoreInv, NamesInv
  <2>6. NoMailLost'
    BY <1>2, <2>1 DEF StoreInv, NoMailLost
  <2> QED BY <2>5, <2>6 DEF StoreInv
<1> QED BY <1>1, <1>2, WriteDelivers

(* DEL takes one mail, or a file that holds none. *)
LEMMA RemoveTakesOne ==
  ASSUME TypeOK, StoreInv, NEW t \in Threads, Remove(t)
  PROVE  \/ Keeps(t) /\ UNCHANGED <<stored, delivered>>
         \/ /\ UNCHANGED <<delivered, drawn, file, req, at>>
            /\ <<Box(t), file[t]>> \in Users \X Ids
            /\ pc'[t] \notin Naming /\ \A s \in Threads \ {t} : pc'[s] = pc[s]
            /\ entries' = entries \ {<<Box(t), file[t]>>}
            /\ deleted' = deleted \cup {<<Box(t), file[t]>>}
            /\ <<Box(t), file[t]>> \in entries
            /\ \/ stored' = stored
               \/ \E f \in stored : stored' = stored \ {f} /\ <<f[1], f[2]>> = <<Box(t), file[t]>>
            /\ \A f \in stored' : <<f[1], f[2]>> # <<Box(t), file[t]>>
<1>1. CASE Throw(t, "ERR")
  BY <1>1, ThrowKeeps DEF Throw, disk, mails
<1>2. CASE ~Throw(t, "ERR")
  <2>1. /\ UNCHANGED <<delivered, drawn, file, req, at>>
        /\ pc'[t] \notin Naming /\ \A s \in Threads \ {t} : pc'[s] = pc[s]
        /\ entries' = Without(entries, Box(t), file[t])
        /\ stored' = Without(stored, Box(t), file[t])
        /\ deleted' = deleted \cup {<<Box(t), file[t]>>}
        /\ file[t] \in Listed(Box(t))
    BY <1>2 DEF Remove, Go, request, cursor, bounds, TypeOK, Naming
  <2>2. <<Box(t), file[t]>> \in Users \X Ids /\ <<Box(t), file[t]>> \in entries
    BY <2>1, BoxIsUser DEF Remove, Listed
  <2>3. entries' = entries \ {<<Box(t), file[t]>>}
    BY <2>1 DEF Without, TypeOK
  <2>4. \/ stored' = stored
        \/ \E f \in stored : stored' = stored \ {f} /\ <<f[1], f[2]>> = <<Box(t), file[t]>>
    BY <2>1 DEF Without, StoreInv, NamesInv, NoMailLost
  <2>5. \A f \in stored' : <<f[1], f[2]>> # <<Box(t), file[t]>>
    BY <2>1 DEF Without
  <2> QED BY <2>1, <2>2, <2>3, <2>4, <2>5
<1> QED BY <1>1, <1>2

LEMMA RemoveStoreInv ==
  ASSUME TypeOK, StoreInv, NEW t \in Threads, Remove(t)
  PROVE  StoreInv'
<1> DEFINE p == <<Box(t), file[t]>>
<1>1. CASE Keeps(t)
  BY <1>1, KeepsStoreInv
<1>2. CASE /\ UNCHANGED <<delivered, drawn, file, req, at>>
           /\ p \in Users \X Ids
           /\ pc'[t] \notin Naming /\ \A s \in Threads \ {t} : pc'[s] = pc[s]
           /\ entries' = entries \ {p} /\ deleted' = deleted \cup {p} /\ p \in entries
           /\ \/ stored' = stored
              \/ \E f \in stored : stored' = stored \ {f} /\ <<f[1], f[2]>> = p
  <2>1. \A s \in Threads : Box(s)' = Box(s)
    BY <1>2 DEF Box
  <2>2. entries' \cup deleted' = entries \cup deleted
    BY <1>2
  <2>3. ASSUME NEW s \in Threads \ {t}, pc[s] \in Naming
        PROVE  OwnName(s)'
    BY <1>2, <2>1, <2>2, <2>3 DEF StoreInv, NamesInv, OwnName
  <2>4. NamesInv'
    BY <1>2, <2>2, <2>3 DEF StoreInv, NamesInv
  <2>5. NoMailLost'
    BY <1>2 DEF StoreInv, NoMailLost
  <2> QED BY <2>4, <2>5 DEF StoreInv
<1> QED BY <1>1, <1>2, RemoveTakesOne

-----------------------------------------------------------------------------
LEMMA DiesStoreInv ==
  ASSUME StoreInv, ProcessDies
  PROVE  StoreInv' /\ UNCHANGED <<stored, delivered>>
<1>1. stored' = stored
  BY CutOffKeepsMails DEF ProcessDies
<1> QED BY <1>1 DEF ProcessDies, StoreInv, NamesInv, NoMailLost, Naming, mails

LEMMA NextStoreInv ==
  ASSUME TypeOK, StoreInv, ~RepeatedIds, [Next]_vars
  PROVE  StoreInv'
<1>1. ASSUME NEW t \in Threads, Receive(t) \/ Serve(t)
      PROVE  StoreInv'
  <2>1. CASE Abort(t)
    BY <2>1, DiesStoreInv DEF Abort
  <2> QED BY <1>1, <2>1, WalkKeeps, LeaveKeeps, KeepsStoreInv, DrawStoreInv, MkDirStoreInv,
             CreateStoreInv, WriteStoreInv, RemoveStoreInv DEF Serve
<1>2. CASE Crash
  BY <1>2, DiesStoreInv DEF Crash
<1>3. CASE UNCHANGED vars
  <2>1. UNCHANGED files /\ UNCHANGED <<pc, file, req, at>>
    BY <1>3 DEF vars, files, request, cursor, disk, mails, bounds
  <2>2. \A s \in Threads : Box(s)' = Box(s)
    BY <2>1 DEF Box
  <2> QED BY <2>1, <2>2 DEF files, StoreInv, NamesInv, OwnName, NoMailLost
<1> QED BY <1>1, <1>2, <1>3 DEF Next

(* A mail that was written stays in its mailbox until its file is deleted: names
   that do not repeat are enough, whatever fails and whoever is inside. *)
THEOREM NoMailLostCorrect ==
  ASSUME ~RepeatedIds
  PROVE  Spec => []NoMailLost
<1>1. TypeOK /\ StoreInv /\ [Next]_vars => StoreInv'
  BY NextStoreInv
<1>2. StoreInv => NoMailLost
  BY DEF StoreInv
<1> QED BY <1>1, <1>2, TypeCorrect, InitStoreInv, PTL DEF Spec

-----------------------------------------------------------------------------
(* The refinement: the mails on offer are the files that hold one, and those
   gone were delivered and have no file any more. *)

LEMMA InitStore == Init => Store!Init
BY DEF Init, Store!Init

LEMMA SameStore ==
  ASSUME UNCHANGED <<stored, delivered>>
  PROVE  [Store!Next]_(Store!vars)
BY DEF Store!vars

(* The write of a mail delivers it, into nowhere if its file was deleted. *)
LEMMA WriteStore ==
  ASSUME TypeOK, StoreInv, NEW t \in Threads, Write(t)
  PROVE  [Store!Next]_(Store!vars)
<1>1. CASE UNCHANGED <<stored, delivered>>
  BY <1>1, SameStore
<1>2. ASSUME NEW f \in Users \X Ids \X Messages,
             \A g \in delivered : <<g[1], g[2]>> # <<f[1], f[2]>>,
             delivered' = delivered \cup {f},
             stored' = stored \cup {f} \/ stored' = stored
      PROVE  Store!Next
  <2>1. PICK u \in Users, i \in Ids, m \in Messages : f = <<u, i, m>>
    BY <1>2
  <2>2. f \notin delivered /\ stored \subseteq delivered
    BY <1>2 DEF StoreInv, NoMailLost
  <2>3. \A n \in Messages : <<u, i, n>> \notin stored \cup (delivered \ stored)
    BY <1>2, <2>1, <2>2
  <2>4. CASE stored' = stored \cup {f}
    <3>1. delivered' \ stored' = delivered \ stored
      BY <1>2, <2>2, <2>4
    <3>2. Store!Deliver(u, i, m)
      BY <2>1, <2>3, <2>4, <3>1 DEF Store!Deliver
    <3> QED BY <3>2 DEF Store!Next
  <2>5. CASE stored' = stored
    <3>1. delivered' \ stored' = (delivered \ stored) \cup {f}
      BY <1>2, <2>2, <2>5
    <3>2. Store!Vanish(u, i, m)
      BY <2>1, <2>3, <2>5, <3>1 DEF Store!Vanish
    <3> QED BY <3>2 DEF Store!Next
  <2> QED BY <1>2, <2>4, <2>5
<1> QED BY <1>1, <1>2, WriteDelivers

LEMMA RemoveStore ==
  ASSUME TypeOK, StoreInv, NEW t \in Threads, Remove(t)
  PROVE  [Store!Next]_(Store!vars)
<1>1. CASE UNCHANGED <<stored, delivered>>
  BY <1>1, SameStore
<1>2. ASSUME NEW f \in stored, stored' = stored \ {f}, delivered' = delivered
      PROVE  Store!Next
  <2>1. delivered' \ stored' = (delivered \ stored) \cup {f}
    BY <1>2 DEF StoreInv, NoMailLost
  <2>2. Store!Delete(f)
    BY <1>2, <2>1 DEF Store!Delete
  <2> QED BY <2>2 DEF Store!Next
<1> QED BY <1>1, <1>2, RemoveTakesOne

LEMMA StepStore ==
  ASSUME TypeOK, StoreInv, ~RepeatedIds, [Next]_vars
  PROVE  [Store!Next]_(Store!vars)
<1>1. ASSUME NEW t \in Threads, Receive(t) \/ Serve(t)
      PROVE  [Store!Next]_(Store!vars)
  <2>1. CASE Write(t) \/ Remove(t)
    BY <2>1, WriteStore, RemoveStore
  <2>2. CASE Create(t)
    <3>1. UNCHANGED <<stored, delivered>>
      BY <2>2, CreateKeepsMails DEF Create, mails
    <3> QED BY <3>1, SameStore
  <2>3. CASE Access(t) \/ MkDir(t)
    <3>1. UNCHANGED <<stored, delivered>>
      BY <2>3 DEF Access, MkDir, Throw, disk, mails
    <3> QED BY <3>1, SameStore
  <2>4. CASE Abort(t)
    <3>1. UNCHANGED <<stored, delivered>>
      BY <2>4, DiesStoreInv DEF Abort
    <3> QED BY <3>1, SameStore
  <2>5. CASE Keeps(t)
    <3>1. UNCHANGED <<stored, delivered>>
      BY <2>5 DEF Keeps, files
    <3> QED BY <3>1, SameStore
  <2> QED BY <1>1, <2>1, <2>2, <2>3, <2>4, <2>5, WalkKeeps, LeaveKeeps DEF Serve
<1>2. CASE Crash
  <2>1. UNCHANGED <<stored, delivered>>
    BY <1>2, DiesStoreInv DEF Crash
  <2> QED BY <2>1, SameStore
<1>3. CASE UNCHANGED vars
  <2>1. UNCHANGED <<stored, delivered>>
    BY <1>3 DEF vars, disk, mails
  <2> QED BY <2>1, SameStore
<1> QED BY <1>1, <1>2, <1>3 DEF Next

(* The spool implements the abstract store: a mail appears whole and in one
   step, is never replaced, and its name is not given out again. *)
THEOREM StoreCorrect ==
  ASSUME ~RepeatedIds
  PROVE  Spec => StoreSpec
<1>1. TypeOK /\ StoreInv /\ [Next]_vars => StoreInv'
  BY NextStoreInv
<1>2. TypeOK /\ StoreInv /\ [Next]_vars => [Store!Next]_(Store!vars)
  BY StepStore
<1> QED BY <1>1, <1>2, TypeCorrect, InitStoreInv, InitStore, PTL DEF Spec, StoreSpec, Store!Spec
=============================================================================
