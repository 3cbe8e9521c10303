----------------------------- MODULE MailSpool -----------------------------
(* The mail spool of the server (ThreadedFileManager.cpp): one directory per
   user, one file per mail, shared by the threads that serve the clients.  An
   operation holds the named mutex of the mailbox it works on: a kernel object
   found by the user's name, created on first use, and UNLINKED by whichever
   operation fails (the catch(...) blocks).  An unlinked object stays valid for
   those who have it open; the next to ask for the name gets a new one.

   A step is a system call, or a run of steps no other thread can tell apart.
   The kernel's names and the files outlive the process; a mutex whose holder
   died is never released. *)
EXTENDS Integers, Sequences, FiniteSets

CONSTANTS Threads,       \* the threads serving a client each
          Users,         \* mailbox owners, each the name of a directory and a mutex
          Messages,      \* mails; no two SEND requests carry the same one
          Ids,           \* what getUniqueMessageId can draw
          WorkingDir,    \* the names in the server's working directory
          Mutexes,       \* kernel mutex objects
          None,          \* "no object", "no owner", "no request"
          Dead,          \* the owner of a mutex whose holder's process died
          Ops,           \* the operations in use
          MaxReceivers,  \* bound: receivers of one SEND
          MaxRequests,   \* bound: requests a thread serves
          MaxCrashes,    \* bound: times the process is killed
          RepeatedIds,   \* may a name be drawn twice?
          DiskFails      \* may calls on files and named mutexes fail?

Requests ==
  [op : {"SEND"} \cap Ops, boxes : UNION {[1..n -> Users] : n \in 0..MaxReceivers},
   msg : Messages]
  \cup [op : Ops \ {"SEND"}, boxes : [1..1 -> Users], msg : {None}]

(* The last line keeps open but unlinked files out: a file deleted while it is
   being written does not come back under the same name. *)
ASSUME SpoolAssumption ==
  /\ None \notin Threads \cup Mutexes \cup Messages \cup Ids \cup Requests
  /\ Dead \notin Threads \cup {None}
  /\ Ops \subseteq {"SEND", "LIST", "READ", "DEL"}
  /\ MaxReceivers \in Nat /\ MaxRequests \in Nat /\ MaxCrashes \in Nat
  /\ RepeatedIds \in BOOLEAN /\ DiskFails \in BOOLEAN
  /\ RepeatedIds => "DEL" \notin Ops

VARIABLES
  pc,        \* [Threads -> control location]
  req,       \* [Threads -> the request being served, or None]
  at,        \* [Threads -> which receiver it is being served for]
  outcome,   \* [Threads -> "OK", "ERR" or "ABORT" (an exception nobody catches)]
  file,      \* [Threads -> the file it works on]
  scan,      \* [Threads -> names the directory iterator has yet to return]
  seen,      \* [Threads -> names it returned that were looked at]
  names,     \* [Users -> the mutex object a user's name denotes, or None]
  handle,    \* [Threads -> the mutex object it has open, or None]
  owner,     \* [Mutexes -> the thread that holds it, None or Dead]
  dirs,      \* users whose directory exists
  entries,   \* files that exist: pairs <<user, id>>
  stored,    \* files that hold a whole mail: triples <<user, id, message>>
  partial,   \* files cut off inside a mail; the others are empty
  drawn,     \* ids drawn so far
  sent,      \* mails that arrived so far
  issued,    \* [Threads -> requests it took]
  crashes,   \* how often the process was killed
  delivered, \* history: mails written
  lost,      \* history: mails whose flush at close failed unnoticed
  deleted,   \* history: files removed by DEL
  tainted    \* history: users whose mutex was unlinked under another opener,
             \* until the last of the openers is gone

request == <<req, at, issued>>
cursor  == <<file, scan, seen>>
mutex   == <<names, handle, owner>>
disk    == <<dirs, entries, stored, partial>>
mails   == <<delivered, lost, deleted>>
bounds  == <<drawn, sent, crashes>>
vars    == <<pc, outcome, request, cursor, mutex, disk, mails, bounds, tainted>>

(* Inside: the thread's scoped_lock is alive.  Opened: so is its named_mutex. *)
Inside == {"access", "mkdir", "create", "write", "enter", "visit", "stat", "pick",
           "load", "remove", "unlock", "unwind"}
Opened == Inside \cup {"lock"}
Locations == Opened \cup {"idle", "open", "unlink", "answer"}

Box(t)       == req[t].boxes[at[t]]
Openers(u)   == {t \in Threads : pc[t] \in Opened /\ Box(t) = u}
Holders(u)   == {t \in Threads : pc[t] \in Inside /\ Box(t) = u}
Unused       == {m \in Mutexes : /\ \A u \in Users : names[u] # m
                                 /\ \A t \in Threads : handle[t] # m}
Listed(u)    == {i \in Ids : <<u, i>> \in entries}
Whole(u, i)  == \E m \in Messages : <<u, i, m>> \in stored
NoNames      == [u \in Users |-> None]

Init ==
  /\ pc = [t \in Threads |-> "idle"] /\ req = [t \in Threads |-> None]
  /\ at = [t \in Threads |-> 1] /\ outcome = [t \in Threads |-> "OK"]
  /\ file = [t \in Threads |-> None] /\ issued = [t \in Threads |-> 0]
  /\ scan = [t \in Threads |-> {}] /\ seen = [t \in Threads |-> {}]
  /\ names = NoNames /\ handle = [t \in Threads |-> None]
  /\ owner = [m \in Mutexes |-> None]
  /\ dirs \in SUBSET Users /\ entries = {} /\ stored = {} /\ partial = {}
  /\ delivered = {} /\ lost = {} /\ deleted = {} /\ drawn = {} /\ sent = {}
  /\ crashes = 0 /\ tainted = {}

-----------------------------------------------------------------------------
Go(t, l) == pc' = [pc EXCEPT ![t] = l]

Throw(t, o) ==
  /\ Go(t, "unwind")
  /\ outcome' = [outcome EXCEPT ![t] = o]
  /\ UNCHANGED <<request, cursor, mutex, disk, mails, bounds, tainted>>

(* MailServer dispatches a message of an authenticated client.  A SEND without
   receivers skips the loop and is answered at once. *)
Receive(t) ==
  /\ pc[t] = "idle" /\ issued[t] < MaxRequests
  /\ \E r \in Requests :
       /\ r.msg \notin sent
       /\ req' = [req EXCEPT ![t] = r]
       /\ sent' = sent \cup ({r.msg} \cap Messages)
       /\ Go(t, IF r.boxes = <<>> THEN "answer" ELSE "open")
  /\ issued' = [issued EXCEPT ![t] = @ + 1]
  /\ UNCHANGED <<at, outcome, cursor, mutex, disk, mails, drawn, crashes, tainted>>

(* named_mutex nm(open_or_create, user) *)
Open(t) ==
  /\ pc[t] = "open"
  /\ Go(t, "lock")
  /\ \/ /\ names[Box(t)] # None
        /\ handle' = [handle EXCEPT ![t] = names[Box(t)]]
        /\ UNCHANGED <<names, owner>>
     \/ /\ names[Box(t)] = None
        /\ \E m \in Unused : /\ names' = [names EXCEPT ![Box(t)] = m]
                             /\ handle' = [handle EXCEPT ![t] = m]
                             /\ owner' = [owner EXCEPT ![m] = None]
  /\ UNCHANGED <<outcome, request, cursor, disk, mails, bounds, tainted>>

(* The constructor throws an interprocess_exception; the handler unlinks the name
   all the same. *)
OpenFails(t) ==
  /\ DiskFails
  /\ pc[t] = "open" /\ Go(t, "unlink")
  /\ outcome' = [outcome EXCEPT ![t] = "ABORT"]
  /\ UNCHANGED <<request, cursor, mutex, disk, mails, bounds, tainted>>

Free_Ignored(m) == TRUE                 \* mutant: the lock does not wait
Free(m) == owner[m] = None

(* scoped_lock lock(nm): waits while a thread, alive or dead, owns the object. *)
Lock(t) ==
  /\ pc[t] = "lock" /\ Free(handle[t])
  /\ owner' = [owner EXCEPT ![handle[t]] = t]
  /\ Go(t, IF req[t].op = "SEND" THEN "access" ELSE "enter")
  /\ UNCHANGED <<outcome, request, cursor, names, handle, disk, mails, bounds, tainted>>

-----------------------------------------------------------------------------
(* SEND: persistSendMessage, one receiver at a time. *)

Missing_Unseen(u) == TRUE               \* mutant: mkdir without looking
Missing(u) == u \notin dirs

Fresh_Never(i) == TRUE                  \* mutant: seeded anew for every name
Fresh(i) == RepeatedIds \/ i \notin drawn

(* getUniqueMessageId draws until the name is not one of the WORKING directory,
   which is not the mailbox; then accessDirectory looks for the mailbox. *)
Access(t) ==
  /\ pc[t] = "access"
  /\ \E i \in Ids \ WorkingDir : /\ Fresh(i)
                                 /\ file' = [file EXCEPT ![t] = i]
                                 /\ drawn' = drawn \cup {i}
  /\ Go(t, IF Missing(Box(t)) THEN "mkdir" ELSE "create")
  /\ UNCHANGED <<outcome, request, scan, seen, mutex, disk, mails, sent, crashes, tainted>>

MkDir(t) ==
  /\ pc[t] = "mkdir"
  /\ \/ /\ Box(t) \notin dirs
        /\ dirs' = dirs \cup {Box(t)}
        /\ Go(t, "create")
        /\ UNCHANGED <<outcome, request, cursor, mutex, entries, stored, partial, mails,
                       bounds, tainted>>
     \/ Box(t) \in dirs /\ Throw(t, "ERR")                           \* EEXIST

Without_Any(S, u, i) == {f \in S : f[1] # u}  \* mutant: the directory is emptied
Without(S, u, i) == {f \in S : <<f[1], f[2]>> # <<u, i>>}

(* of.open: the file is created, or emptied if the name was taken. *)
Create(t) ==
  /\ pc[t] = "create"
  /\ entries' = entries \cup {<<Box(t), file[t]>>}
  /\ stored' = Without(stored, Box(t), file[t])
  /\ partial' = Without(partial, Box(t), file[t])
  /\ Go(t, "write")
  /\ UNCHANGED <<outcome, request, cursor, mutex, dirs, mails, bounds, tainted>>

(* Only the beginning of a mail got into each of the files. *)
CutOff(files) ==
  /\ stored' = {f \in stored : <<f[1], f[2]>> \notin files}
  /\ partial' = partial \cup files

(* of.write and of.close: the mail is in the file, if that still has its name.
   A mail that fits the stream's buffer is written by of.close, whose result
   nobody looks at; the failure of a larger one is seen.  Either leaves nothing
   in the file, or the beginning of the mail. *)
Write(t) ==
  /\ pc[t] = "write"
  /\ \/ /\ stored' = IF <<Box(t), file[t]>> \in entries
                     THEN Without(stored, Box(t), file[t])
                          \cup {<<Box(t), file[t], req[t].msg>>}
                     ELSE stored
        /\ partial' = Without(partial, Box(t), file[t])
        /\ delivered' = delivered \cup {<<Box(t), file[t], req[t].msg>>}
        /\ Go(t, "unlock")
        /\ UNCHANGED <<outcome, lost>>
     \/ /\ DiskFails
        /\ UNCHANGED <<stored, partial>> \/ CutOff({<<Box(t), file[t]>>} \cap entries)
        /\ \/ /\ lost' = lost \cup {<<Box(t), file[t], req[t].msg>>}
              /\ Go(t, "unlock")
              /\ UNCHANGED outcome
           \/ /\ Go(t, "unwind")
              /\ outcome' = [outcome EXCEPT ![t] = "ERR"]
              /\ UNCHANGED lost
        /\ UNCHANGED delivered
  /\ UNCHANGED <<request, cursor, mutex, dirs, entries, deleted, bounds, tainted>>

-----------------------------------------------------------------------------
(* LIST, READ and DEL walk the directory.  A name the iterator returns may be
   gone when it is looked at, if the exclusion failed. *)

Enter(t) ==
  /\ pc[t] = "enter"
  /\ \/ /\ Box(t) \in dirs
        /\ scan' = [scan EXCEPT ![t] = Listed(Box(t))]
        /\ Go(t, "visit")
        /\ UNCHANGED <<outcome, request, file, seen, mutex, disk, mails, bounds, tainted>>
     \/ Box(t) \notin dirs /\ Throw(t, "ERR")

(* What the iterator may return next: what it has not yet, and what was added. *)
Returned(t) == scan[t] \cup (Listed(Box(t)) \ seen[t])

Skip(t, i) ==
  /\ scan' = [scan EXCEPT ![t] = @ \ {i}]
  /\ UNCHANGED <<pc, outcome, request, file, seen, mutex, disk, mails, bounds, tainted>>

(* messageFromFile: without a file or with an empty one readAll or inflate
   throws.  On a mail cut off before its body is over inflate goes on until no
   memory is left; behind that it misses a number or an attachment's bytes and
   throws. *)
Inflate(t, i, l) ==
  \/ /\ Whole(Box(t), i)
     /\ Go(t, l)
     /\ file' = [file EXCEPT ![t] = i]
     /\ UNCHANGED <<outcome, request, scan, seen, mutex, disk, mails, bounds, tainted>>
  \/ /\ ~Whole(Box(t), i)
     /\ Throw(t, "ERR") \/ (<<Box(t), i>> \in partial /\ Throw(t, "ABORT"))

Seen(t, i) ==
  /\ scan' = [scan EXCEPT ![t] = @ \ {i}]
  /\ seen' = [seen EXCEPT ![t] = @ \cup {i}]
  /\ Go(t, "visit")
  /\ UNCHANGED <<outcome, request, file, mutex, disk, mails, bounds, tainted>>

(* LIST reads each mail for its title, then asks for the time of the file;
   last_write_time of a file that is gone throws what no handler catches. *)
ListVisit(t) ==
  /\ pc[t] = "visit" /\ req[t].op = "LIST"
  /\ \E i \in Returned(t) : \/ Inflate(t, i, "stat")
                            \/ i \notin Listed(Box(t)) /\ Skip(t, i)

ListStat(t) ==
  /\ pc[t] = "stat"
  /\ \/ file[t] \in Listed(Box(t)) /\ Seen(t, file[t])
     \/ file[t] \notin Listed(Box(t)) /\ Throw(t, "ABORT")

(* READ and DEL only need the time of each file (getMessageAtIndex). *)
IndexVisit(t) ==
  /\ pc[t] = "visit" /\ req[t].op \in {"READ", "DEL"}
  /\ \E i \in Returned(t) :
       \/ i \in Listed(Box(t)) /\ Seen(t, i)
       \/ i \notin Listed(Box(t)) /\ (Skip(t, i) \/ Throw(t, "ABORT"))

AtEnd_Early(t) == TRUE                  \* mutant: the walk may stop anywhere
AtEnd(t) == scan[t] = {}

ScanDone(t) ==
  /\ pc[t] = "visit" /\ AtEnd(t)
  /\ Go(t, IF req[t].op = "LIST" THEN "unlock" ELSE "pick")
  /\ UNCHANGED <<outcome, request, cursor, mutex, disk, mails, bounds, tainted>>

(* The client's index selects any of the files, or none. *)
Pick(t) ==
  /\ pc[t] = "pick"
  /\ \/ \E i \in seen[t] \cap Listed(Box(t)) :
          /\ file' = [file EXCEPT ![t] = i]
          /\ Go(t, IF req[t].op = "READ" THEN "load" ELSE "remove")
          /\ UNCHANGED <<outcome, request, scan, seen, mutex, disk, mails, bounds, tainted>>
     \/ Throw(t, "ERR")

Load(t) == pc[t] = "load" /\ Inflate(t, file[t], "unlock")

Remove(t) ==
  /\ pc[t] = "remove"
  /\ \/ /\ file[t] \in Listed(Box(t))
        /\ entries' = Without(entries, Box(t), file[t])
        /\ stored' = Without(stored, Box(t), file[t])
        /\ partial' = Without(partial, Box(t), file[t])
        /\ deleted' = deleted \cup {<<Box(t), file[t]>>}
        /\ Go(t, "unlock")
        /\ UNCHANGED <<outcome, request, cursor, mutex, dirs, delivered, lost, bounds, tainted>>
     \/ file[t] \notin Listed(Box(t)) /\ Throw(t, "ERR")

(* Failing calls: those the code turns into a FileManagerException, and those
   that throw boost's filesystem_error. *)
CallFails(t) ==
  /\ DiskFails
  /\ \/ pc[t] \in {"mkdir", "create", "load", "remove"} /\ Throw(t, "ERR")
     \/ pc[t] = "visit" /\ req[t].op = "LIST" /\ Returned(t) # {} /\ Throw(t, "ERR")
     \/ pc[t] \in {"access", "enter", "visit", "stat", "pick"} /\ Throw(t, "ABORT")

-----------------------------------------------------------------------------
(* Leaving: the destructors unlock and close the mutex.  Whoever leaves a
   mailbox nobody else has open clears its taint. *)
Unowned_Not(m) == owner                 \* mutant: closed, but still locked
Unowned(m) == [owner EXCEPT ![m] = None]

Release(t) ==
  /\ owner' = Unowned(handle[t])
  /\ handle' = [handle EXCEPT ![t] = None]
  /\ file' = [file EXCEPT ![t] = None]
  /\ scan' = [scan EXCEPT ![t] = {}] /\ seen' = [seen EXCEPT ![t] = {}]
  /\ tainted' = IF Openers(Box(t)) \subseteq {t} THEN tainted \ {Box(t)} ELSE tainted
  /\ UNCHANGED <<req, issued, outcome, names, disk, mails, bounds>>

More_Never(t) == FALSE                  \* mutant: only the first receiver is served
More_Twice(t) == at[t] <= Len(req[t].boxes)  \* mutant: one turn too many
More(t) == at[t] < Len(req[t].boxes)

(* The end of the try block: on to the next receiver, or to the answer. *)
Unlock(t) ==
  /\ pc[t] = "unlock"
  /\ Release(t)
  /\ IF More(t) THEN Go(t, "open") /\ at' = [at EXCEPT ![t] = @ + 1]
                ELSE Go(t, "answer") /\ UNCHANGED at

(* An exception leaves the try block; only after the destructors does the
   handler unlink the mutex's name. *)
Unwind(t) ==
  /\ pc[t] = "unwind"
  /\ Release(t)
  /\ Go(t, "unlink")
  /\ UNCHANGED at

Unlink(t) ==
  /\ pc[t] = "unlink"
  /\ names' = [names EXCEPT ![Box(t)] = None]
  /\ tainted' = IF Openers(Box(t)) = {} THEN tainted \ {Box(t)} ELSE tainted \cup {Box(t)}
  /\ Go(t, "answer")
  /\ UNCHANGED <<outcome, request, cursor, handle, owner, disk, mails, bounds>>

(* handleSend, handleList, handleRead and handleDel reply to the client. *)
Answer(t) ==
  /\ pc[t] = "answer" /\ outcome[t] # "ABORT"
  /\ Go(t, "idle")
  /\ req' = [req EXCEPT ![t] = None]
  /\ at' = [at EXCEPT ![t] = 1]
  /\ outcome' = [outcome EXCEPT ![t] = "OK"]
  /\ UNCHANGED <<issued, cursor, mutex, disk, mails, bounds, tainted>>

(* The end of the process, and a new one over the same kernel and disk.  A mail
   that was being written may be cut off. *)
Writing == {<<Box(t), file[t]>> : t \in {s \in Threads : pc[s] = "write"}}

ProcessDies ==
  /\ \E files \in SUBSET (Writing \cap entries) : CutOff(files)
  /\ pc' = [t \in Threads |-> "idle"] /\ req' = [t \in Threads |-> None]
  /\ at' = [t \in Threads |-> 1] /\ file' = [t \in Threads |-> None]
  /\ scan' = [t \in Threads |-> {}] /\ seen' = [t \in Threads |-> {}]
  /\ outcome' = [t \in Threads |-> "OK"]
  /\ handle' = [t \in Threads |-> None]
  /\ owner' = [m \in Mutexes |-> IF owner[m] = None THEN None ELSE Dead]
  /\ tainted' = {}
  /\ UNCHANGED <<issued, dirs, entries, mails, drawn, sent>>

(* An exception that is not a FileManagerException leaves the thread. *)
Abort(t) ==
  /\ pc[t] = "answer" /\ outcome[t] = "ABORT"
  /\ ProcessDies
  /\ UNCHANGED <<names, crashes>>

(* The process is killed (a signal, a reply to a client that is gone), or the
   machine restarts in order, which empties the kernel's names.  (A loss of power
   is another matter: nothing is ever fsynced.) *)
Crash ==
  /\ crashes < MaxCrashes
  /\ crashes' = crashes + 1
  /\ names' = names \/ names' = NoNames
  /\ ProcessDies

-----------------------------------------------------------------------------
Serve(t) ==
  \/ Open(t) \/ OpenFails(t) \/ Lock(t) \/ Access(t) \/ MkDir(t) \/ Create(t) \/ Write(t)
  \/ Enter(t) \/ ListVisit(t) \/ ListStat(t) \/ IndexVisit(t) \/ ScanDone(t)
  \/ Pick(t) \/ Load(t) \/ Remove(t) \/ CallFails(t)
  \/ Unlock(t) \/ Unwind(t) \/ Unlink(t) \/ Answer(t) \/ Abort(t)

Next == (\E t \in Threads : Receive(t) \/ Serve(t)) \/ Crash

Spec == Init /\ [][Next]_vars

(* A thread that can go on does: the kernel schedules it, and a released mutex
   goes to one of a bounded number of waiters.  Nothing makes a client send. *)
FairSpec == Spec /\ \A t \in Threads : WF_vars(Serve(t))

-----------------------------------------------------------------------------
(* The variables have their types; a thread under way has a receiver, and from
   the draw or choice of a file to its use it has a file. *)
ThreadOK(t) ==
  /\ (req[t] = None) <=> (pc[t] = "idle")
  /\ (handle[t] # None) <=> (pc[t] \in Opened)
  /\ pc[t] = "idle" => at[t] = 1
  /\ pc[t] \notin {"idle", "answer"} => at[t] <= Len(req[t].boxes)
  /\ pc[t] \in {"access", "mkdir", "create", "write"} => req[t].op = "SEND"
  /\ pc[t] \in {"mkdir", "create", "write", "stat", "load", "remove"} => file[t] \in Ids

TypeOK ==
  /\ pc \in [Threads -> Locations]
  /\ req \in [Threads -> Requests \cup {None}]
  /\ at \in [Threads -> Nat \ {0}] /\ issued \in [Threads -> Nat]
  /\ \A t \in Threads : ThreadOK(t)
  /\ outcome \in [Threads -> {"OK", "ERR", "ABORT"}]
  /\ file \in [Threads -> Ids \cup {None}]
  /\ scan \in [Threads -> SUBSET Ids] /\ seen \in [Threads -> SUBSET Ids]
  /\ names \in [Users -> Mutexes \cup {None}]
  /\ handle \in [Threads -> Mutexes \cup {None}]
  /\ owner \in [Mutexes -> Threads \cup {None, Dead}]
  /\ dirs \subseteq Users /\ tainted \subseteq Users
  /\ entries \cup partial \cup deleted \subseteq Users \X Ids
  /\ stored \cup delivered \cup lost \subseteq Users \X Ids \X Messages
  /\ drawn \subseteq Ids /\ sent \subseteq Messages /\ crashes \in Nat

(* As long as no failing operation unlinked a mailbox's mutex while another had
   it open, at most one thread is inside the mailbox, over any sequence of
   failures, removals and crashes before. *)
ExclusiveUnlessTainted ==
  \A u \in Users \ tainted : \A s, t \in Holders(u) : s = t

(* What LIST answers is then exactly the content of the mailbox at the moment it
   lets go of it, and what READ answers is in it, although the walk took many
   steps in which the other threads went on. *)
SnapshotUnlessTainted ==
  \A t \in Threads :
    pc[t] = "unlock" /\ Box(t) \notin tainted =>
      /\ req[t].op = "LIST" => /\ seen[t] = Listed(Box(t))
                               /\ \A i \in seen[t] : Whole(Box(t), i)
      /\ req[t].op = "READ" => Whole(Box(t), file[t])

(* While the disk works, only an unlinked mutex makes a SEND fail (mkdir finds
   the directory another thread just made), throws what no handler catches (a
   file vanishes under the directory walk), or makes LIST fail on a mailbox that
   is there, but for the files a killed process was writing: one it left empty
   makes LIST fail, one it left cut off may end the process too. *)
FailureNeedsTaint ==
  \A t \in Threads :
    pc[t] = "unwind" /\ Box(t) \notin tainted /\ ~DiskFails =>
      /\ req[t].op # "SEND"
      /\ outcome[t] = "ABORT" =>
           req[t].op # "DEL" /\ \E i \in Listed(Box(t)) : <<Box(t), i>> \in partial
      /\ req[t].op = "LIST" => \/ Box(t) \notin dirs
                               \/ \E i \in Listed(Box(t)) : ~Whole(Box(t), i)

(* persistSendMessage delivers receiver by receiver and takes nothing back: at
   any point each mailbox has got one copy per receiver line served so far; OK
   means all of them, an error exactly those before the failing one.  A copy may
   have been lost unnoticed at close. *)
Served(t) ==
  {k \in DOMAIN req[t].boxes : \/ k < at[t]
                               \/ k = at[t] /\ pc[t] = "unlock"
                               \/ pc[t] = "answer" /\ outcome[t] = "OK"}

CopiesMatchProgress ==
  \A t \in Threads :
    pc[t] # "idle" /\ req[t].op = "SEND" =>
      \A u \in Users :
        Cardinality({i \in Ids : <<u, i, req[t].msg>> \in delivered \cup lost})
          = Cardinality({k \in Served(t) : req[t].boxes[k] = u})

(* A mail written to a mailbox stays there until its file is deleted, with
   exclusion or without, over errors and crashes, when names do not repeat. *)
NoMailLost ==
  /\ stored \subseteq delivered
  /\ \A f \in delivered : f \in stored \/ <<f[1], f[2]>> \in deleted

(* A process killed while a thread holds a mailbox's mutex leaves it locked in
   the kernel, and no later process gets in until the machine restarts, or until
   a thread cannot even open the mutex and unlinks it, which ends its process. *)
Orphaned(u) == names[u] # None /\ owner[names[u]] = Dead

OrphanStaysStuck ==
  [][\A u \in Users : Orphaned(u) =>
       \/ Orphaned(u)' /\ Holders(u)' = {}
       \/ crashes' # crashes /\ names' = NoNames
       \/ /\ DiskFails /\ names'[u] = None
          /\ \E t \in Threads : pc[t] = "unlink" /\ Box(t) = u /\ outcome[t] = "ABORT"]_vars

(* Every request is answered, or ended with the process, unless it waits for a
   mutex whose holder's process died: a thread holds one mutex at a time and
   releases it on every path. *)
WaitsForDead(t) == pc[t] = "lock" /\ owner[handle[t]] = Dead

EveryRequestEnds ==
  \A t \in Threads : pc[t] # "idle" ~> (pc[t] = "idle" \/ WaitsForDead(t))

(* The spool implements the abstract store when names do not repeat: the mails
   on offer are the files that hold one. *)
Store == INSTANCE MailStore WITH box <- stored, gone <- delivered \ stored

StoreSpec == Store!Spec

-----------------------------------------------------------------------------
(* What the comments of the source say, and the code does not do. *)

(* "exclusive lock on each directory for writing the file": at most one thread
   is inside a mailbox. *)
MailboxExclusion == \A u \in Users : \A s, t \in Holders(u) : s = t
=============================================================================
