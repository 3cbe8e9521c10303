------------------------------ MODULE Lockout ------------------------------
(* The list of locked IP addresses (ClientRestrictionManager), what fills it
   (ClientInfo and LoginManager, in the thread of each connection), what thins
   it out (WelcomeServer's accept loop, on the main thread) and what carries it
   from one run of the server to the next: the destructor, reached through the
   signal handler that ServerMain installs, writes the file "iplist".

   A signal handler runs on the main thread wherever that stands, so a mutex
   the main thread holds at that moment is never released.

   A connection's descriptor is one of its own here; that its number may be
   given out again once it is closed is the subject of Connections. *)
EXTENDS Integers, FiniteSets

CONSTANTS Conns,        \* connections, each with a thread
          IPs,          \* client addresses
          LockoutTime,  \* LOCKOUT_TIME, in ticks
          LdapTime,     \* bound: ticks a login takes, the LDAP calls included
          SkipSize,     \* locks for which the erasing loop may pass one over
          MaxTime,      \* bound: ticks
          MaxLeft,      \* bound: lines the buffer has when a descriptor is closed
          MaxStarts,    \* bound: starts of the server
          KillOutside   \* may the process be killed from outside?

ASSUME LockoutAssumption ==
  /\ LockoutTime \in Nat /\ LdapTime \in Nat /\ LdapTime <= LockoutTime
  /\ SkipSize \in Nat /\ MaxTime \in Nat /\ MaxLeft \in Nat /\ MaxStarts \in Nat
  /\ KillOutside \in BOOLEAN

VARIABLES
  mpc,       \* where the main thread is; one of Gone without a process
  held,      \* the mutex the main thread holds: the singleton's, the list's
             \* ("clients"), the thread_group's ("group") or "none"
  clock,     \* time(0)
  lockedAt,  \* locked_clients_: [IPs -> when it was locked, or Unlocked]
  iplist,    \* the file "iplist", of the same form
  starts,    \* starts of the server so far
  cpc,       \* [Conns -> where its thread is]
  ip,        \* [Conns -> the address of its client]
  attempts,  \* [Conns -> attemptCount_ of its ClientInfo]
  since,     \* [Conns -> when the login under way began]
  open,      \* [Conns -> is its descriptor open?]
  left       \* [Conns -> lines the buffer has for it when that is closed]

main == <<mpc, held, starts>>
list == <<clock, lockedAt, iplist>>
conn == <<cpc, ip, attempts, since, open, left>>
vars == <<main, list, conn>>

Unlocked == -1
Empty    == [i \in IPs |-> Unlocked]
Locked   == {i \in IPs : lockedAt[i] # Unlocked}
Expired  == {i \in Locked : clock - lockedAt[i] > LockoutTime}
Running  == {"accept", "get", "update", "create", "created"}
Stopping == {"cleanup", "joining"}
Gone     == {"down", "unsaved", "killed"}  \* in order, file not written, by force

(* Before the first start: the file an earlier run left, or none. *)
Init ==
  /\ mpc = "down" /\ held = "none" /\ clock = 0 /\ starts = 0
  /\ lockedAt = Empty /\ iplist \in [IPs -> {Unlocked, 0}]
  /\ cpc = [c \in Conns |-> "off"] /\ ip \in {f \in [Conns -> IPs] : \A c, d \in Conns : f[c] = f[d]}
  /\ attempts = [c \in Conns |-> 0] /\ since = [c \in Conns |-> 0]
  /\ open = [c \in Conns |-> FALSE] /\ left = [c \in Conns |-> 0]

-----------------------------------------------------------------------------
(* The main thread. *)

(* loadIpFile.  A last line without its end is left out, as the file of a save
   that failed has; nothing here writes a file that is malformed otherwise. *)
Start ==
  /\ mpc \in Gone /\ starts < MaxStarts
  /\ mpc' = "accept" /\ starts' = starts + 1
  /\ lockedAt' = iplist
  /\ UNCHANGED <<held, clock, iplist, conn>>

(* accept returned; getInstance holds the singleton's mutex ... *)
Accept ==
  /\ mpc = "accept"
  /\ mpc' = "get" /\ held' = "singleton"
  /\ UNCHANGED <<starts, list, conn>>

(* ... and update the list's. *)
EnterUpdate ==
  /\ mpc = "get"
  /\ mpc' = "update" /\ held' = "clients"
  /\ UNCHANGED <<starts, list, conn>>

Erase(S) == lockedAt' = [i \in IPs |-> IF i \in S THEN Unlocked ELSE lockedAt[i]]

(* Then create_thread takes the thread_group's mutex; or accept had failed, and
   the exception leads to the same cleanup as a signal. *)
LeaveUpdate(S) ==
  /\ \/ (\E c \in Conns : cpc[c] = "off") /\ mpc' = "create" /\ held' = "group"
     \/ mpc' = "cleanup" /\ held' = "none"
  /\ Erase(S)
  /\ UNCHANGED <<clock, iplist, starts, conn>>

(* The loop erases expired locks and then steps on from the erased node.  That
   reads freed memory: with enough nodes in the tree, what was the right child
   may lead past the next one. *)
Update ==
  /\ mpc = "update"
  /\ \E S \in SUBSET IPs :
       /\ \/ S = Expired
          \/ S \subseteq Expired /\ S # {} /\ Cardinality(Locked) >= SkipSize
       /\ LeaveUpdate(S)

(* The thread runs before create_thread has noted it and lets the mutex go. *)
Spawn(c, i) ==
  /\ mpc = "create" /\ cpc[c] = "off"
  /\ mpc' = "created"
  /\ cpc' = [cpc EXCEPT ![c] = "start"] /\ ip' = [ip EXCEPT ![c] = i]
  /\ open' = [open EXCEPT ![c] = TRUE]
  /\ UNCHANGED <<held, starts, list, attempts, since, left>>

Spawned ==
  /\ mpc = "created"
  /\ mpc' = "accept" /\ held' = "none"
  /\ UNCHANGED <<starts, list, conn>>

Dies ==
  /\ mpc' = "killed" /\ held' = "none"
  /\ lockedAt' = Empty
  /\ cpc' = [c \in Conns |-> "off"] /\ open' = [c \in Conns |-> FALSE]
  /\ attempts' = [c \in Conns |-> 0] /\ since' = [c \in Conns |-> 0]
  /\ left' = [c \in Conns |-> 0]
  /\ UNCHANGED <<clock, iplist, starts, ip>>

(* No thread to be had: thread_resource_error, which nobody catches. *)
SpawnFails == mpc = "create" /\ Dies

(* SIGINT or SIGTERM, wherever the main thread is. *)
Signal ==
  /\ mpc \in Running
  /\ mpc' = "cleanup"
  /\ UNCHANGED <<held, starts, list, conn>>

(* The freed node was reused or unmapped: SIGSEGV, with the same handler. *)
Segv ==
  /\ mpc = "update"
  /\ \E S \in SUBSET Expired \ {{}} : Erase(S)
  /\ mpc' = "cleanup"
  /\ UNCHANGED <<held, starts, clock, iplist, conn>>

(* shut_down interrupts the threads, for which it takes the thread_group's mutex,
   and shuts their sockets, then joins them. *)
ShutDown ==
  /\ mpc = "cleanup" /\ held # "group"
  /\ mpc' = "joining"
  /\ UNCHANGED <<held, starts, list, conn>>

Joined_NoWait == TRUE                    \* mutant: the threads are left behind
Joined == \A c \in Conns : cpc[c] = "off"

(* join_all returned; the restriction manager is fetched and deleted, and its
   destructor writes the file. *)
Saving(end) ==
  /\ mpc = "joining" /\ Joined /\ held # "singleton"
  /\ mpc' = end /\ held' = "none"
  /\ lockedAt' = Empty
  /\ UNCHANGED <<clock, starts, conn>>

Save == Saving("down") /\ iplist' = lockedAt

(* saveIpFile looks at no result: the old file stays, or the new one has the
   first lines only.  So does one that a kill meets half-written. *)
SaveFails ==
  /\ Saving("unsaved") \/ (KillOutside /\ Saving("killed"))
  /\ \/ UNCHANGED iplist
     \/ \E S \in SUBSET Locked :
          iplist' = [i \in IPs |-> IF i \in S THEN lockedAt[i] ELSE Unlocked]

Kill == KillOutside /\ mpc \in Running \cup Stopping /\ Dies

-----------------------------------------------------------------------------
(* The thread of a connection.  What looks at the list fetches the manager and
   takes the list's mutex first. *)

At(c, l) == cpc[c] = l
To(c, l) == cpc' = [cpc EXCEPT ![c] = l]
Free == held \notin {"singleton", "clients"}

(* closeSocket, again perhaps, and no more: the thread goes on to its loop and
   serves what the buffer holds. *)
CloseSocket(c, rest) ==
  /\ To(c, "ready")
  /\ open' = [open EXCEPT ![c] = FALSE]
  /\ \E n \in IF open[c] THEN 0..MaxLeft ELSE {rest} : left' = [left EXCEPT ![c] = n]

Admit(c) ==
  IF ip[c] \in Locked THEN CloseSocket(c, left[c]) ELSE To(c, "reply") /\ UNCHANGED <<open, left>>

(* clientConnected *)
Connect(c) ==
  /\ At(c, "start") /\ Free
  /\ Admit(c)
  /\ UNCHANGED <<main, list, ip, attempts, since>>

(* A request is there: of the client, or what the buffer still has. *)
Asked(c) == At(c, "ready") /\ (open[c] \/ left[c] > 0)

Serve(c) ==
  /\ Asked(c)
  /\ left' = [left EXCEPT ![c] = IF open[c] THEN @ ELSE @ - 1]
  /\ UNCHANGED <<main, list, ip, attempts>>

(* A LOGIN: sendLDAPRequest looks whether the address is locked. *)
Login(c) ==
  /\ Serve(c) /\ Free
  /\ To(c, IF ip[c] \in Locked THEN "judge" ELSE "ldap")
  /\ since' = [since EXCEPT ![c] = clock]
  /\ UNCHANGED open

(* Another request: a reply follows, unless a killed process left the mailbox's
   mutex locked. *)
Request(c) ==
  /\ Serve(c)
  /\ To(c, "reply") \/ To(c, "stuck")
  /\ UNCHANGED <<since, open>>

(* A request before any login: the ERR for it goes to descriptor 1, which is no
   socket, and the exception ends the process. *)
RequestTooEarly(c) == Asked(c) /\ Dies

(* handleQuit *)
Quit(c) ==
  /\ Asked(c)
  /\ CloseSocket(c, left[c] - 1)
  /\ UNCHANGED <<main, list, ip, attempts, since>>

LoginSucceeded(c) ==
  /\ At(c, "ldap") /\ To(c, "reply")
  /\ attempts' = [attempts EXCEPT ![c] = 0] /\ since' = [since EXCEPT ![c] = 0]
  /\ UNCHANGED <<main, list, ip, open, left>>

Strike_Late(n) == n > 3                  \* mutant: the fourth failure locks
Strike(n) == n >= 3

(* No such user, or a wrong password: loginFailed. *)
LoginFailed(c) ==
  /\ At(c, "ldap")
  /\ attempts' = [attempts EXCEPT ![c] = @ + 1]
  /\ To(c, IF Strike(attempts[c] + 1) THEN "lock" ELSE "judge")
  /\ UNCHANGED <<main, list, ip, since, open, left>>

(* ldap_init failed, which is no attempt. *)
LdapFailed(c) ==
  /\ At(c, "ldap") /\ To(c, "judge")
  /\ UNCHANGED <<main, list, ip, attempts, since, open, left>>

Stamp_Now(i) == clock                    \* mutant: a lock in place starts anew
Stamp(i) == IF i \in Locked THEN lockedAt[i] ELSE clock

(* map::insert leaves the time of a lock that is in place. *)
LockIp(c) ==
  /\ At(c, "lock") /\ Free /\ To(c, "judge")
  /\ lockedAt' = [lockedAt EXCEPT ![ip[c]] = Stamp(ip[c])]
  /\ UNCHANGED <<main, clock, iplist, ip, attempts, since, open, left>>

(* handleLogin after a failure. *)
Judge(c) ==
  /\ At(c, "judge") /\ Free
  /\ Admit(c)
  /\ since' = [since EXCEPT ![c] = 0]
  /\ UNCHANGED <<main, list, ip, attempts>>

(* sendMsg.  On a socket that was shut down or whose client is gone it raises
   SIGPIPE, which nobody handles; on a closed descriptor it fails, and the
   exception ends the process, or it reaches whoever has the number by now. *)
Reply(c) ==
  /\ At(c, "reply")
  /\ \/ /\ open[c] => mpc # "joining"
        /\ To(c, "ready")
        /\ UNCHANGED <<main, list, ip, attempts, since, open, left>>
     \/ Dies

Woken_Never == FALSE                     \* mutant: the sockets are not shut
Woken == mpc = "joining"

(* The thread ends: it closes its descriptor, and its ClientInfo goes with it. *)
Finish(c) ==
  /\ At(c, "ready") /\ To(c, "off")
  /\ open' = [open EXCEPT ![c] = FALSE]
  /\ attempts' = [attempts EXCEPT ![c] = 0]
  /\ left' = [left EXCEPT ![c] = 0]
  /\ UNCHANGED <<main, list, ip, since>>

(* The client is gone. *)
HangUp(c) == open[c] /\ Finish(c)

(* The read fails on a closed descriptor and returns on a socket that was shut
   down; an interrupted thread is between messages. *)
End(c) == (Woken \/ (~open[c] /\ left[c] = 0)) /\ Finish(c)

(* Time passes; a login under way is over after LdapTime. *)
Tick ==
  /\ clock < MaxTime
  /\ \A c \in Conns : cpc[c] \in {"ldap", "lock", "judge"} => clock - since[c] < LdapTime
  /\ clock' = clock + 1
  /\ UNCHANGED <<main, lockedAt, iplist, conn>>

-----------------------------------------------------------------------------
Main == \/ EnterUpdate \/ Update \/ Segv \/ Spawned \/ ShutDown \/ Save \/ SaveFails
        \/ \E c \in Conns, i \in IPs : Spawn(c, i)

Thread(c) == \/ Connect(c) \/ LoginSucceeded(c) \/ LoginFailed(c) \/ LdapFailed(c)
             \/ LockIp(c) \/ Judge(c) \/ Reply(c) \/ End(c)

Next == \/ Start \/ Accept \/ Main \/ SpawnFails \/ Signal \/ Kill \/ Tick
        \/ \E c \in Conns : \/ Login(c) \/ Request(c) \/ RequestTooEarly(c) \/ Quit(c)
                             \/ HangUp(c) \/ Thread(c)

Spec == Init /\ [][Next]_vars

(* The main thread and the threads of the connections are scheduled, and an LDAP
   call returns.  Nothing makes a client connect, ask for anything or leave. *)
FairSpec == Spec /\ WF_vars(Main) /\ \A c \in Conns : WF_vars(Thread(c))

-----------------------------------------------------------------------------
Times == -1..MaxTime

(* The variables have their types; without a process there are no threads, no
   mutex and no list in memory. *)
TypeOK ==
  /\ mpc \in Running \cup Stopping \cup Gone
  /\ held \in {"none", "singleton", "clients", "group"}
  /\ clock \in 0..MaxTime /\ starts \in 0..MaxStarts
  /\ lockedAt \in [IPs -> Times] /\ iplist \in [IPs -> Times]
  /\ cpc \in [Conns -> {"off", "start", "ready", "ldap", "lock", "judge", "reply", "stuck"}]
  /\ ip \in [Conns -> IPs] /\ attempts \in [Conns -> Nat] /\ open \in [Conns -> BOOLEAN]
  /\ since \in [Conns -> 0..MaxTime] /\ left \in [Conns -> 0..MaxLeft]
  /\ mpc \in Gone =>
       held = "none" /\ lockedAt = Empty /\ \A c \in Conns : cpc[c] = "off"

(* Once the last three logins of a connection have failed, the descriptor is
   closed before anything more is read from the client or answered to it,
   whatever the other connections of its address, the clock and the accept loop
   did between its failures and the check in handleLogin.  (What the buffer had
   by then is still served.) *)
ThreeStrikes ==
  \A c \in Conns : attempts[c] >= 3 /\ open[c] => cpc[c] \in {"lock", "judge"}

(* A lock stays in force with the time it was set, over the list in memory, the
   file and the next run, until LockoutTime has passed, unless the process was
   killed or could not write the file: a lock set while the server was already
   stopping is in the file. *)
Effective(i) == IF mpc \in Gone THEN iplist[i] ELSE lockedAt[i]

LocksKept ==
  [][\A i \in IPs :
       /\ Effective(i) # Unlocked /\ Effective(i)' # Effective(i)
       /\ mpc' \notin {"killed", "unsaved"}
       => Effective(i)' = Unlocked /\ clock - Effective(i) > LockoutTime]_vars

(* A server told to stop does, unless the main thread held a mutex just then or a
   request waits for one that a killed process left locked: no other thread is
   left waiting. *)
StopsUnlessHeld ==
  (mpc = "cleanup" /\ held = "none") ~> (mpc \in Gone \/ \E c \in Conns : cpc[c] = "stuck")

-----------------------------------------------------------------------------
(* What comments and messages of the source say, and the code does not do. *)

(* "Caught ..., aborting after cleanup": the cleanup comes to its end. *)
StopEnds == mpc = "cleanup" ~> (mpc \in Gone \/ \E c \in Conns : cpc[c] = "stuck")
=============================================================================
