--------------------------- MODULE LockoutProofs ---------------------------
(* What holds of the list of locked addresses for any number of connections,
   addresses, logins and starts, and for any lockout time that is not shorter
   than a login takes. *)
EXTENDS Lockout, TLAPS

(* A login is under way. *)
Trying == {"ldap", "lock", "judge"}

(* A login under way began LdapTime ago at most. *)
Timely ==
  \A c \in Conns : cpc[c] \in Trying => since[c] <= clock /\ clock - since[c] <= LdapTime

(* Whose address was free when a login began finds no lock older than that. *)
LockIsNew ==
  \A c \in Conns : cpc[c] \in {"ldap", "lock"} /\ ip[c] \in Locked => lockedAt[ip[c]] >= since[c]

(* A connection with three failures whose descriptor is open waits for its lock
   or is about to be judged under a lock no older than its login. *)
StruckOut ==
  \A c \in Conns :
    attempts[c] >= 3 /\ open[c] =>
      /\ cpc[c] \in {"lock", "judge"}
      /\ cpc[c] = "judge" => ip[c] \in Locked /\ lockedAt[ip[c]] >= since[c]

(* A new connection starts without failures. *)
Fresh == \A c \in Conns : cpc[c] = "off" => attempts[c] = 0

StrikeInv == TypeOK /\ Timely /\ LockIsNew /\ StruckOut /\ Fresh

-----------------------------------------------------------------------------
LEMMA InitStrikeInv == Init => StrikeInv
BY LockoutAssumption
   DEF Init, StrikeInv, TypeOK, Timely, LockIsNew, StruckOut, Fresh, Times, Unlocked, Empty,
       Trying, Running, Stopping, Gone

(* The end of the process leaves no thread and no list. *)
LEMMA NoProcess ==
  ASSUME TypeOK, Dies
  PROVE  StrikeInv'
BY LockoutAssumption
   DEF Dies, StrikeInv, TypeOK, Timely, LockIsNew, StruckOut, Fresh, Times, Unlocked, Empty,
       Trying, Running, Stopping, Gone, Locked

(* Erasing expired locks spares those that a login under way relies on. *)
LEMMA ExpiredAreOld ==
  ASSUME StrikeInv, NEW c \in Conns, cpc[c] \in Trying, ip[c] \in Expired
  PROVE  lockedAt[ip[c]] < since[c]
<1>1. clock - lockedAt[ip[c]] > LockoutTime
  BY DEF Expired
<1>2. clock - since[c] <= LdapTime /\ LdapTime <= LockoutTime
  BY LockoutAssumption DEF StrikeInv, Timely
<1>3. /\ clock \in Int /\ since[c] \in Int /\ lockedAt[ip[c]] \in Int
      /\ LdapTime \in Int /\ LockoutTime \in Int
  BY LockoutAssumption DEF StrikeInv, TypeOK, Times
<1> QED BY <1>1, <1>2, <1>3

LEMMA EraseKeepsInv ==
  ASSUME StrikeInv, NEW S \in SUBSET Expired, Erase(S),
         mpc' \in Running \cup Stopping, held' \in {"none", "singleton", "clients", "group"},
         UNCHANGED <<clock, iplist, starts, conn>>
  PROVE  StrikeInv'
<1> USE DEF StrikeInv
<1>1. TypeOK'
  BY LockoutAssumption DEF Erase, TypeOK, conn, Times, Unlocked, Running, Stopping, Gone
<1>2. Timely'
  BY DEF Timely, conn
<1>3. \A i \in IPs : /\ i \in Locked' => i \in Locked /\ lockedAt'[i] = lockedAt[i]
                     /\ i \in Locked /\ i \notin Expired => i \in Locked' /\ lockedAt'[i] = lockedAt[i]
  BY DEF Erase, Locked, TypeOK
<1>4. LockIsNew'
  BY <1>3 DEF LockIsNew, conn, TypeOK
<1>5. StruckOut'
  <2> SUFFICES ASSUME NEW c \in Conns, attempts[c] >= 3, open[c], cpc[c] = "judge"
               PROVE  ip[c] \in Locked' /\ lockedAt'[ip[c]] >= since[c]
    BY DEF StruckOut, conn
  <2>1. ip[c] \in Locked /\ lockedAt[ip[c]] >= since[c]
    BY DEF StruckOut
  <2>2. ip[c] \notin Expired
    <3>1. lockedAt[ip[c]] \in Int /\ since[c] \in Int
      BY DEF TypeOK, Times
    <3> QED BY <2>1, <3>1, ExpiredAreOld DEF Trying
  <2> QED BY <1>3, <2>1, <2>2 DEF TypeOK
<1>6. Fresh'
  BY DEF Fresh, conn
<1> QED BY <1>1, <1>2, <1>4, <1>5, <1>6

-----------------------------------------------------------------------------
(* The steps of the main thread. *)
LEMMA MainKeepsInv ==
  ASSUME StrikeInv, Start \/ Accept \/ Main \/ SpawnFails \/ Signal
  PROVE  StrikeInv'
<1> USE DEF StrikeInv
<1>1. CASE Start
  <2>1. \A c \in Conns : cpc[c] = "off"
    BY <1>1 DEF Start, TypeOK
  <2>2. starts' \in 0..MaxStarts
    BY <1>1, LockoutAssumption DEF Start, TypeOK
  <2> QED BY <1>1, <2>1, <2>2
          DEF Start, TypeOK, conn, Timely, LockIsNew, StruckOut, Fresh, Trying, Running, Stopping, Gone
<1>2. CASE Accept \/ EnterUpdate \/ Spawned \/ Signal \/ ShutDown
  BY <1>2 DEF Accept, EnterUpdate, Spawned, Signal, ShutDown, TypeOK, list, conn, Timely, LockIsNew,
              StruckOut, Fresh, Locked, Running, Stopping, Gone
<1>3. CASE Update
  <2>1. PICK S \in SUBSET Expired : LeaveUpdate(S)
    BY <1>3 DEF Update, Expired, Locked
  <2> QED BY <2>1, EraseKeepsInv DEF LeaveUpdate, Running, Stopping
<1>4. CASE Segv
  <2>1. PICK S \in SUBSET Expired : Erase(S)
    BY <1>4 DEF Segv
  <2> QED BY <1>4, <2>1, EraseKeepsInv DEF Segv, Stopping, TypeOK
<1>5. CASE Save \/ SaveFails
  <2>1. PICK end \in Gone : Saving(end)
    BY <1>5 DEF Save, SaveFails, Gone
  <2>2. /\ \A c \in Conns : cpc[c] = "off"
        /\ mpc' \in Gone /\ held' = "none" /\ lockedAt' = Empty
        /\ UNCHANGED <<clock, starts, conn>>
    BY <2>1 DEF Saving, Joined
  <2>3. Empty \in [IPs -> Times] /\ iplist' \in [IPs -> Times]
    BY <1>5, LockoutAssumption DEF Save, SaveFails, TypeOK, Empty, Unlocked, Times
  <2>4. TypeOK'
    BY <2>2, <2>3 DEF TypeOK, conn
  <2>5. Timely' /\ LockIsNew' /\ StruckOut' /\ Fresh'
    BY <2>2 DEF conn, Timely, LockIsNew, StruckOut, Fresh, Trying
  <2> QED BY <2>4, <2>5
<1>6. ASSUME NEW c \in Conns, NEW i \in IPs, Spawn(c, i)
      PROVE  StrikeInv'
  <2>1. TypeOK'
    BY <1>6 DEF Spawn, TypeOK, list, Running, Gone
  <2>2. \A d \in Conns : /\ d # c => /\ cpc'[d] = cpc[d] /\ ip'[d] = ip[d] /\ open'[d] = open[d]
                         /\ d = c => cpc'[d] = "start" /\ attempts[d] = 0
    BY <1>6 DEF Spawn, TypeOK, Fresh
  <2> QED BY <1>6, <2>1, <2>2 DEF Spawn, list, Timely, LockIsNew, StruckOut, Fresh, Locked, Trying
<1>7. CASE SpawnFails
  BY <1>7, NoProcess DEF SpawnFails
<1> QED BY <1>1, <1>2, <1>3, <1>4, <1>5, <1>6, <1>7 DEF Main

-----------------------------------------------------------------------------
(* The steps of a connection's thread, and the clock. *)

(* A line taken from the buffer leaves no less than none. *)
LEMMA OneLess ==
  ASSUME TypeOK, NEW c \in Conns, Asked(c)
  PROVE  ~open[c] => left[c] - 1 \in 0..MaxLeft
BY LockoutAssumption DEF TypeOK, Asked

LEMMA ThreadKeepsInv ==
  ASSUME StrikeInv, NEW c \in Conns,
         Login(c) \/ Request(c) \/ RequestTooEarly(c) \/ Quit(c) \/ HangUp(c) \/ Thread(c)
  PROVE  StrikeInv'
<1> USE DEF StrikeInv
<1>0. /\ cpc[c] # "off" => mpc \notin Gone
      /\ 0 \in 0..MaxLeft /\ 0 \in 0..MaxTime
  BY LockoutAssumption DEF TypeOK
<1>1. CASE Connect(c) \/ Judge(c) \/ Quit(c)
  <2>1. PICK n \in 0..MaxLeft :
          /\ cpc[c] \in {"start", "judge", "ready"}
          /\ \/ /\ cpc' = [cpc EXCEPT ![c] = "ready"] /\ open' = [open EXCEPT ![c] = FALSE]
                /\ left' = [left EXCEPT ![c] = n]
             \/ /\ cpc' = [cpc EXCEPT ![c] = "reply"] /\ UNCHANGED <<open, left>>
                /\ ip[c] \notin Locked /\ cpc[c] \in {"start", "judge"}
    <3>1. CASE Connect(c) \/ Judge(c)
      BY <3>1, <1>0 DEF Connect, Judge, Admit, CloseSocket, At, To, TypeOK
    <3>2. CASE Quit(c)
      BY <3>2, OneLess DEF Quit, Asked, CloseSocket, At, To
    <3> QED BY <1>1, <3>1, <3>2
  <2>2. since' \in {since, [since EXCEPT ![c] = 0]} /\ UNCHANGED <<main, list, ip, attempts>>
    BY <1>1 DEF Connect, Judge, Quit
  <2>3. TypeOK'
    <3>1. since' \in [Conns -> 0..MaxTime]
      BY <1>0, <2>2 DEF TypeOK
    <3>2. left' \in [Conns -> 0..MaxLeft] /\ open' \in [Conns -> BOOLEAN]
      BY <2>1 DEF TypeOK
    <3>3. cpc' \in [Conns -> {"off", "start", "ready", "ldap", "lock", "judge", "reply", "stuck"}]
      BY <2>1 DEF TypeOK
    <3> QED BY <1>0, <2>1, <2>2, <3>1, <3>2, <3>3 DEF TypeOK, main, list
  <2>4. \A d \in Conns : d # c => cpc'[d] = cpc[d] /\ open'[d] = open[d] /\ since'[d] = since[d]
    BY <2>1, <2>2 DEF TypeOK
  <2>5. cpc'[c] \in {"ready", "reply"} /\ (cpc'[c] = "ready" => ~open'[c])
    BY <2>1 DEF TypeOK
  <2>6. cpc'[c] = "reply" => open'[c] = open[c] /\ ip[c] \notin Locked /\ cpc[c] \in {"start", "judge"}
    BY <2>1 DEF TypeOK
  <2>7. StruckOut'
    <3>1. cpc'[c] = "reply" /\ open'[c] => ~(attempts[c] >= 3)
      BY <2>6 DEF StruckOut
    <3> QED BY <2>2, <2>4, <2>5, <3>1 DEF StruckOut, Locked, list
  <2>8. Timely' /\ LockIsNew' /\ Fresh'
    BY <2>2, <2>4, <2>5 DEF Timely, LockIsNew, Fresh, Locked, Trying, list
  <2> QED BY <2>3, <2>7, <2>8
<1>2. CASE HangUp(c) \/ End(c)
  <2>1. /\ cpc[c] = "ready" /\ cpc' = [cpc EXCEPT ![c] = "off"] /\ open' = [open EXCEPT ![c] = FALSE]
        /\ attempts' = [attempts EXCEPT ![c] = 0] /\ left' = [left EXCEPT ![c] = 0]
        /\ UNCHANGED <<main, list, ip, since>>
    BY <1>2 DEF HangUp, End, Finish, At, To
  <2>2. TypeOK'
    <3>1. attempts' \in [Conns -> Nat] /\ left' \in [Conns -> 0..MaxLeft]
      BY <1>0, <2>1 DEF TypeOK
    <3> QED BY <1>0, <2>1, <3>1 DEF TypeOK, main, list
  <2>3. /\ \A d \in Conns : d # c => /\ cpc'[d] = cpc[d] /\ open'[d] = open[d]
                                    /\ attempts'[d] = attempts[d]
        /\ cpc'[c] = "off" /\ ~open'[c] /\ attempts'[c] = 0
    BY <2>1 DEF TypeOK
  <2>4. Timely' /\ LockIsNew' /\ StruckOut' /\ Fresh'
    BY <2>1, <2>3 DEF Timely, LockIsNew, StruckOut, Fresh, Locked, Trying, list
  <2> QED BY <2>2, <2>4
<1>3. CASE Login(c) \/ Request(c)
  <2>1. /\ cpc[c] = "ready" /\ UNCHANGED <<main, list, ip, attempts, open>>
        /\ left' \in [Conns -> 0..MaxLeft]
        /\ since' \in {since, [since EXCEPT ![c] = clock]}
    <3>1. Asked(c) /\ left' = [left EXCEPT ![c] = IF open[c] THEN @ ELSE @ - 1]
      BY <1>3 DEF Login, Request, Serve
    <3>2. left' \in [Conns -> 0..MaxLeft]
      BY <3>1, OneLess DEF TypeOK
    <3> QED BY <1>3, <3>2 DEF Login, Request, Serve, Asked, At
  <2>2. PICK l \in {"judge", "ldap", "reply", "stuck"} :
          /\ cpc' = [cpc EXCEPT ![c] = l]
          /\ l \in {"judge", "ldap"} => since' = [since EXCEPT ![c] = clock]
          /\ l = "ldap" => ip[c] \notin Locked
    BY <1>3 DEF Login, Request, To
  <2>3. ~(attempts[c] >= 3 /\ open[c])
    BY <2>1 DEF StruckOut
  <2>4. TypeOK'
    BY <1>0, <2>1, <2>2 DEF TypeOK, main, list
  <2>5. /\ \A d \in Conns : d # c => cpc'[d] = cpc[d] /\ since'[d] = since[d]
        /\ cpc'[c] = l /\ (l \in {"judge", "ldap"} => since'[c] = clock)
    BY <2>1, <2>2 DEF TypeOK
  <2>6. StruckOut' /\ Fresh'
    BY <2>1, <2>3, <2>5 DEF StruckOut, Fresh, Locked, list
  <2>7. Timely'
    <3>1. clock \in 0..MaxTime /\ LdapTime \in Nat
      BY LockoutAssumption DEF TypeOK
    <3> QED BY <2>1, <2>5, <3>1 DEF Timely, Trying, list
  <2>8. LockIsNew'
    BY <2>1, <2>2, <2>5 DEF LockIsNew, Locked, list
  <2> QED BY <2>4, <2>6, <2>7, <2>8
<1>4. CASE RequestTooEarly(c)
  BY <1>4, NoProcess DEF RequestTooEarly
<1>5. CASE LoginSucceeded(c)
  <2>1. TypeOK'
    <3>1. attempts' \in [Conns -> Nat] /\ since' \in [Conns -> 0..MaxTime]
      BY <1>0, <1>5 DEF LoginSucceeded, TypeOK
    <3> QED BY <1>0, <1>5, <3>1 DEF LoginSucceeded, At, To, TypeOK, main, list
  <2>2. /\ \A d \in Conns : d # c => /\ cpc'[d] = cpc[d] /\ attempts'[d] = attempts[d]
                                    /\ since'[d] = since[d]
        /\ cpc'[c] = "reply" /\ attempts'[c] = 0
        /\ UNCHANGED <<list, ip, open>>
    BY <1>5 DEF LoginSucceeded, To, TypeOK
  <2>3. Timely' /\ LockIsNew' /\ StruckOut' /\ Fresh'
    BY <2>2 DEF Timely, LockIsNew, StruckOut, Fresh, Locked, Trying, list
  <2> QED BY <2>1, <2>3
<1>6. CASE LoginFailed(c) \/ LdapFailed(c)
  <2>1. TypeOK'
    BY <1>0, <1>6 DEF LoginFailed, LdapFailed, At, To, TypeOK, main, list
  <2>2. /\ \A d \in Conns : d # c => cpc'[d] = cpc[d] /\ attempts'[d] = attempts[d]
        /\ cpc[c] = "ldap" /\ cpc'[c] \in {"lock", "judge"}
        /\ cpc'[c] = "judge" => ~(attempts'[c] >= 3) \/ attempts'[c] = attempts[c]
        /\ UNCHANGED <<list, ip, since, open>>
    BY <1>6 DEF LoginFailed, LdapFailed, Strike, At, To, TypeOK
  <2>3. ~(attempts[c] >= 3 /\ open[c])
    BY <2>2 DEF StruckOut
  <2>4. StruckOut' /\ Fresh'
    BY <2>2, <2>3 DEF StruckOut, Fresh, Locked, list
  <2>5. Timely' /\ LockIsNew'
    BY <2>2 DEF Timely, LockIsNew, Locked, Trying, list
  <2> QED BY <2>1, <2>4, <2>5
<1>7. CASE LockIp(c)
  <2>1. /\ clock \in 0..MaxTime /\ ip[c] \in IPs /\ since[c] <= clock
        /\ lockedAt \in [IPs -> Times]
    BY <1>7 DEF LockIp, At, TypeOK, Timely, Trying
  <2>2. TypeOK'
    BY <1>0, <1>7, <2>1 DEF LockIp, At, To, TypeOK, main, Stamp, Times
  <2>3. \A i \in IPs : /\ i # ip[c] => lockedAt'[i] = lockedAt[i]
                       /\ i \in Locked => i \in Locked' /\ lockedAt'[i] = lockedAt[i]
                       /\ i = ip[c] => i \in Locked'
                       /\ i \in Locked' \ Locked => lockedAt'[i] = clock
    BY <1>7, <2>1 DEF LockIp, Stamp, Locked, Unlocked, Times
  <2>4. Timely' /\ Fresh'
    BY <1>7 DEF LockIp, At, To, TypeOK, main, Timely, Fresh, Trying
  <2>5. LockIsNew'
    BY <1>7, <2>3 DEF LockIp, At, To, TypeOK, main, Timely, LockIsNew, Trying
  <2>6. StruckOut'
    <3> SUFFICES ASSUME NEW d \in Conns, attempts[d] >= 3, open[d]
                 PROVE  /\ cpc'[d] \in {"lock", "judge"}
                        /\ cpc'[d] = "judge" => ip[d] \in Locked' /\ lockedAt'[ip[d]] >= since[d]
      BY <1>7 DEF LockIp, StruckOut
    <3>1. CASE d = c
      <4>1. ip[c] \in Locked => lockedAt[ip[c]] >= since[c]
        BY <1>7 DEF LockIp, At, LockIsNew
      <4> QED BY <1>7, <2>1, <2>3, <3>1, <4>1 DEF LockIp, To, TypeOK
    <3>2. CASE d # c
      BY <1>7, <2>3, <3>2 DEF LockIp, To, TypeOK, StruckOut
    <3> QED BY <3>1, <3>2
  <2> QED BY <2>2, <2>4, <2>5, <2>6
<1>8. CASE Reply(c)
  <2>1. CASE Dies
    BY <2>1, NoProcess
  <2>2. CASE ~Dies
    <3>1. /\ cpc[c] = "reply" /\ cpc' = [cpc EXCEPT ![c] = "ready"]
          /\ UNCHANGED <<main, list, ip, attempts, since, open, left>>
      BY <1>8, <2>2 DEF Reply, At, To
    <3> QED BY <1>0, <3>1 DEF TypeOK, main, list, Timely, LockIsNew, StruckOut, Fresh, Locked, Trying
  <2> QED BY <2>1, <2>2
<1> QED BY <1>1, <1>2, <1>3, <1>4, <1>5, <1>6, <1>7, <1>8 DEF Thread

LEMMA TickKeepsInv ==
  ASSUME StrikeInv, Tick
  PROVE  StrikeInv'
<1> USE DEF StrikeInv
<1>1. TypeOK'
  BY LockoutAssumption DEF Tick, TypeOK, main, conn
<1>2. Timely'
  BY LockoutAssumption DEF Tick, TypeOK, conn, Timely, Trying
<1>3. LockIsNew' /\ StruckOut' /\ Fresh'
  BY DEF Tick, conn, LockIsNew, StruckOut, Fresh, Locked
<1> QED BY <1>1, <1>2, <1>3

LEMMA NextKeepsInv == StrikeInv /\ [Next]_vars => StrikeInv'
<1> SUFFICES ASSUME StrikeInv, [Next]_vars
             PROVE  StrikeInv'
  OBVIOUS
<1>1. CASE Kill
  BY <1>1, NoProcess DEF Kill, StrikeInv
<1>2. CASE UNCHANGED vars
  BY <1>2 DEF vars, main, list, conn, StrikeInv, TypeOK, Timely, LockIsNew, StruckOut, Fresh,
              Locked
<1> QED BY <1>1, <1>2, MainKeepsInv, ThreadKeepsInv, TickKeepsInv DEF Next

-----------------------------------------------------------------------------
(* The variables of the lockout list have their types, for all values of the
   constants: ClientRestrictionManager without a process has no list, no thread
   and no mutex. *)
THEOREM TypeCorrect == Spec => []TypeOK
<1>1. Spec => []StrikeInv
  BY InitStrikeInv, NextKeepsInv, PTL DEF Spec
<1> QED BY <1>1, PTL DEF StrikeInv

LEMMA InvGivesThreeStrikes == StrikeInv => ThreeStrikes
BY DEF StrikeInv, StruckOut, ThreeStrikes

(* After three failures in a row a connection's descriptor is closed before any
   more is read from it or answered: the lock that loginFailed sets is still
   there when handleLogin looks for it. *)
THEOREM ThreeStrikesCorrect == Spec => []ThreeStrikes
<1>1. Spec => []StrikeInv
  BY InitStrikeInv, NextKeepsInv, PTL DEF Spec
<1> QED BY <1>1, InvGivesThreeStrikes, PTL

-----------------------------------------------------------------------------
(* A step changes the lock in force of an address only by ending an expired one. *)
LEMMA StepKeepsLocks ==
  ASSUME TypeOK, [Next]_vars, NEW i \in IPs,
         Effective(i) # Unlocked, Effective(i)' # Effective(i),
         mpc' \notin {"killed", "unsaved"}
  PROVE  Effective(i)' = Unlocked /\ clock - Effective(i) > LockoutTime
<1> USE DEF Effective
<1>1. CASE \E S \in SUBSET Expired :
             Erase(S) /\ mpc = "update" /\ mpc' \in {"create", "cleanup"}
  BY <1>1 DEF Erase, Expired, Locked, TypeOK, Gone
<1>2. CASE Start \/ Accept \/ EnterUpdate \/ Spawned \/ Signal \/ ShutDown \/ Tick
  BY <1>2 DEF Start, Accept, EnterUpdate, Spawned, Signal, ShutDown, Tick, list, main, Running, Gone
<1>3. CASE Save
  BY <1>3 DEF Save, Saving, Gone
<1>4. CASE \E c \in Conns, j \in IPs : Spawn(c, j)
  BY <1>4 DEF Spawn, list, Gone
<1>5. ASSUME NEW c \in Conns, LockIp(c)
      PROVE  FALSE
  <2>1. mpc \notin Gone /\ UNCHANGED main
    BY <1>5 DEF LockIp, At, TypeOK
  <2>2. lockedAt'[i] = lockedAt[i]
    BY <1>5, <2>1 DEF LockIp, Stamp, Locked, TypeOK
  <2> QED BY <2>1, <2>2 DEF main
<1>6. ASSUME NEW c \in Conns, ~LockIp(c), ~Dies,
             Login(c) \/ Request(c) \/ RequestTooEarly(c) \/ Quit(c) \/ HangUp(c) \/ Thread(c)
      PROVE  FALSE
  <2>1. UNCHANGED <<main, list>>
    BY <1>6 DEF Login, Request, RequestTooEarly, Serve, Quit, HangUp, Finish, Thread, Connect,
                LoginSucceeded, LoginFailed, LdapFailed, Judge, Reply, End
  <2> QED BY <2>1 DEF main, list
<1>7. CASE UNCHANGED vars
  BY <1>7 DEF vars, main, list
<1>8. ~Dies /\ ~SaveFails
  BY DEF Dies, SaveFails, Saving
<1>9. Update \/ Segv => \E S \in SUBSET Expired :
        Erase(S) /\ mpc = "update" /\ mpc' \in {"create", "cleanup"}
  BY DEF Update, Segv, LeaveUpdate, Expired, Locked
<1> QED BY <1>1, <1>2, <1>3, <1>4, <1>5, <1>6, <1>7, <1>8, <1>9 DEF Next, Main, SpawnFails, Kill

(* A lock stays in force with the time it was set, in memory, in the file and in
   the next run, until LockoutTime has passed, unless the process is killed or
   cannot write the file. *)
THEOREM LocksKeptCorrect == Spec => LocksKept
<1>1. TypeOK /\ [Next]_vars =>
        [\A i \in IPs :
           /\ Effective(i) # Unlocked /\ Effective(i)' # Effective(i)
           /\ mpc' \notin {"killed", "unsaved"}
           => Effective(i)' = Unlocked /\ clock - Effective(i) > LockoutTime]_vars
  BY StepKeepsLocks
<1>2. Spec => []TypeOK
  BY TypeCorrect
<1> QED BY <1>1, <1>2, PTL DEF Spec, LocksKept
=============================================================================
