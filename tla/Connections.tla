---------------------------- MODULE Connections ----------------------------
(* The descriptors of the server and who uses them (WelcomeServer.cpp,
   Server.cpp): the accept loop that hands each connection to a thread, the
   threads that read, reply and keep mails, and shut_down, which ends them all.
   A thread knows its connection by a number; the kernel gives the lowest free
   number to whatever is opened next.

   A step is a call into the kernel, or the taking of a mutex, with what the
   thread does before the next.  shut_down runs on the main thread, out of a
   signal handler too, so a mutex the main thread holds when the signal comes
   stays locked. *)
EXTENDS Integers, Sequences, FiniteSets

CONSTANTS Conns,      \* clients that may connect, each with the thread it gets
          Scripts,    \* what the clients may send: [Conns -> sequence of pieces]
          MaxFd,      \* the numbers are 0..MaxFd
          MayLock,    \* may a client's address be locked when it connects?
          None

(* A piece is a line of a request: one that is a request of its own, the first
   of a SEND, the last of a SEND, or QUIT. *)
Pieces == {"ask", "head", "tail", "quit"}

ASSUME ConnectionAssumption ==
  /\ Scripts \subseteq [Conns -> Seq(Pieces)] /\ MaxFd \in Nat
  /\ MayLock \in BOOLEAN /\ None \notin Conns

VARIABLES
  mpc,      \* where the main thread is; "done" or "dead" without a process
  held,     \* the mutex the main thread holds: the one of the restriction
            \* manager ("singleton"), of its list ("clients"), of the
            \* thread_group ("group") or "none"
  new,      \* the connection accept returned, until its thread is created
  listed,   \* client_sockets_: a sequence of numbers
  toShut,   \* the part of it shut_down has yet to go through
  fdt,      \* [Fds -> what the number denotes]
  cpc,      \* [Conns -> where its thread is]
  sd,       \* [Conns -> the number of its socket]
  ffd,      \* [Conns -> the number of the file its thread writes]
  on,       \* [Conns -> what the read its thread waits in was called on]
  todo,     \* [Conns -> lines read and not yet served: <<whose, piece>>]
  inside,   \* [Conns -> is the parser inside a message?]
  asked,    \* [Conns -> has the thread been asked to end?]
  script,   \* what the clients send, in this behaviour: a member of Scripts
  sent,     \* [Conns -> pieces of it that have arrived]
  taken,    \* [Conns -> pieces read from the socket]
  peer,     \* [Conns -> "open" or "gone"]
  shut,     \* sockets that were shut down
  gaveUp,   \* history: threads that closed their number and went on
  reused    \* history: was the number of such a thread given out again?

main    == <<mpc, held, new, listed, toShut>>
thread  == <<cpc, ffd, on, todo, inside, asked>>
client  == <<script, sent, peer>>
history == <<gaveUp, reused>>
vars    == <<main, fdt, sd, thread, client, taken, shut, history>>

Fds     == 0..MaxFd
Free    == [kind |-> "free", of |-> None]
Welcome == [kind |-> "welcome", of |-> None]
Sock(c) == [kind |-> "sock", of |-> c]
File(c) == [kind |-> "file", of |-> c]
Objects == {Free, Welcome} \cup {Sock(c) : c \in Conns} \cup {File(c) : c \in Conns}

Alive   == mpc \notin {"done", "dead"}
Serving == mpc \in {"accept", "get", "update", "enlist", "create", "created"}
Opening == {f \in Fds : fdt[f] = Free}
Lowest  == CHOOSE f \in Opening : \A g \in Opening : f <= g

Init ==
  /\ mpc = "accept" /\ held = "none" /\ new = None /\ listed = <<>> /\ toShut = <<>>
  /\ fdt = [f \in Fds |-> IF f = 0 THEN Welcome ELSE Free]
  /\ cpc = [c \in Conns |-> "none"] /\ sd = [c \in Conns |-> 0]
  /\ ffd = [c \in Conns |-> 0] /\ on = [c \in Conns |-> Free]
  /\ todo = [c \in Conns |-> <<>>] /\ inside = [c \in Conns |-> FALSE]
  /\ asked = [c \in Conns |-> FALSE]
  /\ script \in Scripts /\ sent = [c \in Conns |-> 0]
  /\ taken = [c \in Conns |-> 0] /\ peer = [c \in Conns |-> "open"]
  /\ shut = {} /\ gaveUp = {} /\ reused = FALSE

-----------------------------------------------------------------------------
(* The kernel. *)

Live(c) == cpc[c] \notin {"none", "ended"}

GiveOut(f, o) ==
  /\ fdt' = [fdt EXCEPT ![f] = o]
  /\ reused' = (reused \/ \E c \in gaveUp : Live(c) /\ sd[c] = f)

CloseNumber(f) == fdt' = [fdt EXCEPT ![f] = Free]

(* The process ends, with all its threads. *)
Dies ==
  /\ mpc' = "dead"
  /\ UNCHANGED <<held, new, listed, toShut, fdt, sd, thread, client, taken, shut, history>>

-----------------------------------------------------------------------------
(* The clients.  What they do before they are accepted waits in the kernel, so
   they may as well do it afterwards; what reaches a socket that was shut down
   is not read. *)

Send(c) ==
  /\ Live(c) /\ peer[c] = "open" /\ c \notin shut
  /\ \E n \in (sent[c] + 1)..Len(script[c]) : sent' = [sent EXCEPT ![c] = n]
  /\ UNCHANGED <<main, fdt, sd, thread, script, peer, taken, shut, history>>

GoAway(c) ==
  /\ Live(c) /\ peer[c] = "open"
  /\ peer' = [peer EXCEPT ![c] = "gone"]
  /\ UNCHANGED <<main, fdt, sd, thread, script, sent, taken, shut, history>>

-----------------------------------------------------------------------------
(* The main thread: mainLoop, and shut_down after a signal or an exception. *)

(* accept returned; getInstance holds the singleton's mutex ... *)
Accept(c) ==
  /\ mpc = "accept" /\ cpc[c] = "none"
  /\ Opening # {}
  /\ GiveOut(Lowest, Sock(c)) /\ sd' = [sd EXCEPT ![c] = Lowest]
  /\ mpc' = "get" /\ held' = "singleton" /\ new' = c
  /\ UNCHANGED <<listed, toShut, thread, client, taken, shut, gaveUp>>

(* EMFILE, which is looked at after update only. *)
AcceptFails(c) ==
  /\ mpc = "accept" /\ cpc[c] = "none"
  /\ Opening = {}
  /\ mpc' = "get" /\ held' = "singleton"
  /\ UNCHANGED <<new, listed, toShut, fdt, sd, thread, client, taken, shut, history>>

(* ... and update the list's. *)
EnterUpdate ==
  /\ mpc = "get" /\ mpc' = "update" /\ held' = "clients"
  /\ UNCHANGED <<new, listed, toShut, fdt, sd, thread, client, taken, shut, history>>

(* When accept had failed the exception ends mainLoop, and main deletes the
   server. *)
LeaveUpdate ==
  /\ mpc = "update" /\ held' = "none"
  /\ mpc' = IF new = None THEN "stop" ELSE "enlist"
  /\ UNCHANGED <<new, listed, toShut, fdt, sd, thread, client, taken, shut, history>>

(* push_back, and into create_thread *)
Enlist ==
  /\ mpc = "enlist" /\ mpc' = "create" /\ held' = "group"
  /\ listed' = Append(listed, sd[new])
  /\ UNCHANGED <<new, toShut, fdt, sd, thread, client, taken, shut, history>>

(* The thread runs before create_thread lets the mutex go. *)
Spawn ==
  /\ mpc = "create" /\ mpc' = "created" /\ new' = None
  /\ cpc' = [cpc EXCEPT ![new] = "start"]
  /\ UNCHANGED <<held, listed, toShut, fdt, sd, ffd, on, todo, inside, asked, client, taken, shut,
                 history>>

(* thread_resource_error, which nobody catches *)
SpawnFails == mpc = "create" /\ Dies

Spawned ==
  /\ mpc = "created" /\ mpc' = "accept" /\ held' = "none"
  /\ UNCHANGED <<new, listed, toShut, fdt, sd, thread, client, taken, shut, history>>

Signal ==
  /\ Serving /\ mpc' = "stop"
  /\ UNCHANGED <<held, new, listed, toShut, fdt, sd, thread, client, taken, shut, history>>

(* closeSocket(welcome_socket_) *)
CloseWelcome ==
  /\ mpc = "stop" /\ mpc' = "interrupt"
  /\ CloseNumber(0)
  /\ UNCHANGED <<held, new, listed, toShut, sd, thread, client, taken, shut, history>>

ToShut_Rest == IF listed = <<>> THEN <<>> ELSE Tail(listed)  \* mutant: skips the first
ToShut == listed

(* interrupt_all *)
StopThreads ==
  /\ mpc = "interrupt" /\ held # "group" /\ mpc' = "shut"
  /\ asked' = [c \in Conns |-> Live(c)]
  /\ toShut' = ToShut
  /\ UNCHANGED <<held, new, listed, fdt, sd, cpc, ffd, on, todo, inside, client, taken, shut, history>>

(* shutdown, on whatever the number denotes by now; but for a socket it fails. *)
ShutOne ==
  /\ mpc = "shut" /\ toShut # <<>>
  /\ LET o == fdt[Head(toShut)] IN
       shut' = IF o.kind = "sock" THEN shut \cup {o.of} ELSE shut
  /\ toShut' = Tail(toShut)
  /\ UNCHANGED <<mpc, held, new, listed, fdt, sd, thread, client, taken, history>>

Joined_NoWait == TRUE                    \* mutant: the threads are left behind
Joined == \A c \in Conns : ~Live(c)

(* join_all, and ~WelcomeServer, which fetches the restriction manager *)
Join ==
  /\ mpc = "shut" /\ toShut = <<>> /\ Joined /\ held # "singleton"
  /\ mpc' = "done"
  /\ UNCHANGED <<held, new, listed, toShut, fdt, sd, thread, client, taken, shut, history>>

-----------------------------------------------------------------------------
(* The thread of a connection: handleClient. *)

Go(c, l) == cpc' = [cpc EXCEPT ![c] = l]

(* Is the address locked?  Asked when a client connects, and by handleLogin. *)
Asking(c) == cpc[c] \in {"start", "login"} /\ held \notin {"singleton", "clients"}

(* It is: closeSocket, and the thread goes on. *)
TurnAway(c) ==
  /\ Asking(c) /\ MayLock
  /\ Go(c, IF cpc[c] = "start" THEN "loop" ELSE "point")
  /\ CloseNumber(sd[c]) /\ gaveUp' = gaveUp \cup {c}
  /\ UNCHANGED <<main, sd, ffd, on, todo, inside, asked, client, taken, shut, reused>>

(* readline or my_read with nothing left in the buffer. *)
CallRead(c) ==
  /\ cpc[c] = "loop" /\ todo[c] = <<>>
  /\ on' = [on EXCEPT ![c] = fdt[sd[c]]]
  /\ Go(c, "read")
  /\ UNCHANGED <<main, fdt, sd, ffd, todo, inside, asked, client, taken, shut, history>>

Arrived(d) == sent[d] > taken[d]

GetLines(c) ==
  /\ cpc[c] = "read" /\ on[c].kind = "sock"
  /\ LET d == on[c].of IN
       /\ Arrived(d)
       /\ todo' = [todo EXCEPT ![c] =
                     [k \in 1..(sent[d] - taken[d]) |-> <<d, script[d][taken[d] + k]>>]]
       /\ taken' = [taken EXCEPT ![d] = sent[d]]
  /\ on' = [on EXCEPT ![c] = Free] /\ Go(c, "loop")
  /\ UNCHANGED <<main, fdt, sd, ffd, inside, asked, client, shut, history>>

(* The end of the connection, or an error: no descriptor, the listening socket,
   a file open for writing only. *)
AtEnd(d) == ~Arrived(d) /\ (peer[d] = "gone" \/ d \in shut)

GetNothing(c) ==
  /\ cpc[c] = "read"
  /\ on[c].kind = "sock" => AtEnd(on[c].of)
  /\ on' = [on EXCEPT ![c] = Free] /\ Go(c, "close")
  /\ UNCHANGED <<main, fdt, sd, ffd, todo, inside, asked, client, taken, shut, history>>

(* clientReceivedData with the next line: inside a SEND up to its last line. *)
NextLine(c, piece) ==
  /\ cpc[c] = "loop" /\ todo[c] # <<>> /\ piece = Head(todo[c])[2]
  /\ todo' = [todo EXCEPT ![c] = Tail(@)]
  /\ UNCHANGED <<main, sd, ffd, on, asked, client, taken, shut, reused>>

Collect(c) ==
  /\ \/ NextLine(c, "head")
     \/ inside[c] /\ \E piece \in {"ask", "quit"} : NextLine(c, piece)
  /\ inside' = [inside EXCEPT ![c] = TRUE]
  /\ Go(c, "point")
  /\ UNCHANGED <<fdt, gaveUp>>

(* The request is complete.  LOGIN looks at the list of locks; the others may
   wait for good for a mailbox's mutex that a killed process left locked. *)
Dispatch(c) ==
  /\ \/ NextLine(c, "tail") /\ inside[c] /\ (Go(c, "keep") \/ Go(c, "stuck"))
     \/ NextLine(c, "ask") /\ ~inside[c] /\ (Go(c, "login") \/ Go(c, "reply") \/ Go(c, "stuck"))
  /\ inside' = [inside EXCEPT ![c] = FALSE]
  /\ UNCHANGED <<fdt, gaveUp>>

(* Before any login, the ERR for it goes to descriptor 1, which is no socket;
   the exception ends the process. *)
TooEarly(c) ==
  /\ cpc[c] = "loop" /\ todo[c] # <<>> /\ Head(todo[c])[2] = IF inside[c] THEN "tail" ELSE "ask"
  /\ Dies

(* No request begins like this: the line is ignored. *)
Ignore(c) ==
  /\ NextLine(c, "tail") /\ ~inside[c] /\ Go(c, "point")
  /\ UNCHANGED <<fdt, inside, gaveUp>>

(* handleQuit: closeSocket, and back to the loop. *)
Quit(c) ==
  /\ NextLine(c, "quit") /\ ~inside[c]
  /\ CloseNumber(sd[c]) /\ gaveUp' = gaveUp \cup {c}
  /\ Go(c, "point")
  /\ UNCHANGED inside

(* writeMessageToFile; without a number the SEND fails. *)
OpenFile(c) ==
  /\ cpc[c] = "keep"
  /\ \/ /\ Opening # {}
        /\ GiveOut(Lowest, File(c)) /\ ffd' = [ffd EXCEPT ![c] = Lowest]
        /\ Go(c, "write")
     \/ Opening = {} /\ Go(c, "reply") /\ UNCHANGED <<fdt, ffd, reused>>
  /\ UNCHANGED <<main, sd, on, todo, inside, asked, client, taken, shut, gaveUp>>

Write(c) ==
  /\ cpc[c] = "write" /\ Go(c, "flush")
  /\ UNCHANGED <<main, fdt, sd, ffd, on, todo, inside, asked, client, taken, shut, history>>

CloseFile_Socket(c) ==                   \* mutant: closes the wrong number
  /\ cpc[c] = "flush" /\ Go(c, "reply")
  /\ CloseNumber(sd[c]) /\ ffd' = [ffd EXCEPT ![c] = 0]
  /\ UNCHANGED <<main, sd, on, todo, inside, asked, client, taken, shut, history>>

CloseFile(c) ==
  /\ cpc[c] = "flush" /\ Go(c, "reply")
  /\ CloseNumber(ffd[c]) /\ ffd' = [ffd EXCEPT ![c] = 0]
  /\ UNCHANGED <<main, sd, on, todo, inside, asked, client, taken, shut, history>>

(* sendMsg, with the welcome or a reply.  To a socket that was shut, or whose
   client is gone, send raises SIGPIPE; on anything else it fails, and the
   exception leaves the thread. *)
Reply(c) ==
  /\ Asking(c) \/ cpc[c] = "reply"
  /\ LET o == fdt[sd[c]] IN
       \/ /\ o.kind = "sock" /\ o.of \notin shut
          /\ Go(c, IF cpc[c] = "start" THEN "loop" ELSE "point")
          /\ UNCHANGED <<main, fdt, sd, ffd, on, todo, inside, asked, client, taken, shut, history>>
       \/ /\ o.kind = "sock" => o.of \in shut \/ peer[o.of] = "gone"
          /\ Dies

MayEnd_Anywhere(c) == asked[c]           \* mutant: also inside a message
MayEnd(c) == asked[c] /\ ~inside[c]

(* The interruption point.  Being asked to end is forgotten there. *)
Point(c) ==
  /\ cpc[c] = "point"
  /\ Go(c, IF MayEnd(c) THEN "close" ELSE "loop")
  /\ asked' = [asked EXCEPT ![c] = FALSE]
  /\ UNCHANGED <<main, fdt, sd, ffd, on, todo, inside, client, taken, shut, history>>

Close_Not(c) ==                          \* mutant: relies on QUIT to have closed it
  /\ cpc[c] = "close" /\ Go(c, "ended")
  /\ UNCHANGED <<main, fdt, sd, ffd, on, todo, inside, asked, client, taken, shut, history>>

(* "execution finished, for whatever reason -> close the clients socket" *)
Close(c) ==
  /\ cpc[c] = "close" /\ Go(c, "ended")
  /\ CloseNumber(sd[c])
  /\ UNCHANGED <<main, sd, ffd, on, todo, inside, asked, client, taken, shut, history>>
-----------------------------------------------------------------------------
Run(c) ==
  \/ TurnAway(c) \/ CallRead(c) \/ GetLines(c) \/ GetNothing(c)
  \/ Collect(c) \/ Dispatch(c) \/ TooEarly(c) \/ Ignore(c) \/ Quit(c)
  \/ OpenFile(c) \/ Write(c) \/ CloseFile(c) \/ Reply(c) \/ Point(c) \/ Close(c)

Main == \/ EnterUpdate \/ LeaveUpdate \/ Enlist \/ Spawn \/ Spawned
        \/ CloseWelcome \/ StopThreads \/ ShutOne \/ Join

Next == /\ Alive
        /\ \/ \E c \in Conns : \/ Send(c) \/ GoAway(c)
                               \/ Accept(c) \/ AcceptFails(c) \/ Run(c)
           \/ Signal \/ SpawnFails \/ Main

Spec == Init /\ [][Next]_vars

(* The kernel runs the main thread and every thread that can go on, and a read()
   returns when there is something to return.  Nothing makes a client do
   anything, and nothing stops the server. *)
FairSpec == Spec /\ WF_vars(Alive /\ Main) /\ \A c \in Conns : WF_vars(Alive /\ Run(c))

-----------------------------------------------------------------------------
Lines == Seq(Conns \X Pieces)

(* The variables have their types; a process that ended in order has no threads. *)
TypeOK ==
  /\ mpc \in {"accept", "get", "update", "enlist", "create", "created",
              "stop", "interrupt", "shut", "done", "dead"}
  /\ held \in {"none", "singleton", "clients", "group"}
  /\ new \in Conns \cup {None} /\ (mpc \in {"enlist", "create"} => new # None)
  /\ listed \in Seq(Fds) /\ toShut \in Seq(Fds)
  /\ fdt \in [Fds -> Objects] /\ sd \in [Conns -> Fds] /\ ffd \in [Conns -> Fds]
  /\ cpc \in [Conns -> {"none", "start", "loop", "read", "login", "keep", "write", "flush",
                         "reply", "stuck", "point", "close", "ended"}]
  /\ on \in [Conns -> Objects] /\ todo \in [Conns -> Lines]
  /\ inside \in [Conns -> BOOLEAN] /\ asked \in [Conns -> BOOLEAN]
  /\ script \in Scripts /\ sent \in [Conns -> Nat] /\ taken \in [Conns -> Nat]
  /\ \A c \in Conns : taken[c] <= sent[c] /\ sent[c] <= Len(script[c])
  /\ peer \in [Conns -> {"open", "gone"}] /\ shut \subseteq Conns
  /\ gaveUp \subseteq Conns /\ reused \in BOOLEAN
  /\ mpc = "done" => \A c \in Conns : ~Live(c)

(* As long as no number a thread has closed before its end is given out again,
   each thread reads from and replies to its own client and writes to its own
   file: the descriptors it uses are the ones it was given. *)
OwnUnlessReused ==
  ~reused => \A c \in Conns :
    /\ Live(c) => fdt[sd[c]] = IF c \in gaveUp THEN Free ELSE Sock(c)
    /\ cpc[c] \in {"write", "flush"} => fdt[ffd[c]] = File(c)
    /\ on[c] \in {Free, Sock(c)}
    /\ \A k \in DOMAIN todo[c] : todo[c][k][1] = c

(* Whatever happens to the numbers, a thread that has ended leaves none behind,
   so that accept runs out of them only under as many live connections. *)
NothingLeaked ==
  \A f \in Fds : fdt[f].kind \in {"sock", "file"} => Live(fdt[f].of) \/ fdt[f].of = new

(* A thread that is asked to end finishes the message it is working on, as far
   as its lines have arrived; one that is between messages may leave lines, and
   one that has closed its number reads no more. *)
MessageFinished ==
  ~reused => \A c \in Conns :
    cpc[c] = "ended" /\ inside[c] /\ c \notin gaveUp => todo[c] = <<>> /\ taken[c] = sent[c]

(* A server told to stop while its main thread holds no mutex does: shut_down's
   list leads to every socket that a thread may be reading from.  Two things can
   prevent it: a number that was used again, and a request that waits for a
   mutex which a killed process left locked. *)
StopsUnlessReused ==
  mpc = "stop" /\ held = "none" ~> ~Alive \/ reused \/ \E c \in Conns : cpc[c] = "stuck"
=============================================================================
