# Models of hts-ue: a threaded mail server and its client

The repository holds a small mail system in C++: a server that authenticates
its users against LDAP and keeps their mails in a spool directory, and a text
client.  This directory holds TLA+ models of it, TLC configurations that check
them on small instances, and TLAPS proofs about the models.  Paths below are
relative to `src/hts-ue/src`.

    tlc -workers 2 -config spool_exclusion.cfg MCMailSpool
    for m in *Proofs.tla; do tlapm $m; done

## The system

| Component | Files | State | Operations |
|---|---|---|---|
| Process, signals | `ServerMain.cpp` | the server object | start, `signal_handler` (SIGINT, SIGTERM, SIGSEGV) |
| Accept loop, connection threads | `WelcomeServer.cpp`, `Server.cpp` | list of client descriptors, thread group | `mainLoop`, `handleClient`, `shut_down`, `sendMsg`, `closeSocket` |
| Dispatch | `MailServer.cpp` | parser, login manager per connection | `clientConnected`, `clientReceivedData`, `messageReceived`, `handle*` |
| Request parser | `MessageParser.cpp`, `messages/MessageFactory.cpp` | parser state, lines collected, lines and bytes awaited | `digest` |
| Message conversion | `messages/*Message.cpp` | none | `inflate`, `deflate` |
| Login | `LoginManager.cpp` | logged in or not | `sendLDAPRequest` |
| Client restriction | `ClientInfo.cpp`, `ClientRestrictionManager.cpp`, `Singleton.h` | locked addresses, strikes per connection, the file `iplist` | `isLocked`, `lock`, `update`, constructor and destructor |
| Mail spool | `ThreadedFileManager.cpp` | directories, files, named mutexes in the kernel | `persistSendMessage`, `getMessageList`, `getMessageForRead`, `removeFile` |
| Mail names | `MessageIdGenerator.cpp` | state of `lrand48` | `getUniqueMessageId` |
| Line reader | `readline.cpp` | one static buffer for all threads | `my_read`, `readline` |
| Client | `client/Client.cpp`, `client/UserManager.cpp` | last request, login state | menus, `transmitMessage`, `getResponse`, `didReceiveResponse` |
| Response parser | `client/ResponseParser.cpp`, `client/responses/*` | parser state, lines collected | `digest`, `finishedSendMessage` |

How they interact.  The main thread runs the accept loop; each connection gets
a thread that reads lines, feeds them to its parser and, when a request is
complete, runs its handler to the end before it reads on.  Threads share the
spool (the file system and named mutexes, which outlive the process), the list
of locked addresses (a `shared_mutex`), the singletons (each behind a mutex that
`getInstance` holds for a moment), the line reader's static buffer, and the
table of descriptors.  The signal handler runs on the main thread and does the
whole cleanup there: it interrupts the threads, shuts their sockets, joins them
and writes the list of locks to disk.

What is hard:

- exclusion per mailbox: a mutex looked up by name and unlinked by whichever
  operation fails, while others have it open;
- directory walks of many system calls next to deliveries and deletions;
- SEND to several receivers that fails half-way; crashes between the creation
  and the writing of a file, or with the mutex held;
- strikes per connection and locks per address, checked in separate steps,
  next to an accept loop that expires locks and a cleanup that saves them;
- a signal handler that joins threads which may wait for what the interrupted
  thread holds;
- one static read buffer under all threads, without a lock;
- descriptors closed twice, while the kernel gives the number to another client,
  and a list of descriptors that only grows;
- the number a client takes from a list, applied to the mailbox as it is later;
- two grammars for one request: `MessageParser::digest` counts lines,
  `SendMessage::inflate` looks for markers.

What makes each component correct:

| Component | Properties |
|---|---|
| Mail spool | one thread in a mailbox at a time; LIST and READ answer what is there; a mail delivered stays until it is deleted; copies match the progress of a SEND; every request ends |
| Client restriction | three failures close a connection; a lock lasts as long as it should, over restarts |
| Process and signals | a server told to stop stops, and has saved the locks |
| Parser, conversion | what is dispatched is what was sent; after a request the parser is clean; conversion returns and is inverse to `deflate` |
| Client, response parser | client and server agree on where a response ends; the client thinks it is logged in only if it is |
| Client and server together | a request is carried out at most once, as it was made, and the response shown is true |
| Line reader | a thread gets the bytes of its own connection, in order |
| Connection threads | a thread uses the descriptors it was given; none is left behind; a message begun is finished; a server told to stop stops |
| Mailbox order | READ and DEL work on the mail the user picked from the list |

## The modules

### MailSpool

`MailSpool.tla` is `ThreadedFileManager.cpp` with the callers in
`MailServer.cpp`.  A thread's control location `pc` is the system call it is
about to make; `req` is the request it serves and `at` the receiver it has
reached.

| State | Code |
|---|---|
| `names`, `handle`, `owner` | the kernel's named mutexes: name to object, object a `named_mutex` variable has open, who holds it (`Dead`: a thread of an ended process) |
| `dirs`, `entries`, `stored`, `partial` | user directories, files in them, files that hold a whole mail, files cut off inside one |
| `scan`, `seen`, `file` | a `directory_iterator`'s remaining names, `sorted_files`, the file in use |
| `outcome` | how the handler ends: OK, ERR, or an exception nobody catches |
| `drawn`, `sent`, `delivered`, `lost`, `deleted`, `tainted` | history, for bounds and properties only |

| Actions | Code |
|---|---|
| `Receive`, `Answer`, `Abort` | `messageReceived` and the handlers around the spool's functions |
| `Open`, `OpenFails`, `Lock` | `named_mutex nm(open_or_create, ...)`, which may throw, and `scoped_lock` |
| `Access`, `MkDir`, `Create`, `Write` | `persistSendMessage`: name, directory, file, content |
| `Enter`, `ListVisit`, `ListStat`, `IndexVisit`, `ScanDone`, `Pick`, `Load`, `Remove` | the walks of `getMessageList` and `getMessageAtIndex`, then reading or removing |
| `CallFails` | a file system call that fails |
| `Unlock`, `Unwind`, `Unlink` | leaving the `try` block, by its end or by an exception; then `named_mutex::remove` |
| `Crash` | the end of the process, with or without an orderly restart of the machine |

A mail is in its file only when the write is over.  A process that is killed
before that (or that another thread's exception ends) leaves an empty file or one
cut off (`CutOff`, `ProcessDies`), and so does a write that fails, noticed or not
(`Write`).  A whole LIST fails at such a file; `inflate` of one cut off inside the
body does not return, which ends the process when memory runs out, and of one cut
off behind it throws (`Inflate`).  `FailureNeedsTaint` exempts these files and
nothing else.

`tainted` says where exclusion may be broken: a failing operation unlinked the
mailbox's mutex while another thread had it open, and the last of those openers
has not gone yet.  The code does break the exclusion then, which
`spool_comment_lock` shows; the safety properties say that nothing else does.

The order of mails by modification time is left to `Mailbox`: here an index
selects any file of the mailbox, or none.  Content is a model value; whether a file holds all of
it, a part or nothing is what the code can tell apart.

`MailStore.tla` is what the spool promises to its users: mails appear whole, in
one step, under a name their mailbox never held, and leave once.  `MailSpool`
implements it (`StoreSpec`) when names do not repeat.

### Lockout

`Lockout.tla` has three kinds of actors: the main thread (`mpc`), which accepts,
updates the list and, after a signal, runs the cleanup on top of whatever it was
doing; the threads of the connections (`cpc`), which connect, log in and reply;
and the clock.  `lockedAt` is `locked_clients_`, `iplist` the file, `attempts` the
`attemptCount_` of each `ClientInfo`, `open` says whether a connection's descriptor
is, and `left` how many lines the thread's buffer has when it is closed.  LDAP is
external: a login succeeds, fails, or `ldap_init` fails.

`held` is the mutex the main thread holds: the singleton's in `getInstance`, the
list's in `update`, the `thread_group`'s in `create_thread`.  A signal leaves it
locked.  `shut_down` takes the thread_group's again, `~WelcomeServer` the
singleton's, and the connections' threads, which `shut_down` joins, take the list's
and the singleton's.

| Actions | Code |
|---|---|
| `Start`, `Save`, `SaveFails` | constructor and destructor of `ClientRestrictionManager`, with the file |
| `Accept`, `EnterUpdate`, `Update`, `Spawn`, `SpawnFails`, `Spawned` | one turn of `mainLoop`, `update` in it |
| `Signal`, `Segv`, `ShutDown` | `signal_handler`, `shut_down` |
| `Connect`, `Login`, `LoginSucceeded`, `LoginFailed`, `LdapFailed`, `LockIp`, `Judge`, `Request`, `RequestTooEarly`, `Reply`, `Quit`, `HangUp`, `End` | a connection's thread |

The third failure only closes the descriptor: the thread goes back to its loop
and serves what its buffer holds.  `ThreeStrikes` therefore says that nothing is
read from the client or answered to it any more.  `saveIpFile` looks at no
result, so a save may keep the old file or write a part of the new one
(`SaveFails`); `LocksKept` exempts that and kills, which do lose locks.

`update` goes on from a node it has erased.  That is undefined; the outcomes
modelled are that the right locks go, that expired ones are passed over (with
`SkipSize` locks or more, when the tree is deep enough for it), and that the
process gets SIGSEGV, which runs the same handler.

### Messages, MessageParser and Session

`Session.tla` is one connection from `connect` on: the client, the two
directions of the socket, and the server's thread with its parser and handlers.

| State | Code |
|---|---|
| `cpc`, `request`, `user`, `resp`, `out` | the client before its connection, waiting for the welcome, in its menu or in `getResponse`, its last request, `userManager_`, `response_parser_`, what `transmitMessage` has yet to send |
| `c2s`, `s2c` | sent and not yet read, in each direction |
| `spc`, `parser`, `loggedIn` | the server's thread, `parser_`, `isLoggedIn_` |
| `box` | the mails in mailboxes, without the mechanics of `MailSpool` |
| `asks`, `sent`, `served`, `handed`, `shown` | history, for bounds and properties only |

| Actions | Code |
|---|---|
| `Connect`, `Refused`, `Welcomed`; `Greet` | `connectToServer`, `testConnection`; `clientConnected` |
| `Choose`, `Transmit` | the menus of `Client.cpp`; `transmitMessage`, in as many pieces as `send` takes |
| `Hear`, `Lost` | `getResponse` with one line or one attachment, `ResponseParser::digest`, `didReceiveResponse`; the connection is gone |
| `Receive` | one turn of `handleClient`: reading, chopping, `MessageParser::digest`, and the handler with its reply |
| `Disconnected`, `Reset`, `Die` | the end of a connection, seen from either side |

`MessageParser.tla` is the parser both ends use, `Messages.tla` the conversion
between messages and text.  A text is a sequence of symbols, not of bytes: words
count as one, so that the size of an attachment is the number of its symbols and
numbers have one digit.  What matters is kept: line ends, carriage returns, the
marks, line by line against byte by byte, and that `inflate` goes over the text
of all collected lines with rules of its own.  `MaxLen` is the buffer that
`readline` fills, of 1024 bytes at both ends: what does not fit it is handed on in
pieces, each taken for a line (`Filled`, `Piece`).  The constant `Symbol` holds the
symbols there are; TLC takes all strings.  `inflate` of a SEND whose marks
are missing appends the last line for ever: the outcome `Endless` ends the
process.

The spool and LDAP are external here, and may fail at any time.  A reply is
sent whole: a blocking `send` is cut short only by a signal handled on that
thread or by a shutdown, after which the next `send` ends the process.  The
static buffer of `readline.cpp` does no harm with one connection at a time; more
are the subject of `LineReader`.  `buffer[size - 2]` of a read of one byte is
the byte before the buffer, in the allocator's header and never a carriage
return.

`Writable` says what the client's menus let a user write: names, titles
and file names are words, the lines of a body hold no line end and none is a "."
(the body ends there), a file is not empty.  `SessionAssumption` says that of the
mails to send and of those in the mailbox, and that the user's name fits the
buffer.  A mail is `Plain` when, beyond that, the two grammars agree about it:
every line fits the buffer (`Short`), no title and no receiver from the third on
is a ".", no receiver is the mark behind the receivers, no line of the body ends
with a carriage return, and no attachment has one as its last byte but one.  Most
properties hold for plain mails only, and each restriction is needed: a "." there,
a line whose second piece is a ".", or a "." and a carriage return in the body,
makes a grammar take the body to be over, and any line in two pieces arrives as
two; a file that ends with CR NL arrives one byte short.

A client that ends inside a request leaves the server with a line without its
end, a number without its last digits (`Cuts`), or an attachment without its
bytes, which the code takes for whole: `ServedAsSent` then lets the last line be
cut short, the index be smaller, and an attachment be shorter and have other bytes.

A request before the login is answered on descriptor 1, which is what the parser
passes on; `send` fails there, and the exception ends the process (`TooEarly`).
The client's menus never offer such a request, which `PlainMailsAreSafe` rests on.

`Exchange.tla` is what a connection promises its user, without texts and wires:
he asks, the server performs the request in one step or fails, and what is shown
to him is true of the mailboxes and the login at that moment.  A mail arrives as
a `Copy`, without the last byte of its attachments, which the code drops; when
the sender left inside his request, as a `Torn` one, whose attachments may be
shorter and hold other bytes.  `Session` implements it
(`ServiceSpec`).  The mapping leaves the mailboxes and the login as they are and
reads from the client's location and the number of the request last served how
far a request has come (`Turn`).  From the first mail on that is not plain
nothing is promised: `turn` is then `"void"`, a state the abstract service has
for it.  An OK to a SEND means a copy for every receiver, but an ERR says
nothing about how many have one, as in the code.  The mailboxes of `Session` are
this connection's alone; what others do to them meanwhile is the subject of
`MailSpool` and `Mailbox`.

### LineReader

`LineReader.tla` is `readline.cpp` with its caller `handleClient`.  The build
does not optimise (`-O0` in `CMakeLists.txt`), so each load and store of the
three statics is a step of its own, in the order of the source; a `read()` is
one step, the one in which it returns, and an interrupted one is tried again
within it.  A byte is named by its connection and its place.

| State | Code |
|---|---|
| `read_cnt`, `read_ptr`, `read_buf` | the static variables of `my_read`; the pointer as an index, 0 for `NULL` |
| `pc`, `reg` | where a thread is in `my_read`, and the value it has loaded |
| `item`, `size` | the thread's own buffer; `getAwaitingSize` |
| `text`, `sent`, `taken`, `peer` | what the client sends, has sent, what reads took; how the client left |
| `mixed`, `filler`, `handed` | history, for properties only |

| Actions | Code |
|---|---|
| `Call`, `ReadBytes`, `ReadNothing`, `StoreCount`, `TestCount`, `TestZero`, `Rewind` | the part of `my_read` that fills the buffer |
| `LoadCount`, `LowerCount`, `LoadPointer`, `StepPointer` | `read_cnt--`, `*read_ptr++` |
| `GotByte`, `GotNothing` | `readline` and the loop over an attachment, with the result of `my_read` |
| `Crash` | a thread follows `read_ptr` before it was ever set |
| `HandOn` | `clientReceivedData` |

`mixed` becomes true when a thread calls `my_read`, or its `read()` returns,
with another thread under way inside it or with another thread's bytes in the
buffer.  From then on the code mixes the connections up: bytes are lost, doubled
and given to the wrong thread, and the properties about order speak of behaviours
before that only.  Being called in turns is not enough to stay unmixed, since a
thread comes back to `my_read` after its reply is on its way; the bytes the next
client sent may be taken while it waits.  What the
mixing can do to the process is `Crash`: a thread that finds bytes counted before
the first `read_ptr = read_buf` follows a null pointer.  What holds in spite of
it is `Settles`: the thread of a client that has left comes to its end once the
others stay out of `my_read`.  Without that condition it need not: `read_cnt` is
loaded anew for `== 0`, and two threads at the end of their streams can each
lower it between the other's two tests for ever.

A negative count stands for all of them, and the place behind the buffer for
those that follow it: the code tells none of them apart.

### Connections

`Connections.tla` has the main thread (`mpc`), the threads of the connections
(`cpc`) and the table of descriptors (`fdt`), which the kernel fills from its
lowest free number.  Numbers are given out to accepted sockets and to the files
mails are written to.

| State | Code |
|---|---|
| `held`, `new` | the mutex the main thread holds, as in `Lockout`; the connection it has accepted |
| `listed`, `toShut` | `client_sockets_`, and the part `shut_down` has yet to go through |
| `sd`, `ffd` | `client_info->getSocketDescriptor()`, the stream in `writeMessageToFile` |
| `on`, `todo`, `inside`, `asked` | the socket a blocked read is on; lines read and not served; the parser's state; an interruption requested |
| `script`, `sent`, `taken`, `peer`, `shut` | what clients send and the state of their sockets |
| `gaveUp`, `reused` | history, for properties only |

| Actions | Code |
|---|---|
| `Accept`, `AcceptFails`, `EnterUpdate`, `LeaveUpdate`, `Enlist`, `Spawn`, `SpawnFails`, `Spawned` | `mainLoop`; an exception for EMFILE reaches `main`, one of `create_thread` nobody |
| `Signal`, `CloseWelcome`, `StopThreads`, `ShutOne`, `Join` | `signal_handler`, `shut_down`, `~WelcomeServer` |
| `TurnAway`, `Quit` | `closeSocket` in `clientConnected`, `handleQuit`, `handleLogin` |
| `CallRead`, `GetLines`, `GetNothing` | the read in `handleClient` |
| `Collect`, `Ignore`, `Dispatch`, `TooEarly`, `OpenFile`, `Write`, `CloseFile`, `Reply` | a line given to the parser, a handler, a mail's file, `sendMsg` |
| `Point`, `Close` | the interruption point; the last `closeSocket` |

A thread that has closed its number goes back to its loop and closes it again at
its end.  Between the two the number may be given to a client just accepted or
to a file: `reused`.  Then the thread reads and closes what is another's, and
`StopsUnlessReused` without its restriction fails: a thread waits in a read on a
socket whose number is closed, no `shutdown` reaches it and `join_all` waits for
it.  A stop does not end either when the signal met the main thread with a mutex,
which `StopEnds` of `Lockout` is about, or when a thread waits for a mailbox's
mutex that a killed process left locked (`"stuck"`); `StopsUnlessReused` names
all three.  `NothingLeaked` holds in any case.  The buffer of lines is one per thread
here; that all threads share it is `LineReader`.

### Mailbox

`Mailbox.tla` is one mailbox and the clients of its owner.  `dir` is the
directory in the order `readdir` returns it, `time` the modification times of
its files, `shown` the list on a client's screen.  `Sorted` is the order LIST and
`getMessageAtIndex` go by: by time, and files of one second as the directory has
them.  `Multimap` is how the code gets there, inserting file by file as the walk
meets them, and `SortedByInsertion` says that the two agree.  `Deliver`, `List`,
`Read` and `Delete` are `persistSendMessage`, `getMessageList`, `getMessageForRead` and
`removeFile`, each one step; `Ask` and `Hear` are the client's.  A file of the
same second keeps the place the directory gives it, and the clock may be set back.

`moved` says that a client's list may be out of date: a mail in it was deleted,
by another client or by its own last DEL, or one arrived with a time not above
all of theirs.  `MeantUnlessMoved` says that
only then READ and DEL work on another mail than the one the user picked.

## Runs

All runs set `CHECK_DEADLOCK FALSE`: clients may stop sending, a thread may wait
for a mutex whose holder's process died, and a server told to stop has stopped.

| Run | Bounds | Shows |
|---|---|---|
| `spool_exclusion` | 3 threads, 1 mailbox, all operations, 1 mail, 2 requests each, 1 crash | `ExclusiveUnlessTainted`, `SnapshotUnlessTainted`, `FailureNeedsTaint` |
| `spool_delivery` | 2 threads, 2 mailboxes, SEND to up to 2 receivers and DEL, failing disk, 1 crash | `TypeOK`, `CopiesMatchProgress`, `NoMailLost`, `OrphanStaysStuck`, `StoreSpec` |
| `spool_answers` | 2 threads, 1 mailbox, all operations, failing disk, 1 crash, fair | `EveryRequestEnds` |
| `lockout_list` | 2 connections, 2 addresses, 2 starts, kills, failing saves, 3 ticks, 1 buffered line | `TypeOK`, `ThreeStrikes`, `LocksKept` |
| `lockout_stop` | 2 connections of 1 address, 1 start, fair | `StopsUnlessHeld` |
| `session_exchange` | 5 mails to send, 2 in the mailbox, 4 requests, a buffer of 4, a client that may end anywhere, fair | `TypeOK`, `InStep`, `ReadAsStored`, `PlainMailsAreSafe`, `LoginAgrees`, `ServedAsSent`, `DeliveredWhenAsked`, `ServiceSpec`, `Answered` |
| `line_sharing` | 2 threads; one line each, or a line cut in pieces, or an attachment, against a client that only connects; buffers of 2 and 3 bytes, fair | `TypeOK`, `InOrderUnlessMixed`, `NothingLeftUnlessMixed`, `Settles` |
| `connections_stop` | 2 connections, 3 descriptors, a SEND with QUIT and a QUIT with a request behind it, fair | `TypeOK`, `OwnUnlessReused`, `NothingLeaked`, `MessageFinished`, `StopsUnlessReused` |
| `mailbox_index` | 2 clients, 3 mails, 3 seconds, 2 requests each | `TypeOK`, `SortedByInsertion`, `MeantUnlessMoved` |
| `spool_comment_lock` | 3 threads, 1 request each | violates `MailboxExclusion` |
| `lockout_comment_end` | 1 connection, fair | violates `StopEnds` |
| `session_comment_ready` | 1 mail, 2 requests | violates `ReadyForNewRun` |

Why the bounds are enough.  Breaking the exclusion takes three threads: one to
fail and unlink, one that has the old mutex open, one that gets the new one; two
requests each let a thread come back after a failure.  One mail makes the
walks of `spool_exclusion` short; `WalkProofs` covers those of any length.  Two
receivers and two mailboxes make the first partial SEND.  A lock is renewed, shortened or lost by
two parties at most (two connections, or one and the accept loop), and three
strikes need three logins.  `MaxTime` exceeds `LockoutTime`, so locks end within
the run; `SkipSize` is 2 there, lower than in the code's tree, which only adds
behaviours.  Four requests are a login and three more: what a request leaves
behind shows in the next one.  The mails have a "." in each of the places where
it could be taken for the end of the body, line ends inside an attachment, and
an attachment of one byte; CR NL ends one of them.  One line is longer than the
buffer of 4, which cuts it before a "." and a CR; all others just fit or are shorter.
An index of 2 and an attachment of 3 bytes can be cut to smaller numbers.

Two threads are enough to mix a buffer, and its size of 2 is smaller than what a
client sends, so that it is filled more than once; `MaxLen` of 3 cuts a line.
Three descriptors are the listening socket and one for each of two connections:
a file or a second connection takes the last, and accept and a SEND both meet the
end of the table.  For a list to be out of date one mail must be deleted or
arrive between LIST and the next request, by another client or a sender; three
mails let it be before, between or behind those listed.

Fairness.  `spool_answers` assumes that a thread that can take a step takes one
(the kernel schedules it, and a released mutex goes to one of boundedly many
waiters), and `lockout_stop` that the main thread and the connections' threads
do and that an LDAP call returns.  No client is assumed to send anything or to
leave: `Receive`, `Login`, `Request`, `Quit` and `HangUp` have no fairness.
`line_sharing` and `connections_stop` assume that every thread that can take a
step takes one, and that a `read()` returns when there is something to return;
in `connections_stop` the main thread too, while `Accept` and `Signal` have no
fairness.  No client is assumed to send or to leave.
`session_exchange` assumes that both programs go on, the network delivers, and a
closed connection is noticed; `Choose`, `Die` and `Reset` have no fairness.

What the violated runs show:

- `MailboxExclusion`: "exclusive lock on each directory" (`ThreadedFileManager.cpp:59`).
  A READ that fails unlinks the mutex another thread holds; the next to open it
  gets a new one and is inside the mailbox together with the first.
- `StopEnds`: "aborting after cleanup" (`ServerMain.cpp:32`).  The signal met the
  main thread while it held a mutex (`held` in the trace), and the cleanup waits for
  it for ever, so the locks are never saved.  Which mutex TLC shows depends on its
  search: with the singleton's, `shut_down` returns, but `~WelcomeServer` calls
  `getInstance` itself; the thread_group's stops `interrupt_all`; the list's stops
  connections that `join_all` waits for.
- `ReadyForNewRun`: "clear message data, get ready for a new run"
  (`MessageParser.cpp:90`).  `newInstance` throws before the data is cleared.  The
  READ after a refused SEND then delivers that mail, and is answered OK; the
  client waits for a mail to show that never comes.

Seen while reading, without a run of their own:

- `MessageIdGenerator.cpp:48` looks for the name in the working directory, so
  "until we have found a unique messageId" does not hold: a name drawn twice
  overwrites a mail.  `StoreSpec` and `NoMailLost` assume that names do not repeat
  (`RepeatedIds`), and fail without that, as the mutant of `StoreSpec` shows.
- An empty file, left by a crash between `open` and `write`, makes every LIST of
  its mailbox fail (`ThreadedFileManager.cpp:106`), and one left cut off inside its
  body ends the process at the next LIST or READ that meets it, again after every
  start (`SendMessage.cpp:41`); `FailureNeedsTaint` names both as the ways a request
  can fail on a mailbox nobody disturbs.
- `ServerMain.cpp:32` says "aborting after cleanup": a reply to a socket that was
  shut down raises SIGPIPE, and the process ends before the locks are saved.
- `ServerMain.cpp:92` says "half a minute" where `LOCKOUT_TIME` is half an hour;
  `ClientRestrictionManager.cpp:46` erases the node its loop goes on from.
- `Client.cpp:560` asks for the size of a file that may not exist, which throws
  what nobody catches; line 564 says "doesn't exist or can't be read".

## Proofs

The proofs hold for every number of threads, users, mails, names, mutex objects,
connections, addresses and descriptors, mails of any number of lines, buffers of
any size, and every bound.  What is proved of plain mails is about lines that fit
the buffer, whatever its size.  The counts that `Messages` writes with one digit
end at 9: files of a mail, bytes of a file, mails in a list.  Each module of proofs EXTENDS the module
it is about, or the proofs it goes on from.

| Module | Theorems | Property |
|---|---|---|
| `MailSpoolProofs` | `TypeCorrect`, `ExclusionCorrect`, `OrphanCorrect` | `TypeOK`, `ExclusiveUnlessTainted`, `OrphanStaysStuck` |
| `WalkProofs` | `SnapshotCorrect`, `FailureCorrect`, `CopiesCorrect`, `NoMailLostCorrect`, `StoreCorrect` | `SnapshotUnlessTainted`, `FailureNeedsTaint`, `CopiesMatchProgress`, `NoMailLost`, `StoreSpec` |
| `LockoutProofs` | `TypeCorrect`, `ThreeStrikesCorrect`, `LocksKeptCorrect` | `TypeOK`, `ThreeStrikes`, `LocksKept` |
| `ConnectionsProofs` | `TypeCorrect`, `NothingLeakedCorrect`, `OwnCorrect`, `FinishedCorrect` | `TypeOK`, `NothingLeaked`, `OwnUnlessReused`, `MessageFinished` |
| `LineReaderProofs` | `TypeCorrect`, `InOrder`, `NothingLeft` | `TypeOK`, `InOrderUnlessMixed`, `NothingLeftUnlessMixed` |
| `MailboxProofs` | `TypeCorrect`, `Meant`, `OrderIsMultimaps` | `TypeOK`, `MeantUnlessMoved`, `SortedByInsertion` |
| `CodecProofs` | `ReadBack` | what `Inflate` makes of `Deflate(m)` is `m` |
| `SessionProofs` | `TypeCorrect`, `BackInStep`, `ShownAsStored`, `PlainIsSafe`, `LoginsAgree`, `AsSent`, `OnlyWhenAsked`, `SessionServes` | `TypeOK`, `InStep`, `ReadAsStored`, `PlainMailsAreSafe`, `LoginAgrees`, `ServedAsSent`, `DeliveredWhenAsked`, `ServiceSpec` |

What they assume: `SpoolAssumption`, `LockoutAssumption` (a login takes no longer
than a lock lasts), `ConnectionAssumption`, `LineAssumption`,
`MailboxAssumption`, `SymbolAssumption` (the marks, digits and types are symbols)
`BufferAssumption` (it holds a symbol, its line end and the NUL) and
`SessionAssumption` (the mails are writable, the user's name fits the buffer, and
there are few enough mails that the number in a list keeps one digit), which TLC
evaluates in the runs;
`CopiesCorrect`, `NoMailLostCorrect` and `StoreCorrect` also that names do not
repeat (`~RepeatedIds`), without which they are false.

The invariants.  No property but the types is inductive.

- Types: `ThreadOK` ties a thread's location to its request, its open mutex and
  its file; without it the step of an action could not be shown to stay within
  the types.
- Exclusion: `ExclusionInv` adds that who is inside a mailbox owns the mutex it
  has open (`InsideOwns`), and that all openers of an untainted mailbox have the
  object open that its name denotes (`OpenersShare`).  Two threads inside then own
  one object, so they are one thread.  The step that needs the taint is
  `Unlink`: it takes the name away, and taints the mailbox unless nobody is left.
- Walks: `WalkInv` says what a thread inside an untainted mailbox may rely on.
  In a walk, the names seen and those ahead are those in the directory, and what
  LIST has seen is whole; before `MkDir` there is no directory.  That another
  thread does not disturb this follows from the exclusion: who touches the disk is
  inside (`DiskStep`), and a taint goes only where nobody else is.
- Copies: `CopyInv` counts, by user, the copies of a SEND's mail and the turns it
  has served.  A write adds one to both, since the name is new (`NewName`) and the
  mail no other thread's (`OwnMail`); the end of a turn changes neither.
- Store: `NamesInv` says that who has drawn a name has it for itself, that no
  file bore it before its thread creates one, and that the file then holds no mail
  until it is written.  `Create` therefore empties nothing, and `Write` is the
  abstract delivery, or a delivery that a DEL has overtaken.
- Orphans: `OrphansKeepOut` says that who comes to a mailbox whose mutex a dead
  process holds waits at `Lock`; no one is inside, and so the only one to unlink the name
  is a thread that fails to open it (`Forced`).
- Strikes: `StrikeInv` says that a login began at most `LdapTime` ago (`Timely`),
  that a lock found at its end is no older than it (`LockIsNew`), and so is not
  expired when `update` runs; and where a connection with three failures and an
  open descriptor can be (`StruckOut`), a new one having none (`Fresh`).  `LocksKept` needs the types only: no step
  but an expiry, a kill or a failing save changes a lock in force.
- Descriptors: a number denotes a socket or a file only while the thread it was
  given to lives, and is that thread's (`LeakInv`), which holds in any case; until
  a number is reused the converse holds too (`TableInv`), threads read from their
  own client (`ReadInv`), and a thread that reads has served what came before
  (`FinishInv`).  `accept` takes the lowest free number, whose existence is the
  well-foundedness of `<` (`LowestIsOpen`).

- Shared buffer: `Order` says, until two threads meet in `my_read`, that only one
  thread is inside it or has bytes in the buffer (`Alone`), and where each byte a
  read took is: handed on, in the thread's own buffer, or in the static one at the
  place the pointer and the count name (`Placed`, with a clause for each load and
  store between the two).  The step of one thread leaves the others' bytes alone
  because they have none in the static buffer.
- Order of mails: `MailboxInv` says of a client whose list may not be out of date
  that its list is the front of the mailbox's order (`ListLeads`), that the number
  it asks for is in the list (`NumberKnown`), and that an answer on its way is
  the one meant (`MeantOf`).  A mail younger than all of the list changes no
  mail's number in it (the number of mails in front of one, `Ahead`, is the same).
- Multimap: that inserting the files of the directory one by one makes `Sorted`
  is a statement about a recursive function.  The library's induction rules
  take an operator as a parameter, which the provers here cannot instantiate; the
  proof takes the smallest number of files at which the claim fails instead
  (`Smallest`, from the well-foundedness of `<`).
- Parsers: `SessionInv` says that both parsers are records whose fields fit
  (`Fits`): bytes awaited only in an attachment, a count of titles above zero
  while titles are awaited.  Every branch of `Digest` and `DigestResponse` keeps
  that, for any line.
- Text: a text is cut by `getline` where it was joined, `inflate`'s loops stop at
  the first of the marks they look for, and its walk over the attachments takes as
  many bytes as the size says, line ends among them; from these, file by file,
  `ReadBack`.  The loops are recursive functions, and the induction over the
  length of a list is again on a smallest number (`Smallest`, `Counting`).
- Counting lines: `Expect(p, w, m)` says that a parser in state `p`, with the text
  `w` still to come, is in the middle of message `m`: `w` is the end of
  `Deflate(m)`, and the parser has collected what comes before, the last byte of
  each attachment made the line end that the chop makes of it.  `Progress` is the step: one more line,
  or the bytes awaited, lead to `Expect` of the rest, or to `m` itself, with the
  parser idle and `w` used up (`After`).  This is where the two grammars meet:
  `digest` counts to the end of the mail, `inflate` looks for it, and `Plain` is
  what both need to find the same place.
- Session: `AgreeInv` adds to the types that, while all mails are plain, client and
  server are in one of seven phases (`Agree`).  In `Asking`, what is on the wire and
  what `transmitMessage` has yet to send, together, are what the server's parser
  expects, so it does not matter where the text is cut; in `Answering` (`Coming`)
  the rest of a refusal, an acceptance, a list or a mail is what the response
  parser expects; in `AtMenu` all of it is empty.  `Left` is a client that ended:
  some text exists that would complete the request, or, once the size of an
  attachment was cut, one with shorter attachments (`GoneAsking`, `Shorter`), until
  the end of the stream is taken for a line or for an attachment's bytes.  `ReadOn` says what a
  turn of the reading loop finds in such a phase, `ReceiveAgrees` and `HearAgrees`
  that the server's and the client's turns lead to the next.  `Coming` says, too,
  that the answer on its way is true of the mailboxes, which change only when a
  request is served.  `Holds` bounds the
  mails in a mailbox by the requests served: the response parser counts titles from
  a number of one digit.
- Service: `Effect` says that what a handler does to the mailboxes and the login
  is what the abstract request does (`EffectPerforms`), `ServiceStep` that every
  action of `Session` is one of `Exchange` or a stutter: `Choose` is `Ask`, the
  turn of the server that completes a request is `Serve`, the turn of the client
  that completes a response is `Show`, and the loss of the connection is `Leave`.

Only model-checked: liveness (`EveryRequestEnds`, `StopsUnlessHeld`,
`StopsUnlessReused`, `Settles`, `Answered`), which is out of the prover's reach,
like everything about fairness and ENABLED.  Every invariant and action property
of a passing run, and the refinements `StoreSpec` and `ServiceSpec`, are stated by
theorems.

## Plan

Composition of the session with the spool and the lockout list: `Exchange` over
a `MailStore` that several connections share.

## Not modelled

Command line handling, `setDirectoryPath`'s checks, the set-up of the listening
socket, logging, the text of menus and printing, reading and saving attachment
files at the client (input and output only); the LDAP exchange (external); a
start of the server that fails; a second signal during the cleanup; a signal
handled on a connection's thread; the
descriptors of files opened for reading, which a thread that closed its number
too early could read from; a loss of power, which may cut off or lose mails that
were answered OK, as nothing is ever fsynced (a restart of the machine is an
orderly one); a mail cut off by nothing but the final NUL, which reads as whole;
`readn`, which nothing calls; the build.
