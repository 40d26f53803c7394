# Verification of the network programming examples

The repository is a course in Linux socket programming: tutorials, library
examples and the author's own programs (`my_code`).  Its logic is in a handful
of servers that juggle many clients, each with another technique (threads,
poll with timers, poll with an array, select, TLS).  This directory holds TLA+
models of them, the TLC configurations that check the models and the TLAPS
proofs about them.  Paths below are relative to `src/`.

## The system's parts

| Part | State | Operations | What is hard | What makes it correct |
|---|---|---|---|---|
| Multithreaded pong server (`my_code/simple_multithreaded_tcp_client_server`) | task queue, mutex, condition variable, one task in each worker's hand, `new_fd` in main's | `main`: accept, `insert_task`, `wakeup_threads`; `thread_func`: wait, take, recv, send, close or re-enqueue | interleaving of main and workers, wake-ups, descriptor numbers used again after close, timeouts, process-wide failures | a connection has one owner; queued connections are not left beside sleeping workers; pings are answered, silent clients closed |
| Event server (`my_code/simple_non_blocking_tcp_server_client`) | growing pollfd table, list of connections (socket and timer numbers), one timerfd per client | `insert_fd`, `remove_fd`, `find_fd`, `mypoll`; the loop: accept block, walk over the connections, refresh, delete | the snapshot `revents` is used after table and kernel moved on; deletion during the walk; failed accept, timer or malloc; growth arithmetic | table, list and kernel agree; the loop sleeps only in poll; idle connections are closed and no others; it implements the watched set |
| poll() time server (tutorial 13) | fixed pollfd array, `nfds`, scan index | poll, accept block, scan with compaction | `revents` is not moved with `fd`; the array shrinks under the scan; array or descriptors run out | no doubled or closed descriptor is polled; a polled client is served |
| select() time server (tutorial 12) | master and ready sets, slots, `global_max_fd` | select, accept, scan | descriptors are closed and handed out again during the scan; a failed select leaves the whole set to it; clients beyond the slots | set, slots and kernel agree; recv only for reported clients; it implements the watched set |
| TLS time server (`01_networking_libraries/openssl`) | parallel arrays of pollfd and sessions | poll, accept and handshake, scan with compaction | two arrays compacted together, a blocking handshake | a descriptor keeps its own session; it implements the watched set |
| HTTP server (`my_http_server`) | two pollfd entries | poll, accept, parse, route, respond | uninitialised entries, readiness test inverted | it goes on listening, serves one client at a time and loses none |
| Command servers (08 iterative, 09 thread per client, `simple_tcp`) | the accept loop's variable, a heap cell per thread | accept, create, serve, close | sockets that are never closed, failures of calloc and pthread_create, numbers used again while threads run | one handler for each connection, nobody who is connected forgotten |
| Non-blocking server (11) | one client | accept and recv in turn | no call may sleep | the loop always moves on |
| Command clients and their sessions (08, 09, 11, 12, 13, openssl) | the line typed, what is awaited | ask, wait, show | partial and coalesced reads, empty lines, ends that one side sees and the other does not | the answer shown is the answer to what was asked; both ends close |
| UDP client and server (10, `simple_udp`) | what is awaited | sendto, recvfrom | lost, duplicated and reordered datagrams without timeout or number | as above |
| HTTP fetch (06, 07, `http_client`, `openssl/https_client`) | request offset, response buffer, redirection depth | send loop, receive loop, redirect | bounded buffer, partial sends, broken connections, recursion | the whole response, a prefix, or an error; nothing left open |
| Start-up of nineteen of these programs | what was acquired so far | a chain of library calls | each failure has a branch of its own that nobody runs | a failed start leaves nothing behind |
| Broadcasting (14) after start-up, libcurl programs, single-call demonstrations | none of their own | | | not modelled |

The servers interact with their clients through the kernel only: a listening
socket with a backlog, a receive buffer per connection, numbers for
descriptors.  Inside a server the parts interact by shared memory: the task
queue under its mutex in the threaded one, the table that both the loop and
the connection list refer to by number in the event server.

`PROJECT.json` lists the components with their status, the hazards with the
properties that cover them, and for each definition the lines it translates.

## Modules

| Module | Models |
|---|---|
| `PongPool` | the multithreaded server with its clients |
| `MCPongPool` | its TLC instances (symmetry of workers and descriptors) |
| `PongPoolProofs` | theorems about it |
| `FdTable` | `server_fd.h`: the growing table as pure operations on a record |
| `EventServer` | `server.c` with `server.h` and `server_conn.h`, on top of `FdTable`; implements `WatchSet` |
| `EventServerProofs` | theorems about the table inside the server and about its loop: what the walk acts on, that nothing goes missing, and the implementation |
| `TcpClients` | listening socket, descriptors and TCP clients, for the modules below |
| `PollServer` | `run_server` of tutorial 13 |
| `PollServerProofs` | theorems about it |
| `WatchSet` | what a server that multiplexes its clients in one thread promises, without a table |
| `SelectServer` | `run_server` of tutorial 12; implements `WatchSet` |
| `SelectServerProofs` | theorems about it, the implementation among them |
| `SslServer` | `run_server` of `ssl_client_server.c`; implements `WatchSet` |
| `SslServerProofs` | theorems about it |
| `MCReadiness` | the TLC instance of these two servers |
| `ReadinessProofs` | the theorems about the TLS server, carried to that instance |
| `CommandServer` | the servers of 08, 09 and `simple_tcp` |
| `PollingServer` | the server of 11 |
| `CommandSession` | one client with its connection and server, for six programs |
| `DatagramSession` | the UDP pairs over a faulty network |
| `MCSessions` | the TLC instance of these four |
| `SessionsProofs` | theorems about the command servers and both kinds of session |
| `HttpServer` | `http_server.cpp` with the parser's failure |
| `HttpFetch` | four programs that fetch a page |
| `Startup` | how nineteen programs start |
| `MCHttp` | the TLC instance of these three |
| `HttpProofs` | theorems about the HTTP server, the fetches and the starts |

Operators marked *(Slip: ...)* are plausible mistakes in the operation that
follows them.  No specification uses them; each property is known to fail when
one of them replaces the operation (the `mutants` of `PROJECT.json`).

### Common choices

* **Steps.**  What the source does between two points where another thread,
  a client or the kernel can interfere in a way it notices is one action.  In
  `PongPool` a critical section is one action, except that `pthread_cond_wait`
  splits `thread_func`'s.  In the two event loops poll, the accept block, the
  handling of one connection's event and the handling of its timer are actions,
  and clients and timers act between any two of them.
* **Kernel.**  A descriptor is "free" or in the state its peer (or timer) left
  it in: "open", "shut" (FIN after the last message), "reset".  After a reset
  pending messages may be read or recv may fail.  accept and timerfd_create
  return the lowest free number, and any free number in `PongPool`.  A client that leaves before it is accepted is not represented
  apart: it is accepted and leaves then, except that `AcceptMayFail` lets
  accept fail in `EventServer`.
* **Messages** are tokens ("ping", "text"; "request", "exit").  One recv returns
  any non-empty prefix of those pending, so messages coalesce.  In the servers'
  models one message is never split; `CommandSession`, which is about a single
  connection, splits what a send wrote in two.  In `SslServer` a message is a
  record, and SSL_read returns one.  The 1024-byte buffers' edges and the byte
  written past them are outside these models.
* **Endings.**  `status` tells how the process ended: main returning or
  exiting, a failed assertion, a null dereference, SIGPIPE.  Nothing happens
  afterwards (`Ended`), and the properties say what they promise while it runs.
* Start-up (socket, bind, listen, creating the threads) is the initial state;
  `Startup` models it on its own.
* **MC modules** that put several small components into one run let each
  behaviour choose one of them (`program`, `part`) and leave the others'
  variables alone.  Properties about one component hold trivially in the
  behaviours of another.

### `PongPool`

`mainPc`, `mainFd` are the dispatcher's place in its loop and `new_fd`; `queue`
is `task_queue`; `pc[w]`, `task[w]` a worker's place and its `current_task`;
`peer`, `rx`, `owed` belong to the descriptors: what the peer did, the unread
messages, whether a ping awaits its pong.  Since a task is the heap copy of one
descriptor, it is represented by the descriptor.

`MainAccept`, `MainInsert`, `MainSignal` and the two failures are `main`'s loop
with `insert_task` and `wakeup_threads`, two critical sections with room between
them.  `Take` or `Wait` is the first half of `thread_func`'s critical section,
`TakeWoken` or `TakeNothing` what follows `pthread_cond_wait` without a second
look at the queue.  `RecvData`, `RecvEof`, `RecvFails`, `SendPong`, `SendFails`,
`SendBreaksPipe` are the outcomes of the system calls, `CloseTask` the common
shutdown, close, free and continue, and `Requeue` the last critical section.
Spurious wake-ups are a constant, so that what fails without them is seen to be
the program's own.

### `FdTable` and `EventServer`

The table is a record of entries and capacity.  `InsertFd`, `RemoveFd` and
`FindFd` follow the source in what they search (the first match in `find_fd`,
the last in `remove_fd`, never the listening socket) and in its arithmetic (the
growth test leaves one entry spare; the shrink test compares a number of entries
with half a number of bytes).  `EventServer` adds `conns` (`conns_queue`), `pc`,
`cur` and `doDelete` (where the loop is) and the kernel.  Negative results of
accept (-1) and of the timer's creation (-9, -EBADF) are stored as descriptors,
as the source does, and poll ignores them.  A timer takes two steps to expire,
so that one that is refreshed again and again need not.  The walk's `next` is
read before a deletion, so after `Delete` the same index is the follower.

### `PollServer`

`fd` and `revents` are two functions over the array's slots because the source
moves the one without the other; `revents` beyond `nfds` keeps its old values.
`reported` is history: the clients the last poll reported that have not been
received from since.  `Accept` fills an entry or, with the array full, leaves
the socket open and unpolled.  `AcceptFails` is the `continue` that skips the
scan.  `CloseSlot` is shared by the two removals; the source's `i--` with the
loop's `i++` leaves the index where it is.

### `TcpClients`

The kernel's side of a server's descriptors (`backlog`, `kern`, `rx`), the
clients' actions on it, and what accept, close and a readiness test do to it.
`PollServer`, `SelectServer`, `SslServer`, `CommandServer`, `PollingServer` and
`HttpServer` extend it.

### `WatchSet`, `SelectServer`, `SslServer`

`WatchSet` knows a stage per descriptor, the number of messages `pending` on it, and
the set `due` of those the last wait for events named and that have not had their
turn since.  A client is admitted while there is room, may have to finish a
handshake before it is watched, is received from (one message or more of those
pending) at most once per report, is dropped only when the report named it, and is
stranded (open, never looked at) only by a full table.  The next report waits until
`due` is empty, so that nobody named is passed over; where `FillsHoles` is true, and
only there, one other client may lose its turn when a client goes.  The tables,
indices and copies by which the programs do this are not in it.

Three servers implement it.  In `EventServer` the table grows, so `Capacity` is the
number of descriptors and "stranded" is what must never be the case; `Due` is read off the
connections the walk has not passed and the marked entries of their two
descriptors, since an expired timer is a turn as well: the connection is closed, or
received from and kept.

`SelectServer` has `master_set`, `read_set`, `fds_client` and `global_max_fd`
under the source's names and scans descriptor numbers up to `global_max_fd`, which
is tested again at each step because an accept in the scan may raise it.
`SelectFails` is the failure that is reported and not acted on: `read_set` is then
the copy of `master_set` (POSIX leaves it unmodified), and `blind` remembers it.
`StageOf` maps a descriptor to "closed", "watched" or "stranded", `Due` is the part
of `read_set` the scan has not reached.

`SslServer` has the two arrays and passes the whole of them to poll, unlike
tutorial 13, so a stale `revents` does not arise.  `Accept` ends inside SSL_accept
(`pc = "handshake"`), on a socket that still blocks.  `hello` is what a client said of
the handshake: nothing yet, what can succeed, or what cannot (plain text, a version the
server does not speak).  `HandshakeFails` therefore also closes clients that are still
connected, over what they said or because memory ran out over it, and `SslNewFails` is
SSL_new's untested NULL.  `Compact` moves descriptor and
session into the hole and goes on behind it: the client that moved waits for the
next poll, which is what `FillsHoles` stands for.  The mapping adds the stage "joining" for
the client inside the handshake.

### `CommandServer`, `PollingServer`

`CommandServer` is one accept loop and its handlers; `mode` says which of the three
programs it is.  In 08 and `simple_tcp` the loop itself is handler 1 and accepts
again when that is done; in 09 every handler is a detached thread, `cell[h]` the heap
cell its argument points to, and the loop goes on at once, so accept, creation,
answers and closes interleave freely.  recv, send and close are actions of their own:
`Receive` takes a request, `Send` waits while the client's buffer is `full`, which
`ClientReads` empties if the client likes, and the last answer (`"parting"`) is
followed by `Close`.  `PeerGone` is where 08 and 09 leave without
closing; `SpawnFails` is the client nobody serves (`unserved`, history); `CallocFails`
the null cell.  `PollingServer` is the alternation of accept and recv with one
client that keeps its place after it left.  `SetNonBlocking` may fail, for the listening
socket or the client's, which is reported (`fcntlFailed`) and leaves the socket
blocking.

### `CommandSession`, `DatagramSession`

The tutorials repeat one client loop and one service loop with small differences.
`CommandSession` holds the differences in records (`Client08` ... `ServerSsl`): which
lines end the client's loop and when it looks for them, what an empty line does,
what the client does when recv fails, after which requests the server closes and
what it does at the end of the stream.  A channel is a sequence of parts, one or two
for a send; a recv takes any number of them and takes them for the request or the
answer.  `reset` follows TCP: data for a closed socket is accepted once, answered by a
reset, and the next send raises SIGPIPE.  `ServerDies` ends the server at any point.

`DatagramSession`'s network is a set: datagrams are delivered in any order, lost,
and (once) duplicated.  Nothing in the protocols tells an answer from another.

### `HttpServer`

The nested tests of `HttpServer::start` as they are: an entry that is ready is only
looked at if it is the listening socket, one that is not ready is handled as a
client.  The array is never initialised, so `revents` starts nondeterministically,
and `garbage` remembers whether an unwritten entry was not clear.  A client is served
because the scan reaches its new entry in the same pass.  The parser's std::stoi,
which throws and is caught in main, is `RequestThrows`.

### `HttpFetch`, `Startup`

`HttpFetch` counts data in units.  `Call` is `perform_http_request`, made by main and by
`Redirect` for itself: what is on the stack is only the open sockets, since a
redirection returns the inner result at once and releases nothing.  `Copied` is the
memcpy that leaves what an earlier call put behind the new bytes.  `Startup` is an
interpreter for chains of calls; each chain lists, in the source's order, what a call
acquires and what becomes of its failure: it is looked at, and a branch releases
something and gives up (`Step`); it is at most reported (`Ignored`); or nobody looks and
NULL is used (`Untested`: tutorial 14's calloc, the TLS server's first SSL_new), which
`Crashes`.

## Runs

| Run | Bounds | Shows |
|---|---|---|
| `pool_safety` | 3 workers, 3 descriptors, 1 pending message, spurious wake-ups | `OwnedOnce`: each open descriptor is in exactly one of main's hand, a queue cell, a worker's hand. `WorkConserving`: while a worker sleeps, queued connections do not outnumber the workers about to look plus main's pending signal |
| `pool_live` | 2 workers, 2 descriptors, 2 pending messages, spurious wake-ups | `QueuedTaken`, `PingAnswered`, `IdleClosed` |
| `pool_race` | 1 worker, 2 descriptors, no spurious wake-ups | violates `NeverTakesNothing` |
| `event_loop` | capacity 2 at first, 4 descriptors, 2 clients, memory enough | `TableMatches`, `AssertionsHold`, `ImplementsWatchSet`, `TableFits`, `OnlyIdleClosed`, `IdleClosed` |
| `event_limit` | 2 descriptors, accept and malloc may fail, up to 2 connections when accept fails | `NeverBlocksInRecv`, `PingAnswered` |
| `event_stale` | 3 descriptors, 2 clients | violates `IdleClosed` |
| `poll_table` | 3 entries, 3 descriptors, 4 clients, 2 pending messages | `TableMatches`, `LeavesByClosing`, `ReportedAreServed` |
| `poll_stale` | 3 entries, 2 descriptors, 2 clients | violates `NeverBlocksInRecv` |
| `poll_wedge` | 3 entries, 2 descriptors, 3 clients | violates `RequestsReceived` |
| `readiness` | 2 slots (TLS: 3 entries, one the listening socket), 3 descriptors, 3 clients, 1 pending message | select: `RecordsAgree`, `SleepsOnlyBlind`, `RequestsReceived`, `ImplementsWatchSet`; TLS: `SslSessionsMatch`, `SslDisconnectsJustified`, `SslRequestsRead`, `SslImplementsWatchSet` |
| `sessions` | 2 descriptors, 2 clients, 2 pending messages; 3 lines typed; 4 datagrams sent, 1 duplicated | `OneHandlerEach`, `NobodyForgotten`, `BuffersDrain`; `PollingNeverSleeps`; `SessionInStep`, `SessionWaitEnds`, `SessionBothSidesEnd`; `DatagramInStep`, `DatagramWaitEnds` |
| `http` | 2 entries, 2 descriptors, 3 clients, 2 pending messages; 2 fetches, redirection limit 2, requests of 2 units, pages of 4, buffer of 3 | `OneAtATime`; `FetchReleases`, `FetchIsPrefix`; `FailsClean` for every start-up and every failing call, the untested ones included |

`PongPool`'s, `EventServer`'s and `PollServer`'s `TypeOK` are checked in their first
runs.  `SelectServer`, `SslServer` and `CommandServer` state one too, for the
reader; the inductive invariants of the proofs contain it.

Why the bounds are enough.  Three workers and three descriptors allow a sleeper,
a busy worker and a looking one at a time, and a connection in each kind of
place.  Two pending messages let a ping share its recv with a message before or
after it.  A capacity of 2 makes the table grow on its first and second client;
4 descriptors are two connections with their timers, so deletion meets the
first, a middle and the last entry, and numbers are reused.  Two clients and
three descriptors are the smallest instance in which a socket gets the last
number and its timer none.  Three entries are the listening socket and two
clients: removal of the last, and of one that another fills; a third client
finds the array full.  In `readiness` three clients compete for two places: the third
is stranded, and a place and a number freed during a scan are taken again in it.  In
`sessions` two threads run at once, and a client that connects after one of them has
closed gets its number; one client may leave its answers unread while the other reads;
three lines are a request, its answer out of step, and the end, and every way of
splitting and joining two messages; four datagrams are two pings and two
greetings, and an answer late by one round.  In `http` a page is larger than the
buffer, the limit of 2 makes the recursion end in "not found", and two fetches leave
one's bytes behind the other's.  The proofs carry the safety properties named below
to every size.

`poll_table`, `poll_stale`, `poll_wedge`, `readiness`, `sessions` and `http` do not check
deadlock: a server asleep in poll, select, accept or recv, with no client left that
the bound allows to act, has stopped as the program does, and sessions, fetches and
starts end.  In the other models some timer, thread or message can always act.

### What the exemptions say

Several properties exempt a case, and the case is the point: each was found by
the property failing without it, and each is one of the listed hazards.

* `SleepsOnlyBlind`, `RequestsReceived`: after a failed select the scan may sleep in recv.
* `SslRequestsRead`: a client that connects and never starts its handshake stops the
  loop for everyone.
* `SslDisconnectsJustified`: a client whose handshake fails is closed, connected or not.
* `NobodyForgotten`: 08 and 09 never close the socket of a client that left, and a
  client whose thread was not created is neither served nor closed.
* `BuffersDrain`: that client again; and one that leaves its answers unread, whose handler
  stays in send, where the scheduler can do nothing for it.  In 09 only its own
  requests wait for that; in 08 and `simple_tcp` everyone in the backlog does.
* `PollingNeverSleeps`: after a failed fcntl accept or recv may sleep.
* `SessionInStep`: an answer that arrives in two parts (in 08 and 09 every answer is
  `MESSAGE_SIZE` bytes) puts the client one answer behind.
* `SessionWaitEnds`: the empty line of 09, 12 and 13 is not sent, and awaited.
* `SessionBothSidesEnd`: the server of 11 never notices that its client left.
* `DatagramInStep`, `DatagramWaitEnds`: one duplicate desynchronises for good, one loss
  or, in 10, one empty line stops the client.
* `OneAtATime`: a stale bit in the uninitialised array closes the listening socket.
* `FetchReleases`: each redirection followed leaves a socket and an address list.
* `FailsClean`: `Leaks` names the eight failures that leave something behind, `Uncaught`
  the three that no branch is there for; every other branch is shown to release exactly
  what it should.

### What the violations mean

* `pool_race`.  `thread_func` tests the queue with `if` and does not look again
  after `pthread_cond_wait`, while `insert_task` and `wakeup_threads` are two
  critical sections.  A worker takes the task between the two, finishes with it
  and goes to sleep; the late signal wakes it with nothing to take, and
  `STAILQ_REMOVE_HEAD` dereferences null.  `while` in place of `if` cures it.
* `event_stale`.  With one descriptor left, accept takes it and timerfd_create
  fails unnoticed: that connection is never closed for inactivity.
* `poll_stale`.  A removal moves `fd` without `revents`, and a new client
  inherits the slot's `revents`: the scan calls a blocking recv for a client
  that sent nothing and stops until it does.
* `poll_wedge`.  When accept fails for want of descriptors, `continue` skips the
  scan and the listening socket is ready again: no client is served any more.

## Fairness

* `PongPool`: weak fairness of each worker and of main between accept and its
  signal.  Threads are scheduled, the mutex is held for a few instructions, and
  recv and send return within the timeouts `set_socket_timeouts` sets, so no
  step waits for a client; the failure on an empty socket stands for the
  timeout.  accept is under no obligation, and neither is a client.
* `EventServer`: weak fairness of the single thread, and of each timer, which
  advances while it is armed.  None of clients: poll simply sleeps.
* `PollServer`: weak fairness of the single thread, used by `poll_wedge` only.
  A thread asleep in recv is not enabled and is exempted in the property.
* `SelectServer`, `SslServer`, `PollingServer`: weak fairness of the single thread, none
  of clients.  A thread asleep in a call is not enabled.
* `CommandServer`: weak fairness of the accept loop and of each handler, which the
  scheduler provides.  A handler in recv is not enabled until its client acts, nor one
  in send until its client makes room; clients owe nothing, and `BuffersDrain` promises
  only to those that read.
* `CommandSession`: weak fairness of the server's side and of the client's recv, since
  TCP delivers; none of the user who types, and none of `ServerDies`.
* `DatagramSession`: weak fairness of the server and of the client's recvfrom.  The network
  may lose any datagram at any time.
* `HttpServer`, `HttpFetch`, `Startup`: none; their properties are safety properties.

## Proofs

All of them hold for every value of the constants, under the assumptions the
modules name (a finite non-empty set of workers, `NoFd` not a descriptor, an
initial capacity of at least 2, an array of at least one entry, sizes and bounds
that are natural numbers).

* `PongPoolProofs`: `TypeCorrect`, `OwnedOnceAlways`, `WorkConservingAlways`.
  The type invariant is inductive together with `Holding`, which ties a hand's
  content to its owner's place: what is appended to the queue is a descriptor
  because its owner is about to give it away.  `OwnedOnce` is inductive relative
  to that; the argument goes by the members of the queue before and after an
  append or a tail.  `WorkConserving` is inductive too: `Requeue` adds a queued
  connection and a looking worker at once, an insert comes with a pending
  signal, the signal turns a sleeper into a looking worker, and a worker falls
  asleep only on an empty queue.
* `EventServerProofs`: `TableFitsAlways`.  `Fits` (a table of entries with one
  spare) is preserved by `InsertFd`, `RemoveFd` and poll; from it the
  comparison of entries with bytes is always false, so the shrink branch, which
  would record a capacity four times the allocation, is never taken.
* `PollServerProofs`: `TypeCorrect`, `TableAlwaysMatches`,
  `ReportedAlwaysServed`, `AlwaysLeavesByClosing`.  The invariant adds
  `ReportedAhead`: each client still to be served is in an entry at or after
  the index whose `revents`, its own or inherited, stops the scan.  It holds
  through compaction because the moved entry lands exactly where the index
  stays, under a `revents` that is set.  `AcceptReady` adds that accept is only
  called with a connection waiting.

* `EventServerProofs`, on the loop: `TypeCorrect`, `NeverBlocksAlways`, whatever accept,
  timerfd_create and realloc do; `TableAlwaysMatches`, `AssertionsAlwaysHold` under `Enough` (two
  descriptors for each client, and memory), without which they are false.  The
  first two rest on `LInv`: the table's shape, `Owners` (no two connections share a
  socket or a timer, what they name is open and of the right kind, what the table
  lists is open) and `Fresh` (the entry of a connection the walk has not passed is
  marked only if there is something to receive).  `Fresh` survives accept because a
  new client's numbers were free and so unlisted, and deletion because marks only go
  away.  The last two add `Complete`: the entries are one more than twice the
  connections, and every open descriptor is some connection's and listed.  That accept
  and timerfd_create then succeed is a counting argument: sockets and timers are in
  bijection with the connections, so 2n descriptors are open and two are left.
  `AlwaysOnlyIdleClosed`, again whatever fails, adds `Timely`: a timer's mark the walk
  has yet to come to is of a timer that has run out, `doDelete` of a client that has
  left.  `Refresh` keeps it because it takes the mark back along with the expiry, and
  finds the right entry because no number is listed twice.
  `AlwaysImplementsWatchSet`, whatever fails too, adds `Everyone`: every open socket is in
  the table and in the list.  A realloc that fails may lose an entry of the table, but only
  the timer's: where the socket's is lost the program stops.  Each action is then a step of
  `WatchSet` or a stutter.  The hard ones are those of the walk: a step takes exactly the
  connection it is at out of `Due`, because no other connection refers to the entry it
  clears or removes, and the follower of a deleted connection is at the index the walk
  stands on.
* `SelectServerProofs`: `AlwaysRecordsAgree`, `AlwaysSleepsOnlyBlind`,
  `AlwaysImplementsWatchSet`.  `RecordsAgree` is inductive with the variables' ranges;
  `DueReady` (after a select that worked, the bits the scan has still to visit are of
  open descriptors with something to receive) adds the second: such a number is not
  free, so accept hands out another one, and nothing else of the scan touches it.  The
  implementation is a step simulation: each action is shown to be one of `WatchSet`'s
  or a stutter; admission needs the number of watched descriptors to be that of the
  taken slots, again by a bijection, and that the next report comes only when everyone
  has had his turn needs every bit of `read_set` to be at or below `global_max_fd`.
* `SslServerProofs`: `AlwaysSessionsMatch`, `AlwaysDisconnectsJustified`,
  `AlwaysImplementsWatchSet`, under `Sized` (an array of at least one entry).  The
  invariant, while the server runs, is the ranges, `Arrays` (the two arrays agree entry
  by entry, on open descriptors, each held once) and `Marks`: the bits the scan has
  still to visit are of clients with something to read, and at its start no bit is set
  behind the entries in use.  The second half is what makes the entry of a client
  accepted at index 0 unmarked; the first survives compaction because the entry that
  moves lands where the scan has already been.  For the implementation each action is
  shown to be a step of `WatchSet` or a stutter.  Two of them are not obvious.  A
  handshake that fails takes back an entry that does not count yet, and is a `Join` that
  ends in "closed"; a removal moves the last entry into the one that is left, which the
  scan has passed, so the set of clients due, read off the entries and their bits, loses
  the removed client and may lose the moved one's turn, and nobody else's.
  Admission needs the number of watched clients to be `nfds - 1`, by a bijection with
  the entries.
* `ReadinessProofs`: `AlwaysSslSessionsMatch`, `AlwaysSslDisconnectsJustified`,
  `AlwaysSslImplementsWatchSet`.  `MCReadiness` gives the TLS server one entry more than
  the select() server has slots and variables of its own; a step of the other server
  leaves those alone, so a behaviour of the instance is one of the TLS server, and the
  three theorems above apply, `Sized` included.
* `SessionsProofs`, on the servers: `AlwaysOneHandlerEach`, `AlwaysNobodyForgotten`, for
  the three programs at once and any number of threads.  The two are inductive together
  with the ranges and the agreement of `hpc` and `cell`: a number is free, and so
  nobody's, when accept hands it out, and it is closed only by its handler.
* `SessionsProofs`, on the sessions: `AlwaysSessionInStep`, `AlwaysDatagramInStep`.  The
  first rests on `Alternates`: until something comes in two parts, request and answer
  take turns, so there is one thing under way at most (the line, its answer or an end)
  and it belongs to what was asked last; each side's step passes it on.  The second
  rests on `OneAlive`: until the network duplicates, at most one request
  that will be answered, or its answer, is under way, and only while the client waits.
* `HttpProofs`, on the server: `AlwaysOneAtATime`.  The invariant splits the pass of the
  scan into turns: before the listening entry, at the new client's, and after it.
* `HttpProofs`, on the fetches: `AlwaysFetchReleases`, `AlwaysFetchIsPrefix`, for every
  redirection limit and number of calls, and every size of request, page and buffer.
  `FetchReleases` bounds the redirections by the calls made, which is not inductive: it
  does not say how many of them the call that runs may still follow.  `Accounts` does:
  at redirection n, main's earlier calls have followed as many as they could and this
  one n.  `FetchIsPrefix` speaks of main alone; `Received` adds that the buffer holds the
  page from its first unit to where it was received, and `Printed` that what is printed
  while a call runs is an earlier call's, so that what memcpy leaves behind the new
  bytes is never taken for them.
* `HttpProofs`, on the starts: `AlwaysFailsClean`.  Nothing is generalised here, since
  `Startup` has no constants and its run is exhaustive; what the proof adds is why it
  holds.  `Sound` says of a chain that each call's failure releases exactly what the
  calls before it acquired, unless it is one of `Leaks`, that an untested call is one of
  `Uncaught`, and what is held at its end;
  it carries over from two chains to their concatenation, so the pieces the programs share are
  shown sound once, and a start is as clean as its chain (`StartInv`).

Every safety property of a run that passes is stated by a theorem.  Only model-checked
are the liveness properties, since liveness under fairness is outside what the prover
can do here: `QueuedTaken`, `PingAnswered`, `IdleClosed`, `RequestsReceived`,
`SslRequestsRead`, `BuffersDrain`, `PollingNeverSleeps`, `SessionWaitEnds`,
`SessionBothSidesEnd`, `DatagramWaitEnds`.  `IdleClosed` is the event server's and
`PongPool`'s, `PingAnswered` too.

## Not modelled

* A send that blocks, except in `CommandServer`: the event server's accepted sockets are
  blocking and have no send timeout, so a client that never reads can in the end stop it;
  so can one of tutorials 12 and 13.  What the event server, 12 and 13 are said to do
  eventually is said of clients that read.
* A failing fcntl, except in `PollingServer`: 12, 13, the TLS and the HTTP server only
  report it too, and go on with a socket that blocks.
* The edges of buffers: a request of exactly `MESSAGE_SIZE` bytes, and the terminator
  written behind it.  Payloads have no length here.
* A ping split by TCP in the two pong servers of `my_code`, which look at one recv at a
  time (see *Messages*).
* The ping client of the TCP pong servers as a process: it sends what the models'
  clients may send, in one particular order.
* `HttpServer`'s routes, pages and response text: pure functions of the request
  without effect on the loop.  The parser's failure, which has one, is modelled.
* Tutorial 14 beyond its start-up: two threads that share nothing but the process, one
  of which sends a broadcast every second while the other prints what arrives.
* Tutorials 00 to 05 and `my_code/sockets_api_examples`: straight-line demonstrations of single
  library calls.  `01_networking_libraries/libcurl`: drivers of a library that keeps all
  the state.
* `delete_connection` and `remove_connection` of `server_conn.h`, which nothing calls.
* OpenSSL is external: a session, the handshake and the two ways SSL_read ends.  Its
  memory running out is modelled where the code notices or fails to: SSL_new, SSL_accept.

## How the project was laid out

The modules were written in the order of what is most likely to be wrong: the two
servers of `my_code` whose state is shared between threads or between a table and a
list; the three servers with a compacted or reused table; the abstract `WatchSet`
three of them implement; then the sessions, the fetches and the start-ups, where each
program repeats a loop with small differences.

What could be added: the clients' side of socket buffers in the event server, 12 and 13;
payload lengths, for the buffers' edges.
