----------------------------- MODULE EventServer -----------------------------
(***************************************************************************)
(* The single-threaded pong server that polls its listening socket, its    *)
(* clients and one timerfd per client                                      *)
(* (my_code/simple_non_blocking_tcp_server_client/server.c).               *)
(*                                                                         *)
(* Clients and timers act between any two steps of the server's loop, in   *)
(* particular between poll, which takes the revents snapshot, and the      *)
(* steps that use it: accept, the recv of one connection, its timer test.  *)
(* Accepted sockets are left blocking by the source.                       *)
(***************************************************************************)
EXTENDS FdTable

CONSTANTS
    MaxFd,            \* accept and timerfd_create hand out 1..MaxFd
    MaxClients,       \* bound: clients connecting or connected at a time
    MaxConns,         \* bound: entries of conns_queue after a failed accept
    MaxPending,       \* bound: messages that wait in a client's socket
    AcceptMayFail,    \* whether accept may fail for other reasons than EMFILE
    OutOfMemory       \* whether malloc and realloc may fail

ASSUME MaxFdAssumption == MaxFd \in Nat
ASSUME BoundsAssumption == {MaxClients, MaxConns, MaxPending} \subseteq Nat
ASSUME FlagsAssumption == {AcceptMayFail, OutOfMemory} \subseteq BOOLEAN

Fds == 1..MaxFd
ListenFd == 0
NoSock == -1          \* accept's failure, stored as a descriptor
NoTimer == -9         \* create_non_blocking_timer's -EBADF, stored as well

VARIABLES
    table,      \* fds_buf
    conns,      \* conns_queue, in order: [conn |-> fd, timer |-> fd]
    pc,         \* "poll", "accept", "conn" or "timer"
    cur,        \* the connection the walk is at
    doDelete,   \* its do_delete
    backlog,    \* connections the kernel completed and accept has not taken
    kern,       \* what the kernel has under a number, and its state
    rx,         \* messages received by the kernel and not yet by recv
    owed,       \* the client sent a ping and has had no pong since
    status      \* "running", or how the process ended

serverVars == <<table, conns, pc, cur, doDelete>>
kernVars == <<backlog, kern, rx, owed>>
vars == <<table, conns, pc, cur, doDelete, backlog, kern, rx, owed, status>>

Message == {"ping", "text"}
SockState == {"open", "shut", "reset"}           \* what the peer did last
TimerState == {"armed", "due", "expired"}
Running == status = "running"

Init ==
    /\ table = InsertFd(EmptyTable, ListenFd)
    /\ conns = <<>>
    /\ pc = "poll" /\ cur = 1 /\ doDelete = FALSE
    /\ backlog = 0
    /\ kern = [fd \in Fds |-> "free"]
    /\ rx = [fd \in Fds |-> <<>>]
    /\ owed = [fd \in Fds |-> FALSE]
    /\ status = "running"

-----------------------------------------------------------------------------
(* Clients and timers.                                                     *)

ClientConnect ==
    /\ backlog + Cardinality({fd \in Fds : kern[fd] \in SockState}) < MaxClients
    /\ backlog' = backlog + 1
    /\ UNCHANGED <<serverVars, kern, rx, owed, status>>

ClientSend(fd, m) ==
    /\ kern[fd] = "open"
    /\ Len(rx[fd]) < MaxPending
    /\ rx' = [rx EXCEPT ![fd] = Append(@, m)]
    /\ owed' = [owed EXCEPT ![fd] = @ \/ m = "ping"]
    /\ UNCHANGED <<serverVars, backlog, kern, status>>

\* FIN after the last message, or a reset: pending data may still be read.
ClientLeave(fd, how) ==
    /\ \/ kern[fd] = "open"
       \/ kern[fd] = "shut" /\ how = "reset"
    /\ kern' = [kern EXCEPT ![fd] = how]
    /\ UNCHANGED <<serverVars, backlog, rx, owed, status>>

\* A timer expires some time after it was last set, in two stages so that
\* one that is set again and again need not expire.
TimerAdvances(fd) ==
    /\ \/ kern[fd] = "armed" /\ kern' = [kern EXCEPT ![fd] = "due"]
       \/ kern[fd] = "due" /\ kern' = [kern EXCEPT ![fd] = "expired"]
    /\ UNCHANGED <<serverVars, backlog, rx, owed, status>>

Environment ==
    /\ Running
    /\ \/ ClientConnect
       \/ \E fd \in Fds :
             \/ \E m \in Message : ClientSend(fd, m)
             \/ \E how \in {"shut", "reset"} : ClientLeave(fd, how)
             \/ TimerAdvances(fd)

-----------------------------------------------------------------------------
(* mypoll and the accept block.                                            *)

\* The numbers poll reports; it ignores negative ones.
Ready ==
    {fd \in Fds : kern[fd] \in {"shut", "reset", "expired"} \/ rx[fd] # <<>>}
    \cup (IF backlog > 0 THEN {ListenFd} ELSE {})

\* poll returns once something is ready.
Poll ==
    /\ pc = "poll"
    /\ \E i \in DOMAIN table.fds : table.fds[i].fd \in Ready
    /\ table' = SetRevents(table, Ready)
    /\ pc' = "accept"
    /\ UNCHANGED <<conns, cur, doDelete, kernVars, status>>

\* poll fails: the loop ends and main returns.
PollFails ==
    /\ pc = "poll"
    /\ status' = "exited"
    /\ UNCHANGED <<serverVars, kernVars>>

NoAccept ==
    /\ pc = "accept"
    /\ ~table.fds[1].revents
    /\ pc' = "conn"
    /\ UNCHANGED <<table, conns, cur, doDelete, kernVars, status>>

\* The lowest free number, as POSIX has it, or the given failure.
NewFd(k, failure) ==
    LET free == {fd \in Fds : k[fd] = "free"}
        lowest == {fd \in free : \A other \in free : fd <= other}
    IN  IF lowest = {} THEN failure ELSE CHOOSE fd \in lowest : TRUE

Opened(k, fd, state) == IF fd \in Fds THEN [k EXCEPT ![fd] = state] ELSE k

\* After accept returned sock: a timer, two table entries, a connection.
\* Only the first insert_fd's result reaches the two assertions after it.
Enlist(sock, k) ==
    LET timer == NewFd(k, NoTimer)
        table1 == InsertFd(table, sock)
    IN  /\ kern' = Opened(k, timer, "armed")
        /\ \/ /\ table' = InsertFd(table1, timer)
              /\ conns' = Append(conns, [conn |-> sock, timer |-> timer])
              /\ UNCHANGED status
           \/ /\ OutOfMemory /\ Full(table1)
              /\ table' = table1
              /\ conns' = Append(conns, [conn |-> sock, timer |-> timer])
              /\ UNCHANGED status
           \/ /\ OutOfMemory
              /\ status' = "abort"
              /\ UNCHANGED <<table, conns>>
        /\ pc' = "conn"
        /\ UNCHANGED <<cur, doDelete, rx, owed>>

Accept ==
    /\ pc = "accept"
    /\ table.fds[1].revents
    /\ LET sock == NewFd(kern, NoSock)
       IN  /\ sock # NoSock
           /\ Enlist(sock, Opened(kern, sock, "open"))
    /\ backlog' = backlog - 1

\* accept's -1 is not tested.  Without a free number the client stays in
\* the backlog; otherwise it is gone.
AcceptFails ==
    /\ pc = "accept"
    /\ table.fds[1].revents
    /\ Len(conns) < MaxConns
    /\ \/ NewFd(kern, NoSock) = NoSock /\ backlog' = backlog
       \/ AcceptMayFail /\ backlog' = backlog - 1
    /\ Enlist(NoSock, kern)

\* Bound: of the entries without any descriptor, which only make the walk
\* longer, those past MaxConns are not represented.
AcceptFailsAgain ==
    /\ pc = "accept"
    /\ table.fds[1].revents
    /\ NewFd(kern, NoSock) = NoSock
    /\ Len(conns) >= MaxConns
    /\ pc' = "conn"
    /\ UNCHANGED <<table, conns, cur, doDelete, kernVars, status>>

-----------------------------------------------------------------------------
(* The walk over the connections.                                          *)

InWalk(where) == pc = where /\ cur <= Len(conns)
ConnFd == conns[cur].conn
TimerFd == conns[cur].timer
ConnAt == FindFd(table, ConnFd)
TimerAt == FindFd(table, TimerFd)

EndOfWalk ==
    /\ pc = "conn"
    /\ cur > Len(conns)
    /\ pc' = "poll" /\ cur' = 1
    /\ UNCHANGED <<table, conns, doDelete, kernVars, status>>

\* assert(connfd != NULL), assert(timerfd != NULL)
NotFound ==
    /\ InWalk("conn")
    /\ ConnAt = 0 \/ TimerAt = 0
    /\ status' = "abort"
    /\ UNCHANGED <<serverVars, kernVars>>

AtConn == InWalk("conn") /\ ConnAt # 0 /\ TimerAt # 0

NoEvent ==
    /\ AtConn
    /\ ~table.fds[ConnAt].revents
    /\ pc' = "timer"
    /\ UNCHANGED <<table, conns, cur, doDelete, kernVars, status>>

\* (Slip: the timer's event of the same snapshot is kept.)
RefreshOnly(delete) ==
    /\ kern' = Opened(kern, TimerFd, "armed")
    /\ doDelete' = delete
    /\ pc' = "timer"
    /\ UNCHANGED <<table, conns, cur, backlog, status>>

\* refresh_timer, and the timer's event of the same snapshot is forgotten.
Refresh(delete) ==
    /\ kern' = Opened(kern, TimerFd, "armed")
    /\ table' = [table EXCEPT !.fds[TimerAt].revents = FALSE]
    /\ doDelete' = delete
    /\ pc' = "timer"
    /\ UNCHANGED <<conns, cur, backlog, status>>

HasPing(got) == \E i \in DOMAIN got : got[i] = "ping"

ConnEvent == AtConn /\ table.fds[ConnAt].revents /\ ConnFd \in Fds

\* recv returns some of the pending messages, in order; a ping among them
\* is answered.
Serve ==
    /\ ConnEvent
    /\ \E n \in 1..Len(rx[ConnFd]) :
          /\ rx' = [rx EXCEPT ![ConnFd] = SubSeq(@, n + 1, Len(@))]
          /\ \/ /\ ~HasPing(SubSeq(rx[ConnFd], 1, n))
                /\ UNCHANGED owed
             \/ /\ HasPing(SubSeq(rx[ConnFd], 1, n))
                /\ kern[ConnFd] # "reset"
                /\ owed' = [owed EXCEPT ![ConnFd] = FALSE]
    /\ Refresh(FALSE)

\* A pong to a connection that was reset: main returns errno, or SIGPIPE.
SendFails ==
    /\ ConnEvent
    /\ kern[ConnFd] = "reset"
    /\ \E n \in 1..Len(rx[ConnFd]) : HasPing(SubSeq(rx[ConnFd], 1, n))
    /\ status' \in {"exited", "sigpipe"}
    /\ UNCHANGED <<serverVars, kernVars>>

Eof ==
    /\ ConnEvent
    /\ kern[ConnFd] = "shut"
    /\ rx[ConnFd] = <<>>
    /\ Refresh(TRUE)
    /\ UNCHANGED <<rx, owed>>

\* recv fails on a reset connection: main returns errno.
RecvFails ==
    /\ ConnEvent
    /\ kern[ConnFd] = "reset"
    /\ status' = "exited"
    /\ UNCHANGED <<serverVars, kernVars>>

\* (Slip: the timer's event is never looked at.)
ToDeleteUntimed == doDelete

ToDelete == doDelete \/ table.fds[TimerAt].revents

\* (Slip: the walk starts over after a connection that had an event.)
KeepAndRestart ==
    /\ InWalk("timer")
    /\ ~ToDelete
    /\ IF table.fds[ConnAt].revents THEN pc' = "poll" /\ cur' = 1
                                    ELSE pc' = "conn" /\ cur' = cur + 1
    /\ UNCHANGED <<table, conns, doDelete, kernVars, status>>

Keep ==
    /\ InWalk("timer")
    /\ ~ToDelete
    /\ pc' = "conn" /\ cur' = cur + 1
    /\ UNCHANGED <<table, conns, doDelete, kernVars, status>>

\* close, by remove_fd, of the numbers it finds in the table.
Closed(f, fds, value) == [fd \in Fds |-> IF fd \in fds THEN value ELSE f[fd]]

\* (Slip: only the client's descriptor is removed and closed.)
DeleteConnOnly ==
    /\ InWalk("timer")
    /\ ToDelete
    /\ table' = RemoveFd(table, ConnFd)
    /\ kern' = Closed(kern, {ConnFd}, "free")
    /\ rx' = Closed(rx, {ConnFd}, <<>>)
    /\ owed' = Closed(owed, {ConnFd}, FALSE)
    /\ conns' = RemoveAt(conns, cur)
    /\ pc' = "conn" /\ doDelete' = FALSE
    /\ UNCHANGED <<cur, backlog, status>>

\* (Slip: the walk advances although the list has moved up.)
DeleteAndAdvance ==
    /\ InWalk("timer")
    /\ ToDelete
    /\ table' = RemoveFd(RemoveFd(table, ConnFd), TimerFd)
    /\ kern' = Closed(kern, {ConnFd, TimerFd}, "free")
    /\ rx' = Closed(rx, {ConnFd}, <<>>)
    /\ owed' = Closed(owed, {ConnFd}, FALSE)
    /\ conns' = RemoveAt(conns, cur)
    /\ pc' = "conn" /\ doDelete' = FALSE
    /\ cur' = cur + 1
    /\ UNCHANGED <<backlog, status>>

\* next was read before the removal, so the walk goes on with the follower.
Delete ==
    /\ InWalk("timer")
    /\ ToDelete
    /\ table' = RemoveFd(RemoveFd(table, ConnFd), TimerFd)
    /\ kern' = Closed(kern, {ConnFd, TimerFd}, "free")
    /\ rx' = Closed(rx, {ConnFd}, <<>>)
    /\ owed' = Closed(owed, {ConnFd}, FALSE)
    /\ conns' = RemoveAt(conns, cur)
    /\ pc' = "conn" /\ doDelete' = FALSE
    /\ UNCHANGED <<cur, backlog, status>>

Server ==
    /\ Running
    /\ \/ Poll \/ PollFails \/ NoAccept \/ Accept
       \/ AcceptFails \/ AcceptFailsAgain
       \/ EndOfWalk \/ NotFound \/ NoEvent \/ Serve \/ SendFails \/ Eof \/ RecvFails
       \/ Keep \/ Delete

(* The process is gone; the specification goes on without it.              *)
Ended == ~Running /\ UNCHANGED vars

Next == Environment \/ Server \/ Ended

\* The server's thread runs whenever it can, and time passes.
Fairness ==
    /\ WF_vars(Server)
    /\ \A fd \in Fds : WF_vars(Running /\ TimerAdvances(fd))

Spec == Init /\ [][Next]_vars
FairSpec == Spec /\ Fairness

-----------------------------------------------------------------------------
(* What the server promises.                                               *)

\* The shape of the state; the walk never runs past the end of the list it
\* deletes from (line 99 reads the follower before the deletion).
TypeOK ==
    /\ DOMAIN table = {"fds", "size"} /\ table.size \in Nat
    /\ table.fds \in Seq([fd : Fds \cup {ListenFd, NoSock, NoTimer}, revents : BOOLEAN])
    /\ conns \in Seq([conn : Fds \cup {NoSock}, timer : Fds \cup {NoTimer}])
    /\ pc \in {"poll", "accept", "conn", "timer"}
    /\ cur \in Nat \ {0}
    /\ pc \in {"conn", "timer"} => cur <= Len(conns) + 1
    /\ doDelete \in BOOLEAN
    /\ backlog \in Nat
    /\ kern \in [Fds -> {"free"} \cup SockState \cup TimerState]
    /\ rx \in [Fds -> Seq(Message)]
    /\ owed \in [Fds -> BOOLEAN]
    /\ status \in {"running", "exited", "sigpipe", "abort"}

\* Every open descriptor belongs to one connection, on the right side of it,
\* and is in the table once; the table holds nothing else.  A connection's
\* socket and timer are entered, found, removed and closed together.
TableMatches ==
    /\ Len(table.fds) = 1 + 2 * Len(conns)
    /\ table.fds[1].fd = ListenFd
    /\ \A fd \in Fds :
          /\ kern[fd] \in SockState <=> \E i \in DOMAIN conns : conns[i].conn = fd
          /\ kern[fd] \in TimerState <=> \E i \in DOMAIN conns : conns[i].timer = fd
          /\ kern[fd] # "free" =>
                /\ \E i \in DOMAIN table.fds : table.fds[i].fd = fd
                /\ \A i, j \in DOMAIN table.fds :
                      table.fds[i].fd = fd /\ table.fds[j].fd = fd => i = j

\* The assertions of the loop hold (lines 83-105), with enough memory.
AssertionsHold == status # "abort"

\* The event loop never sleeps in recv: accepted sockets are blocking, so a
\* snapshot that is wrong when it is used would stop the server for everyone.
NeverBlocksInRecv ==
    Running /\ ConnEvent => kern[ConnFd] # "open" \/ rx[ConnFd] # <<>>

\* insert_fd never writes past what realloc gave, and remove_fd never takes
\* its shrink branch, which would record more room than there is.
TableFits ==
    /\ Len(table.fds) < table.size
    /\ \A len \in 0..Len(table.fds) : SizeAfterRemove(len, table.size) = table.size

\* A connection is closed while its client is there only when its timer has
\* run out, not when it was served in the same pass: timer and data that
\* arrive together count as activity (line 130).
OnlyIdleClosed ==
    [][\A i \in DOMAIN conns :
          LET c == conns[i] IN
          c.conn \in Fds /\ kern[c.conn] = "open" /\ kern'[c.conn] = "free"
             => c.timer \in Fds /\ kern[c.timer] = "expired"]_vars

\* "Stale (inactive) client connections are closed" (server.c 13).
IdleClosed == \A fd \in Fds : []<>(~Running \/ kern[fd] # "open" \/ rx[fd] # <<>>)

\* The table and the list as WatchSet sees them.  The end of the process
\* closes every socket.
Polled(f) == \E i \in DOMAIN table.fds : table.fds[i].fd = f
HasConn(f) == \E i \in DOMAIN conns : conns[i].conn = f

StageOf(f) ==
    IF ~Running \/ kern[f] \notin SockState THEN "closed"
    ELSE IF Polled(f) /\ HasConn(f) THEN "watched" ELSE "stranded"

\* The connections the walk has still to receive from or to close.
Marks == {table.fds[i].fd : i \in {j \in DOMAIN table.fds : table.fds[j].revents}}
HasTurn(i) ==
    \/ conns[i].timer \in Marks
    \/ IF i = cur /\ pc = "timer" THEN doDelete ELSE conns[i].conn \in Marks

Due == IF Running /\ pc # "poll"
       THEN {f \in Fds : \E i \in DOMAIN conns : i >= cur /\ conns[i].conn = f /\ HasTurn(i)}
       ELSE {}

Waiting(f) == IF StageOf(f) = "closed" THEN 0 ELSE Len(rx[f])

Watch == INSTANCE WatchSet WITH
    Capacity <- MaxFd,
    FillsHoles <- FALSE,
    stage <- [f \in Fds |-> StageOf(f)],
    due <- Due,
    pending <- [f \in Fds |-> Waiting(f)]

\* The server implements WatchSet, whatever fails (lines 72-146): no accepted
\* client is ever left out of the table or the list, and each one poll names,
\* by its socket or its timer, is received from or closed before the next poll.
ImplementsWatchSet == Watch!Spec

\* A client that sent a ping gets a pong, or the connection or the server
\* goes, however busy the other clients are.
PingAnswered == \A fd \in Fds : owed[fd] ~> (~Running \/ ~owed[fd])
=============================================================================
