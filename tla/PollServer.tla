----------------------------- MODULE PollServer -----------------------------
(***************************************************************************)
(* The time server that multiplexes its clients with poll()                *)
(* (00_tutorials/13_multiplexing_poll_client_server.c, run_server).        *)
(*                                                                         *)
(* Its pollfd array is compacted by copying the last entry's fd, without   *)
(* its revents, into the hole, and a new client takes over whatever        *)
(* revents its slot had: both are kept here as they are.  Clients act      *)
(* between any two steps of the loop.                                      *)
(***************************************************************************)
EXTENDS TcpClients

CONSTANT MaxConnection    \* MAX_CONNECTION (100): entries of fds

ASSUME MaxConnectionAssumption == MaxConnection \in Nat \ {0}

Slots == 0..MaxConnection - 1

VARIABLES
    fd,         \* fds[i].fd
    revents,    \* whether fds[i].revents has POLLIN
    nfds,       \* the entries in use
    pc,         \* "poll", "accept" or "scan"
    i,          \* the scan's index
    reported,   \* history: reported by the last poll and not received since
    status      \* "running", or how the process ended

tableVars == <<fd, revents, nfds>>
vars == <<fd, revents, nfds, pc, i, backlog, kern, rx, reported, status>>

Message == {"request", "exit"}
Running == status = "running"

\* memset of fds, then the listening socket's entry.
Init ==
    /\ fd = [s \in Slots |-> 0]
    /\ revents = [s \in Slots |-> FALSE]
    /\ nfds = 1
    /\ pc = "poll" /\ i = 1
    /\ KernInit
    /\ reported = {}
    /\ status = "running"

-----------------------------------------------------------------------------
Client ==
    /\ Running
    /\ \/ ClientConnect
       \/ \E f \in Fds :
             \/ \E m \in Message : ClientSend(f, m)
             \/ \E how \in {"shut", "reset"} : ClientLeave(f, how)
    /\ UNCHANGED <<tableVars, pc, i, reported, status>>

-----------------------------------------------------------------------------
(* poll and the accept block.                                              *)

InUse == 0..nfds - 1

\* poll writes the entries in use, and only those.
Poll ==
    /\ pc = "poll"
    /\ \E s \in InUse : Ready(fd[s])
    /\ revents' = [s \in Slots |-> IF s \in InUse THEN Ready(fd[s]) ELSE revents[s]]
    /\ reported' = {fd[s] : s \in {t \in InUse \ {0} : Ready(fd[t])}}
    /\ pc' = "accept"
    /\ UNCHANGED <<fd, nfds, i, kernVars, status>>

PollFails ==
    /\ pc = "poll"
    /\ status' = "exited"
    /\ UNCHANGED <<tableVars, pc, i, kernVars, reported>>

NoAccept ==
    /\ pc = "accept"
    /\ ~revents[0]
    /\ pc' = "scan" /\ i' = 1
    /\ UNCHANGED <<tableVars, kernVars, reported, status>>

\* (Slip: the array's bound is not tested.)
EnterUnchecked(f) ==
    /\ fd' = [fd EXCEPT ![nfds] = f]
    /\ nfds' = nfds + 1
    /\ UNCHANGED revents

\* A client that finds the array full keeps its socket, which nobody polls.
Enter(f) ==
    /\ IF nfds < MaxConnection
       THEN fd' = [fd EXCEPT ![nfds] = f] /\ nfds' = nfds + 1
       ELSE UNCHANGED <<fd, nfds>>
    /\ UNCHANGED revents

Accept ==
    /\ pc = "accept"
    /\ revents[0]
    /\ \E f \in Fds :
          /\ Accepted(f)
          /\ Enter(f)
    /\ pc' = "scan" /\ i' = 1
    /\ UNCHANGED <<reported, status>>

\* No free number: the client stays in the backlog, and the continue skips
\* the scan.
AcceptFails ==
    /\ pc = "accept"
    /\ revents[0]
    /\ NoFdFree
    /\ pc' = "poll"
    /\ UNCHANGED <<tableVars, i, kernVars, reported, status>>

-----------------------------------------------------------------------------
(* The scan over the clients' entries.                                     *)

EndScan ==
    /\ pc = "scan"
    /\ i >= nfds
    /\ pc' = "poll" /\ i' = 1
    /\ UNCHANGED <<tableVars, kernVars, reported, status>>

NotReady ==
    /\ pc = "scan" /\ i < nfds
    /\ ~revents[i]
    /\ i' = i + 1
    /\ UNCHANGED <<tableVars, pc, kernVars, reported, status>>

AtEvent == pc = "scan" /\ i < nfds /\ revents[i]

\* (Slip: without the i--, the entry moved into the hole is passed over.)
CloseSlotAndAdvance ==
    /\ Closed(fd[i])
    /\ fd' = [fd EXCEPT ![i] = fd[nfds - 1]]
    /\ nfds' = nfds - 1
    /\ i' = i + 1
    /\ UNCHANGED revents

\* (Slip: the count is reduced, the hole is not filled.)
CloseSlotKeepHole ==
    /\ Closed(fd[i])
    /\ nfds' = nfds - 1
    /\ UNCHANGED <<fd, i, revents>>

\* (Slip: the entry is replaced before its descriptor is closed.)
CloseSlotAfterMove ==
    /\ Closed(fd[nfds - 1])
    /\ fd' = [fd EXCEPT ![i] = fd[nfds - 1]]
    /\ nfds' = nfds - 1
    /\ UNCHANGED <<i, revents>>

\* close, the last entry's fd into the hole, and the index stays.
CloseSlot ==
    /\ Closed(fd[i])
    /\ fd' = [fd EXCEPT ![i] = fd[nfds - 1]]
    /\ nfds' = nfds - 1
    /\ UNCHANGED <<i, revents>>

\* recv returned n messages: the whole buffer is the request, and only a
\* buffer that is exactly the word disconnects.
IsExit(n) == SubSeq(rx[fd[i]], 1, n) = <<"exit">>

\* The request is answered and its client stays.
Answer ==
    /\ AtEvent
    /\ kern[fd[i]] # "reset"
    /\ \E n \in 1..Len(rx[fd[i]]) :
          /\ ~IsExit(n)
          /\ rx' = [rx EXCEPT ![fd[i]] = SubSeq(@, n + 1, Len(@))]
    /\ i' = i + 1
    /\ reported' = reported \ {fd[i]}
    /\ UNCHANGED <<tableVars, pc, backlog, kern, status>>

\* exit and quit, after the answer; or the answer cannot be sent.
Disconnect ==
    /\ AtEvent
    /\ rx[fd[i]] # <<>>
    /\ IsExit(1) \/ kern[fd[i]] = "reset"
    /\ CloseSlot
    /\ reported' = reported \ {fd[i]}
    /\ UNCHANGED <<pc, status>>

\* send on a connection that was reset may raise SIGPIPE.
SendBreaksPipe ==
    /\ AtEvent
    /\ rx[fd[i]] # <<>>
    /\ kern[fd[i]] = "reset"
    /\ status' = "sigpipe"
    /\ UNCHANGED <<tableVars, pc, i, kernVars, reported>>

\* recv returns 0, or fails on a connection that was reset.
RecvEnds ==
    /\ AtEvent
    /\ \/ kern[fd[i]] = "shut" /\ rx[fd[i]] = <<>>
       \/ kern[fd[i]] = "reset"
    /\ CloseSlot
    /\ reported' = reported \ {fd[i]}
    /\ UNCHANGED <<pc, status>>

Server ==
    /\ Running
    /\ \/ Poll \/ PollFails \/ NoAccept \/ Accept \/ AcceptFails
       \/ EndScan \/ NotReady \/ Answer \/ Disconnect \/ SendBreaksPipe \/ RecvEnds

(* The process is gone; the specification goes on without it.              *)
Ended == ~Running /\ UNCHANGED vars

Next == Client \/ Server \/ Ended

Spec == Init /\ [][Next]_vars
FairSpec == Spec /\ WF_vars(Server)

-----------------------------------------------------------------------------
(* What the server promises.                                               *)

\* The shape of the state: nfds never passes the array's end.
TypeOK ==
    /\ fd \in [Slots -> Fds \cup {0}]
    /\ revents \in [Slots -> BOOLEAN]
    /\ nfds \in 1..MaxConnection
    /\ pc \in {"poll", "accept", "scan"}
    /\ i \in 1..MaxConnection
    /\ backlog \in Nat
    /\ kern \in [Fds -> {"free", "open", "shut", "reset"}]
    /\ rx \in [Fds -> Seq(Message)]
    /\ reported \subseteq Fds
    /\ status \in {"running", "exited", "sigpipe"}

Polled(f) == \E s \in InUse \ {0} : fd[s] = f

\* The entries in use are the listening socket and distinct open sockets:
\* compaction by copying the last entry never doubles a descriptor and never
\* keeps a closed one, so nothing is received from or closed twice.
TableMatches ==
    /\ fd[0] = ListenFd
    /\ \A s, t \in InUse : fd[s] = fd[t] => s = t
    /\ \A s \in InUse \ {0} : kern[fd[s]] # "free"

\* A socket leaves the table only by being closed (lines 178-181, 206-209).
LeavesByClosing == [][\A f \in Fds : Polled(f) /\ ~Polled(f)' => kern'[f] = "free"]_vars

\* A pass receives from every client its poll reported, the one that moved
\* into a hole included (line 181's i--).
ReportedAreServed == [][pc = "scan" /\ pc' = "poll" => reported = {}]_vars

\* recv sleeps: the socket is blocking and has nothing to return.
Asleep == AtEvent /\ kern[fd[i]] = "open" /\ rx[fd[i]] = <<>>

\* "The loop continuously monitors the file descriptors and handles events
\* as they occur" (README 1478): the loop sleeps in poll, never in recv.
NeverBlocksInRecv == ~Asleep

\* "the server can efficiently handle multiple connections" (README 1426):
\* a request of a polled client is received, unless recv sleeps.
RequestsReceived ==
    \A f \in Fds : Polled(f) /\ rx[f] # <<>> ~> rx[f] = <<>> \/ ~Running \/ Asleep
=============================================================================
