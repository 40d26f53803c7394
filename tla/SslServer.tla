------------------------------ MODULE SslServer ------------------------------
(***************************************************************************)
(* The TLS time server (01_networking_libraries/openssl/src/               *)
(* ssl_client_server.c, run_server): poll over two parallel arrays, the    *)
(* descriptors and the sessions bound to them.  A new client's handshake   *)
(* runs in the accept block, on a socket that still blocks.                *)
(*                                                                         *)
(* OpenSSL is external: a session answers for the descriptor it was bound  *)
(* to, SSL_accept waits for the client's side of the handshake, and        *)
(* SSL_read fails when what arrived is not a whole record of data.  Either *)
(* may also fail for want of memory.                                       *)
(***************************************************************************)
EXTENDS TcpClients

CONSTANT MaxConnection    \* MAX_CONNECTION: entries of fds and arr_ssl

Slots == 0..MaxConnection - 1

NoFd == MaxFd + 1      \* -1, which poll ignores
NoSession == MaxFd + 1 \* NULL

VARIABLES
    fds,        \* fds[i].fd
    arr_ssl,    \* the descriptor arr_ssl[i] was bound to by SSL_set_fd
    revents,    \* whether fds[i].revents has POLLIN
    nfds,       \* the entries in use
    pc,         \* "poll", "scan", or "handshake" inside SSL_accept
    i,          \* the scan's index
    hello,      \* what each client has said of the handshake, if anything
    status      \* "running", or how the process ended

tableVars == <<fds, arr_ssl, nfds>>
vars == <<tableVars, revents, pc, i, hello, status, kernVars>>

\* "last" is exit or quit, or a record SSL_read returns no data of.
Message == {"request", "last"}
Running == status = "running"

Init ==
    /\ KernInit
    /\ fds = [s \in Slots |-> IF s = 0 THEN ListenFd ELSE NoFd]
    /\ arr_ssl = [s \in Slots |-> IF s = 0 THEN ListenFd ELSE NoSession]
    /\ revents = [s \in Slots |-> FALSE]
    /\ nfds = 1
    /\ pc = "poll" /\ i = 0
    /\ hello = [f \in Fds |-> "none"]
    /\ status = "running"

-----------------------------------------------------------------------------
(* Clients: a connection says its side of the handshake when it chooses    *)
(* to, or never; and some say what no handshake can succeed with, plain    *)
(* text or a version the server does not speak, and stay.                  *)

ClientGreets(f, how) ==
    /\ kern[f] = "open" /\ hello[f] = "none"
    /\ hello' = [hello EXCEPT ![f] = how]
    /\ UNCHANGED kernVars

Client ==
    /\ Running
    /\ \/ ClientConnect /\ UNCHANGED hello
       \/ \E f \in Fds :
             \/ \E how \in {"valid", "invalid"} : ClientGreets(f, how)
             \/ \E m \in Message : hello[f] = "valid" /\ ClientSend(f, m) /\ UNCHANGED hello
             \/ \E how \in {"shut", "reset"} : ClientLeave(f, how) /\ UNCHANGED hello
    /\ UNCHANGED <<tableVars, revents, pc, i, status>>

\* A number that is closed says nothing of the next client to have it.
Forget(f) == Closed(f) /\ hello' = [hello EXCEPT ![f] = "none"]

-----------------------------------------------------------------------------
(* poll.                                                                   *)

\* (Slip: poll is given the entries in use, and the rest keep their revents.)
PollInUse ==
    /\ pc = "poll"
    /\ \E s \in 0..nfds - 1 : Ready(fds[s])
    /\ revents' = [s \in Slots |-> IF s < nfds THEN Ready(fds[s]) ELSE revents[s]]
    /\ pc' = "scan" /\ i' = 0
    /\ UNCHANGED <<tableVars, hello, status, kernVars>>

\* poll is given the whole array, and clears revents where fd is -1.
Poll ==
    /\ pc = "poll"
    /\ \E s \in Slots : fds[s] # NoFd /\ Ready(fds[s])
    /\ revents' = [s \in Slots |-> fds[s] # NoFd /\ Ready(fds[s])]
    /\ pc' = "scan" /\ i' = 0
    /\ UNCHANGED <<tableVars, hello, status, kernVars>>

\* poll fails: every socket of the table is closed, every session freed.
PollFails ==
    /\ pc = "poll"
    /\ kern' = [f \in Fds |-> IF \E s \in Slots : fds[s] = f THEN "free" ELSE kern[f]]
    /\ rx' = [f \in Fds |-> IF \E s \in Slots : fds[s] = f THEN <<>> ELSE rx[f]]
    /\ arr_ssl' = [s \in Slots |-> NoSession]
    /\ status' = "exited"
    /\ UNCHANGED <<fds, nfds, revents, pc, i, hello, backlog>>

ScanOver == i >= nfds

EndScan ==
    /\ pc = "scan"
    /\ ScanOver
    /\ pc' = "poll" /\ i' = 0
    /\ UNCHANGED <<tableVars, revents, hello, status, kernVars>>

AtEntry == pc = "scan" /\ ~ScanOver /\ revents[i]
AtClient == AtEntry /\ fds[i] # ListenFd

NotReady ==
    /\ pc = "scan" /\ ~ScanOver
    /\ ~revents[i]
    /\ i' = i + 1
    /\ UNCHANGED <<tableVars, revents, pc, hello, status, kernVars>>

-----------------------------------------------------------------------------
(* The accept block.                                                       *)

\* A session is made for the new entry, and SSL_accept called.
Accept ==
    /\ AtEntry /\ fds[i] = ListenFd
    /\ nfds < MaxConnection
    /\ \E f \in Fds :
          /\ Accepted(f)
          /\ fds' = [fds EXCEPT ![nfds] = f]
          /\ arr_ssl' = [arr_ssl EXCEPT ![nfds] = f]
    /\ pc' = "handshake"
    /\ UNCHANGED <<nfds, revents, i, hello, status>>

\* A full table: the client is neither watched nor closed.
AcceptFull ==
    /\ AtEntry /\ fds[i] = ListenFd
    /\ nfds = MaxConnection
    /\ \E f \in Fds : Accepted(f)
    /\ i' = i + 1
    /\ UNCHANGED <<tableVars, revents, pc, hello, status>>

\* accept fails; or SSL_accept does at once, for want of memory, and what accept
\* returned is closed.
AcceptFails ==
    /\ AtEntry /\ fds[i] = ListenFd
    /\ Aborted \/ (NoFdFree /\ UNCHANGED kernVars)
    /\ i' = i + 1
    /\ UNCHANGED <<tableVars, revents, pc, hello, status>>

\* SSL_new's NULL goes to SSL_set_fd, which writes through it.
SslNewFails ==
    /\ AtEntry /\ fds[i] = ListenFd
    /\ nfds < MaxConnection
    /\ backlog > 0 /\ ~NoFdFree
    /\ status' = "segfault"
    /\ UNCHANGED <<tableVars, revents, pc, i, hello, kernVars>>

Joining == fds[nfds]

HandshakeDone ==
    /\ pc = "handshake"
    /\ hello[Joining] = "valid"
    /\ nfds' = nfds + 1
    /\ pc' = "scan" /\ i' = i + 1
    /\ UNCHANGED <<fds, arr_ssl, revents, hello, status, kernVars>>

\* SSL_accept fails: the client left; what it said is no handshake; or, even if
\* it is one, memory ran out over it.
HandshakeFails ==
    /\ pc = "handshake"
    /\ kern[Joining] # "open" \/ hello[Joining] # "none"
    /\ Forget(Joining)
    /\ fds' = [fds EXCEPT ![nfds] = NoFd]
    /\ arr_ssl' = [arr_ssl EXCEPT ![nfds] = NoSession]
    /\ pc' = "scan" /\ i' = i + 1
    /\ UNCHANGED <<nfds, revents, status>>

-----------------------------------------------------------------------------
(* A client's entry.                                                       *)

\* (Slip: the descriptor moves into the hole, its session does not.)
CompactFdsOnly ==
    /\ fds' = [fds EXCEPT ![i] = fds[nfds - 1], ![nfds - 1] = NoFd]
    /\ arr_ssl' = [arr_ssl EXCEPT ![nfds - 1] = NoSession]
    /\ nfds' = nfds - 1
    /\ i' = i + 1

\* (Slip: the count is reduced, the hole is not filled.)
CompactKeepHole ==
    /\ fds' = [fds EXCEPT ![i] = NoFd]
    /\ arr_ssl' = [arr_ssl EXCEPT ![i] = NoSession]
    /\ nfds' = nfds - 1
    /\ i' = i + 1

\* (Slip: the index stays, as in the tutorial's server.)
CompactAndStay ==
    /\ fds' = [fds EXCEPT ![i] = fds[nfds - 1], ![nfds - 1] = NoFd]
    /\ arr_ssl' = [arr_ssl EXCEPT ![i] = arr_ssl[nfds - 1], ![nfds - 1] = NoSession]
    /\ nfds' = nfds - 1
    /\ i' = i

\* The last entry moves into the hole, and is passed over until the next poll.
Compact ==
    /\ fds' = [fds EXCEPT ![i] = fds[nfds - 1], ![nfds - 1] = NoFd]
    /\ arr_ssl' = [arr_ssl EXCEPT ![i] = arr_ssl[nfds - 1], ![nfds - 1] = NoSession]
    /\ nfds' = nfds - 1
    /\ i' = i + 1

\* The next record on the entry's session, if there is one.
First(f) == IF rx[f] = <<>> THEN "nothing" ELSE Head(rx[f])
Record == First(arr_ssl[i])

\* SSL_read returned a request, one record at a time; a failing SSL_write is
\* only reported.
Answer ==
    /\ AtClient
    /\ Record = "request"
    /\ rx' = [rx EXCEPT ![arr_ssl[i]] = Tail(@)]
    /\ i' = i + 1
    /\ UNCHANGED <<tableVars, revents, pc, hello, status, backlog, kern>>

\* exit and quit; or SSL_read fails: the end of the stream, a reset, nothing
\* to read, or no whole record of data.
Disconnect ==
    /\ AtClient
    /\ \/ Record \in {"nothing", "last"}
       \/ kern[arr_ssl[i]] = "reset"
    /\ Forget(fds[i])
    /\ Compact
    /\ UNCHANGED <<revents, pc, status>>

\* SSL_write on a connection that was reset may raise SIGPIPE.
WriteBreaksPipe ==
    /\ AtClient
    /\ Record = "request"
    /\ kern[arr_ssl[i]] = "reset"
    /\ status' = "sigpipe"
    /\ UNCHANGED <<tableVars, revents, pc, i, hello, kernVars>>

Server ==
    /\ Running
    /\ \/ Poll \/ PollFails \/ EndScan \/ NotReady
       \/ Accept \/ AcceptFull \/ AcceptFails \/ SslNewFails \/ HandshakeDone \/ HandshakeFails
       \/ Answer \/ Disconnect \/ WriteBreaksPipe

(* The process is gone; the specification goes on without it.              *)
Ended == ~Running /\ UNCHANGED vars

Next == Client \/ Server \/ Ended

Spec == Init /\ [][Next]_vars
FairSpec == Spec /\ WF_vars(Server)

-----------------------------------------------------------------------------
(* What the server promises.                                               *)

\* The shape of the state.
TypeOK ==
    /\ fds \in [Slots -> Fds \cup {ListenFd, NoFd}]
    /\ arr_ssl \in [Slots -> Fds \cup {ListenFd, NoSession}]
    /\ revents \in [Slots -> BOOLEAN]
    /\ nfds \in 1..MaxConnection
    /\ pc \in {"poll", "scan", "handshake"}
    /\ i \in 0..MaxConnection
    /\ hello \in [Fds -> {"none", "valid", "invalid"}]
    /\ status \in {"running", "exited", "segfault", "sigpipe"}
    /\ backlog \in Nat
    /\ kern \in [Fds -> {"free", "open", "shut", "reset"}]
    /\ rx \in [Fds -> Seq(Message)]

\* The entries that hold a client, the one inside SSL_accept included.
Held == {s \in Slots \ {0} : s < nfds \/ (s = nfds /\ pc = "handshake")}

\* The arrays stay in step (lines 242-263, 286-291): an entry's session is
\* bound to the entry's own open descriptor, no descriptor is held twice, and
\* the entries after them hold neither.
SessionsMatch ==
    Running =>
      /\ fds[0] = ListenFd /\ arr_ssl[0] = ListenFd
      /\ \A s \in Held : fds[s] \in Fds /\ arr_ssl[s] = fds[s] /\ kern[fds[s]] # "free"
      /\ \A s, t \in Held : fds[s] = fds[t] => s = t
      /\ \A s \in Slots \ (Held \cup {0}) : fds[s] = NoFd /\ arr_ssl[s] = NoSession

\* A client that is still connected is only disconnected for what it said: in
\* the accept block when it said its side of the handshake, and that failed
\* (lines 247-258); in the scan for exit, quit or no record of data.  SSL_read is
\* never called on a session with nothing to read, whose failure would be taken
\* for the client's end (lines 271-282).
DisconnectsJustified ==
    [][\A f \in Fds :
         Running' /\ kern[f] = "open" /\ kern'[f] = "free" =>
            \/ pc = "handshake" /\ hello[f] # "none"
            \/ pc = "scan" /\ First(f) = "last"]_vars

\* SSL_accept waits for a client that says nothing, and everyone with it.
Asleep == pc = "handshake" /\ hello[Joining] = "none" /\ kern[Joining] = "open"

Polled(f) == \E s \in 1..nfds - 1 : fds[s] = f

\* A request is read, unless the loop waits inside a handshake.
RequestsRead ==
    \A f \in Fds : Polled(f) /\ rx[f] # <<>> ~> rx[f] = <<>> \/ ~Running \/ Asleep

StageOf(f) ==
    IF kern[f] = "free" THEN "closed"
    ELSE IF Polled(f) THEN "watched"
    ELSE IF pc = "handshake" /\ Joining = f THEN "joining" ELSE "stranded"

Due == IF pc \in {"scan", "handshake"}
       THEN {fds[s] : s \in {t \in 1..nfds - 1 : t >= i /\ revents[t]}}
       ELSE {}

Watch == INSTANCE WatchSet WITH
    Capacity <- MaxConnection - 1,
    FillsHoles <- TRUE,
    stage <- [f \in Fds |-> StageOf(f)],
    due <- Due,
    pending <- [f \in Fds |-> Len(rx[f])]

\* The server implements WatchSet, with a handshake before a client is
\* watched, a clean-up when poll fails, and holes filled with the last entry,
\* whose client is the only one to lose a turn.
ImplementsWatchSet == Watch!Spec
=============================================================================
