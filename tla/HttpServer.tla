----------------------------- MODULE HttpServer -----------------------------
(***************************************************************************)
(* The HTTP server (01_networking_libraries/my_http_server): a poll loop   *)
(* that reads one request of a client, answers it and closes.              *)
(*                                                                         *)
(* The two tests of the scan are nested as the code has them: an entry     *)
(* with POLLIN is looked at only if it is the listening socket, and an     *)
(* entry WITHOUT it is handled as a client.  A client is handled because   *)
(* the scan reaches its new entry at once, and revents there, which poll   *)
(* has never written, happens to be clear.                                 *)
(***************************************************************************)
EXTENDS TcpClients

CONSTANT MaxConnection    \* MAX_CONNECTION: entries of fds

ASSUME MaxConnectionAssumption == MaxConnection \in Nat /\ MaxConnection >= 2

Slots == 0..MaxConnection - 1
NoFd == MaxFd + 1         \* what an entry holds before it was first written

VARIABLES
    fds,          \* fds[i].fd
    revents,      \* whether fds[i].revents has POLLIN
    nfds,
    pc,           \* "poll" or "scan"
    i,
    listening,    \* the listening socket is open
    garbage,      \* history: a revents was not clear before poll wrote it
    status        \* "running", or how the process ended

tableVars == <<fds, nfds, listening>>
vars == <<tableVars, revents, pc, i, garbage, status, kernVars>>

\* A request, for a page that exists or not, and one whose Content-Length is
\* no number.
Message == {"request", "nonumber"}
Running == status = "running"

Init ==
    /\ KernInit
    /\ fds = [s \in Slots |-> IF s = 0 THEN ListenFd ELSE NoFd]
    /\ nfds = 1
    /\ listening = TRUE
    /\ revents \in [Slots -> BOOLEAN]
    /\ garbage = (\E s \in Slots \ {0} : revents[s])
    /\ pc = "poll" /\ i = 0
    /\ status = "running"

Client ==
    /\ Running
    /\ \/ ClientConnect
       \/ \E f \in Fds :
             \/ \E m \in Message : ClientSend(f, m)
             \/ \E how \in {"shut", "reset"} : ClientLeave(f, how)
    /\ UNCHANGED <<tableVars, revents, pc, i, garbage, status>>

-----------------------------------------------------------------------------
(* poll writes the entries in use.                                         *)

Reported(s) == IF fds[s] = ListenFd THEN listening /\ backlog > 0 ELSE Ready(fds[s])

Poll ==
    /\ pc = "poll"
    /\ \E s \in 0..nfds - 1 : Reported(s)
    /\ revents' = [s \in Slots |-> IF s < nfds THEN Reported(s) ELSE revents[s]]
    /\ pc' = "scan" /\ i' = 0
    /\ UNCHANGED <<tableVars, garbage, status, kernVars>>

\* start returns, and so does main.
PollFails ==
    /\ pc = "poll"
    /\ status' = "exited"
    /\ UNCHANGED <<tableVars, revents, pc, i, garbage, kernVars>>

ScanOver == i >= nfds

EndScan ==
    /\ pc = "scan"
    /\ ScanOver
    /\ pc' = "poll"
    /\ UNCHANGED <<tableVars, revents, i, garbage, status, kernVars>>

At == pc = "scan" /\ ~ScanOver

-----------------------------------------------------------------------------
(* An entry with POLLIN.                                                   *)

\* A full table: the client is neither watched nor closed.
Accept ==
    /\ At /\ revents[i] /\ fds[i] = ListenFd
    /\ \E f \in Fds :
          /\ Accepted(f)
          /\ IF nfds < MaxConnection
             THEN fds' = [fds EXCEPT ![nfds] = f] /\ nfds' = nfds + 1
             ELSE UNCHANGED <<fds, nfds>>
    /\ i' = i + 1
    /\ UNCHANGED <<listening, revents, pc, garbage, status>>

AcceptFails ==
    /\ At /\ revents[i] /\ fds[i] = ListenFd
    /\ Aborted \/ (NoFdFree /\ UNCHANGED kernVars)
    /\ i' = i + 1
    /\ UNCHANGED <<tableVars, revents, pc, garbage, status>>

\* A client's entry: nothing is done.
PassOver ==
    /\ At /\ revents[i] /\ fds[i] # ListenFd
    /\ i' = i + 1
    /\ UNCHANGED <<tableVars, revents, pc, garbage, status, kernVars>>

-----------------------------------------------------------------------------
(* An entry without POLLIN: handle_client.                                 *)

\* (Slip: the closed descriptor keeps its entry.)
CloseKeepsEntry ==
    /\ Closed(fds[i])
    /\ UNCHANGED tableVars

\* close; the last entry moves, without its revents, into the hole.
CloseEntry ==
    /\ Closed(fds[i])
    /\ fds' = [fds EXCEPT ![i] = fds[nfds - 1]]
    /\ nfds' = nfds - 1
    /\ UNCHANGED listening

\* Whatever one recv returned is parsed as a request: std::stoi throws, and main catches: the server ends.
Throws(buffer) == buffer[1] = "nonumber"

Chunks(f) == {SubSeq(rx[f], 1, n) : n \in 1..Len(rx[f])}

\* The recv sleeps until the client sends or leaves; whatever it returned,
\* answered or not, the connection is closed.
HandleClient ==
    /\ At /\ ~revents[i] /\ fds[i] \in Fds
    /\ \/ \E buffer \in Chunks(fds[i]) : ~Throws(buffer)
       \/ kern[fds[i]] \in {"shut", "reset"}
    /\ CloseEntry
    /\ i' = i + 1
    /\ UNCHANGED <<revents, pc, garbage, status>>

RequestThrows ==
    /\ At /\ ~revents[i] /\ fds[i] \in Fds
    /\ \E buffer \in Chunks(fds[i]) : Throws(buffer)
    /\ status' = "exited"
    /\ UNCHANGED <<tableVars, revents, pc, i, garbage, kernVars>>

SendBreaksPipe ==
    /\ At /\ ~revents[i] /\ fds[i] \in Fds
    /\ rx[fds[i]] # <<>> /\ kern[fds[i]] = "reset"
    /\ status' = "sigpipe"
    /\ UNCHANGED <<tableVars, revents, pc, i, garbage, kernVars>>

\* recv fails on the listening socket, and that is closed like a client.
HandleListening ==
    /\ At /\ ~revents[i] /\ fds[i] = ListenFd
    /\ listening' = FALSE
    /\ fds' = [fds EXCEPT ![i] = fds[nfds - 1]]
    /\ nfds' = nfds - 1
    /\ i' = i + 1
    /\ UNCHANGED <<revents, pc, garbage, status, kernVars>>

Server ==
    /\ Running
    /\ \/ Poll \/ PollFails \/ EndScan \/ Accept \/ AcceptFails \/ PassOver
       \/ HandleClient \/ RequestThrows \/ SendBreaksPipe \/ HandleListening

(* The process is gone; the specification goes on without it.              *)
Ended == ~Running /\ UNCHANGED vars

Next == Client \/ Server \/ Ended

Spec == Init /\ [][Next]_vars
FairSpec == Spec /\ WF_vars(Server)

-----------------------------------------------------------------------------
(* What the server promises.                                               *)

\* As long as the entries poll has not written are clear, the server goes on
\* listening, nobody it accepted is left in the table when it polls again or
\* lost outside it, and it never takes the listening socket for a client
\* (lines 50-90).  With one stale bit it closes the listening socket instead.
OneAtATime ==
    ~garbage =>
       /\ listening /\ fds[0] = ListenFd
       /\ pc = "poll" => nfds = 1
       /\ \A f \in Fds : kern[f] # "free" => pc = "scan" /\ nfds = 2 /\ fds[1] = f /\ i = 1
=============================================================================
