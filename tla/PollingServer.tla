---------------------------- MODULE PollingServer ----------------------------
(***************************************************************************)
(* The server without a wait (00_tutorials/11_non_blocking_sockets.c,      *)
(* run_server): accept and recv are tried in turn on non-blocking sockets. *)
(* It has one client, the first, for as long as it runs.  A failing fcntl  *)
(* is only reported, and leaves a socket that blocks.                      *)
(***************************************************************************)
EXTENDS TcpClients

NoFd == 0    \* -1

VARIABLES
    sock_client,
    pc,          \* the call it is at: "accept" or "recv"
    nonBlocking, \* the sockets with O_NONBLOCK
    fcntlFailed, \* whether set_non_blocking reported an error
    status       \* "running", or how the process ended

vars == <<sock_client, pc, nonBlocking, fcntlFailed, status, kernVars>>

Message == {"request"}
Running == status = "running"

\* The listening socket's set_non_blocking is called before the loop.
Init ==
    /\ KernInit
    /\ \/ nonBlocking = {ListenFd} /\ fcntlFailed = FALSE
       \/ nonBlocking = {} /\ fcntlFailed = TRUE
    /\ sock_client = NoFd /\ pc = "accept"
    /\ status = "running"

Client ==
    /\ Running
    /\ \/ ClientConnect
       \/ \E f \in Fds :
             \/ \E m \in Message : ClientSend(f, m)
             \/ \E how \in {"shut", "reset"} : ClientLeave(f, how)
    /\ UNCHANGED <<sock_client, pc, nonBlocking, fcntlFailed, status>>

-----------------------------------------------------------------------------
\* (Slip: the accepted socket is left as it is.)
LeaveBlocking(f) == UNCHANGED <<nonBlocking, fcntlFailed>>

\* Either fcntl may fail: the flag stays as it was, and nobody is told.
SetNonBlocking(f) ==
    \/ nonBlocking' = nonBlocking \cup {f} /\ UNCHANGED fcntlFailed
    \/ fcntlFailed' = TRUE /\ UNCHANGED nonBlocking

Accept ==
    /\ pc = "accept" /\ sock_client = NoFd
    /\ \E f \in Fds : Accepted(f) /\ sock_client' = f /\ SetNonBlocking(f)
    /\ pc' = "recv"
    /\ UNCHANGED status

\* Any error but EAGAIN ends the loop.
AcceptFails ==
    /\ pc = "accept" /\ sock_client = NoFd
    /\ Aborted
    /\ status' = "exited"
    /\ UNCHANGED <<sock_client, pc, nonBlocking, fcntlFailed>>

\* EAGAIN, on a listening socket that does not block; or there is a client already, and accept is not called.
NoAccept ==
    /\ pc = "accept"
    /\ (backlog = 0 /\ ListenFd \in nonBlocking) \/ sock_client # NoFd
    /\ pc' = "recv"
    /\ UNCHANGED <<sock_client, nonBlocking, fcntlFailed, status, kernVars>>

\* EAGAIN, on a client's socket that does not block; or there is no client, and
\* recv is not called.
NoData ==
    /\ pc = "recv"
    /\ sock_client # NoFd =>
          /\ kern[sock_client] = "open" /\ rx[sock_client] = <<>>
          /\ sock_client \in nonBlocking
    /\ pc' = "accept"
    /\ UNCHANGED <<sock_client, nonBlocking, fcntlFailed, status, kernVars>>

\* recv returns 0, again and again: the client that left keeps its place.
SeesEnd ==
    /\ pc = "recv" /\ sock_client # NoFd
    /\ kern[sock_client] = "shut" /\ rx[sock_client] = <<>>
    /\ pc' = "accept"
    /\ UNCHANGED <<sock_client, nonBlocking, fcntlFailed, status, kernVars>>

\* One answer for whatever recv returned; a failing send is only reported.
Answer ==
    /\ pc = "recv" /\ sock_client # NoFd
    /\ \E n \in 1..Len(rx[sock_client]) :
          rx' = [rx EXCEPT ![sock_client] = SubSeq(@, n + 1, Len(@))]
    /\ pc' = "accept"
    /\ UNCHANGED <<sock_client, nonBlocking, fcntlFailed, status, backlog, kern>>

\* Any other error of recv ends the loop, and what is open is closed.
RecvFails ==
    /\ pc = "recv" /\ sock_client # NoFd
    /\ kern[sock_client] = "reset"
    /\ Closed(sock_client)
    /\ sock_client' = NoFd
    /\ nonBlocking' = nonBlocking \ {sock_client}
    /\ status' = "exited"
    /\ UNCHANGED <<pc, fcntlFailed>>

\* send on a connection that was reset may raise SIGPIPE.
SendBreaksPipe ==
    /\ pc = "recv" /\ sock_client # NoFd
    /\ kern[sock_client] = "reset" /\ rx[sock_client] # <<>>
    /\ status' = "sigpipe"
    /\ UNCHANGED <<sock_client, pc, nonBlocking, fcntlFailed, kernVars>>

Server ==
    /\ Running
    /\ \/ Accept \/ AcceptFails \/ NoAccept
       \/ NoData \/ SeesEnd \/ Answer \/ RecvFails \/ SendBreaksPipe

(* The process is gone; the specification goes on without it.              *)
Ended == ~Running /\ UNCHANGED vars

Next == Client \/ Server \/ Ended

Spec == Init /\ [][Next]_vars
FairSpec == Spec /\ WF_vars(Server)

-----------------------------------------------------------------------------
\* The loop always moves on: no call of it sleeps, whatever its client does
\* or leaves undone (lines 117-173), unless set_non_blocking reported an error
\* (lines 33-42).
LoopMovesOn == pc = "accept" ~> pc = "recv" \/ ~Running \/ fcntlFailed
LoopComesBack == pc = "recv" ~> pc = "accept" \/ ~Running \/ fcntlFailed
NeverSleeps == LoopMovesOn /\ LoopComesBack
=============================================================================
