---------------------------- MODULE CommandServer ----------------------------
(***************************************************************************)
(* Three servers with the same conversation and different threads:         *)
(*   "iterative"  00_tutorials/08_simple_client_server.c, run_server       *)
(*   "threaded"   00_tutorials/09_multithread_client_server.c, a detached  *)
(*                thread per client, its descriptor passed in a heap cell  *)
(*   "pong"       my_code/simple_tcp_client_server/pong_server.c           *)
(* The first and the last serve a client in the accept loop itself, which  *)
(* is handler 1 here.  Threads interleave between any two calls, and send   *)
(* waits while the client leaves its answers unread.                       *)
(***************************************************************************)
EXTENDS TcpClients

Handlers == Fds    \* a live handler has a descriptor: never more of them
NoFd == 0

VARIABLES
    mode,           \* which of the three programs runs
    pc,             \* the accept loop: "accept", "spawn" or "serve"
    sock_client,    \* the accept loop's variable
    cell,           \* what a handler's argument points to
    hpc,            \* a handler: "none", at "recv", in send with an "answer" or
                    \* the "parting" one, or "bye" before close
    full,           \* descriptors with no room for an answer the client has to read
    unserved,       \* descriptors whose thread could not be created
    status          \* "running", or how the process ended

vars == <<mode, pc, sock_client, cell, hpc, full, unserved, status, kernVars>>

Message == {"request", "exit"}
Running == status = "running"

Init ==
    /\ KernInit
    /\ mode \in {"iterative", "threaded", "pong"}
    /\ pc = "accept" /\ sock_client = NoFd
    /\ cell = [h \in Handlers |-> NoFd]
    /\ hpc = [h \in Handlers |-> "none"]
    /\ full = {} /\ unserved = {}
    /\ status = "running"

\* A client reads its answers when it chooses to, or never.
ClientReads(f) ==
    /\ f \in full
    /\ full' = full \ {f}
    /\ UNCHANGED kernVars

Client ==
    /\ Running
    /\ \/ ClientConnect /\ UNCHANGED full
       \/ \E f \in Fds :
             \/ \E m \in Message : ClientSend(f, m) /\ UNCHANGED full
             \/ \E how \in {"shut", "reset"} : ClientLeave(f, how) /\ UNCHANGED full
             \/ ClientReads(f)
    /\ UNCHANGED <<mode, pc, sock_client, cell, hpc, unserved, status>>

-----------------------------------------------------------------------------
(* The accept loop.                                                        *)

Start(h, f) ==
    /\ hpc[h] = "none"
    /\ cell' = [cell EXCEPT ![h] = f]
    /\ hpc' = [hpc EXCEPT ![h] = "recv"]

Accept ==
    /\ pc = "accept"
    /\ \E f \in Fds :
          /\ Accepted(f)
          /\ sock_client' = f
          /\ IF mode = "threaded"
             THEN pc' = "spawn" /\ UNCHANGED <<cell, hpc>>
             ELSE pc' = "serve" /\ Start(1, f)
    /\ UNCHANGED <<mode, full, unserved, status>>

\* 08 and 09 try again, pong exits.
AcceptFails ==
    /\ pc = "accept"
    /\ Aborted
    /\ status' = IF mode = "pong" THEN "exited" ELSE status
    /\ UNCHANGED <<mode, pc, sock_client, cell, hpc, full, unserved>>

\* calloc, the descriptor into the cell, pthread_create.
Spawn ==
    /\ pc = "spawn"
    /\ \E h \in Handlers : Start(h, sock_client)
    /\ pc' = "accept"
    /\ UNCHANGED <<mode, sock_client, full, unserved, status, kernVars>>

\* The failure is reported; the client's socket stays open.
SpawnFails ==
    /\ pc = "spawn"
    /\ unserved' = unserved \cup {sock_client}
    /\ pc' = "accept"
    /\ UNCHANGED <<mode, sock_client, cell, hpc, full, status, kernVars>>

\* calloc's NULL is written through.
CallocFails ==
    /\ pc = "spawn"
    /\ status' = "segfault"
    /\ UNCHANGED <<mode, pc, sock_client, cell, hpc, full, unserved, kernVars>>

\* The inline handler is done: the next client's turn.
Return ==
    /\ pc = "serve"
    /\ hpc[1] = "none"
    /\ pc' = "accept"
    /\ UNCHANGED <<mode, sock_client, cell, hpc, full, unserved, status, kernVars>>

AcceptLoop ==
    /\ Running
    /\ Accept \/ AcceptFails \/ Spawn \/ SpawnFails \/ CallocFails \/ Return

-----------------------------------------------------------------------------
(* A handler.                                                              *)

\* (Slip: the argument is the address of the accept loop's variable.)
FdOfShared(h) == sock_client

FdOf(h) == cell[h]

\* The last request: the whole buffer in 08 and 09, anywhere in it in pong.
IsLast(buffer) ==
    IF mode = "pong" THEN \E k \in DOMAIN buffer : buffer[k] = "exit"
    ELSE buffer = <<"exit">>

Chunks(f) == {SubSeq(rx[f], 1, n) : n \in 1..Len(rx[f])}

Consume(f, buffer) ==
    /\ rx' = [rx EXCEPT ![f] = SubSeq(@, Len(buffer) + 1, Len(@))]
    /\ UNCHANGED <<backlog, kern>>

\* What is answered: every request in 08 and 09, in pong a buffer with a ping.
IsAnswered(buffer) == mode = "pong" => \E k \in DOMAIN buffer : buffer[k] = "request"

\* recv returns some of what arrived; a last request without a ping pong leaves
\* unanswered.
Receive(h) ==
    /\ hpc[h] = "recv"
    /\ \E buffer \in Chunks(FdOf(h)), next \in {"answer", "parting", "bye"} :
          /\ IsLast(buffer) <=> next # "answer"
          /\ IsAnswered(buffer) <=> next # "bye"
          /\ Consume(FdOf(h), buffer)
          /\ hpc' = [hpc EXCEPT ![h] = next]
    /\ UNCHANGED <<mode, pc, sock_client, cell, full, unserved, status>>

Sending(h) == hpc[h] \in {"answer", "parting"}
AfterSend(h) == [hpc EXCEPT ![h] = IF @ = "answer" THEN "recv" ELSE "bye"]

\* (Slip: a thread ends with its first answer.)
SendOnce(h) ==
    /\ Sending(h)
    /\ FdOf(h) \notin full /\ kern[FdOf(h)] # "reset"
    /\ full' \in {full, full \cup {FdOf(h)}}
    /\ hpc' = [hpc EXCEPT ![h] = "none"]
    /\ cell' = [cell EXCEPT ![h] = NoFd]
    /\ UNCHANGED <<mode, pc, sock_client, unserved, status, kernVars>>

\* send returns once there is room, and may leave none for the next answer.
Send(h) ==
    /\ Sending(h)
    /\ FdOf(h) \notin full /\ kern[FdOf(h)] # "reset"
    /\ full' \in {full, full \cup {FdOf(h)}}
    /\ hpc' = AfterSend(h)
    /\ UNCHANGED <<mode, pc, sock_client, cell, unserved, status, kernVars>>

\* send on a connection that was reset raises SIGPIPE or fails: pong exits,
\* 08 and 09 report it and go on.
SendFails(h) ==
    /\ Sending(h)
    /\ kern[FdOf(h)] = "reset"
    /\ \/ status' = "sigpipe" /\ UNCHANGED hpc
       \/ mode = "pong" /\ status' = "exited" /\ UNCHANGED hpc
       \/ mode # "pong" /\ hpc' = AfterSend(h) /\ UNCHANGED status
    /\ UNCHANGED <<mode, pc, sock_client, cell, full, unserved, kernVars>>

\* (Slip: break without close.)
CloseForgotten(h) ==
    /\ hpc[h] = "bye"
    /\ hpc' = [hpc EXCEPT ![h] = "none"]
    /\ cell' = [cell EXCEPT ![h] = NoFd]
    /\ UNCHANGED <<mode, pc, sock_client, full, unserved, status, kernVars>>

\* close, break, and the cell is freed.
Close(h) ==
    /\ hpc[h] = "bye"
    /\ Closed(FdOf(h))
    /\ full' = full \ {FdOf(h)}
    /\ hpc' = [hpc EXCEPT ![h] = "none"]
    /\ cell' = [cell EXCEPT ![h] = NoFd]
    /\ UNCHANGED <<mode, pc, sock_client, unserved, status>>

\* recv returns 0 or fails.
SeesEnd(h) ==
    /\ hpc[h] = "recv"
    /\ \/ kern[FdOf(h)] = "shut" /\ rx[FdOf(h)] = <<>>
       \/ kern[FdOf(h)] = "reset"

\* 08 and 09 leave the loop, and the socket open; pong closes it.
PeerGone(h) ==
    /\ SeesEnd(h)
    /\ IF mode = "pong"
       THEN hpc' = [hpc EXCEPT ![h] = "bye"] /\ UNCHANGED cell
       ELSE /\ hpc' = [hpc EXCEPT ![h] = "none"]
            /\ cell' = [cell EXCEPT ![h] = NoFd]
    /\ UNCHANGED <<mode, pc, sock_client, full, unserved, status, kernVars>>

Handler(h) ==
    /\ Running
    /\ Receive(h) \/ Send(h) \/ SendFails(h) \/ Close(h) \/ PeerGone(h)

(* The process is gone; the specification goes on without it.              *)
Ended == ~Running /\ UNCHANGED vars

Next == Client \/ AcceptLoop \/ (\E h \in Handlers : Handler(h)) \/ Ended

Spec == Init /\ [][Next]_vars
FairSpec ==
    /\ Spec
    /\ WF_vars(AcceptLoop)
    /\ \A h \in Handlers : WF_vars(Handler(h))

-----------------------------------------------------------------------------
(* What the servers promise.                                               *)

\* The shape of the state.
TypeOK ==
    /\ mode \in {"iterative", "threaded", "pong"}
    /\ pc \in {"accept", "spawn", "serve"}
    /\ sock_client \in Fds \cup {NoFd}
    /\ cell \in [Handlers -> Fds \cup {NoFd}]
    /\ hpc \in [Handlers -> {"none", "recv", "answer", "parting", "bye"}]
    /\ full \subseteq Fds /\ unserved \subseteq Fds
    /\ status \in {"running", "exited", "segfault", "sigpipe"}
    /\ backlog \in Nat
    /\ kern \in [Fds -> {"free", "open", "shut", "reset"}]
    /\ rx \in [Fds -> Seq(Message)]

Live == {h \in Handlers : hpc[h] # "none"}

\* Each handler has an open connection of its own: none answers another's
\* client, receives from a closed number, or meets the client that got the
\* number next, although accept reuses numbers while threads still run
\* (09: lines 32, 62, 181-184).
OneHandlerEach ==
    /\ \A g, h \in Live : FdOf(g) = FdOf(h) => g = h
    /\ \A h \in Live : FdOf(h) \in Fds /\ kern[FdOf(h)] # "free"
    /\ pc = "spawn" => kern[sock_client] # "free" /\ \A h \in Live : FdOf(h) # sock_client

Attended(f) ==
    \/ \E h \in Live : FdOf(h) = f
    \/ pc = "spawn" /\ sock_client = f

\* An open socket without a handler belongs to a client that had left, in the
\* servers that end a conversation without closing, or to one whose thread
\* was not created: nobody who is connected is forgotten (08: 126-130, 138;
\* 09: 47-51, 62, 185-189; pong: 82-94).
NobodyForgotten ==
    \A f \in Fds :
       kern[f] # "free" /\ ~Attended(f)
          => \/ f \in unserved
             \/ mode # "pong" /\ kern[f] \in {"shut", "reset"}

\* f's handler sleeps in send until f reads.
Stalled(f) == f \in full /\ \E h \in Live : FdOf(h) = f /\ Sending(h)

Clogged(f) == kern[f] = "open" /\ Len(rx[f]) = MaxPending

\* An accepted client that reads its answers never finds the buffer it sends
\* into full for good, however long its neighbours stay and whatever they leave
\* unread, unless its thread was not created (08: 120-160; 09: 41-80; pong:
\* 64-94).  One that leaves its answers unread keeps its handler inside send,
\* which has no timeout.
BuffersDrain ==
    \A f \in Fds :
       []<>~Stalled(f) => (Clogged(f) ~> ~Clogged(f) \/ ~Running \/ f \in unserved)
=============================================================================
