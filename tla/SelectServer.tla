---------------------------- MODULE SelectServer ----------------------------
(***************************************************************************)
(* The time server that multiplexes its clients with select()              *)
(* (00_tutorials/12_multiplexing_select_client_server.c, run_server).      *)
(*                                                                         *)
(* The scan goes over descriptor numbers and trusts read_set, which a      *)
(* select that failed leaves as it was: the copy of master_set, every bit  *)
(* of it set.                                                              *)
(***************************************************************************)
EXTENDS TcpClients

CONSTANT MaxConnection    \* MAX_CONNECTION: slots of fds_client

ASSUME MaxConnectionAssumption == MaxConnection \in Nat \ {0}

Slots == 1..MaxConnection
Empty == 0

VARIABLES
    master_set,
    read_set,
    fds_client,       \* the clients' descriptors, Empty where there is none
    global_max_fd,
    pc,               \* "select" or "scan"
    i,                \* the descriptor the scan is at
    blind,            \* history: the last select failed
    status            \* "running", or how the process ended

tableVars == <<master_set, fds_client, global_max_fd>>
vars == <<tableVars, read_set, pc, i, blind, status, kernVars>>

Message == {"request", "exit"}
Running == status = "running"

Init ==
    /\ KernInit
    /\ master_set = {ListenFd}
    /\ read_set = {}
    /\ fds_client = [s \in Slots |-> Empty]
    /\ global_max_fd = ListenFd
    /\ pc = "select" /\ i = 0
    /\ blind = FALSE
    /\ status = "running"

Client ==
    /\ Running
    /\ \/ ClientConnect
       \/ \E f \in Fds :
             \/ \E m \in Message : ClientSend(f, m)
             \/ \E how \in {"shut", "reset"} : ClientLeave(f, how)
    /\ UNCHANGED <<tableVars, read_set, pc, i, blind, status>>

-----------------------------------------------------------------------------
(* select.                                                                 *)

\* (Slip: master_set itself is scanned.)
SelectKeepsAll ==
    /\ pc = "select"
    /\ \E f \in master_set : Ready(f)
    /\ read_set' = master_set
    /\ blind' = FALSE
    /\ pc' = "scan" /\ i' = 0
    /\ UNCHANGED <<tableVars, status, kernVars>>

Select ==
    /\ pc = "select"
    /\ \E f \in master_set : Ready(f)
    /\ read_set' = {f \in master_set : Ready(f)}
    /\ blind' = FALSE
    /\ pc' = "scan" /\ i' = 0
    /\ UNCHANGED <<tableVars, status, kernVars>>

\* The failure is reported, and the scan goes on with the copy.
SelectFails ==
    /\ pc = "select"
    /\ read_set' = master_set
    /\ blind' = TRUE
    /\ pc' = "scan" /\ i' = 0
    /\ UNCHANGED <<tableVars, status, kernVars>>

-----------------------------------------------------------------------------
(* The scan.                                                               *)

ScanOver == i > global_max_fd

EndScan ==
    /\ pc = "scan"
    /\ ScanOver
    /\ pc' = "select" /\ i' = 0
    /\ UNCHANGED <<tableVars, read_set, blind, status, kernVars>>

At(f) == pc = "scan" /\ ~ScanOver /\ i = f /\ f \in read_set

Advance ==
    /\ i' = i + 1
    /\ UNCHANGED <<pc, read_set, blind>>

NotSet ==
    /\ pc = "scan" /\ ~ScanOver
    /\ i \notin read_set
    /\ Advance
    /\ UNCHANGED <<tableVars, status, kernVars>>

FreeSlots == {s \in Slots : fds_client[s] = Empty}

\* (Slip: global_max_fd stays.)
EnterKeepsMax(f) ==
    IF FreeSlots # {}
    THEN /\ \E s \in FreeSlots :
               /\ \A t \in FreeSlots : s <= t
               /\ fds_client' = [fds_client EXCEPT ![s] = f]
         /\ master_set' = master_set \cup {f}
         /\ UNCHANGED global_max_fd
    ELSE UNCHANGED tableVars

\* The first empty slot; without one the client is neither watched nor closed.
Enter(f) ==
    IF FreeSlots # {}
    THEN /\ \E s \in FreeSlots :
               /\ \A t \in FreeSlots : s <= t
               /\ fds_client' = [fds_client EXCEPT ![s] = f]
         /\ master_set' = master_set \cup {f}
         /\ global_max_fd' = IF f > global_max_fd THEN f ELSE global_max_fd
    ELSE UNCHANGED tableVars

Accept ==
    /\ At(ListenFd)
    /\ \E f \in Fds : Accepted(f) /\ Enter(f)
    /\ Advance
    /\ UNCHANGED status

\* EAGAIN, which only a blind scan meets; or another error.
AcceptFails ==
    /\ At(ListenFd)
    /\ Aborted \/ ((backlog = 0 \/ NoFdFree) /\ UNCHANGED kernVars)
    /\ Advance
    /\ UNCHANGED <<tableVars, status>>

\* (Slip: the closed descriptor stays in master_set.)
DisconnectNoClear(f) ==
    /\ Closed(f)
    /\ fds_client' = [s \in Slots |-> IF fds_client[s] = f THEN Empty ELSE fds_client[s]]
    /\ UNCHANGED <<master_set, global_max_fd>>

\* (Slip: the slot keeps the closed descriptor.)
DisconnectKeepSlot(f) ==
    /\ Closed(f)
    /\ master_set' = master_set \ {f}
    /\ UNCHANGED <<fds_client, global_max_fd>>

\* close, FD_CLR and the slot; global_max_fd never goes down.
Disconnect(f) ==
    /\ Closed(f)
    /\ master_set' = master_set \ {f}
    /\ fds_client' = [s \in Slots |-> IF fds_client[s] = f THEN Empty ELSE fds_client[s]]
    /\ UNCHANGED global_max_fd

\* recv returned n messages; only a buffer that is exactly the word is exit.
IsExit(f, n) == SubSeq(rx[f], 1, n) = <<"exit">>

Answer(f) ==
    /\ At(f)
    /\ kern[f] # "reset"
    /\ \E n \in 1..Len(rx[f]) :
          /\ ~IsExit(f, n)
          /\ rx' = [rx EXCEPT ![f] = SubSeq(@, n + 1, Len(@))]
    /\ Advance
    /\ UNCHANGED <<tableVars, status, backlog, kern>>

\* exit or quit after the answer, an answer that cannot be sent, the end of
\* the stream, a reset.
Leave(f) ==
    /\ At(f)
    /\ \/ rx[f] # <<>> /\ IsExit(f, 1)
       \/ kern[f] = "shut" /\ rx[f] = <<>>
       \/ kern[f] = "reset"
    /\ Disconnect(f)
    /\ Advance
    /\ UNCHANGED status

\* send on a connection that was reset may raise SIGPIPE.
SendBreaksPipe(f) ==
    /\ At(f)
    /\ rx[f] # <<>>
    /\ kern[f] = "reset"
    /\ status' = "sigpipe"
    /\ UNCHANGED <<tableVars, read_set, pc, i, blind, kernVars>>

Server ==
    /\ Running
    /\ \/ Select \/ SelectFails \/ EndScan \/ NotSet \/ Accept \/ AcceptFails
       \/ \E f \in Fds : Answer(f) \/ Leave(f) \/ SendBreaksPipe(f)

(* The process is gone; the specification goes on without it.              *)
Ended == ~Running /\ UNCHANGED vars

Next == Client \/ Server \/ Ended

Spec == Init /\ [][Next]_vars
FairSpec == Spec /\ WF_vars(Server)

-----------------------------------------------------------------------------
(* What the server promises.                                               *)

\* The shape of the state.
TypeOK ==
    /\ master_set \subseteq Fds \cup {ListenFd}
    /\ read_set \subseteq Fds \cup {ListenFd}
    /\ fds_client \in [Slots -> Fds \cup {Empty}]
    /\ global_max_fd \in Fds \cup {ListenFd}
    /\ pc \in {"select", "scan"}
    /\ i \in 0..global_max_fd + 1
    /\ blind \in BOOLEAN
    /\ status \in {"running", "sigpipe"}
    /\ backlog \in Nat
    /\ kern \in [Fds -> {"free", "open", "shut", "reset"}]
    /\ rx \in [Fds -> Seq(Message)]

\* The three records of who is connected agree (lines 165-167, 187-195,
\* 222-230): each watched client has exactly one slot, is open, and is within
\* the bound the scan goes up to.
RecordsAgree ==
    /\ ListenFd \in master_set
    /\ master_set \ {ListenFd} = {fds_client[s] : s \in Slots} \ {Empty}
    /\ \A s, t \in Slots : fds_client[s] = fds_client[t] /\ s # t => fds_client[s] = Empty
    /\ \A f \in master_set \ {ListenFd} : kern[f] # "free"
    /\ \A f \in master_set : f <= global_max_fd

\* recv sleeps: the client's socket is blocking and has nothing to return.
Asleep == \E f \in Fds : At(f) /\ kern[f] = "open" /\ rx[f] = <<>>

\* A scan after a select that worked never sleeps in recv, whatever was
\* accepted, closed and renumbered during it (lines 137-139).
SleepsOnlyBlind == Asleep => blind

\* A watched client's request is received, unless recv sleeps on another.
RequestsReceived ==
    \A f \in Fds : f \in master_set /\ rx[f] # <<>>
                      ~> rx[f] = <<>> \/ ~Running \/ Asleep

\* The table as WatchSet sees it, and the bits the scan still has to visit.
StageOf(f) ==
    IF kern[f] = "free" THEN "closed"
    ELSE IF f \in master_set THEN "watched" ELSE "stranded"

Due == IF pc = "scan" THEN {f \in read_set \cap Fds : f >= i} ELSE {}

Watch == INSTANCE WatchSet WITH
    Capacity <- MaxConnection,
    FillsHoles <- FALSE,
    stage <- [f \in Fds |-> StageOf(f)],
    due <- Due,
    pending <- [f \in Fds |-> Len(rx[f])]

\* The server implements WatchSet: clients are turned away only by full
\* slots, watched until they are closed, and each one a select names has one
\* turn before the next select, whoever leaves during the scan.
ImplementsWatchSet == Watch!Spec
=============================================================================
