----------------------------- MODULE TcpClients -----------------------------
(***************************************************************************)
(* The other side of a TCP server's descriptors: a listening socket with   *)
(* its backlog, the numbers accept hands out, and what the clients behind  *)
(* them have sent or done last.  It is the kernel and the network as the   *)
(* servers of 00_tutorials and 01_networking_libraries use them.           *)
(***************************************************************************)
EXTENDS Naturals, Sequences, FiniteSets

CONSTANTS
    MaxFd,            \* accept hands out 1..MaxFd
    MaxClients,       \* bound: clients connecting, connected or leaked
    MaxPending        \* bound: messages that wait in a client's socket

ASSUME BoundsAssumption == {MaxFd, MaxClients, MaxPending} \subseteq Nat

Fds == 1..MaxFd
ListenFd == 0

VARIABLES
    backlog,    \* connections the kernel completed and accept has not taken
    kern,       \* a descriptor: "free", or what its client did last
    rx          \* messages received by the kernel and not yet by recv

kernVars == <<backlog, kern, rx>>

KernInit ==
    /\ backlog = 0
    /\ kern = [f \in Fds |-> "free"]
    /\ rx = [f \in Fds |-> <<>>]

-----------------------------------------------------------------------------
(* What clients do, between any two steps of a server.                     *)

ClientConnect ==
    /\ backlog + Cardinality({f \in Fds : kern[f] # "free"}) < MaxClients
    /\ backlog' = backlog + 1
    /\ UNCHANGED <<kern, rx>>

ClientSend(f, m) ==
    /\ kern[f] = "open"
    /\ Len(rx[f]) < MaxPending
    /\ rx' = [rx EXCEPT ![f] = Append(@, m)]
    /\ UNCHANGED <<backlog, kern>>

\* FIN after the last message, or a reset: pending data may still be read.
ClientLeave(f, how) ==
    /\ \/ kern[f] = "open"
       \/ kern[f] = "shut" /\ how = "reset"
    /\ kern' = [kern EXCEPT ![f] = how]
    /\ UNCHANGED <<backlog, rx>>

-----------------------------------------------------------------------------
(* What the servers' calls see and do.                                     *)

\* POLLIN, or a bit that select leaves set.
Ready(f) ==
    IF f = ListenFd THEN backlog > 0
    ELSE kern[f] \in {"shut", "reset"} \/ rx[f] # <<>>

\* The lowest free number, as POSIX has it.
IsNewFd(f) == kern[f] = "free" /\ \A other \in 1..f - 1 : kern[other] # "free"

NoFdFree == \A f \in Fds : kern[f] # "free"

\* accept takes a connection from the backlog.
Accepted(f) ==
    /\ backlog > 0
    /\ IsNewFd(f)
    /\ kern' = [kern EXCEPT ![f] = "open"]
    /\ backlog' = backlog - 1
    /\ UNCHANGED rx

\* The connection was aborted before it could be accepted.
Aborted ==
    /\ backlog > 0
    /\ backlog' = backlog - 1
    /\ UNCHANGED <<kern, rx>>

Closed(f) ==
    /\ kern' = [kern EXCEPT ![f] = "free"]
    /\ rx' = [rx EXCEPT ![f] = <<>>]
    /\ UNCHANGED backlog
=============================================================================
