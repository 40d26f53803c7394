------------------------------ MODULE WatchSet ------------------------------
(***************************************************************************)
(* What a server that multiplexes its clients in one thread promises about *)
(* a client's descriptor, however it keeps its table.  It is watched from  *)
(* the moment it is admitted until it is closed.  It is only received      *)
(* from, or closed, when the last report named it, and once per report.    *)
(* Nobody is passed over: a turn is a recv that takes what is there, or    *)
(* the end of the connection, and the next report waits until everyone     *)
(* named has had his.  Only a full table turns a client away.              *)
(***************************************************************************)
EXTENDS Naturals, FiniteSets

CONSTANTS
    Fds,
    Capacity,
    FillsHoles    \* whether the entry of a client that left is filled with another's

VARIABLES
    stage,      \* what became of a descriptor
    due,        \* reported by the last wait for events, and not had their turn
    pending     \* how many messages wait to be received

vars == <<stage, due, pending>>

Stage == {"closed", "joining", "watched", "stranded"}

Init ==
    /\ stage = [f \in Fds |-> "closed"]
    /\ due = {}
    /\ pending = [f \in Fds |-> 0]

Watched == {f \in Fds : stage[f] = "watched"}
Taken == {f \in Fds : stage[f] \in {"joining", "watched"}}

Become(f, s) == stage' = [stage EXCEPT ![f] = s]
Forget(f) == pending' = [pending EXCEPT ![f] = 0]

\* A client sends.
Arrive(f) ==
    /\ stage[f] # "closed"
    /\ pending' = [pending EXCEPT ![f] = @ + 1]
    /\ UNCHANGED <<stage, due>>

\* A client is accepted; it may have a handshake before it is watched.
Admit(f) ==
    /\ stage[f] = "closed"
    /\ Cardinality(Taken) < Capacity
    /\ \E s \in {"joining", "watched"} : Become(f, s)
    /\ UNCHANGED <<due, pending>>

\* The handshake is over, one way or the other.
Join(f) ==
    /\ stage[f] = "joining"
    /\ \/ Become(f, "watched") /\ UNCHANGED pending
       \/ Become(f, "closed") /\ Forget(f)
    /\ UNCHANGED due

\* Accepted into a full table: open, and nobody will ever look at it.
Strand(f) ==
    /\ stage[f] = "closed"
    /\ Cardinality(Taken) = Capacity
    /\ Become(f, "stranded")
    /\ UNCHANGED <<due, pending>>

\* Everyone the last report named has had his turn.
Report ==
    /\ due = {}
    /\ due' \in SUBSET Watched
    /\ UNCHANGED <<stage, pending>>

Receive(f) ==
    /\ f \in due
    /\ due' = due \ {f}
    /\ \E n \in 1..pending[f] : pending' = [pending EXCEPT ![f] = @ - n]
    /\ UNCHANGED stage

\* A client goes.  Whoever takes over its entry may lose a turn: that client
\* is still watched, and named again by the next report.
Drop(f) ==
    /\ f \in due
    /\ Become(f, "closed")
    /\ Forget(f)
    /\ \/ due' = due \ {f}
       \/ FillsHoles /\ \E g \in due : due' = due \ {f, g}

\* The server ends, and closes what is in its table.
Stop ==
    /\ stage' = [f \in Fds |-> IF f \in Taken THEN "closed" ELSE stage[f]]
    /\ pending' = [f \in Fds |-> IF f \in Taken THEN 0 ELSE pending[f]]
    /\ due' = {}

Next ==
    \/ \E f \in Fds :
          Arrive(f) \/ Admit(f) \/ Join(f) \/ Strand(f) \/ Receive(f) \/ Drop(f)
    \/ Report
    \/ Stop

Spec == Init /\ [][Next]_vars
=============================================================================
