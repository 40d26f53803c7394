-------------------------- MODULE PollServerProofs --------------------------
(***************************************************************************)
(* The table of the poll() server and its scan, for every size of the      *)
(* array and every number of descriptors and clients.                      *)
(***************************************************************************)
EXTENDS PollServer, SequenceTheorems, TLAPS

\* Where the scan still has to look for a client the last poll reported: in
\* an entry at or after the index, whose revents, its own or those of the
\* entry it was moved over, make the scan stop at it.
Ahead(f, from) == \E s \in InUse : s >= from /\ fd[s] = f /\ revents[s]

ReportedAhead ==
    /\ pc \in {"poll", "accept"} => i = 1
    /\ pc \in {"accept", "scan"} => \A f \in reported : Ahead(f, i)

\* accept is called only when a connection waits: it never sleeps.
AcceptReady == pc = "accept" /\ revents[0] => backlog > 0

IInv == TypeOK /\ TableMatches /\ ReportedAhead /\ AcceptReady

USE MaxConnectionAssumption, BoundsAssumption

LEMMA InUseSlots == TypeOK => InUse \subseteq Slots /\ 0 \in InUse
  BY DEF TypeOK, InUse, Slots

LEMMA EntryIsFd ==
  ASSUME IInv, NEW s \in InUse \ {0}
  PROVE  fd[s] \in Fds /\ kern[fd[s]] # "free"
BY InUseSlots DEF IInv, TypeOK, TableMatches, ListenFd

LEMMA InvInit == Init => IInv
  BY DEF Init, IInv, TypeOK, TableMatches, ReportedAhead, AcceptReady, InUse, Slots, Fds, ListenFd, KernInit

\* Steps that leave the table, the position and the history alone, and
\* neither open nor close a descriptor.
LEMMA InvSame ==
  ASSUME IInv, UNCHANGED <<tableVars, pc, i, reported>>,
         backlog' \in Nat, backlog' >= backlog, rx' \in [Fds -> Seq(Message)],
         kern' \in [Fds -> {"free", "open", "shut", "reset"}],
         status' \in {"running", "exited", "sigpipe"},
         \A f \in Fds : kern[f] # "free" => kern'[f] # "free"
  PROVE  IInv'
<1>1. TypeOK'  BY DEF IInv, TypeOK, tableVars
<1>2. TableMatches'
  <2>1. \A s \in InUse \ {0} : fd[s] \in Fds /\ kern[fd[s]] # "free"  BY EntryIsFd
  <2> QED  BY <2>1 DEF IInv, TableMatches, InUse, tableVars
<1>3. ReportedAhead'  BY DEF IInv, ReportedAhead, Ahead, InUse, tableVars
<1>4. AcceptReady'  BY DEF IInv, TypeOK, AcceptReady, tableVars
<1> QED  BY <1>1, <1>2, <1>3, <1>4 DEF IInv

LEMMA InvClient == ASSUME IInv, Client PROVE IInv'
<1> USE DEF TypeOK
<1>0. UNCHANGED <<tableVars, pc, i, reported, status>>  BY DEF Client
<1>1. CASE ClientConnect
  BY <1>0, <1>1, InvSame DEF ClientConnect, IInv
<1>2. ASSUME NEW f \in Fds, NEW m \in Message, ClientSend(f, m) PROVE IInv'
  <2>1. rx[f] \in Seq(Message)  BY DEF IInv
  <2>2. Append(rx[f], m) \in Seq(Message)  BY <2>1
  <2>3. rx' \in [Fds -> Seq(Message)]  BY <1>2, <2>2 DEF ClientSend, IInv
  <2> QED  BY <1>0, <1>2, <2>3, InvSame DEF ClientSend, IInv
<1>3. ASSUME NEW f \in Fds, NEW how \in {"shut", "reset"}, ClientLeave(f, how) PROVE IInv'
  BY <1>0, <1>3, InvSame DEF ClientLeave, IInv
<1> QED  BY <1>1, <1>2, <1>3 DEF Client

LEMMA InvPoll == ASSUME IInv, Poll PROVE IInv'
<1> USE InUseSlots DEF kernVars, IInv, TypeOK
<1>0. ASSUME NEW f PROVE Ready(f) \in BOOLEAN
  <2>1. CASE f = ListenFd  BY <2>1 DEF Ready
  <2>2. CASE f # ListenFd  BY <2>2, Zenon DEF Ready
  <2> QED  BY <2>1, <2>2
<1>1. /\ UNCHANGED <<fd, nfds, i, backlog, kern, rx, status>> /\ pc' = "accept" /\ i = 1
      /\ revents' = [s \in Slots |-> IF s \in InUse THEN Ready(fd[s]) ELSE revents[s]]
      /\ reported' = {fd[s] : s \in {t \in InUse \ {0} : Ready(fd[t])}}
  BY DEF Poll, ReportedAhead
<1>2. revents' \in [Slots -> BOOLEAN]
  BY <1>0, <1>1
<1>3. reported' \subseteq Fds  BY <1>1, EntryIsFd
<1>4. TypeOK'  BY <1>1, <1>2, <1>3
<1>5. TableMatches'  BY <1>1 DEF TableMatches, InUse
<1>6. ASSUME NEW f \in reported' PROVE Ahead(f, i)'
  <2>1. PICK s \in InUse \ {0} : fd[s] = f /\ Ready(fd[s])  BY <1>1
  <2>2. s \in Slots /\ s >= 1 /\ revents'[s]  BY <1>1, <2>1 DEF InUse
  <2> QED  BY <1>1, <2>1, <2>2 DEF Ahead, InUse
<1>7. AcceptReady'
  <2>1. 0 \in Slots /\ fd[0] = ListenFd  BY DEF TableMatches
  <2>2. revents'[0] => backlog > 0  BY <1>1, <2>1 DEF Ready
  <2> QED  BY <1>1, <2>2 DEF AcceptReady
<1> QED  BY <1>1, <1>4, <1>5, <1>6, <1>7 DEF ReportedAhead

LEMMA InvAccept == ASSUME IInv, Accept PROVE IInv'
<1> USE InUseSlots DEF kernVars, tableVars, IInv, TypeOK
<1>1. PICK f \in Fds : Accepted(f) /\ Enter(f)
  BY DEF Accept
<1>a. IsNewFd(f) /\ kern' = [kern EXCEPT ![f] = "open"] /\ backlog' = backlog - 1 /\ rx' = rx
  BY <1>1 DEF Accepted
<1>2. /\ UNCHANGED <<revents, rx, reported, status>> /\ backlog' \in Nat
      /\ pc' = "scan" /\ i' = 1 /\ i = 1
  BY <1>1, <1>a DEF Accept, Accepted, Enter, ReportedAhead
<1>3. kern[f] = "free"  BY <1>a DEF IsNewFd
<1>4. CASE nfds < MaxConnection
  <2>1. fd' = [fd EXCEPT ![nfds] = f] /\ nfds' = nfds + 1  BY <1>1, <1>4 DEF Enter
  <2>2. nfds \in Slots /\ nfds' \in 1..MaxConnection  BY <1>4, <2>1 DEF Slots
  <2>3. TypeOK'  BY <1>a, <1>2, <2>1, <2>2
  <2>4. InUse' = InUse \cup {nfds} /\ nfds \notin InUse  BY <2>1 DEF InUse
  <2>5. fd'[nfds] = f /\ \A s \in InUse : fd'[s] = fd[s]  BY <2>1, <2>2, <2>4
  <2>6. \A s \in InUse \ {0} : fd[s] \in Fds /\ kern[fd[s]] # "free"  BY EntryIsFd
  <2>7. TableMatches'
    <3>1. fd'[0] = ListenFd  BY <2>5 DEF TableMatches
    <3>2. f # 0 /\ \A s \in InUse : fd[s] # f
      BY <1>3, <2>6 DEF TableMatches, ListenFd, Fds
    <3>3. \A s, t \in InUse' : fd'[s] = fd'[t] => s = t
      BY <2>4, <2>5, <3>2 DEF TableMatches
    <3>4. \A s \in InUse' \ {0} : kern'[fd'[s]] # "free"
      BY <1>a, <2>4, <2>5, <2>6, <3>2
    <3> QED  BY <3>1, <3>3, <3>4 DEF TableMatches
  <2>8. \A g \in reported' : Ahead(g, i)'
    <3> SUFFICES ASSUME NEW g \in reported PROVE Ahead(g, i)'  BY <1>2
    <3>1. PICK s \in InUse : s >= 1 /\ fd[s] = g /\ revents[s]
      BY <1>2 DEF ReportedAhead, Ahead, Accept
    <3> QED  BY <1>2, <2>4, <2>5, <3>1 DEF Ahead
  <2> QED  BY <1>2, <2>3, <2>7, <2>8 DEF ReportedAhead, AcceptReady
<1>5. CASE ~(nfds < MaxConnection)
  <2>1. UNCHANGED <<fd, nfds>>  BY <1>1, <1>5 DEF Enter
  <2>2. TypeOK'  BY <1>a, <1>2, <2>1
  <2>3. \A s \in InUse \ {0} : fd[s] \in Fds /\ kern[fd[s]] # "free"  BY EntryIsFd
  <2>4. TableMatches'  BY <1>a, <2>1, <2>3 DEF TableMatches, InUse
  <2>5. ReportedAhead'  BY <1>2, <2>1 DEF ReportedAhead, Ahead, InUse, Accept
  <2> QED  BY <1>2, <2>2, <2>4, <2>5 DEF AcceptReady
<1> QED  BY <1>4, <1>5

\* Steps that only move the loop's position, past no reported client.
LEMMA InvMove ==
  ASSUME IInv, UNCHANGED <<tableVars, kernVars, status>>,
         reported' \subseteq Fds, i' \in 1..MaxConnection,
         pc' \in {"poll", "scan"}, pc' = "poll" => i' = 1,
         pc' = "scan" => \A f \in reported' : Ahead(f, i')
  PROVE  IInv'
<1>1. TypeOK' /\ TableMatches'
  BY DEF IInv, TypeOK, TableMatches, InUse, tableVars, kernVars
<1>2. ReportedAhead'
  BY DEF ReportedAhead, Ahead, InUse, tableVars
<1>3. AcceptReady'  BY DEF AcceptReady
<1> QED  BY <1>1, <1>2, <1>3 DEF IInv

LEMMA InvNotReady == ASSUME IInv, NotReady PROVE IInv'
<1>1. /\ pc = "scan" /\ pc' = "scan" /\ i < nfds /\ ~revents[i] /\ i' = i + 1
      /\ UNCHANGED <<tableVars, kernVars, reported, status>>
  BY DEF NotReady
<1>2. i' \in 1..MaxConnection  BY <1>1 DEF IInv, TypeOK
<1>3. ASSUME NEW f \in reported PROVE Ahead(f, i')
  <2>1. PICK s \in InUse : s >= i /\ fd[s] = f /\ revents[s]
    BY <1>1 DEF IInv, ReportedAhead, Ahead
  <2>2. s >= i + 1  BY <1>1, <2>1 DEF InUse, IInv, TypeOK
  <2> QED  BY <1>1, <2>1, <2>2 DEF Ahead
<1> QED  BY <1>1, <1>2, <1>3, InvMove DEF IInv, TypeOK

LEMMA InvAnswer == ASSUME IInv, Answer PROVE IInv'
<1> USE DEF kernVars, tableVars
<1>1. /\ pc = "scan" /\ i < nfds /\ revents[i] /\ i' = i + 1
      /\ reported' = reported \ {fd[i]}
      /\ UNCHANGED <<fd, revents, nfds, pc, backlog, kern, status>>
  BY DEF Answer, AtEvent
<1>2. i \in InUse \ {0} /\ i' \in 1..MaxConnection
  BY <1>1 DEF InUse, IInv, TypeOK
<1>3. rx' \in [Fds -> Seq(Message)]
  <2>1. fd[i] \in Fds /\ rx \in [Fds -> Seq(Message)]
    BY <1>2, EntryIsFd DEF IInv, TypeOK
  <2>2. PICK n \in 1..Len(rx[fd[i]]) :
          rx' = [rx EXCEPT ![fd[i]] = SubSeq(@, n + 1, Len(@))]
    BY DEF Answer
  <2>3. SubSeq(rx[fd[i]], n + 1, Len(rx[fd[i]])) \in Seq(Message)
    BY <2>1, LenProperties, SubSeqProperties
  <2> QED  BY <2>1, <2>2, <2>3
<1>4. ASSUME NEW f \in reported' PROVE Ahead(f, i')
  <2>1. PICK s \in InUse : s >= i /\ fd[s] = f /\ revents[s]
    BY <1>1 DEF IInv, ReportedAhead, Ahead
  <2>2. s # i  BY <1>1, <2>1
  <2>3. s >= i + 1  BY <1>2, <2>1, <2>2 DEF InUse, IInv, TypeOK
  <2> QED  BY <1>1, <2>1, <2>3 DEF Ahead
<1>5. TypeOK'  BY <1>1, <1>2, <1>3 DEF IInv, TypeOK
<1>6. TableMatches'  BY <1>1 DEF IInv, TableMatches, InUse
<1>7. ReportedAhead'  BY <1>1, <1>4 DEF ReportedAhead, Ahead, InUse
<1> QED  BY <1>1, <1>5, <1>6, <1>7 DEF IInv, AcceptReady

\* Entry l copied over entry k, then l given up: distinct entries stay
\* distinct, and what k held is gone.
LEMMA CopyLast ==
  ASSUME NEW U, NEW k \in U, NEW l \in U, NEW g, NEW h,
         \A s, t \in U : g[s] = g[t] => s = t,
         \A s \in U \ {k} : h[s] = g[s],
         h[k] = g[l]
  PROVE  /\ \A s, t \in U \ {l} : h[s] = h[t] => s = t
         /\ \A s \in U \ {l} : h[s] # g[k]
<1>1. ASSUME NEW s \in U \ {l}, NEW t \in U \ {l}, h[s] = h[t] PROVE s = t
  <2>1. CASE s = k /\ t = k  BY <2>1
  <2>2. CASE s = k /\ t # k
    <3>1. h[t] = g[t] /\ h[s] = g[l]  BY <2>2
    <3> QED  BY <1>1, <3>1
  <2>3. CASE s # k /\ t = k
    <3>1. h[s] = g[s] /\ h[t] = g[l]  BY <2>3
    <3> QED  BY <1>1, <3>1
  <2>4. CASE s # k /\ t # k
    <3>1. h[s] = g[s] /\ h[t] = g[t]  BY <2>4
    <3> QED  BY <1>1, <3>1
  <2> QED  BY <2>1, <2>2, <2>3, <2>4
<1>2. ASSUME NEW s \in U \ {l} PROVE h[s] # g[k]
  <2>1. CASE s = k
    <3>1. h[s] = g[l] /\ l # k  BY <2>1
    <3> QED  BY <3>1
  <2>2. CASE s # k
    <3>1. h[s] = g[s]  BY <2>2
    <3> QED  BY <2>2, <3>1
  <2> QED  BY <2>1, <2>2
<1> QED  BY <1>1, <1>2

\* close and compaction: the moved entry takes over an entry the scan stops
\* at, and the scan stays before it.
LEMMA InvClose ==
  ASSUME IInv, AtEvent, CloseSlot, reported' = reported \ {fd[i]},
         UNCHANGED <<pc, status>>
  PROVE  IInv'
<1> DEFINE last == nfds - 1
<1>1. /\ pc = "scan" /\ i < nfds /\ revents[i]
      /\ kern' = [kern EXCEPT ![fd[i]] = "free"]
      /\ rx' = [rx EXCEPT ![fd[i]] = <<>>]
      /\ fd' = [fd EXCEPT ![i] = fd[last]]
      /\ nfds' = last /\ UNCHANGED <<i, revents, backlog>>
  BY DEF AtEvent, CloseSlot, Closed
<1>2. /\ i \in InUse \ {0} /\ last \in InUse \ {0} /\ i \in Slots
      /\ last \in 1..MaxConnection /\ InUse' = InUse \ {last}
      /\ 0 \in InUse'
  <2>1. i \in 1..MaxConnection /\ nfds \in 1..MaxConnection  BY DEF IInv, TypeOK
  <2>2. i \in InUse \ {0} /\ last \in InUse \ {0} /\ i \in Slots
    BY <1>1, <2>1 DEF InUse, Slots
  <2>3. last \in 1..MaxConnection  BY <1>1, <2>1
  <2>4. nfds' = nfds - 1 /\ 0 \in InUse'  BY <1>1, <2>1, <2>2 DEF InUse
  <2>5. InUse' = InUse \ {last}
    <3>1. \A s \in InUse' : s \in InUse \ {last}  BY <2>1, <2>4 DEF InUse
    <3>2. \A s \in InUse \ {last} : s \in InUse'  BY <2>1, <2>4 DEF InUse
    <3> QED  BY <3>1, <3>2
  <2> QED  BY <2>2, <2>3, <2>4, <2>5
<1> HIDE DEF last
<1>3. fd[i] \in Fds /\ fd[last] \in Fds  BY <1>2, EntryIsFd
<1>4. TypeOK'  BY <1>1, <1>2, <1>3, EmptySeq DEF IInv, TypeOK
<1>5. fd'[i] = fd[last] /\ \A s \in InUse \ {i} : fd'[s] = fd[s]
  BY <1>1, <1>2, InUseSlots DEF IInv, TypeOK
<1>6. \A s \in InUse \ {0} : fd[s] \in Fds /\ kern[fd[s]] # "free"
  BY EntryIsFd
<1>7. \A s, t \in InUse : fd[s] = fd[t] => s = t
  BY DEF IInv, TableMatches
<1>8. TableMatches'
  <2>1. fd'[0] = ListenFd  BY <1>2, <1>5 DEF IInv, TableMatches
  <2>2. /\ \A s, t \in InUse \ {last} : fd'[s] = fd'[t] => s = t
        /\ \A s \in InUse \ {last} : fd'[s] # fd[i]
    <3>1. i \in InUse /\ last \in InUse  BY <1>2
    <3> HIDE DEF last
    <3> QED  BY ONLY <1>5, <1>7, <3>1, CopyLast
  <2>3. \A s \in InUse' \ {0} : fd'[s] \in Fds /\ fd'[s] # fd[i] /\ kern[fd'[s]] # "free"
    <3> TAKE s \in InUse' \ {0}
    <3>1. s \in InUse \ {0, last}  BY <1>2
    <3>2. fd'[s] = IF s = i THEN fd[last] ELSE fd[s]  BY <1>5, <3>1
    <3>3. fd'[s] \in Fds /\ kern[fd'[s]] # "free"  BY <1>2, <1>6, <3>1, <3>2
    <3> QED  BY <2>2, <3>1, <3>3
  <2>4. kern \in [Fds -> {"free", "open", "shut", "reset"}]  BY DEF IInv, TypeOK
  <2>5. \A s \in InUse' \ {0} : kern'[fd'[s]] # "free"
    BY <1>1, <1>3, <2>3, <2>4
  <2>6. \A s, t \in InUse' : fd'[s] = fd'[t] => s = t  BY <1>2, <2>2
  <2> QED  BY <2>1, <2>5, <2>6 DEF TableMatches
<1>9. ASSUME NEW f \in reported' PROVE Ahead(f, i)'
  <2>1. PICK s \in InUse : s >= i /\ fd[s] = f /\ revents[s]
    BY <1>1 DEF IInv, ReportedAhead, Ahead
  <2>2. s # i  BY <2>1
  <2>3. CASE s = last
    <3>1. i \in InUse' /\ fd'[i] = f /\ revents'[i] /\ i >= i
      BY <1>1, <1>2, <1>5, <2>1, <2>2, <2>3 DEF IInv, TypeOK
    <3> QED  BY <1>1, <3>1 DEF Ahead
  <2>4. CASE s # last
    <3>1. s \in InUse' /\ fd'[s] = f /\ revents'[s]
      BY <1>1, <1>2, <1>5, <2>1, <2>2, <2>4
    <3> QED  BY <1>1, <2>1, <3>1 DEF Ahead
  <2> QED  BY <2>3, <2>4
<1>10. ReportedAhead'  BY <1>1, <1>9 DEF ReportedAhead
<1> QED  BY <1>1, <1>4, <1>8, <1>10 DEF IInv, AcceptReady

LEMMA InvServer == ASSUME IInv, Server PROVE IInv'
<1>1. CASE Poll  BY <1>1, InvPoll
<1>2. CASE Accept  BY <1>2, InvAccept
<1>3. CASE NotReady  BY <1>3, InvNotReady
<1>4. CASE Answer  BY <1>4, InvAnswer
<1>5. CASE Disconnect \/ RecvEnds  BY <1>5, InvClose DEF Disconnect, RecvEnds
<1>6. CASE PollFails \/ SendBreaksPipe
  BY <1>6, InvSame DEF PollFails, SendBreaksPipe, kernVars, IInv, TypeOK
<1>7. CASE NoAccept
  BY <1>7, InvMove DEF NoAccept, IInv, TypeOK, ReportedAhead
<1>8. CASE AcceptFails
  BY <1>8, InvMove DEF AcceptFails, IInv, TypeOK, ReportedAhead
<1>9. CASE EndScan
  BY <1>9, InvMove DEF EndScan, IInv, TypeOK
<1> QED
  BY <1>1, <1>2, <1>3, <1>4, <1>5, <1>6, <1>7, <1>8, <1>9 DEF Server

LEMMA InvNext == IInv /\ [Next]_vars => IInv'
<1> SUFFICES ASSUME IInv, [Next]_vars PROVE IInv'  OBVIOUS
<1>1. CASE UNCHANGED vars
  BY <1>1, InvSame DEF vars, tableVars, IInv, TypeOK
<1> QED  BY <1>1, InvClient, InvServer DEF Next, Ended

LEMMA Invariant == Spec => []IInv
  BY InvInit, InvNext, PTL DEF Spec

\* nfds and the scan's index stay within fds, whatever connects and leaves.
THEOREM TypeCorrect == Spec => []TypeOK
<1>1. IInv => TypeOK  BY DEF IInv
<1> QED  BY <1>1, Invariant, PTL

\* Compaction by copying the last entry's fd keeps the table free of doubles
\* and of closed descriptors.
THEOREM TableAlwaysMatches == Spec => []TableMatches
<1>1. IInv => TableMatches  BY DEF IInv
<1> QED  BY <1>1, Invariant, PTL

\* Every client a poll reported is received from in the pass that follows,
\* although the scan's array shrinks under it.
THEOREM ReportedAlwaysServed == Spec => ReportedAreServed
<1>1. IInv /\ [Next]_vars => (pc = "scan" /\ pc' = "poll" => reported = {})
  <2> SUFFICES ASSUME IInv, Next, pc = "scan", pc' = "poll" PROVE reported = {}
    BY DEF vars
  <2>1. EndScan
    BY DEF Next, Client, ClientConnect, ClientSend, ClientLeave, Server, Poll, PollFails,
       NoAccept, Accept, AcceptFails, NotReady, Answer, Disconnect, SendBreaksPipe,
       RecvEnds, Ended, vars
  <2>2. i >= nfds /\ i \in Nat /\ nfds \in Nat  BY <2>1 DEF EndScan, IInv, TypeOK
  <2>3. \A s \in InUse : ~(s >= i)  BY <2>2 DEF InUse
  <2> QED  BY <2>3 DEF IInv, ReportedAhead, Ahead
<1> QED  BY <1>1, Invariant, PTL DEF Spec, ReportedAreServed

\* A step that changes the table either enters a socket after the last entry
\* or closes one and fills its entry.
LEMMA PolledStep ==
  ASSUME IInv, Next, NEW f \in Fds, Polled(f), ~Polled(f)'
  PROVE  kern'[f] = "free"
<1> USE DEF kernVars, tableVars, vars
<1>1. PICK s \in InUse \ {0} : fd[s] = f  BY DEF Polled
<1>2. nfds \in 1..MaxConnection /\ kern \in [Fds -> {"free", "open", "shut", "reset"}]
  BY DEF IInv, TypeOK
<1>3. ~UNCHANGED <<fd, nfds>>  BY DEF Polled, InUse
<1>4. CASE Accept
  <2>1. PICK g \in Fds : Enter(g)  BY <1>4 DEF Accept
  <2>2. fd' = [fd EXCEPT ![nfds] = g] /\ nfds' = nfds + 1
    BY <1>3, <2>1 DEF Enter
  <2>3. s \in InUse' \ {0}  BY <1>2, <2>2 DEF InUse
  <2>4. s \in Slots /\ s # nfds /\ fd \in [Slots -> Fds \cup {0}]
    BY <1>2, InUseSlots DEF InUse, IInv, TypeOK
  <2>5. fd'[s] = f  BY <1>1, <2>2, <2>4
  <2> QED  BY <2>3, <2>5 DEF Polled
<1>5. CASE AtEvent /\ CloseSlot
  <2>1. /\ i \in 1..MaxConnection /\ i < nfds /\ nfds' = nfds - 1
        /\ fd' = [fd EXCEPT ![i] = fd[nfds - 1]]
        /\ kern' = [kern EXCEPT ![fd[i]] = "free"]
    BY <1>5 DEF AtEvent, CloseSlot, Closed, IInv, TypeOK
  <2>2. CASE s = i  BY <1>1, <1>2, <2>1, <2>2
  <2>3. CASE s # i
    <3>1. s \in Slots /\ i \in Slots /\ fd \in [Slots -> Fds \cup {0}]
      BY <1>2, <2>1, InUseSlots DEF InUse, Slots, IInv, TypeOK
    <3>2. CASE s = nfds - 1
      <4>1. i \in InUse' \ {0}  BY <1>2, <2>1, <2>3, <3>2 DEF InUse
      <4>2. fd'[i] = f  BY <1>1, <2>1, <3>1, <3>2
      <4> QED  BY <4>1, <4>2 DEF Polled
    <3>3. CASE s # nfds - 1
      <4>1. s \in InUse' \ {0}  BY <1>2, <2>1, <3>3 DEF InUse
      <4>2. fd'[s] = f  BY <1>1, <2>1, <2>3, <3>1
      <4> QED  BY <4>1, <4>2 DEF Polled
    <3> QED  BY <3>2, <3>3
  <2> QED  BY <2>2, <2>3
<1> QED
  BY <1>3, <1>4, <1>5
  DEF Next, Client, ClientConnect, ClientSend, ClientLeave, Server, Poll, PollFails, NoAccept,
      AcceptFails, EndScan, NotReady, Answer, Disconnect, SendBreaksPipe, RecvEnds, Ended

\* No socket is dropped from the table while it is open.
THEOREM AlwaysLeavesByClosing == Spec => LeavesByClosing
<1>1. IInv /\ [Next]_vars => [\A f \in Fds : Polled(f) /\ ~Polled(f)' => kern'[f] = "free"]_vars
  BY PolledStep
<1> QED  BY <1>1, Invariant, PTL DEF Spec, LeavesByClosing
=============================================================================
