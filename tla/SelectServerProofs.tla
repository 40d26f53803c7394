------------------------- MODULE SelectServerProofs -------------------------
(***************************************************************************)
(* The select() server keeps its three records of who is connected in      *)
(* agreement, sleeps in recv only after a select that failed, and          *)
(* implements WatchSet: for every number of slots, descriptors, clients    *)
(* and pending messages.                                                   *)
(***************************************************************************)
EXTENDS SelectServer, FiniteSetTheorems, TLAPS

Shape ==
    /\ master_set \subseteq Fds \cup {ListenFd}
    /\ read_set \subseteq Fds \cup {ListenFd}
    /\ fds_client \in [Slots -> Fds \cup {Empty}]
    /\ global_max_fd \in Nat
    /\ i \in Nat
    /\ kern \in [Fds -> {"free", "open", "shut", "reset"}]
    /\ rx \in [Fds -> Seq(Message)]

\* What the rest of the scan will find when the select before it worked.
DueReady ==
    pc = "scan" /\ ~blind
       => \A f \in read_set \cap Fds : f >= i => kern[f] # "free" /\ Ready(f)

IInv == Shape /\ RecordsAgree /\ DueReady

LEMMA FdsAreNumbers == ListenFd \notin Fds /\ \A f \in Fds : f \in Nat /\ f >= 1
  BY BoundsAssumption DEF Fds, ListenFd

LEMMA InvInit == Init => IInv
<1> SUFFICES ASSUME Init PROVE IInv  OBVIOUS
<1>1. Shape  BY DEF Init, KernInit, Shape, ListenFd
<1>2. RecordsAgree  BY DEF Init, KernInit, RecordsAgree, ListenFd, Empty
<1>3. DueReady  BY DEF Init, DueReady
<1> QED  BY <1>1, <1>2, <1>3 DEF IInv

\* The table stands and every open descriptor stays open.
LEMMA AgreeSame ==
  ASSUME RecordsAgree, UNCHANGED tableVars,
         \A f \in master_set \ {ListenFd} : kern'[f] # "free"
  PROVE  RecordsAgree'
BY DEF RecordsAgree, tableVars

\* What clients do never takes a message back.
LEMMA InvClient == ASSUME IInv, Client PROVE IInv'
<1>1. UNCHANGED <<tableVars, read_set, pc, i, blind>>  BY DEF Client
<1>2. CASE UNCHANGED <<kern, rx>>
  <2>1. Shape'  BY <1>1, <1>2 DEF IInv, Shape, tableVars
  <2>2. RecordsAgree'  BY <1>1, <1>2, AgreeSame DEF IInv, RecordsAgree
  <2>3. DueReady'
    BY <1>1, <1>2, FdsAreNumbers DEF IInv, DueReady, Ready
  <2> QED  BY <2>1, <2>2, <2>3 DEF IInv
<1>3. ASSUME NEW f \in Fds, NEW m \in Message, ClientSend(f, m) PROVE IInv'
  <2>1. kern' = kern /\ rx' = [rx EXCEPT ![f] = Append(rx[f], m)]
    BY <1>3 DEF ClientSend
  <2>2. rx[f] \in Seq(Message)  BY DEF IInv, Shape
  <2>3. Append(rx[f], m) \in Seq(Message) /\ Append(rx[f], m) # <<>>  BY <2>2
  <2>4. Shape'  BY <1>1, <2>1, <2>3 DEF IInv, Shape, tableVars
  <2>5. RecordsAgree'  BY <1>1, <2>1, AgreeSame DEF IInv, RecordsAgree
  <2>6. \A g \in Fds : rx[g] # <<>> => rx'[g] # <<>>
    BY <2>1, <2>3 DEF IInv, Shape
  <2>7. DueReady'
    BY <1>1, <2>1, <2>6, FdsAreNumbers DEF IInv, DueReady, Ready
  <2> QED  BY <2>4, <2>5, <2>7 DEF IInv
<1>4. ASSUME NEW f \in Fds, NEW how \in {"shut", "reset"}, ClientLeave(f, how) PROVE IInv'
  <2>1. rx' = rx /\ kern' = [kern EXCEPT ![f] = how] /\ kern[f] # "free"
    BY <1>4 DEF ClientLeave
  <2>2. Shape'  BY <1>1, <2>1 DEF IInv, Shape, tableVars
  <2>3. \A g \in Fds : kern[g] # "free" => kern'[g] # "free"
    BY <2>1 DEF IInv, Shape
  <2>4. RecordsAgree'
    BY <1>1, <2>3, AgreeSame DEF IInv, Shape, RecordsAgree
  <2>5. \A g \in Fds : kern[g] \in {"shut", "reset"} => kern'[g] \in {"shut", "reset"}
    BY <2>1 DEF IInv, Shape
  <2>6. DueReady'
    BY <1>1, <2>1, <2>3, <2>5, FdsAreNumbers DEF IInv, DueReady, Ready
  <2> QED  BY <2>2, <2>4, <2>6 DEF IInv
<1> QED  BY <1>2, <1>3, <1>4 DEF Client, ClientConnect

\* A select, whether it worked or not.
LEMMA InvSelect == ASSUME IInv, Select \/ SelectFails PROVE IInv'
<1>1. UNCHANGED <<tableVars, kern, rx>> /\ i' = 0  BY DEF Select, SelectFails, kernVars
<1>2. read_set' \subseteq master_set
  BY DEF Select, SelectFails
<1>3. Shape'  BY <1>1, <1>2 DEF IInv, Shape, tableVars
<1>4. RecordsAgree'  BY <1>1, AgreeSame DEF IInv, RecordsAgree
<1>5. DueReady'
  <2> SUFFICES ASSUME ~blind', NEW f \in read_set' \cap Fds
               PROVE  kern'[f] # "free" /\ Ready(f)'
    BY DEF DueReady
  <2>1. read_set' = {g \in master_set : Ready(g)}  BY DEF Select, SelectFails
  <2>2. f \in master_set \ {ListenFd} /\ Ready(f)  BY <2>1, FdsAreNumbers
  <2> QED  BY <1>1, <2>2 DEF IInv, RecordsAgree, Ready, ListenFd
<1> QED  BY <1>3, <1>4, <1>5 DEF IInv

\* The scan moves on past i, and the descriptors after i are as they were.
LEMMA DueAfter ==
  ASSUME Shape, DueReady, pc = "scan", Advance,
         \A f \in Fds : f > i /\ kern[f] # "free" => kern'[f] = kern[f] /\ rx'[f] = rx[f]
  PROVE  DueReady'
<1> SUFFICES ASSUME ~blind, NEW f \in read_set \cap Fds, f >= i + 1
             PROVE  kern'[f] # "free" /\ Ready(f)'
  BY DEF DueReady, Advance
<1>1. f > i /\ f >= i /\ f # ListenFd  BY FdsAreNumbers DEF Shape
<1>2. kern[f] # "free" /\ Ready(f)  BY <1>1 DEF DueReady
<1> QED  BY <1>1, <1>2 DEF Ready

\* A client is entered, or there is no slot for it.
LEMMA EnterAgrees ==
  ASSUME Shape, RecordsAgree, NEW f \in Fds, kern[f] = "free", Enter(f),
         kern' = [kern EXCEPT ![f] = "open"]
  PROVE  /\ RecordsAgree'
         /\ master_set' \subseteq Fds \cup {ListenFd}
         /\ fds_client' \in [Slots -> Fds \cup {Empty}]
         /\ global_max_fd' \in Nat
<1>1. f \notin master_set /\ f # Empty /\ f \in Nat
  BY FdsAreNumbers DEF RecordsAgree, ListenFd, Empty
<1>2. \A g \in Fds : kern[g] # "free" => kern'[g] # "free"  BY DEF Shape
<1>3. CASE FreeSlots = {}
  <2>1. UNCHANGED tableVars  BY <1>3 DEF Enter
  <2>2. RecordsAgree'  BY <1>2, <2>1, AgreeSame DEF Shape, RecordsAgree
  <2> QED  BY <2>1, <2>2 DEF Shape, tableVars
<1>4. CASE FreeSlots # {}
  <2>1. PICK s \in FreeSlots : fds_client' = [fds_client EXCEPT ![s] = f]
    BY <1>4 DEF Enter
  <2>2. /\ master_set' = master_set \cup {f}
        /\ global_max_fd' = IF f > global_max_fd THEN f ELSE global_max_fd
    BY <1>4 DEF Enter
  <2>3. s \in Slots /\ fds_client[s] = Empty  BY DEF FreeSlots
  <2>4. /\ fds_client'[s] = f
        /\ \A t \in Slots : t # s => fds_client'[t] = fds_client[t]
        /\ \A t \in Slots : fds_client[t] # f
    BY <1>1, <2>1, <2>3, FdsAreNumbers DEF Shape, RecordsAgree
  <2>5. master_set' \ {ListenFd} = {fds_client'[t] : t \in Slots} \ {Empty}
    <3>1. {fds_client'[t] : t \in Slots} \ {Empty}
            = ({fds_client[t] : t \in Slots} \ {Empty}) \cup {f}
      BY <1>1, <2>3, <2>4
    <3> QED  BY <3>1, <2>2, FdsAreNumbers DEF RecordsAgree
  <2>6. \A t, u \in Slots : fds_client'[t] = fds_client'[u] /\ t # u => fds_client'[t] = Empty
    BY <2>4 DEF RecordsAgree
  <2>7. \A g \in master_set' \ {ListenFd} : kern'[g] # "free"
    BY <1>2, <2>2 DEF Shape, RecordsAgree
  <2>8. \A g \in master_set' : g <= global_max_fd'
    <3>1. \A g \in master_set : g \in Nat /\ g <= global_max_fd
      BY FdsAreNumbers DEF Shape, RecordsAgree, ListenFd
    <3> QED  BY <1>1, <2>2, <3>1 DEF Shape
  <2>9. RecordsAgree'
    BY <2>2, <2>5, <2>6, <2>7, <2>8 DEF RecordsAgree
  <2> QED  BY <1>1, <2>1, <2>2, <2>3, <2>9 DEF Shape
<1> QED  BY <1>3, <1>4

LEMMA InvAccept == ASSUME IInv, Accept PROVE IInv'
<1>1. pc = "scan" /\ i = ListenFd /\ Advance  BY DEF Accept, At
<1>2. PICK f \in Fds : Accepted(f) /\ Enter(f)  BY DEF Accept
<1>3. kern[f] = "free" /\ kern' = [kern EXCEPT ![f] = "open"] /\ rx' = rx
  BY <1>2 DEF Accepted, IsNewFd
<1>4. RecordsAgree' /\ Shape'
  <2>1. i' \in Nat /\ read_set' = read_set  BY <1>1 DEF Advance, IInv, Shape
  <2> QED  BY <1>2, <1>3, <2>1, EnterAgrees DEF IInv, Shape
<1>5. \A g \in Fds : kern[g] # "free" => kern'[g] = kern[g] /\ rx'[g] = rx[g]
  BY <1>3 DEF IInv, Shape
<1>6. DueReady'  BY <1>1, <1>5, DueAfter DEF IInv
<1> QED  BY <1>4, <1>6 DEF IInv

\* close, FD_CLR and the slot.
LEMMA DisconnectAgrees ==
  ASSUME Shape, RecordsAgree, NEW f \in Fds, Disconnect(f)
  PROVE  /\ RecordsAgree'
         /\ master_set' \subseteq Fds \cup {ListenFd}
         /\ fds_client' \in [Slots -> Fds \cup {Empty}]
         /\ global_max_fd' = global_max_fd
         /\ kern' = [kern EXCEPT ![f] = "free"]
         /\ rx' = [rx EXCEPT ![f] = <<>>]
<1>1. /\ master_set' = master_set \ {f} /\ global_max_fd' = global_max_fd
      /\ fds_client' = [s \in Slots |-> IF fds_client[s] = f THEN Empty ELSE fds_client[s]]
      /\ kern' = [kern EXCEPT ![f] = "free"]
      /\ rx' = [rx EXCEPT ![f] = <<>>]
  BY DEF Disconnect, Closed
<1>2. f # ListenFd /\ f # Empty  BY FdsAreNumbers DEF Empty, ListenFd
<1>3. \A s \in Slots : fds_client'[s] = IF fds_client[s] = f THEN Empty ELSE fds_client[s]
  BY <1>1
<1>4. fds_client' \in [Slots -> Fds \cup {Empty}]  BY <1>1 DEF Shape
<1>5. master_set' \ {ListenFd} = {fds_client'[s] : s \in Slots} \ {Empty}
  <2>1. {fds_client'[s] : s \in Slots} \ {Empty}
          = ({fds_client[s] : s \in Slots} \ {Empty}) \ {f}
    BY <1>2, <1>3
  <2> QED  BY <1>1, <1>2, <2>1 DEF RecordsAgree
<1>6. \A s, t \in Slots : fds_client'[s] = fds_client'[t] /\ s # t => fds_client'[s] = Empty
  BY <1>3 DEF RecordsAgree
<1>7. \A g \in master_set' \ {ListenFd} : kern'[g] # "free"
  BY <1>1 DEF Shape, RecordsAgree
<1>8. RecordsAgree'  BY <1>1, <1>2, <1>5, <1>6, <1>7 DEF RecordsAgree
<1> QED  BY <1>1, <1>4, <1>8 DEF Shape

LEMMA InvLeave == ASSUME IInv, NEW f \in Fds, Leave(f) PROVE IInv'
<1>1. pc = "scan" /\ i = f /\ Advance /\ Disconnect(f)  BY DEF Leave, At
<1>2. /\ RecordsAgree'
      /\ master_set' \subseteq Fds \cup {ListenFd}
      /\ fds_client' \in [Slots -> Fds \cup {Empty}]
      /\ global_max_fd' = global_max_fd
      /\ kern' = [kern EXCEPT ![f] = "free"]
      /\ rx' = [rx EXCEPT ![f] = <<>>]
  BY <1>1, DisconnectAgrees DEF IInv
<1>3. i' \in Nat /\ read_set' = read_set  BY <1>1 DEF Advance, IInv, Shape
<1>4. <<>> \in Seq(Message)  OBVIOUS
<1>5. Shape'  BY <1>2, <1>3, <1>4 DEF IInv, Shape
<1>6. \A g \in Fds : g > i => g # f  BY <1>1, FdsAreNumbers
<1>7. \A g \in Fds : g > i => kern'[g] = kern[g] /\ rx'[g] = rx[g]
  BY <1>2, <1>6 DEF IInv, Shape
<1>8. DueReady'  BY <1>1, <1>7, DueAfter DEF IInv
<1> QED  BY <1>2, <1>5, <1>8 DEF IInv

LEMMA InvAnswer == ASSUME IInv, NEW f \in Fds, Answer(f) PROVE IInv'
<1>1. pc = "scan" /\ i = f /\ Advance /\ UNCHANGED <<tableVars, kern>>
  BY DEF Answer, At
<1>2. PICK n \in 1..Len(rx[f]) : rx' = [rx EXCEPT ![f] = SubSeq(rx[f], n + 1, Len(rx[f]))]
  BY DEF Answer
<1>3. rx[f] \in Seq(Message)  BY DEF IInv, Shape
<1>4. SubSeq(rx[f], n + 1, Len(rx[f])) \in Seq(Message)  BY <1>3
<1>5. i' \in Nat /\ read_set' = read_set  BY <1>1 DEF Advance, IInv, Shape
<1>6. Shape'  BY <1>1, <1>2, <1>4, <1>5 DEF IInv, Shape, tableVars
<1>7. RecordsAgree'  BY <1>1, AgreeSame DEF IInv, RecordsAgree
<1>8. \A g \in Fds : g > i => g # f  BY <1>1, FdsAreNumbers
<1>9. \A g \in Fds : g > i => kern'[g] = kern[g] /\ rx'[g] = rx[g]
  BY <1>1, <1>2, <1>8 DEF IInv, Shape
<1>10. DueReady'  BY <1>1, <1>9, DueAfter DEF IInv
<1> QED  BY <1>6, <1>7, <1>10 DEF IInv

\* A step of the scan that touches no client.
LEMMA InvPass ==
  ASSUME IInv, pc = "scan", Advance, UNCHANGED <<tableVars, kern, rx>>
  PROVE  IInv'
<1>1. i' \in Nat /\ read_set' = read_set  BY DEF Advance, IInv, Shape
<1>2. Shape'  BY <1>1 DEF IInv, Shape, tableVars
<1>3. RecordsAgree'  BY AgreeSame DEF IInv, RecordsAgree
<1>4. DueReady'  BY DueAfter DEF IInv
<1> QED  BY <1>2, <1>3, <1>4 DEF IInv

LEMMA InvServer == ASSUME IInv, Server PROVE IInv'
<1>1. CASE Select \/ SelectFails  BY <1>1, InvSelect
<1>2. CASE Accept  BY <1>2, InvAccept
<1>3. CASE NotSet \/ AcceptFails
  <2>1. pc = "scan" /\ Advance /\ UNCHANGED <<tableVars, kern, rx>>
    BY <1>3 DEF NotSet, AcceptFails, At, Aborted, kernVars
  <2> QED  BY <2>1, InvPass
<1>4. CASE EndScan
  <2>1. pc' = "select" /\ i' = 0 /\ UNCHANGED <<tableVars, read_set, kern, rx>>
    BY <1>4 DEF EndScan, kernVars
  <2>2. Shape'  BY <2>1 DEF IInv, Shape, tableVars
  <2>3. RecordsAgree'  BY <2>1, AgreeSame DEF IInv, RecordsAgree
  <2> QED  BY <2>1, <2>2, <2>3 DEF IInv, DueReady
<1>5. ASSUME NEW f \in Fds, SendBreaksPipe(f) PROVE IInv'
  <2>1. UNCHANGED <<tableVars, read_set, pc, i, blind, kern, rx, backlog>>
    BY <1>5 DEF SendBreaksPipe, kernVars
  <2>2. Shape'  BY <2>1 DEF IInv, Shape, tableVars
  <2>3. RecordsAgree'  BY <2>1, AgreeSame DEF IInv, RecordsAgree
  <2> QED  BY <2>1, <2>2, <2>3 DEF IInv, DueReady, Ready
<1> QED  BY <1>1, <1>2, <1>3, <1>4, <1>5, InvLeave, InvAnswer DEF Server

LEMMA InvNext == IInv /\ [Next]_vars => IInv'
<1> SUFFICES ASSUME IInv, [Next]_vars PROVE IInv'  OBVIOUS
<1>1. CASE UNCHANGED vars
  <2>1. UNCHANGED <<tableVars, read_set, pc, i, blind, kern, rx, backlog>>
    BY <1>1 DEF vars, kernVars
  <2>2. Shape'  BY <2>1 DEF IInv, Shape, tableVars
  <2>3. RecordsAgree'  BY <2>1, AgreeSame DEF IInv, RecordsAgree
  <2> QED  BY <2>1, <2>2, <2>3 DEF IInv, DueReady, Ready
<1> QED  BY <1>1, InvClient, InvServer DEF Next, Ended

LEMMA InvAlways == Spec => []IInv
  BY InvInit, InvNext, PTL DEF Spec

\* master_set, the slots, the kernel and global_max_fd agree on who is
\* connected, however connections are accepted, closed and renumbered and
\* whether or not select works.
THEOREM AlwaysRecordsAgree == Spec => []RecordsAgree
<1>1. IInv => RecordsAgree  BY DEF IInv
<1> QED  BY <1>1, InvAlways, PTL

\* recv on a client's blocking socket can only sleep in a scan that follows
\* a failed select.
THEOREM AlwaysSleepsOnlyBlind == Spec => []SleepsOnlyBlind
<1>1. IInv => SleepsOnlyBlind
  <2> SUFFICES ASSUME IInv, ~blind, NEW f \in Fds, At(f), kern[f] = "open", rx[f] = <<>>
               PROVE  FALSE
    BY DEF SleepsOnlyBlind, Asleep
  <2>1. pc = "scan" /\ i = f /\ f \in read_set /\ f >= i /\ f # ListenFd
    BY FdsAreNumbers DEF At
  <2>2. Ready(f)  BY <2>1 DEF IInv, DueReady
  <2> QED  BY <2>1, <2>2 DEF Ready
<1> QED  BY <1>1, InvAlways, PTL

-----------------------------------------------------------------------------
(* The refinement.  Stages and Waiting are WatchSet's stage and pending      *)
(* under the mapping.                                                      *)

Stages == [f \in Fds |-> StageOf(f)]
Waiting == [f \in Fds |-> Len(rx[f])]

UsedSlots == Slots \ FreeSlots

LEMMA SlotsFinite == IsFiniteSet(Slots) /\ Cardinality(Slots) = MaxConnection
  BY MaxConnectionAssumption, FS_Interval DEF Slots

\* As many clients are watched as slots are taken.
LEMMA WatchedAreSlots ==
  ASSUME Shape, RecordsAgree
  PROVE  /\ IsFiniteSet(UsedSlots)
         /\ Cardinality(master_set \ {ListenFd}) = Cardinality(UsedSlots)
<1>1. IsFiniteSet(UsedSlots)  BY SlotsFinite, FS_Subset DEF UsedSlots
<1> DEFINE W == master_set \ {ListenFd}
           g == [s \in UsedSlots |-> fds_client[s]]
<1>2. \A s \in UsedSlots : s \in Slots /\ fds_client[s] # Empty
  BY DEF UsedSlots, FreeSlots
<1>3. \A f \in W : \E s \in UsedSlots : fds_client[s] = f
  BY DEF RecordsAgree, UsedSlots, FreeSlots
<1>4. \A s \in UsedSlots : fds_client[s] \in W  BY <1>2 DEF RecordsAgree
<1>5. g \in [UsedSlots -> W]  BY <1>4
<1>6. \A s, t \in UsedSlots : g[s] = g[t] => s = t  BY <1>2 DEF RecordsAgree
<1>7. \A f \in W : \E s \in UsedSlots : g[s] = f  BY <1>3
<1> HIDE DEF g, W
<1>8. g \in Bijection(UsedSlots, W)
  BY <1>5, <1>6, <1>7 DEF Bijection, Injection, IsInjective, Surjection
<1>9. ExistsBijection(UsedSlots, W)  BY <1>8 DEF ExistsBijection
<1>10. Cardinality(W) = Cardinality(UsedSlots)  BY <1>1, <1>9, FS_Bijection
<1> QED  BY <1>1, <1>10 DEF W

LEMMA TakenAreWatched ==
  ASSUME Shape, RecordsAgree
  PROVE  Watch!Taken = master_set \ {ListenFd}
<1>1. \A f \in Fds : StageOf(f) \in {"joining", "watched"} <=> f \in master_set
  BY FdsAreNumbers DEF StageOf, RecordsAgree, ListenFd
<1>2. Watch!Taken = {f \in Fds : StageOf(f) \in {"joining", "watched"}}
  BY DEF Watch!Taken
<1> QED  BY <1>1, <1>2, FdsAreNumbers DEF Shape

\* WatchSet counts as this module does.
LEMMA SameCardinality == \A S : Watch!Cardinality(S) = Cardinality(S)
  BY DEF Cardinality, Watch!Cardinality, IsFiniteSet, Watch!IsFiniteSet

\* A client is turned away exactly when Capacity clients are in the table.
LEMMA FullWhenNoSlot ==
  ASSUME Shape, RecordsAgree
  PROVE  /\ FreeSlots = {} => Watch!Cardinality(Watch!Taken) = MaxConnection
         /\ FreeSlots # {} => Watch!Cardinality(Watch!Taken) < MaxConnection
<1>1. Watch!Cardinality(Watch!Taken) = Cardinality(UsedSlots)
  BY WatchedAreSlots, TakenAreWatched, SameCardinality
<1>2. UsedSlots \in SUBSET Slots  BY DEF UsedSlots
<1>3. /\ Cardinality(UsedSlots) <= Cardinality(Slots)
      /\ Cardinality(Slots) = Cardinality(UsedSlots) => Slots = UsedSlots
  BY <1>2, SlotsFinite, FS_Subset
<1>4. Cardinality(UsedSlots) \in Nat  BY WatchedAreSlots, FS_CardinalityType
<1>5. FreeSlots = {} => UsedSlots = Slots  BY DEF UsedSlots
<1>6. FreeSlots # {} => UsedSlots # Slots  BY DEF UsedSlots, FreeSlots
<1> QED  BY <1>1, <1>3, <1>4, <1>5, <1>6, SlotsFinite, MaxConnectionAssumption

\* The scan goes far enough: the copy select was given lies within
\* global_max_fd, which never goes down, so everyone it names has his turn.
Bounded == pc = "scan" => \A f \in read_set : f <= global_max_fd

LEMMA BoundedNext == IInv /\ Bounded /\ [Next]_vars => Bounded'
<1> SUFFICES ASSUME IInv, Bounded, [Next]_vars PROVE Bounded'  OBVIOUS
<1>1. CASE Select \/ SelectFails
  <2>1. read_set' \subseteq master_set /\ global_max_fd' = global_max_fd
    BY <1>1 DEF Select, SelectFails, tableVars
  <2> QED  BY <2>1 DEF Bounded, IInv, RecordsAgree
<1>2. CASE Accept
  <2>1. PICK f \in Fds : Enter(f)  BY <1>2 DEF Accept
  <2>2. global_max_fd' >= global_max_fd /\ global_max_fd' \in Nat
    BY <2>1, FdsAreNumbers DEF Enter, tableVars, IInv, Shape
  <2>3. read_set' = read_set /\ pc = "scan"  BY <1>2 DEF Accept, At, Advance
  <2>4. \A g \in read_set : g \in Nat  BY FdsAreNumbers DEF IInv, Shape, ListenFd
  <2> QED  BY <2>2, <2>3, <2>4 DEF Bounded, IInv, Shape
<1>3. CASE NotSet \/ AcceptFails \/ \E f \in Fds : Answer(f) \/ Leave(f)
  <2>1. read_set' = read_set /\ global_max_fd' = global_max_fd /\ pc = "scan"
    BY <1>3 DEF NotSet, AcceptFails, Answer, Leave, At, Advance, Disconnect, tableVars
  <2> QED  BY <2>1 DEF Bounded
<1>4. CASE EndScan  BY <1>4 DEF EndScan, Bounded
<1>5. CASE Client \/ Ended \/ (\E f \in Fds : SendBreaksPipe(f)) \/ UNCHANGED vars
  <2>1. UNCHANGED <<read_set, global_max_fd, pc>>
    BY <1>5 DEF Client, Ended, SendBreaksPipe, vars, tableVars
  <2> QED  BY <2>1 DEF Bounded
<1> QED  BY <1>1, <1>2, <1>3, <1>4, <1>5 DEF Next, Server

LEMMA BoundedAlways == Spec => [](IInv /\ Bounded)
<1>1. Init => Bounded  BY DEF Init, Bounded
<1> QED  BY <1>1, BoundedNext, InvAlways, PTL DEF Spec

LEMMA WatchInit == Init => Watch!Init
<1> SUFFICES ASSUME Init PROVE Watch!Init  OBVIOUS
<1>1. \A f \in Fds : StageOf(f) = "closed"  BY DEF Init, KernInit, StageOf
<1>2. Due = {}  BY DEF Init, Due
<1>3. \A f \in Fds : Len(rx[f]) = 0
  <2>1. \A f \in Fds : rx[f] = <<>>  BY DEF Init, KernInit
  <2> QED  BY <2>1
<1> QED  BY <1>1, <1>2, <1>3 DEF Watch!Init

LEMMA StagesSame ==
  ASSUME UNCHANGED master_set, \A f \in Fds : kern'[f] = "free" <=> kern[f] = "free"
  PROVE  Stages' = Stages
BY DEF Stages, StageOf

\* The scan moves past f: its report is used up, and only its.
LEMMA DueMoves ==
  ASSUME Shape, pc = "scan", Advance
  PROVE  /\ i \in Fds => Due' = Due \ {i}
         /\ i \notin Fds => Due' = Due
         /\ i \notin read_set => Due' = Due
<1>1. \A f \in Fds : f >= i + 1 <=> f >= i /\ f # i  BY FdsAreNumbers DEF Shape
<1>2. Due' = {f \in read_set \cap Fds : f >= i + 1}  BY DEF Due, Advance
<1>3. Due = {f \in read_set \cap Fds : f >= i}  BY DEF Due
<1> QED  BY <1>1, <1>2, <1>3

\* A message more for f, or fewer; what waits for the others stays.
LEMMA WaitingIs ==
  ASSUME NEW f \in Fds, NEW s, rx \in [Fds -> Seq(Message)], rx' = [rx EXCEPT ![f] = s]
  PROVE  Waiting' = [Waiting EXCEPT ![f] = Len(s)] /\ Waiting[f] = Len(rx[f])
BY DEF Waiting

\* What clients do: to send is to Arrive, the rest is not WatchSet's.
LEMMA WatchClient == ASSUME IInv, Client PROVE [Watch!Next]_Watch!vars
<1>1. UNCHANGED <<master_set, read_set, pc, i>>  BY DEF Client, tableVars
<1>2. Due' = Due  BY <1>1 DEF Due
<1>3. ASSUME NEW f \in Fds, NEW m \in Message, ClientSend(f, m) PROVE Watch!Next
  <2>1. /\ kern[f] = "open" /\ kern' = kern
        /\ rx' = [rx EXCEPT ![f] = Append(rx[f], m)] /\ rx \in [Fds -> Seq(Message)]
    BY <1>3 DEF ClientSend, IInv, Shape
  <2>2. Stages' = Stages  BY <1>1, <2>1, StagesSame
  <2>3. Stages[f] # "closed"  BY <2>1 DEF Stages, StageOf
  <2>4. Len(Append(rx[f], m)) = Len(rx[f]) + 1  BY <2>1
  <2>5. Waiting' = [Waiting EXCEPT ![f] = Waiting[f] + 1]  BY <2>1, <2>4, WaitingIs
  <2>6. Watch!Arrive(f)  BY <1>2, <2>2, <2>3, <2>5 DEF Watch!Arrive, Stages, Waiting
  <2> QED  BY <2>6 DEF Watch!Next
<1>4. ASSUME rx' = rx, \A f \in Fds : kern'[f] = "free" <=> kern[f] = "free"
      PROVE  UNCHANGED Watch!vars
  <2>1. Stages' = Stages  BY <1>1, <1>4, StagesSame
  <2>2. Waiting' = Waiting  BY <1>4 DEF Waiting
  <2> QED  BY <1>2, <2>1, <2>2 DEF Watch!vars, Stages, Waiting
<1>5. CASE ClientConnect  BY <1>4, <1>5 DEF ClientConnect
<1>6. ASSUME NEW f \in Fds, NEW how \in {"shut", "reset"}, ClientLeave(f, how)
      PROVE  UNCHANGED Watch!vars
  <2>1. kern[f] # "free" /\ kern' = [kern EXCEPT ![f] = how] /\ rx' = rx
    BY <1>6 DEF ClientLeave
  <2>2. \A g \in Fds : kern'[g] = "free" <=> kern[g] = "free"  BY <2>1 DEF IInv, Shape
  <2> QED  BY <1>4, <2>1, <2>2
<1> QED  BY <1>3, <1>5, <1>6 DEF Client

LEMMA WatchAccept == ASSUME IInv, Accept PROVE Watch!Next
<1>1. pc = "scan" /\ i = ListenFd /\ Advance  BY DEF Accept, At
<1>2. PICK f \in Fds : Accepted(f) /\ Enter(f)  BY DEF Accept
<1>3. kern[f] = "free" /\ kern' = [kern EXCEPT ![f] = "open"] /\ Waiting' = Waiting
  BY <1>2 DEF Accepted, IsNewFd, Waiting
<1>4. Due' = Due  BY <1>1, FdsAreNumbers, DueMoves DEF IInv
<1>5. Stages[f] = "closed" /\ f \notin master_set
  BY <1>3, FdsAreNumbers DEF Stages, StageOf, IInv, RecordsAgree
<1>6. kern'[f] = "open" /\ \A g \in Fds \ {f} : kern'[g] = kern[g]
  BY <1>3 DEF IInv, Shape
<1>7. CASE FreeSlots # {}
  <2>1. master_set' = master_set \cup {f}  BY <1>2, <1>7 DEF Enter
  <2>2. Stages' = [Stages EXCEPT ![f] = "watched"]
    BY <1>6, <2>1 DEF Stages, StageOf
  <2>3. Watch!Cardinality(Watch!Taken) < MaxConnection  BY <1>7, FullWhenNoSlot DEF IInv
  <2>4. Watch!Admit(f)
    BY <1>3, <1>4, <1>5, <2>2, <2>3 DEF Watch!Admit, Watch!Become, Stages, Waiting
  <2> QED  BY <2>4 DEF Watch!Next
<1>8. CASE FreeSlots = {}
  <2>1. master_set' = master_set  BY <1>2, <1>8 DEF Enter, tableVars
  <2>2. Stages' = [Stages EXCEPT ![f] = "stranded"]
    BY <1>5, <1>6, <2>1 DEF Stages, StageOf
  <2>3. Watch!Cardinality(Watch!Taken) = MaxConnection  BY <1>8, FullWhenNoSlot DEF IInv
  <2>4. Watch!Strand(f)
    BY <1>3, <1>4, <1>5, <2>2, <2>3 DEF Watch!Strand, Watch!Become, Stages, Waiting
  <2> QED  BY <2>4 DEF Watch!Next
<1> QED  BY <1>7, <1>8

LEMMA WatchLeave == ASSUME IInv, NEW f \in Fds, Leave(f) PROVE Watch!Next
<1>1. pc = "scan" /\ i = f /\ f \in read_set /\ Advance /\ Disconnect(f)
  BY DEF Leave, At
<1>2. f \in Due  BY <1>1, FdsAreNumbers DEF Due
<1>3. Due' = Due \ {f}  BY <1>1, DueMoves DEF IInv
<1>4. kern' = [kern EXCEPT ![f] = "free"] /\ master_set' = master_set \ {f}
  BY <1>1 DEF Disconnect, Closed
<1>5. Stages' = [Stages EXCEPT ![f] = "closed"]
  BY <1>4 DEF Stages, StageOf, IInv, Shape
<1>6. Waiting' = [Waiting EXCEPT ![f] = 0]
  <2>1. rx' = [rx EXCEPT ![f] = <<>>] /\ rx \in [Fds -> Seq(Message)]
    BY <1>1 DEF Disconnect, Closed, IInv, Shape
  <2>2. Len(<<>>) = 0  OBVIOUS
  <2> QED  BY <2>1, <2>2, WaitingIs
<1>7. Watch!Drop(f)
  BY <1>2, <1>3, <1>5, <1>6
  DEF Watch!Drop, Watch!Become, Watch!Forget, Stages, Waiting
<1> QED  BY <1>7 DEF Watch!Next

LEMMA WatchAnswer == ASSUME IInv, NEW f \in Fds, Answer(f) PROVE Watch!Next
<1>1. pc = "scan" /\ i = f /\ f \in read_set /\ Advance /\ UNCHANGED <<tableVars, kern>>
  BY DEF Answer, At
<1>2. f \in Due  BY <1>1, FdsAreNumbers DEF Due
<1>3. Due' = Due \ {f}  BY <1>1, DueMoves DEF IInv
<1>4. Stages' = Stages  BY <1>1, StagesSame DEF tableVars
<1>5. PICK n \in 1..Len(rx[f]) : rx' = [rx EXCEPT ![f] = SubSeq(rx[f], n + 1, Len(rx[f]))]
  BY DEF Answer
<1>6. rx \in [Fds -> Seq(Message)] /\ rx[f] \in Seq(Message) /\ Len(rx[f]) \in Nat
  BY DEF IInv, Shape
<1>7. Len(SubSeq(rx[f], n + 1, Len(rx[f]))) = Len(rx[f]) - n  BY <1>6
<1>8. n \in 1..Waiting[f] /\ Waiting' = [Waiting EXCEPT ![f] = Waiting[f] - n]
  BY <1>5, <1>6, <1>7, WaitingIs
<1>9. Watch!Receive(f)  BY <1>2, <1>3, <1>4, <1>8 DEF Watch!Receive, Stages, Waiting
<1> QED  BY <1>9 DEF Watch!Next

\* A select that failed names every client in the table, no other.
LEMMA WatchReport == ASSUME IInv, Select \/ SelectFails PROVE Watch!Next
<1>1. UNCHANGED <<tableVars, kern, rx>>  BY DEF Select, SelectFails, kernVars
<1>2. Stages' = Stages /\ Waiting' = Waiting  BY <1>1, StagesSame DEF tableVars, Waiting
<1>3. Due' \subseteq master_set \cap Fds /\ Due = {}
  BY DEF Select, SelectFails, Due
<1>4. \A f \in master_set \cap Fds : StageOf(f) = "watched"
  BY FdsAreNumbers DEF StageOf, IInv, RecordsAgree
<1>5. Watch!Watched = {f \in Fds : StageOf(f) = "watched"}  BY DEF Watch!Watched
<1>6. Watch!Report  BY <1>2, <1>3, <1>4, <1>5 DEF Watch!Report, Stages, Waiting
<1> QED  BY <1>6 DEF Watch!Next

\* At the end of the scan everyone named has had his turn.
LEMMA WatchEndScan == ASSUME IInv, Bounded, EndScan PROVE UNCHANGED Watch!vars
<1>1. UNCHANGED <<master_set, kern, rx>> /\ pc = "scan" /\ i > global_max_fd /\ pc' = "select"
  BY DEF EndScan, ScanOver, tableVars, kernVars
<1>2. Stages' = Stages /\ Waiting' = Waiting  BY <1>1, StagesSame DEF Waiting
<1>3. \A f \in read_set \cap Fds : ~(f >= i)
  <2> TAKE f \in read_set \cap Fds
  <2>1. f \in Nat /\ f <= global_max_fd  BY <1>1, FdsAreNumbers DEF Bounded
  <2> QED  BY <1>1, <2>1 DEF IInv, Shape
<1>4. Due = {} /\ Due' = {}  BY <1>1, <1>3 DEF Due
<1> QED  BY <1>2, <1>4 DEF Watch!vars, Stages, Waiting

LEMMA WatchStutter ==
  ASSUME IInv, NotSet \/ AcceptFails \/ (\E f \in Fds : SendBreaksPipe(f)) \/ UNCHANGED vars
  PROVE  UNCHANGED Watch!vars
<1>1. UNCHANGED <<master_set, kern, rx>>
  BY DEF NotSet, AcceptFails, SendBreaksPipe, Aborted, vars, tableVars, kernVars
<1>2. Stages' = Stages /\ Waiting' = Waiting  BY <1>1, StagesSame DEF Waiting
<1>3. Due' = Due
  <2>1. CASE NotSet  BY <2>1, DueMoves DEF IInv, NotSet
  <2>2. CASE AcceptFails  BY <2>2, DueMoves, FdsAreNumbers DEF IInv, AcceptFails, At
  <2>3. CASE (\E f \in Fds : SendBreaksPipe(f)) \/ UNCHANGED vars
    <3>1. UNCHANGED <<pc, i, read_set>>  BY <2>3 DEF SendBreaksPipe, vars
    <3> QED  BY <3>1 DEF Due
  <2> QED  BY <2>1, <2>2, <2>3
<1> QED  BY <1>2, <1>3 DEF Watch!vars, Stages, Waiting

LEMMA WatchNext == IInv /\ Bounded /\ [Next]_vars => [Watch!Next]_Watch!vars
<1> SUFFICES ASSUME IInv, Bounded, [Next]_vars PROVE [Watch!Next]_Watch!vars  OBVIOUS
<1>1. CASE Client  BY <1>1, WatchClient
<1>2. CASE Server
  BY <1>2, WatchAccept, WatchLeave, WatchAnswer, WatchReport, WatchEndScan,
     WatchStutter DEF Server
<1>3. CASE Ended \/ UNCHANGED vars  BY <1>3, WatchStutter DEF Ended
<1> QED  BY <1>1, <1>2, <1>3 DEF Next

\* The server implements WatchSet: a client is turned away only when every
\* slot is taken, received from or closed only when the last select named
\* it, watched until it is closed, and no scan ends before everyone that
\* select named has had his turn.
THEOREM AlwaysImplementsWatchSet == Spec => ImplementsWatchSet
<1>1. Init => Watch!Init  BY WatchInit
<1>2. IInv /\ Bounded /\ [Next]_vars => [Watch!Next]_Watch!vars  BY WatchNext
<1> QED  BY <1>1, <1>2, BoundedAlways, PTL DEF Spec, ImplementsWatchSet, Watch!Spec
=============================================================================
