--------------------------- MODULE PongPoolProofs ---------------------------
(***************************************************************************)
(* What PongPool promises for every number of workers, descriptors and     *)
(* pending messages.                                                       *)
(***************************************************************************)
EXTENDS PongPool, SequenceTheorems, FiniteSetTheorems, TLAPS

\* A hand holds a task exactly between taking it and giving it away.
Holding ==
    /\ \A w \in Workers : task[w] # NoFd <=> pc[w] \in {"recv", "send", "requeue"}
    /\ mainFd # NoFd <=> mainPc = "insert"

TypeInv == TypeOK /\ Holding

USE NoFdAssumption

-----------------------------------------------------------------------------
(* Type correctness, with Holding: what is appended to the queue is a      *)
(* descriptor because its holder is about to give it away.                 *)

LEMMA TypeInit == Init => TypeInv
  BY DEF Init, TypeInv, TypeOK, Holding

LEMMA TypeClient == ASSUME TypeInv, Client PROVE TypeInv'
<1> USE DEF TypeInv, TypeOK, Holding, mainVars, workerVars, sockVars
<1>1. ASSUME NEW fd \in Fds, ClientLeave(fd) PROVE TypeInv'
  BY <1>1 DEF ClientLeave
<1>2. ASSUME NEW fd \in Fds, NEW m \in Message, ClientSend(fd, m) PROVE TypeInv'
  <2>1. rx[fd] \in Seq(Message)  OBVIOUS
  <2>2. Append(rx[fd], m) \in Seq(Message)  BY <2>1
  <2>3. rx' \in [Fds -> Seq(Message)]  BY <1>2, <2>2 DEF ClientSend
  <2>4. owed' \in [Fds -> BOOLEAN]  BY <1>2, Zenon DEF ClientSend
  <2> QED  BY <1>2, <2>3, <2>4 DEF ClientSend
<1> QED  BY <1>1, <1>2 DEF Client

LEMMA TypeMain == ASSUME TypeInv, Main PROVE TypeInv'
<1> USE DEF TypeInv, TypeOK, Holding, mainVars, workerVars, sockVars
<1>1. CASE MainAccept  BY <1>1 DEF MainAccept
<1>2. CASE AcceptFails  BY <1>2 DEF AcceptFails
<1>3. CASE MainInsert
  <2>1. mainFd \in Fds  BY <1>3 DEF MainInsert
  <2>2. queue' \in Seq(Fds)  BY <1>3, <2>1 DEF MainInsert
  <2> QED  BY <1>3, <2>2 DEF MainInsert
<1>4. CASE InsertFails  BY <1>4 DEF InsertFails
<1>5. CASE MainSignal  BY <1>5 DEF MainSignal, Waiting
<1> QED  BY <1>1, <1>2, <1>3, <1>4, <1>5 DEF Main

LEMMA TypeClose ==
  ASSUME TypeInv, NEW w \in Workers, CloseTask(w)
  PROVE  TypeInv'
BY EmptySeq DEF CloseTask, TypeInv, TypeOK, Holding, mainVars

LEMMA TypeDequeue ==
  ASSUME TypeInv, NEW w \in Workers, Dequeue(w)
  PROVE  TypeInv'
<1> USE DEF TypeInv, TypeOK, Holding, Dequeue, mainVars, sockVars
<1>1. Head(queue) \in Fds /\ Tail(queue) \in Seq(Fds)  BY HeadTailProperties
<1> QED  BY <1>1

LEMMA TypeWorker ==
  ASSUME TypeInv, NEW w \in Workers, ThreadFunc(w) \/ Spurious(w)
  PROVE  TypeInv'
<1> USE DEF TypeInv, TypeOK, Holding, mainVars, workerVars, sockVars
<1>1. CASE Take(w) \/ TakeWoken(w)  BY <1>1, TypeDequeue DEF Take, TakeWoken
<1>2. CASE Wait(w)  BY <1>2 DEF Wait
<1>3. CASE Spurious(w)  BY <1>3 DEF Spurious
<1>4. CASE TakeNothing(w)  BY <1>4 DEF TakeNothing
<1>5. CASE RecvData(w)
  <2>1. task[w] \in Fds /\ rx[task[w]] \in Seq(Message)
    BY <1>5 DEF RecvData
  <2>2. PICK n \in 1..Len(rx[task[w]]) :
          /\ rx' = [rx EXCEPT ![task[w]] = SubSeq(@, n + 1, Len(@))]
          /\ pc' = [pc EXCEPT ![w] =
                IF HasPing(SubSeq(rx[task[w]], 1, n)) THEN "send" ELSE "requeue"]
    BY <1>5 DEF RecvData
  <2>3. SubSeq(rx[task[w]], n + 1, Len(rx[task[w]])) \in Seq(Message)
    BY <2>1, LenProperties, SubSeqProperties
  <2>4. rx' \in [Fds -> Seq(Message)]  BY <2>1, <2>2, <2>3
  <2> QED  BY <1>5, <2>2, <2>4 DEF RecvData
<1>6. CASE RecvEof(w) \/ RecvFails(w) \/ SendFails(w)
  BY <1>6, TypeClose DEF RecvEof, RecvFails, SendFails
<1>7. CASE SendPong(w)  BY <1>7 DEF SendPong
<1>8. CASE SendBreaksPipe(w)  BY <1>8 DEF SendBreaksPipe
<1>9. CASE Requeue(w)
  <2>1. task[w] \in Fds  BY <1>9 DEF Requeue
  <2>2. queue' \in Seq(Fds)  BY <1>9, <2>1 DEF Requeue
  <2> QED  BY <1>9, <2>2 DEF Requeue
<1> QED
  BY <1>1, <1>2, <1>3, <1>4, <1>5, <1>6, <1>7, <1>8, <1>9 DEF ThreadFunc

LEMMA TypeNext == TypeInv /\ [Next]_vars => TypeInv'
<1> SUFFICES ASSUME TypeInv, [Next]_vars PROVE TypeInv'  OBVIOUS
<1>1. CASE UNCHANGED vars
  BY <1>1 DEF TypeInv, TypeOK, Holding, vars
<1>2. CASE Next
  <2>1. CASE Ended  BY <1>1, <2>1 DEF Ended
  <2> QED  BY <1>2, <2>1, TypeClient, TypeMain, TypeWorker DEF Next
<1> QED  BY <1>1, <1>2

\* The state keeps its shape whatever the threads and the clients do: the
\* queue of the pool only ever holds accepted descriptors.
THEOREM TypeCorrect == Spec => []TypeOK
<1>1. TypeInv => TypeOK  BY DEF TypeInv
<1> QED  BY TypeInit, TypeNext, <1>1, PTL DEF Spec

LEMMA TypeInvariant == Spec => []TypeInv
  BY TypeInit, TypeNext, PTL DEF Spec

-----------------------------------------------------------------------------
(* Sequences without repetitions, and who is in them.                      *)

Distinct(s) == \A i, j \in DOMAIN s : s[i] = s[j] => i = j
In(s, x) == \E i \in DOMAIN s : s[i] = x

LEMMA AppendMembers ==
  ASSUME NEW S, NEW s \in Seq(S), NEW e \in S
  PROVE  /\ \A x : In(Append(s, e), x) <=> In(s, x) \/ x = e
         /\ Distinct(s) /\ ~In(s, e) => Distinct(Append(s, e))
<1>1. Len(s) \in Nat /\ DOMAIN s = 1..Len(s)  BY LenProperties
<1>2. /\ DOMAIN Append(s, e) = 1..Len(s) + 1
      /\ \A i \in 1..Len(s) : Append(s, e)[i] = s[i]
      /\ Append(s, e)[Len(s) + 1] = e
  BY <1>1
<1>3. 1..Len(s) + 1 = (1..Len(s)) \cup {Len(s) + 1}  BY <1>1
<1>4. ASSUME NEW x PROVE In(Append(s, e), x) <=> In(s, x) \/ x = e
  BY <1>1, <1>2, <1>3 DEF In
<1>5. ASSUME Distinct(s), ~In(s, e) PROVE Distinct(Append(s, e))
  BY <1>1, <1>2, <1>3, <1>5 DEF In, Distinct
<1> QED  BY <1>4, <1>5

LEMMA TailMembers ==
  ASSUME NEW S, NEW s \in Seq(S), s # <<>>, Distinct(s)
  PROVE  /\ In(s, Head(s))
         /\ \A x : In(Tail(s), x) <=> In(s, x) /\ x # Head(s)
         /\ Distinct(Tail(s))
<1>1. Len(s) \in Nat \ {0} /\ DOMAIN s = 1..Len(s)  BY LenProperties, EmptySeq
<1>2. /\ DOMAIN Tail(s) = 1..Len(s) - 1
      /\ \A i \in 1..Len(s) - 1 : Tail(s)[i] = s[i + 1]
      /\ Head(s) = s[1]
  BY <1>1, HeadTailProperties, LenProperties
<1>3. In(s, Head(s))  BY <1>1, <1>2 DEF In
<1>4. ASSUME NEW x PROVE In(Tail(s), x) <=> In(s, x) /\ x # Head(s)
  <2>1. ASSUME In(Tail(s), x) PROVE In(s, x) /\ x # Head(s)
    <3>1. PICK i \in 1..Len(s) - 1 : s[i + 1] = x  BY <1>2, <2>1 DEF In
    <3>2. i + 1 \in 1..Len(s) /\ 1 \in 1..Len(s) /\ i + 1 # 1  BY <1>1
    <3> QED  BY <1>1, <1>2, <3>1, <3>2 DEF In, Distinct
  <2>2. ASSUME In(s, x), x # Head(s) PROVE In(Tail(s), x)
    <3>1. PICK i \in 1..Len(s) : s[i] = x  BY <1>1, <2>2 DEF In
    <3>2. i # 1  BY <1>2, <2>2, <3>1
    <3>3. i - 1 \in 1..Len(s) - 1 /\ (i - 1) + 1 = i  BY <1>1, <3>2
    <3> QED  BY <1>2, <3>1, <3>3 DEF In
  <2> QED  BY <2>1, <2>2
<1>5. Distinct(Tail(s))
  <2> SUFFICES ASSUME NEW i \in 1..Len(s) - 1, NEW j \in 1..Len(s) - 1, s[i + 1] = s[j + 1]
               PROVE  i = j
    BY <1>2 DEF Distinct
  <2>1. i + 1 \in 1..Len(s) /\ j + 1 \in 1..Len(s)  BY <1>1
  <2>2. i + 1 = j + 1  BY <1>1, <2>1 DEF Distinct
  <2> QED  BY <2>2
<1> QED  BY <1>3, <1>4, <1>5

-----------------------------------------------------------------------------
(* Ownership.  Every action moves at most one descriptor from one place to *)
(* the next; the lemmas name the moves.                                    *)

LEMMA OwnedQueue == OwnedOnce <=>
    /\ Distinct(queue)
    /\ \A w, v \in Workers : task[w] = task[v] /\ task[w] # NoFd => w = v
    /\ \A fd \in Fds :
          /\ peer[fd] # "free" <=> (mainFd = fd \/ In(queue, fd) \/ InHand(fd))
          /\ ~ (mainFd = fd /\ In(queue, fd))
          /\ ~ (mainFd = fd /\ InHand(fd))
          /\ ~ (In(queue, fd) /\ InHand(fd))
  BY DEF OwnedOnce, Distinct, In, InQueue

\* Steps that move no descriptor and open or close none.
LEMMA OwnedSame ==
  ASSUME OwnedOnce, UNCHANGED <<queue, task, mainFd>>,
         \A fd \in Fds : peer'[fd] = "free" <=> peer[fd] = "free"
  PROVE  OwnedOnce'
BY DEF OwnedOnce, InQueue, InHand

LEMMA OwnedDequeue ==
  ASSUME TypeInv, OwnedOnce, NEW w \in Workers, Dequeue(w), task[w] = NoFd
  PROVE  OwnedOnce'
<1> USE DEF TypeInv, TypeOK, Dequeue, mainVars, sockVars
<1>1. Head(queue) \in Fds  BY HeadTailProperties
<1>2. /\ In(queue, Head(queue)) /\ Distinct(queue')
      /\ \A x : In(queue', x) <=> In(queue, x) /\ x # Head(queue)
  BY OwnedQueue, TailMembers
<1>3. \A fd \in Fds : InHand(fd)' <=> InHand(fd) \/ fd = Head(queue)
  BY <1>1 DEF InHand
<1>4. \A v \in Workers \ {w} : task'[v] = task[v] /\ task[v] # Head(queue)
  BY <1>1, <1>2, OwnedQueue DEF InHand
<1>5. \A v, u \in Workers : task'[v] = task'[u] /\ task'[v] # NoFd => v = u
  BY <1>1, <1>4, OwnedQueue
<1>6. \A fd \in Fds : InQueue(fd)' <=> InQueue(fd) /\ fd # Head(queue)
  BY <1>2 DEF InQueue, In
<1>7. InQueue(Head(queue))  BY <1>2 DEF InQueue, In
<1>8. UNCHANGED <<mainFd, peer>>  OBVIOUS
<1>9. \A i, j \in DOMAIN queue' : queue'[i] = queue'[j] => i = j
  BY <1>2 DEF Distinct
<1> HIDE DEF TypeInv, Dequeue
<1> QED  BY <1>1, <1>3, <1>5, <1>6, <1>7, <1>8, <1>9 DEF OwnedOnce

LEMMA OwnedClose ==
  ASSUME TypeInv, OwnedOnce, NEW w \in Workers, CloseTask(w), task[w] \in Fds
  PROVE  OwnedOnce'
<1> USE DEF TypeInv, TypeOK, CloseTask, mainVars
<1>1. \A fd \in Fds : InHand(fd)' <=> InHand(fd) /\ fd # task[w]
  BY DEF InHand, OwnedOnce
<1>2. \A v, u \in Workers : task'[v] = task'[u] /\ task'[v] # NoFd => v = u
  BY DEF OwnedOnce
<1>3. InHand(task[w])  BY DEF InHand
<1> QED  BY <1>1, <1>2, <1>3 DEF OwnedOnce, InQueue

LEMMA OwnedRequeue ==
  ASSUME TypeInv, OwnedOnce, NEW w \in Workers, Requeue(w), task[w] \in Fds
  PROVE  OwnedOnce'
<1> USE DEF TypeInv, TypeOK, Requeue, mainVars, sockVars
<1>1. InHand(task[w])  BY DEF InHand
<1>2. /\ Distinct(queue')
      /\ \A x : In(queue', x) <=> In(queue, x) \/ x = task[w]
  BY <1>1, OwnedQueue, AppendMembers
<1>3. \A fd \in Fds : InHand(fd)' <=> InHand(fd) /\ fd # task[w]
  BY DEF InHand, OwnedOnce
<1>4. \A v, u \in Workers : task'[v] = task'[u] /\ task'[v] # NoFd => v = u
  BY DEF OwnedOnce
<1>5. \A fd \in Fds : InQueue(fd)' <=> InQueue(fd) \/ fd = task[w]
  BY <1>2 DEF InQueue, In
<1>6. UNCHANGED <<mainFd, peer>>  OBVIOUS
<1>7. \A i, j \in DOMAIN queue' : queue'[i] = queue'[j] => i = j
  BY <1>2 DEF Distinct
<1> HIDE DEF TypeInv, Requeue
<1> QED  BY <1>1, <1>3, <1>4, <1>5, <1>6, <1>7 DEF OwnedOnce

LEMMA OwnedMain == ASSUME TypeInv, OwnedOnce, Main PROVE OwnedOnce'
<1> USE DEF TypeInv, TypeOK, Holding, workerVars, sockVars, mainVars
<1>1. CASE MainAccept
  <2>1. PICK fd \in Fds : /\ peer[fd] = "free" /\ mainFd' = fd
                          /\ peer' = [peer EXCEPT ![fd] = "open"]
    BY <1>1 DEF MainAccept
  <2>2. mainFd = NoFd /\ UNCHANGED <<queue, task>>  BY <1>1 DEF MainAccept
  <2> QED  BY <2>1, <2>2 DEF OwnedOnce, InQueue, InHand
<1>2. CASE AcceptFails \/ InsertFails \/ MainSignal
  BY <1>2, OwnedSame DEF AcceptFails, InsertFails, MainSignal
<1>3. CASE MainInsert
  <2>1. mainFd \in Fds  BY <1>3 DEF MainInsert
  <2>2. /\ Distinct(queue')
        /\ \A x : In(queue', x) <=> In(queue, x) \/ x = mainFd
    BY <1>3, <2>1, OwnedQueue, AppendMembers DEF MainInsert
  <2>3. mainFd' = NoFd /\ UNCHANGED <<task, peer>>  BY <1>3 DEF MainInsert
  <2>4. \A fd \in Fds : InHand(fd)' <=> InHand(fd)  BY <2>3 DEF InHand
  <2>5. \A fd \in Fds : InQueue(fd)' <=> InQueue(fd) \/ fd = mainFd
    BY <2>2 DEF InQueue, In
  <2>6. \A i, j \in DOMAIN queue' : queue'[i] = queue'[j] => i = j
    BY <2>2 DEF Distinct
  <2> HIDE DEF TypeInv
  <2> QED  BY <2>1, <2>3, <2>4, <2>5, <2>6 DEF OwnedOnce
<1> QED  BY <1>1, <1>2, <1>3 DEF Main

LEMMA OwnedWorker ==
  ASSUME TypeInv, OwnedOnce, NEW w \in Workers, ThreadFunc(w) \/ Spurious(w)
  PROVE  OwnedOnce'
<1> USE DEF TypeInv, TypeOK, Holding, mainVars, workerVars, sockVars
<1>1. CASE Take(w) \/ TakeWoken(w)
  BY <1>1, OwnedDequeue DEF Take, TakeWoken
<1>2. CASE Wait(w) \/ Spurious(w) \/ TakeNothing(w) \/ SendPong(w) \/ SendBreaksPipe(w)
  BY <1>2, OwnedSame DEF Wait, Spurious, TakeNothing, SendPong, SendBreaksPipe
<1>3. CASE RecvData(w)
  BY <1>3, OwnedSame DEF RecvData
<1>4. CASE RecvEof(w) \/ RecvFails(w) \/ SendFails(w)
  BY <1>4, OwnedClose DEF RecvEof, RecvFails, SendFails
<1>5. CASE Requeue(w)
  BY <1>5, OwnedRequeue DEF Requeue
<1> QED  BY <1>1, <1>2, <1>3, <1>4, <1>5 DEF ThreadFunc

LEMMA OwnedInit == Init => OwnedOnce
  BY DEF Init, OwnedOnce, InQueue, InHand

LEMMA OwnedNext == TypeInv /\ OwnedOnce /\ [Next]_vars => OwnedOnce'
<1> SUFFICES ASSUME TypeInv, OwnedOnce, [Next]_vars PROVE OwnedOnce'  OBVIOUS
<1>1. CASE UNCHANGED vars  BY <1>1, OwnedSame DEF vars
<1>2. CASE Client
  BY <1>2, OwnedSame
  DEF Client, ClientSend, ClientLeave, mainVars, workerVars, TypeInv, TypeOK
<1> QED
  BY <1>1, <1>2, OwnedMain, OwnedWorker DEF Next, Ended

\* Every accepted descriptor is in exactly one place and every task is an
\* open descriptor: no connection is served twice at once, lost or closed
\* twice, for any number of workers and descriptors.
THEOREM OwnedOnceAlways == Spec => []OwnedOnce
  BY TypeInvariant, OwnedInit, OwnedNext, PTL DEF Spec

-----------------------------------------------------------------------------
(* Work conservation.  An action adds a queued task only together with an  *)
(* awake worker or a pending signal, and takes both away together.         *)

LEMMA LookingFinite == IsFiniteSet(Looking) /\ Cardinality(Looking) \in Nat
<1>1. Looking \subseteq Workers  BY DEF Looking
<1> QED  BY <1>1, WorkersAssumption, FS_Subset, FS_CardinalityType

\* A worker comes back to look at the queue.
LEMMA LookingMore ==
  ASSUME TypeInv, NEW w \in Workers, w \notin Looking,
         NEW p \in {"top", "woken"}, pc' = [pc EXCEPT ![w] = p]
  PROVE  Cardinality(Looking)' = Cardinality(Looking) + 1
<1>1. Looking' = Looking \cup {w}  BY DEF TypeInv, TypeOK, Looking
<1> QED  BY <1>1, LookingFinite, FS_AddElement

\* A worker leaves with a task.
LEMMA LookingLess ==
  ASSUME TypeInv, NEW w \in Looking, pc' = [pc EXCEPT ![w] = "recv"]
  PROVE  /\ Cardinality(Looking)' = Cardinality(Looking) - 1
         /\ Waiting' = Waiting
<1>1. Looking' = Looking \ {w}  BY DEF TypeInv, TypeOK, Looking
<1>2. Waiting' = Waiting  BY DEF TypeInv, TypeOK, Looking, Waiting
<1> QED  BY <1>1, <1>2, LookingFinite, FS_RemoveElement

LEMMA ConservingInit == Init => WorkConserving
<1> SUFFICES ASSUME Init PROVE WorkConserving  OBVIOUS
<1>1. Waiting = {}  BY DEF Init, Waiting
<1> QED  BY <1>1 DEF WorkConserving

LEMMA ConservingMain ==
  ASSUME TypeInv, WorkConserving, Main
  PROVE  WorkConserving'
<1> USE DEF TypeInv, TypeOK, mainVars, workerVars, sockVars
<1>1. CASE MainAccept \/ AcceptFails \/ InsertFails
  BY <1>1 DEF MainAccept, AcceptFails, InsertFails, WorkConserving, Waiting, Looking, Signalling
<1>2. CASE MainInsert
  <2>1. Len(queue') = Len(queue) + 1 /\ Len(queue) \in Nat
    BY <1>2 DEF MainInsert, Holding
  <2>2. Signalling = 0 /\ Signalling' = 1  BY <1>2 DEF MainInsert, Signalling
  <2>3. Waiting' = Waiting /\ Cardinality(Looking)' = Cardinality(Looking)
    BY <1>2 DEF MainInsert, Waiting, Looking
  <2> QED  BY <2>1, <2>2, <2>3, LookingFinite DEF WorkConserving
<1>3. CASE MainSignal
  <2>1. CASE Waiting = {} /\ pc' = pc
    BY <2>1 DEF WorkConserving, Waiting
  <2>2. ASSUME NEW w \in Waiting, pc' = [pc EXCEPT ![w] = "woken"]
        PROVE  WorkConserving'
    <3>1. w \in Workers /\ w \notin Looking /\ Waiting # {}  BY DEF Waiting, Looking
    <3>2. Cardinality(Looking)' = Cardinality(Looking) + 1  BY <2>2, <3>1, LookingMore
    <3>3. Signalling = 1 /\ Signalling' = 0 /\ queue' = queue
      BY <1>3 DEF MainSignal, Signalling
    <3> QED  BY <3>1, <3>2, <3>3, LookingFinite DEF WorkConserving
  <2> QED  BY <1>3, <2>1, <2>2 DEF MainSignal
<1> QED  BY <1>1, <1>2, <1>3 DEF Main

LEMMA ConservingDequeue ==
  ASSUME TypeInv, WorkConserving, NEW w \in Looking, Dequeue(w)
  PROVE  WorkConserving'
<1>1. Len(queue') = Len(queue) - 1 /\ Len(queue) \in Nat
  BY HeadTailProperties, LenProperties DEF TypeInv, TypeOK, Dequeue
<1>2. /\ Cardinality(Looking)' = Cardinality(Looking) - 1
      /\ Waiting' = Waiting
  BY LookingLess DEF Dequeue
<1>3. Signalling' = Signalling /\ Signalling \in {0, 1}
  BY DEF Dequeue, Signalling, mainVars
<1> QED  BY <1>1, <1>2, <1>3, LookingFinite DEF WorkConserving

\* A worker that comes back brings at most one task with it.
LEMMA ConservingBack ==
  ASSUME TypeInv, WorkConserving, NEW w \in Workers, pc[w] # "top", pc[w] # "woken",
         NEW p \in {"top", "woken"}, pc' = [pc EXCEPT ![w] = p],
         queue' \in Seq(Fds), Len(queue') <= Len(queue) + 1, mainPc' = mainPc
  PROVE  WorkConserving'
<1>1. Cardinality(Looking)' = Cardinality(Looking) + 1
  BY LookingMore DEF Looking
<1>2. Waiting' \subseteq Waiting
  BY DEF TypeInv, TypeOK, Waiting
<1>3. Signalling' = Signalling /\ Signalling \in {0, 1}  BY DEF Signalling
<1>4. Len(queue) \in Nat /\ Len(queue') \in Nat  BY LenProperties DEF TypeInv, TypeOK
<1> QED  BY <1>1, <1>2, <1>3, <1>4, LookingFinite DEF WorkConserving

\* A busy worker that stays busy.
LEMMA ConservingBusy ==
  ASSUME TypeInv, WorkConserving, NEW w \in Workers, pc[w] \in {"recv", "send"},
         NEW p \in {"send", "requeue"}, pc' = [pc EXCEPT ![w] = p],
         queue' = queue, mainPc' = mainPc
  PROVE  WorkConserving'
<1>1. Looking' = Looking /\ Waiting' = Waiting
  BY DEF TypeInv, TypeOK, Looking, Waiting
<1> QED  BY <1>1 DEF WorkConserving, Signalling

LEMMA ConservingWorker ==
  ASSUME TypeInv, WorkConserving, NEW w \in Workers, ThreadFunc(w) \/ Spurious(w)
  PROVE  WorkConserving'
<1> USE DEF mainVars, workerVars, sockVars
<1> queue \in Seq(Fds)  BY DEF TypeInv, TypeOK
<1>0. Len(queue) \in Nat  BY LenProperties
<1>1. CASE Take(w) \/ TakeWoken(w)
  BY <1>1, ConservingDequeue DEF Take, TakeWoken, Looking
<1>2. CASE Wait(w)
  <2>1. Len(queue') = 0  BY <1>2 DEF Wait
  <2>2. Signalling' \in {0, 1} /\ Cardinality(Looking)' \in Nat
    <3>1. Looking' \subseteq Workers  BY DEF Looking
    <3> QED  BY <3>1, WorkersAssumption, FS_Subset, FS_CardinalityType DEF Signalling
  <2> QED  BY <2>1, <2>2 DEF WorkConserving
<1>3. CASE Spurious(w)
  <2>1. /\ pc[w] # "top" /\ pc[w] # "woken" /\ pc' = [pc EXCEPT ![w] = "woken"]
        /\ queue' = queue /\ mainPc' = mainPc
    BY <1>3 DEF Spurious
  <2>2. queue' \in Seq(Fds) /\ Len(queue') <= Len(queue) + 1  BY <1>0, <2>1
  <2> QED  BY <2>1, <2>2, ConservingBack, Zenon
<1>4. CASE TakeNothing(w) \/ SendBreaksPipe(w)
  BY <1>4 DEF TakeNothing, SendBreaksPipe, WorkConserving, Waiting, Looking, Signalling
<1>5. CASE RecvData(w)
  <2>1. PICK p \in {"send", "requeue"} : pc' = [pc EXCEPT ![w] = p]
    BY <1>5 DEF RecvData
  <2> QED  BY <1>5, <2>1, ConservingBusy DEF RecvData
<1>6. CASE RecvEof(w) \/ RecvFails(w) \/ SendFails(w)
  BY <1>0, <1>6, ConservingBack DEF RecvEof, RecvFails, SendFails, CloseTask
<1>7. CASE SendPong(w)
  BY <1>7, ConservingBusy DEF SendPong
<1>8. CASE Requeue(w)
  <2>1. task[w] \in Fds
    BY <1>8 DEF Requeue, TypeInv, TypeOK, Holding
  <2>2. queue' \in Seq(Fds) /\ Len(queue') = Len(queue) + 1
    BY <1>8, <2>1 DEF Requeue
  <2>3. /\ pc[w] # "top" /\ pc[w] # "woken" /\ pc' = [pc EXCEPT ![w] = "top"]
        /\ mainPc' = mainPc
    BY <1>8 DEF Requeue
  <2>4. Len(queue') <= Len(queue) + 1  BY <1>0, <2>2
  <2> QED  BY <2>2, <2>3, <2>4, ConservingBack, Zenon
<1> QED
  BY <1>1, <1>2, <1>3, <1>4, <1>5, <1>6, <1>7, <1>8 DEF ThreadFunc

LEMMA ConservingNext == TypeInv /\ WorkConserving /\ [Next]_vars => WorkConserving'
<1> SUFFICES ASSUME TypeInv, WorkConserving, [Next]_vars PROVE WorkConserving'  OBVIOUS
<1>1. CASE UNCHANGED <<queue, pc, mainPc>>
  BY <1>1 DEF WorkConserving, Waiting, Looking, Signalling
<1>2. CASE Client
  BY <1>1, <1>2 DEF Client, ClientSend, ClientLeave, mainVars, workerVars
<1> QED
  BY <1>1, <1>2, ConservingMain, ConservingWorker DEF Next, Ended, vars

\* No wakeup is lost although re-enqueued connections signal nobody: while a
\* worker sleeps, every queued connection has its own awake worker or main's
\* pending signal, for any number of workers.
THEOREM WorkConservingAlways == Spec => []WorkConserving
  BY TypeInvariant, ConservingInit, ConservingNext, PTL DEF Spec
=============================================================================
