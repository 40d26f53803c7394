------------------------------ MODULE PongPool ------------------------------
(***************************************************************************)
(* The multithreaded pong server: a dispatcher that accepts connections    *)
(* and hands them, through a FIFO guarded by a mutex and a condition       *)
(* variable, to a fixed set of detached workers                            *)
(* (my_code/simple_multithreaded_tcp_client_server).                       *)
(*                                                                         *)
(* A critical section is one action: nothing inside one blocks except      *)
(* pthread_cond_wait, which splits thread_func's section in two (Take or   *)
(* Wait before it, TakeWoken after it).  A task is the heap copy of one    *)
(* descriptor, so it is represented by the descriptor.                     *)
(***************************************************************************)
EXTENDS Naturals, Sequences, FiniteSets

CONSTANTS
    Workers,          \* the threads create_threads starts (4 in main)
    Fds,              \* descriptor numbers accept can return
    NoFd,             \* "no descriptor" (accept's -1, no task in hand)
    MaxPending,       \* messages of a client that wait in the socket
    SpuriousWakeups   \* whether pthread_cond_wait may return unsignalled

ASSUME WorkersAssumption == IsFiniteSet(Workers) /\ Workers # {}
ASSUME NoFdAssumption == NoFd \notin Fds
ASSUME MaxPendingAssumption == MaxPending \in Nat \ {0}
ASSUME SpuriousAssumption == SpuriousWakeups \in BOOLEAN

VARIABLES
    mainPc,   \* where the dispatcher is: "accept", "insert" or "signal"
    mainFd,   \* its new_fd
    queue,    \* task_queue, head first
    pc,       \* where each worker is
    task,     \* each worker's current_task
    peer,     \* a descriptor: "free", or what its peer did last
    rx,       \* messages received by the kernel and not yet by recv
    owed,     \* the peer sent a ping and has had no pong since
    status    \* "running", or how the process ended

mainVars == <<mainPc, mainFd>>
workerVars == <<pc, task>>
sockVars == <<peer, rx, owed>>
vars == <<mainPc, mainFd, queue, pc, task, peer, rx, owed, status>>

Message == {"ping", "text"}
Running == status = "running"

Init ==
    /\ mainPc = "accept" /\ mainFd = NoFd
    /\ queue = <<>>
    /\ pc = [w \in Workers |-> "top"]
    /\ task = [w \in Workers |-> NoFd]
    /\ peer = [fd \in Fds |-> "free"]
    /\ rx = [fd \in Fds |-> <<>>]
    /\ owed = [fd \in Fds |-> FALSE]
    /\ status = "running"

-----------------------------------------------------------------------------
(* The clients.  They connect when accept says so, and owe nothing.        *)

ClientSend(fd, m) ==
    /\ peer[fd] = "open"
    /\ Len(rx[fd]) < MaxPending
    /\ rx' = [rx EXCEPT ![fd] = Append(@, m)]
    /\ owed' = [owed EXCEPT ![fd] = @ \/ m = "ping"]
    /\ UNCHANGED <<mainVars, queue, workerVars, peer, status>>

\* FIN after the last message, or a reset: pending data may still be read.
ClientLeave(fd) ==
    /\ \E how \in {"shut", "reset"} :
          /\ \/ peer[fd] = "open"
             \/ peer[fd] = "shut" /\ how = "reset"
          /\ peer' = [peer EXCEPT ![fd] = how]
    /\ UNCHANGED <<mainVars, queue, workerVars, rx, owed, status>>

Client == Running /\ \E fd \in Fds : ClientLeave(fd) \/ \E m \in Message : ClientSend(fd, m)

-----------------------------------------------------------------------------
(* The dispatcher: main's loop.                                            *)

MainAccept ==
    /\ mainPc = "accept"
    /\ \E fd \in Fds :
          /\ peer[fd] = "free"
          /\ mainFd' = fd
          /\ peer' = [peer EXCEPT ![fd] = "open"]
    /\ mainPc' = "insert"
    /\ UNCHANGED <<queue, workerVars, rx, owed, status>>

\* (Slip: accept's result goes to insert_task unchecked.)
AcceptFailsUnchecked ==
    /\ mainPc = "accept"
    /\ mainPc' = "insert"
    /\ UNCHANGED <<mainFd, queue, workerVars, sockVars, status>>

\* accept returns -1, for want of descriptors or because the peer gave up.
AcceptFails ==
    /\ mainPc = "accept"
    /\ status' = "exited"
    /\ UNCHANGED <<mainVars, queue, workerVars, sockVars>>

MainInsert ==
    /\ mainPc = "insert"
    /\ queue' = Append(queue, mainFd)
    /\ mainPc' = "signal" /\ mainFd' = NoFd
    /\ UNCHANGED <<workerVars, sockVars, status>>

\* malloc fails: insert_task returns with the mutex held and main exits.
InsertFails ==
    /\ mainPc = "insert"
    /\ status' = "exited"
    /\ UNCHANGED <<mainVars, queue, workerVars, sockVars>>

Waiting == {w \in Workers : pc[w] = "waiting"}

\* (Slip: main forgets wakeup_threads.)
MainSignalNobody ==
    /\ mainPc = "signal"
    /\ mainPc' = "accept"
    /\ UNCHANGED <<mainFd, queue, workerVars, sockVars, status>>

\* pthread_cond_signal: one waiter has to come back for the mutex.
MainSignal ==
    /\ mainPc = "signal"
    /\ \/ Waiting = {} /\ pc' = pc
       \/ \E w \in Waiting : pc' = [pc EXCEPT ![w] = "woken"]
    /\ mainPc' = "accept"
    /\ UNCHANGED <<mainFd, queue, task, sockVars, status>>

Main == Running /\ (MainAccept \/ AcceptFails \/ MainInsert \/ InsertFails \/ MainSignal)

-----------------------------------------------------------------------------
(* A worker: thread_func.                                                  *)

Dequeue(w) ==
    /\ queue # <<>>
    /\ task' = [task EXCEPT ![w] = Head(queue)]
    /\ queue' = Tail(queue)
    /\ pc' = [pc EXCEPT ![w] = "recv"]
    /\ UNCHANGED <<mainVars, sockVars, status>>

Take(w) == pc[w] = "top" /\ Dequeue(w)

Wait(w) ==
    /\ pc[w] = "top"
    /\ queue = <<>>
    /\ pc' = [pc EXCEPT ![w] = "waiting"]
    /\ UNCHANGED <<mainVars, queue, task, sockVars, status>>

Spurious(w) ==
    /\ SpuriousWakeups
    /\ pc[w] = "waiting"
    /\ pc' = [pc EXCEPT ![w] = "woken"]
    /\ UNCHANGED <<mainVars, queue, task, sockVars, status>>

\* The emptiness test is an if: a woken thread goes on without a new look.
TakeWoken(w) == pc[w] = "woken" /\ Dequeue(w)

\* STAILQ_REMOVE_HEAD reads through the null first element.
TakeNothing(w) ==
    /\ pc[w] = "woken"
    /\ queue = <<>>
    /\ status' = "segv"
    /\ UNCHANGED <<mainVars, queue, workerVars, sockVars>>

\* (Slip: the continue after close is missing, so the task is re-enqueued.)
CloseTaskAndGoOn(w) ==
    /\ peer' = [peer EXCEPT ![task[w]] = "free"]
    /\ rx' = [rx EXCEPT ![task[w]] = <<>>]
    /\ owed' = [owed EXCEPT ![task[w]] = FALSE]
    /\ pc' = [pc EXCEPT ![w] = "requeue"]
    /\ UNCHANGED <<mainVars, queue, task, status>>

\* shutdown, close, free, continue.
CloseTask(w) ==
    /\ peer' = [peer EXCEPT ![task[w]] = "free"]
    /\ rx' = [rx EXCEPT ![task[w]] = <<>>]
    /\ owed' = [owed EXCEPT ![task[w]] = FALSE]
    /\ pc' = [pc EXCEPT ![w] = "top"]
    /\ task' = [task EXCEPT ![w] = NoFd]
    /\ UNCHANGED <<mainVars, queue, status>>

\* (Slip: only the start of the buffer is compared.)
HasPingFirst(got) == got[1] = "ping"

\* strstr(buffer, "ping") on what one recv returned.
HasPing(got) == \E i \in DOMAIN got : got[i] = "ping"

\* One recv returns some of the pending messages, in order.
RecvData(w) ==
    /\ pc[w] = "recv"
    /\ \E n \in 1..Len(rx[task[w]]) :
          /\ rx' = [rx EXCEPT ![task[w]] = SubSeq(@, n + 1, Len(@))]
          /\ pc' = [pc EXCEPT ![w] =
                IF HasPing(SubSeq(rx[task[w]], 1, n)) THEN "send" ELSE "requeue"]
    /\ UNCHANGED <<mainVars, queue, task, peer, owed, status>>

RecvEof(w) ==
    /\ pc[w] = "recv"
    /\ rx[task[w]] = <<>>
    /\ peer[task[w]] = "shut"
    /\ CloseTask(w)

\* (Slip: no receive timeout is set.)
RecvFailsOnReset(w) ==
    /\ pc[w] = "recv"
    /\ peer[task[w]] = "reset"
    /\ CloseTask(w)

\* A reset, or nothing came within SO_RCVTIMEO.
RecvFails(w) ==
    /\ pc[w] = "recv"
    /\ \/ peer[task[w]] = "reset"
       \/ peer[task[w]] = "open" /\ rx[task[w]] = <<>>
    /\ CloseTask(w)

SendPong(w) ==
    /\ pc[w] = "send"
    /\ peer[task[w]] # "reset"
    /\ owed' = [owed EXCEPT ![task[w]] = FALSE]
    /\ pc' = [pc EXCEPT ![w] = "requeue"]
    /\ UNCHANGED <<mainVars, queue, task, peer, rx, status>>

\* A reset, or the peer left no room within SO_SNDTIMEO.
SendFails(w) == pc[w] = "send" /\ CloseTask(w)

\* send has no MSG_NOSIGNAL: on a broken connection SIGPIPE ends the process.
SendBreaksPipe(w) ==
    /\ pc[w] = "send"
    /\ peer[task[w]] = "reset"
    /\ status' = "sigpipe"
    /\ UNCHANGED <<mainVars, queue, workerVars, sockVars>>

\* The connection goes to the tail of the queue, and nobody is signalled.
Requeue(w) ==
    /\ pc[w] = "requeue"
    /\ queue' = Append(queue, task[w])
    /\ task' = [task EXCEPT ![w] = NoFd]
    /\ pc' = [pc EXCEPT ![w] = "top"]
    /\ UNCHANGED <<mainVars, sockVars, status>>

ThreadFunc(w) ==
    /\ Running
    /\ \/ Take(w) \/ Wait(w) \/ TakeWoken(w) \/ TakeNothing(w)
       \/ RecvData(w) \/ RecvEof(w) \/ RecvFails(w)
       \/ SendPong(w) \/ SendFails(w) \/ SendBreaksPipe(w)
       \/ Requeue(w)

-----------------------------------------------------------------------------
(* The process is gone; the specification goes on without it.              *)
Ended == ~Running /\ UNCHANGED vars

Next ==
    \/ Client
    \/ Main
    \/ \E w \in Workers : ThreadFunc(w) \/ (Running /\ Spurious(w))
    \/ Ended

\* The scheduler runs every thread and the mutex starves nobody; recv and
\* send come back within their timeouts.  Nothing makes a client act.
Fairness ==
    /\ WF_vars(Running /\ (MainInsert \/ MainSignal))
    /\ \A w \in Workers : WF_vars(ThreadFunc(w))

Spec == Init /\ [][Next]_vars
FairSpec == Spec /\ Fairness

-----------------------------------------------------------------------------
(* What the server promises.                                               *)

\* The shape of the state: task_queue holds accepted descriptors only (main
\* exits before a failed accept's -1 can reach insert_task).
TypeOK ==
    /\ mainPc \in {"accept", "insert", "signal"}
    /\ mainFd \in Fds \cup {NoFd}
    /\ queue \in Seq(Fds)
    /\ pc \in [Workers -> {"top", "waiting", "woken", "recv", "send", "requeue"}]
    /\ task \in [Workers -> Fds \cup {NoFd}]
    /\ peer \in [Fds -> {"free", "open", "shut", "reset"}]
    /\ rx \in [Fds -> Seq(Message)]
    /\ owed \in [Fds -> BOOLEAN]
    /\ status \in {"running", "segv", "sigpipe", "exited"}

InQueue(fd) == \E i \in DOMAIN queue : queue[i] = fd
InHand(fd) == \E w \in Workers : task[w] = fd

\* Every open descriptor is in exactly one place (main's hand, one cell of
\* the queue, one worker's hand) and every task is an open descriptor, even
\* though accept reuses numbers: no connection is served by two threads at
\* once, forgotten, used after close or closed twice.
OwnedOnce ==
    /\ \A i, j \in DOMAIN queue : queue[i] = queue[j] => i = j
    /\ \A w, v \in Workers : task[w] = task[v] /\ task[w] # NoFd => w = v
    /\ \A fd \in Fds :
          /\ peer[fd] # "free" <=> (mainFd = fd \/ InQueue(fd) \/ InHand(fd))
          /\ ~ (mainFd = fd /\ InQueue(fd))
          /\ ~ (mainFd = fd /\ InHand(fd))
          /\ ~ (InQueue(fd) /\ InHand(fd))

Signalling == IF mainPc = "signal" THEN 1 ELSE 0
Looking == {w \in Workers : pc[w] \in {"top", "woken"}}

\* While a worker sleeps, every queued connection has an awake worker, or
\* main's pending signal, of its own, although Requeue signals nobody: a
\* queued connection never waits behind a busy worker with an idle one left.
WorkConserving == Waiting # {} => Len(queue) <= Cardinality(Looking) + Signalling

\* A worker that wakes finds a task (server_thread.h 23-45: the signal
\* "wakes the thread", and the thread dereferences the queue's first task).
NeverTakesNothing == status # "segv"

\* A queued connection is taken from the queue again: tail insertion makes
\* the server fair between the connections it juggles.
QueuedTaken == \A fd \in Fds : InQueue(fd) ~> (~Running \/ ~InQueue(fd))

\* A client that sent a ping gets a pong or loses the connection, also when
\* the ping shares a recv with other messages or waits behind them.
PingAnswered == \A fd \in Fds : owed[fd] ~> (~Running \/ ~owed[fd])

\* A silent connection does not stay open for ever: "If a connection is
\* inactive or stale for too long, it is closed" (pong_server.c 10).
IdleClosed == \A fd \in Fds : []<>(~Running \/ peer[fd] = "free" \/ rx[fd] # <<>>)
=============================================================================
