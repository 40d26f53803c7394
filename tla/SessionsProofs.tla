---------------------------- MODULE SessionsProofs ----------------------------
(***************************************************************************)
(* The smaller client and server pairs, for every value of the constants.  *)
(* Each handler of the command servers has an open connection of its own,  *)
(* and no connected client is without one.  A command client is shown the  *)
(* answer to what it asked while nothing arrives in two parts, a UDP       *)
(* client while nothing is duplicated.                                     *)
(***************************************************************************)
EXTENDS MCSessions, TLAPS

-----------------------------------------------------------------------------
(* The command servers.                                                    *)

Steps == {"none", "recv", "answer", "parting", "bye"}

Shape ==
    /\ pc \in {"accept", "spawn", "serve"}
    /\ cell \in [Handlers -> Fds \cup {NoFd}]
    /\ hpc \in [Handlers -> Steps]
    /\ kern \in [Fds -> {"free", "open", "shut", "reset"}]
    /\ pc = "spawn" => sock_client \in Fds

IInv == Shape /\ OneHandlerEach /\ NobodyForgotten

LEMMA FirstHandler == ASSUME NEW f \in Fds PROVE 1 \in Handlers
  BY BoundsAssumption DEF Fds, Handlers

LEMMA InvInit == Init => IInv
<1> SUFFICES ASSUME Init PROVE IInv  OBVIOUS
<1>1. Shape  BY DEF Init, KernInit, Shape, Steps
<1>2. OneHandlerEach  BY DEF Init, KernInit, OneHandlerEach, Live
<1>3. NobodyForgotten  BY DEF Init, KernInit, NobodyForgotten
<1> QED  BY <1>1, <1>2, <1>3 DEF IInv

\* What a handler works on stays; a client may have left.
LEMMA InvSame ==
  ASSUME IInv, UNCHANGED <<mode, pc, sock_client, cell>>,
         unserved' = unserved,
         hpc' \in [Handlers -> Steps],
         \A h \in Handlers : hpc'[h] = "none" <=> hpc[h] = "none",
         kern' \in [Fds -> {"free", "open", "shut", "reset"}],
         \A f \in Fds : kern'[f] = "free" <=> kern[f] = "free",
         \A f \in Fds : kern[f] \in {"shut", "reset"} => kern'[f] \in {"shut", "reset"}
  PROVE  IInv'
<1>1. Live' = Live /\ \A h \in Handlers : FdOf(h)' = FdOf(h)  BY DEF Live, FdOf
<1>2. Shape'  BY DEF IInv, Shape
<1>3. OneHandlerEach'
  <2>1. \A g, h \in Live' : FdOf(g)' = FdOf(h)' => g = h
    BY <1>1 DEF IInv, OneHandlerEach, Live
  <2>2. \A h \in Live' : FdOf(h)' \in Fds /\ kern'[FdOf(h)'] # "free"
    BY <1>1 DEF IInv, OneHandlerEach, Live
  <2>3. pc' = "spawn" => kern'[sock_client'] # "free" /\ \A h \in Live' : FdOf(h)' # sock_client'
    BY <1>1 DEF IInv, OneHandlerEach, Live, Shape
  <2> QED  BY <2>1, <2>2, <2>3 DEF OneHandlerEach
<1>4. \A f \in Fds : Attended(f) => Attended(f)'
  BY <1>1 DEF Attended, Live
<1>5. NobodyForgotten'  BY <1>4 DEF IInv, NobodyForgotten
<1> QED  BY <1>2, <1>3, <1>5 DEF IInv

LEMMA InvClient == ASSUME IInv, Client PROVE IInv'
<1>1. UNCHANGED <<mode, pc, sock_client, cell, hpc, unserved>>  BY DEF Client
<1>2. CASE UNCHANGED kern  BY <1>1, <1>2, InvSame DEF IInv, Shape
<1>3. ASSUME NEW f \in Fds, NEW how \in {"shut", "reset"}, ClientLeave(f, how) PROVE IInv'
  <2>1. kern[f] # "free" /\ kern' = [kern EXCEPT ![f] = how]
    BY <1>3 DEF ClientLeave
  <2>2. kern' \in [Fds -> {"free", "open", "shut", "reset"}]  BY <2>1 DEF IInv, Shape
  <2>3. \A g \in Fds : /\ kern'[g] = "free" <=> kern[g] = "free"
                       /\ kern[g] \in {"shut", "reset"} => kern'[g] \in {"shut", "reset"}
    BY <2>1 DEF IInv, Shape
  <2> QED  BY <1>1, <2>2, <2>3, InvSame DEF IInv, Shape
<1> QED  BY <1>2, <1>3 DEF Client, ClientConnect, ClientSend, ClientReads, kernVars

\* A connection that nobody works on gets the handler h.
LEMMA StartAgrees ==
  ASSUME IInv, NEW h \in Handlers, NEW f \in Fds, Start(h, f),
         \A g \in Live : FdOf(g) # f,
         kern' \in [Fds -> {"free", "open", "shut", "reset"}],
         kern'[f] # "free", \A g \in Fds \ {f} : kern'[g] = kern[g],
         pc = "accept" \/ sock_client = f,
         pc' \in {"accept", "serve"}, UNCHANGED <<mode, unserved>>
  PROVE  IInv'
<1>1. /\ hpc[h] = "none"
      /\ cell' = [cell EXCEPT ![h] = f] /\ hpc' = [hpc EXCEPT ![h] = "recv"]
  BY DEF Start
<1>2. Shape'  BY <1>1 DEF IInv, Shape, Steps
<1>3. h \notin Live /\ Live' = Live \cup {h}  BY <1>1 DEF Live, IInv, Shape
<1>4. FdOf(h)' = f /\ \A g \in Live : FdOf(g)' = FdOf(g)
  BY <1>1, <1>3 DEF FdOf, IInv, Shape, Live
<1>5. OneHandlerEach'
  <2>1. \A g, k \in Live' : FdOf(g)' = FdOf(k)' => g = k
    BY <1>3, <1>4 DEF IInv, OneHandlerEach
  <2>2. \A g \in Live' : FdOf(g)' \in Fds /\ kern'[FdOf(g)'] # "free"
    BY <1>3, <1>4 DEF IInv, OneHandlerEach
  <2> QED  BY <2>1, <2>2 DEF OneHandlerEach
<1>6. \A g \in Fds \ {f} : Attended(g) => Attended(g)'
  BY <1>3, <1>4 DEF Attended
<1>7. Attended(f)'  BY <1>3, <1>4 DEF Attended
<1>8. NobodyForgotten'  BY <1>6, <1>7 DEF IInv, NobodyForgotten
<1> QED  BY <1>2, <1>5, <1>8 DEF IInv

LEMMA InvAccept == ASSUME IInv, Accept PROVE IInv'
<1>1. PICK f \in Fds : /\ Accepted(f) /\ sock_client' = f
                       /\ IF mode = "threaded"
                          THEN pc' = "spawn" /\ UNCHANGED <<cell, hpc>>
                          ELSE pc' = "serve" /\ Start(1, f)
  BY DEF Accept
<1>2. pc = "accept" /\ UNCHANGED <<mode, unserved>>  BY DEF Accept
<1>3. kern[f] = "free" /\ kern' = [kern EXCEPT ![f] = "open"]
  BY <1>1 DEF Accepted, IsNewFd
<1>4. /\ kern' \in [Fds -> {"free", "open", "shut", "reset"}]
      /\ kern'[f] # "free" /\ \A g \in Fds \ {f} : kern'[g] = kern[g]
  BY <1>3 DEF IInv, Shape
<1>5. \A g \in Live : FdOf(g) # f  BY <1>3 DEF IInv, OneHandlerEach
<1>6. CASE mode # "threaded"
  BY <1>1, <1>2, <1>4, <1>5, <1>6, FirstHandler, StartAgrees
<1>7. CASE mode = "threaded"
  <2>1. pc' = "spawn" /\ sock_client' = f /\ UNCHANGED <<cell, hpc>>  BY <1>1, <1>7
  <2>2. Shape'  BY <1>4, <2>1 DEF IInv, Shape
  <2>3. Live' = Live /\ \A g \in Handlers : FdOf(g)' = FdOf(g)  BY <2>1 DEF Live, FdOf
  <2>4. OneHandlerEach'
    <3>1. \A g, h \in Live' : FdOf(g)' = FdOf(h)' => g = h
      BY <2>3 DEF IInv, OneHandlerEach, Live
    <3>2. \A h \in Live' : FdOf(h)' \in Fds /\ kern'[FdOf(h)'] # "free"
      BY <1>4, <2>3 DEF IInv, OneHandlerEach, Live
    <3>3. \A h \in Live' : FdOf(h)' # sock_client'
      BY <1>5, <2>1, <2>3 DEF Live
    <3> QED  BY <1>4, <2>1, <3>1, <3>2, <3>3 DEF OneHandlerEach
  <2>5. \A g \in Fds \ {f} : Attended(g) => Attended(g)'
    BY <1>2, <2>3 DEF Attended, Live
  <2>6. Attended(f)'  BY <2>1 DEF Attended
  <2>7. NobodyForgotten'  BY <1>2, <1>4, <2>5, <2>6 DEF IInv, NobodyForgotten
  <2> QED  BY <2>2, <2>4, <2>7 DEF IInv
<1> QED  BY <1>6, <1>7

LEMMA InvSpawn == ASSUME IInv, Spawn PROVE IInv'
<1>1. /\ pc = "spawn" /\ pc' = "accept"
      /\ UNCHANGED <<mode, sock_client, unserved, kern>>
  BY DEF Spawn, kernVars
<1>2. PICK h \in Handlers : Start(h, sock_client)  BY DEF Spawn
<1>3. /\ sock_client \in Fds /\ kern[sock_client] # "free"
      /\ \A g \in Live : FdOf(g) # sock_client
  BY <1>1 DEF IInv, Shape, OneHandlerEach
<1>4. kern' \in [Fds -> {"free", "open", "shut", "reset"}]  BY <1>1 DEF IInv, Shape
<1> QED  BY <1>1, <1>2, <1>3, <1>4, StartAgrees

\* A step of the accept loop that starts nobody.
LEMMA InvLoop == ASSUME IInv, SpawnFails \/ Return PROVE IInv'
<1>1. pc # "accept" /\ pc' = "accept" /\ UNCHANGED <<mode, sock_client, cell, hpc, kern>>
  BY DEF SpawnFails, Return, kernVars
<1>2. Shape'  BY <1>1 DEF IInv, Shape
<1>3. Live' = Live /\ \A g \in Handlers : FdOf(g)' = FdOf(g)  BY <1>1 DEF Live, FdOf
<1>4. OneHandlerEach'
  BY <1>1, <1>3 DEF IInv, OneHandlerEach, Live
<1>5. \A f \in Fds : Attended(f) => Attended(f)' \/ f \in unserved'
  <2>1. pc = "spawn" => sock_client \in unserved'  BY DEF SpawnFails, Return
  <2> QED  BY <1>3, <2>1 DEF Attended, Live
<1>6. unserved \subseteq unserved'  BY DEF SpawnFails, Return
<1>7. NobodyForgotten'  BY <1>1, <1>5, <1>6 DEF IInv, NobodyForgotten
<1> QED  BY <1>2, <1>4, <1>7 DEF IInv

\* A handler ends: its connection is closed, or its client had left.
LEMMA EndAgrees ==
  ASSUME IInv, NEW h \in Live,
         hpc' = [hpc EXCEPT ![h] = "none"], cell' = [cell EXCEPT ![h] = NoFd],
         UNCHANGED <<mode, pc, sock_client, unserved>>,
         \/ kern' = [kern EXCEPT ![FdOf(h)] = "free"]
         \/ kern' = kern /\ mode # "pong" /\ kern[FdOf(h)] \in {"shut", "reset"}
  PROVE  IInv'
<1> DEFINE f == FdOf(h)
<1>1. h \in Handlers /\ f \in Fds  BY DEF Live, IInv, OneHandlerEach
<1>2. /\ kern' \in [Fds -> {"free", "open", "shut", "reset"}]
      /\ \A g \in Fds \ {f} : kern'[g] = kern[g]
  BY <1>1 DEF IInv, Shape
<1>3. kern'[f] = "free" \/ (mode # "pong" /\ kern'[f] \in {"shut", "reset"})
  BY <1>1 DEF IInv, Shape
<1>4. Live' = Live \ {h} /\ \A g \in Live' : FdOf(g)' = FdOf(g)
  BY <1>1 DEF Live, FdOf, IInv, Shape
<1>5. \A g \in Live' : FdOf(g) \in Fds \ {f}
  BY <1>4 DEF IInv, OneHandlerEach
<1>6. Shape'  BY <1>1, <1>2 DEF IInv, Shape, Steps
<1>7. OneHandlerEach'
  <2>1. \A g, k \in Live' : FdOf(g)' = FdOf(k)' => g = k
    BY <1>4 DEF IInv, OneHandlerEach
  <2>2. \A g \in Live' : FdOf(g)' \in Fds /\ kern'[FdOf(g)'] # "free"
    BY <1>2, <1>4, <1>5 DEF IInv, OneHandlerEach
  <2>3. pc = "spawn" => sock_client \in Fds \ {f} /\ kern[sock_client] # "free"
    BY DEF IInv, OneHandlerEach, Shape
  <2>4. pc' = "spawn" => kern'[sock_client'] # "free" /\ \A g \in Live' : FdOf(g)' # sock_client'
    BY <1>2, <1>4, <2>3 DEF IInv, OneHandlerEach
  <2> QED  BY <2>1, <2>2, <2>4 DEF OneHandlerEach
<1>8. \A g \in Fds \ {f} : Attended(g) => Attended(g)'
  BY <1>4 DEF Attended
<1> HIDE DEF f
<1>9. NobodyForgotten'  BY <1>2, <1>3, <1>8 DEF IInv, NobodyForgotten
<1> QED  BY <1>6, <1>7, <1>9 DEF IInv

LEMMA InvHandler == ASSUME IInv, NEW h \in Handlers, Handler(h) PROVE IInv'
<1>1. ASSUME UNCHANGED <<mode, pc, sock_client, cell, unserved, kern>>,
             h \in Live,
             \/ hpc' = hpc
             \/ \E step \in Steps \ {"none"} : hpc' = [hpc EXCEPT ![h] = step]
      PROVE  IInv'
  <2>1. /\ hpc' \in [Handlers -> Steps]
        /\ \A g \in Handlers : hpc'[g] = "none" <=> hpc[g] = "none"
    BY <1>1 DEF IInv, Shape, Live
  <2> QED  BY <1>1, <2>1, InvSame DEF IInv, Shape
<1>2. CASE Receive(h) \/ Send(h) \/ SendFails(h) \/ (PeerGone(h) /\ mode = "pong")
  <2>1. h \in Live
    BY <1>2 DEF Receive, Send, SendFails, Sending, PeerGone, SeesEnd, Live
  <2>2. UNCHANGED <<mode, pc, sock_client, cell, unserved, kern>>
    BY <1>2 DEF Receive, Send, SendFails, PeerGone, Consume, kernVars
  <2>3. CASE Receive(h)  BY <1>1, <2>1, <2>2, <2>3 DEF Receive, Steps
  <2>4. CASE Send(h) \/ SendFails(h)
    <3>1. hpc' = hpc \/ hpc' = AfterSend(h)  BY <2>4 DEF Send, SendFails
    <3> QED  BY <1>1, <2>1, <2>2, <3>1 DEF AfterSend, Steps
  <2>5. CASE PeerGone(h) /\ mode = "pong"  BY <1>1, <2>1, <2>2, <2>5 DEF PeerGone, Steps
  <2> QED  BY <1>2, <2>3, <2>4, <2>5
<1>3. CASE Close(h)
  <2>1. /\ h \in Live /\ kern' = [kern EXCEPT ![FdOf(h)] = "free"]
        /\ hpc' = [hpc EXCEPT ![h] = "none"] /\ cell' = [cell EXCEPT ![h] = NoFd]
        /\ UNCHANGED <<mode, pc, sock_client, unserved>>
    BY <1>3 DEF Close, Closed, Live
  <2> QED  BY <2>1, EndAgrees
<1>4. CASE PeerGone(h) /\ mode # "pong"
  <2>1. /\ h \in Live /\ kern' = kern /\ kern[FdOf(h)] \in {"shut", "reset"}
        /\ hpc' = [hpc EXCEPT ![h] = "none"] /\ cell' = [cell EXCEPT ![h] = NoFd]
        /\ UNCHANGED <<mode, pc, sock_client, unserved>>
    BY <1>4 DEF PeerGone, SeesEnd, Live, kernVars
  <2> QED  BY <1>4, <2>1, EndAgrees
<1> QED  BY <1>2, <1>3, <1>4 DEF Handler

LEMMA InvNext == IInv /\ [Next]_vars => IInv'
<1> SUFFICES ASSUME IInv, [Next]_vars PROVE IInv'  OBVIOUS
<1>1. CASE UNCHANGED vars \/ AcceptFails \/ CallocFails
  <2>1. UNCHANGED <<mode, pc, sock_client, cell, hpc, unserved, kern>>
    BY <1>1 DEF vars, AcceptFails, CallocFails, Aborted, kernVars
  <2> QED  BY <2>1, InvSame DEF IInv, Shape
<1>2. CASE AcceptLoop
  BY <1>1, <1>2, InvAccept, InvSpawn, InvLoop DEF AcceptLoop
<1> QED  BY <1>1, <1>2, InvClient, InvHandler DEF Next, Ended

LEMMA InvAlways == Spec => []IInv
  BY InvInit, InvNext, PTL DEF Spec

\* Two handlers never share a descriptor, and none uses one that is closed,
\* although accept hands numbers out again while threads still run.
THEOREM AlwaysOneHandlerEach == Spec => []OneHandlerEach
<1>1. IInv => OneHandlerEach  BY DEF IInv
<1> QED  BY <1>1, InvAlways, PTL

\* A connected client has a handler, unless its thread was not created.
THEOREM AlwaysNobodyForgotten == Spec => []NobodyForgotten
<1>1. IInv => NobodyForgotten  BY DEF IInv
<1> QED  BY <1>1, InvAlways, PTL

-----------------------------------------------------------------------------
(* One command client and its server.                                      *)

\* Request and answer alternate: at most one part is on its way, the last
\* request's or its answer's, and the client waits for it.  Nothing is on its
\* way while it types, or when it waits for the answer to an empty line.
Alternates ==
    \/ client = "typing" /\ up = <<>> /\ down = <<>> /\ shown = asked
    \/ client = "waiting" /\ up = <<>> /\ down = <<>>
    \/ client = "waiting" /\ down = <<>> /\ \E of \in Session!Lines : up = <<Session!Item(asked, of, TRUE)>>
    \/ client = "waiting" /\ up = <<>> /\ down = <<Session!Item(asked, "answer", TRUE)>>
    \/ client \in {"done", "killed"}

SessionInv == server = "serving" /\ ~split => Alternates

LEMMA SessionInit == Session!Init => SessionInv
  BY DEF Session!Init, SessionInv, Alternates

\* What one send puts on an empty way, unless it is split.
LEMMA WritesOne ==
  ASSUME NEW no, NEW of, ~split'
  PROVE  /\ up = <<>> /\ Session!Writes(up, no, of) => up' = <<Session!Item(no, of, TRUE)>>
         /\ down = <<>> /\ Session!Writes(down, no, of) => down' = <<Session!Item(no, of, TRUE)>>
<1>1. Append(<<>>, Session!Item(no, of, TRUE)) = <<Session!Item(no, of, TRUE)>>
  OBVIOUS
<1>2. up = <<>> /\ Session!Writes(up, no, of) => up' = <<Session!Item(no, of, TRUE)>>
  BY <1>1 DEF Session!Writes
<1>3. down = <<>> /\ Session!Writes(down, no, of) => down' = <<Session!Item(no, of, TRUE)>>
  BY <1>1 DEF Session!Writes
<1> QED  BY <1>2, <1>3

\* A recv takes the only part there is.
LEMMA TakesOne ==
  ASSUME NEW x, NEW n \in 1..Len(<<x>>)
  PROVE  n = 1 /\ SubSeq(<<x>>, n + 1, Len(<<x>>)) = <<>>
<1>1. Len(<<x>>) = 1  OBVIOUS
<1>2. n = 1  BY <1>1
<1>3. <<x>> \in Seq({x})  OBVIOUS
<1>4. SubSeq(<<x>>, 2, 1) = <<>>  BY <1>3
<1> QED  BY <1>1, <1>2, <1>4

LEMMA SessionClient == ASSUME SessionInv, Session!Client PROVE SessionInv'
<1> SUFFICES ASSUME server' = "serving", ~split' PROVE Alternates'  BY DEF SessionInv
<1>1. ASSUME NEW l, Session!LeaveUnsent(l) \/ Session!AskKills(l) PROVE Alternates'
  BY <1>1 DEF Session!LeaveUnsent, Session!AskKills, Alternates
<1>2. ASSUME NEW l, Session!WaitForNothing(l) PROVE Alternates'
  <2>1. client = "typing" /\ client' = "waiting" /\ UNCHANGED <<up, down, server, split>>
    BY <1>2 DEF Session!WaitForNothing, Session!Typing
  <2> QED  BY <2>1 DEF SessionInv, Alternates
<1>3. ASSUME NEW l \in Session!Lines, Session!Ask(l) PROVE Alternates'
  <2>1. /\ client = "typing" /\ client' = "waiting" /\ asked' = asked + 1
        /\ UNCHANGED <<down, server>>
    BY <1>3 DEF Session!Ask, Session!Typing
  <2>2. Session!Writes(up, asked + 1, l)  BY <1>3, <2>1 DEF Session!Ask
  <2>3. ~split  BY <2>2 DEF Session!Writes
  <2>4. up = <<>> /\ down = <<>>  BY <2>1, <2>3 DEF SessionInv, Alternates
  <2>5. up' = <<Session!Item(asked', l, TRUE)>>  BY <2>1, <2>2, <2>4, WritesOne
  <2> QED  BY <2>1, <2>4, <2>5 DEF Alternates, Session!Item
<1>4. CASE Session!ShowAnswer
  <2>1. /\ client = "waiting" /\ UNCHANGED <<up, asked, server, split>>
        /\ client' \in {"done", "typing"}
    BY <1>4 DEF Session!ShowAnswer, Session!AfterAnswer
  <2>2. PICK n \in 1..Len(down) :
           shown' = down[n].no /\ down' = SubSeq(down, n + 1, Len(down))
    BY <1>4 DEF Session!ShowAnswer
  <2>3. down # <<>>  BY <2>2
  <2>4. up = <<>> /\ down = <<Session!Item(asked, "answer", TRUE)>>
    BY <2>1, <2>3 DEF SessionInv, Alternates
  <2>5. n = 1 /\ down' = <<>>  BY <2>2, <2>4, TakesOne
  <2>6. shown' = asked  BY <2>2, <2>4, <2>5 DEF Session!Item
  <2> QED  BY <2>1, <2>4, <2>5, <2>6 DEF Alternates
<1>5. CASE Session!AnswerFails  BY <1>5 DEF Session!AnswerFails
<1> QED  BY <1>1, <1>2, <1>3, <1>4, <1>5 DEF Session!Client

LEMMA SessionServer ==
  ASSUME SessionInv, Session!Server \/ Session!ServerDies PROVE SessionInv'
<1> SUFFICES ASSUME server' = "serving", ~split' PROVE Alternates'  BY DEF SessionInv
<1>1. CASE Session!Take
  <2>1. server = "serving" /\ UNCHANGED <<client, asked, shown>>  BY <1>1 DEF Session!Take
  <2>2. PICK n \in 1..Len(up) : /\ up' = SubSeq(up, n + 1, Len(up))
                                /\ Session!Writes(down, up[n].no, "answer")
    BY <1>1 DEF Session!Take, Session!Answers
  <2>3. ~split  BY <2>2 DEF Session!Writes
  <2>4. up # <<>>  BY <2>2
  <2>5. CASE client \in {"done", "killed"}  BY <2>1, <2>5 DEF Alternates
  <2>6. ASSUME client \notin {"done", "killed"} PROVE Alternates'
    <3>1. PICK of : client = "waiting" /\ down = <<>> /\ up = <<Session!Item(asked, of, TRUE)>>
      BY <2>1, <2>3, <2>4, <2>6 DEF SessionInv, Alternates
    <3>2. n = 1 /\ up' = <<>>  BY <2>2, <3>1, TakesOne
    <3>3. up[n].no = asked  BY <3>1, <3>2 DEF Session!Item
    <3>4. down' = <<Session!Item(asked, "answer", TRUE)>>  BY <2>2, <3>1, <3>3, WritesOne
    <3> QED  BY <2>1, <3>1, <3>2, <3>4 DEF Alternates, Session!Item
  <2> QED  BY <2>5, <2>6
<1>2. CASE Session!SeeEnd
  BY <1>2 DEF Session!SeeEnd, Alternates
<1>3. CASE Session!ServerDies  BY <1>3 DEF Session!ServerDies
<1> QED  BY <1>1, <1>2, <1>3 DEF Session!Server

LEMMA SessionNext == SessionInv /\ [MCNext]_allVars => SessionInv'
<1> SUFFICES ASSUME SessionInv, [MCNext]_allVars PROVE SessionInv'  OBVIOUS
<1>1. Session!Next \/ UNCHANGED sessionVars
  BY DEF MCNext, ServerOnly, PollingOnly, SessionOnly, DatagramOnly, allVars
<1>2. CASE UNCHANGED sessionVars  BY <1>2 DEF sessionVars, SessionInv, Alternates, Session!Item
<1> QED  BY <1>1, <1>2, SessionClient, SessionServer DEF Session!Next

\* A command client that types its next line has been shown the answer to
\* the last one, in all six programs and for any number of lines, while the
\* server is there and nothing came in two parts.
THEOREM AlwaysSessionInStep == MCSpec => []SessionInStep
<1>1. MCInit => SessionInv  BY SessionInit DEF MCInit
<1>2. SessionInv => SessionInStep
  BY DEF SessionInv, Alternates, SessionInStep, Session!InStep
<1> QED  BY <1>1, <1>2, SessionNext, PTL DEF MCSpec

-----------------------------------------------------------------------------
(* The UDP client and its server.                                          *)

\* A datagram that is an answer, or will be answered.
Alive(d) == d.to = "client" \/ (d.to = "server" /\ Udp!IsAnswered(d.what))

\* While nothing is duplicated, at most one such datagram is on its way, and
\* it belongs to the request the client waits with.
OneAlive ==
    /\ \A d \in net : Alive(d) => udpClient = "waiting" /\ d.no = awaited
    /\ \A d, e \in net : Alive(d) /\ Alive(e) => d = e
    /\ udpClient # "waiting" => udpShown = awaited

DatagramInv == ~duplicated => OneAlive

LEMMA DatagramInit == Udp!Init => DatagramInv
  BY DEF Udp!Init, DatagramInv, OneAlive

\* The client sends when nothing is alive on its way.
LEMMA DatagramSend ==
  ASSUME OneAlive, NEW what, Udp!Send(what), UNCHANGED udpProgram,
         \/ udpClient' = "waiting" /\ awaited' = sent + 1
         \/ /\ UNCHANGED <<udpClient, awaited>>
            /\ ~Udp!IsAnswered(what)
  PROVE  OneAlive'
<1> DEFINE new == Udp!Datagram("server", sent + 1, what, 1)
<1>1. /\ udpClient = "ready" /\ net' = net \cup {new} /\ udpShown' = udpShown
  BY DEF Udp!Send
<1>2. new.to = "server" /\ new.no = sent + 1 /\ new.what = what  BY DEF Udp!Datagram
<1>3. \A d \in net : ~Alive(d)  BY <1>1 DEF OneAlive
<1>4. \A d : Alive(d)' <=> Alive(d)  BY DEF Alive, Udp!IsAnswered
<1> HIDE DEF new
<1>5. \A d \in net' : Alive(d)' => d = new /\ Udp!IsAnswered(what)
  BY <1>1, <1>2, <1>3, <1>4 DEF Alive
<1>6. CASE udpClient' = "waiting" /\ awaited' = sent + 1
  BY <1>2, <1>5, <1>6 DEF OneAlive
<1>7. CASE UNCHANGED <<udpClient, awaited>> /\ ~Udp!IsAnswered(what)
  BY <1>1, <1>5, <1>7 DEF OneAlive
<1> QED  BY <1>6, <1>7

LEMMA DatagramClient == ASSUME DatagramInv, Udp!Client PROVE DatagramInv'
<1> SUFFICES ASSUME ~duplicated' PROVE OneAlive'  BY DEF DatagramInv
<1>1. UNCHANGED <<udpProgram, duplicated>>
  BY DEF Udp!Client, Udp!Ask10, Udp!PingUdp, Udp!GreetUdp, Udp!Receive, Udp!Send
<1>2. OneAlive  BY <1>1 DEF DatagramInv
<1>3. CASE Udp!Ask10  BY <1>1, <1>2, <1>3, DatagramSend DEF Udp!Ask10, Udp!AndWait
<1>4. CASE Udp!PingUdp  BY <1>1, <1>2, <1>4, DatagramSend DEF Udp!PingUdp, Udp!AndWait
<1>5. CASE Udp!GreetUdp
  <2>1. ~Udp!IsAnswered("greeting")  BY <1>5 DEF Udp!GreetUdp, Udp!IsAnswered
  <2> QED  BY <1>1, <1>2, <1>5, <2>1, DatagramSend DEF Udp!GreetUdp
<1>6. CASE Udp!Receive
  <2>1. PICK d \in net : d.to = "client" /\ udpShown' = d.no /\ net' = net \ {d}
    BY <1>6 DEF Udp!Receive
  <2>2. udpClient' \in {"done", "ready"} /\ awaited' = awaited  BY <1>6 DEF Udp!Receive
  <2>3. Alive(d) /\ \A e : Alive(e)' <=> Alive(e)  BY <1>1, <2>1 DEF Alive, Udp!IsAnswered
  <2>4. d.no = awaited /\ \A e \in net' : ~Alive(e)'  BY <1>2, <2>1, <2>3 DEF OneAlive
  <2> QED  BY <2>1, <2>2, <2>4 DEF OneAlive
<1> QED  BY <1>3, <1>4, <1>5, <1>6 DEF Udp!Client

\* An answer takes the place of its request.
LEMMA DatagramServe == ASSUME DatagramInv, Udp!Serve PROVE DatagramInv'
<1> SUFFICES ASSUME ~duplicated' PROVE OneAlive'  BY DEF DatagramInv
<1>1. UNCHANGED <<udpProgram, udpClient, awaited, udpShown, duplicated>>  BY DEF Udp!Serve
<1>2. OneAlive  BY <1>1 DEF DatagramInv
<1>3. PICK d \in net :
         /\ d.to = "server"
         /\ net' = (net \ {d}) \cup
               IF Udp!IsAnswered(d.what) THEN {Udp!Datagram("client", d.no, "answer", d.copy)} ELSE {}
  BY DEF Udp!Serve
<1> DEFINE answer == Udp!Datagram("client", d.no, "answer", d.copy)
<1>4. answer.no = d.no  BY DEF Udp!Datagram
<1> HIDE DEF answer
<1>5. \A e : Alive(e)' <=> Alive(e)  BY <1>1 DEF Alive, Udp!IsAnswered
<1>6. CASE Udp!IsAnswered(d.what)
  <2>1. Alive(d)  BY <1>3, <1>6 DEF Alive
  <2>2. udpClient = "waiting" /\ d.no = awaited /\ \A e \in net \ {d} : ~Alive(e)
    BY <1>2, <2>1 DEF OneAlive
  <2>3. net' = (net \ {d}) \cup {answer}  BY <1>3, <1>6 DEF answer
  <2> QED  BY <1>1, <1>4, <1>5, <2>2, <2>3 DEF OneAlive
<1>7. CASE ~Udp!IsAnswered(d.what)
  <2>1. net' \subseteq net  BY <1>3, <1>7
  <2> QED  BY <1>1, <1>2, <1>5, <2>1 DEF OneAlive
<1> QED  BY <1>6, <1>7

LEMMA DatagramNetwork ==
  ASSUME DatagramInv, Udp!Lose \/ Udp!Duplicate \/ UNCHANGED datagramVars PROVE DatagramInv'
<1> SUFFICES ASSUME ~duplicated' PROVE OneAlive'  BY DEF DatagramInv
<1>1. /\ UNCHANGED <<udpProgram, udpClient, awaited, udpShown, duplicated>>
      /\ net' \subseteq net
  BY DEF Udp!Lose, Udp!Duplicate, datagramVars
<1>2. OneAlive  BY <1>1 DEF DatagramInv
<1>3. \A e : Alive(e)' <=> Alive(e)  BY <1>1 DEF Alive, Udp!IsAnswered
<1> QED  BY <1>1, <1>2, <1>3 DEF OneAlive

LEMMA DatagramNext == DatagramInv /\ [MCNext]_allVars => DatagramInv'
<1> SUFFICES ASSUME DatagramInv, [MCNext]_allVars PROVE DatagramInv'  OBVIOUS
<1>1. Udp!Next \/ UNCHANGED datagramVars
  BY DEF MCNext, ServerOnly, PollingOnly, SessionOnly, DatagramOnly, allVars
<1> QED  BY <1>1, DatagramClient, DatagramServe, DatagramNetwork DEF Udp!Next

\* A UDP client that does not wait was shown the answer to the request it
\* waited with last, in both programs and for any number of datagrams, however
\* the network delays, reorders and loses them, while it duplicates none.
THEOREM AlwaysDatagramInStep == MCSpec => []DatagramInStep
<1>1. MCInit => DatagramInv  BY DatagramInit DEF MCInit
<1>2. DatagramInv => DatagramInStep
  BY DEF DatagramInv, OneAlive, DatagramInStep, Udp!InStep
<1> QED  BY <1>1, <1>2, DatagramNext, PTL DEF MCSpec
=============================================================================
