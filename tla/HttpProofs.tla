----------------------------- MODULE HttpProofs -----------------------------
(***************************************************************************)
(* The HTTP server serves one client at a time and keeps listening, for    *)
(* every size of its array and every number of clients, as long as the     *)
(* entries poll has not written are clear.  The fetching programs release  *)
(* what they acquire but for the redirections they follow, and put out a   *)
(* prefix of the page, for every size of page and buffer and every limit   *)
(* of redirections.  A failed start leaves nothing but where Leaks says.   *)
(***************************************************************************)
EXTENDS MCHttp, SequenceTheorems, TLAPS

-----------------------------------------------------------------------------
(* The HTTP server.                                                        *)

Shape ==
    /\ kern \in [Fds -> {"free", "open", "shut", "reset"}]
    /\ fds \in [Slots -> Fds \cup {ListenFd, NoFd}]
    /\ revents \in [Slots -> BOOLEAN]

\* Nobody is connected.
Idle == nfds = 1 /\ \A f \in Fds : kern[f] = "free"

\* The one client is in the second entry, and the scan about to look there.
Busy ==
    /\ nfds = 2 /\ i = 1
    /\ fds[1] \in Fds /\ kern[fds[1]] # "free"
    /\ \A f \in Fds : kern[f] # "free" => f = fds[1]

\* Where the loop is, and what follows for the table.
Turn ==
    \/ pc = "poll" /\ Idle
    \/ pc = "scan" /\ i = 0 /\ revents[0] /\ Idle
    \/ pc = "scan" /\ i \in Nat \ {0} /\ Idle
    \/ pc = "scan" /\ Busy

IInv ==
    ~garbage =>
       /\ Shape
       /\ listening /\ fds[0] = ListenFd
       /\ \A s \in Slots \ {0} : ~revents[s]
       /\ Turn

USE MaxConnectionAssumption

LEMMA FirstSlots == 0 \in Slots /\ 1 \in Slots
  BY DEF Slots

LEMMA InvInit == Init => IInv
  BY FirstSlots DEF Init, IInv, Shape, Turn, Idle, KernInit

\* A step that opens and closes nothing.
LEMMA InvSame ==
  ASSUME IInv, UNCHANGED <<tableVars, revents, pc, i, garbage>>,
         ~garbage => kern' \in [Fds -> {"free", "open", "shut", "reset"}],
         ~garbage => \A f \in Fds : kern'[f] = "free" <=> kern[f] = "free"
  PROVE  IInv'
<1> SUFFICES ASSUME ~garbage PROVE IInv'  BY DEF IInv
<1>1. Shape'  BY DEF IInv, Shape, tableVars
<1>2. Idle => Idle'  BY DEF Idle, tableVars
<1>3. Busy => Busy'  BY DEF Busy, tableVars
<1>4. Turn'  BY <1>2, <1>3 DEF IInv, Turn
<1> QED  BY <1>1, <1>4 DEF IInv, tableVars

LEMMA InvClient == ASSUME IInv, Client PROVE IInv'
<1>1. UNCHANGED <<tableVars, revents, pc, i, garbage>>  BY DEF Client
<1>2. CASE UNCHANGED kern  BY <1>1, <1>2, InvSame DEF IInv, Shape
<1>3. ASSUME NEW f \in Fds, NEW how \in {"shut", "reset"}, ClientLeave(f, how) PROVE IInv'
  <2>1. kern[f] # "free" /\ kern' = [kern EXCEPT ![f] = how]
    BY <1>3 DEF ClientLeave
  <2> QED  BY <1>1, <2>1, InvSame DEF IInv, Shape
<1> QED  BY <1>2, <1>3 DEF Client, ClientConnect, ClientSend

LEMMA InvPoll == ASSUME IInv, ~garbage, Poll PROVE IInv'
<1>1. /\ Shape /\ listening /\ fds[0] = ListenFd /\ Idle /\ nfds = 1
      /\ \A s \in Slots \ {0} : ~revents[s]
  BY DEF IInv, Turn, Poll, Idle
<1>2. /\ UNCHANGED <<fds, nfds, listening, garbage, kern>> /\ pc' = "scan" /\ i' = 0
      /\ revents' = [s \in Slots |-> IF s < nfds THEN Reported(s) ELSE revents[s]]
  BY DEF Poll, tableVars, kernVars
<1>3. Reported(0)  BY <1>1 DEF Poll
<1>4. revents'[0]  BY <1>1, <1>2, <1>3, FirstSlots
<1>5. \A s \in Slots \ {0} : revents'[s] = revents[s]  BY <1>1, <1>2 DEF Slots
<1>6. revents' \in [Slots -> BOOLEAN]
  <2>1. Reported(0) \in BOOLEAN  BY <1>1 DEF Reported
  <2>2. \A s \in Slots : s = 0 \/ ~(s < nfds)  BY <1>1 DEF Slots
  <2>3. \A s \in Slots : (IF s < nfds THEN Reported(s) ELSE revents[s]) \in BOOLEAN
    BY <1>1, <2>1, <2>2 DEF Shape
  <2> QED  BY <1>2, <2>3
<1>7. Idle'  BY <1>1, <1>2 DEF Idle
<1> QED  BY <1>1, <1>2, <1>4, <1>5, <1>6, <1>7 DEF IInv, Shape, Turn

LEMMA InvAccept == ASSUME IInv, ~garbage, Accept PROVE IInv'
<1>1. /\ Shape /\ listening /\ fds[0] = ListenFd
      /\ \A s \in Slots \ {0} : ~revents[s]
  BY DEF IInv
<1>2. i = 0 /\ Idle
  <2>1. pc = "scan" /\ revents[i] /\ ~(i >= nfds)  BY DEF Accept, At, ScanOver
  <2>2. ~Busy  BY <1>1, <2>1, FirstSlots DEF Busy
  <2> QED  BY <2>1, <2>2 DEF IInv, Turn, Idle
<1>3. nfds = 1 /\ nfds < MaxConnection  BY <1>2 DEF Idle
<1>4. PICK f \in Fds : Accepted(f) /\ fds' = [fds EXCEPT ![nfds] = f] /\ nfds' = nfds + 1
  BY <1>3 DEF Accept
<1>5. kern' = [kern EXCEPT ![f] = "open"]  BY <1>4 DEF Accepted
<1>6. fds' = [fds EXCEPT ![1] = f] /\ nfds' = 2  BY <1>3, <1>4
<1>7. i' = 1 /\ UNCHANGED <<listening, revents, pc, garbage>> /\ pc = "scan"
  BY <1>2 DEF Accept, At
<1>8. fds'[1] = f /\ fds'[0] = ListenFd /\ Shape'
  BY <1>1, <1>5, <1>6, <1>7, FirstSlots DEF Shape
<1>9. kern'[f] = "open" /\ \A g \in Fds \ {f} : kern'[g] = "free"
  BY <1>1, <1>2, <1>5 DEF Shape, Idle
<1>10. Busy'  BY <1>6, <1>7, <1>8, <1>9 DEF Busy
<1> QED  BY <1>1, <1>7, <1>8, <1>10 DEF IInv, Turn

\* The scan moves on; nobody is connected.
LEMMA InvMove ==
  ASSUME IInv, ~garbage, pc = "scan", Idle, i \in Nat, i' = i + 1,
         UNCHANGED <<tableVars, revents, pc, garbage, kern>>
  PROVE  IInv'
<1>1. Idle' /\ i' \in Nat \ {0}  BY DEF Idle, tableVars
<1>2. Turn'  BY <1>1 DEF Turn
<1>3. Shape'  BY DEF IInv, Shape, tableVars
<1> QED  BY <1>2, <1>3 DEF IInv, tableVars

LEMMA InvHandle == ASSUME IInv, ~garbage, HandleClient PROVE IInv'
<1>1. /\ Shape /\ listening /\ fds[0] = ListenFd
      /\ \A s \in Slots \ {0} : ~revents[s]
  BY DEF IInv
<1>2. pc = "scan" /\ ~revents[i] /\ fds[i] \in Fds /\ ~(i >= nfds)
  BY DEF HandleClient, At, ScanOver
<1>3. Busy
  <2>1. ~(pc = "scan" /\ i \in Nat \ {0} /\ Idle)  BY <1>2 DEF Idle
  <2>2. ~(revents[0] /\ i = 0)  BY DEF HandleClient
  <2> QED  BY <2>1, <2>2 DEF IInv, Turn, HandleClient, At
<1>4. /\ kern' = [kern EXCEPT ![fds[1]] = "free"] /\ nfds' = 1 /\ i' = 2
      /\ fds' = [fds EXCEPT ![1] = fds[1]]
      /\ UNCHANGED <<listening, revents, pc, garbage>>
  BY <1>3 DEF Busy, HandleClient, CloseEntry, Closed
<1>5. fds' = fds  BY <1>1, <1>4 DEF Shape
<1>6. Shape'  BY <1>1, <1>3, <1>4, <1>5 DEF Shape, Busy
<1>7. Idle'  BY <1>1, <1>3, <1>4 DEF Idle, Busy, Shape
<1>8. pc' = "scan" /\ i' \in Nat \ {0}  BY <1>4 DEF HandleClient, At
<1> QED  BY <1>1, <1>4, <1>5, <1>6, <1>7, <1>8 DEF IInv, Turn

\* The listening socket is never taken for a client: its bit is set whenever
\* the scan is at its entry.
LEMMA NeverHandlesListening == ASSUME IInv, ~garbage PROVE ~HandleListening
<1> SUFFICES ASSUME HandleListening PROVE FALSE  OBVIOUS
<1>1. pc = "scan" /\ ~revents[i] /\ fds[i] = ListenFd /\ ~(i >= nfds)
  BY DEF HandleListening, At, ScanOver
<1>2. ~Busy  BY <1>1 DEF Busy, Fds, ListenFd
<1>3. ~(i \in Nat \ {0} /\ Idle)  BY <1>1 DEF Idle
<1> QED  BY <1>1, <1>2, <1>3 DEF IInv, Turn

LEMMA InvServer == ASSUME IInv, ~garbage, Server PROVE IInv'
<1>1. CASE Poll  BY <1>1, InvPoll
<1>2. CASE Accept  BY <1>2, InvAccept
<1>3. CASE HandleClient  BY <1>3, InvHandle
<1>4. CASE HandleListening  BY <1>4, NeverHandlesListening
<1>5. CASE PollFails \/ RequestThrows \/ SendBreaksPipe
  BY <1>5, InvSame DEF PollFails, RequestThrows, SendBreaksPipe, kernVars, IInv, Shape
<1>6. CASE EndScan
  <2>1. pc = "scan" /\ i >= nfds  BY <1>6 DEF EndScan, ScanOver
  <2>2. ~Busy  BY <2>1 DEF Busy
  <2>3. Idle  BY <2>1, <2>2 DEF IInv, Turn
  <2>4. Idle' /\ pc' = "poll"  BY <1>6, <2>3 DEF EndScan, Idle, tableVars, kernVars
  <2>5. Shape'  BY <1>6 DEF EndScan, IInv, Shape, tableVars, kernVars
  <2> QED  BY <1>6, <2>4, <2>5 DEF EndScan, IInv, Turn, tableVars
<1>7. CASE AcceptFails \/ PassOver
  <2>1. /\ pc = "scan" /\ revents[i] /\ i' = i + 1
        /\ UNCHANGED <<tableVars, revents, pc, garbage, kern>>
    BY <1>7 DEF AcceptFails, PassOver, At, Aborted, kernVars
  <2>2. ~Busy  BY <2>1, FirstSlots DEF Busy, IInv
  <2>3. Idle /\ i \in Nat  BY <2>1, <2>2 DEF IInv, Turn
  <2> QED  BY <2>1, <2>3, InvMove
<1> QED  BY <1>1, <1>2, <1>3, <1>4, <1>5, <1>6, <1>7 DEF Server

LEMMA InvNext == IInv /\ [Next]_vars => IInv'
<1> SUFFICES ASSUME IInv, [Next]_vars PROVE IInv'  OBVIOUS
<1>1. CASE UNCHANGED vars
  BY <1>1, InvSame DEF vars, kernVars, IInv, Shape
<1>2. CASE Server /\ garbage
  <2>1. garbage' = garbage
    BY <1>2 DEF Server, Poll, PollFails, EndScan, Accept, AcceptFails, PassOver,
       HandleClient, RequestThrows, SendBreaksPipe, HandleListening
  <2> QED  BY <1>2, <2>1 DEF IInv
<1> QED  BY <1>1, <1>2, InvClient, InvServer DEF Next, Ended

LEMMA InvImplies == IInv => OneAtATime
<1> SUFFICES ASSUME IInv, ~garbage PROVE OneAtATime  BY DEF OneAtATime
<1>1. CASE Idle
  BY <1>1 DEF IInv, Idle, OneAtATime
<1>2. CASE pc = "scan" /\ Busy
  BY <1>2 DEF IInv, Busy, OneAtATime
<1> QED  BY <1>1, <1>2 DEF IInv, Turn

\* The server listens for ever, serves one client at a time and loses none of
\* them, while the entries poll has not written are clear.
THEOREM AlwaysOneAtATime == Spec => []OneAtATime
  BY InvInit, InvNext, InvImplies, PTL DEF Spec

-----------------------------------------------------------------------------
(* The fetching programs.                                                  *)

Printable == Nat \X Nat

FetchShape ==
    /\ fetchPc \in {"main", "send", "recv"}
    /\ fetches \in Nat /\ frame \in Nat /\ requests \in Nat /\ followed \in Nat /\ left \in Nat
    /\ buffer \in Seq(Nat)
    /\ response \in Seq(Printable)

\* The redirections n calls of main may follow.
Budget(n) == n * (MaxRedirection + 1)

\* A socket for each redirection followed, and one for the call that runs.
\* While the call at redirection n runs, main's earlier calls have followed
\* as many as they could at most, and this one n.
Accounts ==
    /\ open = followed + (IF fetchPc = "main" THEN 0 ELSE 1)
    /\ fetchPc = "main" => followed <= Budget(fetches)
    /\ fetchPc # "main" =>
         /\ fetches >= 1 /\ frame <= MaxRedirection
         /\ followed <= Budget(fetches - 1) + frame

\* The buffer has the page from its first unit to where it was received.
Received ==
    fetchPc # "main" =>
      /\ left <= Page /\ Len(buffer) = Page - left
      /\ \A k \in 1..Len(buffer) : buffer[k] = k
      /\ program = "plain" \/ Len(buffer) <= Buffer

\* What is printed is of earlier calls, while a call runs.
Printed ==
    \A k \in 1..Len(response) :
       /\ response[k][1] <= requests
       /\ fetchPc # "main" => response[k][1] < requests

FetchInv == FetchShape /\ Accounts /\ Received /\ Printed /\ FetchIsPrefix

LEMMA Naturally ==
  /\ MaxRedirection \in Nat /\ Page \in Nat /\ Buffer \in Nat
  /\ Budget(0) = 0
  /\ \A n \in Nat : Budget(n) \in Nat /\ Budget(n + 1) = Budget(n) + MaxRedirection + 1
<1>1. MaxRedirection \in Nat /\ Page \in Nat /\ Buffer \in Nat  BY FetchBounds
<1>2. ASSUME NEW m \in Nat, NEW n \in Nat PROVE n * m \in Nat  OBVIOUS
<1>3. ASSUME NEW m \in Nat, NEW n \in Nat PROVE (n + 1) * (m + 1) = n * (m + 1) + m + 1
  OBVIOUS
<1>4. ASSUME NEW m \in Nat PROVE 0 * m = 0  OBVIOUS
<1>5. MaxRedirection + 1 \in Nat  BY <1>1
<1>6. Budget(0) = 0  BY <1>4, <1>5 DEF Budget
<1>7. ASSUME NEW n \in Nat
      PROVE  Budget(n) \in Nat /\ Budget(n + 1) = Budget(n) + MaxRedirection + 1
  BY <1>1, <1>2, <1>3, <1>5 DEF Budget
<1> QED  BY <1>1, <1>6, <1>7

LEMMA FetchInit == Fetches!Init => FetchInv
<1> SUFFICES ASSUME Fetches!Init PROVE FetchInv  OBVIOUS
<1>1. FetchShape  BY DEF Fetches!Init, FetchShape
<1>2. Accounts  BY Naturally DEF Fetches!Init, Accounts
<1>3. Received /\ Printed  BY DEF Fetches!Init, Received, Printed
<1>4. FetchIsPrefix  BY DEF Fetches!Init, FetchIsPrefix, Fetches!FetchIsPrefix
<1> QED  BY <1>1, <1>2, <1>3, <1>4 DEF FetchInv

\* A call that runs has not used up what the calls of main may follow.
LEMMA WithinBudget == ASSUME FetchInv PROVE followed <= Budget(fetches)
<1>1. fetches \in Nat /\ frame \in Nat /\ followed \in Nat
  BY DEF FetchInv, FetchShape
<1>2. CASE fetchPc = "main"  BY <1>2 DEF FetchInv, Accounts
<1>3. CASE fetchPc # "main"
  <2>1. /\ fetches >= 1 /\ frame <= MaxRedirection
        /\ followed <= Budget(fetches - 1) + frame
    BY <1>3 DEF FetchInv, Accounts
  <2>2. PICK m \in Nat : fetches = m + 1 /\ followed <= Budget(m) + frame
    <3>1. fetches - 1 \in Nat /\ fetches = (fetches - 1) + 1  BY <1>1, <2>1
    <3> QED  BY <2>1, <3>1
  <2>3. Budget(m) \in Nat /\ Budget(m + 1) = Budget(m) + MaxRedirection + 1  BY Naturally
  <2>4. PICK b \in Nat : b = Budget(m)  BY <2>3
  <2>5. followed <= b + frame  BY <2>2, <2>4
  <2>6. followed <= b + MaxRedirection + 1  BY <1>1, <2>1, <2>5, Naturally
  <2> QED  BY <2>2, <2>3, <2>4, <2>6
<1> QED  BY <1>2, <1>3

\* FetchIsPrefix only speaks of a success in main.
LEMMA NoSuccess ==
  ASSUME fetchPc' # "main" \/ result' # "ok" PROVE FetchIsPrefix'
BY DEF FetchIsPrefix, Fetches!FetchIsPrefix

\* A call at redirection n, once the ones before it are counted.
LEMMA CallKeeps ==
  ASSUME FetchShape, NEW n \in Nat, Fetches!Call(n), UNCHANGED program,
         NEW m \in Nat, fetches' = m + 1, followed' \in Nat, open = followed',
         followed' <= Budget(m) + n,
         n <= MaxRedirection + 1,
         response' \in Seq(Printable),
         \A k \in 1..Len(response') : response'[k][1] <= requests
  PROVE  FetchInv'
<1>1. \A k \in 1..Len(response') : response'[k][1] \in Nat
  BY ElementOfSeq DEF Printable
<1>2. fetches' \in Nat /\ fetches' >= 1 /\ fetches' - 1 = m  OBVIOUS
<1> DEFINE before == Budget(m)
           all == Budget(m + 1)
<1>5. before \in Nat /\ all = before + MaxRedirection + 1 /\ followed' <= before + n
  BY Naturally
<1>6. fetches' - 1 = m /\ Budget(fetches' - 1) = before /\ Budget(fetches') = all  BY <1>2
<1> HIDE DEF before, all
<1>7. followed' <= all  BY <1>5, Naturally
<1>3. CASE n <= MaxRedirection /\ Fetches!Connected(n)
  <2>1. /\ fetchPc' = "send" /\ frame' = n /\ requests' = requests + 1
        /\ open' = open + 1 /\ left' = Page /\ buffer' = <<>>
    BY <1>3 DEF Fetches!Connected
  <2>2. FetchShape'  BY <1>2, <2>1, Naturally, EmptySeq DEF FetchShape
  <2>3. Accounts'
    <3>1. open' = followed' + 1 /\ fetchPc' # "main"  BY <2>1
    <3>2. fetches' >= 1 /\ frame' <= MaxRedirection  BY <1>2, <1>3, <2>1
    <3>3. followed' <= Budget(fetches' - 1) + frame'  BY <1>5, <1>6, <2>1
    <3> QED  BY <3>1, <3>2, <3>3 DEF Accounts
  <2>4. Received'  BY <2>1, Naturally, EmptySeq DEF Received
  <2>5. Printed'  BY <1>1, <2>1 DEF Printed, FetchShape
  <2>6. FetchIsPrefix'  BY <2>1, NoSuccess
  <2> QED  BY <2>2, <2>3, <2>4, <2>5, <2>6 DEF FetchInv
<1>4. CASE Fetches!Unreachable(n) \/ Fetches!TooManyRedirections(n)
  <2>1. /\ fetchPc' = "main" /\ result' # "ok" /\ frame' = n
        /\ open' = open /\ requests' = requests /\ left' = left /\ buffer' = buffer
    BY <1>4 DEF Fetches!Unreachable, Fetches!TooManyRedirections, Fetches!Return
  <2>2. FetchShape'  BY <1>2, <2>1 DEF FetchShape
  <2>3. Accounts'
    <3>1. open' = followed'  BY <2>1
    <3>2. \A x \in Nat : x + 0 = x  OBVIOUS
    <3>3. open' = followed' + 0  BY <3>1, <3>2
    <3>4. (followed <= Budget(fetches))'  BY <1>6, <1>7
    <3> QED  BY <2>1, <3>3, <3>4 DEF Accounts
  <2>4. Received' /\ Printed'  BY <2>1 DEF Received, Printed
  <2>5. FetchIsPrefix'  BY <2>1, NoSuccess
  <2> QED  BY <2>2, <2>3, <2>4, <2>5 DEF FetchInv
<1> QED  BY <1>3, <1>4 DEF Fetches!Call, Fetches!WithinLimit

LEMMA FetchFetch == ASSUME FetchInv, Fetches!Fetch PROVE FetchInv'
<1>1. /\ fetchPc = "main" /\ fetches' = fetches + 1 /\ Fetches!Call(0)
      /\ UNCHANGED <<program, response, followed>>
  BY DEF Fetches!Fetch
<1>2. FetchShape /\ fetches \in Nat /\ followed \in Nat /\ response \in Seq(Printable)
  BY DEF FetchInv, FetchShape
<1>3. open = followed /\ followed <= Budget(fetches)
  BY <1>1 DEF FetchInv, Accounts, FetchShape
<1>4. followed' <= Budget(fetches) + 0  BY <1>1, <1>2, <1>3, Naturally
<1>5. \A k \in 1..Len(response') : response'[k][1] <= requests
  BY <1>1 DEF FetchInv, Printed
<1> QED  BY <1>1, <1>2, <1>3, <1>4, <1>5, Naturally, CallKeeps

\* The page received in front, what earlier calls printed behind it.
LEMMA CopiedIs ==
  ASSUME FetchInv, fetchPc # "main", Fetches!Copied
  PROVE  /\ response' \in Seq(Printable)
         /\ Len(buffer) \in 0..Len(response')
         /\ \A k \in 1..Len(buffer) : response'[k] = <<requests, k>>
         /\ \A k \in Len(buffer) + 1..Len(response') :
               response'[k][1] \in Nat /\ response'[k][1] < requests
<1> DEFINE new == [k \in 1..Len(buffer) |-> <<requests, buffer[k]>>]
           old == SubSeq(response, Len(new) + 1, Len(response))
<1>1. /\ buffer \in Seq(Nat) /\ Len(buffer) \in Nat /\ response \in Seq(Printable)
      /\ Len(response) \in Nat /\ requests \in Nat
  BY LenProperties DEF FetchInv, FetchShape
<1>2. \A k \in 1..Len(buffer) : buffer[k] = k  BY DEF FetchInv, Received
<1>3. /\ new \in Seq(Printable) /\ Len(new) = Len(buffer)
      /\ \A k \in 1..Len(buffer) : new[k] = <<requests, k>>
  <2>1. \A k \in 1..Len(buffer) : <<requests, buffer[k]>> \in Printable
    BY <1>1, <1>2 DEF Printable
  <2>2. new \in [1..Len(buffer) -> Printable]  BY <2>1
  <2>3. new \in Seq(Printable)  BY <1>1, <2>2, SeqDef
  <2>4. Len(new) = Len(buffer)  BY <1>1, <2>3, LenProperties
  <2> QED  BY <1>2, <2>3, <2>4
<1> HIDE DEF new
<1>4. /\ old \in Seq(Printable)
      /\ \A k \in 1..Len(old) : old[k][1] \in Nat /\ old[k][1] < requests
  <2>1. \A k \in Len(new) + 1..Len(response) : response[k] \in Printable
    BY <1>1, <1>3, ElementOfSeq
  <2>2. /\ old \in Seq(Printable)
        /\ Len(old) = IF Len(new) + 1 <= Len(response) THEN Len(response) - Len(new) ELSE 0
        /\ \A k \in 1..Len(response) - Len(new) : old[k] = response[Len(new) + k]
    BY <1>1, <1>3, <2>1, SubSeqProperties
  <2>3. ASSUME NEW k \in 1..Len(old) PROVE old[k][1] \in Nat /\ old[k][1] < requests
    <3>1. Len(new) + k \in 1..Len(response) /\ old[k] = response[Len(new) + k]
      BY <1>1, <1>3, <2>2, <2>3
    <3>2. response[Len(new) + k] \in Printable  BY <1>1, <3>1, ElementOfSeq
    <3>3. response[Len(new) + k][1] < requests  BY <3>1 DEF FetchInv, Printed
    <3> QED  BY <3>1, <3>2, <3>3 DEF Printable
  <2> QED  BY <2>2, <2>3
<1>5. response' = new \o old  BY DEF Fetches!Copied, new
<1> HIDE DEF old
<1>6. Len(old) \in Nat  BY <1>4, LenProperties
<1>7. /\ response' \in Seq(Printable) /\ Len(response') = Len(buffer) + Len(old)
      /\ \A k \in 1..Len(buffer) + Len(old) :
            response'[k] = IF k <= Len(buffer) THEN new[k] ELSE old[k - Len(buffer)]
  <2>1. /\ new \o old \in Seq(Printable)
        /\ Len(new \o old) = Len(new) + Len(old)
        /\ \A k \in 1..Len(new) + Len(old) :
              (new \o old)[k] = IF k <= Len(new) THEN new[k] ELSE old[k - Len(new)]
    BY <1>3, <1>4, ConcatProperties
  <2>2. new \o old \in Seq(Printable) /\ Len(new \o old) = Len(buffer) + Len(old)
    BY <1>3, <2>1
  <2>3. \A k \in 1..Len(buffer) + Len(old) :
           (new \o old)[k] = IF k <= Len(buffer) THEN new[k] ELSE old[k - Len(buffer)]
    BY <1>3, <2>1
  <2> QED  BY <1>5, <2>2, <2>3
<1>8. ASSUME NEW k \in 1..Len(buffer) PROVE response'[k] = <<requests, k>>
  <2>1. k \in 1..Len(buffer) + Len(old) /\ k <= Len(buffer)  BY <1>1, <1>6
  <2> QED  BY <1>3, <1>7, <2>1
<1>9. ASSUME NEW k \in Len(buffer) + 1..Len(response')
      PROVE  response'[k][1] \in Nat /\ response'[k][1] < requests
  <2>1. k - Len(buffer) \in 1..Len(old) /\ response'[k] = old[k - Len(buffer)]
    BY <1>1, <1>6, <1>7, <1>9
  <2> QED  BY <1>4, <2>1
<1>10. Len(buffer) \in 0..Len(response')  BY <1>1, <1>6, <1>7
<1> QED  BY <1>7, <1>8, <1>9, <1>10

LEMMA FetchRedirect == ASSUME FetchInv, Fetches!Redirect PROVE FetchInv'
<1>1. /\ fetchPc = "recv" /\ Fetches!Copied /\ Fetches!Call(frame + 1)
      /\ followed' = followed + 1 /\ program' = program /\ fetches' = fetches
  BY DEF Fetches!Redirect
<1>2. FetchShape  BY DEF FetchInv
<1>3. fetches \in Nat /\ frame \in Nat /\ requests \in Nat /\ followed \in Nat
  BY <1>2 DEF FetchShape
<1>4. /\ open = followed + 1 /\ fetches >= 1 /\ frame <= MaxRedirection
      /\ followed <= Budget(fetches - 1) + frame
  BY <1>1 DEF FetchInv, Accounts
<1>5. PICK m \in Nat : m = fetches - 1  BY <1>3, <1>4
<1>6. fetches' = m + 1 /\ followed <= Budget(m) + frame  BY <1>1, <1>3, <1>4, <1>5
<1>7. PICK n \in Nat : n = frame + 1  BY <1>3
<1>8. /\ Fetches!Call(n) /\ n <= MaxRedirection + 1 /\ followed' <= Budget(m) + n
      /\ followed' \in Nat /\ open = followed'
  BY <1>1, <1>3, <1>4, <1>6, <1>7, Naturally
<1>9. /\ response' \in Seq(Printable)
      /\ Len(buffer) \in 0..Len(response')
      /\ \A k \in 1..Len(buffer) : response'[k] = <<requests, k>>
      /\ \A k \in Len(buffer) + 1..Len(response') :
            response'[k][1] \in Nat /\ response'[k][1] < requests
  BY <1>1, CopiedIs
<1>10. ASSUME NEW k \in 1..Len(response') PROVE response'[k][1] <= requests
  <2>1. Len(response') \in Nat  BY <1>9, LenProperties
  <2>2. CASE k <= Len(buffer)
    <3>1. k \in 1..Len(buffer)  BY <1>9, <2>1, <2>2
    <3> QED  BY <1>3, <1>9, <3>1
  <2>3. CASE ~(k <= Len(buffer))
    <3>1. k \in Len(buffer) + 1..Len(response')  BY <1>9, <2>1, <2>3
    <3> QED  BY <1>3, <1>9, <3>1
  <2> QED  BY <2>2, <2>3
<1> QED  BY <1>1, <1>2, <1>6, <1>8, <1>9, <1>10, CallKeeps

\* The innermost call returns.
LEMMA ReturnKeeps ==
  ASSUME FetchInv, fetchPc # "main", fetchPc' = "main", open' = open - 1,
         UNCHANGED <<program, fetches, frame, requests, left, buffer, followed>>,
         response' \in Seq(Printable),
         \A k \in 1..Len(response') : response'[k][1] <= requests,
         FetchIsPrefix'
  PROVE  FetchInv'
<1>1. FetchShape /\ fetches \in Nat /\ frame \in Nat /\ followed \in Nat
  BY DEF FetchInv, FetchShape
<1>2. FetchShape'  BY <1>1 DEF FetchShape
<1>3. open = followed + 1  BY DEF FetchInv, Accounts
<1>4. Accounts'
  <2>1. followed' <= Budget(fetches')  BY WithinBudget
  <2>2. open' = followed' + 0  BY <1>1, <1>3
  <2> QED  BY <2>1, <2>2 DEF Accounts
<1>5. Received' /\ Printed'  BY DEF Received, Printed
<1> QED  BY <1>2, <1>4, <1>5 DEF FetchInv

LEMMA FetchSendFails == ASSUME FetchInv, Fetches!SendFails PROVE FetchInv'
<1>1. /\ fetchPc = "send" /\ fetchPc' = "main" /\ result' = "unknown" /\ open' = open - 1
      /\ UNCHANGED <<program, fetches, frame, requests, left, buffer, followed>>
      /\ response' = response
  BY DEF Fetches!SendFails, Fetches!Return
<1>2. /\ response' \in Seq(Printable)
      /\ \A k \in 1..Len(response') : response'[k][1] <= requests
  BY <1>1 DEF FetchInv, FetchShape, Printed
<1>3. FetchIsPrefix'  BY <1>1, NoSuccess
<1> QED  BY <1>1, <1>2, <1>3, ReturnKeeps

\* The innermost call goes on, and only what it sent or lost is new.
LEMMA GoesOn ==
  ASSUME FetchInv, fetchPc # "main", fetchPc' \in {"send", "recv"},
         UNCHANGED <<program, fetches, frame, requests, open, left, buffer, response,
                     followed>>
  PROVE  FetchInv'
<1>1. FetchShape'  BY DEF FetchInv, FetchShape
<1>2. Accounts'  BY DEF FetchInv, Accounts
<1>3. Received'  BY DEF FetchInv, Received
<1>4. Printed'  BY DEF FetchInv, Printed
<1>5. FetchIsPrefix'  BY NoSuccess
<1> QED  BY <1>1, <1>2, <1>3, <1>4, <1>5 DEF FetchInv

LEMMA FetchSend == ASSUME FetchInv, Fetches!Send PROVE FetchInv'
BY GoesOn DEF Fetches!Send

LEMMA FetchBreak == ASSUME FetchInv, Fetches!Break PROVE FetchInv'
<1>1. CASE program = "plain"
  <2>1. /\ fetchPc = "recv" /\ fetchPc' = "main" /\ result' = "unknown" /\ open' = open - 1
        /\ UNCHANGED <<program, fetches, frame, requests, left, buffer, followed>>
        /\ response' = response
    BY <1>1 DEF Fetches!Break, Fetches!Return
  <2>2. /\ response' \in Seq(Printable)
        /\ \A k \in 1..Len(response') : response'[k][1] <= requests
    BY <2>1 DEF FetchInv, FetchShape, Printed
  <2>3. FetchIsPrefix'  BY <2>1, NoSuccess
  <2> QED  BY <2>1, <2>2, <2>3, ReturnKeeps
<1>2. CASE program # "plain"
  BY <1>2, GoesOn DEF Fetches!Break
<1> QED  BY <1>1, <1>2

LEMMA FetchReturnPage == ASSUME FetchInv, Fetches!ReturnPage PROVE FetchInv'
<1>1. /\ fetchPc = "recv" /\ fetchPc' = "main" /\ open' = open - 1
      /\ Fetches!AtEnd \/ broken
      /\ UNCHANGED <<program, fetches, frame, requests, left, buffer, followed>>
      /\ broken' = broken
  BY DEF Fetches!ReturnPage, Fetches!Return
<1>2. CASE result' = "unknown" /\ response' = response
  <2>1. /\ response' \in Seq(Printable)
        /\ \A k \in 1..Len(response') : response'[k][1] <= requests
    BY <1>1, <1>2 DEF FetchInv, FetchShape, Printed
  <2>2. FetchIsPrefix'  BY <1>2, NoSuccess
  <2> QED  BY <1>1, <2>1, <2>2, ReturnKeeps
<1>3. CASE Fetches!Copied
  <2>1. /\ response' \in Seq(Printable)
        /\ Len(buffer) \in 0..Len(response')
        /\ \A k \in 1..Len(buffer) : response'[k] = <<requests, k>>
        /\ \A k \in Len(buffer) + 1..Len(response') :
              response'[k][1] \in Nat /\ response'[k][1] < requests
    BY <1>1, <1>3, CopiedIs
  <2>2. requests \in Nat /\ Len(response') \in Nat
    BY <2>1, LenProperties DEF FetchInv, FetchShape
  <2>3. ASSUME NEW k \in 1..Len(response') PROVE response'[k][1] <= requests
    <3>1. CASE k \in 1..Len(buffer)  BY <2>1, <2>2, <3>1
    <3>2. CASE k \in Len(buffer) + 1..Len(response')  BY <2>1, <2>2, <3>2
    <3> QED  BY <2>1, <2>2, <3>1, <3>2
  <2>4. Len(buffer) = Page \/ Len(buffer) = Buffer \/ broken
    <3>1. /\ left \in Nat /\ Len(buffer) \in Nat /\ Len(buffer) = Page - left
          /\ Page \in Nat /\ Buffer \in Nat
      BY <1>1, Naturally, LenProperties DEF FetchInv, FetchShape, Received
    <3>2. CASE left = 0  BY <3>1, <3>2
    <3>3. CASE Fetches!Room = 0
      BY <3>1, <3>3 DEF Fetches!Room
    <3> QED  BY <1>1, <3>2, <3>3 DEF Fetches!AtEnd
  <2>5. ASSUME NEW k \in Len(buffer) + 1..Len(response') PROVE response'[k][1] # requests
    BY <2>1, <2>2
  <2>6. FetchIsPrefix'
    <3>1. PICK n \in 0..Len(response') : n = Len(buffer)  BY <2>1
    <3>2. /\ \A k \in 1..n : response'[k] = <<requests', k>>
          /\ \A k \in n + 1..Len(response') : response'[k][1] # requests'
          /\ n = Page \/ n = Buffer \/ broken'
      BY <1>1, <2>1, <2>4, <2>5, <3>1
    <3> QED  BY <3>2 DEF FetchIsPrefix, Fetches!FetchIsPrefix
  <2> QED  BY <1>1, <2>1, <2>3, <2>6, ReturnKeeps
<1> QED  BY <1>2, <1>3 DEF Fetches!ReturnPage, Fetches!Return

LEMMA FetchReceive == ASSUME FetchInv, Fetches!Receive PROVE FetchInv'
<1>1. /\ fetchPc = "recv" /\ fetchPc' = "recv"
      /\ UNCHANGED <<program, fetches, frame, requests, open, response, followed>>
  BY DEF Fetches!Receive
<1>2. PICK n \in 1..left :
        /\ n <= Fetches!Room /\ left' = left - n
        /\ buffer' = buffer \o [k \in 1..n |-> Page - left + k]
  BY DEF Fetches!Receive, Fetches!Store
<1>3. /\ left \in Nat /\ buffer \in Seq(Nat) /\ Len(buffer) \in Nat
      /\ left <= Page /\ Len(buffer) = Page - left
      /\ \A k \in 1..Len(buffer) : buffer[k] = k
      /\ Page \in Nat /\ Buffer \in Nat
  BY <1>1, Naturally, LenProperties DEF FetchInv, FetchShape, Received
<1> DEFINE piece == [k \in 1..n |-> Page - left + k]
<1>4. piece \in Seq(Nat) /\ Len(piece) = n
  <2>1. n \in Nat  BY <1>2, <1>3
  <2>2. \A k \in 1..n : Page - left + k \in Nat  BY <1>3, <2>1
  <2>3. piece \in [1..n -> Nat]  BY <2>2
  <2>4. piece \in Seq(Nat)  BY <2>1, <2>3, SeqDef
  <2> QED  BY <2>1, <2>4, LenProperties
<1>5. \A k \in 1..n : piece[k] = Len(buffer) + k  BY <1>3
<1>6. buffer' = buffer \o piece  BY <1>2
<1> HIDE DEF piece
<1>7. /\ buffer' \in Seq(Nat) /\ Len(buffer') = Len(buffer) + n
      /\ \A k \in 1..Len(buffer) + n :
            buffer'[k] = IF k <= Len(buffer) THEN buffer[k] ELSE piece[k - Len(buffer)]
  <2>1. /\ buffer \o piece \in Seq(Nat) /\ Len(buffer \o piece) = Len(buffer) + Len(piece)
        /\ \A k \in 1..Len(buffer) + Len(piece) :
              (buffer \o piece)[k] = IF k <= Len(buffer) THEN buffer[k]
                                      ELSE piece[k - Len(buffer)]
    BY <1>3, <1>4, ConcatProperties
  <2>2. buffer \o piece \in Seq(Nat) /\ Len(buffer \o piece) = Len(buffer) + n
    BY <1>4, <2>1
  <2>3. \A k \in 1..Len(buffer) + n :
           (buffer \o piece)[k] = IF k <= Len(buffer) THEN buffer[k]
                                   ELSE piece[k - Len(buffer)]
    BY <1>4, <2>1
  <2> QED  BY <1>6, <2>2, <2>3
<1>8. n \in Nat /\ n >= 1 /\ n <= left
  <2>1. \A k \in 1..left : k \in Nat /\ k >= 1 /\ k <= left  BY <1>3
  <2> QED  BY <1>2, <2>1
<1>9. ASSUME NEW k \in 1..Len(buffer') PROVE buffer'[k] = k
  <2>1. k \in 1..Len(buffer) + n  BY <1>7
  <2>2. CASE k <= Len(buffer)
    <3>1. k \in 1..Len(buffer)  BY <1>3, <1>8, <2>1, <2>2
    <3>2. buffer'[k] = buffer[k]  BY <1>7, <2>1, <2>2
    <3> QED  BY <1>3, <3>1, <3>2
  <2>3. CASE ~(k <= Len(buffer))
    <3>1. k - Len(buffer) \in 1..n /\ buffer'[k] = piece[k - Len(buffer)]
      BY <1>3, <1>7, <1>8, <2>1, <2>3
    <3> QED  BY <1>3, <1>5, <2>1, <3>1
  <2> QED  BY <2>2, <2>3
<1>10. left' \in Nat /\ left' <= Page /\ Len(buffer') = Page - left'
  BY <1>2, <1>3, <1>7, <1>8
<1>11. program = "plain" \/ Len(buffer') <= Buffer
  BY <1>2, <1>3, <1>7, <1>8 DEF Fetches!Room
<1>12. FetchShape'  BY <1>1, <1>7, <1>10 DEF FetchInv, FetchShape
<1>13. Accounts'  BY <1>1 DEF FetchInv, Accounts
<1>14. Received'  BY <1>1, <1>9, <1>10, <1>11 DEF Received
<1>15. Printed'  BY <1>1 DEF FetchInv, Printed
<1>16. FetchIsPrefix'  BY <1>1, NoSuccess
<1> QED  BY <1>12, <1>13, <1>14, <1>15, <1>16 DEF FetchInv

LEMMA FetchSame == FetchInv /\ UNCHANGED fetchVars => FetchInv'
<1> SUFFICES ASSUME FetchInv, UNCHANGED fetchVars PROVE FetchInv'  OBVIOUS
<1>1. /\ program' = program /\ fetches' = fetches /\ frame' = frame
      /\ requests' = requests /\ fetchPc' = fetchPc /\ open' = open /\ left' = left
      /\ broken' = broken /\ buffer' = buffer /\ response' = response
      /\ result' = result /\ followed' = followed
  BY DEF fetchVars
<1>2. FetchShape' /\ Accounts'  BY <1>1 DEF FetchInv, FetchShape, Accounts
<1>3. Received' /\ Printed'  BY <1>1 DEF FetchInv, Received, Printed
<1>4. FetchIsPrefix'  BY <1>1 DEF FetchInv, FetchIsPrefix, Fetches!FetchIsPrefix
<1> QED  BY <1>2, <1>3, <1>4 DEF FetchInv

LEMMA FetchNext == FetchInv /\ [RunServer \/ RunFetch \/ RunStart]_allVars => FetchInv'
<1> SUFFICES ASSUME FetchInv, [RunServer \/ RunFetch \/ RunStart]_allVars PROVE FetchInv'
  OBVIOUS
<1>1. CASE Fetches!Next
  BY <1>1, FetchFetch, FetchSend, FetchSendFails, FetchReceive, FetchBreak,
     FetchReturnPage, FetchRedirect DEF Fetches!Next
<1>2. CASE UNCHANGED fetchVars  BY <1>2, FetchSame
<1> QED  BY <1>1, <1>2 DEF RunServer, RunFetch, RunStart, allVars

LEMMA FetchImplies == FetchInv => FetchReleases
<1> SUFFICES ASSUME FetchInv PROVE FetchReleases  OBVIOUS
<1>1. followed <= fetches * (MaxRedirection + 1)  BY WithinBudget DEF Budget
<1> QED  BY <1>1 DEF FetchInv, Accounts, FetchReleases, Fetches!FetchReleases

\* A fetch releases the socket and the address list it acquired on every
\* path, but one of each per redirection it followed, whose return skips the
\* release (07_http_redirection.c 140-146); one call of main leaves at most
\* MAX_REDIRECTION + 1 of them, for every limit and number of calls.
THEOREM AlwaysFetchReleases == MCSpec => []FetchReleases
<1>1. MCInit => FetchInv  BY FetchInit DEF MCInit
<1> QED  BY <1>1, FetchNext, FetchImplies, PTL DEF MCSpec

\* A fetch that reports success has put out the page received last from its
\* first unit on and in order, and behind it only what earlier calls left
\* (07_http_redirection.c 112-124), for every size of page and buffer.
THEOREM AlwaysFetchIsPrefix == MCSpec => []FetchIsPrefix
<1>1. MCInit => FetchInv  BY FetchInit DEF MCInit
<1>2. FetchInv => FetchIsPrefix  BY DEF FetchInv
<1> QED  BY <1>1, <1>2, FetchNext, PTL DEF MCSpec

-----------------------------------------------------------------------------
(* The starts.                                                             *)

Names == {"getprotobyname", "getservbyname", "getaddrinfo", "socket", "bind", "listen",
          "connect", "setsockopt", "fcntl", "calloc", "SSL_CTX_new",
          "SSL_CTX_use_certificate_file", "SSL_CTX_use_PrivateKey_file", "SSL_new",
          "SSL_connect"}

Calls == [call : Names, gets : SUBSET Start!Resources, frees : SUBSET Start!Resources,
          onFailure : {"gives up", "goes on", "crashes"}]

\* What the first n calls of a chain acquire, beside what was held before.
Acquired(c, had, n) == had \cup UNION {c[k].gets : k \in 1..n}

\* A call releases what there is, all of it unless Leaks says otherwise; what
\* may fail unnoticed acquires nothing; what nobody tests is in Uncaught.
Tidy(step, had, p) ==
    /\ step \in Calls
    /\ step.frees \subseteq had
    /\ step.onFailure = "gives up"
          => (had \ step.frees # {} <=> <<p, step.call>> \in Start!Leaks)
    /\ step.onFailure = "goes on" => step.gets = {}
    /\ step.onFailure = "crashes" => <<p, step.call>> \in Start!Uncaught

\* Every call of a chain is tidy where it stands; has is held in the end.
Sound(c, had, has, p) ==
    /\ c \in Seq(Calls)
    /\ \A n \in 1..Len(c) : Tidy(c[n], Acquired(c, had, n - 1), p)
    /\ Acquired(c, had, Len(c)) = has

LEMMA AcquiredNone == ASSUME NEW c, NEW had PROVE Acquired(c, had, 0) = had
  BY DEF Acquired

LEMMA AcquiredMore ==
  ASSUME NEW c, NEW had, NEW n \in Nat
  PROVE  Acquired(c, had, n + 1) = Acquired(c, had, n) \cup c[n + 1].gets
<1>1. 1..n + 1 = 1..n \cup {n + 1}  OBVIOUS
<1> QED  BY <1>1 DEF Acquired

LEMMA Joined ==
  ASSUME NEW S, NEW a \in Seq(S), NEW b \in Seq(S), NEW m, NEW n, m = Len(a), n = Len(b),
         NEW c, c = a \o b
  PROVE  /\ m \in Nat /\ n \in Nat
         /\ c \in Seq(S) /\ Len(c) = m + n
         /\ \A k \in 1..m : c[k] = a[k]
         /\ \A k \in 1..n : c[m + k] = b[k]
<1>1. m \in Nat /\ n \in Nat /\ c \in Seq(S) /\ Len(c) = m + n  BY ConcatProperties
<1>2. ASSUME NEW k \in 1..m PROVE c[k] = a[k]  OBVIOUS
<1>3. ASSUME NEW k \in 1..n PROVE c[m + k] = b[k]  OBVIOUS
<1> QED  BY <1>1, <1>2, <1>3

LEMMA AcquiredHas ==
  ASSUME NEW c, NEW had, NEW n, NEW x
  PROVE  x \in Acquired(c, had, n) <=> x \in had \/ \E k \in 1..n : x \in c[k].gets
  BY DEF Acquired

\* One chain after the other.
LEMMA SoundConcat ==
  ASSUME NEW a, NEW b, NEW had, NEW mid, NEW has, NEW p,
         Sound(a, had, mid, p), Sound(b, mid, has, p)
  PROVE  Sound(a \o b, had, has, p)
<1> DEFINE c == a \o b
           m == Len(a)
           n == Len(b)
<1>1. m \in Nat /\ n \in Nat  BY Joined DEF Sound
<1>2. /\ c \in Seq(Calls) /\ Len(c) = m + n
      /\ \A k \in 1..m : c[k] = a[k]
      /\ \A k \in 1..n : c[m + k] = b[k]
  BY Joined DEF Sound
<1> HIDE DEF c, m, n
<1>3. \A k \in 0..m : Acquired(c, had, k) = Acquired(a, had, k)
  <2> TAKE k \in 0..m
  <2>1. \A j \in 1..k : c[j] = a[j]  BY <1>1, <1>2
  <2> QED  BY <2>1 DEF Acquired
<1>4. Acquired(c, had, m) = mid
  <2>1. m \in 0..m  BY <1>1
  <2> QED  BY <1>3, <2>1 DEF Sound, m
<1>5. ASSUME NEW k \in 0..n PROVE Acquired(c, had, m + k) = Acquired(b, mid, k)
  <2>1. \A j : j \in 1..m + k <=> j \in 1..m \/ \E l \in 1..k : j = m + l
    <3>1. \A j \in 1..m + k : j \in 1..m \/ (j - m \in 1..k /\ j = m + (j - m))  BY <1>1
    <3>2. \A j \in 1..m : j \in 1..m + k  BY <1>1
    <3>3. \A l \in 1..k : m + l \in 1..m + k  BY <1>1
    <3> QED  BY <3>1, <3>2, <3>3
  <2>2. \A l \in 1..k : c[m + l] = b[l]  BY <1>1, <1>2
  <2>3. ASSUME NEW x
        PROVE  x \in Acquired(c, had, m + k) <=> x \in Acquired(b, mid, k)
    <3>1. (\E j \in 1..m + k : x \in c[j].gets)
            <=> (\E j \in 1..m : x \in c[j].gets) \/ (\E l \in 1..k : x \in b[l].gets)
      BY <2>1, <2>2
    <3>2. x \in mid <=> x \in had \/ \E j \in 1..m : x \in c[j].gets
      BY <1>4, AcquiredHas
    <3>3. x \in Acquired(c, had, m + k) <=> x \in had \/ \E j \in 1..m + k : x \in c[j].gets
      BY AcquiredHas
    <3>4. x \in Acquired(b, mid, k) <=> x \in mid \/ \E l \in 1..k : x \in b[l].gets
      BY AcquiredHas
    <3> QED  BY <3>1, <3>2, <3>3, <3>4
  <2> QED  BY <2>3
<1>6. ASSUME NEW k \in 1..m + n PROVE Tidy(c[k], Acquired(c, had, k - 1), p)
  <2>1. CASE k <= m
    <3>1. k \in 1..m /\ k - 1 \in 0..m  BY <1>1, <2>1
    <3>2. Tidy(a[k], Acquired(a, had, k - 1), p)  BY <3>1 DEF Sound, m
    <3> QED  BY <1>2, <1>3, <3>1, <3>2
  <2>2. CASE k > m
    <3>1. PICK l \in 1..n : k = m + l
      <4>1. k - m \in 1..n /\ k = m + (k - m)  BY <1>1, <2>2
      <4> QED  BY <4>1
    <3>2. l - 1 \in 0..n /\ m + (l - 1) = k - 1  BY <1>1, <3>1
    <3>3. Tidy(b[l], Acquired(b, mid, l - 1), p)  BY DEF Sound, n
    <3>4. Acquired(c, had, k - 1) = Acquired(b, mid, l - 1)  BY <1>5, <3>2
    <3>5. c[k] = b[l]  BY <1>2, <3>1
    <3> QED  BY <3>3, <3>4, <3>5
  <2> QED  BY <1>1, <2>1, <2>2
<1>7. Acquired(c, had, m + n) = has
  <2>1. n \in 0..n  BY <1>1
  <2> QED  BY <1>5, <2>1 DEF Sound, n
<1> QED  BY <1>2, <1>6, <1>7 DEF Sound, c

\* One call more.
LEMMA SoundMore ==
  ASSUME NEW c, NEW step, NEW had, NEW mid, NEW has, NEW p,
         Sound(c, had, mid, p), Tidy(step, mid, p), has = mid \cup step.gets
  PROVE  Sound(Append(c, step), had, has, p)
<1> DEFINE d == Append(c, step)
           m == Len(c)
<1>1. m \in Nat /\ c \in Seq(Calls) /\ step \in Calls  BY LenProperties DEF Sound, Tidy
<1>2. d \in Seq(Calls) /\ Len(d) = m + 1 /\ d[m + 1] = step
      /\ \A k \in 1..m : d[k] = c[k]
  BY <1>1, AppendProperties
<1> HIDE DEF d, m
<1>3. \A k \in 0..m : Acquired(d, had, k) = Acquired(c, had, k)
  <2> TAKE k \in 0..m
  <2>1. \A j \in 1..k : d[j] = c[j]  BY <1>1, <1>2
  <2> QED  BY <2>1 DEF Acquired
<1>4. Acquired(d, had, m) = mid
  <2>1. m \in 0..m  BY <1>1
  <2> QED  BY <1>3, <2>1 DEF Sound, m
<1>5. ASSUME NEW k \in 1..m + 1 PROVE Tidy(d[k], Acquired(d, had, k - 1), p)
  <2>1. CASE k = m + 1
    <3>1. k - 1 = m  BY <1>1, <2>1
    <3> QED  BY <1>2, <1>4, <2>1, <3>1
  <2>2. CASE k # m + 1
    <3>1. k \in 1..m /\ k - 1 \in 0..m  BY <1>1, <2>2
    <3>2. Tidy(c[k], Acquired(c, had, k - 1), p)  BY <3>1 DEF Sound, m
    <3> QED  BY <1>2, <1>3, <3>1, <3>2
  <2> QED  BY <2>1, <2>2
<1>6. Acquired(d, had, m + 1) = has  BY <1>1, <1>2, <1>4, AcquiredMore
<1> QED  BY <1>2, <1>5, <1>6 DEF Sound, d

LEMMA SoundNone == ASSUME NEW had, NEW p PROVE Sound(<<>>, had, had, p)
  BY AcquiredNone DEF Sound

\* Chains written out.
LEMMA SoundOne ==
  ASSUME NEW x, NEW h0, NEW h1, NEW p, Tidy(x, h0, p), h1 = h0 \cup x.gets
  PROVE  Sound(<<x>>, h0, h1, p)
<1>1. Sound(Append(<<>>, x), h0, h1, p)  BY SoundNone, SoundMore
<1>2. <<x>> = Append(<<>>, x)  OBVIOUS
<1> QED  BY <1>1, <1>2

LEMMA SoundTwo ==
  ASSUME NEW x, NEW y, NEW h0, NEW h1, NEW h2, NEW p,
         Tidy(x, h0, p), h1 = h0 \cup x.gets, Tidy(y, h1, p), h2 = h1 \cup y.gets
  PROVE  Sound(<<x, y>>, h0, h2, p)
<1>1. Sound(<<x>>, h0, h1, p)  BY SoundOne
<1>2. Sound(Append(<<x>>, y), h0, h2, p)  BY <1>1, SoundMore
<1>3. <<x, y>> = Append(<<x>>, y)  OBVIOUS
<1> QED  BY <1>2, <1>3

LEMMA SoundThree ==
  ASSUME NEW x, NEW y, NEW z, NEW h0, NEW h1, NEW h2, NEW h3, NEW p,
         Tidy(x, h0, p), h1 = h0 \cup x.gets, Tidy(y, h1, p), h2 = h1 \cup y.gets,
         Tidy(z, h2, p), h3 = h2 \cup z.gets
  PROVE  Sound(<<x, y, z>>, h0, h3, p)
<1>1. Sound(<<x, y>>, h0, h2, p)  BY SoundTwo
<1>2. Sound(Append(<<x, y>>, z), h0, h3, p)  BY <1>1, SoundMore
<1>3. <<x, y, z>> = Append(<<x, y>>, z)  OBVIOUS
<1> QED  BY <1>2, <1>3

LEMMA SoundFour ==
  ASSUME NEW x, NEW y, NEW z, NEW u, NEW h0, NEW h1, NEW h2, NEW h3, NEW h4, NEW p,
         Tidy(x, h0, p), h1 = h0 \cup x.gets, Tidy(y, h1, p), h2 = h1 \cup y.gets,
         Tidy(z, h2, p), h3 = h2 \cup z.gets, Tidy(u, h3, p), h4 = h3 \cup u.gets
  PROVE  Sound(<<x, y, z, u>>, h0, h4, p)
<1>1. Sound(<<x, y, z>>, h0, h3, p)  BY SoundThree
<1>2. Sound(Append(<<x, y, z>>, u), h0, h4, p)  BY <1>1, SoundMore
<1>3. <<x, y, z, u>> = Append(<<x, y, z>>, u)  OBVIOUS
<1> QED  BY <1>2, <1>3

-----------------------------------------------------------------------------
(* A start is as clean as its chain.                                       *)

StartInv ==
    /\ name \in DOMAIN Start!Programs /\ at \in Nat
    /\ state \in {"starting", "failed", "crashed"} => at < Len(Start!Chain)
    /\ state = "starting" => held = Acquired(Start!Chain, {}, at)
    /\ state = "failed" => /\ Start!Call.onFailure = "gives up"
                           /\ held = Acquired(Start!Chain, {}, at) \ Start!Call.frees
    /\ state = "crashed" => Start!Call.onFailure = "crashes"
    /\ state = "ready" => held = Acquired(Start!Chain, {}, Len(Start!Chain))
    /\ state \in {"starting", "failed", "crashed", "ready"}

Clean(c, p) == \E has : "sock" \in has /\ Sound(c, {}, has, p)

AllClean == \A p \in DOMAIN Start!Programs : Clean(Start!Programs[p], p)

LEMMA StartInit == ASSUME AllClean, Start!Init PROVE StartInv
<1>1. name \in DOMAIN Start!Programs /\ at = 0 /\ held = {} /\ state = "starting"
  BY DEF Start!Init
<1>2. 0 < Len(Start!Chain)
  <2>1. PICK has : "sock" \in has /\ Sound(Start!Chain, {}, has, name)
    BY <1>1 DEF AllClean, Clean, Start!Chain
  <2>2. Len(Start!Chain) \in Nat  BY <2>1, LenProperties DEF Sound
  <2>3. Len(Start!Chain) # 0  BY <2>1, AcquiredNone DEF Sound
  <2> QED  BY <2>2, <2>3
<1> QED  BY <1>1, <1>2, AcquiredNone DEF StartInv

LEMMA StartStep == ASSUME AllClean, StartInv, Start!Next PROVE StartInv'
<1> DEFINE c == Start!Chain
           h == Acquired(c, {}, at)
<1>1. state = "starting" /\ name' = name /\ c' = c
  BY DEF Start!Next, Start!Succeeds, Start!Fails, Start!FailsAndGoesOn, Start!Crashes,
         Start!Chain
<1>2. name \in DOMAIN Start!Programs /\ at \in Nat /\ at < Len(c) /\ held = h
  BY <1>1 DEF StartInv
<1>3. PICK has : Sound(c, {}, has, name)  BY <1>2 DEF AllClean, Clean, Start!Chain
<1>4. Len(c) \in Nat  BY <1>3, LenProperties DEF Sound
<1>5. at + 1 \in 1..Len(c) /\ (at + 1) - 1 = at  BY <1>2, <1>4
<1>6. Tidy(Start!Call, h, name)  BY <1>3, <1>5 DEF Sound, Start!Call
<1>7. Acquired(c, {}, at + 1) = h \cup Start!Call.gets
  BY <1>2, AcquiredMore DEF Start!Call
<1> HIDE DEF c, h
<1>8. CASE Start!Fails
  <2>1. /\ at' = at /\ state' = "failed" /\ held' = held \ Start!Call.frees
        /\ Start!Call.onFailure = "gives up"
    BY <1>8 DEF Start!Fails
  <2>2. Start!Call' = Start!Call  BY <1>1, <2>1 DEF Start!Call, c
  <2> QED  BY <1>1, <1>2, <2>1, <2>2 DEF StartInv, c, h
<1>9. CASE Start!Succeeds \/ Start!FailsAndGoesOn
  <2>1. at' = at + 1 /\ held' = h \cup Start!Call.gets
    BY <1>2, <1>6, <1>9 DEF Start!Succeeds, Start!FailsAndGoesOn, Tidy
  <2>2. state' = IF at + 1 = Len(c) THEN "ready" ELSE "starting"
    BY <1>9 DEF Start!Succeeds, Start!FailsAndGoesOn, Start!Done, c
  <2>3. held' = Acquired(c, {}, at')  BY <1>7, <2>1
  <2>4. at' \in Nat /\ (at' # Len(c) => at' < Len(c))  BY <1>2, <1>4, <2>1
  <2> QED  BY <1>1, <1>2, <2>1, <2>2, <2>3, <2>4 DEF StartInv, c
<1>10. CASE Start!Crashes
  <2>1. at' = at /\ state' = "crashed" /\ Start!Call.onFailure = "crashes"
    BY <1>10 DEF Start!Crashes
  <2>2. Start!Call' = Start!Call  BY <1>1, <2>1 DEF Start!Call, c
  <2> QED  BY <1>1, <1>2, <2>1, <2>2 DEF StartInv, c, h
<1> QED  BY <1>8, <1>9, <1>10 DEF Start!Next

LEMMA StartImplies == ASSUME AllClean, StartInv PROVE FailsClean
<1> DEFINE c == Start!Chain
           h == Acquired(c, {}, at)
<1>1. name \in DOMAIN Start!Programs /\ at \in Nat  BY DEF StartInv
<1>2. PICK has : Sound(c, {}, has, name) /\ "sock" \in has
  BY <1>1 DEF AllClean, Clean, Start!Chain
<1>3. Len(c) \in Nat  BY <1>2, LenProperties DEF Sound
<1>4. ASSUME state \in {"starting", "failed", "crashed"} PROVE Tidy(Start!Call, h, name)
  <2>1. at < Len(c)  BY <1>4 DEF StartInv
  <2>2. at + 1 \in 1..Len(c) /\ (at + 1) - 1 = at  BY <1>1, <1>3, <2>1
  <2> QED  BY <1>2, <2>2 DEF Sound, Start!Call
<1>5. state = "failed" => (held # {} <=> <<name, Start!Call.call>> \in Start!Leaks)
  BY <1>4 DEF StartInv, Tidy
<1>6. state = "starting" => Start!Call.frees \subseteq held
  BY <1>4 DEF StartInv, Tidy
<1>7. state = "crashed" => <<name, Start!Call.call>> \in Start!Uncaught
  BY <1>4 DEF StartInv, Tidy
<1>8. state = "ready" => "sock" \in held  BY <1>2 DEF StartInv, Sound
<1> QED  BY <1>5, <1>6, <1>7, <1>8 DEF FailsClean, Start!FailsClean

-----------------------------------------------------------------------------
(* The chains.                                                             *)

Both == {"addr", "sock"}

\* The programs with a failure that leaves something.
Untidy == {"clientSsl", "https", "receiver14", "sender14"}

\* A failure that releases everything.
LEMMA Releases ==
  ASSUME NEW call \in Names, NEW gets \in SUBSET Start!Resources,
         NEW had \in SUBSET Start!Resources, NEW p, <<p, call>> \notin Start!Leaks
  PROVE  /\ Tidy(Start!Step(call, gets, had), had, p)
         /\ Start!Step(call, gets, had).gets = gets
  BY DEF Tidy, Calls, Start!Step

\* One that releases nothing.
LEMMA Strands ==
  ASSUME NEW call \in Names, NEW gets \in SUBSET Start!Resources,
         NEW had \in SUBSET Start!Resources, had # {}, NEW p, <<p, call>> \in Start!Leaks
  PROVE  /\ Tidy(Start!Step(call, gets, {}), had, p)
         /\ Start!Step(call, gets, {}).gets = gets
  BY DEF Tidy, Calls, Start!Step

LEMMA Passes ==
  ASSUME NEW call \in Names, NEW had, NEW p
  PROVE  Tidy(Start!Ignored(call), had, p) /\ Start!Ignored(call).gets = {}
  BY DEF Tidy, Calls, Start!Ignored, Start!Resources

\* One that nobody tests.
LEMMA Unguarded ==
  ASSUME NEW call \in Names, NEW gets \in SUBSET Start!Resources, NEW had,
         NEW p, <<p, call>> \in Start!Uncaught
  PROVE  /\ Tidy(Start!Untested(call, gets), had, p)
         /\ Start!Untested(call, gets).gets = gets
  BY DEF Tidy, Calls, Start!Untested, Start!Resources

LEMMA TidyPrograms ==
  ASSUME NEW p, p \notin Untidy, NEW call PROVE <<p, call>> \notin Start!Leaks
  BY DEF Untidy, Start!Leaks

LEMMA SoundOpens ==
  ASSUME NEW p, \A call \in {"getprotobyname", "getaddrinfo", "socket"} :
                    <<p, call>> \notin Start!Leaks
  PROVE  Sound(Start!Opens, {}, Both, p)
<1>1. {} \in SUBSET Start!Resources /\ {"addr"} \in SUBSET Start!Resources
      /\ {"sock"} \in SUBSET Start!Resources
  BY DEF Start!Resources
<1> DEFINE x == Start!Step("getprotobyname", {}, {})
           y == Start!Step("getaddrinfo", {"addr"}, {})
           z == Start!Step("socket", {"sock"}, {"addr"})
<1>2. Tidy(x, {}, p) /\ x.gets = {}
  <2>1. <<p, "getprotobyname">> \notin Start!Leaks /\ "getprotobyname" \in Names  BY DEF Names
  <2> QED  BY <1>1, <2>1, Releases
<1>3. Tidy(y, {}, p) /\ y.gets = {"addr"}
  <2>1. <<p, "getaddrinfo">> \notin Start!Leaks /\ "getaddrinfo" \in Names  BY DEF Names
  <2> QED  BY <1>1, <2>1, Releases
<1>4. Tidy(z, {"addr"}, p) /\ z.gets = {"sock"}
  <2>1. <<p, "socket">> \notin Start!Leaks /\ "socket" \in Names  BY DEF Names
  <2> QED  BY <1>1, <2>1, Releases
<1> HIDE DEF x, y, z
<1>5. {"addr"} = {} \cup y.gets /\ {} = {} \cup x.gets /\ Both = {"addr"} \cup z.gets
  BY <1>2, <1>3, <1>4 DEF Both
<1>6. Sound(<<x, y, z>>, {}, Both, p)  BY <1>2, <1>3, <1>4, <1>5, SoundThree
<1> QED  BY <1>6 DEF Start!Opens, x, y, z

\* A last call that acquires nothing.
LEMMA SoundCloses ==
  ASSUME NEW call \in Names, NEW p, <<p, call>> \notin Start!Leaks
  PROVE  Sound(<<Start!Step(call, {}, {"addr", "sock"})>>, Both, Both, p)
<1>1. {} \in SUBSET Start!Resources /\ Both \in SUBSET Start!Resources
  BY DEF Start!Resources, Both
<1> DEFINE x == Start!Step(call, {}, {"addr", "sock"})
<1>2. Tidy(x, Both, p) /\ x.gets = {}
  <2>1. Tidy(Start!Step(call, {}, Both), Both, p) /\ Start!Step(call, {}, Both).gets = {}
    BY <1>1, Releases
  <2> QED  BY <2>1 DEF Both
<1> HIDE DEF x
<1>3. Both = Both \cup x.gets  BY <1>2
<1>4. Sound(<<x>>, Both, Both, p)  BY <1>2, <1>3, SoundOne
<1> QED  BY <1>4 DEF x

LEMMA SoundPasses ==
  ASSUME NEW call \in Names, NEW p PROVE Sound(<<Start!Ignored(call)>>, Both, Both, p)
<1> DEFINE x == Start!Ignored(call)
<1>1. Tidy(x, Both, p) /\ Both = Both \cup x.gets  BY Passes
<1> HIDE DEF x
<1>2. Sound(<<x>>, Both, Both, p)  BY <1>1, SoundOne
<1> QED  BY <1>2 DEF x

LEMMA SoundListens ==
  ASSUME NEW p, p \notin Untidy, NEW options, Sound(options, Both, Both, p)
  PROVE  Sound(Start!Listens(options), {}, Both, p)
<1>1. Sound(Start!Opens, {}, Both, p)  BY TidyPrograms, SoundOpens
<1>2. Sound(Start!Binds, Both, Both, p)
  <2>1. <<p, "bind">> \notin Start!Leaks /\ "bind" \in Names  BY TidyPrograms DEF Names
  <2> QED  BY <2>1, SoundCloses DEF Start!Binds
<1>3. Sound(<<Start!Step("listen", {}, {"addr", "sock"})>>, Both, Both, p)
  <2>1. <<p, "listen">> \notin Start!Leaks /\ "listen" \in Names  BY TidyPrograms DEF Names
  <2> QED  BY <2>1, SoundCloses
<1>4. Sound(Start!Opens \o options, {}, Both, p)  BY <1>1, SoundConcat
<1>5. Sound(Start!Opens \o options \o Start!Binds, {}, Both, p)  BY <1>2, <1>4, SoundConcat
<1>6. Sound(Start!Opens \o options \o Start!Binds
              \o <<Start!Step("listen", {}, {"addr", "sock"})>>, {}, Both, p)
  BY <1>3, <1>5, SoundConcat
<1> QED  BY <1>6 DEF Start!Listens

LEMMA SoundConnects ==
  ASSUME NEW p, p \notin Untidy PROVE Sound(Start!Connects, {}, Both, p)
<1>1. Sound(Start!Opens, {}, Both, p)  BY TidyPrograms, SoundOpens
<1>2. <<p, "connect">> \notin Start!Leaks /\ "connect" \in Names  BY TidyPrograms DEF Names
<1>3. Sound(<<Start!Step("connect", {}, {"addr", "sock"})>>, Both, Both, p)
  BY <1>2, SoundCloses
<1> QED  BY <1>1, <1>3, SoundConcat DEF Start!Connects

LEMMA WithoutFirst ==
  \A x, y, z, u : /\ Len(<<x, y, z>> \o <<u>>) = 4
                  /\ SubSeq(<<x, y, z>> \o <<u>>, 2, 4) = <<y, z, u>>
<1> TAKE x, y, z, u
<1> DEFINE S == {x, y, z, u}
           c == <<x, y, z>> \o <<u>>
<1>1. <<x, y, z>> \in Seq(S) /\ <<u>> \in Seq(S) /\ <<y, z, u>> \in Seq(S)  OBVIOUS
<1>2. c \in Seq(S) /\ Len(c) = 4  BY <1>1
<1>3. c[2] = y /\ c[3] = z /\ c[4] = u  BY <1>1
<1>4. SubSeq(c, 2, 4) \in Seq(S) /\ Len(SubSeq(c, 2, 4)) = 3  BY <1>2
<1>5. /\ SubSeq(c, 2, 4)[1] = c[2] /\ SubSeq(c, 2, 4)[2] = c[3]
      /\ SubSeq(c, 2, 4)[3] = c[4]
  BY <1>2
<1>6. \A k \in 1..3 : SubSeq(c, 2, 4)[k] = <<y, z, u>>[k]
  <2>1. 1..3 = {1, 2, 3}  OBVIOUS
  <2> QED  BY <1>3, <1>5, <2>1
<1>7. Len(<<y, z, u>>) = 3  OBVIOUS
<1> QED  BY <1>1, <1>2, <1>4, <1>6, <1>7, SeqEqual

\* Without the call it does not repeat, perform_http_request's chain is that
\* of the clients.
LEMMA SoundFetch07 == Sound(Start!Fetch07, {}, Both, "fetch07")
<1> DEFINE p == "fetch07"
           x == Start!Step("getprotobyname", {}, {})
           w == Start!Step("getservbyname", {}, {})
           y == Start!Step("getaddrinfo", {"addr"}, {})
           z == Start!Step("socket", {"sock"}, {"addr"})
           u == Start!Step("connect", {}, {"addr", "sock"})
<1>1. \A call : <<p, call>> \notin Start!Leaks  BY DEF Start!Leaks
<1>2. /\ {} \in SUBSET Start!Resources /\ {"addr"} \in SUBSET Start!Resources
      /\ {"sock"} \in SUBSET Start!Resources /\ Both \in SUBSET Start!Resources
  BY DEF Start!Resources, Both
<1>3. Tidy(x, {}, p) /\ x.gets = {}  BY <1>1, <1>2, Releases DEF Names
<1>4. Tidy(w, {}, p) /\ w.gets = {}  BY <1>1, <1>2, Releases DEF Names
<1>5. Tidy(y, {}, p) /\ y.gets = {"addr"}  BY <1>1, <1>2, Releases DEF Names
<1>6. Tidy(z, {"addr"}, p) /\ z.gets = {"sock"}  BY <1>1, <1>2, Releases DEF Names
<1>7. Tidy(u, Both, p) /\ u.gets = {}
  <2>1. u = Start!Step("connect", {}, Both)  BY DEF Both
  <2>2. <<p, "connect">> \notin Start!Leaks /\ "connect" \in Names  BY <1>1 DEF Names
  <2> HIDE DEF p, u
  <2> QED  BY <1>2, <2>1, <2>2, Releases
<1>8. SubSeq(Start!Connects, 2, Len(Start!Connects)) = <<y, z, u>>
  <2>1. Start!Connects = <<x, y, z>> \o <<u>>  BY DEF Start!Connects, Start!Opens
  <2> HIDE DEF x, y, z, u
  <2>2. Len(Start!Connects) = 4 /\ SubSeq(Start!Connects, 2, 4) = <<y, z, u>>
    BY <2>1, WithoutFirst
  <2> QED  BY <2>2
<1>9. Start!Fetch07 = <<x, w>> \o <<y, z, u>>  BY <1>8 DEF Start!Fetch07
<1> HIDE DEF x, w, y, z, u, p
<1>10. Sound(<<x, w>>, {}, {}, p)
  <2>1. {} = {} \cup x.gets /\ {} = {} \cup w.gets  BY <1>3, <1>4
  <2> QED  BY <1>3, <1>4, <2>1, SoundTwo
<1>11. Sound(<<y, z, u>>, {}, Both, p)
  <2>1. {"addr"} = {} \cup y.gets /\ Both = {"addr"} \cup z.gets /\ Both = Both \cup u.gets
    BY <1>5, <1>6, <1>7 DEF Both
  <2> QED  BY <1>5, <1>6, <1>7, <2>1, SoundThree
<1>12. Sound(Start!Fetch07, {}, Both, p)  BY <1>9, <1>10, <1>11, SoundConcat
<1> QED  BY <1>12 DEF p

Tls == {"addr", "sock", "ctx"}

Session == {"addr", "sock", "ctx", "ssl"}

LEMMA SoundServerSsl == Sound(Start!ServerSsl, {}, Session, "serverSsl")
<1> DEFINE p == "serverSsl"
           a == Start!Ignored("fcntl")
           b == Start!Ignored("setsockopt")
           x == Start!Step("SSL_CTX_new", {"ctx"}, {"addr", "sock"})
           y == Start!Step("SSL_CTX_use_certificate_file", {}, {"ctx", "addr", "sock"})
           z == Start!Step("SSL_CTX_use_PrivateKey_file", {}, {"ctx", "addr", "sock"})
           u == Start!Untested("SSL_new", {"ssl"})
<1>1. /\ p \notin Untidy
      /\ <<p, "SSL_CTX_new">> \notin Start!Leaks
      /\ <<p, "SSL_CTX_use_certificate_file">> \notin Start!Leaks
      /\ <<p, "SSL_CTX_use_PrivateKey_file">> \notin Start!Leaks
      /\ <<p, "SSL_new">> \in Start!Uncaught
  BY DEF Untidy, Start!Leaks, Start!Uncaught
<1>2. /\ {} \in SUBSET Start!Resources /\ {"ctx"} \in SUBSET Start!Resources
      /\ {"ssl"} \in SUBSET Start!Resources
      /\ Both \in SUBSET Start!Resources /\ Tls \in SUBSET Start!Resources
  BY DEF Start!Resources, Both, Tls
<1>3. Tidy(a, Both, p) /\ a.gets = {}  BY Passes DEF Names
<1>4. Tidy(b, Both, p) /\ b.gets = {}  BY Passes DEF Names
<1>5. Tidy(x, Both, p) /\ x.gets = {"ctx"}
  <2>1. x = Start!Step("SSL_CTX_new", {"ctx"}, Both)  BY DEF Both
  <2> QED  BY <1>1, <1>2, <2>1, Releases DEF Names
<1>6. Tidy(y, Tls, p) /\ y.gets = {}
  <2>1. {"ctx", "addr", "sock"} = Tls  BY DEF Tls
  <2>2. y = Start!Step("SSL_CTX_use_certificate_file", {}, Tls)  BY <2>1
  <2> QED  BY <1>1, <1>2, <2>2, Releases DEF Names
<1>7. Tidy(z, Tls, p) /\ z.gets = {}
  <2>1. {"ctx", "addr", "sock"} = Tls  BY DEF Tls
  <2>2. z = Start!Step("SSL_CTX_use_PrivateKey_file", {}, Tls)  BY <2>1
  <2> QED  BY <1>1, <1>2, <2>2, Releases DEF Names
<1>8. Tidy(u, Tls, p) /\ u.gets = {"ssl"}  BY <1>1, <1>2, Unguarded DEF Names
<1>9. Start!ServerSsl = Start!Listens(<<a, b>>) \o <<x, y, z, u>>  BY DEF Start!ServerSsl
<1> HIDE DEF p, a, b, x, y, z, u
<1>10. Sound(<<a, b>>, Both, Both, p)
  <2>1. Both = Both \cup a.gets /\ Both = Both \cup b.gets  BY <1>3, <1>4
  <2> QED  BY <1>3, <1>4, <2>1, SoundTwo
<1>11. Sound(Start!Listens(<<a, b>>), {}, Both, p)  BY <1>1, <1>10, SoundListens
<1>12. Sound(<<x, y, z, u>>, Both, Session, p)
  <2>1. /\ Tls = Both \cup x.gets /\ Tls = Tls \cup y.gets /\ Tls = Tls \cup z.gets
        /\ Session = Tls \cup u.gets
    BY <1>5, <1>6, <1>7, <1>8 DEF Both, Tls, Session
  <2> QED  BY <1>5, <1>6, <1>7, <1>8, <2>1, SoundFour
<1>13. Sound(Start!ServerSsl, {}, Session, p)  BY <1>9, <1>11, <1>12, SoundConcat
<1> QED  BY <1>13 DEF p

LEMMA SoundHandshake ==
  ASSUME NEW p \in {"clientSsl", "https"}
  PROVE  Sound(Start!Handshake, Both, Session, p)
<1> DEFINE x == Start!Step("SSL_CTX_new", {"ctx"}, {"addr", "sock"})
           y == Start!Step("SSL_new", {"ssl"}, {"ctx", "addr", "sock"})
           z == Start!Step("SSL_connect", {}, {"addr", "sock", "ctx", "ssl"})
<1>1. /\ <<p, "SSL_CTX_new">> \notin Start!Leaks /\ <<p, "SSL_new">> \notin Start!Leaks
      /\ <<p, "SSL_connect">> \notin Start!Leaks
  BY DEF Start!Leaks
<1>2. /\ {} \in SUBSET Start!Resources /\ {"ctx"} \in SUBSET Start!Resources
      /\ {"ssl"} \in SUBSET Start!Resources /\ Both \in SUBSET Start!Resources
      /\ Tls \in SUBSET Start!Resources /\ Session \in SUBSET Start!Resources
  BY DEF Start!Resources, Both, Tls, Session
<1>3. Tidy(x, Both, p) /\ x.gets = {"ctx"}
  <2>1. x = Start!Step("SSL_CTX_new", {"ctx"}, Both)  BY DEF Both
  <2> QED  BY <1>1, <1>2, <2>1, Releases DEF Names
<1>4. Tidy(y, Tls, p) /\ y.gets = {"ssl"}
  <2>1. {"ctx", "addr", "sock"} = Tls  BY DEF Tls
  <2>2. y = Start!Step("SSL_new", {"ssl"}, Tls)  BY <2>1
  <2> QED  BY <1>1, <1>2, <2>2, Releases DEF Names
<1>5. Tidy(z, Session, p) /\ z.gets = {}
  <2>1. z = Start!Step("SSL_connect", {}, Session)  BY DEF Session
  <2> QED  BY <1>1, <1>2, <2>1, Releases DEF Names
<1>6. Start!Handshake = <<x, y, z>>  BY DEF Start!Handshake
<1> HIDE DEF x, y, z
<1>7. Tls = Both \cup x.gets /\ Session = Tls \cup y.gets /\ Session = Session \cup z.gets
  BY <1>3, <1>4, <1>5 DEF Both, Tls, Session
<1> QED  BY <1>3, <1>4, <1>5, <1>6, <1>7, SoundThree

LEMMA SoundClientSsl == Sound(Start!ClientSsl, {}, Session, "clientSsl")
<1> DEFINE p == "clientSsl"
           u == Start!Step("connect", {}, {})
<1>1. Sound(Start!Opens, {}, Both, p)
  <2>1. \A call \in {"getprotobyname", "getaddrinfo", "socket"} :
            <<p, call>> \notin Start!Leaks
    BY DEF Start!Leaks
  <2> QED  BY <2>1, SoundOpens
<1>2. Tidy(u, Both, p) /\ u.gets = {}
  <2>1. <<p, "connect">> \in Start!Leaks /\ "connect" \in Names  BY DEF Start!Leaks, Names
  <2>2. {} \in SUBSET Start!Resources /\ Both \in SUBSET Start!Resources /\ Both # {}
    BY DEF Start!Resources, Both
  <2> QED  BY <2>1, <2>2, Strands
<1>3. Sound(Start!Handshake, Both, Session, p)  BY SoundHandshake
<1>4. Start!ClientSsl = Start!Opens \o <<u>> \o Start!Handshake  BY DEF Start!ClientSsl
<1> HIDE DEF p, u
<1>5. Sound(<<u>>, Both, Both, p)
  <2>1. Both = Both \cup u.gets  BY <1>2
  <2> QED  BY <1>2, <2>1, SoundOne
<1>6. Sound(Start!Opens \o <<u>>, {}, Both, p)  BY <1>1, <1>5, SoundConcat
<1>7. Sound(Start!ClientSsl, {}, Session, p)  BY <1>3, <1>4, <1>6, SoundConcat
<1> QED  BY <1>7 DEF p

LEMMA SoundHttps == Sound(Start!Https, {}, Session, "https")
<1> DEFINE p == "https"
           x == Start!Step("getprotobyname", {}, {})
           y == Start!Step("getaddrinfo", {"addr"}, {})
           z == Start!Step("socket", {"sock"}, {})
           u == Start!Step("connect", {}, {})
<1>1. /\ <<p, "getprotobyname">> \notin Start!Leaks /\ <<p, "getaddrinfo">> \notin Start!Leaks
      /\ <<p, "socket">> \in Start!Leaks /\ <<p, "connect">> \in Start!Leaks
  BY DEF Start!Leaks
<1>2. /\ {} \in SUBSET Start!Resources /\ {"addr"} \in SUBSET Start!Resources
      /\ {"sock"} \in SUBSET Start!Resources /\ Both \in SUBSET Start!Resources
      /\ {"addr"} # {} /\ Both # {}
  BY DEF Start!Resources, Both
<1>3. Tidy(x, {}, p) /\ x.gets = {}  BY <1>1, <1>2, Releases DEF Names
<1>4. Tidy(y, {}, p) /\ y.gets = {"addr"}  BY <1>1, <1>2, Releases DEF Names
<1>5. Tidy(z, {"addr"}, p) /\ z.gets = {"sock"}  BY <1>1, <1>2, Strands DEF Names
<1>6. Tidy(u, Both, p) /\ u.gets = {}  BY <1>1, <1>2, Strands DEF Names
<1>7. Sound(Start!Handshake, Both, Session, p)  BY SoundHandshake
<1>8. Start!Https = <<x, y, z, u>> \o Start!Handshake  BY DEF Start!Https
<1> HIDE DEF p, x, y, z, u
<1>9. Sound(<<x, y, z, u>>, {}, Both, p)
  <2>1. /\ {} = {} \cup x.gets /\ {"addr"} = {} \cup y.gets
        /\ Both = {"addr"} \cup z.gets /\ Both = Both \cup u.gets
    BY <1>3, <1>4, <1>5, <1>6 DEF Both
  <2> QED  BY <1>3, <1>4, <1>5, <1>6, <2>1, SoundFour
<1>10. Sound(Start!Https, {}, Session, p)  BY <1>7, <1>8, <1>9, SoundConcat
<1> QED  BY <1>10 DEF p

\* The two threads of tutorial 14: every failure they report leaves something,
\* and calloc's is not tested for.
LEMMA SoundThreads ==
  /\ Sound(Start!Receiver14, {}, {"info", "sock"}, "receiver14")
  /\ Sound(Start!Sender14, {}, {"info", "sock"}, "sender14")
<1> DEFINE x == Start!Untested("calloc", {"info"})
           y == Start!Step("socket", {"sock"}, {})
           z == Start!Step("setsockopt", {}, {})
           u == Start!Step("bind", {}, {})
           H == {"info", "sock"}
<1>1. /\ {} \in SUBSET Start!Resources /\ {"info"} \in SUBSET Start!Resources
      /\ {"sock"} \in SUBSET Start!Resources /\ H \in SUBSET Start!Resources
      /\ {"info"} # {} /\ H # {}
  BY DEF Start!Resources
<1>2. ASSUME NEW p \in {"receiver14", "sender14"}
      PROVE  /\ Tidy(x, {}, p) /\ x.gets = {"info"}
             /\ Tidy(y, {"info"}, p) /\ y.gets = {"sock"}
             /\ Tidy(z, H, p) /\ z.gets = {}
  <2>1. /\ <<p, "calloc">> \in Start!Uncaught /\ <<p, "socket">> \in Start!Leaks
        /\ <<p, "setsockopt">> \in Start!Leaks
    BY DEF Start!Leaks, Start!Uncaught
  <2>2. Tidy(x, {}, p) /\ x.gets = {"info"}  BY <1>1, <2>1, Unguarded DEF Names
  <2>3. Tidy(y, {"info"}, p) /\ y.gets = {"sock"}  BY <1>1, <2>1, Strands DEF Names
  <2>4. Tidy(z, H, p) /\ z.gets = {}  BY <1>1, <2>1, Strands DEF Names
  <2> QED  BY <2>2, <2>3, <2>4
<1>3. Tidy(u, H, "receiver14") /\ u.gets = {}
  <2>1. <<"receiver14", "bind">> \in Start!Leaks  BY DEF Start!Leaks
  <2> QED  BY <1>1, <2>1, Strands DEF Names
<1>4. Start!Receiver14 = <<x, y, z, u>> /\ Start!Sender14 = <<x, y, z>>
  BY DEF Start!Receiver14, Start!Sender14
<1> HIDE DEF x, y, z, u
<1>5. /\ {"info"} = {} \cup x.gets /\ H = {"info"} \cup y.gets
      /\ H = H \cup z.gets /\ H = H \cup u.gets
  <2>1. x.gets = {"info"} /\ y.gets = {"sock"} /\ z.gets = {}  BY <1>2
  <2> QED  BY <1>3, <2>1
<1> HIDE DEF H
<1>6. Sound(<<x, y, z, u>>, {}, H, "receiver14")  BY <1>2, <1>3, <1>5, SoundFour
<1>7. Sound(<<x, y, z>>, {}, H, "sender14")  BY <1>2, <1>5, SoundThree
<1> QED  BY <1>4, <1>6, <1>7 DEF H

LEMMA Listening ==
  ASSUME NEW p, p \notin Untidy, NEW call \in Names
  PROVE  Clean(Start!Listens(<<Start!Ignored(call)>>), p)
<1>1. Sound(Start!Listens(<<Start!Ignored(call)>>), {}, Both, p)
  BY SoundPasses, SoundListens
<1> QED  BY <1>1 DEF Clean, Both

LEMMA Connecting == ASSUME NEW p, p \notin Untidy PROVE Clean(Start!Connects, p)
  BY SoundConnects DEF Clean, Both

LEMMA Peers ==
  Clean(Start!Server10, "server10") /\ Clean(Start!Client10, "client10")
<1>1. "server10" \notin Untidy /\ "client10" \notin Untidy  BY DEF Untidy
<1>2. Sound(Start!Opens, {}, Both, "server10") /\ Sound(Start!Opens, {}, Both, "client10")
  BY <1>1, TidyPrograms, SoundOpens
<1>3. Sound(Start!Binds, Both, Both, "server10")
  <2>1. <<"server10", "bind">> \notin Start!Leaks /\ "bind" \in Names
    BY <1>1, TidyPrograms DEF Names
  <2> QED  BY <2>1, SoundCloses DEF Start!Binds
<1>4. Sound(Start!Opens \o Start!Binds, {}, Both, "server10")  BY <1>2, <1>3, SoundConcat
<1> QED  BY <1>2, <1>4 DEF Clean, Both, Start!Server10, Start!Client10

LEMMA EveryProgramClean == AllClean
<1> SUFFICES ASSUME NEW p \in DOMAIN Start!Programs PROVE Clean(Start!Programs[p], p)
  BY DEF AllClean
<1>1. CASE p \in {"server08", "server09"}
  <2>1. Start!Programs[p] = Start!Listens(<<Start!Ignored("setsockopt")>>)
    BY <1>1 DEF Start!Programs, Start!Server08, Start!Server09
  <2>2. p \notin Untidy /\ "setsockopt" \in Names  BY <1>1 DEF Untidy, Names
  <2> QED  BY <2>1, <2>2, Listening
<1>2. CASE p \in {"server11", "server12", "server13", "http"}
  <2>1. Start!Programs[p] = Start!Listens(<<Start!Ignored("fcntl")>>)
    BY <1>2 DEF Start!Programs, Start!Server11, Start!Server12, Start!Server13,
                Start!HttpSetup
  <2>2. p \notin Untidy /\ "fcntl" \in Names  BY <1>2 DEF Untidy, Names
  <2> QED  BY <2>1, <2>2, Listening
<1>3. CASE p \in {"client08", "client09", "client11", "client12", "client13"}
  <2>1. Start!Programs[p] = Start!Connects
    BY <1>3 DEF Start!Programs, Start!Client08, Start!Client09, Start!Client11,
                Start!Client12, Start!Client13
  <2>2. p \notin Untidy  BY <1>3 DEF Untidy
  <2> QED  BY <2>1, <2>2, Connecting
<1>4. CASE p \in {"server10", "client10"}
  <2>1. p = "server10" => Start!Programs[p] = Start!Server10  BY DEF Start!Programs
  <2>2. p = "client10" => Start!Programs[p] = Start!Client10  BY DEF Start!Programs
  <2> QED  BY <1>4, <2>1, <2>2, Peers
<1>5. CASE p = "fetch07"
  <2>1. Start!Programs[p] = Start!Fetch07  BY <1>5 DEF Start!Programs
  <2> QED  BY <1>5, <2>1, SoundFetch07 DEF Clean, Both
<1>6. CASE p = "serverSsl"
  <2>1. Start!Programs[p] = Start!ServerSsl  BY <1>6 DEF Start!Programs
  <2> QED  BY <1>6, <2>1, SoundServerSsl DEF Clean, Session
<1>7. CASE p = "clientSsl"
  <2>1. Start!Programs[p] = Start!ClientSsl  BY <1>7 DEF Start!Programs
  <2> QED  BY <1>7, <2>1, SoundClientSsl DEF Clean, Session
<1>8. CASE p = "https"
  <2>1. Start!Programs[p] = Start!Https  BY <1>8 DEF Start!Programs
  <2> QED  BY <1>8, <2>1, SoundHttps DEF Clean, Session
<1>9. CASE p \in {"receiver14", "sender14"}
  <2>1. p = "receiver14" => Start!Programs[p] = Start!Receiver14  BY DEF Start!Programs
  <2>2. p = "sender14" => Start!Programs[p] = Start!Sender14  BY DEF Start!Programs
  <2> QED  BY <1>9, <2>1, <2>2, SoundThreads DEF Clean
<1> QED
  BY <1>1, <1>2, <1>3, <1>4, <1>5, <1>6, <1>7, <1>8, <1>9 DEF Start!Programs

\* A start that gives up releases what it acquired, wherever and in whichever
\* of the nineteen programs it fails, but for the failures that Leaks lists,
\* each of which does leave something (08: 54-93, and the starts like it); and
\* no start crashes but where the result of calloc (14: 102, 136) or SSL_new
\* (ssl_client_server.c 198) is not tested.
THEOREM AlwaysFailsClean == MCSpec => []FailsClean
<1>1. MCInit => StartInv  BY EveryProgramClean, StartInit DEF MCInit
<1>2. StartInv /\ [RunServer \/ RunFetch \/ RunStart]_allVars => StartInv'
  <2> SUFFICES ASSUME StartInv, [RunServer \/ RunFetch \/ RunStart]_allVars PROVE StartInv'
    OBVIOUS
  <2>1. CASE RunStart  BY <2>1, EveryProgramClean, StartStep DEF RunStart
  <2>2. CASE UNCHANGED startVars
    BY <2>2 DEF StartInv, startVars, Start!Chain, Start!Call, Acquired
  <2> QED  BY <2>1, <2>2 DEF RunServer, RunFetch, allVars
<1>3. StartInv => FailsClean  BY EveryProgramClean, StartImplies
<1> QED  BY <1>1, <1>2, <1>3, PTL DEF MCSpec
=============================================================================
