--------------------------- MODULE SslServerProofs ---------------------------
(***************************************************************************)
(* The TLS server keeps its two arrays in step, disconnects nobody for     *)
(* having sent nothing, and implements WatchSet: for every number of       *)
(* entries, descriptors, clients and pending messages.                     *)
(***************************************************************************)
EXTENDS SslServer, FiniteSetTheorems, TLAPS

\* The arrays hold the listening socket at least.
Sized == MaxConnection \in Nat \ {0}

Shape ==
    /\ fds \in [Slots -> Fds \cup {ListenFd, NoFd}]
    /\ arr_ssl \in [Slots -> Fds \cup {ListenFd, NoSession}]
    /\ revents \in [Slots -> BOOLEAN]
    /\ nfds \in 1..MaxConnection
    /\ pc \in {"poll", "scan", "handshake"}
    /\ i \in Nat
    /\ pc = "handshake" => nfds < MaxConnection /\ i = 0
    /\ kern \in [Fds -> {"free", "open", "shut", "reset"}]
    /\ rx \in [Fds -> Seq(Message)]

\* SessionsMatch while the server runs.
Arrays ==
    /\ fds[0] = ListenFd /\ arr_ssl[0] = ListenFd
    /\ \A s \in Held : fds[s] \in Fds /\ arr_ssl[s] = fds[s] /\ kern[fds[s]] # "free"
    /\ \A s, t \in Held : fds[s] = fds[t] => s = t
    /\ \A s \in Slots \ (Held \cup {0}) : fds[s] = NoFd /\ arr_ssl[s] = NoSession

\* There is something to read, if only the end of the stream.
Something(f) == kern[f] # "open" \/ rx[f] # <<>>

\* What the rest of the scan will find; and at its start no mark lies behind
\* the entries in use, where a new client's entry will be.
Marks ==
    /\ pc # "poll" => \A s \in Slots : s \in 1..nfds - 1 /\ s >= i /\ revents[s] => Something(fds[s])
    /\ pc # "poll" /\ i = 0 => \A s \in Slots : s >= nfds => ~revents[s]

Body == Shape /\ Arrays /\ Marks
IInv == Running => Body

LEMMA Numbers ==
  ASSUME Sized
  PROVE  /\ ListenFd \notin Fds /\ NoFd \notin Fds /\ NoFd # ListenFd
         /\ \A s : s \in Slots <=> s \in Nat /\ s < MaxConnection
         /\ 0 \in Slots
BY BoundsAssumption DEF Sized, Fds, ListenFd, NoFd, Slots

LEMMA HeldAre ==
  ASSUME Sized, Shape
  PROVE  /\ Held \subseteq Slots /\ 0 \notin Held
         /\ \A s \in Slots : s \in 1..nfds - 1 => s \in Held
         /\ pc = "handshake" => nfds \in Held
         /\ \A s \in Held : s \in 1..nfds - 1 \/ (s = nfds /\ pc = "handshake")
BY Numbers DEF Sized, Shape, Held

LEMMA EntriesAre == ASSUME Sized, Shape PROVE \A s \in 1..nfds - 1 : s \in Slots
<1>1. nfds \in Nat /\ nfds <= MaxConnection  BY DEF Shape, Sized
<1> QED  BY <1>1, Numbers DEF Sized

LEMMA InvInit == ASSUME Sized PROVE Init => IInv
<1> SUFFICES ASSUME Init PROVE Body  BY DEF IInv
<1>1. Shape  BY Numbers DEF Init, KernInit, Shape, Sized
<1>2. Held = {}  BY <1>1, HeldAre DEF Init
<1>3. Arrays  BY <1>2, Numbers DEF Init, Arrays
<1>4. Marks  BY DEF Init, Marks
<1> QED  BY <1>1, <1>3, <1>4 DEF Body

\* A step that leaves the table alone, and what the scan has still to read.
LEMMA InvKept ==
  ASSUME Sized, Body, UNCHANGED <<tableVars, revents>>,
         \/ pc' = pc /\ i' = i
         \/ pc = "scan" /\ pc' = "scan" /\ i' = i + 1
         \/ pc' = "poll" /\ i' = 0,
         kern' \in [Fds -> {"free", "open", "shut", "reset"}],
         rx' \in [Fds -> Seq(Message)],
         pc = "handshake" => pc' = "handshake",
         \A f \in Fds : kern[f] # "free" => kern'[f] # "free",
         \A s \in Held : s >= i' /\ Something(fds[s]) => Something(fds[s])'
  PROVE  Body'
<1>1. Shape'  BY DEF Body, Shape, tableVars
<1>2. Held' = Held  BY DEF Body, Shape, Held, tableVars
<1>3. Arrays'  BY <1>2 DEF Body, Arrays, tableVars
<1>4. Marks'
  <2>1. ASSUME pc' # "poll", NEW s \in Slots, s \in 1..nfds - 1, s >= i', revents[s]
        PROVE  Something(fds[s])'
    <3>1. pc # "poll" /\ s >= i  BY <2>1, Numbers DEF Body, Shape
    <3>2. Something(fds[s])  BY <2>1, <3>1 DEF Body, Marks
    <3> QED  BY <2>1, <3>2, HeldAre DEF Body
  <2>2. ASSUME pc' # "poll", i' = 0, NEW s \in Slots, s >= nfds PROVE ~revents[s]
    <3>1. pc # "poll" /\ i = 0  BY <2>2 DEF Body, Shape
    <3> QED  BY <2>2, <3>1 DEF Body, Marks
  <2>3. nfds' = nfds /\ fds' = fds /\ revents' = revents  BY DEF tableVars
  <2> QED  BY <2>1, <2>2, <2>3 DEF Marks, Something
<1> QED  BY <1>1, <1>3, <1>4 DEF Body

LEMMA InvClient == ASSUME Sized, Body, Client PROVE Body'
<1>1. UNCHANGED <<tableVars, revents, pc, i>>  BY DEF Client
<1>2. /\ kern \in [Fds -> {"free", "open", "shut", "reset"}]
      /\ rx \in [Fds -> Seq(Message)]
      /\ \A s \in Held : fds[s] \in Fds
  BY DEF Body, Shape, Arrays
<1>3. CASE UNCHANGED <<kern, rx>>  BY <1>1, <1>2, <1>3, InvKept DEF Something, tableVars
<1>4. ASSUME NEW f \in Fds, NEW m \in Message, ClientSend(f, m) PROVE Body'
  <2>1. kern' = kern /\ rx' = [rx EXCEPT ![f] = Append(rx[f], m)]  BY <1>4 DEF ClientSend
  <2>2. Append(rx[f], m) \in Seq(Message) /\ Append(rx[f], m) # <<>>  BY <1>2
  <2>3. rx' \in [Fds -> Seq(Message)] /\ \A g \in Fds : rx[g] # <<>> => rx'[g] # <<>>
    BY <1>2, <2>1, <2>2
  <2>4. \A s \in Held : Something(fds[s]) => Something(fds[s])'
    BY <1>1, <1>2, <2>1, <2>3 DEF Something, tableVars
  <2> QED  BY <1>1, <1>2, <2>1, <2>3, <2>4, InvKept
<1>5. ASSUME NEW f \in Fds, NEW how \in {"shut", "reset"}, ClientLeave(f, how) PROVE Body'
  <2>1. rx' = rx /\ kern' = [kern EXCEPT ![f] = how]  BY <1>5 DEF ClientLeave
  <2>2. /\ kern' \in [Fds -> {"free", "open", "shut", "reset"}]
        /\ \A g \in Fds : kern[g] # "free" => kern'[g] # "free"
        /\ \A g \in Fds : kern[g] # "open" => kern'[g] # "open"
    BY <1>2, <2>1
  <2>3. \A s \in Held : Something(fds[s]) => Something(fds[s])'
    BY <1>1, <1>2, <2>1, <2>2 DEF Something, tableVars
  <2> QED  BY <1>1, <1>2, <2>1, <2>2, <2>3, InvKept
<1> QED  BY <1>3, <1>4, <1>5 DEF Client, ClientConnect, ClientGreets, kernVars

\* A descriptor accept hands out was free, and in nobody's entry.
LEMMA AcceptedKeeps ==
  ASSUME Sized, Body, NEW f \in Fds, Accepted(f)
  PROVE  /\ kern' = [kern EXCEPT ![f] = "open"] /\ rx' = rx
         /\ kern' \in [Fds -> {"free", "open", "shut", "reset"}]
         /\ \A g \in Fds : kern[g] # "free" => kern'[g] = kern[g]
         /\ \A s \in Held : fds[s] \in Fds /\ fds[s] # f /\ kern'[fds[s]] = kern[fds[s]]
BY DEF Accepted, IsNewFd, Body, Shape, Arrays

LEMMA InvPoll == ASSUME Sized, Body, Poll PROVE Body'
<1>1. /\ pc = "poll" /\ pc' = "scan" /\ i' = 0
      /\ UNCHANGED <<fds, arr_ssl, nfds, kern, rx>>
      /\ revents' = [s \in Slots |-> fds[s] # NoFd /\ Ready(fds[s])]
  BY DEF Poll, tableVars, kernVars
<1>2. \A s \in Slots : revents'[s] \in BOOLEAN  BY <1>1 DEF Ready
<1>3. Shape'  BY <1>1, <1>2 DEF Body, Shape
<1>4. Held' = Held /\ \A s \in Held : s \in 1..nfds - 1
  BY <1>1, HeldAre DEF Body, Held
<1>5. Arrays'  BY <1>1, <1>4 DEF Body, Arrays
<1>6. ASSUME NEW s \in Slots, s \in 1..nfds - 1, revents'[s] PROVE Something(fds[s])'
  <2>1. fds[s] \in Fds /\ Ready(fds[s])  BY <1>1, <1>6, HeldAre DEF Body, Arrays
  <2> QED  BY <1>1, <2>1, Numbers DEF Ready, Something
<1>7. ASSUME NEW s \in Slots, s >= nfds PROVE ~revents'[s]
  <2>1. s \notin Held /\ s # 0  BY <1>4, <1>7 DEF Body, Shape
  <2>2. fds[s] = NoFd  BY <2>1 DEF Body, Arrays
  <2> QED  BY <1>1, <2>2
<1>8. Marks'  BY <1>1, <1>6, <1>7 DEF Marks, Something
<1> QED  BY <1>3, <1>5, <1>8 DEF Body

\* Only the first entry is the listening socket's.
LEMMA ListenIsFirst == ASSUME Sized, Body, AtEntry, fds[i] = ListenFd PROVE i = 0
<1>1. i \in Slots /\ i < nfds  BY Numbers DEF AtEntry, ScanOver, Body, Shape, Sized
<1> QED  BY <1>1, HeldAre, Numbers DEF Body, Shape, Arrays

LEMMA InvAccept == ASSUME Sized, Body, Accept PROVE Body'
<1>1. PICK f \in Fds : /\ Accepted(f)
                       /\ fds' = [fds EXCEPT ![nfds] = f]
                       /\ arr_ssl' = [arr_ssl EXCEPT ![nfds] = f]
  BY DEF Accept
<1>2. /\ pc = "scan" /\ pc' = "handshake" /\ nfds < MaxConnection
      /\ UNCHANGED <<nfds, revents, i>>
      /\ i = 0
  BY ListenIsFirst DEF Accept, AtEntry
<1>3. /\ nfds \in Slots \ {0} /\ nfds \notin Held
      /\ fds \in [Slots -> Fds \cup {ListenFd, NoFd}]
      /\ arr_ssl \in [Slots -> Fds \cup {ListenFd, NoSession}]
  BY <1>2, HeldAre, Numbers DEF Body, Shape
<1>4. Shape'  BY <1>1, <1>2, <1>3, AcceptedKeeps DEF Body, Shape
<1>5. Held' = Held \cup {nfds}  BY <1>2, <1>3 DEF Held, Body, Shape
<1>6. /\ \A s \in Slots \ {nfds} : fds'[s] = fds[s] /\ arr_ssl'[s] = arr_ssl[s]
      /\ fds'[nfds] = f /\ arr_ssl'[nfds] = f /\ kern'[f] = "open"
  BY <1>1, <1>3, AcceptedKeeps DEF Body, Shape
<1>7. \A s \in Held : s \in Slots \ {nfds}  BY <1>3, HeldAre DEF Body
<1>8. Arrays'
  <2>1. fds'[0] = ListenFd /\ arr_ssl'[0] = ListenFd
    BY <1>3, <1>6, Numbers DEF Body, Arrays
  <2>2. \A s \in Held' : fds'[s] \in Fds /\ arr_ssl'[s] = fds'[s] /\ kern'[fds'[s]] # "free"
    BY <1>1, <1>5, <1>6, <1>7, AcceptedKeeps DEF Body, Arrays
  <2>3. \A s, t \in Held' : fds'[s] = fds'[t] => s = t
    BY <1>1, <1>5, <1>6, <1>7, AcceptedKeeps DEF Body, Arrays
  <2>4. \A s \in Slots \ (Held' \cup {0}) : fds'[s] = NoFd /\ arr_ssl'[s] = NoSession
    BY <1>5, <1>6 DEF Body, Arrays
  <2> QED  BY <2>1, <2>2, <2>3, <2>4 DEF Arrays
<1>9. Marks'
  <2>1. ASSUME NEW s \in Slots, s \in 1..nfds - 1, s >= i, revents[s] PROVE Something(fds[s])'
    <3>1. Something(fds[s]) /\ s \in Held  BY <1>2, <2>1, HeldAre DEF Body, Marks
    <3>2. fds'[s] = fds[s] /\ kern'[fds[s]] = kern[fds[s]] /\ rx' = rx
      BY <1>1, <1>6, <1>7, <3>1, AcceptedKeeps
    <3> QED  BY <3>1, <3>2 DEF Something
  <2>2. \A s \in Slots : s >= nfds => ~revents[s]  BY <1>2 DEF Body, Marks
  <2> QED  BY <1>2, <2>1, <2>2 DEF Marks, Something
<1> QED  BY <1>4, <1>8, <1>9 DEF Body

LEMMA InvHandshakeDone == ASSUME Sized, Body, HandshakeDone PROVE Body'
<1>1. /\ pc = "handshake" /\ pc' = "scan" /\ nfds' = nfds + 1 /\ i' = i + 1
      /\ UNCHANGED <<fds, arr_ssl, revents, kern, rx>>
      /\ i = 0 /\ nfds < MaxConnection /\ nfds \in 1..MaxConnection
  BY DEF HandshakeDone, kernVars, Body, Shape
<1>2. Shape'  BY <1>1 DEF Body, Shape, Sized
<1>3. Held' = Held  BY <1>1 DEF Held, Slots
<1>4. Arrays'  BY <1>1, <1>3 DEF Body, Arrays
<1>5. Marks'
  <2>1. ASSUME NEW s \in Slots, s \in 1..nfds, s >= 1, revents[s] PROVE Something(fds[s])
    <3>1. s # nfds  BY <1>1, <2>1 DEF Body, Marks
    <3>2. s \in 1..nfds - 1 /\ s >= i  BY <1>1, <2>1, <3>1
    <3> QED  BY <1>1, <2>1, <3>2 DEF Body, Marks
  <2> QED  BY <1>1, <2>1 DEF Marks, Something
<1> QED  BY <1>2, <1>4, <1>5 DEF Body

\* A closed descriptor was in one entry only.
LEMMA ForgetKeeps ==
  ASSUME Sized, Body, NEW f \in Fds, Forget(f)
  PROVE  /\ kern' \in [Fds -> {"free", "open", "shut", "reset"}]
         /\ rx' \in [Fds -> Seq(Message)]
         /\ \A g \in Fds \ {f} : kern'[g] = kern[g] /\ rx'[g] = rx[g]
<1>1. kern' = [kern EXCEPT ![f] = "free"] /\ rx' = [rx EXCEPT ![f] = <<>>]
  BY DEF Forget, Closed
<1> QED  BY <1>1 DEF Body, Shape

LEMMA InvHandshakeFails == ASSUME Sized, Body, HandshakeFails PROVE Body'
<1>1. /\ pc = "handshake" /\ pc' = "scan" /\ i' = i + 1
      /\ UNCHANGED <<nfds, revents>> /\ Forget(fds[nfds])
      /\ fds' = [fds EXCEPT ![nfds] = NoFd]
      /\ arr_ssl' = [arr_ssl EXCEPT ![nfds] = NoSession]
      /\ i = 0 /\ nfds < MaxConnection /\ nfds \in 1..MaxConnection
  BY DEF HandshakeFails, Joining, Body, Shape
<1>2. /\ nfds \in Held /\ nfds \in Slots \ {0} /\ fds[nfds] \in Fds
      /\ fds \in [Slots -> Fds \cup {ListenFd, NoFd}]
      /\ arr_ssl \in [Slots -> Fds \cup {ListenFd, NoSession}]
  BY <1>1, HeldAre, Numbers DEF Body, Arrays, Shape
<1>3. Shape'  BY <1>1, <1>2, ForgetKeeps DEF Body, Shape
<1>4. Held' = Held \ {nfds}  BY <1>1, <1>2 DEF Held
<1>5. /\ \A s \in Slots \ {nfds} : fds'[s] = fds[s] /\ arr_ssl'[s] = arr_ssl[s]
      /\ fds'[nfds] = NoFd /\ arr_ssl'[nfds] = NoSession
  BY <1>1, <1>2
<1>6. \A s \in Held' : /\ s \in Slots \ {nfds} /\ s \in Held /\ fds[s] \in Fds \ {fds[nfds]}
                       /\ kern'[fds[s]] = kern[fds[s]] /\ rx'[fds[s]] = rx[fds[s]]
  <2>1. \A s \in Held' : s \in Slots \ {nfds} /\ s \in Held /\ fds[s] \in Fds \ {fds[nfds]}
    BY <1>2, <1>4, HeldAre DEF Body, Arrays
  <2> QED  BY <1>1, <1>2, <2>1, ForgetKeeps
<1>7. Arrays'
  <2>1. fds'[0] = ListenFd /\ arr_ssl'[0] = ListenFd
    BY <1>2, <1>5, Numbers DEF Body, Arrays
  <2>2. \A s \in Held' : fds'[s] \in Fds /\ arr_ssl'[s] = fds'[s] /\ kern'[fds'[s]] # "free"
    BY <1>5, <1>6 DEF Body, Arrays
  <2>3. \A s, t \in Held' : fds'[s] = fds'[t] => s = t
    BY <1>5, <1>6 DEF Body, Arrays
  <2>4. \A s \in Slots \ (Held' \cup {0}) : fds'[s] = NoFd /\ arr_ssl'[s] = NoSession
    BY <1>4, <1>5 DEF Body, Arrays
  <2> QED  BY <2>1, <2>2, <2>3, <2>4 DEF Arrays
<1>8. Marks'
  <2>1. ASSUME NEW s \in Slots, s \in 1..nfds - 1, revents[s] PROVE Something(fds[s])'
    <3>1. s >= i  BY <1>1, <2>1
    <3>2. Something(fds[s]) /\ s \in Held'
      BY <1>1, <1>4, <2>1, <3>1, HeldAre DEF Body, Marks
    <3> QED  BY <1>5, <1>6, <3>2 DEF Something
  <2> QED  BY <1>1, <2>1 DEF Marks, Something
<1> QED  BY <1>3, <1>7, <1>8 DEF Body

\* The entry the scan is at, when it is a client's.
LEMMA AtClientIs ==
  ASSUME Sized, Body, AtClient
  PROVE  /\ i \in Held /\ i \in Slots \ {0} /\ i \in 1..nfds - 1 /\ revents[i]
         /\ fds[i] \in Fds /\ arr_ssl[i] = fds[i] /\ kern[fds[i]] # "free"
         /\ pc = "scan"
         /\ \A s \in Held : s # i => fds[s] # fds[i]
<1>1. i \in Nat /\ nfds \in 1..MaxConnection /\ MaxConnection \in Nat
  BY DEF Body, Shape, Sized
<1>2. pc = "scan" /\ i < nfds /\ revents[i] /\ fds[i] # ListenFd
  BY <1>1 DEF AtClient, AtEntry, ScanOver
<1>3. i \in Slots \ {0} /\ i \in 1..nfds - 1
  <2>1. i # 0  BY <1>2 DEF Body, Arrays
  <2> QED  BY <1>1, <1>2, <2>1, Numbers
<1>4. i \in Held  BY <1>3, HeldAre DEF Body
<1> QED  BY <1>2, <1>3, <1>4 DEF Body, Arrays

LEMMA InvDisconnect == ASSUME Sized, Body, Disconnect PROVE Body'
<1> DEFINE last == nfds - 1
           old(s) == IF s = i THEN last ELSE s
<1>1. /\ Forget(fds[i]) /\ nfds' = last /\ i' = i + 1 /\ pc' = "scan"
      /\ fds' = [fds EXCEPT ![i] = fds[last], ![last] = NoFd]
      /\ arr_ssl' = [arr_ssl EXCEPT ![i] = arr_ssl[last], ![last] = NoSession]
      /\ UNCHANGED revents /\ AtClient
  BY DEF Disconnect, Compact, AtClient, AtEntry
<1>2. /\ i \in Held /\ i \in Slots \ {0} /\ fds[i] \in Fds /\ pc = "scan"
      /\ \A s \in Held : s # i => fds[s] # fds[i]
      /\ i \in 1..nfds - 1
  BY <1>1, AtClientIs
<1>3. /\ last \in Nat /\ last >= 1 /\ last \in 1..MaxConnection
      /\ last \in Slots \ {0} /\ last \in Held
  <2>1. nfds \in 1..MaxConnection /\ MaxConnection \in Nat  BY DEF Body, Shape, Sized
  <2>2. last \in Nat /\ last >= 1 /\ last < nfds /\ last < MaxConnection  BY <1>2, <2>1
  <2>3. last \in Slots /\ last \in 1..nfds - 1  BY <2>1, <2>2, Numbers
  <2> QED  BY <2>1, <2>2, <2>3, HeldAre DEF Body
<1>4. Held' = Held \ {last}
  <2>1. /\ Slots \subseteq Nat
        /\ \A s \in Nat : s < last <=> s < nfds /\ s # last
    BY Numbers DEF Body, Shape
  <2>2. Held = {s \in Slots \ {0} : s < nfds} /\ Held' = {s \in Slots \ {0} : s < last}
    BY <1>1, <1>2 DEF Held
  <2> HIDE DEF last
  <2>3. \A s : s \in Held' <=> s \in Held /\ s # last  BY <2>1, <2>2
  <2> QED  BY <2>3
<1>5. /\ fds \in [Slots -> Fds \cup {ListenFd, NoFd}]
      /\ arr_ssl \in [Slots -> Fds \cup {ListenFd, NoSession}]
  BY DEF Body, Shape
<1>6. Shape'
  <2>1. /\ fds' \in [Slots -> Fds \cup {ListenFd, NoFd}]
        /\ arr_ssl' \in [Slots -> Fds \cup {ListenFd, NoSession}]
    BY <1>1, <1>2, <1>3, <1>5
  <2>2. i' \in Nat /\ pc' = "scan"  BY <1>1, <1>2
  <2>3. revents' \in [Slots -> BOOLEAN] /\ nfds' \in 1..MaxConnection
    <3> HIDE DEF last
    <3> QED  BY <1>1, <1>3 DEF Body, Shape
  <2>4. /\ kern' \in [Fds -> {"free", "open", "shut", "reset"}]
        /\ rx' \in [Fds -> Seq(Message)]
    BY <1>1, <1>2, ForgetKeeps
  <2> QED  BY <2>1, <2>2, <2>3, <2>4 DEF Shape
<1>7. /\ fds'[last] = NoFd /\ arr_ssl'[last] = NoSession
      /\ \A s \in Slots \ {last} : fds'[s] = fds[old(s)] /\ arr_ssl'[s] = arr_ssl[old(s)]
  <2> HIDE DEF last
  <2> QED  BY <1>1, <1>2, <1>3, <1>5
<1>8. \A s \in Held' : /\ s \in Slots \ {last} /\ old(s) \in Held /\ old(s) # i
                       /\ \A t \in Held' : old(s) = old(t) => s = t
  BY <1>2, <1>3, <1>4, HeldAre DEF Body
<1> HIDE DEF last, old
<1>9. \A s \in Held' : /\ fds[old(s)] \in Fds \ {fds[i]}
                       /\ kern'[fds[old(s)]] = kern[fds[old(s)]]
                       /\ rx'[fds[old(s)]] = rx[fds[old(s)]]
  <2>1. \A s \in Held' : fds[old(s)] \in Fds \ {fds[i]}
    BY <1>2, <1>8 DEF Body, Arrays
  <2> QED  BY <1>1, <1>2, <2>1, ForgetKeeps
<1>10. Arrays'
  <2>1. fds'[0] = ListenFd /\ arr_ssl'[0] = ListenFd
    <3>1. old(0) = 0 /\ 0 \in Slots \ {last}  BY <1>2, <1>3, Numbers DEF old
    <3> QED  BY <1>7, <3>1 DEF Body, Arrays
  <2>2. \A s \in Held' : fds'[s] \in Fds /\ arr_ssl'[s] = fds'[s] /\ kern'[fds'[s]] # "free"
    BY <1>7, <1>8, <1>9 DEF Body, Arrays
  <2>3. \A s, t \in Held' : fds'[s] = fds'[t] => s = t
    BY <1>7, <1>8 DEF Body, Arrays
  <2>4. \A s \in Slots \ (Held' \cup {0}) : fds'[s] = NoFd /\ arr_ssl'[s] = NoSession
    <3>1. ASSUME NEW s \in Slots \ (Held' \cup {0}), s # last
          PROVE  fds'[s] = NoFd /\ arr_ssl'[s] = NoSession
      <4>1. s \notin Held /\ s # i  BY <1>2, <1>4, <3>1
      <4> QED  BY <1>7, <3>1, <4>1 DEF old, Body, Arrays
    <3> QED  BY <1>7, <3>1
  <2> QED  BY <2>1, <2>2, <2>3, <2>4 DEF Arrays
<1>11. Marks'
  <2>1. ASSUME NEW s \in Slots, s \in 1..last - 1, s >= i + 1, revents[s]
        PROVE  Something(fds[s])'
    <3>1. s \in 1..nfds - 1 /\ s # i /\ s # last /\ s >= i
      BY <1>2, <1>3, <2>1 DEF last, Body, Shape
    <3>2. Something(fds[s]) /\ s \in Held'
      BY <1>2, <1>4, <2>1, <3>1, HeldAre DEF Body, Marks
    <3> QED  BY <1>7, <1>8, <1>9, <3>1, <3>2 DEF Something, old
  <2>2. i' # 0  BY <1>1, <1>2
  <2> QED  BY <1>1, <2>1, <2>2 DEF Marks, Something
<1> QED  BY <1>6, <1>10, <1>11 DEF Body

LEMMA InvAnswer == ASSUME Sized, Body, Answer PROVE Body'
<1>1. /\ AtClient /\ First(arr_ssl[i]) = "request"
      /\ rx' = [rx EXCEPT ![arr_ssl[i]] = Tail(rx[arr_ssl[i]])]
      /\ i' = i + 1
      /\ UNCHANGED <<tableVars, revents, pc, kern>>
  BY DEF Answer, Record
<1>2. /\ i \in Held /\ fds[i] \in Fds /\ arr_ssl[i] = fds[i] /\ pc = "scan"
      /\ \A s \in Held : s # i => fds[s] # fds[i]
  BY <1>1, AtClientIs
<1>3. rx[fds[i]] \in Seq(Message) /\ rx[fds[i]] # <<>>
  BY <1>1, <1>2 DEF First, Body, Shape
<1>4. Tail(rx[fds[i]]) \in Seq(Message)  BY <1>3
<1>5. rx' \in [Fds -> Seq(Message)] /\ \A g \in Fds \ {fds[i]} : rx'[g] = rx[g]
  BY <1>1, <1>2, <1>4 DEF Body, Shape
<1>6. \A s \in Held : s >= i' /\ Something(fds[s]) => Something(fds[s])'
  <2>1. \A s \in Held : s >= i' => fds[s] \in Fds \ {fds[i]}
    BY <1>1, <1>2 DEF Body, Arrays, Shape
  <2> QED  BY <1>1, <1>5, <2>1 DEF Something, tableVars
<1> QED  BY <1>1, <1>2, <1>5, <1>6, InvKept DEF Body, Shape

\* No more than a client accepted into a full table, or a failed accept.
LEMMA InvMovesOn ==
  ASSUME Sized, Body, EndScan \/ NotReady \/ AcceptFull \/ AcceptFails
  PROVE  Body'
<1>1. /\ UNCHANGED <<tableVars, revents>> /\ rx' = rx
      /\ pc = "scan"
      /\ \/ pc' = "scan" /\ i' = i + 1
         \/ pc' = "poll" /\ i' = 0
  BY DEF EndScan, NotReady, AcceptFull, AcceptFails, AtEntry, Accepted, Aborted, kernVars
<1>2. kern' = kern \/ \E f \in Fds : Accepted(f)
  BY DEF EndScan, NotReady, AcceptFull, AcceptFails, Aborted, kernVars
<1>3. /\ kern' \in [Fds -> {"free", "open", "shut", "reset"}]
      /\ \A g \in Fds : kern[g] # "free" => kern'[g] = kern[g]
  BY <1>2, AcceptedKeeps DEF Body, Shape
<1>4. \A s \in Held : Something(fds[s]) => Something(fds[s])'
  BY <1>1, <1>3 DEF Something, tableVars, Body, Arrays
<1>5. rx' \in [Fds -> Seq(Message)]  BY <1>1 DEF Body, Shape
<1> QED  BY <1>1, <1>3, <1>4, <1>5, InvKept

LEMMA InvNext == ASSUME Sized PROVE IInv /\ [Next]_vars => IInv'
<1> SUFFICES ASSUME IInv, [Next]_vars, Running' PROVE Body'  BY DEF IInv
<1>1. CASE UNCHANGED vars
  BY <1>1 DEF IInv, Running, vars, tableVars, kernVars, Body, Shape, Arrays, Marks, Held, Something
<1>2. CASE Client  BY <1>2, InvClient DEF Client, IInv
<1>3. CASE Server
  <2>1. Body  BY <1>3 DEF Server, IInv
  <2>2. ~PollFails /\ ~SslNewFails /\ ~WriteBreaksPipe
    BY DEF PollFails, SslNewFails, WriteBreaksPipe, Running
  <2> QED
    BY <1>3, <2>1, <2>2, InvPoll, InvMovesOn, InvAccept, InvHandshakeDone,
       InvHandshakeFails, InvAnswer, InvDisconnect DEF Server
<1>4. CASE Ended  BY <1>1, <1>4 DEF Ended
<1> QED  BY <1>1, <1>2, <1>3, <1>4 DEF Next

LEMMA InvAlways == ASSUME Sized PROVE Spec => []IInv
<1>1. Init => IInv  BY InvInit
<1>2. IInv /\ [Next]_vars => IInv'  BY InvNext
<1> QED  BY <1>1, <1>2, PTL DEF Spec

\* Each client's session is bound to the client's own descriptor, through
\* handshakes that fail, compaction and the reuse of entries and numbers.
THEOREM AlwaysSessionsMatch == ASSUME Sized PROVE Spec => []SessionsMatch
<1>1. IInv => SessionsMatch  BY DEF IInv, Body, Arrays, SessionsMatch
<1> QED  BY <1>1, InvAlways, PTL

\* A client that is still connected is only closed in the accept block after
\* its side of the handshake, and in the scan after exit, quit or
\* something that is no record of data.
THEOREM AlwaysDisconnectsJustified == ASSUME Sized PROVE Spec => DisconnectsJustified
<1> DEFINE Justified == \A f \in Fds :
             Running' /\ kern[f] = "open" /\ kern'[f] = "free" =>
                \/ pc = "handshake" /\ hello[f] # "none"
                \/ pc = "scan" /\ First(f) = "last"
<1>1. IInv /\ [Next]_vars => [Justified]_vars
  <2> SUFFICES ASSUME IInv, Next, NEW f \in Fds,
                      Running', kern[f] = "open", kern'[f] = "free"
               PROVE  \/ pc = "handshake" /\ hello[f] # "none"
                      \/ pc = "scan" /\ First(f) = "last"
    OBVIOUS
  <2>1. CASE Client
    BY <2>1 DEF Client, ClientConnect, ClientGreets, ClientSend, ClientLeave, kernVars, IInv, Body, Shape
  <2>2. CASE Ended  BY <2>2 DEF Ended, vars, kernVars
  <2>3. CASE Server
    <3>1. Body  BY <2>3 DEF Server, IInv
    <3>2. ~PollFails /\ ~SslNewFails /\ ~WriteBreaksPipe
      BY DEF PollFails, SslNewFails, WriteBreaksPipe, Running
    <3>3. ASSUME UNCHANGED kern PROVE FALSE  BY <3>3
    <3>4. ASSUME NEW g \in Fds, Accepted(g) PROVE FALSE  BY <3>1, <3>4, AcceptedKeeps
    <3>5. ASSUME NEW g \in Fds, Forget(g) PROVE f = g  BY <3>1, <3>5, ForgetKeeps
    <3>6. CASE HandshakeFails
      <4>1. /\ pc = "handshake" /\ Forget(fds[nfds])
            /\ kern[fds[nfds]] # "open" \/ hello[fds[nfds]] # "none"
        BY <3>6 DEF HandshakeFails, Joining
      <4>2. fds[nfds] \in Fds  BY <3>1, <4>1, HeldAre DEF Body, Arrays
      <4> QED  BY <3>5, <4>1, <4>2
    <3>7. CASE Disconnect
      <4>1. /\ AtClient /\ Forget(fds[i])
            /\ First(arr_ssl[i]) \in {"nothing", "last"} \/ kern[arr_ssl[i]] = "reset"
        BY <3>7 DEF Disconnect, Record
      <4>2. /\ fds[i] \in Fds /\ arr_ssl[i] = fds[i] /\ i \in 1..nfds - 1 /\ i \in Slots
            /\ revents[i] /\ pc = "scan"
        BY <3>1, <4>1, AtClientIs
      <4>3. f = fds[i]  BY <3>5, <4>1, <4>2
      <4>4. Something(fds[i])  BY <3>1, <4>2 DEF Body, Marks
      <4>5. rx[f] \in Seq(Message) /\ rx[f] # <<>>  BY <3>1, <4>3, <4>4 DEF Something, Body, Shape
      <4>6. First(f) # "nothing"  BY <4>5 DEF First, Message
      <4> QED  BY <4>1, <4>2, <4>3, <4>6
    <3>8. CASE Poll \/ EndScan \/ NotReady \/ HandshakeDone \/ Answer
      BY <3>3, <3>8 DEF Poll, EndScan, NotReady, HandshakeDone, Answer, kernVars
    <3>9. CASE Accept \/ AcceptFull \/ AcceptFails
      BY <3>3, <3>4, <3>9 DEF Accept, AcceptFull, AcceptFails, Aborted, kernVars
    <3> QED  BY <2>3, <3>2, <3>6, <3>7, <3>8, <3>9 DEF Server
  <2> QED  BY <2>1, <2>2, <2>3 DEF Next
<1>2. Spec => [][Justified]_vars  BY <1>1, InvAlways, PTL DEF Spec
<1> QED  BY <1>2 DEF DisconnectsJustified

-----------------------------------------------------------------------------
(* The refinement.  Stages and Waiting are WatchSet's stage and pending      *)
(* under the mapping.                                                      *)

Stages == [f \in Fds |-> StageOf(f)]
Waiting == [f \in Fds |-> Len(rx[f])]

Shaking(f) == pc = "handshake" /\ fds[nfds] = f

\* What became of a descriptor, told from the table.
LEMMA StageIs ==
  ASSUME Sized, Body, NEW f \in Fds
  PROVE  /\ StageOf(f) = "watched" <=> Polled(f)
         /\ StageOf(f) = "joining" <=> Shaking(f)
         /\ StageOf(f) = "closed" <=> kern[f] = "free"
         /\ (\E s \in Held : fds[s] = f) <=> Polled(f) \/ Shaking(f)
<1>1. Polled(f) <=> \E s \in Held : s \in 1..nfds - 1 /\ fds[s] = f
  <2>1. \A s \in 1..nfds - 1 : s \in Slots  BY EntriesAre DEF Body
  <2> QED  BY <2>1, HeldAre DEF Polled, Body
<1>2. Shaking(f) => nfds \in Held /\ fds[nfds] = f  BY HeldAre DEF Shaking, Body
<1>3. Polled(f) \/ Shaking(f) => kern[f] # "free"  BY <1>1, <1>2 DEF Body, Arrays
<1>4. ~(Polled(f) /\ Shaking(f))
  <2> SUFFICES ASSUME Shaking(f), NEW s \in Held, s \in 1..nfds - 1, fds[s] = f PROVE FALSE
    BY <1>1
  <2>1. s = nfds  BY <1>2 DEF Body, Arrays
  <2> QED  BY <2>1 DEF Body, Shape
<1>5. (\E s \in Held : fds[s] = f) <=> Polled(f) \/ Shaking(f)
  BY <1>1, <1>2, HeldAre DEF Body, Shaking
<1> QED  BY <1>3, <1>4, <1>5 DEF StageOf, Shaking, Joining

LEMMA StageSame ==
  ASSUME NEW g \in Fds, kern'[g] = "free" <=> kern[g] = "free",
         Polled(g)' <=> Polled(g), Shaking(g)' <=> Shaking(g)
  PROVE  StageOf(g)' = StageOf(g)
BY DEF StageOf, Shaking, Joining

LEMMA StagesSame ==
  ASSUME UNCHANGED <<fds, nfds>>, pc' = "handshake" <=> pc = "handshake",
         \A f \in Fds : kern'[f] = "free" <=> kern[f] = "free"
  PROVE  Stages' = Stages
<1>1. ASSUME NEW f \in Fds PROVE StageOf(f)' = StageOf(f)
  BY StageSame DEF Polled, Shaking
<1> QED  BY <1>1 DEF Stages

\* A step that tells on one descriptor only.
LEMMA Restaged ==
  ASSUME NEW f \in Fds, NEW s, StageOf(f)' = s,
         \A g \in Fds \ {f} : StageOf(g)' = StageOf(g)
  PROVE  Stages' = [Stages EXCEPT ![f] = s]
BY DEF Stages

\* A message more for f, or fewer; what waits for the others stays.
LEMMA WaitingIs ==
  ASSUME NEW f \in Fds, NEW s, rx \in [Fds -> Seq(Message)], rx' = [rx EXCEPT ![f] = s]
  PROVE  Waiting' = [Waiting EXCEPT ![f] = Len(s)] /\ Waiting[f] = Len(rx[f])
BY DEF Waiting

LEMMA WaitingForgets ==
  ASSUME Body, NEW f \in Fds, Forget(f)
  PROVE  Waiting' = [Waiting EXCEPT ![f] = 0]
<1>1. rx' = [rx EXCEPT ![f] = <<>>] /\ rx \in [Fds -> Seq(Message)]
  BY DEF Forget, Closed, Body, Shape
<1>2. Len(<<>>) = 0  OBVIOUS
<1> QED  BY <1>1, <1>2, WaitingIs

LEMMA WaitingSame == rx' = rx => Waiting' = Waiting
  BY DEF Waiting

\* WatchSet counts as this module does.
LEMMA SameCardinality == \A S : Watch!Cardinality(S) = Cardinality(S)
  BY DEF Cardinality, Watch!Cardinality, IsFiniteSet, Watch!IsFiniteSet

\* Outside a handshake the clients in the table are as many as its entries
\* but the first.
LEMMA TakenCount ==
  ASSUME Sized, Body, pc # "handshake"
  PROVE  Watch!Cardinality(Watch!Taken) = nfds - 1
<1> DEFINE W == {f \in Fds : Polled(f)}
           D == 1..nfds - 1
           g == [s \in D |-> fds[s]]
<1>1. Watch!Taken = W
  <2>1. \A f \in Fds : StageOf(f) \in {"joining", "watched"} <=> Polled(f)
    BY StageIs DEF Shaking
  <2> QED  BY <2>1 DEF Watch!Taken
<1>2. /\ nfds - 1 \in Nat /\ IsFiniteSet(D) /\ Cardinality(D) = nfds - 1
  <2>1. nfds - 1 \in Nat  BY DEF Body, Shape, Sized
  <2>2. PICK n \in Nat : n = nfds - 1  BY <2>1
  <2>3. IsFiniteSet(1..n) /\ Cardinality(1..n) = n  BY FS_Interval
  <2> QED  BY <2>2, <2>3
<1>3. \A s \in D : s \in Held /\ fds[s] \in Fds
  <2>1. \A s \in D : s \in Slots  BY EntriesAre DEF Body
  <2> QED  BY <2>1, HeldAre DEF Body, Arrays
<1>4. g \in [D -> W]  BY <1>3 DEF Polled
<1>5. \A s, t \in D : g[s] = g[t] => s = t  BY <1>3 DEF Body, Arrays
<1>6. \A f \in W : \E s \in D : g[s] = f  BY DEF Polled
<1> HIDE DEF g, W, D
<1>7. g \in Bijection(D, W)
  BY <1>4, <1>5, <1>6 DEF Bijection, Injection, IsInjective, Surjection
<1>8. ExistsBijection(D, W)  BY <1>7 DEF ExistsBijection
<1>9. Cardinality(W) = Cardinality(D)  BY <1>2, <1>8, FS_Bijection
<1> QED  BY <1>1, <1>2, <1>9, SameCardinality

LEMMA WatchInit == ASSUME Sized PROVE Init => Watch!Init
<1> SUFFICES ASSUME Init PROVE Watch!Init  OBVIOUS
<1>1. \A f \in Fds : StageOf(f) = "closed"  BY DEF Init, KernInit, StageOf
<1>2. Due = {}  BY DEF Init, Due
<1>3. \A f \in Fds : Len(rx[f]) = 0
  <2>1. \A f \in Fds : rx[f] = <<>>  BY DEF Init, KernInit
  <2> QED  BY <2>1
<1> QED  BY <1>1, <1>2, <1>3 DEF Watch!Init

\* The reports of the scan, when it moves past an entry without one.
LEMMA DueSame ==
  ASSUME {pc, pc'} \subseteq {"scan", "handshake"}, UNCHANGED <<nfds, revents>>,
         \A s \in 1..nfds - 1 : fds'[s] = fds[s],
         \A s \in 1..nfds - 1 : revents[s] => (s >= i' <=> s >= i)
  PROVE  Due' = Due
<1>1. {s \in 1..nfds - 1 : s >= i' /\ revents[s]} = {s \in 1..nfds - 1 : s >= i /\ revents[s]}
  OBVIOUS
<1>2. Due = {fds[s] : s \in {t \in 1..nfds - 1 : t >= i /\ revents[t]}}  BY DEF Due
<1>3. Due' = {fds'[s] : s \in {t \in 1..nfds - 1 : t >= i' /\ revents[t]}}  BY DEF Due
<1> QED  BY <1>1, <1>2, <1>3

\* What clients do: to send is to Arrive, the rest is not WatchSet's.
LEMMA WatchClient == ASSUME Sized, Body, Client PROVE [Watch!Next]_Watch!vars
<1>1. UNCHANGED <<fds, nfds, revents, pc, i>>  BY DEF Client, tableVars
<1>2. Due' = Due  BY <1>1 DEF Due
<1>3. ASSUME NEW f \in Fds, NEW m \in Message, ClientSend(f, m) PROVE Watch!Next
  <2>1. /\ kern[f] = "open" /\ kern' = kern
        /\ rx' = [rx EXCEPT ![f] = Append(rx[f], m)] /\ rx \in [Fds -> Seq(Message)]
    BY <1>3 DEF ClientSend, Body, Shape
  <2>2. Stages' = Stages  BY <1>1, <2>1, StagesSame
  <2>3. StageOf(f) # "closed"  BY <2>1, StageIs
  <2>4. Len(Append(rx[f], m)) = Len(rx[f]) + 1  BY <2>1
  <2>5. Waiting' = [Waiting EXCEPT ![f] = Waiting[f] + 1]  BY <2>1, <2>4, WaitingIs
  <2>6. Watch!Arrive(f)  BY <1>2, <2>2, <2>3, <2>5 DEF Watch!Arrive, Stages, Waiting
  <2> QED  BY <2>6 DEF Watch!Next
<1>4. ASSUME rx' = rx, \A f \in Fds : kern'[f] = "free" <=> kern[f] = "free"
      PROVE  UNCHANGED Watch!vars
  <2>1. Stages' = Stages  BY <1>1, <1>4, StagesSame
  <2> QED  BY <1>2, <1>4, <2>1, WaitingSame DEF Watch!vars, Stages, Waiting
<1>5. CASE UNCHANGED <<kern, rx>>  BY <1>4, <1>5
<1>6. ASSUME NEW f \in Fds, NEW how \in {"shut", "reset"}, ClientLeave(f, how)
      PROVE  UNCHANGED Watch!vars
  <2>1. kern[f] # "free" /\ kern' = [kern EXCEPT ![f] = how] /\ rx' = rx
    BY <1>6 DEF ClientLeave
  <2>2. \A g \in Fds : kern'[g] = "free" <=> kern[g] = "free"  BY <2>1 DEF Body, Shape
  <2> QED  BY <1>4, <2>1, <2>2
<1> QED  BY <1>3, <1>5, <1>6 DEF Client, ClientConnect, ClientGreets, kernVars

LEMMA WatchReport == ASSUME Sized, Body, Poll PROVE Watch!Next
<1>1. UNCHANGED <<fds, nfds, kern, rx>> /\ pc = "poll" /\ pc' = "scan"
  BY DEF Poll, tableVars, kernVars
<1>2. Stages' = Stages  BY <1>1, StagesSame
<1>3. \A s \in 1..nfds - 1 : fds[s] \in Fds /\ StageOf(fds[s]) = "watched"
  <2> TAKE s \in 1..nfds - 1
  <2>1. s \in Slots  BY EntriesAre DEF Body
  <2>2. fds[s] \in Fds  BY <2>1, HeldAre DEF Body, Arrays
  <2>3. Polled(fds[s])  BY DEF Polled
  <2> QED  BY <2>2, <2>3, StageIs
<1>4. Due = {} /\ \A f \in Due' : f \in Fds /\ StageOf(f) = "watched"
  BY <1>1, <1>3 DEF Due
<1>5. Watch!Watched = {f \in Fds : StageOf(f) = "watched"}  BY DEF Watch!Watched
<1>6. Watch!Report  BY <1>1, <1>2, <1>4, <1>5, WaitingSame DEF Watch!Report, Stages, Waiting
<1> QED  BY <1>6 DEF Watch!Next

\* The accept block's first client, whether it finds an entry or none.
LEMMA WatchAccept == ASSUME Sized, Body, Accept PROVE Watch!Next
<1>1. PICK f \in Fds : Accepted(f) /\ fds' = [fds EXCEPT ![nfds] = f]  BY DEF Accept
<1>2. /\ pc = "scan" /\ pc' = "handshake" /\ nfds < MaxConnection
      /\ UNCHANGED <<nfds, revents, i>>
  BY DEF Accept, AtEntry
<1>3. /\ nfds \in Nat /\ nfds \in Slots
      /\ fds \in [Slots -> Fds \cup {ListenFd, NoFd}]
  <2>1. nfds \in Nat /\ fds \in [Slots -> Fds \cup {ListenFd, NoFd}]
    BY DEF Body, Shape, Sized
  <2> QED  BY <1>2, <2>1, Numbers
<1>4. /\ fds'[nfds] = f /\ kern[f] = "free" /\ kern' = [kern EXCEPT ![f] = "open"]
      /\ \A s \in 1..nfds - 1 : fds'[s] = fds[s]
      /\ \A g \in Fds \ {f} : kern'[g] = kern[g]
      /\ kern'[f] = "open"
  <2>1. kern[f] = "free"  BY <1>1 DEF Accepted, IsNewFd
  <2>2. kern' = [kern EXCEPT ![f] = "open"] /\ kern \in [Fds -> {"free", "open", "shut", "reset"}]
    BY <1>1, AcceptedKeeps DEF Body, Shape
  <2>3. \A s \in 1..nfds - 1 : s # nfds  BY <1>3
  <2>4. fds'[nfds] = f /\ \A s \in 1..nfds - 1 : fds'[s] = fds[s]
    <3>1. \A s \in 1..nfds - 1 : s \in Slots  BY <1>2, <1>3, Numbers DEF Sized
    <3> QED  BY <1>1, <1>3, <2>3, <3>1
  <2> QED  BY <2>1, <2>2, <2>4
<1>5. \A g \in Fds : (Polled(g)' <=> Polled(g)) /\ (Shaking(g)' <=> g = f) /\ ~Shaking(g)
  BY <1>2, <1>4 DEF Polled, Shaking
<1>6. StageOf(f) = "closed" /\ ~Polled(f)  BY <1>4, StageIs
<1>7. StageOf(f)' = "joining"
  BY <1>2, <1>4, <1>5, <1>6 DEF StageOf, Joining
<1>8. \A g \in Fds \ {f} : StageOf(g)' = StageOf(g)  BY <1>4, <1>5, StageSame
<1>9. Stages' = [Stages EXCEPT ![f] = "joining"]  BY <1>7, <1>8, Restaged
<1>10. Due' = Due  BY <1>2, <1>4, DueSame
<1>11. Watch!Cardinality(Watch!Taken) < MaxConnection - 1
  BY <1>2, TakenCount DEF Body, Shape, Sized
<1>12. Waiting' = Waiting  BY <1>1, WaitingSame DEF Accepted
<1>13. Watch!Admit(f)
  BY <1>6, <1>9, <1>10, <1>11, <1>12 DEF Watch!Admit, Watch!Become, Stages, Waiting
<1> QED  BY <1>13 DEF Watch!Next

LEMMA WatchAcceptFull == ASSUME Sized, Body, AcceptFull PROVE Watch!Next
<1>1. PICK f \in Fds : Accepted(f)  BY DEF AcceptFull
<1>2. /\ pc = "scan" /\ pc' = "scan" /\ nfds = MaxConnection
      /\ UNCHANGED <<fds, nfds, revents>>
      /\ i = 0 /\ i' = 1
  BY ListenIsFirst DEF AcceptFull, AtEntry, tableVars
<1>3. /\ kern[f] = "free" /\ kern'[f] = "open"
      /\ \A g \in Fds \ {f} : kern'[g] = kern[g]
  BY <1>1, AcceptedKeeps DEF Accepted, IsNewFd, Body, Shape
<1>4. \A g \in Fds : (Polled(g)' <=> Polled(g)) /\ ~Shaking(g) /\ ~Shaking(g)'
  BY <1>2 DEF Polled, Shaking
<1>5. StageOf(f) = "closed" /\ ~Polled(f)  BY <1>3, StageIs
<1>6. StageOf(f)' = "stranded"  BY <1>2, <1>3, <1>4, <1>5 DEF StageOf, Joining
<1>7. \A g \in Fds \ {f} : StageOf(g)' = StageOf(g)  BY <1>3, <1>4, StageSame
<1>8. Stages' = [Stages EXCEPT ![f] = "stranded"]  BY <1>6, <1>7, Restaged
<1>9. Due' = Due  BY <1>2, DueSame
<1>10. Watch!Cardinality(Watch!Taken) = MaxConnection - 1  BY <1>2, TakenCount
<1>11. Waiting' = Waiting  BY <1>1, WaitingSame DEF Accepted
<1>12. Watch!Strand(f)
  BY <1>5, <1>8, <1>9, <1>10, <1>11 DEF Watch!Strand, Watch!Become, Stages, Waiting
<1> QED  BY <1>12 DEF Watch!Next

\* The handshake is over: the entry counts, and is not marked.
LEMMA WatchHandshakeDone == ASSUME Sized, Body, HandshakeDone PROVE Watch!Next
<1>1. /\ pc = "handshake" /\ pc' = "scan" /\ nfds' = nfds + 1 /\ i' = 1
      /\ UNCHANGED <<fds, revents, kern, rx>>
      /\ i = 0 /\ nfds < MaxConnection /\ nfds \in Nat /\ nfds >= 1
  BY DEF HandshakeDone, kernVars, Body, Shape, Sized
<1>2. PICK f \in Fds : f = fds[nfds] /\ nfds \in Held
  BY <1>1, HeldAre DEF Body, Arrays
<1>3. 1..nfds' - 1 = (1..nfds - 1) \cup {nfds}  BY <1>1
<1>4. \A g \in Fds : (Polled(g)' <=> Polled(g) \/ g = f) /\ ~Shaking(g)' /\ (Shaking(g) <=> g = f)
  BY <1>1, <1>2, <1>3 DEF Polled, Shaking
<1>5. StageOf(f) = "joining" /\ kern[f] # "free"
  BY <1>2, <1>4, StageIs DEF Body, Arrays
<1>6. StageOf(f)' = "watched"  BY <1>1, <1>2, <1>4, <1>5 DEF StageOf
<1>7. \A g \in Fds \ {f} : StageOf(g)' = StageOf(g)  BY <1>1, <1>4, StageSame
<1>8. Stages' = [Stages EXCEPT ![f] = "watched"]  BY <1>2, <1>6, <1>7, Restaged
<1>9. Due' = Due
  <2>1. ~revents[nfds]  BY <1>1, <1>2, HeldAre DEF Body, Marks
  <2>2. {s \in 1..nfds' - 1 : s >= i' /\ revents[s]} = {s \in 1..nfds - 1 : s >= i /\ revents[s]}
    BY <1>1, <1>3, <2>1
  <2>3. Due = {fds[s] : s \in {t \in 1..nfds - 1 : t >= i /\ revents[t]}}  BY <1>1 DEF Due
  <2>4. Due' = {fds[s] : s \in {t \in 1..nfds' - 1 : t >= i' /\ revents[t]}}  BY <1>1 DEF Due
  <2> QED  BY <2>2, <2>3, <2>4
<1>10. Watch!Join(f)
  BY <1>1, <1>2, <1>5, <1>8, <1>9, WaitingSame DEF Watch!Join, Watch!Become, Stages, Waiting
<1> QED  BY <1>2, <1>10 DEF Watch!Next

LEMMA WatchHandshakeFails == ASSUME Sized, Body, HandshakeFails PROVE Watch!Next
<1>1. /\ pc = "handshake" /\ pc' = "scan" /\ i' = 1 /\ i = 0
      /\ UNCHANGED <<nfds, revents>> /\ Forget(fds[nfds])
      /\ fds' = [fds EXCEPT ![nfds] = NoFd]
      /\ nfds < MaxConnection /\ nfds \in Nat /\ nfds >= 1
  BY DEF HandshakeFails, Joining, Body, Shape, Sized
<1>2. PICK f \in Fds : f = fds[nfds] /\ nfds \in Held
  BY <1>1, HeldAre DEF Body, Arrays
<1>3. \A s \in 1..nfds - 1 : fds'[s] = fds[s]
  <2>1. \A s \in 1..nfds - 1 : s \in Slots /\ s # nfds  BY <1>1, Numbers DEF Sized
  <2> QED  BY <1>1, <2>1 DEF Body, Shape
<1>4. \A g \in Fds : (Polled(g)' <=> Polled(g)) /\ ~Shaking(g)' /\ (Shaking(g) <=> g = f)
  BY <1>1, <1>2, <1>3 DEF Polled, Shaking
<1>5. StageOf(f) = "joining"  BY <1>2, <1>4, StageIs
<1>6. kern'[f] = "free" /\ \A g \in Fds \ {f} : kern'[g] = kern[g]
  BY <1>1, <1>2 DEF Forget, Closed, Body, Shape
<1>7. StageOf(f)' = "closed"  BY <1>6 DEF StageOf
<1>8. \A g \in Fds \ {f} : StageOf(g)' = StageOf(g)  BY <1>4, <1>6, StageSame
<1>9. Stages' = [Stages EXCEPT ![f] = "closed"]  BY <1>2, <1>7, <1>8, Restaged
<1>10. Due' = Due  BY <1>1, <1>3, DueSame
<1>11. Waiting' = [Waiting EXCEPT ![f] = 0]  BY <1>1, <1>2, WaitingForgets
<1>12. Watch!Join(f)
  BY <1>2, <1>5, <1>9, <1>10, <1>11
  DEF Watch!Join, Watch!Become, Watch!Forget, Stages, Waiting
<1> QED  BY <1>2, <1>12 DEF Watch!Next

LEMMA WatchAnswer == ASSUME Sized, Body, Answer PROVE Watch!Next
<1>1. /\ AtClient /\ UNCHANGED <<fds, nfds, revents, pc, kern>> /\ i' = i + 1
  BY DEF Answer, tableVars
<1>2. /\ i \in 1..nfds - 1 /\ revents[i] /\ fds[i] \in Fds /\ pc = "scan" /\ i \in Nat
      /\ nfds \in Nat
  BY <1>1, AtClientIs DEF Body, Shape, Sized
<1>3. \A s \in 1..nfds - 1 : s # i => fds[s] # fds[i]
  <2>1. \A s \in 1..nfds - 1 : s \in Held
    <3>1. \A s \in 1..nfds - 1 : s \in Slots  BY EntriesAre DEF Body
    <3> QED  BY <3>1, HeldAre DEF Body
  <2> QED  BY <1>1, <2>1, AtClientIs
<1>4. Due = {fds[s] : s \in {t \in 1..nfds - 1 : t >= i /\ revents[t]}}  BY <1>2 DEF Due
<1>5. Due' = {fds[s] : s \in {t \in 1..nfds - 1 : t >= i + 1 /\ revents[t]}}
  BY <1>1, <1>2 DEF Due
<1>6. \A t \in 1..nfds - 1 : t >= i + 1 <=> t >= i /\ t # i  BY <1>2
<1>7. fds[i] \in Due /\ Due' = Due \ {fds[i]}
  <2>1. fds[i] \in Due  BY <1>2, <1>4
  <2>2. \A f : f \in Due' <=> f \in Due /\ f # fds[i]  BY <1>3, <1>4, <1>5, <1>6
  <2> QED  BY <2>1, <2>2
<1>8. Stages' = Stages  BY <1>1, StagesSame
<1>9. PICK f \in Fds : f = fds[i] /\ f = arr_ssl[i]  BY <1>1, AtClientIs
<1>10. /\ rx' = [rx EXCEPT ![f] = Tail(rx[f])]
       /\ rx \in [Fds -> Seq(Message)] /\ rx[f] \in Seq(Message) /\ rx[f] # <<>>
  BY <1>9 DEF Answer, Record, First, Body, Shape
<1>11. Len(rx[f]) \in Nat /\ Len(rx[f]) >= 1 /\ Len(Tail(rx[f])) = Len(rx[f]) - 1
  BY <1>10
<1>12. 1 \in 1..Waiting[f] /\ Waiting' = [Waiting EXCEPT ![f] = Waiting[f] - 1]
  <2>1. Waiting' = [Waiting EXCEPT ![f] = Len(Tail(rx[f]))] /\ Waiting[f] = Len(rx[f])
    BY <1>10, WaitingIs
  <2>2. Len(Tail(rx[f])) = Waiting[f] - 1  BY <1>11, <2>1
  <2>3. 1 \in 1..Waiting[f]  BY <1>11, <2>1
  <2>4. Waiting' = [Waiting EXCEPT ![f] = Waiting[f] - 1]  BY <2>1, <2>2
  <2> QED  BY <2>3, <2>4
<1>13. Watch!Receive(f)  BY <1>7, <1>8, <1>9, <1>12 DEF Watch!Receive, Stages, Waiting
<1> QED  BY <1>13 DEF Watch!Next

LEMMA WatchDisconnect == ASSUME Sized, Body, Disconnect PROVE Watch!Next
<1>1. PICK last : last = nfds - 1  OBVIOUS
<1>2. /\ AtClient /\ Forget(fds[i]) /\ nfds' = last /\ i' = i + 1 /\ pc' = pc
      /\ fds' = [fds EXCEPT ![i] = fds[last], ![last] = NoFd]
      /\ UNCHANGED revents
  BY <1>1 DEF Disconnect, Compact
<1>3. PICK f \in Fds : f = fds[i]  BY <1>2, AtClientIs
<1>4. /\ i \in 1..last /\ i \in Nat /\ last \in Nat /\ revents[i] /\ pc = "scan"
      /\ kern[f] # "free"
  BY <1>1, <1>2, <1>3, AtClientIs DEF Body, Shape, Sized
<1>5. \A s \in 1..last : s \in Held /\ s \in Slots /\ (s # i => fds[s] # f)
  <2>1. \A s \in 1..last : s \in Slots  BY <1>1, <1>4, Numbers DEF Body, Shape, Sized
  <2>2. \A s \in 1..last : s \in Held  BY <1>1, <2>1, HeldAre DEF Body
  <2> QED  BY <1>2, <1>3, <2>1, <2>2, AtClientIs
<1>6. \A s \in 1..last - 1 : fds'[s] = IF s = i THEN fds[last] ELSE fds[s]
  <2>1. \A s \in 1..last - 1 : s # last /\ s \in 1..last  BY <1>4
  <2> QED  BY <1>2, <1>5, <2>1 DEF Body, Shape
<1>7. \A g \in Fds \ {f} : Polled(g)' <=> Polled(g)
  <2> TAKE g \in Fds \ {f}
  <2>1. ASSUME NEW s \in 1..last - 1, fds'[s] = g PROVE Polled(g)
    <3>1. fds[s] = g \/ fds[last] = g  BY <1>6, <2>1
    <3>2. s \in 1..last /\ last \in 1..last  BY <1>4
    <3> QED  BY <1>1, <3>1, <3>2 DEF Polled
  <2>2. ASSUME NEW s \in 1..last, fds[s] = g PROVE \E t \in 1..last - 1 : fds'[t] = g
    <3>1. s # i  BY <1>3, <2>2
    <3>2. CASE s = last
      <4>1. i \in 1..last - 1 /\ fds'[i] = fds[last]  BY <1>4, <1>6, <3>1, <3>2
      <4> QED  BY <2>2, <3>2, <4>1
    <3>3. CASE s # last
      <4>1. s \in 1..last - 1 /\ fds'[s] = fds[s]  BY <1>4, <1>6, <3>1, <3>3
      <4> QED  BY <2>2, <4>1
    <3> QED  BY <3>2, <3>3
  <2> QED  BY <1>1, <1>2, <2>1, <2>2 DEF Polled
<1>8. kern'[f] = "free" /\ \A g \in Fds \ {f} : kern'[g] = kern[g]
  BY <1>2, <1>3 DEF Forget, Closed, Body, Shape
<1>9. StageOf(f)' = "closed"  BY <1>8 DEF StageOf
<1>10. \A g \in Fds \ {f} : StageOf(g)' = StageOf(g)
  <2>1. \A g \in Fds : ~Shaking(g) /\ ~Shaking(g)'  BY <1>2, <1>4 DEF Shaking
  <2> QED  BY <1>7, <1>8, <2>1, StageSame
<1>11. Stages' = [Stages EXCEPT ![f] = "closed"]  BY <1>9, <1>10, Restaged
<1>12. Due = {fds[s] : s \in {t \in 1..last : t >= i /\ revents[t]}}  BY <1>1, <1>4 DEF Due
<1>13. Due' = {fds'[s] : s \in {t \in 1..last - 1 : t >= i + 1 /\ revents[t]}}
  BY <1>2, <1>4 DEF Due
<1>14. f \in Due  BY <1>3, <1>4, <1>12
<1>15. ASSUME NEW s \in 1..last - 1, s >= i + 1, revents[s] PROVE fds'[s] \in Due \ {f}
  <2>1. s # i /\ s \in 1..last /\ s >= i  BY <1>4, <1>15
  <2>2. fds'[s] = fds[s] /\ fds[s] # f  BY <1>5, <1>6, <1>15, <2>1
  <2> QED  BY <1>12, <1>15, <2>1, <2>2
\* The entry that moved is passed over, if it was named, and no other.
<1>16. ASSUME NEW s \in 1..last, s >= i, revents[s], fds[s] # f, fds[s] # fds[last]
       PROVE  fds[s] \in Due'
  <2>1. s # i /\ s # last  BY <1>3, <1>16
  <2>2. s \in 1..last - 1 /\ s >= i + 1 /\ s # i  BY <1>4, <1>16, <2>1
  <2>3. fds'[s] = fds[s]  BY <1>6, <2>2
  <2> QED  BY <1>13, <1>16, <2>2, <2>3
<1>17. ASSUME NEW s \in 1..last - 1, s >= i + 1, revents[s] PROVE fds'[s] # fds[last]
  <2>1. s # i /\ s # last /\ s \in 1..last /\ last \in 1..last  BY <1>4, <1>17
  <2>2. s \in Held /\ last \in Held /\ fds'[s] = fds[s]  BY <1>5, <1>6, <2>1
  <2> QED  BY <2>1, <2>2 DEF Body, Arrays
<1>18. \E g \in Due : Due' = Due \ {f, g}
  <2>1. CASE fds[last] \in Due
    <3>1. \A h : h \in Due' <=> h \in Due /\ h # f /\ h # fds[last]
      BY <1>12, <1>13, <1>15, <1>16, <1>17
    <3> QED  BY <2>1, <3>1
  <2>2. CASE fds[last] \notin Due
    <3>1. \A h : h \in Due' <=> h \in Due /\ h # f
      BY <1>12, <1>13, <1>15, <1>16, <2>2
    <3>2. Due' = Due \ {f, f}  BY <3>1
    <3> QED  BY <1>14, <3>2
  <2> QED  BY <2>1, <2>2
<1>19. Waiting' = [Waiting EXCEPT ![f] = 0]  BY <1>2, <1>3, WaitingForgets
<1>20. Watch!Drop(f)
  BY <1>11, <1>14, <1>18, <1>19
  DEF Watch!Drop, Watch!Become, Watch!Forget, Stages, Waiting
<1> QED  BY <1>20 DEF Watch!Next

\* When poll fails the clients in the table are closed, the stranded ones
\* stay as they are.
LEMMA WatchPollFails == ASSUME Sized, Body, PollFails PROVE Watch!Next
<1>1. /\ pc = "poll" /\ UNCHANGED <<fds, nfds, pc>>
      /\ kern' = [f \in Fds |-> IF \E s \in Slots : fds[s] = f THEN "free" ELSE kern[f]]
  BY DEF PollFails
<1>2. \A f \in Fds : ~Shaking(f) /\ ~Shaking(f)' /\ (Polled(f)' <=> Polled(f))
  BY <1>1 DEF Shaking, Polled
<1>3. ASSUME NEW f \in Fds PROVE (\E s \in Slots : fds[s] = f) <=> Polled(f)
  <2>1. \A s \in Slots : fds[s] = f => s \in Held
    BY Numbers DEF Body, Arrays
  <2>2. \A s \in Held : s \in Slots  BY HeldAre DEF Body
  <2> QED  BY <1>2, <2>1, <2>2, StageIs
<1>4. ASSUME NEW f \in Fds
      PROVE  StageOf(f)' = IF StageOf(f) \in {"joining", "watched"} THEN "closed" ELSE StageOf(f)
  <2>1. CASE Polled(f)
    <3>1. kern'[f] = "free"  BY <1>1, <1>3, <2>1
    <3>2. StageOf(f) = "watched"  BY <2>1, StageIs
    <3> QED  BY <3>1, <3>2 DEF StageOf
  <2>2. CASE ~Polled(f)
    <3>1. kern'[f] = kern[f]  BY <1>1, <1>3, <2>2
    <3>2. StageOf(f)' = StageOf(f)  BY <1>2, <3>1, StageSame
    <3>3. StageOf(f) \notin {"joining", "watched"}  BY <1>2, <2>2, StageIs
    <3> QED  BY <3>2, <3>3
  <2> QED  BY <2>1, <2>2
<1>5. Watch!Taken = {f \in Fds : StageOf(f) \in {"joining", "watched"}}  BY DEF Watch!Taken
<1>6. Stages' = [f \in Fds |-> IF f \in Watch!Taken THEN "closed" ELSE StageOf(f)]
  BY <1>4, <1>5 DEF Stages
<1>7. Due' = {}  BY <1>1 DEF Due
<1>8. Waiting' = [f \in Fds |-> IF f \in Watch!Taken THEN 0 ELSE Waiting[f]]
  <2>1. \A f \in Fds : f \in Watch!Taken <=> Polled(f)  BY <1>2, <1>5, StageIs
  <2>2. \A f \in Fds : rx'[f] = IF Polled(f) THEN <<>> ELSE rx[f]
    BY <1>3 DEF PollFails
  <2>3. Len(<<>>) = 0  OBVIOUS
  <2> QED  BY <2>1, <2>2, <2>3 DEF Waiting
<1>9. Watch!Stop  BY <1>6, <1>7, <1>8 DEF Watch!Stop, Stages, Waiting
<1> QED  BY <1>9 DEF Watch!Next

LEMMA WatchStutter ==
  ASSUME Sized, Body, NotReady \/ AcceptFails \/ SslNewFails \/ WriteBreaksPipe
  PROVE  UNCHANGED Watch!vars
<1>1. UNCHANGED <<fds, nfds, revents, pc, kern, rx>> /\ pc = "scan" /\ i' \in {i, i + 1}
  BY DEF NotReady, AcceptFails, SslNewFails, WriteBreaksPipe, AtClient, AtEntry, Aborted,
         tableVars, kernVars
<1>2. Stages' = Stages  BY <1>1, StagesSame
<1>3. \A s \in 1..nfds - 1 : revents[s] => (s >= i' <=> s >= i)
  <2>1. CASE NotReady
    <3>1. ~revents[i] /\ i' = i + 1 /\ i \in Nat  BY <2>1 DEF NotReady, Body, Shape
    <3> QED  BY <3>1
  <2>2. CASE AcceptFails
    <3>1. i = 0 /\ i' = i + 1  BY <2>2, ListenIsFirst DEF AcceptFails
    <3> QED  BY <3>1
  <2>3. CASE SslNewFails \/ WriteBreaksPipe  BY <2>3 DEF SslNewFails, WriteBreaksPipe
  <2> QED  BY <2>1, <2>2, <2>3
<1>4. Due' = Due  BY <1>1, <1>3, DueSame
<1> QED  BY <1>1, <1>2, <1>4, WaitingSame DEF Watch!vars, Stages, Waiting

\* At the end of the scan everyone named has had his turn.
LEMMA WatchEndScan == ASSUME Sized, Body, EndScan PROVE UNCHANGED Watch!vars
<1>1. /\ UNCHANGED <<fds, nfds, revents, kern, rx>> /\ pc = "scan" /\ pc' = "poll"
      /\ i >= nfds
  BY DEF EndScan, ScanOver, tableVars, kernVars
<1>2. Stages' = Stages  BY <1>1, StagesSame
<1>3. \A s \in 1..nfds - 1 : ~(s >= i)  BY <1>1 DEF Body, Shape, Sized
<1>4. Due = {} /\ Due' = {}  BY <1>1, <1>3 DEF Due
<1> QED  BY <1>1, <1>2, <1>4, WaitingSame DEF Watch!vars, Stages, Waiting

LEMMA WatchNext == ASSUME Sized PROVE IInv /\ [Next]_vars => [Watch!Next]_Watch!vars
<1> SUFFICES ASSUME IInv, [Next]_vars PROVE [Watch!Next]_Watch!vars  OBVIOUS
<1>1. CASE Client  BY <1>1, WatchClient DEF Client, IInv
<1>2. CASE Server
  <2>1. Body  BY <1>2 DEF Server, IInv
  <2> QED
    BY <1>2, <2>1, WatchReport, WatchEndScan, WatchPollFails, WatchStutter, WatchAccept, WatchAcceptFull,
       WatchHandshakeDone, WatchHandshakeFails, WatchAnswer, WatchDisconnect DEF Server
<1>3. CASE Ended \/ UNCHANGED vars
  <2>1. UNCHANGED <<fds, nfds, revents, pc, i, kern, rx>>
    BY <1>3 DEF Ended, vars, tableVars, kernVars
  <2>2. Stages' = Stages  BY <2>1, StagesSame
  <2>3. Due' = Due  BY <2>1 DEF Due
  <2> QED  BY <2>1, <2>2, <2>3, WaitingSame DEF Watch!vars, Stages, Waiting
<1> QED  BY <1>1, <1>2, <1>3 DEF Next

\* The TLS server implements WatchSet: a client is turned away only when the
\* table is full, received from or closed only when the last poll named it,
\* watched from the end of its handshake until it is closed, and of those a
\* poll named only the client whose entry fills a hole loses his turn.
THEOREM AlwaysImplementsWatchSet == ASSUME Sized PROVE Spec => ImplementsWatchSet
<1>1. Init => Watch!Init  BY WatchInit
<1>2. IInv /\ [Next]_vars => [Watch!Next]_Watch!vars  BY WatchNext
<1> QED  BY <1>1, <1>2, InvAlways, PTL DEF Spec, ImplementsWatchSet, Watch!Spec
=============================================================================
