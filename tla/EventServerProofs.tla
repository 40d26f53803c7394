-------------------------- MODULE EventServerProofs --------------------------
(***************************************************************************)
(* The event server, for every number of clients and descriptors and       *)
(* whether or not accept, timerfd_create and realloc fail.  First its      *)
(* pollfd table, which keeps within what realloc gave, for every order of  *)
(* insertions and removals.  Then its loop, which never sleeps in recv:    *)
(* the revents snapshot a connection is served by still holds for its      *)
(* descriptor when the walk comes to it.  Last, the loop implements        *)
(* WatchSet: nobody accepted is left out, nobody named is passed over.     *)
(***************************************************************************)
EXTENDS EventServer, SequenceTheorems, FiniteSetTheorems, WellFoundedInduction, TLAPS

Entries == [fd : Int, revents : BOOLEAN]
Tables == [fds : Seq(Entries), size : Nat]

\* A table of entries with the spare one insert_fd leaves.
Fits(t) == t \in Tables /\ Len(t.fds) < t.size

LEMMA InsertFits ==
  ASSUME NEW t, Fits(t), NEW f \in Int
  PROVE  Fits(InsertFd(t, f))
<1>1. t.fds \in Seq(Entries) /\ t.size \in Nat /\ Len(t.fds) \in Nat
  BY LenProperties DEF Fits, Tables
<1>2. Entry(f) \in Entries  BY DEF Entry, Entries
<1>3. /\ Append(t.fds, Entry(f)) \in Seq(Entries)
      /\ Len(Append(t.fds, Entry(f))) = Len(t.fds) + 1
  BY <1>1, <1>2
<1>4. InsertFd(t, f).fds = Append(t.fds, Entry(f))  BY DEF InsertFd
<1>5. /\ InsertFd(t, f).size \in Nat
      /\ Len(t.fds) + 1 < InsertFd(t, f).size
  BY <1>1 DEF InsertFd, Full, Fits
<1>6. InsertFd(t, f) \in Tables  BY <1>3, <1>4, <1>5 DEF InsertFd, Tables
<1> QED  BY <1>3, <1>4, <1>5, <1>6 DEF Fits

\* The shrink test of remove_fd fails on every table that fits: entries are
\* compared with four times the capacity.
LEMMA NeverShrinks ==
  ASSUME NEW size \in Nat, NEW len \in Nat, len < size
  PROVE  SizeAfterRemove(len, size) = size
<1>1. (size * 8) \div 2 = size * 4  OBVIOUS
<1> QED  BY <1>1 DEF SizeAfterRemove, PollfdBytes

LEMMA RemovableRange ==
  ASSUME NEW t, NEW f, Removable(t, f) # 0
  PROVE  Removable(t, f) \in DOMAIN t.fds /\ Removable(t, f) > 1
BY DEF Removable, Matches

LEMMA RemoveFits ==
  ASSUME NEW t, Fits(t), NEW f
  PROVE  Fits(RemoveFd(t, f)) /\ RemoveFd(t, f).size = t.size
<1>1. t.fds \in Seq(Entries) /\ t.size \in Nat /\ Len(t.fds) \in Nat
  BY LenProperties DEF Fits, Tables
<1>2. CASE Removable(t, f) = 0  BY <1>2 DEF RemoveFd
<1>3. CASE Removable(t, f) # 0
  <2> DEFINE i == Removable(t, f)
  <2>1. i \in 1..Len(t.fds)  BY <1>1, <1>3, RemovableRange, LenProperties
  <2> HIDE DEF i
  <2>2. /\ SubSeq(t.fds, 1, i - 1) \in Seq(Entries)
        /\ Len(SubSeq(t.fds, 1, i - 1)) = i - 1
    BY <1>1, <2>1, SubSeqProperties, ElementOfSeq
  <2>3. /\ SubSeq(t.fds, i + 1, Len(t.fds)) \in Seq(Entries)
        /\ Len(SubSeq(t.fds, i + 1, Len(t.fds))) = Len(t.fds) - i
    BY <1>1, <2>1, SubSeqProperties, ElementOfSeq
  <2>4. /\ RemoveEntry(t.fds, i) \in Seq(Entries)
        /\ Len(RemoveEntry(t.fds, i)) = Len(t.fds) - 1
    <3> DEFINE a == SubSeq(t.fds, 1, i - 1)
               b == SubSeq(t.fds, i + 1, Len(t.fds))
    <3>1. RemoveEntry(t.fds, i) = a \o b  BY DEF RemoveEntry, RemoveAt
    <3> HIDE DEF a, b
    <3>2. a \o b \in Seq(Entries) /\ Len(a \o b) = Len(a) + Len(b)
      BY <2>2, <2>3, ConcatProperties DEF a, b
    <3>3. Len(a) = i - 1 /\ Len(b) = Len(t.fds) - i  BY <2>2, <2>3 DEF a, b
    <3> QED  BY <1>1, <2>1, <3>1, <3>2, <3>3
  <2>5. SizeAfterRemove(Len(t.fds) - 1, t.size) = t.size
    BY <1>1, <2>1, NeverShrinks DEF Fits
  <2>6. RemoveFd(t, f) = [fds |-> RemoveEntry(t.fds, i), size |-> t.size]
    BY <1>3, <2>5 DEF RemoveFd, i
  <2> QED  BY <1>1, <2>1, <2>4, <2>6 DEF Fits, Tables
<1> QED  BY <1>2, <1>3

-----------------------------------------------------------------------------
(* The loop.                                                               *)

FitsInv == Fits(table)

LEMMA FitsInit == Init => FitsInv
<1> SUFFICES ASSUME Init PROVE FitsInv  OBVIOUS
<1>1. Fits(EmptyTable)
  BY InitialSizeAssumption, EmptySeq DEF EmptyTable, Fits, Tables
<1> QED  BY <1>1, InsertFits DEF Init, FitsInv, ListenFd

LEMMA NewFdInt == \A k : NewFd(k, NoTimer) \in Int /\ NewFd(k, NoSock) \in Int
  BY DEF NewFd, NoTimer, NoSock, Fds

LEMMA FitsEnlist ==
  ASSUME FitsInv, NEW sock \in Int, NEW k, Enlist(sock, k)
  PROVE  FitsInv'
<1> DEFINE one == InsertFd(table, sock)
<1>1. Fits(one)  BY InsertFits DEF FitsInv
<1>2. Fits(InsertFd(one, NewFd(k, NoTimer)))  BY <1>1, InsertFits, NewFdInt
<1>3. table' \in {table, one, InsertFd(one, NewFd(k, NoTimer))}
  BY DEF Enlist
<1> QED  BY <1>1, <1>2, <1>3 DEF FitsInv

LEMMA IsSeq ==
  ASSUME NEW S, NEW n \in Nat, NEW s \in [1..n -> S]
  PROVE  s \in Seq(S) /\ Len(s) = n
<1>1. s \in Seq(S)  BY SeqDef
<1> QED  BY <1>1, LenProperties

\* Writing the array leaves the rest of the table alone.
LEMMA WithFds ==
  ASSUME NEW t \in Tables, NEW s \in Seq(Entries)
  PROVE  /\ [t EXCEPT !.fds = s] \in Tables
         /\ [t EXCEPT !.fds = s].size = t.size
         /\ [t EXCEPT !.fds = s].fds = s
<1>1. t = [fds |-> t.fds, size |-> t.size] /\ t.size \in Nat  BY DEF Tables
<1>2. [t EXCEPT !.fds = s] = [fds |-> s, size |-> t.size]  BY <1>1
<1> QED  BY <1>1, <1>2 DEF Tables

LEMMA FitsPoll == ASSUME FitsInv, Poll PROVE FitsInv'
<1> DEFINE n == Len(table.fds)
<1>1. table.fds \in Seq(Entries) /\ n \in Nat /\ DOMAIN table.fds = 1..n
  BY LenProperties DEF FitsInv, Fits, Tables
<1> DEFINE new == [i \in 1..n |-> [fd |-> table.fds[i].fd, revents |-> table.fds[i].fd \in Ready]]
<1>2. table' = [table EXCEPT !.fds = new]
  BY <1>1 DEF Poll, SetRevents, FitsInv, Fits, Tables
<1>3. \A f : (f \in Ready) \in BOOLEAN  OBVIOUS
<1>4. ASSUME NEW j \in 1..n PROVE table.fds[j].fd \in Int
  <2>1. table.fds[j] \in Entries  BY <1>1, ElementOfSeq
  <2> QED  BY <2>1 DEF Entries
<1>5. new \in [1..n -> Entries]  BY <1>3, <1>4 DEF Entries
<1>6. table \in Tables /\ n < table.size  BY DEF FitsInv, Fits
<1> HIDE DEF new, n
<1>7. new \in Seq(Entries) /\ Len(new) = n  BY ONLY <1>1, <1>5, IsSeq
<1>8. table' \in Tables /\ table'.size = table.size /\ table'.fds = new
  BY ONLY <1>2, <1>6, <1>7, WithFds
<1> QED  BY <1>6, <1>7, <1>8 DEF FitsInv, Fits

LEMMA FitsRefresh == ASSUME FitsInv, NEW d, Refresh(d) PROVE FitsInv'
<1>1. table.fds \in Seq(Entries) /\ table \in Tables  BY DEF FitsInv, Fits, Tables
<1>2. DOMAIN table.fds = 1..Len(table.fds) /\ Len(table.fds) \in Nat
  BY <1>1, LenProperties
<1> DEFINE new == [table.fds EXCEPT ![TimerAt].revents = FALSE]
<1>3. table' = [table EXCEPT !.fds = new]  BY DEF Refresh
<1>4. new \in [1..Len(table.fds) -> Entries]
  <2>1. \A j \in 1..Len(table.fds) : table.fds[j] \in Entries  BY <1>1, ElementOfSeq
  <2>2. DOMAIN new = 1..Len(table.fds)  BY <1>2
  <2>3. \A j \in 1..Len(table.fds) :
           new[j] \in {table.fds[j], [table.fds[j] EXCEPT !.revents = FALSE]}
    BY <1>2
  <2>4. \A e \in Entries : [e EXCEPT !.revents = FALSE] \in Entries  BY DEF Entries
  <2>5. \A j \in 1..Len(table.fds) : new[j] \in Entries  BY <2>1, <2>3, <2>4
  <2> QED  BY <2>2, <2>5
<1> HIDE DEF new
<1>5. new \in Seq(Entries) /\ Len(new) = Len(table.fds)  BY ONLY <1>2, <1>4, IsSeq
<1>6. table' \in Tables /\ table'.size = table.size /\ table'.fds = new
  BY <1>1, <1>3, <1>5, WithFds
<1>7. Len(table.fds) < table.size  BY DEF FitsInv, Fits
<1> QED  BY <1>5, <1>6, <1>7 DEF FitsInv, Fits

LEMMA FitsSame == FitsInv /\ UNCHANGED table => FitsInv'
  BY DEF FitsInv

LEMMA FitsServer == ASSUME FitsInv, Server PROVE FitsInv'
<1> USE DEF serverVars, kernVars
<1>1. CASE Poll  BY <1>1, FitsPoll
<1>2. CASE Accept
  <2>1. NewFd(kern, NoSock) \in Int  BY NewFdInt
  <2> QED  BY <1>2, <2>1, FitsEnlist DEF Accept
<1>3. CASE AcceptFails
  BY <1>3, FitsEnlist DEF AcceptFails, NoSock
<1>4. CASE Serve \/ Eof  BY <1>4, FitsRefresh DEF Serve, Eof
<1>5. CASE Delete
  <2>1. Fits(RemoveFd(table, ConnFd))  BY RemoveFits DEF FitsInv
  <2> QED  BY <1>5, <2>1, RemoveFits DEF Delete, FitsInv
<1>6. CASE PollFails \/ NoAccept \/ AcceptFailsAgain \/ EndOfWalk \/ NotFound
           \/ NoEvent \/ SendFails \/ RecvFails \/ Keep
  BY <1>6, FitsSame DEF PollFails, NoAccept, AcceptFailsAgain, EndOfWalk, NotFound,
     NoEvent, SendFails, RecvFails, Keep
<1> QED  BY <1>1, <1>2, <1>3, <1>4, <1>5, <1>6 DEF Server

LEMMA FitsNext == FitsInv /\ [Next]_vars => FitsInv'
<1> SUFFICES ASSUME FitsInv, [Next]_vars PROVE FitsInv'  OBVIOUS
<1>1. CASE UNCHANGED vars  BY <1>1, FitsSame DEF vars
<1>2. CASE Environment
  BY <1>2, FitsSame
  DEF Environment, ClientConnect, ClientSend, ClientLeave, TimerAdvances, serverVars
<1> QED  BY <1>1, <1>2, FitsServer DEF Next, Ended

LEMMA FitsImplies == FitsInv => TableFits
<1> SUFFICES ASSUME FitsInv, NEW len \in 0..Len(table.fds)
             PROVE  Len(table.fds) < table.size /\ SizeAfterRemove(len, table.size) = table.size
  BY DEF TableFits, FitsInv, Fits
<1>1. Len(table.fds) \in Nat /\ table.size \in Nat /\ Len(table.fds) < table.size
  BY LenProperties DEF FitsInv, Fits, Tables
<1> QED  BY <1>1, NeverShrinks

\* insert_fd always writes inside the allocation and remove_fd's shrink
\* branch is dead, for any number of connections and descriptors, also when
\* accept, timerfd_create or realloc fail.
THEOREM TableFitsAlways == Spec => []TableFits
  BY FitsInit, FitsNext, FitsImplies, PTL DEF Spec

-----------------------------------------------------------------------------
(* The loop.                                                               *)

Numbers == Fds \cup {ListenFd, NoSock, NoTimer}
Items == [fd : Numbers, revents : BOOLEAN]
Conns == [conn : Fds \cup {NoSock}, timer : Fds \cup {NoTimer}]

LEMMA FdsArePositive == ListenFd \notin Fds /\ NoSock \notin Fds /\ NoTimer \notin Fds /\ Fds \subseteq Int
  BY MaxFdAssumption DEF Fds, ListenFd, NoSock, NoTimer

LEMMA RemoveAtProperties ==
  ASSUME NEW S, NEW s \in Seq(S), NEW i \in 1..Len(s)
  PROVE  /\ RemoveAt(s, i) \in Seq(S)
         /\ Len(RemoveAt(s, i)) = Len(s) - 1
         /\ \A j \in 1..Len(s) - 1 : RemoveAt(s, i)[j] = IF j < i THEN s[j] ELSE s[j + 1]
<1> DEFINE a == SubSeq(s, 1, i - 1)
           b == SubSeq(s, i + 1, Len(s))
<1>1. Len(s) \in Nat /\ \A j \in 1..Len(s) : s[j] \in S  BY LenProperties, ElementOfSeq
<1>2. a \in Seq(S) /\ Len(a) = i - 1 /\ \A j \in 1..i - 1 : a[j] = s[j]
  BY <1>1, SubSeqProperties
<1>3. b \in Seq(S) /\ Len(b) = Len(s) - i /\ \A j \in 1..Len(s) - i : b[j] = s[i + j]
  <2>1. \A j \in i + 1..Len(s) : s[j] \in S  BY <1>1
  <2> QED  BY <1>1, <2>1, SubSeqProperties
<1> HIDE DEF a, b
<1>4. /\ a \o b \in Seq(S) /\ Len(a \o b) = Len(a) + Len(b)
      /\ \A j \in 1..Len(a) + Len(b) : (a \o b)[j] = IF j <= Len(a) THEN a[j] ELSE b[j - Len(a)]
  BY <1>2, <1>3, ConcatProperties
<1>5. RemoveAt(s, i) = a \o b  BY DEF RemoveAt, a, b
<1>6. ASSUME NEW j \in 1..Len(s) - 1
      PROVE  (a \o b)[j] = IF j < i THEN s[j] ELSE s[j + 1]
  <2>1. (a \o b)[j] = IF j <= i - 1 THEN a[j] ELSE b[j - (i - 1)]
    BY <1>1, <1>2, <1>3, <1>4
  <2>2. CASE j < i  BY <1>1, <1>2, <2>1, <2>2
  <2>3. CASE j >= i
    <3>1. j - (i - 1) \in 1..Len(s) - i /\ i + (j - (i - 1)) = j + 1  BY <1>1, <2>3
    <3>2. b[j - (i - 1)] = s[j + 1]  BY <1>3, <3>1
    <3> QED  BY <1>1, <2>1, <2>3, <3>2
  <2>4. j \in Int /\ i \in Int  BY <1>1
  <2>5. j < i \/ j >= i  BY <2>4
  <2> QED  BY ONLY <2>2, <2>3, <2>5
<1> QED  BY <1>1, <1>2, <1>3, <1>4, <1>5, <1>6

-----------------------------------------------------------------------------
(* The table: who is in it, and who is marked.                             *)

Listed(t) == {t.fds[a].fd : a \in DOMAIN t.fds}
Flagged(t) == {t.fds[a].fd : a \in {b \in DOMAIN t.fds : t.fds[b].revents}}

\* The listening socket is first, and no descriptor is entered twice.
Tab(t) ==
    /\ t \in [fds : Seq(Items), size : Nat]
    /\ Len(t.fds) >= 1 /\ t.fds[1].fd = ListenFd
    /\ \A a, b \in DOMAIN t.fds : t.fds[a].fd = t.fds[b].fd /\ t.fds[a].fd \in Fds => a = b

LEMMA TabDomain ==
  ASSUME NEW t, Tab(t)
  PROVE  /\ t.fds \in Seq(Items) /\ t.size \in Nat
         /\ Len(t.fds) \in Nat /\ DOMAIN t.fds = 1..Len(t.fds)
         /\ \A a \in DOMAIN t.fds : t.fds[a] \in Items
BY LenProperties, ElementOfSeq DEF Tab

LEMMA TabInsert ==
  ASSUME NEW t, Tab(t), NEW f \in Numbers, f \in Fds => f \notin Listed(t)
  PROVE  /\ Tab(InsertFd(t, f))
         /\ Listed(InsertFd(t, f)) = Listed(t) \cup {f}
         /\ Flagged(InsertFd(t, f)) = Flagged(t)
         /\ Len(InsertFd(t, f).fds) = Len(t.fds) + 1
<1> DEFINE n == Len(t.fds)
           new == Append(t.fds, Entry(f))
<1>1. /\ t.fds \in Seq(Items) /\ t.size \in Nat /\ n \in Nat
      /\ DOMAIN t.fds = 1..n /\ \A a \in 1..n : t.fds[a] \in Items
  BY TabDomain
<1>2. Entry(f) \in Items /\ Entry(f).fd = f /\ ~Entry(f).revents  BY DEF Entry, Items
<1>3. /\ new \in Seq(Items) /\ Len(new) = n + 1
      /\ \A a \in 1..n : new[a] = t.fds[a]
      /\ new[n + 1] = Entry(f)
  BY <1>1, <1>2, AppendProperties
<1>4. DOMAIN new = 1..n + 1  BY <1>3, LenProperties
<1>5. InsertFd(t, f) \in [fds : Seq(Items), size : Nat] /\ InsertFd(t, f).fds = new
  BY <1>1, <1>3 DEF InsertFd
<1> HIDE DEF new, n
<1>6. \A a \in 1..n + 1 : a \in 1..n \/ a = n + 1  BY <1>1
<1>7. 1..n \subseteq 1..n + 1 /\ n + 1 \in 1..n + 1  BY <1>1
<1>8. {new[a].fd : a \in 1..n + 1} = {t.fds[a].fd : a \in 1..n} \cup {f}
  BY <1>2, <1>3, <1>6, <1>7
<1>9. {new[a].fd : a \in {b \in 1..n + 1 : new[b].revents}}
        = {t.fds[a].fd : a \in {b \in 1..n : t.fds[b].revents}}
  BY <1>2, <1>3, <1>6, <1>7
<1>10. \A a \in 1..n : f \in Fds => t.fds[a].fd # f  BY <1>1 DEF Listed
<1>11. ASSUME NEW a \in 1..n + 1, NEW b \in 1..n + 1, new[a].fd = new[b].fd, new[a].fd \in Fds
       PROVE  a = b
  <2>1. CASE a \in 1..n /\ b \in 1..n  BY <1>1, <1>3, <1>11, <2>1 DEF Tab
  <2>2. CASE a = n + 1 /\ b \in 1..n  BY <1>2, <1>3, <1>10, <1>11, <2>2
  <2>3. CASE b = n + 1 /\ a \in 1..n  BY <1>2, <1>3, <1>10, <1>11, <2>3
  <2> QED  BY <1>6, <2>1, <2>2, <2>3
<1>12. new[1].fd = ListenFd /\ n + 1 >= 1  BY <1>1, <1>3 DEF Tab, n
<1>13. Tab(InsertFd(t, f))  BY <1>3, <1>4, <1>5, <1>11, <1>12 DEF Tab
<1>14. Listed(InsertFd(t, f)) = Listed(t) \cup {f}  BY <1>1, <1>4, <1>5, <1>8 DEF Listed
<1>15. Flagged(InsertFd(t, f)) = Flagged(t)  BY <1>1, <1>4, <1>5, <1>9 DEF Flagged
<1> QED  BY <1>3, <1>5, <1>13, <1>14, <1>15 DEF n

\* A number of Fds is found where it is, if it is there.
LEMMA FindListed ==
  ASSUME NEW t, Tab(t), NEW f \in Fds
  PROVE  /\ f \in Listed(t) => /\ Removable(t, f) \in DOMAIN t.fds /\ Removable(t, f) > 1
                               /\ t.fds[Removable(t, f)].fd = f
                               /\ FindFd(t, f) \in DOMAIN t.fds
                               /\ t.fds[FindFd(t, f)].fd = f
         /\ f \notin Listed(t) => Removable(t, f) = 0 /\ FindFd(t, f) = 0
<1>1. DOMAIN t.fds = 1..Len(t.fds) /\ Len(t.fds) \in Nat  BY TabDomain
<1>2. CASE f \notin Listed(t)
  <2>1. Matches(t, f) = {}  BY <1>2 DEF Matches, Listed
  <2> QED  BY <1>2, <2>1 DEF Removable, FindFd
<1>3. CASE f \in Listed(t)
  <2>1. PICK a \in DOMAIN t.fds : t.fds[a].fd = f  BY <1>3 DEF Listed
  <2>2. Matches(t, f) = {a}  BY <2>1 DEF Matches, Tab
  <2>3. a \in Nat /\ a > 1  BY <1>1, <2>1, FdsArePositive DEF Tab
  <2>4. {i \in Matches(t, f) : i > 1 /\ \A j \in Matches(t, f) : j <= i} = {a}
    BY <2>2, <2>3
  <2>5. {i \in Matches(t, f) : \A j \in Matches(t, f) : i <= j} = {a}
    BY <2>2, <2>3
  <2>6. Removable(t, f) = a  BY <2>4 DEF Removable
  <2>7. FindFd(t, f) = a  BY <2>5 DEF FindFd
  <2> QED  BY <1>3, <2>1, <2>3, <2>6, <2>7
<1> QED  BY <1>2, <1>3

\* Whatever the number, what find_fd finds is an entry with it.
LEMMA FoundIsThere ==
  ASSUME NEW t, NEW f, FindFd(t, f) # 0
  PROVE  FindFd(t, f) \in DOMAIN t.fds /\ t.fds[FindFd(t, f)].fd = f
BY DEF FindFd, Matches

LEMMA TabRemove ==
  ASSUME NEW t, Tab(t), NEW f
  PROVE  /\ Tab(RemoveFd(t, f))
         /\ Listed(RemoveFd(t, f)) \subseteq Listed(t)
         /\ Listed(t) \ {f} \subseteq Listed(RemoveFd(t, f))
         /\ Flagged(RemoveFd(t, f)) \subseteq Flagged(t)
         /\ Flagged(t) \ {f} \subseteq Flagged(RemoveFd(t, f))
         /\ f \in Fds => f \notin Listed(RemoveFd(t, f))
         /\ f \in Fds \cap Listed(t) => Len(RemoveFd(t, f).fds) = Len(t.fds) - 1
<1> DEFINE n == Len(t.fds)
           i == Removable(t, f)
<1>1. /\ t.fds \in Seq(Items) /\ t.size \in Nat /\ n \in Nat
      /\ DOMAIN t.fds = 1..n /\ \A a \in 1..n : t.fds[a] \in Items
  BY TabDomain
<1>2. CASE i = 0
  <2>1. RemoveFd(t, f) = t  BY <1>2 DEF RemoveFd
  <2>2. f \in Fds => f \notin Listed(t)
    <3> SUFFICES ASSUME f \in Fds, f \in Listed(t) PROVE FALSE  OBVIOUS
    <3>1. i > 1 /\ i \in 1..n  BY <1>1, FindListed
    <3> QED  BY <1>1, <1>2, <3>1
  <2> QED  BY <2>1, <2>2
<1>3. CASE i # 0
  <2>1. i \in 1..n /\ i > 1 /\ t.fds[i].fd = f
    BY <1>1, <1>3, RemovableRange DEF Removable, Matches
  <2> DEFINE new == RemoveAt(t.fds, i)
  <2>2. RemoveFd(t, f).fds = new /\ RemoveFd(t, f) \in [fds : {new}, size : Nat]
    <3>1. SizeAfterRemove(n - 1, t.size) \in Nat
      BY <1>1 DEF SizeAfterRemove, PollfdBytes
    <3> QED  BY <1>3, <3>1 DEF RemoveFd, RemoveEntry
  <2> HIDE DEF i
  <2>3. /\ new \in Seq(Items) /\ Len(new) = n - 1
        /\ \A j \in 1..n - 1 : new[j] = IF j < i THEN t.fds[j] ELSE t.fds[j + 1]
    BY <1>1, <2>1, RemoveAtProperties
  <2>4. DOMAIN new = 1..n - 1  BY <2>3, LenProperties
  <2> HIDE DEF new, n
  <2> DEFINE old(j) == IF j < i THEN j ELSE j + 1
  <2>5. \A j \in 1..n - 1 : old(j) \in 1..n /\ old(j) # i /\ new[j] = t.fds[old(j)]
    BY <1>1, <2>1, <2>3
  <2>6. \A j, k \in 1..n - 1 : old(j) = old(k) => j = k  BY <1>1, <2>1
  <2>7. \A a \in 1..n : a # i => \E j \in 1..n - 1 : old(j) = a
    <3> TAKE a \in 1..n
    <3>1. CASE a < i
      <4>1. a \in 1..n - 1 /\ old(a) = a  BY <1>1, <2>1, <3>1
      <4> QED  BY <4>1
    <3>2. CASE a > i
      <4>1. a - 1 \in 1..n - 1 /\ old(a - 1) = a  BY <1>1, <2>1, <3>2
      <4> QED  BY <4>1
    <3> QED  BY <1>1, <2>1, <3>1, <3>2
  <2>8. old(1) = 1 /\ 1 \in 1..n - 1  BY <1>1, <2>1
  <2> HIDE DEF old
  <2>9. \A a, b \in 1..n - 1 : new[a].fd = new[b].fd /\ new[a].fd \in Fds => a = b
    BY <1>1, <2>5, <2>6 DEF Tab
  <2>10. new[1].fd = ListenFd  BY <2>5, <2>8 DEF Tab
  <2>11. {new[a].fd : a \in 1..n - 1} \subseteq {t.fds[a].fd : a \in 1..n}
    BY <2>5
  <2>12. {t.fds[a].fd : a \in 1..n} \ {f} \subseteq {new[a].fd : a \in 1..n - 1}
    BY <2>1, <2>5, <2>7
  <2>13. {new[a].fd : a \in {b \in 1..n - 1 : new[b].revents}}
           \subseteq {t.fds[a].fd : a \in {b \in 1..n : t.fds[b].revents}}
    BY <2>5
  <2>14. f \in Fds => \A a \in 1..n - 1 : new[a].fd # f
    BY <1>1, <2>1, <2>5 DEF Tab
  <2>15. Tab(RemoveFd(t, f))
    BY <1>1, <2>2, <2>3, <2>4, <2>8, <2>9, <2>10 DEF Tab
  <2>16. Listed(RemoveFd(t, f)) = {new[a].fd : a \in 1..n - 1}  BY <2>2, <2>4 DEF Listed
  <2>17. Listed(t) = {t.fds[a].fd : a \in 1..n}  BY <1>1 DEF Listed
  <2>18. Flagged(RemoveFd(t, f)) \subseteq Flagged(t)  BY <1>1, <2>2, <2>4, <2>13 DEF Flagged
  <2>19. f \in Fds => f \notin Listed(RemoveFd(t, f))  BY <2>14, <2>16
  <2>20. Len(RemoveFd(t, f).fds) = Len(t.fds) - 1  BY <2>2, <2>3 DEF n
  <2>21. {t.fds[a].fd : a \in {b \in 1..n : t.fds[b].revents}} \ {f}
           \subseteq {new[a].fd : a \in {b \in 1..n - 1 : new[b].revents}}
    BY <2>1, <2>5, <2>7
  <2>22. Flagged(t) \ {f} \subseteq Flagged(RemoveFd(t, f))
    BY <1>1, <2>2, <2>4, <2>21 DEF Flagged
  <2> QED  BY <2>11, <2>12, <2>15, <2>16, <2>17, <2>18, <2>19, <2>20, <2>22
<1> QED  BY <1>2, <1>3

LEMMA TabSetRevents ==
  ASSUME NEW t, Tab(t), NEW ready
  PROVE  /\ Tab(SetRevents(t, ready))
         /\ Listed(SetRevents(t, ready)) = Listed(t)
         /\ Flagged(SetRevents(t, ready)) \subseteq ready
         /\ SetRevents(t, ready).fds[1].revents = (ListenFd \in ready)
         /\ Len(SetRevents(t, ready).fds) = Len(t.fds)
<1> DEFINE n == Len(t.fds)
           new == [a \in 1..n |-> [fd |-> t.fds[a].fd, revents |-> t.fds[a].fd \in ready]]
<1>1. /\ t.size \in Nat /\ n \in Nat
      /\ DOMAIN t.fds = 1..n /\ \A a \in 1..n : t.fds[a] \in Items
  BY TabDomain
<1>2. t = [fds |-> t.fds, size |-> t.size]  BY DEF Tab
<1>3. SetRevents(t, ready) = [fds |-> new, size |-> t.size]
  BY <1>1, <1>2 DEF SetRevents
<1>4. \A a \in 1..n : new[a] \in Items
  <2> TAKE a \in 1..n
  <2>1. t.fds[a].fd \in Numbers  BY <1>1 DEF Items
  <2>2. (t.fds[a].fd \in ready) \in BOOLEAN  OBVIOUS
  <2> QED  BY <2>1, <2>2 DEF Items
<1>5. \A a \in 1..n : new[a].fd = t.fds[a].fd /\ new[a].revents = (t.fds[a].fd \in ready)
  OBVIOUS
<1>6. DOMAIN new = 1..n /\ new \in [1..n -> Items]  BY <1>4
<1> HIDE DEF new, n
<1>7. new \in Seq(Items) /\ Len(new) = n  BY <1>1, <1>6, IsSeq
<1>8. n >= 1 /\ t.fds[1].fd = ListenFd  BY DEF Tab, n
<1>9. Tab(SetRevents(t, ready))
  BY <1>1, <1>3, <1>5, <1>6, <1>7, <1>8 DEF Tab
<1>10. {new[a].fd : a \in 1..n} = {t.fds[a].fd : a \in 1..n}  BY <1>5
<1>11. {new[a].fd : a \in {b \in 1..n : new[b].revents}} \subseteq ready  BY <1>5
<1> QED  BY <1>1, <1>3, <1>5, <1>6, <1>7, <1>8, <1>9, <1>10, <1>11 DEF Listed, Flagged, n

LEMMA TabClear ==
  ASSUME NEW t, Tab(t), NEW i \in DOMAIN t.fds
  PROVE  LET u == [t EXCEPT !.fds = [t.fds EXCEPT ![i].revents = FALSE]]
         IN  /\ Tab(u) /\ Listed(u) = Listed(t) /\ Flagged(u) \subseteq Flagged(t)
             /\ Flagged(t) \ {t.fds[i].fd} \subseteq Flagged(u)
             /\ Len(u.fds) = Len(t.fds)
<1> DEFINE n == Len(t.fds)
           new == [t.fds EXCEPT ![i].revents = FALSE]
           u == [t EXCEPT !.fds = new]
<1>1. /\ t.size \in Nat /\ n \in Nat
      /\ DOMAIN t.fds = 1..n /\ \A a \in 1..n : t.fds[a] \in Items
  BY TabDomain
<1>2. t = [fds |-> t.fds, size |-> t.size]  BY DEF Tab
<1>3. new = [a \in 1..n |-> IF a = i THEN [t.fds[a] EXCEPT !.revents = FALSE] ELSE t.fds[a]]
  BY <1>1
<1>4. \A a \in 1..n :
         LET e == IF a = i THEN [t.fds[a] EXCEPT !.revents = FALSE] ELSE t.fds[a]
         IN  /\ e \in Items /\ e.fd = t.fds[a].fd
             /\ (e.revents => t.fds[a].revents) /\ (a # i /\ t.fds[a].revents => e.revents)
  BY <1>1 DEF Items
<1> HIDE DEF new, n
<1>5. u = [fds |-> new, size |-> t.size]  BY <1>2
<1> HIDE DEF u
<1>6. /\ DOMAIN new = 1..n /\ new \in [1..n -> Items]
      /\ \A a \in 1..n : new[a].fd = t.fds[a].fd /\ (new[a].revents => t.fds[a].revents)
      /\ \A a \in 1..n : a # i /\ t.fds[a].revents => new[a].revents
  BY <1>3, <1>4
<1>7. new \in Seq(Items) /\ Len(new) = n  BY <1>1, <1>6, IsSeq
<1>8. n >= 1 /\ t.fds[1].fd = ListenFd  BY DEF Tab, n
<1>9. u.fds = new /\ u \in [fds : Seq(Items), size : Nat]  BY <1>1, <1>5, <1>7
<1>10. \A a, b \in 1..n : new[a].fd = new[b].fd /\ new[a].fd \in Fds => a = b
  BY <1>1, <1>6 DEF Tab
<1>11. Tab(u)  BY <1>1, <1>6, <1>7, <1>8, <1>9, <1>10 DEF Tab
<1>12. Listed(u) = Listed(t)  BY <1>1, <1>6, <1>9 DEF Listed
<1>13. Flagged(u) \subseteq Flagged(t)  BY <1>1, <1>6, <1>9 DEF Flagged
<1>14. Flagged(t) \ {t.fds[i].fd} \subseteq Flagged(u)  BY <1>1, <1>6, <1>9 DEF Flagged
<1> QED  BY <1>7, <1>9, <1>11, <1>12, <1>13, <1>14 DEF new, n, u

-----------------------------------------------------------------------------
(* The loop.                                                               *)

KernStates == {"free"} \cup SockState \cup TimerState

LShape ==
    /\ Tab(table)
    /\ conns \in Seq(Conns)
    /\ pc \in {"poll", "accept", "conn", "timer"}
    /\ cur \in Nat \ {0}
    /\ pc \in {"poll", "accept"} => cur = 1
    /\ pc \in {"conn", "timer"} => cur <= Len(conns) + 1
    /\ doDelete \in BOOLEAN
    /\ backlog \in Nat
    /\ pc = "accept" /\ table.fds[1].revents => backlog > 0
    /\ kern \in [Fds -> KernStates]
    /\ rx \in [Fds -> Seq(Message)]
    /\ owed \in [Fds -> BOOLEAN]
    /\ status \in {"running", "exited", "sigpipe", "abort"}

\* No descriptor is two connections', or on the wrong side of one, and the
\* table holds no closed one.
Owners ==
    /\ \A j, k \in DOMAIN conns : conns[j].conn = conns[k].conn /\ conns[j].conn \in Fds => j = k
    /\ \A j, k \in DOMAIN conns : conns[j].timer = conns[k].timer /\ conns[j].timer \in Fds => j = k
    /\ \A j \in DOMAIN conns : conns[j].conn \in Fds => kern[conns[j].conn] \in SockState
    /\ \A j \in DOMAIN conns : conns[j].timer \in Fds => kern[conns[j].timer] \in TimerState
    /\ \A f \in Fds \cap Listed(table) : kern[f] # "free"

\* A client's mark of the last poll still holds when the walk gets to it.
Marked(k) == conns[k].conn \in Fds \cap Flagged(table)
Fresh ==
    pc # "poll" =>
       \A k \in DOMAIN conns :
          k >= cur /\ (pc = "timer" => k > cur) /\ Marked(k)
             => kern[conns[k].conn] # "open" \/ rx[conns[k].conn] # <<>>

LInv == LShape /\ Owners /\ Fresh

LEMMA ConnsDomain ==
  ASSUME LShape
  PROVE  /\ Len(conns) \in Nat /\ DOMAIN conns = 1..Len(conns)
         /\ \A k \in DOMAIN conns : /\ conns[k].conn \in Fds \cup {NoSock}
                                     /\ conns[k].timer \in Fds \cup {NoTimer}
<1>1. conns \in Seq(Conns)  BY DEF LShape
<1>2. Len(conns) \in Nat /\ DOMAIN conns = 1..Len(conns)  BY <1>1, LenProperties
<1>3. \A k \in DOMAIN conns : conns[k] \in Conns  BY <1>1, <1>2, ElementOfSeq
<1> QED  BY <1>2, <1>3 DEF Conns

LEMMA States == /\ "free" \notin SockState /\ "free" \notin TimerState /\ "open" \notin TimerState
                /\ SockState \cap TimerState = {} /\ "open" \in SockState /\ "armed" \in TimerState
                /\ "free" \in KernStates /\ "open" \in KernStates /\ "armed" \in KernStates
                /\ SockState \subseteq KernStates /\ TimerState \subseteq KernStates
  BY DEF SockState, TimerState, KernStates

LEMMA LoopInit == Init => LInv
<1> SUFFICES ASSUME Init PROVE LInv  OBVIOUS
<1> DEFINE e == Entry(ListenFd)
<1>1. e \in Items /\ e.fd = ListenFd /\ ~e.revents  BY DEF Entry, Items, Numbers
<1>2. table.fds = <<e>> /\ table \in [fds : {<<e>>}, size : Nat]
  BY InitialSizeAssumption DEF Init, InsertFd, EmptyTable, Full
<1> HIDE DEF e
<1>3. <<e>> \in Seq(Items) /\ Len(<<e>>) = 1 /\ DOMAIN <<e>> = {1} /\ <<e>>[1] = e
  BY <1>1
<1>4. Tab(table)
  <2>1. table \in [fds : Seq(Items), size : Nat]  BY <1>2, <1>3
  <2>2. Len(table.fds) = 1 /\ table.fds[1].fd = ListenFd /\ DOMAIN table.fds = {1}
    BY <1>1, <1>2, <1>3
  <2> QED  BY <2>1, <2>2 DEF Tab
<1>5. Listed(table) = {ListenFd}  BY <1>1, <1>2, <1>3 DEF Listed
<1>6. conns = <<>> /\ conns \in Seq(Conns) /\ DOMAIN conns = {} /\ Len(conns) = 0
  BY DEF Init
<1>7. LShape
  <2>1. <<>> \in Seq(Message) /\ "free" \in KernStates  BY States
  <2>2. kern \in [Fds -> KernStates] /\ rx \in [Fds -> Seq(Message)] /\ owed \in [Fds -> BOOLEAN]
    BY <2>1 DEF Init
  <2>3. pc = "poll" /\ cur = 1 /\ doDelete = FALSE /\ backlog = 0 /\ status = "running"
    BY DEF Init
  <2>4. cur \in Nat \ {0} /\ backlog \in Nat /\ cur <= Len(conns) + 1  BY <1>6, <2>3
  <2>5. doDelete \in BOOLEAN  BY <2>3
  <2> QED  BY ONLY <1>4, <1>6, <2>2, <2>3, <2>4, <2>5 DEF LShape
<1>8. Owners  BY <1>5, <1>6, FdsArePositive DEF Owners
<1>9. Fresh  BY DEF Init, Fresh
<1> QED  BY <1>7, <1>8, <1>9 DEF LInv

\* Where the loop may go when it leaves table and connections alone.
Moves ==
    \/ UNCHANGED <<pc, cur>> /\ backlog' >= backlog
    \/ pc = "accept" /\ pc' = "conn" /\ cur' = cur
    \/ pc = "conn" /\ pc' = "timer" /\ cur' = cur
    \/ pc = "timer" /\ pc' = "conn" /\ cur' = cur + 1 /\ cur <= Len(conns)
    \/ pc' = "poll" /\ cur' = 1

\* What may become of an open descriptor without the loop.
Alike ==
    \A f \in Fds :
       /\ kern'[f] = "free" <=> kern[f] = "free"
       /\ kern[f] \in SockState => kern'[f] \in SockState
       /\ kern[f] \in TimerState => kern'[f] \in TimerState
       /\ kern[f] # "open" \/ rx[f] # <<>> => kern'[f] # "open" \/ rx'[f] # <<>>

LEMMA LoopMoves ==
  ASSUME LInv, UNCHANGED <<table, conns>>, Moves, Alike,
         doDelete' \in BOOLEAN, backlog' \in Nat,
         kern' \in [Fds -> KernStates], rx' \in [Fds -> Seq(Message)],
         owed' \in [Fds -> BOOLEAN],
         status' \in {"running", "exited", "sigpipe", "abort"}
  PROVE  LInv'
<1>1. Tab(table)' /\ Listed(table') = Listed(table) /\ Flagged(table') = Flagged(table)
  <2>1. Tab(table)  BY DEF LInv, LShape
  <2> QED  BY <2>1
<1>2. Len(conns) \in Nat /\ DOMAIN conns = 1..Len(conns)  BY ConnsDomain DEF LInv
<1>3. /\ pc' \in {"poll", "accept", "conn", "timer"}
      /\ cur' \in Nat \ {0}
      /\ pc' \in {"poll", "accept"} => cur' = 1
      /\ pc' \in {"conn", "timer"} => cur' <= Len(conns) + 1
  BY <1>2 DEF Moves, LInv, LShape
<1>4. pc' = "accept" /\ table.fds[1].revents => backlog' > 0
  BY DEF Moves, LInv, LShape
<1>5. LShape'
  <2>1. conns' \in Seq(Conns) /\ table' = table /\ conns' = conns  BY DEF LInv, LShape
  <2> QED  BY <1>1, <1>3, <1>4, <2>1 DEF LShape
<1>6. Owners'
  <2>1. \A j \in DOMAIN conns : conns[j].conn \in Fds => kern'[conns[j].conn] \in SockState
    BY DEF LInv, Owners, Alike
  <2>2. \A j \in DOMAIN conns : conns[j].timer \in Fds => kern'[conns[j].timer] \in TimerState
    BY DEF LInv, Owners, Alike
  <2>3. \A f \in Fds \cap Listed(table) : kern'[f] # "free"  BY DEF LInv, Owners, Alike
  <2>4. /\ \A j, k \in DOMAIN conns : conns[j].conn = conns[k].conn /\ conns[j].conn \in Fds => j = k
        /\ \A j, k \in DOMAIN conns : conns[j].timer = conns[k].timer /\ conns[j].timer \in Fds => j = k
    BY DEF LInv, Owners
  <2>5. conns' = conns /\ Listed(table)' = Listed(table)  BY <1>1
  <2> QED  BY ONLY <2>1, <2>2, <2>3, <2>4, <2>5, Zenon DEF Owners
<1>7. Fresh'
  <2> SUFFICES ASSUME pc' # "poll", NEW k \in DOMAIN conns, k >= cur', pc' = "timer" => k > cur',
                      Marked(k)
               PROVE  kern'[conns[k].conn] # "open" \/ rx'[conns[k].conn] # <<>>
    BY <1>1 DEF Fresh, Marked
  <2>1. CASE pc' = "timer" /\ pc = "conn"
    <3>1. k >= cur /\ pc # "poll" /\ pc # "timer"  BY <2>1 DEF Moves
    <3> QED  BY <3>1 DEF LInv, Fresh, Alike, Marked
  <2>2. CASE ~(pc' = "timer" /\ pc = "conn")
    <3>1. k >= cur /\ pc # "poll" /\ (pc = "timer" => k > cur)
      BY <1>2, <2>2 DEF Moves, LInv, LShape
    <3> QED  BY <3>1 DEF LInv, Fresh, Alike, Marked
  <2> QED  BY <2>1, <2>2
<1> QED  BY <1>5, <1>6, <1>7 DEF LInv

\* A step that only moves the loop on.
LEMMA LoopGoesOn ==
  ASSUME LInv, UNCHANGED <<table, conns, kern, rx, owed>>, Moves,
         doDelete' \in BOOLEAN, backlog' \in Nat,
         status' \in {"running", "exited", "sigpipe", "abort"}
  PROVE  LInv'
<1>1. Alike  BY DEF Alike
<1>2. /\ kern' \in [Fds -> KernStates] /\ rx' \in [Fds -> Seq(Message)]
      /\ owed' \in [Fds -> BOOLEAN]
  BY DEF LInv, LShape
<1> QED  BY <1>1, <1>2, LoopMoves

\* Clients and timers change what the loop will find, never to nothing.
LEMMA LoopEnvironment == ASSUME LInv, Environment PROVE LInv'
<1>1. /\ kern \in [Fds -> KernStates] /\ rx \in [Fds -> Seq(Message)]
      /\ owed \in [Fds -> BOOLEAN] /\ doDelete \in BOOLEAN /\ backlog \in Nat
      /\ status \in {"running", "exited", "sigpipe", "abort"}
  BY DEF LInv, LShape
<1>2. CASE ClientConnect
  BY <1>1, <1>2, LoopGoesOn DEF ClientConnect, serverVars, Moves
<1>3. ASSUME NEW f \in Fds, NEW m \in Message, ClientSend(f, m) PROVE LInv'
  <2>1. /\ UNCHANGED <<serverVars, backlog, kern, status>>
        /\ rx' = [rx EXCEPT ![f] = Append(rx[f], m)]
        /\ owed' = [owed EXCEPT ![f] = owed[f] \/ m = "ping"]
    BY <1>3 DEF ClientSend
  <2>2. Append(rx[f], m) \in Seq(Message) /\ Append(rx[f], m) # <<>>
    BY <1>1, AppendProperties
  <2>3. rx' \in [Fds -> Seq(Message)] /\ \A g \in Fds : rx[g] # <<>> => rx'[g] # <<>>
    BY <1>1, <2>1, <2>2
  <2>4. owed' \in [Fds -> BOOLEAN]  BY <1>1, <2>1
  <2>5. Alike  BY <2>1, <2>3 DEF Alike
  <2>6. Moves  BY <1>1, <2>1 DEF Moves, serverVars
  <2> QED  BY <1>1, <2>1, <2>3, <2>4, <2>5, <2>6, LoopMoves DEF serverVars
<1>4. ASSUME NEW f \in Fds, NEW s \in KernStates \ {"free", "open"}, kern[f] # "free",
             kern' = [kern EXCEPT ![f] = s],
             (kern[f] \in SockState /\ s \in SockState) \/ (kern[f] \in TimerState /\ s \in TimerState),
             UNCHANGED <<serverVars, backlog, rx, owed, status>>
      PROVE  LInv'
  <2>1. kern' \in [Fds -> KernStates]  BY <1>1, <1>4
  <2>2. Alike  BY <1>1, <1>4, States DEF Alike
  <2>3. Moves  BY <1>1, <1>4 DEF Moves, serverVars
  <2> QED  BY <1>1, <1>4, <2>1, <2>2, <2>3, LoopMoves DEF serverVars
<1>5. ASSUME NEW f \in Fds, NEW how \in {"shut", "reset"}, ClientLeave(f, how) PROVE LInv'
  <2>1. /\ how \in KernStates \ {"free", "open"} /\ kern[f] # "free"
        /\ kern[f] \in SockState /\ how \in SockState
    BY <1>5 DEF ClientLeave, KernStates, SockState
  <2> QED  BY <1>4, <1>5, <2>1 DEF ClientLeave
<1>6. ASSUME NEW f \in Fds, TimerAdvances(f) PROVE LInv'
  <2>1. PICK s \in {"due", "expired"} : kern' = [kern EXCEPT ![f] = s] /\ kern[f] \in TimerState
    BY <1>6 DEF TimerAdvances, TimerState
  <2>2. s \in KernStates \ {"free", "open"} /\ s \in TimerState /\ kern[f] # "free"
    BY <2>1 DEF KernStates, TimerState
  <2> QED  BY <1>4, <1>6, <2>1, <2>2 DEF TimerAdvances
<1> QED  BY <1>2, <1>3, <1>5, <1>6 DEF Environment

LEMMA LoopPoll == ASSUME LInv, Poll PROVE LInv'
<1>1. /\ table' = SetRevents(table, Ready) /\ pc' = "accept"
      /\ UNCHANGED <<conns, cur, doDelete, backlog, kern, rx, owed, status>>
      /\ pc = "poll" /\ cur = 1
  BY DEF Poll, kernVars, LInv, LShape
<1>2. /\ Tab(table') /\ Listed(table') = Listed(table)
      /\ Flagged(table') \subseteq Ready
      /\ table'.fds[1].revents = (ListenFd \in Ready)
  BY <1>1, TabSetRevents DEF LInv, LShape
<1>3. ListenFd \in Ready => backlog > 0  BY FdsArePositive DEF Ready
<1>4. LShape'
  BY <1>1, <1>2, <1>3 DEF LInv, LShape
<1>5. Owners'
  <2>1. Listed(table)' = Listed(table)  BY <1>2
  <2> QED  BY <1>1, <2>1 DEF LInv, Owners
<1>6. \A f \in Fds \cap Ready : kern[f] # "open" \/ rx[f] # <<>>
  BY FdsArePositive DEF Ready
<1>7. Flagged(table)' \subseteq Ready  BY <1>2
<1>8. Fresh'  BY <1>1, <1>6, <1>7 DEF Fresh, Marked
<1> QED  BY <1>4, <1>5, <1>8 DEF LInv

LEMMA NewFdIs ==
  ASSUME NEW k, NEW failure
  PROVE  NewFd(k, failure) = failure \/ (NewFd(k, failure) \in Fds /\ k[NewFd(k, failure)] = "free")
BY DEF NewFd

\* A new client's socket and timer have numbers nobody holds, so no entry, no
\* mark and no connection is about them yet.
Enlisted(sock, timer) ==
    /\ UNCHANGED <<cur, doDelete, rx, owed>> /\ pc' = "conn" /\ cur = 1
    /\ status' \in {status, "abort"}
    /\ timer \in Fds => timer # sock /\ kern[timer] = "free"
    /\ kern' \in [Fds -> KernStates]
    /\ sock \in Fds => kern'[sock] = "open"
    /\ timer \in Fds => kern'[timer] = "armed"
    /\ \A g \in Fds \ {sock, timer} : kern'[g] = kern[g]
    /\ sock \in Fds => sock \notin Listed(table)
    /\ timer \in Fds => timer \notin Listed(table)
    /\ Tab(table') /\ Listed(table') \subseteq Listed(table) \cup {sock, timer}
    /\ Flagged(table') = Flagged(table)
    /\ conns' \in Seq(Conns) /\ Len(conns') \in {Len(conns), Len(conns) + 1}
    /\ DOMAIN conns' = 1..Len(conns')
    /\ \A j \in DOMAIN conns' :
          \/ j \in DOMAIN conns /\ conns'[j] = conns[j]
          \/ j = Len(conns) + 1 /\ conns'[j] = [conn |-> sock, timer |-> timer]
    /\ Running' => /\ Listed(table) \cup {sock} \subseteq Listed(table')
                   /\ DOMAIN conns \subseteq DOMAIN conns'
                   /\ \A j \in DOMAIN conns : conns'[j] = conns[j]
                   /\ \E m \in DOMAIN conns' : conns'[m].conn = sock

LEMMA EnlistEffects ==
  ASSUME LInv, NEW sock \in Fds \cup {NoSock}, sock \in Fds => kern[sock] = "free",
         Enlist(sock, Opened(kern, sock, "open")), pc = "accept", backlog' \in Nat
  PROVE  \E timer \in Fds \cup {NoTimer} : Enlisted(sock, timer)
<1> DEFINE k == Opened(kern, sock, "open")
           timer == NewFd(k, NoTimer)
           one == InsertFd(table, sock)
           two == InsertFd(one, timer)
           c == [conn |-> sock, timer |-> timer]
<1>1. /\ kern' = Opened(k, timer, "armed")
      /\ UNCHANGED <<cur, doDelete, rx, owed>> /\ pc' = "conn"
      /\ table' \in {table, one, two}
      /\ conns' \in {conns, Append(conns, c)}
      /\ status' \in {status, "abort"}
  BY DEF Enlist
<1>1a. Running' => table' \in {one, two} /\ conns' = Append(conns, c)
  BY DEF Enlist, Running
<1>2. timer = NoTimer \/ (timer \in Fds /\ k[timer] = "free")  BY NewFdIs
<1>3. kern \in [Fds -> KernStates] /\ Tab(table) /\ cur = 1 /\ conns \in Seq(Conns)
  BY DEF LInv, LShape
<1>4. /\ k \in [Fds -> KernStates]
      /\ sock \in Fds => k[sock] = "open"
      /\ \A g \in Fds \ {sock} : k[g] = kern[g]
  BY <1>3, States DEF Opened
<1> HIDE DEF k, timer
<1>5. timer \in Fds => timer # sock /\ kern[timer] = "free"
  BY <1>2, <1>4, FdsArePositive
<1>6. /\ kern' \in [Fds -> KernStates]
      /\ sock \in Fds => kern'[sock] = "open"
      /\ timer \in Fds => kern'[timer] = "armed"
      /\ \A g \in Fds \ {sock, timer} : kern'[g] = kern[g]
  BY <1>1, <1>4, <1>5, States DEF Opened
<1>7. /\ sock \in Fds => sock \notin Listed(table)
      /\ timer \in Fds => timer \notin Listed(table)
  BY <1>5 DEF LInv, Owners
<1>8. /\ Tab(one) /\ Listed(one) = Listed(table) \cup {sock}
      /\ Flagged(one) = Flagged(table)
  BY <1>3, <1>7, TabInsert DEF Numbers
<1>9. /\ Tab(two) /\ Listed(two) = Listed(one) \cup {timer}
      /\ Flagged(two) = Flagged(one)
  <2>1. timer \in Numbers /\ (timer \in Fds => timer \notin Listed(one))
    BY <1>2, <1>5, <1>7, <1>8 DEF Numbers
  <2> HIDE DEF one
  <2> QED  BY <1>8, <2>1, TabInsert
<1> HIDE DEF one, two
<1>10. /\ Tab(table') /\ Listed(table') \subseteq Listed(table) \cup {sock, timer}
       /\ Flagged(table') = Flagged(table)
  BY <1>1, <1>3, <1>8, <1>9
<1> DEFINE n == Len(conns)
<1>11. /\ n \in Nat /\ DOMAIN conns = 1..n
       /\ \A j \in 1..n : /\ conns[j].conn \in Fds \cup {NoSock}
                          /\ conns[j].timer \in Fds \cup {NoTimer}
  BY ConnsDomain DEF LInv
<1>12. c \in Conns /\ c.conn = sock /\ c.timer = timer  BY <1>2 DEF Conns
<1> HIDE DEF c, n
<1>13. /\ conns' \in Seq(Conns) /\ Len(conns') \in {n, n + 1}
       /\ DOMAIN conns' = 1..Len(conns')
       /\ \A j \in DOMAIN conns' : \/ j \in 1..n /\ conns'[j] = conns[j]
                                   \/ j = n + 1 /\ conns'[j] = c
  <2>1. CASE conns' = conns  BY <1>3, <1>11, <2>1 DEF n
  <2>2. CASE conns' = Append(conns, c)
    <3>1. /\ Append(conns, c) \in Seq(Conns) /\ Len(Append(conns, c)) = n + 1
          /\ \A j \in 1..n : Append(conns, c)[j] = conns[j]
          /\ Append(conns, c)[n + 1] = c
      BY <1>3, <1>12, AppendProperties DEF n
    <3>2. DOMAIN conns' = 1..n + 1  BY <2>2, <3>1, LenProperties
    <3>3. \A j \in 1..n + 1 : j \in 1..n \/ j = n + 1  BY <1>11
    <3> QED  BY <2>2, <3>1, <3>2, <3>3
  <2> QED  BY <1>1, <2>1, <2>2
<1>14. timer \in Fds \cup {NoTimer}  BY <1>2
<1>15. \A j \in DOMAIN conns' : \/ j \in DOMAIN conns /\ conns'[j] = conns[j]
                                \/ j = Len(conns) + 1 /\ conns'[j] = c
  BY <1>11, <1>13 DEF n
<1>16. Len(conns') \in {Len(conns), Len(conns) + 1}  BY <1>13 DEF n
<1>17. UNCHANGED <<cur, doDelete, rx, owed>> /\ pc' = "conn" /\ cur = 1
  BY <1>1, <1>3
<1>18. status' \in {status, "abort"}  BY <1>1
<1>18a. Running' => /\ Listed(table) \cup {sock} \subseteq Listed(table')
                    /\ DOMAIN conns \subseteq DOMAIN conns'
                    /\ \A j \in DOMAIN conns : conns'[j] = conns[j]
                    /\ \E m \in DOMAIN conns' : conns'[m].conn = sock
  <2> SUFFICES ASSUME Running'
               PROVE  /\ Listed(table) \cup {sock} \subseteq Listed(table')
                      /\ 1..n \subseteq DOMAIN conns'
                      /\ \A j \in 1..n : conns'[j] = conns[j]
                      /\ \E m \in DOMAIN conns' : conns'[m].conn = sock
    BY <1>11
  <2>1. Listed(table) \cup {sock} \subseteq Listed(table')  BY <1>8, <1>9, <1>1a
  <2>2. /\ Len(conns') = n + 1 /\ conns'[n + 1] = c
        /\ \A j \in 1..n : conns'[j] = conns[j]
    BY <1>3, <1>12, <1>1a, AppendProperties DEF n
  <2>3. DOMAIN conns' = 1..n + 1  BY <1>13, <2>2
  <2>4. n + 1 \in 1..n + 1 /\ 1..n \subseteq 1..n + 1  BY <1>11
  <2> QED  BY <1>12, <2>1, <2>2, <2>3, <2>4
<1>19. Enlisted(sock, timer)
  BY ONLY <1>5, <1>6, <1>7, <1>10, <1>13, <1>15, <1>16, <1>17, <1>18, <1>18a DEF Enlisted, c
<1> QED  BY <1>14, <1>19

LEMMA LoopEnlist ==
  ASSUME LInv, NEW sock \in Fds \cup {NoSock}, sock \in Fds => kern[sock] = "free",
         Enlist(sock, Opened(kern, sock, "open")), pc = "accept", backlog' \in Nat
  PROVE  LInv'
<1>1. PICK timer \in Fds \cup {NoTimer} : Enlisted(sock, timer)  BY EnlistEffects
<1> DEFINE c == [conn |-> sock, timer |-> timer]
           n == Len(conns)
<1>3. cur = 1  BY <1>1 DEF Enlisted
<1>5. timer \in Fds => timer # sock /\ kern[timer] = "free"  BY <1>1 DEF Enlisted
<1>6. /\ kern' \in [Fds -> KernStates]
      /\ sock \in Fds => kern'[sock] = "open"
      /\ timer \in Fds => kern'[timer] = "armed"
      /\ \A g \in Fds \ {sock, timer} : kern'[g] = kern[g]
  BY <1>1 DEF Enlisted
<1>7. /\ sock \in Fds => sock \notin Listed(table)
      /\ timer \in Fds => timer \notin Listed(table)
  BY <1>1 DEF Enlisted
<1>8. /\ UNCHANGED <<cur, doDelete, rx, owed>> /\ pc' = "conn"
      /\ status' \in {status, "abort"}
  BY <1>1 DEF Enlisted
<1>10. /\ Tab(table') /\ Listed(table') \subseteq Listed(table) \cup {sock, timer}
       /\ Flagged(table') = Flagged(table)
  BY <1>1 DEF Enlisted
<1>11. /\ n \in Nat /\ DOMAIN conns = 1..n
       /\ \A j \in 1..n : /\ conns[j].conn \in Fds \cup {NoSock}
                          /\ conns[j].timer \in Fds \cup {NoTimer}
  BY ConnsDomain DEF LInv
<1>12. c \in Conns /\ c.conn = sock /\ c.timer = timer  BY DEF Conns
<1>13. /\ conns' \in Seq(Conns) /\ Len(conns') \in {n, n + 1}
       /\ DOMAIN conns' = 1..Len(conns')
       /\ \A j \in DOMAIN conns' : \/ j \in 1..n /\ conns'[j] = conns[j]
                                   \/ j = n + 1 /\ conns'[j] = c
  BY <1>1, <1>11 DEF Enlisted
<1> HIDE DEF c, n
<1>14. \A j \in 1..n : /\ conns[j].conn \in Fds => conns[j].conn \notin {sock, timer}
                       /\ conns[j].timer \in Fds => conns[j].timer \notin {sock, timer}
  BY <1>5, <1>11, States DEF LInv, Owners
<1>15. LShape'
  <2>1. pc' = "conn" /\ cur' = 1 /\ cur' <= Len(conns') + 1
    <3>1. Len(conns') \in Nat  BY <1>13, LenProperties
    <3> QED  BY <1>8, <1>3, <3>1
  <2>2. /\ doDelete' \in BOOLEAN /\ cur' \in Nat \ {0}
        /\ rx' \in [Fds -> Seq(Message)] /\ owed' \in [Fds -> BOOLEAN]
        /\ status' \in {"running", "exited", "sigpipe", "abort"}
    BY <1>8 DEF LInv, LShape
  <2> QED  BY <1>6, <1>10, <1>13, <2>1, <2>2 DEF LShape
<1>16. Owners'
  <2>1. ASSUME NEW j \in DOMAIN conns', NEW m \in DOMAIN conns',
               conns'[j].conn = conns'[m].conn, conns'[j].conn \in Fds
        PROVE  j = m
    <3>1. \A p, q \in 1..n : conns[p].conn = conns[q].conn /\ conns[p].conn \in Fds => p = q
      BY <1>11 DEF LInv, Owners
    <3>2. CASE conns'[j] = c /\ conns'[m] # c  BY <1>12, <1>13, <1>14, <2>1, <3>2
    <3>3. CASE conns'[j] # c /\ conns'[m] = c  BY <1>12, <1>13, <1>14, <2>1, <3>3
    <3>4. CASE conns'[j] # c /\ conns'[m] # c
      <4>1. /\ j \in 1..n /\ conns'[j] = conns[j]
            /\ m \in 1..n /\ conns'[m] = conns[m]
        BY <1>13, <3>4
      <4> QED  BY <2>1, <3>1, <4>1
    <3>5. CASE conns'[j] = c /\ conns'[m] = c
      <4>1. \A p \in 1..n : conns[p].conn \in Fds => conns[p].conn # c.conn  BY <1>12, <1>14
      <4>2. j = n + 1 /\ m = n + 1  BY <1>13, <2>1, <3>5, <4>1
      <4> QED  BY <4>2
    <3> QED  BY <3>2, <3>3, <3>4, <3>5
  <2>2. ASSUME NEW j \in DOMAIN conns', NEW m \in DOMAIN conns',
               conns'[j].timer = conns'[m].timer, conns'[j].timer \in Fds
        PROVE  j = m
    <3>1. \A p, q \in 1..n : conns[p].timer = conns[q].timer /\ conns[p].timer \in Fds => p = q
      BY <1>11 DEF LInv, Owners
    <3>2. CASE conns'[j] = c /\ conns'[m] # c  BY <1>12, <1>13, <1>14, <2>2, <3>2
    <3>3. CASE conns'[j] # c /\ conns'[m] = c  BY <1>12, <1>13, <1>14, <2>2, <3>3
    <3>4. CASE conns'[j] # c /\ conns'[m] # c
      <4>1. /\ j \in 1..n /\ conns'[j] = conns[j]
            /\ m \in 1..n /\ conns'[m] = conns[m]
        BY <1>13, <3>4
      <4> QED  BY <2>2, <3>1, <4>1
    <3>5. CASE conns'[j] = c /\ conns'[m] = c
      <4>1. \A p \in 1..n : conns[p].timer \in Fds => conns[p].timer # c.timer  BY <1>12, <1>14
      <4>2. j = n + 1 /\ m = n + 1  BY <1>13, <2>2, <3>5, <4>1
      <4> QED  BY <4>2
    <3> QED  BY <3>2, <3>3, <3>4, <3>5
  <2>3. ASSUME NEW j \in DOMAIN conns', conns'[j].conn \in Fds
        PROVE  kern'[conns'[j].conn] \in SockState
    <3>1. CASE conns'[j] = c  BY <1>6, <1>12, <2>3, <3>1, States
    <3>2. CASE j \in 1..n /\ conns'[j] = conns[j]
      <4>1. conns[j].conn \in Fds \ {sock, timer}  BY <1>14, <2>3, <3>2
      <4> QED  BY <1>6, <1>11, <3>2, <4>1 DEF LInv, Owners
    <3> QED  BY <1>13, <3>1, <3>2
  <2>4. ASSUME NEW j \in DOMAIN conns', conns'[j].timer \in Fds
        PROVE  kern'[conns'[j].timer] \in TimerState
    <3>1. CASE conns'[j] = c  BY <1>6, <1>12, <2>4, <3>1, States
    <3>2. CASE j \in 1..n /\ conns'[j] = conns[j]
      <4>1. conns[j].timer \in Fds \ {sock, timer}  BY <1>14, <2>4, <3>2
      <4> QED  BY <1>6, <1>11, <3>2, <4>1 DEF LInv, Owners
    <3> QED  BY <1>13, <3>1, <3>2
  <2>5. \A f \in Fds \cap Listed(table') : kern'[f] # "free"
    BY <1>6, <1>10, States DEF LInv, Owners
  <2> QED  BY <2>1, <2>2, <2>3, <2>4, <2>5 DEF Owners
<1>17. Fresh'
  <2> SUFFICES ASSUME NEW j \in DOMAIN conns', j >= cur', conns'[j].conn \in Fds,
                      conns'[j].conn \in Flagged(table)'
               PROVE  kern'[conns'[j].conn] # "open" \/ rx'[conns'[j].conn] # <<>>
    BY DEF Fresh, Marked
  <2>1. conns'[j].conn \in Flagged(table)  BY <1>10
  <2>2. conns'[j].conn # sock
    <3>1. conns'[j].conn \in Listed(table)  BY <2>1 DEF Flagged, Listed
    <3> QED  BY <1>7, <3>1
  <2>3. j \in 1..n /\ conns'[j] = conns[j]  BY <1>12, <1>13, <2>2
  <2>4. kern[conns[j].conn] # "open" \/ rx[conns[j].conn] # <<>>
    BY <1>8, <1>3, <1>11, <2>1, <2>3 DEF LInv, Fresh, Marked
  <2>5. kern'[conns[j].conn] = kern[conns[j].conn]  BY <1>6, <1>14, <2>3
  <2> QED  BY <1>8, <2>3, <2>4, <2>5
<1> QED  BY <1>15, <1>16, <1>17 DEF LInv

LEMMA LoopAccept == ASSUME LInv, Accept \/ AcceptFails PROVE LInv'
<1>1. pc = "accept" /\ backlog \in Nat /\ backlog > 0
  BY DEF Accept, AcceptFails, LInv, LShape
<1>2. backlog' \in Nat  BY <1>1 DEF Accept, AcceptFails
<1>3. CASE Accept
  <2> DEFINE sock == NewFd(kern, NoSock)
  <2>1. sock \in Fds /\ kern[sock] = "free"  BY <1>3, NewFdIs DEF Accept
  <2>2. Enlist(sock, Opened(kern, sock, "open"))  BY <1>3 DEF Accept
  <2> HIDE DEF sock
  <2> QED  BY <1>1, <1>2, <2>1, <2>2, LoopEnlist
<1>4. CASE AcceptFails
  <2>1. Opened(kern, NoSock, "open") = kern  BY FdsArePositive DEF Opened
  <2>2. Enlist(NoSock, Opened(kern, NoSock, "open"))  BY <1>4, <2>1 DEF AcceptFails
  <2> QED  BY <1>1, <1>2, <2>2, FdsArePositive, LoopEnlist
<1> QED  BY <1>3, <1>4

\* A connection was served: its timer is set again, and the timer's mark of
\* the same poll taken back.
LEMMA LoopRefresh ==
  ASSUME LInv, AtConn, ConnFd \in Fds, NEW d \in BOOLEAN, Refresh(d),
         rx' \in [Fds -> Seq(Message)], \A g \in Fds \ {ConnFd} : rx'[g] = rx[g],
         owed' \in [Fds -> BOOLEAN]
  PROVE  LInv'
<1>1. /\ kern' = Opened(kern, TimerFd, "armed")
      /\ table' = [table EXCEPT !.fds = [table.fds EXCEPT ![TimerAt].revents = FALSE]]
      /\ doDelete' = d /\ pc' = "timer" /\ UNCHANGED <<conns, cur, backlog, status>>
  BY DEF Refresh
<1>2. /\ Len(conns) \in Nat /\ DOMAIN conns = 1..Len(conns)
      /\ pc = "conn" /\ cur \in DOMAIN conns
  BY ConnsDomain DEF AtConn, InWalk, LInv, LShape
<1>3. TimerAt \in DOMAIN table.fds  BY FoundIsThere DEF AtConn, TimerAt
<1>4. /\ Tab(table') /\ Listed(table') = Listed(table)
      /\ Flagged(table') \subseteq Flagged(table)
  BY <1>1, <1>3, TabClear DEF LInv, LShape
<1>5. /\ kern' \in [Fds -> KernStates]
      /\ \A g \in Fds : kern'[g] = kern[g] \/ (g = TimerFd /\ kern'[g] = "armed")
  BY <1>1, States DEF LInv, LShape, Opened
<1>6. TimerFd \in Fds => kern[TimerFd] \in TimerState
  BY <1>2 DEF LInv, Owners, TimerFd
<1>7. /\ \A g \in Fds : kern[g] \in SockState => kern'[g] = kern[g]
      /\ \A g \in Fds : kern[g] \in TimerState => kern'[g] \in TimerState
      /\ \A g \in Fds : kern[g] # "free" => kern'[g] # "free"
  BY <1>5, <1>6, States
<1>8. LShape'
  <2>1. /\ conns' \in Seq(Conns) /\ cur' \in Nat \ {0} /\ cur' <= Len(conns') + 1
        /\ doDelete' \in BOOLEAN /\ backlog' \in Nat
        /\ status' \in {"running", "exited", "sigpipe", "abort"}
    BY <1>1, <1>2 DEF LInv, LShape
  <2> QED  BY <1>1, <1>4, <1>5, <2>1 DEF LShape
<1>9. Owners'
  <2>1. \A j \in DOMAIN conns : conns[j].conn \in Fds => kern'[conns[j].conn] \in SockState
    BY <1>7 DEF LInv, Owners
  <2>2. \A j \in DOMAIN conns : conns[j].timer \in Fds => kern'[conns[j].timer] \in TimerState
    BY <1>7 DEF LInv, Owners
  <2>3. \A f \in Fds \cap Listed(table) : kern'[f] # "free"  BY <1>7 DEF LInv, Owners
  <2>4. /\ \A j, k \in DOMAIN conns : conns[j].conn = conns[k].conn /\ conns[j].conn \in Fds => j = k
        /\ \A j, k \in DOMAIN conns : conns[j].timer = conns[k].timer /\ conns[j].timer \in Fds => j = k
    BY DEF LInv, Owners
  <2>5. conns' = conns /\ Listed(table)' = Listed(table)  BY <1>1, <1>4
  <2> QED  BY ONLY <2>1, <2>2, <2>3, <2>4, <2>5, Zenon DEF Owners
<1>10. Fresh'
  <2> SUFFICES ASSUME NEW j \in DOMAIN conns, j > cur, conns[j].conn \in Fds,
                      conns[j].conn \in Flagged(table)'
               PROVE  kern'[conns[j].conn] # "open" \/ rx'[conns[j].conn] # <<>>
    BY <1>1 DEF Fresh, Marked
  <2>1. conns[j].conn \in Flagged(table)  BY <1>4
  <2>2. j # cur /\ j >= cur  BY <1>2
  <2>3. conns[j].conn # ConnFd  BY <1>2, <2>2 DEF LInv, Owners, ConnFd
  <2>4. kern[conns[j].conn] # "open" \/ rx[conns[j].conn] # <<>>
    BY <1>2, <2>1, <2>2 DEF LInv, Fresh, Marked
  <2>5. kern'[conns[j].conn] = kern[conns[j].conn]
    BY <1>7 DEF LInv, Owners
  <2> QED  BY <2>3, <2>4, <2>5
<1> QED  BY <1>8, <1>9, <1>10 DEF LInv

LEMMA LoopServe == ASSUME LInv, Serve \/ Eof PROVE LInv'
<1>1. /\ rx \in [Fds -> Seq(Message)] /\ owed \in [Fds -> BOOLEAN]  BY DEF LInv, LShape
<1>2. CASE Serve
  <2>1. AtConn /\ ConnFd \in Fds /\ Refresh(FALSE)  BY <1>2 DEF Serve, ConnEvent
  <2>2. PICK n \in 1..Len(rx[ConnFd]) :
           /\ rx' = [rx EXCEPT ![ConnFd] = SubSeq(rx[ConnFd], n + 1, Len(rx[ConnFd]))]
           /\ UNCHANGED owed \/ owed' = [owed EXCEPT ![ConnFd] = FALSE]
    BY <1>2 DEF Serve
  <2>3. rx[ConnFd] \in Seq(Message)  BY <1>1, <2>1
  <2>4. SubSeq(rx[ConnFd], n + 1, Len(rx[ConnFd])) \in Seq(Message)  BY <2>3
  <2>5. rx' \in [Fds -> Seq(Message)] /\ \A g \in Fds \ {ConnFd} : rx'[g] = rx[g]
    BY <1>1, <2>2, <2>4
  <2>6. owed' \in [Fds -> BOOLEAN]  BY <1>1, <2>2
  <2> QED  BY <2>1, <2>5, <2>6, LoopRefresh
<1>3. CASE Eof
  BY <1>1, <1>3, LoopRefresh DEF Eof, ConnEvent
<1> QED  BY <1>2, <1>3

\* A connection and what belongs to it is taken out everywhere at once.
LEMMA LoopDelete == ASSUME LInv, Delete PROVE LInv'
<1> DEFINE one == RemoveFd(table, ConnFd)
           two == RemoveFd(one, TimerFd)
           gone == {ConnFd, TimerFd}
           n == Len(conns)
<1>1. /\ pc = "timer" /\ cur <= n /\ pc' = "conn" /\ doDelete' = FALSE
      /\ table' = two /\ kern' = Closed(kern, gone, "free")
      /\ rx' = Closed(rx, {ConnFd}, <<>>) /\ owed' = Closed(owed, {ConnFd}, FALSE)
      /\ conns' = RemoveAt(conns, cur) /\ UNCHANGED <<cur, backlog, status>>
  BY DEF Delete, InWalk
<1>2. /\ n \in Nat /\ DOMAIN conns = 1..n /\ cur \in 1..n /\ conns \in Seq(Conns)
      /\ kern \in [Fds -> KernStates] /\ Tab(table)
      /\ rx \in [Fds -> Seq(Message)] /\ owed \in [Fds -> BOOLEAN]
  BY <1>1, ConnsDomain DEF LInv, LShape
<1>3. /\ conns' \in Seq(Conns) /\ Len(conns') = n - 1
      /\ \A j \in 1..n - 1 : conns'[j] = IF j < cur THEN conns[j] ELSE conns[j + 1]
  BY <1>1, <1>2, RemoveAtProperties
<1>4. DOMAIN conns' = 1..n - 1  BY <1>3, LenProperties
<1> DEFINE old(j) == IF j < cur THEN j ELSE j + 1
<1>5. \A j \in 1..n - 1 : /\ old(j) \in 1..n /\ old(j) # cur /\ conns'[j] = conns[old(j)]
                          /\ j >= cur => old(j) > cur
  BY <1>2, <1>3
<1>6. \A j, m \in 1..n - 1 : old(j) = old(m) => j = m  BY <1>2
<1> HIDE DEF old, n
<1>7. /\ Tab(one) /\ Listed(one) \subseteq Listed(table)
      /\ Flagged(one) \subseteq Flagged(table)
      /\ ConnFd \in Fds => ConnFd \notin Listed(one)
  BY <1>2, TabRemove
<1> HIDE DEF one
<1>8. /\ Tab(two) /\ Listed(two) \subseteq Listed(one)
      /\ Flagged(two) \subseteq Flagged(one)
      /\ TimerFd \in Fds => TimerFd \notin Listed(two)
  BY <1>7, TabRemove
<1> HIDE DEF two
<1>9. /\ Tab(table')
      /\ Flagged(table') \subseteq Flagged(table)
      /\ \A f \in Fds \cap Listed(table') : f \in Listed(table) /\ f \notin gone
  BY <1>1, <1>7, <1>8
<1>10. /\ kern' \in [Fds -> KernStates]
       /\ \A f \in Fds : kern'[f] = IF f \in gone THEN "free" ELSE kern[f]
  BY <1>1, <1>2, States DEF Closed
<1>11. /\ rx' \in [Fds -> Seq(Message)] /\ owed' \in [Fds -> BOOLEAN]
       /\ \A f \in Fds \ {ConnFd} : rx'[f] = rx[f]
  <2>1. <<>> \in Seq(Message)  OBVIOUS
  <2> QED  BY <1>1, <1>2, <2>1 DEF Closed
<1>12. /\ ConnFd \in Fds => kern[ConnFd] \in SockState
       /\ TimerFd \in Fds => kern[TimerFd] \in TimerState
  BY <1>2 DEF LInv, Owners, ConnFd, TimerFd
<1>13. ASSUME NEW j \in 1..n, j # cur, conns[j].conn \in Fds PROVE conns[j].conn \notin gone
  BY <1>2, <1>12, <1>13, States DEF LInv, Owners, ConnFd
<1>14. ASSUME NEW j \in 1..n, j # cur, conns[j].timer \in Fds PROVE conns[j].timer \notin gone
  BY <1>2, <1>12, <1>14, States DEF LInv, Owners, TimerFd
<1> HIDE DEF gone
<1>15. LShape'
  <2>1. /\ cur' \in Nat \ {0} /\ cur' <= Len(conns') + 1
        /\ doDelete' \in BOOLEAN /\ backlog' \in Nat
        /\ status' \in {"running", "exited", "sigpipe", "abort"}
    <3>1. cur' \in Nat \ {0} /\ cur' <= Len(conns') + 1  BY <1>1, <1>2, <1>3
    <3>2. doDelete' \in BOOLEAN  BY <1>1
    <3> QED  BY <1>1, <3>1, <3>2 DEF LInv, LShape
  <2>2. pc' = "conn"  BY <1>1
  <2> QED  BY ONLY <1>3, <1>9, <1>10, <1>11, <2>1, <2>2 DEF LShape
<1>16. Owners'
  <2>1. ASSUME NEW j \in DOMAIN conns', NEW m \in DOMAIN conns',
               conns'[j].conn = conns'[m].conn, conns'[j].conn \in Fds
        PROVE  j = m
    BY <1>2, <1>4, <1>5, <1>6, <2>1 DEF LInv, Owners
  <2>2. ASSUME NEW j \in DOMAIN conns', NEW m \in DOMAIN conns',
               conns'[j].timer = conns'[m].timer, conns'[j].timer \in Fds
        PROVE  j = m
    BY <1>2, <1>4, <1>5, <1>6, <2>2 DEF LInv, Owners
  <2>3. ASSUME NEW j \in DOMAIN conns', conns'[j].conn \in Fds
        PROVE  kern'[conns'[j].conn] \in SockState
    <3>1. PICK m \in 1..n : m # cur /\ conns'[j] = conns[m]  BY <1>4, <1>5
    <3>2. conns[m].conn \in Fds /\ conns[m].conn \notin gone  BY <1>13, <2>3, <3>1
    <3> QED  BY <1>2, <1>10, <3>1, <3>2 DEF LInv, Owners
  <2>4. ASSUME NEW j \in DOMAIN conns', conns'[j].timer \in Fds
        PROVE  kern'[conns'[j].timer] \in TimerState
    <3>1. PICK m \in 1..n : m # cur /\ conns'[j] = conns[m]  BY <1>4, <1>5
    <3>2. conns[m].timer \in Fds /\ conns[m].timer \notin gone  BY <1>14, <2>4, <3>1
    <3> QED  BY <1>2, <1>10, <3>1, <3>2 DEF LInv, Owners
  <2>5. \A f \in Fds \cap Listed(table') : kern'[f] # "free"
    BY <1>9, <1>10 DEF LInv, Owners
  <2> QED  BY <2>1, <2>2, <2>3, <2>4, <2>5 DEF Owners
<1>17. Fresh'
  <2> SUFFICES ASSUME NEW j \in DOMAIN conns', j >= cur', conns'[j].conn \in Fds,
                      conns'[j].conn \in Flagged(table)'
               PROVE  kern'[conns'[j].conn] # "open" \/ rx'[conns'[j].conn] # <<>>
    BY DEF Fresh, Marked
  <2> DEFINE m == old(j)
  <2>1. m \in 1..n /\ m # cur /\ m > cur /\ conns'[j] = conns[m]  BY <1>1, <1>4, <1>5
  <2> HIDE DEF m
  <2>2. conns[m].conn \in Fds \cap Flagged(table)  BY <1>9, <2>1
  <2>3. m >= cur  BY <1>2, <2>1
  <2>4. kern[conns[m].conn] # "open" \/ rx[conns[m].conn] # <<>>
    BY <1>1, <1>2, <2>1, <2>2, <2>3 DEF LInv, Fresh, Marked
  <2>5. conns[m].conn \notin gone  BY <1>13, <2>1, <2>2
  <2>6. conns[m].conn # ConnFd  BY <2>5 DEF gone
  <2> QED  BY <1>10, <1>11, <2>1, <2>2, <2>4, <2>5, <2>6
<1> QED  BY <1>15, <1>16, <1>17 DEF LInv

LEMMA LoopServer == ASSUME LInv, Server PROVE LInv'
<1>1. CASE Poll  BY <1>1, LoopPoll
<1>2. CASE Accept \/ AcceptFails  BY <1>2, LoopAccept
<1>3. CASE Serve \/ Eof  BY <1>3, LoopServe
<1>4. CASE Delete  BY <1>4, LoopDelete
<1>5. CASE PollFails \/ NoAccept \/ AcceptFailsAgain \/ EndOfWalk \/ NotFound
           \/ NoEvent \/ SendFails \/ RecvFails \/ Keep
  <2>1. /\ UNCHANGED <<table, conns, kern, rx, owed>> /\ doDelete' = doDelete
        /\ backlog' = backlog /\ status' \in {status, "exited", "sigpipe", "abort"}
    BY <1>5 DEF PollFails, NoAccept, AcceptFailsAgain, EndOfWalk, NotFound,
       NoEvent, SendFails, RecvFails, Keep, serverVars, kernVars
  <2>2. doDelete \in BOOLEAN /\ backlog \in Nat
        /\ status' \in {"running", "exited", "sigpipe", "abort"}
    BY <2>1 DEF LInv, LShape
  <2>3. Moves
    BY <1>5, <2>1, <2>2 DEF PollFails, NoAccept, AcceptFailsAgain, EndOfWalk, NotFound,
       NoEvent, SendFails, RecvFails, Keep, serverVars, AtConn, InWalk, Moves
  <2> QED  BY <2>1, <2>2, <2>3, LoopGoesOn
<1> QED  BY <1>1, <1>2, <1>3, <1>4, <1>5 DEF Server

LEMMA LoopNext == LInv /\ [Next]_vars => LInv'
<1> SUFFICES ASSUME LInv, [Next]_vars PROVE LInv'  OBVIOUS
<1>1. CASE UNCHANGED vars
  <2>1. /\ UNCHANGED <<table, conns, kern, rx, owed>>
        /\ UNCHANGED <<pc, cur, doDelete, backlog, status>>
    BY <1>1 DEF vars
  <2>2. doDelete' \in BOOLEAN /\ backlog' \in Nat
        /\ status' \in {"running", "exited", "sigpipe", "abort"}
    BY <2>1 DEF LInv, LShape
  <2>3. Moves  BY <2>1 DEF Moves, LInv, LShape
  <2> QED  BY <2>1, <2>2, <2>3, LoopGoesOn
<1> QED  BY <1>1, LoopEnvironment, LoopServer DEF Next, Ended

LEMMA LoopAlways == Spec => []LInv
  BY LoopInit, LoopNext, PTL DEF Spec

\* The walk stays within the list it deletes from, and every variable within
\* its range, whatever fails.
THEOREM TypeCorrect == Spec => []TypeOK
<1>1. LInv => TypeOK
  <2> SUFFICES ASSUME LInv PROVE TypeOK  OBVIOUS
  <2>1. DOMAIN table = {"fds", "size"} /\ table.size \in Nat /\ table.fds \in Seq(Items)
    BY DEF LInv, LShape, Tab
  <2> QED  BY <2>1 DEF LInv, LShape, TypeOK, Items, Numbers, Conns, KernStates
<1> QED  BY <1>1, LoopAlways, PTL

\* The loop never sleeps in recv, for any number of clients and descriptors,
\* and whether or not accept, timerfd_create and realloc fail.
THEOREM NeverBlocksAlways == Spec => []NeverBlocksInRecv
<1>1. LInv => NeverBlocksInRecv
  <2> SUFFICES ASSUME LInv, ConnEvent PROVE kern[ConnFd] # "open" \/ rx[ConnFd] # <<>>
    BY DEF NeverBlocksInRecv
  <2>1. /\ pc = "conn" /\ cur <= Len(conns) /\ ConnAt # 0
        /\ table.fds[ConnAt].revents /\ ConnFd \in Fds
    BY DEF ConnEvent, AtConn, InWalk
  <2>2. cur \in DOMAIN conns /\ cur >= cur  BY <2>1, ConnsDomain DEF LInv, LShape
  <2>3. ConnAt \in DOMAIN table.fds /\ table.fds[ConnAt].fd = ConnFd
    BY <2>1, FoundIsThere DEF ConnAt
  <2>4. Marked(cur)  BY <2>1, <2>3 DEF Marked, Flagged, ConnFd
  <2> QED  BY <2>1, <2>2, <2>4 DEF LInv, Fresh, ConnFd
<1> QED  BY <1>1, LoopAlways, PTL

-----------------------------------------------------------------------------
(* Nothing is missing, while descriptors and memory suffice.               *)

Enough == ~AcceptMayFail /\ ~OutOfMemory /\ MaxFd >= 2 * MaxClients

\* Every open descriptor is some connection's, every connection has both, and
\* the table has them all and nothing else.
Complete ==
    /\ Len(table.fds) = 1 + 2 * Len(conns)
    /\ \A j \in DOMAIN conns : conns[j].conn \in Fds /\ conns[j].timer \in Fds
    /\ \A f \in Fds : kern[f] \in SockState => \E j \in DOMAIN conns : conns[j].conn = f
    /\ \A f \in Fds : kern[f] \in TimerState => \E j \in DOMAIN conns : conns[j].timer = f
    /\ \A f \in Fds : kern[f] # "free" => f \in Listed(table)
    /\ backlog + Len(conns) <= MaxClients
    /\ status # "abort"

MInv == LInv /\ Complete

Socks == {f \in Fds : kern[f] \in SockState}
Timers == {f \in Fds : kern[f] \in TimerState}

LEMMA FdsFinite == IsFiniteSet(Fds) /\ Cardinality(Fds) = MaxFd
  BY MaxFdAssumption, FS_Interval DEF Fds

\* A socket and a timer per connection, all of them different.
LEMMA CountOpen ==
  ASSUME MInv
  PROVE  /\ Cardinality(Socks) = Len(conns)
         /\ Cardinality({f \in Fds : kern[f] # "free"}) = 2 * Len(conns)
<1> DEFINE n == Len(conns)
           s == [j \in 1..n |-> conns[j].conn]
           t == [j \in 1..n |-> conns[j].timer]
<1>1. /\ n \in Nat /\ DOMAIN conns = 1..n
      /\ \A j \in 1..n : conns[j].conn \in Fds /\ conns[j].timer \in Fds
  BY ConnsDomain DEF MInv, LInv, Complete
<1>2. IsFiniteSet(1..n) /\ Cardinality(1..n) = n  BY <1>1, FS_Interval
<1>3. s \in Bijection(1..n, Socks)
  <2>1. s \in [1..n -> Socks]  BY <1>1 DEF Socks, MInv, LInv, Owners
  <2>2. \A i, j \in 1..n : s[i] = s[j] => i = j  BY <1>1 DEF MInv, LInv, Owners
  <2>3. \A f \in Socks : \E j \in 1..n : s[j] = f  BY <1>1 DEF Socks, MInv, Complete
  <2> HIDE DEF s
  <2> QED  BY <2>1, <2>2, <2>3 DEF Bijection, Injection, IsInjective, Surjection
<1>4. t \in Bijection(1..n, Timers)
  <2>1. t \in [1..n -> Timers]  BY <1>1 DEF Timers, MInv, LInv, Owners
  <2>2. \A i, j \in 1..n : t[i] = t[j] => i = j  BY <1>1 DEF MInv, LInv, Owners
  <2>3. \A f \in Timers : \E j \in 1..n : t[j] = f  BY <1>1 DEF Timers, MInv, Complete
  <2> HIDE DEF t
  <2> QED  BY <2>1, <2>2, <2>3 DEF Bijection, Injection, IsInjective, Surjection
<1> HIDE DEF s, t, n
<1>5. IsFiniteSet(Socks) /\ Cardinality(Socks) = n
  <2>1. ExistsBijection(1..n, Socks)  BY <1>3 DEF ExistsBijection
  <2> QED  BY <1>2, <2>1, FS_Bijection
<1>6. IsFiniteSet(Timers) /\ Cardinality(Timers) = n
  <2>1. ExistsBijection(1..n, Timers)  BY <1>4 DEF ExistsBijection
  <2> QED  BY <1>2, <2>1, FS_Bijection
<1>7. Socks \cap Timers = {} /\ Socks \cup Timers = {f \in Fds : kern[f] # "free"}
  <2>1. \A f \in Fds : kern[f] \in KernStates  BY DEF MInv, LInv, LShape
  <2> QED  BY <2>1, States DEF Socks, Timers, KernStates
<1>8. Cardinality(Socks \cup Timers) = n + n - Cardinality(Socks \cap Timers)
  BY <1>5, <1>6, FS_Union
<1>9. Cardinality(Socks \cap Timers) = 0  BY <1>7, FS_EmptySet
<1>10. Cardinality(Socks \cup Timers) = 2 * n  BY <1>1, <1>8, <1>9
<1> QED  BY <1>5, <1>7, <1>10 DEF n

LEMMA LowestExists ==
  ASSUME NEW free \in SUBSET Fds, free # {}
  PROVE  \E fd \in free : \A other \in free : fd <= other
<1>1. free \subseteq Nat  BY MaxFdAssumption DEF Fds
<1>2. PICK fd \in free : \A other \in free : ~(<<other, fd>> \in OpToRel(<, Nat))
  BY <1>1, NatLessThanWellFounded, WFMin
<1>3. \A other \in free : ~(other < fd)  BY <1>1, <1>2 DEF OpToRel
<1> QED  BY <1>1, <1>3

LEMMA NewFdFound ==
  ASSUME NEW k, NEW failure, \E f \in Fds : k[f] = "free"
  PROVE  NewFd(k, failure) \in Fds /\ k[NewFd(k, failure)] = "free"
<1> DEFINE free == {fd \in Fds : k[fd] = "free"}
           lowest == {fd \in free : \A other \in free : fd <= other}
<1>1. free \in SUBSET Fds /\ free # {}  OBVIOUS
<1>2. \E fd \in free : \A other \in free : fd <= other
  <2> HIDE DEF free
  <2> QED  BY <1>1, LowestExists
<1>3. lowest # {}  BY <1>2
<1>4. NewFd(k, failure) = CHOOSE fd \in lowest : TRUE  BY <1>3 DEF NewFd
<1>5. NewFd(k, failure) \in lowest  BY <1>3, <1>4
<1> QED  BY <1>5

\* With a client in the backlog there are two numbers left.
LEMMA TwoFree ==
  ASSUME Enough, MInv, backlog > 0
  PROVE  \E f, g \in Fds : f # g /\ kern[f] = "free" /\ kern[g] = "free"
<1> DEFINE used == {f \in Fds : kern[f] # "free"}
<1>1. backlog \in Nat /\ Len(conns) \in Nat /\ backlog + Len(conns) <= MaxClients
  BY ConnsDomain DEF MInv, LInv, LShape, Complete
<1>2. MaxFd \in Nat /\ MaxClients \in Nat /\ MaxFd >= 2 * MaxClients
  BY MaxFdAssumption, BoundsAssumption DEF Enough
<1>3. Cardinality(used) = 2 * Len(conns)  BY CountOpen
<1>4. IsFiniteSet(used) /\ used \subseteq Fds  BY FdsFinite, FS_Subset
<1> HIDE DEF used
<1>5. used # Fds  BY <1>1, <1>2, <1>3, FdsFinite
<1>6. PICK f \in Fds : f \notin used  BY <1>4, <1>5
<1>7. /\ IsFiniteSet(used \cup {f})
      /\ Cardinality(used \cup {f}) = Cardinality(used) + 1
  BY <1>4, <1>6, FS_AddElement
<1>8. used \cup {f} # Fds
  <2>1. 2 * Len(conns) + 1 # MaxFd  BY <1>1, <1>2
  <2> QED  BY <1>3, <1>7, <2>1, FdsFinite
<1>9. PICK g \in Fds : g \notin used \cup {f}  BY <1>4, <1>8
<1> QED  BY <1>6, <1>9 DEF used

LEMMA CompleteInit == Init => Complete
<1> SUFFICES ASSUME Init PROVE Complete  OBVIOUS
<1>1. table.fds = <<Entry(ListenFd)>> /\ conns = <<>>
  BY DEF Init, InsertFd, EmptyTable
<1>2. Len(table.fds) = 1 /\ Len(conns) = 0 /\ DOMAIN conns = {}  BY <1>1
<1>3. \A f \in Fds : kern[f] = "free"  BY DEF Init
<1>4. backlog + Len(conns) <= MaxClients  BY <1>2, BoundsAssumption DEF Init
<1> QED  BY <1>2, <1>3, <1>4, States DEF Init, Complete

\* Table and connections stand.
LEMMA CompleteMoves ==
  ASSUME MInv, UNCHANGED conns, Len(table'.fds) = Len(table.fds),
         Listed(table') = Listed(table),
         \A f \in Fds : /\ kern'[f] = "free" <=> kern[f] = "free"
                        /\ kern'[f] \in SockState <=> kern[f] \in SockState
                        /\ kern'[f] \in TimerState <=> kern[f] \in TimerState,
         backlog' + Len(conns) <= MaxClients, status' # "abort"
  PROVE  Complete'
<1>1. \A f \in Fds : kern'[f] \in SockState => \E j \in DOMAIN conns : conns[j].conn = f
  BY DEF MInv, Complete
<1>2. \A f \in Fds : kern'[f] \in TimerState => \E j \in DOMAIN conns : conns[j].timer = f
  BY DEF MInv, Complete
<1>3. \A f \in Fds : kern'[f] # "free" => f \in Listed(table)  BY DEF MInv, Complete
<1>4. /\ Len(table.fds) = 1 + 2 * Len(conns)
      /\ \A j \in DOMAIN conns : conns[j].conn \in Fds /\ conns[j].timer \in Fds
  BY DEF MInv, Complete
<1> QED  BY <1>1, <1>2, <1>3, <1>4 DEF Complete

LEMMA CompleteGoesOn ==
  ASSUME MInv, UNCHANGED <<table, conns, kern>>, backlog' = backlog, status' # "abort"
  PROVE  Complete'
<1>1. backlog' + Len(conns) <= MaxClients  BY DEF MInv, Complete
<1> QED  BY <1>1, CompleteMoves

\* The peer of a socket, or a timer, changes its state.
LEMMA CompleteChanged ==
  ASSUME MInv, NEW f \in Fds, NEW s,
         \/ kern[f] \in SockState /\ s \in SockState
         \/ kern[f] \in TimerState /\ s \in TimerState,
         kern' = [kern EXCEPT ![f] = s], UNCHANGED <<serverVars, backlog, status>>
  PROVE  Complete'
<1>1. /\ UNCHANGED <<table, conns>> /\ backlog' + Len(conns) <= MaxClients
      /\ status' # "abort"
  BY DEF MInv, Complete, serverVars
<1>2. \A g \in Fds : /\ kern'[g] = "free" <=> kern[g] = "free"
                     /\ kern'[g] \in SockState <=> kern[g] \in SockState
                     /\ kern'[g] \in TimerState <=> kern[g] \in TimerState
  BY States DEF MInv, LInv, LShape
<1> QED  BY <1>1, <1>2, CompleteMoves

LEMMA CompleteEnvironment == ASSUME MInv, Environment PROVE Complete'
<1>1. status # "abort" /\ backlog + Len(conns) <= MaxClients  BY DEF MInv, Complete
<1>2. CASE ClientConnect
  <2>1. /\ backlog' = backlog + 1 /\ UNCHANGED <<table, conns, kern, status>>
        /\ backlog + Cardinality(Socks) < MaxClients
    BY <1>2 DEF ClientConnect, serverVars, Socks
  <2>2. Cardinality(Socks) = Len(conns) /\ Len(conns) \in Nat /\ backlog \in Nat
    BY CountOpen, ConnsDomain DEF MInv, LInv, LShape
  <2>3. backlog' + Len(conns) <= MaxClients  BY <2>1, <2>2, BoundsAssumption
  <2> QED  BY <1>1, <2>1, <2>3, CompleteMoves
<1>3. ASSUME NEW f \in Fds, NEW m \in Message, ClientSend(f, m) PROVE Complete'
  BY <1>1, <1>3, CompleteGoesOn DEF ClientSend, serverVars
<1>4. ASSUME NEW f \in Fds, NEW how \in {"shut", "reset"}, ClientLeave(f, how) PROVE Complete'
  <2>1. kern[f] \in SockState /\ how \in SockState  BY <1>4 DEF ClientLeave, SockState
  <2>2. kern' = [kern EXCEPT ![f] = how] /\ UNCHANGED <<serverVars, backlog, status>>
    BY <1>4 DEF ClientLeave
  <2> QED  BY <2>1, <2>2, CompleteChanged
<1>5. ASSUME NEW f \in Fds, TimerAdvances(f) PROVE Complete'
  <2>1. PICK s \in {"due", "expired"} : kern' = [kern EXCEPT ![f] = s] /\ kern[f] \in TimerState
    BY <1>5 DEF TimerAdvances, TimerState
  <2>2. s \in TimerState  BY <2>1 DEF TimerState
  <2>3. UNCHANGED <<serverVars, backlog, status>>  BY <1>5 DEF TimerAdvances
  <2> QED  BY <2>1, <2>2, <2>3, CompleteChanged
<1> QED  BY <1>2, <1>3, <1>4, <1>5 DEF Environment

LEMMA CompletePoll == ASSUME MInv, Poll PROVE Complete'
<1>1. table' = SetRevents(table, Ready) /\ UNCHANGED <<conns, backlog, kern, status>>
  BY DEF Poll, kernVars
<1>2. Listed(table') = Listed(table) /\ Len(table'.fds) = Len(table.fds)
  BY <1>1, TabSetRevents DEF MInv, LInv, LShape
<1>3. backlog' + Len(conns) <= MaxClients /\ status' # "abort"  BY <1>1 DEF MInv, Complete
<1> QED  BY <1>1, <1>2, <1>3, CompleteMoves

LEMMA CompleteAccept == ASSUME Enough, MInv, Accept \/ AcceptFails PROVE Complete'
<1>1. pc = "accept" /\ table.fds[1].revents /\ backlog \in Nat /\ backlog > 0
  BY DEF Accept, AcceptFails, MInv, LInv, LShape
<1>2. PICK f \in Fds, g \in Fds : f # g /\ kern[f] = "free" /\ kern[g] = "free"
  BY <1>1, TwoFree
<1> DEFINE sock == NewFd(kern, NoSock)
           k == Opened(kern, sock, "open")
           timer == NewFd(k, NoTimer)
           one == InsertFd(table, sock)
           c == [conn |-> sock, timer |-> timer]
           n == Len(conns)
<1>3. sock \in Fds /\ kern[sock] = "free"  BY <1>2, NewFdFound
<1>4. Accept  BY <1>3, FdsArePositive DEF AcceptFails, Enough
<1>5. kern \in [Fds -> KernStates] /\ Tab(table) /\ conns \in Seq(Conns)
  BY DEF MInv, LInv, LShape
<1>6. /\ k \in [Fds -> KernStates] /\ k[sock] = "open"
      /\ \A h \in Fds \ {sock} : k[h] = kern[h]
  BY <1>3, <1>5, States DEF Opened
<1>7. Enlist(sock, k) /\ backlog' = backlog - 1  BY <1>4 DEF Accept
<1>8. /\ kern' = Opened(k, timer, "armed") /\ table' = InsertFd(one, timer)
      /\ conns' = Append(conns, c) /\ UNCHANGED status
  BY <1>7 DEF Enlist, Enough
<1> HIDE DEF sock, k
<1>9. timer \in Fds /\ k[timer] = "free"
  <2>1. \E h \in Fds : k[h] = "free"  BY <1>2, <1>6
  <2> QED  BY <2>1, NewFdFound
<1> HIDE DEF timer
<1>10. timer # sock /\ kern[timer] = "free"  BY <1>6, <1>9
<1>11. /\ kern'[sock] = "open" /\ kern'[timer] = "armed"
       /\ \A h \in Fds \ {sock, timer} : kern'[h] = kern[h]
  BY <1>3, <1>6, <1>8, <1>9, <1>10 DEF Opened
<1>12. sock \notin Listed(table) /\ timer \notin Listed(table)
  BY <1>3, <1>9, <1>10 DEF MInv, LInv, Owners
<1>13. /\ Tab(one) /\ Listed(one) = Listed(table) \cup {sock}
       /\ Len(one.fds) = Len(table.fds) + 1
  BY <1>3, <1>5, <1>12, TabInsert DEF Numbers
<1> HIDE DEF one
<1>14. /\ Listed(table') = Listed(one) \cup {timer}
       /\ Len(table'.fds) = Len(one.fds) + 1
  BY <1>8, <1>9, <1>10, <1>12, <1>13, TabInsert DEF Numbers
<1>15. c \in Conns /\ c.conn = sock /\ c.timer = timer  BY <1>3, <1>9 DEF Conns
<1> HIDE DEF c
<1>16. /\ n \in Nat /\ Len(conns') = n + 1 /\ DOMAIN conns = 1..n /\ DOMAIN conns' = 1..n + 1
       /\ \A j \in 1..n : conns'[j] = conns[j]
       /\ conns'[n + 1] = c
  <2>1. conns' \in Seq(Conns)  BY <1>5, <1>8, <1>15, AppendProperties
  <2> QED  BY <1>5, <1>8, <1>15, <2>1, AppendProperties, LenProperties
<1> HIDE DEF n
<1>17. \A j \in DOMAIN conns' : conns'[j].conn \in Fds /\ conns'[j].timer \in Fds
  <2>1. \A j \in 1..n : conns[j].conn \in Fds /\ conns[j].timer \in Fds
    BY <1>16 DEF MInv, Complete
  <2>2. \A j \in 1..n + 1 : j \in 1..n \/ j = n + 1  BY <1>16
  <2> QED  BY <1>3, <1>9, <1>15, <1>16, <2>1, <2>2
<1>18. 1..n \subseteq 1..n + 1 /\ n + 1 \in 1..n + 1  BY <1>16
<1>19. ASSUME NEW h \in Fds, kern'[h] \in SockState PROVE \E j \in DOMAIN conns' : conns'[j].conn = h
  <2>1. CASE h = sock  BY <1>15, <1>16, <1>18, <2>1
  <2>2. CASE h # sock
    <3>1. kern[h] \in SockState  BY <1>11, <1>19, <2>2, States
    <3>2. PICK j \in 1..n : conns[j].conn = h  BY <1>16, <3>1 DEF MInv, Complete
    <3> QED  BY <1>16, <1>18, <3>2
  <2> QED  BY <2>1, <2>2
<1>20. ASSUME NEW h \in Fds, kern'[h] \in TimerState PROVE \E j \in DOMAIN conns' : conns'[j].timer = h
  <2>1. CASE h = timer  BY <1>15, <1>16, <1>18, <2>1
  <2>2. CASE h # timer
    <3>1. kern[h] \in TimerState  BY <1>11, <1>20, <2>2, States
    <3>2. PICK j \in 1..n : conns[j].timer = h  BY <1>16, <3>1 DEF MInv, Complete
    <3> QED  BY <1>16, <1>18, <3>2
  <2> QED  BY <2>1, <2>2
<1>21. \A h \in Fds : kern'[h] # "free" => h \in Listed(table')
  BY <1>11, <1>13, <1>14 DEF MInv, Complete
<1>22. Len(table'.fds) = 1 + 2 * Len(conns')
  <2>1. Len(table.fds) = 1 + 2 * n  BY DEF MInv, Complete, n
  <2> QED  BY <1>13, <1>14, <1>16, <2>1
<1>23. backlog' + Len(conns') <= MaxClients
  <2>1. backlog + n <= MaxClients  BY DEF MInv, Complete, n
  <2> QED  BY <1>1, <1>7, <1>16, <2>1, BoundsAssumption
<1>24. status' # "abort"  BY <1>8 DEF MInv, Complete
<1> QED  BY <1>17, <1>19, <1>20, <1>21, <1>22, <1>23, <1>24 DEF Complete

LEMMA CompleteServe == ASSUME MInv, Serve \/ Eof PROVE Complete'
<1>1. AtConn /\ \E d : Refresh(d)  BY DEF Serve, Eof, ConnEvent
<1>2. /\ kern' = Opened(kern, TimerFd, "armed")
      /\ table' = [table EXCEPT !.fds = [table.fds EXCEPT ![TimerAt].revents = FALSE]]
      /\ UNCHANGED <<conns, backlog, status>>
  BY <1>1 DEF Refresh
<1>3. TimerAt \in DOMAIN table.fds  BY <1>1, FoundIsThere DEF AtConn, TimerAt
<1>4. Listed(table') = Listed(table) /\ Len(table'.fds) = Len(table.fds)
  BY <1>2, <1>3, TabClear DEF MInv, LInv, LShape
<1>5. cur \in DOMAIN conns
  BY <1>1, ConnsDomain DEF AtConn, InWalk, MInv, LInv, LShape
<1>6. TimerFd \in Fds /\ kern[TimerFd] \in TimerState
  BY <1>5 DEF TimerFd, MInv, Complete, LInv, Owners
<1>7. \A g \in Fds : /\ kern'[g] = "free" <=> kern[g] = "free"
                     /\ kern'[g] \in SockState <=> kern[g] \in SockState
                     /\ kern'[g] \in TimerState <=> kern[g] \in TimerState
  BY <1>2, <1>6, States DEF MInv, LInv, LShape, Opened
<1>8. backlog' + Len(conns) <= MaxClients /\ status' # "abort"  BY <1>2 DEF MInv, Complete
<1> QED  BY <1>2, <1>4, <1>7, <1>8, CompleteMoves

LEMMA CompleteDelete == ASSUME MInv, Delete PROVE Complete'
<1> DEFINE one == RemoveFd(table, ConnFd)
           two == RemoveFd(one, TimerFd)
           n == Len(conns)
<1>1. /\ pc = "timer" /\ cur <= n /\ table' = two
      /\ kern' = Closed(kern, {ConnFd, TimerFd}, "free")
      /\ conns' = RemoveAt(conns, cur) /\ UNCHANGED <<backlog, status>>
  BY DEF Delete, InWalk
<1>2. /\ n \in Nat /\ DOMAIN conns = 1..n /\ cur \in 1..n /\ conns \in Seq(Conns)
      /\ kern \in [Fds -> KernStates] /\ Tab(table)
  BY <1>1, ConnsDomain DEF MInv, LInv, LShape
<1>3. /\ conns' \in Seq(Conns) /\ Len(conns') = n - 1
      /\ \A j \in 1..n - 1 : conns'[j] = IF j < cur THEN conns[j] ELSE conns[j + 1]
  BY <1>1, <1>2, RemoveAtProperties
<1>4. DOMAIN conns' = 1..n - 1  BY <1>3, LenProperties
<1>5. \A j \in 1..n - 1 : \E m \in 1..n : conns'[j] = conns[m]
  <2> TAKE j \in 1..n - 1
  <2>1. j \in 1..n /\ j + 1 \in 1..n  BY <1>2
  <2> QED  BY <1>3, <2>1
<1>6. ASSUME NEW m \in 1..n, m # cur PROVE \E j \in 1..n - 1 : conns'[j] = conns[m]
  <2>1. CASE m < cur
    <3>1. m \in 1..n - 1 /\ conns'[m] = conns[m]  BY <1>2, <1>3, <2>1
    <3> QED  BY <3>1
  <2>2. CASE m > cur
    <3>1. m - 1 \in 1..n - 1 /\ ~(m - 1 < cur) /\ (m - 1) + 1 = m  BY <1>2, <2>2
    <3>2. conns'[m - 1] = conns[m]  BY <1>3, <3>1
    <3> QED  BY <3>1, <3>2
  <2> QED  BY <1>2, <1>6, <2>1, <2>2
<1> HIDE DEF n
<1>7. /\ ConnFd \in Fds /\ kern[ConnFd] \in SockState
      /\ TimerFd \in Fds /\ kern[TimerFd] \in TimerState
  BY <1>2 DEF ConnFd, TimerFd, MInv, Complete, LInv, Owners
<1>8. ConnFd # TimerFd /\ ConnFd \in Listed(table) /\ TimerFd \in Listed(table)
  BY <1>7, States DEF MInv, Complete
<1>9. /\ Tab(one) /\ Listed(table) \ {ConnFd} \subseteq Listed(one)
      /\ Len(one.fds) = Len(table.fds) - 1
  BY <1>2, <1>7, <1>8, TabRemove
<1> HIDE DEF one
<1>10. /\ Listed(one) \ {TimerFd} \subseteq Listed(two)
       /\ Len(two.fds) = Len(one.fds) - 1
  BY <1>7, <1>8, <1>9, TabRemove
<1> HIDE DEF two
<1>11. \A f \in Fds : kern'[f] = IF f \in {ConnFd, TimerFd} THEN "free" ELSE kern[f]
  BY <1>1 DEF Closed
<1>12. \A j \in DOMAIN conns' : conns'[j].conn \in Fds /\ conns'[j].timer \in Fds
  <2>1. \A m \in 1..n : conns[m].conn \in Fds /\ conns[m].timer \in Fds
    BY <1>2 DEF MInv, Complete
  <2> QED  BY <1>4, <1>5, <2>1
<1>13. ASSUME NEW f \in Fds, kern'[f] \in SockState PROVE \E j \in DOMAIN conns' : conns'[j].conn = f
  <2>1. f # ConnFd /\ kern[f] \in SockState  BY <1>11, <1>13, States
  <2>2. PICK m \in 1..n : conns[m].conn = f  BY <1>2, <2>1 DEF MInv, Complete
  <2>3. m # cur  BY <2>1, <2>2 DEF ConnFd
  <2> QED  BY <1>4, <1>6, <2>2, <2>3
<1>14. ASSUME NEW f \in Fds, kern'[f] \in TimerState PROVE \E j \in DOMAIN conns' : conns'[j].timer = f
  <2>1. f # TimerFd /\ kern[f] \in TimerState  BY <1>11, <1>14, States
  <2>2. PICK m \in 1..n : conns[m].timer = f  BY <1>2, <2>1 DEF MInv, Complete
  <2>3. m # cur  BY <2>1, <2>2 DEF TimerFd
  <2> QED  BY <1>4, <1>6, <2>2, <2>3
<1>15. \A f \in Fds : kern'[f] # "free" => f \in Listed(table')
  BY <1>1, <1>9, <1>10, <1>11 DEF MInv, Complete
<1>16. Len(table'.fds) = 1 + 2 * Len(conns')
  <2>1. Len(table.fds) = 1 + 2 * n  BY DEF MInv, Complete, n
  <2> QED  BY <1>1, <1>2, <1>3, <1>9, <1>10, <2>1
<1>17. backlog' + Len(conns') <= MaxClients /\ status' # "abort"
  <2>1. backlog + n <= MaxClients /\ status # "abort" /\ backlog \in Nat
    BY DEF MInv, Complete, LInv, LShape, n
  <2> QED  BY <1>1, <1>2, <1>3, <2>1, BoundsAssumption
<1> QED  BY <1>12, <1>13, <1>14, <1>15, <1>16, <1>17 DEF Complete

\* find_fd finds both entries of the connection the walk is at.
LEMMA NeverNotFound == ASSUME MInv PROVE ~NotFound
<1> SUFFICES ASSUME NotFound PROVE FALSE  OBVIOUS
<1>1. pc = "conn" /\ cur <= Len(conns) /\ (ConnAt = 0 \/ TimerAt = 0)
  BY DEF NotFound, InWalk
<1>2. cur \in DOMAIN conns /\ Tab(table)
  BY <1>1, ConnsDomain DEF MInv, LInv, LShape
<1>3. /\ ConnFd \in Fds /\ kern[ConnFd] \in SockState
      /\ TimerFd \in Fds /\ kern[TimerFd] \in TimerState
  BY <1>2 DEF ConnFd, TimerFd, MInv, Complete, LInv, Owners
<1>4. ConnFd \in Listed(table) /\ TimerFd \in Listed(table)
  BY <1>3, States DEF MInv, Complete
<1>5. ConnAt \in DOMAIN table.fds /\ TimerAt \in DOMAIN table.fds
  BY <1>2, <1>3, <1>4, FindListed DEF ConnAt, TimerAt
<1> QED  BY <1>1, <1>2, <1>5, TabDomain

LEMMA CompleteServer == ASSUME Enough, MInv, Server PROVE Complete'
<1>1. CASE Poll  BY <1>1, CompletePoll
<1>2. CASE Accept \/ AcceptFails  BY <1>2, CompleteAccept
<1>3. CASE Serve \/ Eof  BY <1>3, CompleteServe
<1>4. CASE Delete  BY <1>4, CompleteDelete
<1>5. CASE NotFound  BY <1>5, NeverNotFound
<1>6. CASE PollFails \/ NoAccept \/ AcceptFailsAgain \/ EndOfWalk
           \/ NoEvent \/ SendFails \/ RecvFails \/ Keep
  <2>1. /\ UNCHANGED <<table, conns, kern>> /\ backlog' = backlog
        /\ status' \in {status, "exited", "sigpipe"}
    BY <1>6 DEF PollFails, NoAccept, AcceptFailsAgain, EndOfWalk,
       NoEvent, SendFails, RecvFails, Keep, serverVars, kernVars
  <2>2. status' # "abort"  BY <2>1 DEF MInv, Complete
  <2> QED  BY <2>1, <2>2, CompleteGoesOn
<1> QED  BY <1>1, <1>2, <1>3, <1>4, <1>5, <1>6 DEF Server

LEMMA CompleteNext == ASSUME Enough PROVE MInv /\ [Next]_vars => MInv'
<1> SUFFICES ASSUME MInv, [Next]_vars PROVE MInv'  OBVIOUS
<1>1. LInv'  BY LoopNext DEF MInv
<1>2. CASE UNCHANGED vars
  <2>1. UNCHANGED <<table, conns, kern>> /\ backlog' = backlog /\ status' = status
    BY <1>2 DEF vars
  <2>2. status' # "abort"  BY <2>1 DEF MInv, Complete
  <2>3. Complete'  BY <2>1, <2>2, CompleteGoesOn
  <2> QED  BY <1>1, <2>3 DEF MInv
<1>3. CASE Environment  BY <1>1, <1>3, CompleteEnvironment DEF MInv
<1>4. CASE Server  BY <1>1, <1>4, CompleteServer DEF MInv
<1> QED  BY <1>2, <1>3, <1>4 DEF Next, Ended

LEMMA CompleteAlways == ASSUME Enough PROVE Spec => []MInv
<1>1. Init => MInv  BY LoopInit, CompleteInit DEF MInv
<1>2. MInv /\ [Next]_vars => MInv'  BY CompleteNext
<1> QED  BY <1>1, <1>2, PTL DEF Spec

\* While descriptors and memory suffice, a connection's socket and timer are
\* entered, found, removed and closed together, for any number of clients.
THEOREM TableAlwaysMatches == ASSUME Enough PROVE Spec => []TableMatches
<1>1. MInv => TableMatches
  <2> SUFFICES ASSUME MInv PROVE TableMatches  OBVIOUS
  <2>1. /\ Len(table.fds) = 1 + 2 * Len(conns) /\ table.fds[1].fd = ListenFd
    BY DEF MInv, LInv, LShape, Complete, Tab
  <2>2. ASSUME NEW f \in Fds
        PROVE  /\ kern[f] \in SockState <=> \E j \in DOMAIN conns : conns[j].conn = f
               /\ kern[f] \in TimerState <=> \E j \in DOMAIN conns : conns[j].timer = f
    BY <2>2 DEF MInv, LInv, Owners, Complete
  <2>3. ASSUME NEW f \in Fds, kern[f] # "free"
        PROVE  /\ \E j \in DOMAIN table.fds : table.fds[j].fd = f
               /\ \A j, m \in DOMAIN table.fds : table.fds[j].fd = f /\ table.fds[m].fd = f => j = m
    BY <2>3 DEF MInv, LInv, LShape, Complete, Tab, Listed
  <2> QED  BY <2>1, <2>2, <2>3 DEF TableMatches
<1> QED  BY <1>1, CompleteAlways, PTL

\* Then no assertion of the loop can fail.
THEOREM AssertionsAlwaysHold == ASSUME Enough PROVE Spec => []AssertionsHold
<1>1. MInv => AssertionsHold  BY DEF MInv, Complete, AssertionsHold
<1> QED  BY <1>1, CompleteAlways, PTL
-----------------------------------------------------------------------------
(* Only the idle are closed.                                               *)

\* A timer's mark the walk has yet to come to is of a timer that has run out,
\* and doDelete of a client that has left.
Timely ==
    /\ \A f \in Fds : rx[f] # <<>> => kern[f] \in SockState
    /\ NoTimer \notin Flagged(table)
    /\ pc # "timer" => ~doDelete
    /\ pc = "timer" => TimerAt # 0
    /\ pc = "timer" /\ doDelete /\ ConnFd \in Fds => kern[ConnFd] # "open"
    /\ pc # "poll" =>
          \A k \in DOMAIN conns :
             k >= cur /\ conns[k].timer \in Fds \cap Flagged(table)
                => kern[conns[k].timer] = "expired"

LEMMA FlaggedListed == ASSUME NEW t PROVE Flagged(t) \subseteq Listed(t)
  BY DEF Flagged, Listed

LEMMA TimelyInit == Init => Timely
<1> SUFFICES ASSUME Init PROVE Timely  OBVIOUS
<1>1. table.fds = <<Entry(ListenFd)>> /\ pc = "poll" /\ ~doDelete
      /\ \A f \in Fds : rx[f] = <<>>
  BY DEF Init, InsertFd, EmptyTable
<1>2. \A a \in DOMAIN table.fds : ~table.fds[a].revents  BY <1>1 DEF Entry
<1>3. NoTimer \notin Flagged(table)  BY <1>2 DEF Flagged
<1> QED  BY <1>1, <1>3 DEF Timely

\* Steps that leave the table and the list as they are.
LEMMA TimelyKept ==
  ASSUME LInv, Timely, UNCHANGED <<table, conns>>, Moves,
         \A f \in Fds : rx'[f] # <<>> => kern'[f] \in SockState,
         \A f \in Fds : kern[f] = "expired" => kern'[f] = "expired",
         \A f \in Fds : kern[f] # "open" => kern'[f] # "open",
         doDelete' = doDelete,
         pc = "timer" /\ pc' # "timer" => ~doDelete,
         pc = "conn" /\ pc' = "timer" => TimerAt # 0,
         pc = "poll" => pc' = "poll"
  PROVE  Timely'
<1>1. cur \in Nat /\ cur' \in Nat /\ (pc' \notin {"poll"} => cur' >= cur)
  BY DEF LInv, LShape, Moves
<1>2. pc' # "timer" => ~doDelete'  BY DEF Timely, Moves
<1>3. pc' = "timer" => cur' = cur /\ TimerAt # 0  BY DEF Timely, Moves
<1>4. TimerAt' = FindFd(table, conns[cur'].timer) /\ ConnFd' = conns[cur'].conn
  BY DEF TimerAt, TimerFd, ConnFd
<1>5. pc' = "timer" => TimerAt' # 0  BY <1>3, <1>4 DEF TimerAt, TimerFd
<1>6. pc' = "timer" /\ doDelete' /\ ConnFd' \in Fds => kern'[ConnFd'] # "open"
  <2> SUFFICES ASSUME pc' = "timer", doDelete', ConnFd' \in Fds PROVE kern'[ConnFd] # "open"
    BY <1>3, <1>4 DEF ConnFd
  <2>1. pc = "timer" /\ doDelete /\ ConnFd \in Fds  BY <1>3, <1>4 DEF Timely, ConnFd
  <2>2. kern[ConnFd] # "open"  BY <2>1 DEF Timely
  <2> QED  BY <2>1, <2>2
<1>7. ASSUME pc' # "poll", NEW k \in DOMAIN conns, k >= cur',
             conns[k].timer \in Fds \cap Flagged(table)
      PROVE  kern'[conns[k].timer] = "expired"
  <2>1. pc # "poll" /\ k >= cur
    <3>1. k \in Nat  BY ConnsDomain DEF LInv
    <3> QED  BY <1>1, <1>7, <3>1
  <2>2. kern[conns[k].timer] = "expired"  BY <1>7, <2>1 DEF Timely
  <2> QED  BY <1>7, <2>2
<1>8. NoTimer \notin Flagged(table)'  BY DEF Timely
<1> QED  BY <1>2, <1>5, <1>6, <1>7, <1>8 DEF Timely

LEMMA TimelyEnvironment == ASSUME LInv, Timely, Environment PROVE Timely'
<1>1. kern \in [Fds -> KernStates] /\ rx \in [Fds -> Seq(Message)] /\ backlog \in Nat
  BY DEF LInv, LShape
<1>2. \A f \in Fds : rx[f] # <<>> => kern[f] \in SockState  BY DEF Timely
<1>3. CASE ClientConnect
  <2>1. UNCHANGED <<table, conns, pc, cur, doDelete, kern, rx>> /\ backlog' >= backlog
    BY <1>1, <1>3 DEF ClientConnect, serverVars
  <2>2. Moves  BY <2>1 DEF Moves
  <2> QED  BY <1>2, <2>1, <2>2, TimelyKept
<1>4. ASSUME NEW f \in Fds, NEW m \in Message, ClientSend(f, m) PROVE Timely'
  <2>1. /\ UNCHANGED <<table, conns, pc, cur, doDelete, kern, backlog>>
        /\ kern[f] = "open" /\ rx' = [rx EXCEPT ![f] = Append(rx[f], m)]
    BY <1>4 DEF ClientSend, serverVars
  <2>2. \A g \in Fds : rx'[g] # <<>> => kern'[g] \in SockState
    BY <1>1, <1>2, <2>1, States
  <2>3. Moves  BY <1>1, <2>1 DEF Moves
  <2> QED  BY <2>1, <2>2, <2>3, TimelyKept
<1>5. ASSUME NEW f \in Fds, NEW s, kern' = [kern EXCEPT ![f] = s],
             UNCHANGED <<serverVars, backlog, rx>>, s # "open", kern[f] # "expired",
             kern[f] \in SockState => s \in SockState
      PROVE  Timely'
  <2>1. UNCHANGED <<table, conns, pc, cur, doDelete, rx, backlog>>  BY <1>5 DEF serverVars
  <2>2. \A g \in Fds : rx'[g] # <<>> => kern'[g] \in SockState
    BY <1>1, <1>2, <1>5, <2>1
  <2>3. \A g \in Fds : /\ kern[g] = "expired" => kern'[g] = "expired"
                       /\ kern[g] # "open" => kern'[g] # "open"
    BY <1>1, <1>5
  <2>4. Moves  BY <1>1, <2>1 DEF Moves
  <2> QED  BY <2>1, <2>2, <2>3, <2>4, TimelyKept
<1>6. ASSUME NEW f \in Fds, NEW how \in {"shut", "reset"}, ClientLeave(f, how) PROVE Timely'
  BY <1>5, <1>6 DEF ClientLeave, SockState
<1>7. ASSUME NEW f \in Fds, TimerAdvances(f) PROVE Timely'
  <2>1. PICK s \in {"due", "expired"} : kern' = [kern EXCEPT ![f] = s] /\ kern[f] \in {"armed", "due"}
    BY <1>7 DEF TimerAdvances
  <2>2. s # "open" /\ kern[f] # "expired" /\ kern[f] \notin SockState  BY <2>1 DEF SockState
  <2> QED  BY <1>5, <1>7, <2>1, <2>2 DEF TimerAdvances
<1> QED  BY <1>3, <1>4, <1>6, <1>7 DEF Environment

\* A timer that poll reports has run out: nothing is ever received on one.
LEMMA TimelyPoll == ASSUME LInv, Timely, Poll PROVE Timely'
<1>1. /\ table' = SetRevents(table, Ready) /\ pc' = "accept" /\ pc = "poll"
      /\ UNCHANGED <<conns, cur, doDelete, kern, rx>>
  BY DEF Poll, kernVars
<1>2. Flagged(table') \subseteq Ready  BY <1>1, TabSetRevents DEF LInv, LShape
<1>3. NoTimer \notin Ready  BY FdsArePositive DEF Ready, NoTimer, ListenFd
<1>4. ASSUME NEW k \in DOMAIN conns, conns[k].timer \in Fds \cap Ready
      PROVE  kern[conns[k].timer] = "expired"
  <2>1. kern[conns[k].timer] \in TimerState  BY <1>4 DEF LInv, Owners
  <2>2. rx[conns[k].timer] = <<>>  BY <1>4, <2>1, States DEF Timely
  <2>3. kern[conns[k].timer] \in {"shut", "reset", "expired"}
    BY <1>4, <2>2, FdsArePositive DEF Ready
  <2> QED  BY <2>1, <2>3 DEF TimerState
<1>5. ~doDelete  BY <1>1 DEF Timely
<1>6. \A f \in Fds : rx'[f] # <<>> => kern'[f] \in SockState  BY <1>1 DEF Timely
<1>7. NoTimer \notin Flagged(table)'  BY <1>2, <1>3
<1>8. \A k \in DOMAIN conns' :
         k >= cur' /\ conns'[k].timer \in Fds \cap Flagged(table)'
            => kern'[conns'[k].timer] = "expired"
  BY <1>1, <1>2, <1>4
<1>9. pc' # "timer" /\ ~doDelete'  BY <1>1, <1>5
<1> QED  BY ONLY <1>6, <1>7, <1>8, <1>9 DEF Timely

LEMMA TimelyEnlist ==
  ASSUME LInv, Timely, NEW sock \in Fds \cup {NoSock}, sock \in Fds => kern[sock] = "free",
         Enlist(sock, Opened(kern, sock, "open")), pc = "accept", backlog' \in Nat
  PROVE  Timely'
<1>1. PICK timer \in Fds \cup {NoTimer} : Enlisted(sock, timer)  BY EnlistEffects
<1>2. UNCHANGED <<cur, doDelete, rx>> /\ pc' = "conn" /\ cur = 1  BY <1>1 DEF Enlisted
<1>3. Flagged(table') = Flagged(table)  BY <1>1 DEF Enlisted
<1>4. \A f \in Fds : kern[f] # "free" => kern'[f] = kern[f]  BY <1>1 DEF Enlisted
<1>5. \A f \in Fds : rx'[f] # <<>> => kern'[f] \in SockState
  BY <1>2, <1>4, States DEF Timely
<1>6. NoTimer \notin Flagged(table)'  BY <1>3 DEF Timely
<1>7. ASSUME NEW k \in DOMAIN conns', conns'[k].timer \in Fds \cap Flagged(table)
      PROVE  kern'[conns'[k].timer] = "expired"
  <2>1. conns'[k].timer \in Listed(table)  BY <1>7, FlaggedListed
  <2>2. conns'[k].timer # timer  BY <1>1, <1>7, <2>1 DEF Enlisted
  <2>3. k \in DOMAIN conns /\ conns'[k] = conns[k]
    <3>1. \/ k \in DOMAIN conns /\ conns'[k] = conns[k]
          \/ conns'[k] = [conn |-> sock, timer |-> timer]
      BY <1>1 DEF Enlisted
    <3>2. conns'[k] # [conn |-> sock, timer |-> timer]  BY <2>2
    <3> QED  BY <3>1, <3>2
  <2>4. k >= cur
    <3>1. k \in 1..Len(conns)  BY <2>3, ConnsDomain DEF LInv
    <3> QED  BY <1>2, <3>1
  <2>5. kern[conns[k].timer] = "expired"  BY <1>7, <2>3, <2>4 DEF Timely
  <2> QED  BY <1>4, <1>7, <2>3, <2>5
<1>8. \A k \in DOMAIN conns' :
         k >= cur' /\ conns'[k].timer \in Fds \cap Flagged(table)'
            => kern'[conns'[k].timer] = "expired"
  BY <1>3, <1>7
<1>9. pc' # "timer" /\ ~doDelete'  BY <1>2 DEF Timely
<1> QED  BY ONLY <1>5, <1>6, <1>8, <1>9 DEF Timely

LEMMA TimelyAccept == ASSUME LInv, Timely, Accept \/ AcceptFails PROVE Timely'
<1>1. pc = "accept" /\ backlog \in Nat /\ backlog > 0
  BY DEF Accept, AcceptFails, LInv, LShape
<1>2. backlog' \in Nat  BY <1>1 DEF Accept, AcceptFails
<1>3. CASE Accept
  <2> DEFINE sock == NewFd(kern, NoSock)
  <2>1. sock \in Fds /\ kern[sock] = "free"  BY <1>3, NewFdIs DEF Accept
  <2>2. Enlist(sock, Opened(kern, sock, "open"))  BY <1>3 DEF Accept
  <2> HIDE DEF sock
  <2> QED  BY <1>1, <1>2, <2>1, <2>2, TimelyEnlist
<1>4. CASE AcceptFails
  <2>1. Opened(kern, NoSock, "open") = kern  BY FdsArePositive DEF Opened
  <2>2. Enlist(NoSock, Opened(kern, NoSock, "open"))  BY <1>4, <2>1 DEF AcceptFails
  <2> QED  BY <1>1, <1>2, <2>2, FdsArePositive, TimelyEnlist
<1> QED  BY <1>3, <1>4

\* Once an entry's mark is taken back its number has none, and entries are
\* found where they were.
LEMMA ClearUnmarks ==
  ASSUME NEW t, Tab(t), NEW i \in DOMAIN t.fds
  PROVE  LET u == [t EXCEPT !.fds = [t.fds EXCEPT ![i].revents = FALSE]]
         IN  /\ t.fds[i].fd \in Fds => t.fds[i].fd \notin Flagged(u)
             /\ \A f : FindFd(u, f) = FindFd(t, f)
<1> DEFINE new == [t.fds EXCEPT ![i].revents = FALSE]
           u == [t EXCEPT !.fds = new]
<1>1. \A a \in DOMAIN t.fds : t.fds[a] \in Items  BY TabDomain
<1>2. t = [fds |-> t.fds, size |-> t.size]  BY DEF Tab
<1>3. new = [a \in DOMAIN t.fds |-> IF a = i THEN [t.fds[a] EXCEPT !.revents = FALSE] ELSE t.fds[a]]
  BY TabDomain
<1>4. \A a \in DOMAIN t.fds :
         LET e == IF a = i THEN [t.fds[a] EXCEPT !.revents = FALSE] ELSE t.fds[a]
         IN  e.fd = t.fds[a].fd /\ (e.revents => t.fds[a].revents) /\ (a = i => ~e.revents)
  BY <1>1 DEF Items
<1> HIDE DEF new
<1>5. u = [fds |-> new, size |-> t.size]  BY <1>2
<1>6. u.fds = new  BY <1>5
<1> HIDE DEF u
<1>7. /\ DOMAIN new = DOMAIN t.fds /\ ~new[i].revents
      /\ \A a \in DOMAIN t.fds : new[a].fd = t.fds[a].fd
  BY <1>3, <1>4
<1>8. ASSUME t.fds[i].fd \in Fds, t.fds[i].fd \in Flagged(u) PROVE FALSE
  <2>1. PICK a \in DOMAIN t.fds : new[a].revents /\ new[a].fd = t.fds[i].fd
    BY <1>6, <1>7, <1>8 DEF Flagged
  <2>2. a = i  BY <1>7, <1>8, <2>1 DEF Tab
  <2> QED  BY <1>7, <2>1, <2>2
<1>9. ASSUME NEW f PROVE FindFd(u, f) = FindFd(t, f)
  <2>1. Matches(u, f) = Matches(t, f)  BY <1>6, <1>7 DEF Matches
  <2> QED  BY <2>1 DEF FindFd
<1> QED  BY <1>8, <1>9 DEF u, new

LEMMA TimelyRefresh ==
  ASSUME LInv, Timely, AtConn, ConnFd \in Fds, NEW d \in BOOLEAN, Refresh(d),
         d => kern[ConnFd] # "open",
         \A g \in Fds \ {ConnFd} : rx'[g] = rx[g],
         kern[ConnFd] \in SockState
  PROVE  Timely'
<1>1. /\ kern' = Opened(kern, TimerFd, "armed")
      /\ table' = [table EXCEPT !.fds = [table.fds EXCEPT ![TimerAt].revents = FALSE]]
      /\ doDelete' = d /\ pc' = "timer" /\ UNCHANGED <<conns, cur>>
  BY DEF Refresh
<1>2. /\ Len(conns) \in Nat /\ DOMAIN conns = 1..Len(conns)
      /\ pc = "conn" /\ cur \in DOMAIN conns
  BY ConnsDomain DEF AtConn, InWalk, LInv, LShape
<1>3. TimerAt \in DOMAIN table.fds /\ table.fds[TimerAt].fd = TimerFd
  BY FoundIsThere DEF AtConn, TimerAt
<1>4. Tab(table)  BY DEF LInv, LShape
<1>5. Flagged(table') \subseteq Flagged(table)  BY <1>1, <1>3, <1>4, TabClear
<1>6. /\ TimerFd \in Fds => TimerFd \notin Flagged(table')
      /\ FindFd(table', TimerFd) = TimerAt
  BY <1>1, <1>3, <1>4, ClearUnmarks DEF TimerAt
<1>7. TimerFd \in Fds => kern[TimerFd] \in TimerState  BY <1>2 DEF LInv, Owners, TimerFd
<1>8. /\ \A g \in Fds \ {TimerFd} : kern'[g] = kern[g]
      /\ \A g \in Fds : kern[g] \in SockState => kern'[g] = kern[g]
  BY <1>1, <1>7, States DEF LInv, LShape, Opened
<1>9. \A f \in Fds : rx'[f] # <<>> => kern'[f] \in SockState
  <2> TAKE f \in Fds
  <2> HAVE rx'[f] # <<>>
  <2>1. kern[f] \in SockState
    <3>1. CASE f = ConnFd  BY <3>1
    <3>2. CASE f # ConnFd  BY <3>2 DEF Timely
    <3> QED  BY <3>1, <3>2
  <2> QED  BY <1>8, <2>1
<1>10. NoTimer \notin Flagged(table)'  BY <1>5 DEF Timely
<1>11. pc' = "timer" /\ TimerAt' # 0
  <2>1. TimerAt' = FindFd(table', TimerFd)  BY <1>1 DEF TimerAt, TimerFd
  <2> QED  BY <1>1, <1>6, <2>1 DEF AtConn
<1>12. doDelete' => kern'[ConnFd'] # "open"
  <2>1. ConnFd' = ConnFd  BY <1>1 DEF ConnFd
  <2>2. kern'[ConnFd] = kern[ConnFd]  BY <1>8
  <2> QED  BY <1>1, <2>1, <2>2
<1>13. ASSUME NEW k \in DOMAIN conns, k >= cur, conns[k].timer \in Fds \cap Flagged(table')
       PROVE  kern'[conns[k].timer] = "expired"
  <2>1. conns[k].timer # TimerFd  BY <1>6, <1>13
  <2>2. kern[conns[k].timer] = "expired"  BY <1>2, <1>5, <1>13 DEF Timely
  <2> QED  BY <1>8, <1>13, <2>1, <2>2
<1>14. \A k \in DOMAIN conns' :
          k >= cur' /\ conns'[k].timer \in Fds \cap Flagged(table)'
             => kern'[conns'[k].timer] = "expired"
  BY <1>1, <1>13
<1> QED  BY ONLY <1>9, <1>10, <1>11, <1>12, <1>14 DEF Timely

LEMMA TimelyServe == ASSUME LInv, Timely, Serve \/ Eof PROVE Timely'
<1>1. AtConn /\ ConnFd \in Fds  BY DEF Serve, Eof, ConnEvent
<1>2. cur \in DOMAIN conns  BY <1>1, ConnsDomain DEF AtConn, InWalk, LInv, LShape
<1>3. kern[ConnFd] \in SockState  BY <1>1, <1>2 DEF LInv, Owners, ConnFd
<1>4. CASE Serve
  <2>1. rx \in [Fds -> Seq(Message)]  BY DEF LInv, LShape
  <2>2. \A g \in Fds \ {ConnFd} : rx'[g] = rx[g]  BY <1>1, <1>4, <2>1 DEF Serve
  <2>3. Refresh(FALSE)  BY <1>4 DEF Serve
  <2> QED  BY <1>1, <1>3, <2>2, <2>3, TimelyRefresh
<1>5. CASE Eof
  <2>1. Refresh(TRUE) /\ rx' = rx /\ kern[ConnFd] # "open"  BY <1>5 DEF Eof
  <2> QED  BY <1>1, <1>3, <2>1, TimelyRefresh
<1> QED  BY <1>4, <1>5

LEMMA TimelyDelete == ASSUME LInv, Timely, Delete PROVE Timely'
<1> DEFINE n == Len(conns)
<1>1. /\ pc = "timer" /\ cur <= n /\ pc' = "conn" /\ doDelete' = FALSE /\ cur' = cur
      /\ table' = RemoveFd(RemoveFd(table, ConnFd), TimerFd)
      /\ kern' = Closed(kern, {ConnFd, TimerFd}, "free")
      /\ rx' = Closed(rx, {ConnFd}, <<>>)
      /\ conns' = RemoveAt(conns, cur)
  BY DEF Delete, InWalk
<1>2. /\ n \in Nat /\ DOMAIN conns = 1..n /\ cur \in 1..n /\ conns \in Seq(Conns)
      /\ Tab(table)
  BY <1>1, ConnsDomain DEF LInv, LShape
<1>3. /\ conns' \in Seq(Conns) /\ Len(conns') = n - 1
      /\ \A j \in 1..n - 1 : conns'[j] = IF j < cur THEN conns[j] ELSE conns[j + 1]
  BY <1>1, <1>2, RemoveAtProperties
<1>4. DOMAIN conns' = 1..n - 1  BY <1>3, LenProperties
<1> HIDE DEF n
<1>5. Flagged(table') \subseteq Flagged(table)
  <2>1. Tab(RemoveFd(table, ConnFd)) /\ Flagged(RemoveFd(table, ConnFd)) \subseteq Flagged(table)
    BY <1>2, TabRemove
  <2>2. Flagged(table') \subseteq Flagged(RemoveFd(table, ConnFd))
    BY <1>1, <2>1, TabRemove
  <2> QED  BY <2>1, <2>2
<1>6. /\ \A f \in Fds \ {ConnFd, TimerFd} : kern'[f] = kern[f]
      /\ \A f \in Fds : rx'[f] = IF f = ConnFd THEN <<>> ELSE rx[f]
  BY <1>1 DEF Closed
<1>7. /\ ConnFd \in Fds => kern[ConnFd] \in SockState
      /\ TimerFd \in Fds => kern[TimerFd] \in TimerState
  BY <1>2 DEF LInv, Owners, ConnFd, TimerFd
<1>8. \A f \in Fds : rx'[f] # <<>> => kern'[f] \in SockState
  <2> TAKE f \in Fds
  <2> HAVE rx'[f] # <<>>
  <2>1. f # ConnFd /\ kern[f] \in SockState  BY <1>6 DEF Timely
  <2>2. f # TimerFd  BY <1>7, <2>1, States
  <2> QED  BY <1>6, <2>1, <2>2
<1>9. NoTimer \notin Flagged(table)'  BY <1>5 DEF Timely
<1>10. ASSUME NEW j \in 1..n - 1, j >= cur, conns'[j].timer \in Fds \cap Flagged(table')
       PROVE  kern'[conns'[j].timer] = "expired"
  <2>1. /\ j + 1 \in 1..n /\ j + 1 > cur /\ j + 1 # cur /\ j + 1 >= cur
        /\ conns'[j] = conns[j + 1]
    BY <1>2, <1>3, <1>10
  <2> DEFINE f == conns[j + 1].timer
  <2>2. f \in Fds \cap Flagged(table)  BY <1>5, <1>10, <2>1
  <2>3. kern[f] = "expired"  BY <1>1, <1>2, <2>1, <2>2 DEF Timely
  <2>4. f # TimerFd  BY <1>2, <2>1, <2>2 DEF LInv, Owners, TimerFd
  <2>5. f # ConnFd
    <3>1. kern[f] \in TimerState  BY <1>2, <2>1, <2>2 DEF LInv, Owners
    <3> QED  BY <1>7, <2>2, <3>1, States
  <2>6. kern'[f] = "expired"
    <3> HIDE DEF f
    <3> QED  BY <1>6, <2>2, <2>3, <2>4, <2>5
  <2> QED  BY <2>1, <2>6
<1>11. \A j \in DOMAIN conns' :
          j >= cur' /\ conns'[j].timer \in Fds \cap Flagged(table)'
             => kern'[conns'[j].timer] = "expired"
  BY <1>1, <1>4, <1>10
<1>12. pc' # "timer" /\ ~doDelete'  BY <1>1
<1> QED  BY ONLY <1>8, <1>9, <1>11, <1>12 DEF Timely

LEMMA TimelyServer == ASSUME LInv, Timely, Server PROVE Timely'
<1>1. CASE Poll  BY <1>1, TimelyPoll
<1>2. CASE Accept \/ AcceptFails  BY <1>2, TimelyAccept
<1>3. CASE Serve \/ Eof  BY <1>3, TimelyServe
<1>4. CASE Delete  BY <1>4, TimelyDelete
<1>5. CASE PollFails \/ NoAccept \/ AcceptFailsAgain \/ EndOfWalk \/ NotFound
           \/ NoEvent \/ SendFails \/ RecvFails \/ Keep
  <2>1. /\ UNCHANGED <<table, conns, kern, rx>> /\ doDelete' = doDelete
        /\ backlog' = backlog
    BY <1>5 DEF PollFails, NoAccept, AcceptFailsAgain, EndOfWalk, NotFound,
       NoEvent, SendFails, RecvFails, Keep, serverVars, kernVars
  <2>2. backlog \in Nat  BY DEF LInv, LShape
  <2>3. Moves
    BY <1>5, <2>1, <2>2 DEF PollFails, NoAccept, AcceptFailsAgain, EndOfWalk, NotFound,
       NoEvent, SendFails, RecvFails, Keep, serverVars, AtConn, InWalk, Moves
  <2>4. /\ pc = "timer" /\ pc' # "timer" => ~doDelete
        /\ pc = "conn" /\ pc' = "timer" => TimerAt # 0
        /\ pc = "poll" => pc' = "poll"
    BY <1>5 DEF PollFails, NoAccept, AcceptFailsAgain, EndOfWalk, NotFound,
       NoEvent, SendFails, RecvFails, Keep, serverVars, AtConn, InWalk, ToDelete
  <2>5. \A f \in Fds : rx'[f] # <<>> => kern'[f] \in SockState  BY <2>1 DEF Timely
  <2> QED  BY <2>1, <2>3, <2>4, <2>5, TimelyKept
<1> QED  BY <1>1, <1>2, <1>3, <1>4, <1>5 DEF Server

LEMMA TimelyNext == LInv /\ Timely /\ [Next]_vars => Timely'
<1> SUFFICES ASSUME LInv, Timely, [Next]_vars PROVE Timely'  OBVIOUS
<1>1. CASE UNCHANGED vars
  <2>1. UNCHANGED <<table, conns, kern, rx, pc, cur, doDelete, backlog>>  BY <1>1 DEF vars
  <2>2. Moves  BY <2>1 DEF Moves, LInv, LShape
  <2>3. \A f \in Fds : rx'[f] # <<>> => kern'[f] \in SockState  BY <2>1 DEF Timely
  <2> QED  BY <2>1, <2>2, <2>3, TimelyKept
<1> QED  BY <1>1, TimelyEnvironment, TimelyServer DEF Next, Ended

\* Only the deletion of the connection the walk is at closes anything.
LEMMA OnlyDeleteCloses ==
  ASSUME LInv, [Next]_vars, NEW f \in Fds, kern[f] = "open", kern'[f] = "free"
  PROVE  Delete
<1>1. kern \in [Fds -> KernStates]  BY DEF LInv, LShape
<1> SUFFICES ASSUME ~Delete PROVE FALSE  OBVIOUS
<1>2. CASE kern' = kern  BY <1>2
<1>3. CASE \E s : \E g \in Fds : kern' = [kern EXCEPT ![g] = s] /\ s # "free"  BY <1>1, <1>3
<1>4. CASE Environment
  <2>1. \/ kern' = kern
        \/ \E g \in Fds, how \in {"shut", "reset"} : kern' = [kern EXCEPT ![g] = how]
        \/ \E g \in Fds, s \in {"due", "expired"} : kern' = [kern EXCEPT ![g] = s]
    BY <1>4 DEF Environment, ClientConnect, ClientSend, ClientLeave, TimerAdvances
  <2> QED  BY <1>2, <1>3, <2>1
<1>5. CASE Accept \/ AcceptFails
  <2>1. PICK sock \in Fds \cup {NoSock} : Enlist(sock, Opened(kern, sock, "open"))
    <3>1. Opened(kern, NoSock, "open") = kern  BY FdsArePositive DEF Opened
    <3>2. NewFd(kern, NoSock) \in Fds \cup {NoSock}  BY NewFdIs
    <3> QED  BY <1>5, <3>1, <3>2 DEF Accept, AcceptFails
  <2>2. kern' = Opened(Opened(kern, sock, "open"), NewFd(Opened(kern, sock, "open"), NoTimer), "armed")
    BY <2>1 DEF Enlist
  <2>3. \A k, g, s : k \in [Fds -> KernStates] /\ k[f] # "free" /\ s \in KernStates \ {"free"}
                        => Opened(k, g, s) \in [Fds -> KernStates] /\ Opened(k, g, s)[f] # "free"
    BY DEF Opened
  <2>4. "open" \in KernStates \ {"free"} /\ "armed" \in KernStates \ {"free"}  BY States
  <2> QED  BY <1>1, <2>2, <2>3, <2>4
<1>6. CASE Serve \/ Eof
  <2>1. kern' = Opened(kern, TimerFd, "armed")  BY <1>6 DEF Serve, Eof, Refresh
  <2> QED  BY <1>1, <2>1 DEF Opened
<1>7. CASE UNCHANGED vars  BY <1>2, <1>7 DEF vars
<1>8. CASE Poll \/ PollFails \/ NoAccept \/ AcceptFailsAgain \/ EndOfWalk \/ NotFound
           \/ NoEvent \/ SendFails \/ RecvFails \/ Keep
  <2>1. kern' = kern
    BY <1>8 DEF Poll, PollFails, NoAccept, AcceptFailsAgain, EndOfWalk, NotFound,
       NoEvent, SendFails, RecvFails, Keep, kernVars
  <2> QED  BY <1>2, <2>1
<1> QED  BY <1>4, <1>5, <1>6, <1>7, <1>8 DEF Next, Server, Ended

\* A client that is there loses its connection only when its timer has run
\* out, never in a pass in which it was served, for any number of clients and
\* whatever fails.
THEOREM AlwaysOnlyIdleClosed == Spec => OnlyIdleClosed
<1>1. ASSUME LInv, Timely, [Next]_vars, NEW i \in DOMAIN conns,
             conns[i].conn \in Fds, kern[conns[i].conn] = "open", kern'[conns[i].conn] = "free"
      PROVE  conns[i].timer \in Fds /\ kern[conns[i].timer] = "expired"
  <2>1. Delete  BY <1>1, OnlyDeleteCloses
  <2>2. pc = "timer" /\ cur <= Len(conns) /\ ToDelete /\ kern' = Closed(kern, {ConnFd, TimerFd}, "free")
    BY <2>1 DEF Delete, InWalk
  <2>3. cur \in DOMAIN conns  BY <1>1, <2>2, ConnsDomain DEF LInv, LShape
  <2>4. conns[i].conn \in {ConnFd, TimerFd}  BY <1>1, <2>2 DEF Closed
  <2>5. TimerFd \in Fds => kern[TimerFd] \in TimerState
    BY <1>1, <2>3 DEF LInv, Owners, TimerFd
  <2>6. conns[i].conn = ConnFd  BY <1>1, <2>4, <2>5, States
  <2>7. i = cur  BY <1>1, <2>3, <2>6 DEF LInv, Owners, ConnFd
  <2>8. table.fds[TimerAt].revents
    <3>1. ~doDelete  BY <1>1, <2>2, <2>6 DEF Timely
    <3> QED  BY <2>2, <3>1 DEF ToDelete
  <2>9. TimerAt \in DOMAIN table.fds /\ table.fds[TimerAt].fd = TimerFd
    <3>1. TimerAt # 0  BY <1>1, <2>2 DEF Timely
    <3> QED  BY <3>1, FoundIsThere DEF TimerAt
  <2>10. TimerFd \in Flagged(table)  BY <2>8, <2>9 DEF Flagged
  <2>11. TimerFd \in Fds
    <3>1. TimerFd \in Fds \cup {NoTimer}  BY <1>1, <2>3, ConnsDomain DEF LInv, TimerFd
    <3> QED  BY <1>1, <2>10, <3>1 DEF Timely
  <2>12. cur >= cur  BY <1>1 DEF LInv, LShape
  <2>13. kern[TimerFd] = "expired"
    BY <1>1, <2>2, <2>3, <2>10, <2>11, <2>12 DEF Timely, TimerFd
  <2> QED  BY <2>7, <2>11, <2>13 DEF TimerFd
<1>2. LInv /\ Timely /\ [Next]_vars =>
        [\A i \in DOMAIN conns :
            LET c == conns[i] IN
            c.conn \in Fds /\ kern[c.conn] = "open" /\ kern'[c.conn] = "free"
               => c.timer \in Fds /\ kern[c.timer] = "expired"]_vars
  BY <1>1
<1> QED  BY <1>2, LoopInit, LoopNext, TimelyInit, TimelyNext, PTL DEF Spec, OnlyIdleClosed

-----------------------------------------------------------------------------
(* The loop implements WatchSet.                                           *)

\* Every client's socket is in the table and in the list.  An entry that
\* insert_fd could not make is not among the sockets: the one whose result is
\* dropped is the timer's.
Everyone ==
    Running => \A f \in Socks : f \in Listed(table) /\ \E j \in DOMAIN conns : conns[j].conn = f

WInv == LInv /\ Timely /\ Everyone

LEMMA EveryoneInit == Init => Everyone
  BY DEF Init, Everyone, Socks, SockState

\* Steps that take nobody out.
LEMMA EveryoneKept ==
  ASSUME Everyone, UNCHANGED conns, Listed(table) \subseteq Listed(table'),
         Running' => Running, Socks' \subseteq Socks
  PROVE  Everyone'
<1> SUFFICES ASSUME Running', NEW f \in Socks'
             PROVE  f \in Listed(table') /\ \E j \in DOMAIN conns : conns[j].conn = f
  BY DEF Everyone
<1> QED  BY DEF Everyone

LEMMA SocksSame == ASSUME UNCHANGED kern PROVE Socks' = Socks
  BY DEF Socks

\* Clients and timers never make a socket of what was none.
LEMMA EnvironmentKeepsSocks ==
  ASSUME LInv, Environment
  PROVE  Socks' = Socks /\ UNCHANGED <<table, conns, pc, cur, doDelete, status>>
<1>1. kern \in [Fds -> KernStates]  BY DEF LInv, LShape
<1>2. UNCHANGED <<table, conns, pc, cur, doDelete, status>>
  BY DEF Environment, ClientConnect, ClientSend, ClientLeave, TimerAdvances, serverVars
<1>3. CASE UNCHANGED kern  BY <1>2, <1>3, SocksSame
<1>4. ASSUME NEW f \in Fds, NEW s, kern' = [kern EXCEPT ![f] = s],
             kern[f] \in SockState <=> s \in SockState
      PROVE  Socks' = Socks
  <2>1. \A g \in Fds : kern'[g] \in SockState <=> kern[g] \in SockState  BY <1>1, <1>4
  <2> QED  BY <2>1 DEF Socks
<1>5. ASSUME NEW f \in Fds, NEW how \in {"shut", "reset"}, ClientLeave(f, how)
      PROVE  Socks' = Socks
  BY <1>4, <1>5 DEF ClientLeave, SockState
<1>6. ASSUME NEW f \in Fds, TimerAdvances(f) PROVE Socks' = Socks
  <2>1. PICK s \in {"due", "expired"} : kern' = [kern EXCEPT ![f] = s] /\ kern[f] \in {"armed", "due"}
    BY <1>6 DEF TimerAdvances
  <2> QED  BY <1>4, <2>1 DEF SockState
<1> QED
  BY <1>2, <1>3, <1>5, <1>6 DEF Environment, ClientConnect, ClientSend

\* accept adds its socket, and to the table and the list with it.
LEMMA EnlistSocks ==
  ASSUME LInv, NEW sock \in Fds \cup {NoSock}, NEW timer \in Fds \cup {NoTimer},
         sock \in Fds => kern[sock] = "free", Enlisted(sock, timer)
  PROVE  Socks' = Socks \cup ({sock} \cap Fds)
<1>1. timer \in Fds => timer \notin Socks /\ timer \notin Socks' /\ timer # sock
  BY States DEF Enlisted, Socks
<1>2. sock \in Fds => sock \in Socks'  BY States DEF Enlisted, Socks
<1>3. \A g \in Fds \ {sock, timer} : g \in Socks' <=> g \in Socks  BY DEF Enlisted, Socks
<1>4. Socks \subseteq Fds /\ Socks' \subseteq Fds  BY DEF Socks
<1> QED  BY <1>1, <1>2, <1>3, <1>4

LEMMA EveryoneEnlist ==
  ASSUME LInv, Everyone, NEW sock \in Fds \cup {NoSock}, NEW timer \in Fds \cup {NoTimer},
         sock \in Fds => kern[sock] = "free", Enlisted(sock, timer)
  PROVE  Everyone'
<1> SUFFICES ASSUME Running', NEW f \in Socks'
             PROVE  f \in Listed(table') /\ \E j \in DOMAIN conns' : conns'[j].conn = f
  BY DEF Everyone
<1>1. Running  BY DEF Enlisted, Running
<1>2. f \in Socks \/ f = sock  BY EnlistSocks
<1>3. CASE f = sock  BY <1>3 DEF Enlisted
<1>4. CASE f \in Socks
  <2>1. f \in Listed(table) /\ \E j \in DOMAIN conns : conns[j].conn = f
    BY <1>1, <1>4 DEF Everyone
  <2> QED  BY <2>1 DEF Enlisted
<1> QED  BY <1>2, <1>3, <1>4

\* What accept does, in either case.
LEMMA AcceptEnlists ==
  ASSUME LInv, Accept \/ AcceptFails
  PROVE  \E sock \in Fds \cup {NoSock}, timer \in Fds \cup {NoTimer} :
            /\ sock \in Fds => kern[sock] = "free"
            /\ Enlisted(sock, timer) /\ pc = "accept"
<1>1. pc = "accept" /\ backlog \in Nat /\ backlog > 0
  BY DEF Accept, AcceptFails, LInv, LShape
<1>2. backlog' \in Nat  BY <1>1 DEF Accept, AcceptFails
<1>3. PICK sock \in Fds \cup {NoSock} :
         (sock \in Fds => kern[sock] = "free") /\ Enlist(sock, Opened(kern, sock, "open"))
  <2>1. CASE Accept
    <3>1. NewFd(kern, NoSock) \in Fds /\ kern[NewFd(kern, NoSock)] = "free"
      BY <2>1, NewFdIs DEF Accept
    <3> QED  BY <2>1, <3>1 DEF Accept
  <2>2. CASE AcceptFails
    <3>1. Opened(kern, NoSock, "open") = kern  BY FdsArePositive DEF Opened
    <3> QED  BY <2>2, <3>1, FdsArePositive DEF AcceptFails
  <2> QED  BY <2>1, <2>2
<1> QED  BY <1>1, <1>2, <1>3, EnlistEffects

\* Setting a timer again makes no socket of it and takes none away.
LEMMA RefreshKeepsSocks ==
  ASSUME LInv, AtConn, NEW d, Refresh(d)
  PROVE  /\ Socks' = Socks /\ cur \in DOMAIN conns /\ TimerAt \in DOMAIN table.fds
         /\ table' = [table EXCEPT !.fds = [table.fds EXCEPT ![TimerAt].revents = FALSE]]
         /\ table.fds[TimerAt].fd = TimerFd
<1>1. cur \in DOMAIN conns  BY ConnsDomain DEF AtConn, InWalk, LInv, LShape
<1>2. TimerFd \in Fds => kern[TimerFd] \in TimerState  BY <1>1 DEF LInv, Owners, TimerFd
<1>3. \A f \in Fds : kern'[f] \in SockState <=> kern[f] \in SockState
  <2>1. kern' = Opened(kern, TimerFd, "armed") /\ kern \in [Fds -> KernStates]
    BY DEF Refresh, LInv, LShape
  <2> QED  BY <1>2, <2>1, States DEF Opened
<1>4. TimerAt \in DOMAIN table.fds /\ table.fds[TimerAt].fd = TimerFd
  BY FoundIsThere DEF AtConn, TimerAt
<1>5. table' = [table EXCEPT !.fds = [table.fds EXCEPT ![TimerAt].revents = FALSE]]
  BY DEF Refresh
<1> QED  BY <1>1, <1>3, <1>4, <1>5 DEF Socks

\* A deletion, seen from the entries that stay.
LEMMA DeleteEffects ==
  ASSUME LInv, Delete
  PROVE  /\ pc = "timer" /\ pc' = "conn" /\ cur' = cur /\ ~doDelete' /\ status' = status
         /\ cur \in DOMAIN conns /\ ToDelete
         /\ Listed(table) \ {ConnFd, TimerFd} \subseteq Listed(table')
         /\ Flagged(table') \subseteq Flagged(table)
         /\ Flagged(table) \ {ConnFd, TimerFd} \subseteq Flagged(table')
         /\ Socks' = Socks \ {ConnFd}
         /\ \A f \in Fds : rx'[f] = IF f = ConnFd THEN <<>> ELSE rx[f]
         /\ \A j \in DOMAIN conns' :
               \E m \in DOMAIN conns :
                  m # cur /\ conns'[j] = conns[m] /\ (j >= cur => m > cur)
         /\ \A m \in DOMAIN conns :
               m # cur => \E j \in DOMAIN conns' :
                             conns'[j] = conns[m] /\ (m > cur => j >= cur)
<1> DEFINE n == Len(conns)
<1>1. /\ pc = "timer" /\ cur <= n /\ pc' = "conn" /\ ~doDelete' /\ cur' = cur /\ status' = status
      /\ table' = RemoveFd(RemoveFd(table, ConnFd), TimerFd)
      /\ kern' = Closed(kern, {ConnFd, TimerFd}, "free")
      /\ rx' = Closed(rx, {ConnFd}, <<>>)
      /\ conns' = RemoveAt(conns, cur) /\ ToDelete
  BY DEF Delete, InWalk
<1>2. /\ n \in Nat /\ DOMAIN conns = 1..n /\ cur \in 1..n /\ conns \in Seq(Conns)
      /\ Tab(table)
  BY <1>1, ConnsDomain DEF LInv, LShape
<1>3. /\ conns' \in Seq(Conns) /\ Len(conns') = n - 1
      /\ \A j \in 1..n - 1 : conns'[j] = IF j < cur THEN conns[j] ELSE conns[j + 1]
  BY <1>1, <1>2, RemoveAtProperties
<1>4. DOMAIN conns' = 1..n - 1  BY <1>3, LenProperties
<1> HIDE DEF n
<1>5. /\ Listed(table) \ {ConnFd, TimerFd} \subseteq Listed(table')
      /\ Flagged(table') \subseteq Flagged(table)
      /\ Flagged(table) \ {ConnFd, TimerFd} \subseteq Flagged(table')
  <2>1. /\ Tab(RemoveFd(table, ConnFd))
        /\ Listed(table) \ {ConnFd} \subseteq Listed(RemoveFd(table, ConnFd))
        /\ Flagged(RemoveFd(table, ConnFd)) \subseteq Flagged(table)
        /\ Flagged(table) \ {ConnFd} \subseteq Flagged(RemoveFd(table, ConnFd))
    BY <1>2, TabRemove
  <2>2. /\ Listed(RemoveFd(table, ConnFd)) \ {TimerFd} \subseteq Listed(table')
        /\ Flagged(table') \subseteq Flagged(RemoveFd(table, ConnFd))
        /\ Flagged(RemoveFd(table, ConnFd)) \ {TimerFd} \subseteq Flagged(table')
    BY <1>1, <2>1, TabRemove
  <2> QED  BY <2>1, <2>2
<1>6. Socks' = Socks \ {ConnFd}
  <2>1. TimerFd \in Fds => kern[TimerFd] \in TimerState  BY <1>2 DEF LInv, Owners, TimerFd
  <2>2. \A f \in Fds : kern'[f] = IF f \in {ConnFd, TimerFd} THEN "free" ELSE kern[f]
    BY <1>1 DEF Closed
  <2> QED  BY <2>1, <2>2, States DEF Socks
<1>7. \A f \in Fds : rx'[f] = IF f = ConnFd THEN <<>> ELSE rx[f]  BY <1>1 DEF Closed
<1>8. ASSUME NEW j \in 1..n - 1
      PROVE  \E m \in 1..n : m # cur /\ conns'[j] = conns[m] /\ (j >= cur => m > cur)
  <2>1. CASE j < cur
    <3>1. j \in 1..n /\ j # cur /\ ~(j >= cur) /\ conns'[j] = conns[j]  BY <1>2, <1>3, <2>1
    <3> QED  BY <3>1
  <2>2. CASE j >= cur
    <3>1. j + 1 \in 1..n /\ j + 1 # cur /\ j + 1 > cur /\ conns'[j] = conns[j + 1]
      BY <1>2, <1>3, <2>2
    <3> QED  BY <3>1
  <2> QED  BY <1>2, <2>1, <2>2
<1>9. ASSUME NEW m \in 1..n, m # cur
      PROVE  \E j \in 1..n - 1 : conns'[j] = conns[m] /\ (m > cur => j >= cur)
  <2>1. CASE m < cur
    <3>1. m \in 1..n - 1 /\ ~(m > cur) /\ conns'[m] = conns[m]  BY <1>2, <1>3, <2>1
    <3> QED  BY <3>1
  <2>2. CASE m > cur
    <3>1. m - 1 \in 1..n - 1 /\ m - 1 >= cur /\ conns'[m - 1] = conns[m]
      <4>1. m - 1 \in 1..n - 1 /\ m - 1 >= cur /\ (m - 1) + 1 = m  BY <1>2, <2>2
      <4>2. ~(m - 1 < cur)  BY <1>2, <2>2
      <4> QED  BY <1>3, <4>1, <4>2
    <3> QED  BY <3>1
  <2> QED  BY <1>2, <1>9, <2>1, <2>2
<1> QED  BY <1>1, <1>2, <1>4, <1>5, <1>6, <1>7, <1>8, <1>9

LEMMA EveryoneDelete == ASSUME LInv, Everyone, Delete PROVE Everyone'
<1> SUFFICES ASSUME Running', NEW f \in Socks'
             PROVE  f \in Listed(table') /\ \E j \in DOMAIN conns' : conns'[j].conn = f
  BY DEF Everyone
<1>1. /\ Running /\ f \in Socks /\ f # ConnFd /\ cur \in DOMAIN conns
  BY DeleteEffects DEF Running
<1>2. f \in Listed(table) /\ \E m \in DOMAIN conns : conns[m].conn = f
  BY <1>1 DEF Everyone
<1>3. f # TimerFd
  <2>1. TimerFd \in Fds => kern[TimerFd] \in TimerState  BY <1>1 DEF LInv, Owners, TimerFd
  <2> QED  BY <1>1, <2>1, States DEF Socks
<1>4. PICK m \in DOMAIN conns : m # cur /\ conns[m].conn = f  BY <1>1, <1>2 DEF ConnFd
<1>5. \E j \in DOMAIN conns' : conns'[j].conn = f  BY <1>4, DeleteEffects
<1> QED  BY <1>1, <1>2, <1>3, <1>5, DeleteEffects

LEMMA EveryoneNext == LInv /\ Everyone /\ [Next]_vars => Everyone'
<1> SUFFICES ASSUME LInv, Everyone, [Next]_vars PROVE Everyone'  OBVIOUS
<1>1. CASE UNCHANGED vars  BY <1>1, SocksSame, EveryoneKept DEF vars, Running
<1>2. CASE Environment
  BY <1>2, EnvironmentKeepsSocks, EveryoneKept DEF Running
<1>3. CASE Poll
  <2>1. Listed(table') = Listed(table)  BY <1>3, TabSetRevents DEF Poll, LInv, LShape
  <2> QED  BY <1>3, <2>1, SocksSame, EveryoneKept DEF Poll, kernVars, Running
<1>4. CASE Accept \/ AcceptFails  BY <1>4, AcceptEnlists, EveryoneEnlist
<1>5. CASE Serve \/ Eof
  <2>1. PICK d \in BOOLEAN : Refresh(d) /\ AtConn  BY <1>5 DEF Serve, Eof, ConnEvent
  <2>2. Listed(table') = Listed(table)
    BY <2>1, RefreshKeepsSocks, TabClear DEF LInv, LShape
  <2>3. Socks' = Socks /\ UNCHANGED <<conns, status>>  BY <2>1, RefreshKeepsSocks DEF Refresh
  <2> QED  BY <2>2, <2>3, EveryoneKept DEF Running
<1>6. CASE Delete  BY <1>6, EveryoneDelete
<1>7. CASE Running /\ (PollFails \/ NoAccept \/ AcceptFailsAgain \/ EndOfWalk \/ NotFound
                       \/ NoEvent \/ SendFails \/ RecvFails \/ Keep)
  <2>1. UNCHANGED <<table, conns, kern>>
    BY <1>7 DEF PollFails, NoAccept, AcceptFailsAgain, EndOfWalk, NotFound,
       NoEvent, SendFails, RecvFails, Keep, serverVars, kernVars
  <2> QED  BY <1>7, <2>1, SocksSame, EveryoneKept
<1> QED  BY <1>1, <1>2, <1>3, <1>4, <1>5, <1>6, <1>7 DEF Next, Server, Ended

LEMMA WatchAlways == Spec => []WInv
<1>1. Init => WInv  BY LoopInit, TimelyInit, EveryoneInit DEF WInv
<1>2. WInv /\ [Next]_vars => WInv'  BY LoopNext, TimelyNext, EveryoneNext DEF WInv
<1> QED  BY <1>1, <1>2, PTL DEF Spec

\* The mapping, with Everyone: a socket is watched, whatever has no socket is
\* closed, and nobody is stranded.
Served == IF Running THEN Socks ELSE {}
Stages == [f \in Fds |-> StageOf(f)]
Pending == [f \in Fds |-> Waiting(f)]

LEMMA StagesAre ==
  ASSUME Everyone
  PROVE  Stages = [f \in Fds |-> IF f \in Served THEN "watched" ELSE "closed"]
<1> SUFFICES ASSUME NEW f \in Fds
             PROVE  StageOf(f) = IF f \in Served THEN "watched" ELSE "closed"
  BY DEF Stages
<1>1. f \in Served <=> Running /\ kern[f] \in SockState  BY DEF Served, Socks
<1>2. CASE f \in Served
  <2>1. f \in Listed(table) /\ \E j \in DOMAIN conns : conns[j].conn = f
    BY <1>1, <1>2 DEF Everyone, Socks
  <2>2. Polled(f) /\ HasConn(f)  BY <2>1 DEF Polled, HasConn, Listed
  <2> QED  BY <1>1, <1>2, <2>2 DEF StageOf
<1>3. CASE f \notin Served  BY <1>1, <1>3 DEF StageOf
<1> QED  BY <1>2, <1>3

LEMMA PendingIs ==
  ASSUME Everyone
  PROVE  Pending = [f \in Fds |-> IF f \in Served THEN Len(rx[f]) ELSE 0]
<1> SUFFICES ASSUME NEW f \in Fds
             PROVE  Waiting(f) = IF f \in Served THEN Len(rx[f]) ELSE 0
  BY DEF Pending
<1>1. StageOf(f) = IF f \in Served THEN "watched" ELSE "closed"  BY StagesAre DEF Stages
<1> QED  BY <1>1 DEF Waiting

\* The same of the state a step ends in.
Mapped ==
    /\ Stages = [f \in Fds |-> IF f \in Served THEN "watched" ELSE "closed"]
    /\ Pending = [f \in Fds |-> IF f \in Served THEN Len(rx[f]) ELSE 0]

LEMMA MappedAlways == Everyone' => Mapped'
<1>1. Everyone => Mapped  BY StagesAre, PendingIs DEF Mapped
<1> QED  BY <1>1, PTL

LEMMA MappedNext ==
  ASSUME Everyone'
  PROVE  /\ Stages' = [f \in Fds |-> IF f \in Served' THEN "watched" ELSE "closed"]
         /\ Pending' = [f \in Fds |-> IF f \in Served' THEN Len(rx'[f]) ELSE 0]
BY MappedAlways DEF Mapped

LEMMA ServedWatched ==
  ASSUME Everyone
  PROVE  /\ Served \subseteq Fds
         /\ Watch!Watched = Served /\ Watch!Taken = Served
         /\ \A f \in Fds : Stages[f] = IF f \in Served THEN "watched" ELSE "closed"
<1>1. Served \subseteq Fds  BY DEF Served, Socks
<1>2. \A f \in Fds : StageOf(f) = IF f \in Served THEN "watched" ELSE "closed"
  BY StagesAre DEF Stages
<1> QED  BY <1>1, <1>2 DEF Watch!Watched, Watch!Taken, Stages

\* Whose turn is to come, once poll has returned.
Turn(f) == \E k \in DOMAIN conns : k >= cur /\ conns[k].conn = f /\ HasTurn(k)

LEMMA DueIs ==
  /\ Running /\ pc # "poll" => \A f : f \in Due <=> f \in Fds /\ Turn(f)
  /\ Running' /\ pc' # "poll" => \A f : f \in Due' <=> f \in Fds /\ Turn(f)'
BY DEF Due, Turn, HasTurn, Running

LEMMA MarksAre == Marks = Flagged(table) /\ Marks' = Flagged(table')
  BY DEF Marks, Flagged

\* WatchSet counts as this module does.
LEMMA SameCardinality == \A S : Watch!Cardinality(S) = Cardinality(S)
  BY DEF Cardinality, Watch!Cardinality, IsFiniteSet, Watch!IsFiniteSet

LEMMA WatchStutters ==
  ASSUME Everyone, Everyone', Served' = Served, rx' = rx, Due' = Due
  PROVE  UNCHANGED Watch!vars
<1>1. Stages' = Stages  BY StagesAre, MappedNext
<1>2. Pending' = Pending  BY PendingIs, MappedNext
<1> QED  BY <1>1, <1>2 DEF Watch!vars, Stages, Pending

\* However the process ends, every client it served is closed with it.
LEMMA WatchStops ==
  ASSUME Everyone, Everyone', Running, ~Running'
  PROVE  Watch!Next
<1>1. Served' = {} /\ Due' = {}  BY DEF Served, Due
<1>2. Stages' = [f \in Fds |-> "closed"]  BY <1>1, MappedNext
<1>3. Pending' = [f \in Fds |-> 0]  BY <1>1, MappedNext
<1>4. \A f \in Fds : Stages[f] = IF f \in Watch!Taken THEN "watched" ELSE "closed"
  BY ServedWatched
<1>5. \A f \in Fds : f \notin Watch!Taken => Pending[f] = 0
  BY PendingIs, ServedWatched
<1>6. Stages' = [f \in Fds |-> IF f \in Watch!Taken THEN "closed" ELSE Stages[f]]
  BY <1>2, <1>4
<1>7. Pending' = [f \in Fds |-> IF f \in Watch!Taken THEN 0 ELSE Pending[f]]
  BY <1>3, <1>5
<1>8. Watch!Stop  BY <1>1, <1>6, <1>7 DEF Watch!Stop, Stages, Pending
<1> QED  BY <1>8 DEF Watch!Next

LEMMA DueSame ==
  ASSUME UNCHANGED <<table, conns, pc, cur, doDelete, status>>
  PROVE  Due' = Due
BY DEF Due, HasTurn, Marks, Running

LEMMA WatchSend ==
  ASSUME WInv, WInv', Running, NEW f \in Fds, NEW m \in Message, ClientSend(f, m)
  PROVE  Watch!Next
<1>1. /\ UNCHANGED <<table, conns, pc, cur, doDelete, status, kern>>
      /\ rx' = [rx EXCEPT ![f] = Append(rx[f], m)] /\ kern[f] = "open"
      /\ rx \in [Fds -> Seq(Message)]
  BY DEF ClientSend, serverVars, WInv, LInv, LShape
<1>2. Due' = Due /\ Served' = Served  BY <1>1, DueSame DEF Served, Socks, Running
<1>3. f \in Served  BY <1>1, States DEF Served, Socks
<1>4. Stages' = Stages /\ Stages[f] # "closed"
  BY <1>2, <1>3, StagesAre, MappedNext, ServedWatched DEF WInv
<1>5. /\ Len(rx'[f]) = Len(rx[f]) + 1
      /\ \A g \in Fds \ {f} : rx'[g] = rx[g]
  BY <1>1
<1>6. Pending[f] = Len(rx[f])  BY <1>3, PendingIs DEF WInv
<1>7. Pending' = [Pending EXCEPT ![f] = Pending[f] + 1]
  <2>1. /\ Pending = [g \in Fds |-> IF g \in Served THEN Len(rx[g]) ELSE 0]
        /\ Pending' = [g \in Fds |-> IF g \in Served THEN Len(rx'[g]) ELSE 0]
    BY <1>2, PendingIs, MappedNext DEF WInv
  <2>2. Pending' = [Pending EXCEPT ![f] = Len(rx'[f])]  BY <1>3, <1>5, <2>1
  <2> QED  BY <1>5, <1>6, <2>2
<1>8. Watch!Arrive(f)  BY <1>2, <1>4, <1>7 DEF Watch!Arrive, Stages, Pending
<1> QED  BY <1>8 DEF Watch!Next

LEMMA WatchEnvironment ==
  ASSUME WInv, WInv', Environment
  PROVE  [Watch!Next]_(Watch!vars)
<1>1. /\ Socks' = Socks /\ UNCHANGED <<table, conns, pc, cur, doDelete, status>>
      /\ Running
  BY EnvironmentKeepsSocks DEF WInv, Environment
<1>2. Due' = Due /\ Served' = Served  BY <1>1, DueSame DEF Served, Running
<1>3. CASE rx' = rx  BY <1>2, <1>3, WatchStutters DEF WInv
<1>4. CASE \E f \in Fds, m \in Message : ClientSend(f, m)  BY <1>1, <1>4, WatchSend
<1> QED
  BY <1>3, <1>4 DEF Environment, ClientConnect, ClientLeave, TimerAdvances

\* poll names sockets that are there, of connections the walk will come to.
LEMMA WatchPoll == ASSUME WInv, WInv', Running, Poll PROVE Watch!Next
<1>1. /\ pc = "poll" /\ UNCHANGED <<conns, kern, rx, status>>  BY DEF Poll, kernVars
<1>2. Due = {}  BY <1>1 DEF Due
<1>3. Served' = Served  BY <1>1 DEF Served, Socks, Running
<1>4. Due' \subseteq Served
  <2> SUFFICES ASSUME NEW f \in Fds, NEW k \in DOMAIN conns, conns[k].conn = f
               PROVE  f \in Served
    BY <1>1 DEF Due
  <2>1. kern[f] \in SockState  BY DEF WInv, LInv, Owners
  <2> QED  BY <2>1 DEF Served, Socks
<1>5. Stages' = Stages  BY <1>3, StagesAre, MappedNext DEF WInv
<1>6. Pending' = Pending  BY <1>1, <1>3, PendingIs, MappedNext DEF WInv
<1>7. Due' \in SUBSET Watch!Watched  BY <1>4, ServedWatched DEF WInv
<1>8. Watch!Report  BY <1>2, <1>5, <1>6, <1>7 DEF Watch!Report, Stages, Pending
<1> QED  BY <1>8 DEF Watch!Next

\* A new connection has no turn yet, and nobody else's is touched.
LEMMA DueEnlisted ==
  ASSUME WInv, Running, Running', pc = "accept",
         NEW sock \in Fds \cup {NoSock}, NEW timer \in Fds \cup {NoTimer},
         Enlisted(sock, timer)
  PROVE  Due' = Due
<1>1. /\ pc' = "conn" /\ pc # "timer" /\ cur' = cur /\ cur = 1
      /\ Flagged(table') = Flagged(table)
      /\ DOMAIN conns \subseteq DOMAIN conns' /\ \A j \in DOMAIN conns : conns'[j] = conns[j]
  BY DEF Enlisted
<1>2. ASSUME NEW j \in DOMAIN conns'
      PROVE  \/ j \in DOMAIN conns
             \/ conns'[j].conn = sock /\ conns'[j].timer = timer
  <2>1. \/ j \in DOMAIN conns
        \/ conns'[j] = [conn |-> sock, timer |-> timer]
    BY DEF Enlisted
  <2> QED  BY <2>1
<1>3. (sock \in Fds => sock \notin Flagged(table)) /\ timer \notin Flagged(table)
  BY FlaggedListed DEF Enlisted, WInv, Timely
<1>4. \A f : f \in Due <=> f \in Fds /\ Turn(f)  BY <1>1, DueIs
<1>5. \A f : f \in Due' <=> f \in Fds /\ Turn(f)'  BY <1>1, DueIs
<1>6. /\ \A j \in DOMAIN conns :
            HasTurn(j) <=> conns[j].timer \in Flagged(table) \/ conns[j].conn \in Flagged(table)
      /\ \A j \in DOMAIN conns' :
            HasTurn(j)' <=> conns'[j].timer \in Flagged(table) \/ conns'[j].conn \in Flagged(table)
  <2>1. Marks = Flagged(table) /\ Marks' = Flagged(table)  BY <1>1, MarksAre
  <2> QED  BY <1>1, <2>1 DEF HasTurn
<1>7. ASSUME NEW f \in Fds PROVE Turn(f)' <=> Turn(f)
  <2>1. ASSUME Turn(f) PROVE Turn(f)'
    <3>1. PICK k \in DOMAIN conns : k >= cur /\ conns[k].conn = f /\ HasTurn(k)
      BY <2>1 DEF Turn
    <3>2. k \in DOMAIN conns' /\ k >= cur' /\ conns'[k].conn = f /\ HasTurn(k)'
      BY <1>1, <1>6, <3>1
    <3> QED  BY <3>2 DEF Turn
  <2>2. ASSUME Turn(f)' PROVE Turn(f)
    <3>1. PICK k \in DOMAIN conns' : k >= cur' /\ conns'[k].conn = f /\ HasTurn(k)'
      BY <2>2 DEF Turn
    <3>2. k \in DOMAIN conns  BY <1>2, <1>3, <1>6, <3>1
    <3>3. k >= cur /\ conns[k].conn = f /\ HasTurn(k)  BY <1>1, <1>6, <3>1, <3>2
    <3> QED  BY <3>2, <3>3 DEF Turn
  <2> QED  BY <2>1, <2>2
<1> QED  BY <1>4, <1>5, <1>7

LEMMA WatchAccept ==
  ASSUME WInv, WInv', Running, Accept \/ AcceptFails
  PROVE  [Watch!Next]_(Watch!vars)
<1>1. PICK sock \in Fds \cup {NoSock}, timer \in Fds \cup {NoTimer} :
         (sock \in Fds => kern[sock] = "free") /\ Enlisted(sock, timer) /\ pc = "accept"
  BY AcceptEnlists DEF WInv
<1>2. CASE ~Running'  BY <1>2, WatchStops DEF WInv
<1>3. CASE Running'
  <2>1. Due' = Due  BY <1>1, <1>3, DueEnlisted
  <2>2. rx' = rx  BY <1>1 DEF Enlisted
  <2>3. Served' = Served \cup ({sock} \cap Fds)
    BY <1>1, <1>3, EnlistSocks DEF Served, WInv
  <2>4. CASE sock \notin Fds  BY <2>1, <2>2, <2>3, <2>4, WatchStutters DEF WInv
  <2>5. CASE sock \in Fds
    <3>1. sock \notin Served  BY <1>1, <2>5, States DEF Served, Socks
    <3>2. rx[sock] = <<>>  BY <1>1, <2>5, States DEF WInv, Timely
    <3>3. Stages' = [Stages EXCEPT ![sock] = "watched"]
      BY <2>3, <2>5, StagesAre, MappedNext DEF WInv
    <3>4. Pending' = Pending
      <4>1. Len(rx[sock]) = 0  BY <3>2
      <4>2. \A f \in Fds : (IF f \in Served' THEN Len(rx[f]) ELSE 0)
                             = (IF f \in Served THEN Len(rx[f]) ELSE 0)
        BY <2>3, <2>5, <3>1, <4>1
      <4> QED  BY <2>2, <4>2, PendingIs, MappedNext DEF WInv
    <3>5. Watch!Cardinality(Watch!Taken) < MaxFd
      <4>1. Served \subseteq Fds \ {sock} /\ Fds \ {sock} \subseteq Fds
        BY <3>1, ServedWatched DEF WInv
      <4>2. /\ IsFiniteSet(Fds \ {sock}) /\ Cardinality(Fds \ {sock}) = MaxFd - 1
        BY <2>5, FdsFinite, FS_RemoveElement
      <4>3. Cardinality(Served) <= MaxFd - 1 /\ Cardinality(Served) \in Nat
        BY <4>1, <4>2, FS_Subset, FS_CardinalityType
      <4>4. Cardinality(Served) < MaxFd  BY <4>3, MaxFdAssumption
      <4> QED  BY <4>4, SameCardinality, ServedWatched DEF WInv
    <3>6. Stages[sock] = "closed"  BY <2>5, <3>1, ServedWatched DEF WInv
    <3>7. Watch!Admit(sock)
      BY <2>1, <3>3, <3>4, <3>5, <3>6 DEF Watch!Admit, Watch!Become, Stages, Pending
    <3> QED  BY <2>5, <3>7 DEF Watch!Next
  <2> QED  BY <2>4, <2>5
<1> QED  BY <1>2, <1>3

\* An entry that is found has the mark of its number.
LEMMA FoundFlag ==
  ASSUME NEW t, Tab(t), NEW f \in Fds, FindFd(t, f) # 0
  PROVE  t.fds[FindFd(t, f)].revents <=> f \in Flagged(t)
<1>1. PICK a \in DOMAIN t.fds : a = FindFd(t, f) /\ t.fds[a].fd = f  BY FoundIsThere
<1>2. f \in Flagged(t) <=> \E b \in DOMAIN t.fds : t.fds[b].revents /\ t.fds[b].fd = f
  BY DEF Flagged
<1>3. \A b \in DOMAIN t.fds : t.fds[b].fd = f => b = a  BY <1>1 DEF Tab
<1> QED  BY <1>1, <1>2, <1>3

\* The list stays, and everyone in it keeps his turn but gone.
LEMMA DueWithout ==
  ASSUME UNCHANGED conns, Running, Running', pc # "poll", pc' # "poll", NEW gone,
         \A k \in DOMAIN conns : conns[k].conn \in Fds =>
            (k >= cur' /\ HasTurn(k)' <=> k >= cur /\ HasTurn(k) /\ conns[k].conn # gone)
  PROVE  Due' = Due \ {gone}
<1>1. \A f : f \in Due <=> f \in Fds /\ Turn(f)  BY DueIs
<1>2. \A f : f \in Due' <=> f \in Fds /\ Turn(f)'  BY DueIs
<1>3. ASSUME NEW f \in Fds PROVE Turn(f)' <=> Turn(f) /\ f # gone
  <2>1. Turn(f)' <=> \E k \in DOMAIN conns : k >= cur' /\ conns[k].conn = f /\ HasTurn(k)'
    BY DEF Turn
  <2> QED  BY <2>1 DEF Turn
<1> QED  BY <1>1, <1>2, <1>3

\* Steps of the walk that pass over whoever has no turn.
LEMMA WatchMoves ==
  ASSUME WInv, WInv', Running,
         NoAccept \/ AcceptFailsAgain \/ NoEvent \/ Keep \/ EndOfWalk
  PROVE  UNCHANGED Watch!vars
<1>1. UNCHANGED <<table, conns, doDelete, kern, rx, status>>
  BY DEF NoAccept, AcceptFailsAgain, NoEvent, Keep, EndOfWalk, kernVars
<1>2. Served' = Served  BY <1>1 DEF Served, Socks, Running
<1>3. /\ Running' /\ Marks = Flagged(table) /\ Marks' = Flagged(table)
      /\ LInv /\ Timely /\ Tab(table) /\ cur \in Nat
      /\ DOMAIN conns = 1..Len(conns) /\ Len(conns) \in Nat
  BY <1>1, MarksAre, ConnsDomain DEF WInv, LInv, LShape, Running
<1>4. ASSUME UNCHANGED cur, pc # "poll", pc' # "poll",
             \A k \in DOMAIN conns : conns[k].conn \in Fds => (HasTurn(k)' <=> HasTurn(k))
      PROVE  Due' = Due
  <2>1. \A k \in DOMAIN conns : conns[k].conn \in Fds =>
           (k >= cur' /\ HasTurn(k)' <=> k >= cur /\ HasTurn(k) /\ conns[k].conn # NoSock)
    BY <1>4, FdsArePositive
  <2>2. Due' = Due \ {NoSock}  BY <1>1, <1>3, <1>4, <2>1, DueWithout
  <2>3. NoSock \notin Due  BY FdsArePositive DEF Due
  <2> QED  BY <2>2, <2>3
<1>5. CASE NoAccept \/ AcceptFailsAgain
  <2>1. pc = "accept" /\ pc' = "conn" /\ UNCHANGED cur
    BY <1>5 DEF NoAccept, AcceptFailsAgain
  <2>2. \A k \in DOMAIN conns : HasTurn(k)' <=> HasTurn(k)  BY <1>1, <1>3, <2>1 DEF HasTurn
  <2>3. Due' = Due  BY <1>4, <2>1, <2>2
  <2> QED  BY <1>1, <1>2, <2>3, WatchStutters DEF WInv
<1>6. CASE NoEvent
  <2>1. /\ pc = "conn" /\ pc' = "timer" /\ UNCHANGED cur /\ ConnAt # 0
        /\ ~table.fds[ConnAt].revents /\ ~doDelete
    BY <1>3, <1>6 DEF NoEvent, AtConn, InWalk, Timely
  <2>2. ConnFd \in Fds => ConnFd \notin Marks  BY <1>3, <2>1, FoundFlag DEF ConnAt
  <2>3. \A k \in DOMAIN conns : conns[k].conn \in Fds => (HasTurn(k)' <=> HasTurn(k))
    BY <1>1, <1>3, <2>1, <2>2 DEF HasTurn, ConnFd
  <2>4. Due' = Due  BY <1>4, <2>1, <2>3
  <2> QED  BY <1>1, <1>2, <2>4, WatchStutters DEF WInv
<1>7. CASE Keep
  <2>1. /\ pc = "timer" /\ pc' = "conn" /\ cur' = cur + 1 /\ cur \in DOMAIN conns
        /\ ~doDelete /\ ~table.fds[TimerAt].revents /\ TimerAt # 0
    BY <1>3, <1>7 DEF Keep, InWalk, ToDelete, Timely, WInv, LInv, LShape
  <2>2. TimerFd \notin Marks
    <3>1. TimerFd \in Fds \cup {NoTimer}  BY <1>3, <2>1, ConnsDomain DEF LInv, TimerFd
    <3>2. CASE TimerFd \in Fds  BY <1>3, <2>1, <3>2, FoundFlag DEF TimerAt
    <3>3. CASE TimerFd = NoTimer  BY <1>3, <3>3 DEF Timely
    <3> QED  BY <3>1, <3>2, <3>3
  <2>3. ~HasTurn(cur)  BY <2>1, <2>2 DEF HasTurn, TimerFd
  <2>4. \A k \in DOMAIN conns \ {cur} : HasTurn(k)' <=> HasTurn(k)
    BY <1>1, <1>3, <2>1 DEF HasTurn
  <2>5. \A k \in DOMAIN conns : k >= cur' <=> k >= cur /\ k # cur  BY <1>3, <2>1
  <2>6. \A k \in DOMAIN conns : conns[k].conn \in Fds =>
           (k >= cur' /\ HasTurn(k)' <=> k >= cur /\ HasTurn(k) /\ conns[k].conn # NoSock)
    BY <2>3, <2>4, <2>5, FdsArePositive
  <2>7. Due' = Due \ {NoSock}  BY <1>1, <1>3, <2>1, <2>6, DueWithout
  <2>8. NoSock \notin Due  BY FdsArePositive DEF Due
  <2> QED  BY <1>1, <1>2, <2>7, <2>8, WatchStutters DEF WInv
<1>8. CASE EndOfWalk
  <2>1. pc' = "poll" /\ cur > Len(conns)  BY <1>8 DEF EndOfWalk
  <2>2. \A k \in DOMAIN conns : ~(k >= cur)  BY <1>3, <2>1
  <2>3. Due = {} /\ Due' = {}  BY <2>1, <2>2 DEF Due
  <2> QED  BY <1>1, <1>2, <2>3, WatchStutters DEF WInv
<1> QED  BY <1>5, <1>6, <1>7, <1>8

\* The connection the walk is at was received from, or has just been seen to
\* end: then its turn lasts until it is closed.
LEMMA DueRefreshed ==
  ASSUME WInv, Running, ConnEvent, NEW d \in BOOLEAN, Refresh(d)
  PROVE  /\ ConnFd \in Due
         /\ Due' = IF d THEN Due ELSE Due \ {ConnFd}
<1>1. /\ AtConn /\ ConnFd \in Fds /\ ConnAt # 0 /\ table.fds[ConnAt].revents
      /\ pc = "conn" /\ pc' = "timer" /\ doDelete' = d
      /\ UNCHANGED <<conns, cur, status>>
  BY DEF ConnEvent, AtConn, InWalk, Refresh
<1>2. /\ cur \in DOMAIN conns /\ cur \in Nat /\ Running' /\ Tab(table) /\ LInv /\ Timely
      /\ Marks = Flagged(table) /\ Marks' = Flagged(table')
  BY <1>1, RefreshKeepsSocks, MarksAre DEF WInv, LInv, LShape, Running
<1>3. /\ TimerAt \in DOMAIN table.fds /\ table.fds[TimerAt].fd = TimerFd
      /\ table' = [table EXCEPT !.fds = [table.fds EXCEPT ![TimerAt].revents = FALSE]]
  BY <1>1, <1>2, RefreshKeepsSocks
<1>4. Marks' \subseteq Marks /\ Marks \ {TimerFd} \subseteq Marks'
  BY <1>2, <1>3, TabClear
<1>5. TimerFd \notin Marks'
  <2>1. TimerFd \in Fds \cup {NoTimer}  BY <1>2, ConnsDomain DEF LInv, TimerFd
  <2>2. TimerFd \in Fds => TimerFd \notin Marks'  BY <1>2, <1>3, ClearUnmarks
  <2> QED  BY <1>2, <1>4, <2>1, <2>2 DEF Timely
<1>6. HasTurn(cur) /\ (HasTurn(cur)' <=> d)
  <2>1. ConnFd \in Marks  BY <1>1, <1>2, FoundFlag DEF ConnAt
  <2>2. HasTurn(cur)  BY <1>1, <2>1 DEF HasTurn, ConnFd
  <2>3. HasTurn(cur)' <=> d  BY <1>1, <1>5 DEF HasTurn, TimerFd
  <2> QED  BY <2>2, <2>3
<1>7. ASSUME NEW k \in DOMAIN conns, k # cur, conns[k].conn \in Fds
      PROVE  (HasTurn(k)' <=> HasTurn(k)) /\ conns[k].conn # ConnFd
  <2>1. conns[k].timer \in Marks' <=> conns[k].timer \in Marks
    <3>1. conns[k].timer \in Fds \cup {NoTimer}  BY <1>2, ConnsDomain DEF LInv
    <3>2. conns[k].timer \in Fds => conns[k].timer # TimerFd
      BY <1>2, <1>7 DEF LInv, Owners, TimerFd
    <3>3. NoTimer \notin Marks  BY <1>2 DEF Timely
    <3> QED  BY <1>4, <3>1, <3>2, <3>3
  <2>2. conns[k].conn \in Marks' <=> conns[k].conn \in Marks
    <3>1. conns[k].conn # TimerFd
      BY <1>2, <1>7, States DEF LInv, Owners, TimerFd
    <3> QED  BY <1>4, <3>1
  <2>3. conns[k].conn # ConnFd  BY <1>1, <1>2, <1>7 DEF LInv, Owners, ConnFd
  <2> QED  BY <1>1, <1>7, <2>1, <2>2, <2>3 DEF HasTurn
<1>8. ConnFd \in Due  BY <1>1, <1>2, <1>6 DEF Due, ConnFd
<1>9. CASE d
  <2>1. \A k \in DOMAIN conns : conns[k].conn \in Fds =>
           (k >= cur' /\ HasTurn(k)' <=> k >= cur /\ HasTurn(k) /\ conns[k].conn # NoSock)
    BY <1>1, <1>6, <1>7, <1>9, FdsArePositive
  <2>2. Due' = Due \ {NoSock}  BY <1>1, <1>2, <2>1, DueWithout
  <2>3. NoSock \notin Due  BY FdsArePositive DEF Due
  <2> QED  BY <1>8, <1>9, <2>2, <2>3
<1>10. CASE ~d
  <2>1. \A k \in DOMAIN conns : conns[k].conn \in Fds =>
           (k >= cur' /\ HasTurn(k)' <=> k >= cur /\ HasTurn(k) /\ conns[k].conn # ConnFd)
    BY <1>1, <1>6, <1>7, <1>10 DEF ConnFd
  <2>2. Due' = Due \ {ConnFd}  BY <1>1, <1>2, <2>1, DueWithout
  <2> QED  BY <1>8, <1>10, <2>2
<1> QED  BY <1>9, <1>10

LEMMA WatchEof == ASSUME WInv, WInv', Running, Eof PROVE UNCHANGED Watch!vars
<1>1. ConnEvent /\ Refresh(TRUE) /\ rx' = rx /\ AtConn  BY DEF Eof, ConnEvent
<1>2. Due' = Due  BY <1>1, DueRefreshed
<1>3. Served' = Served
  BY <1>1, RefreshKeepsSocks DEF WInv, Served, Refresh, Running
<1> QED  BY <1>1, <1>2, <1>3, WatchStutters DEF WInv

LEMMA WatchServe == ASSUME WInv, WInv', Running, Serve PROVE Watch!Next
<1>1. PICK f \in Fds : f = ConnFd  BY DEF Serve, ConnEvent
<1>2. ConnEvent /\ Refresh(FALSE) /\ AtConn  BY DEF Serve, ConnEvent
<1>3. f \in Due /\ Due' = Due \ {f}  BY <1>1, <1>2, DueRefreshed
<1>4. Served' = Served
  BY <1>2, RefreshKeepsSocks DEF WInv, Served, Refresh, Running
<1>5. f \in Served
  <2>1. kern[f] \in SockState
    BY <1>1, <1>2, RefreshKeepsSocks DEF WInv, LInv, Owners, ConnFd
  <2> QED  BY <2>1 DEF Served, Socks
<1>6. Stages' = Stages  BY <1>4, StagesAre, MappedNext DEF WInv
<1>7. PICK n \in 1..Len(rx[f]) :
         rx' = [rx EXCEPT ![f] = SubSeq(rx[f], n + 1, Len(rx[f]))]
  BY <1>1 DEF Serve
<1>8. rx \in [Fds -> Seq(Message)] /\ rx[f] \in Seq(Message) /\ Len(rx[f]) \in Nat
  <2>1. rx \in [Fds -> Seq(Message)]  BY DEF WInv, LInv, LShape
  <2> QED  BY <2>1, LenProperties
<1>9. Len(SubSeq(rx[f], n + 1, Len(rx[f]))) = Len(rx[f]) - n
  BY <1>7, <1>8
<1>10. Pending[f] = Len(rx[f])  BY <1>5, PendingIs DEF WInv
<1>11. Pending' = [Pending EXCEPT ![f] = Pending[f] - n]
  <2>1. /\ Pending = [g \in Fds |-> IF g \in Served THEN Len(rx[g]) ELSE 0]
        /\ Pending' = [g \in Fds |-> IF g \in Served THEN Len(rx'[g]) ELSE 0]
    BY <1>4, PendingIs, MappedNext DEF WInv
  <2>2. rx'[f] = SubSeq(rx[f], n + 1, Len(rx[f])) /\ \A g \in Fds \ {f} : rx'[g] = rx[g]
    BY <1>7, <1>8
  <2>3. Len(rx'[f]) = Pending[f] - n  BY <1>9, <1>10, <2>2
  <2> QED  BY <1>5, <2>1, <2>2, <2>3
<1>12. n \in 1..Pending[f]  BY <1>7, <1>10
<1>13. Watch!Receive(f)  BY <1>3, <1>6, <1>11, <1>12 DEF Watch!Receive, Stages, Pending
<1> QED  BY <1>13 DEF Watch!Next

\* The connection that is deleted had a turn, its own or its timer's, and
\* whoever moves up in the list keeps his.
LEMMA DueDeleted ==
  ASSUME WInv, Running, Delete
  PROVE  /\ ConnFd \in Fds => ConnFd \in Due
         /\ Due' = Due \ {ConnFd}
<1>1. /\ pc = "timer" /\ pc' = "conn" /\ cur' = cur /\ Running' /\ ToDelete
      /\ cur \in DOMAIN conns /\ cur \in Nat /\ LInv /\ Timely
      /\ Marks = Flagged(table) /\ Marks' = Flagged(table')
      /\ Marks' \subseteq Marks /\ Marks \ {ConnFd, TimerFd} \subseteq Marks'
  BY DeleteEffects, MarksAre DEF WInv, LInv, LShape, Running
<1>2. \A f : f \in Due <=> f \in Fds /\ Turn(f)  BY <1>1, DueIs
<1>3. \A f : f \in Due' <=> f \in Fds /\ Turn(f)'  BY <1>1, DueIs
<1>4. \A k : k # cur =>
         (HasTurn(k) <=> conns[k].timer \in Marks \/ conns[k].conn \in Marks)
  BY <1>1 DEF HasTurn
<1>5. \A k : HasTurn(k)' <=> conns'[k].timer \in Marks' \/ conns'[k].conn \in Marks'
  BY <1>1 DEF HasTurn
<1>6. /\ ConnFd \in Fds => kern[ConnFd] \in SockState
      /\ TimerFd \in Fds => kern[TimerFd] \in TimerState
  BY <1>1 DEF LInv, Owners, ConnFd, TimerFd
<1>7. ASSUME NEW m \in DOMAIN conns, m # cur, conns[m].conn \in Fds
      PROVE  /\ conns[m].conn \notin {ConnFd, TimerFd}
             /\ conns[m].timer \in Marks => conns[m].timer \in Marks'
             /\ conns[m].conn \in Marks => conns[m].conn \in Marks'
  <2>1. conns[m].conn # ConnFd /\ kern[conns[m].conn] \in SockState
    BY <1>1, <1>7 DEF LInv, Owners, ConnFd
  <2>2. conns[m].conn # TimerFd  BY <1>6, <1>7, <2>1, States
  <2>3. conns[m].timer \in Fds => conns[m].timer \notin {ConnFd, TimerFd}
    <3>1. conns[m].timer \in Fds => conns[m].timer # TimerFd
      BY <1>1, <1>7 DEF LInv, Owners, TimerFd
    <3>2. conns[m].timer \in Fds => kern[conns[m].timer] \in TimerState
      BY <1>7 DEF WInv, LInv, Owners
    <3> QED  BY <1>6, <3>1, <3>2, States
  <2>4. conns[m].timer \in Fds \cup {NoTimer} /\ NoTimer \notin Marks
    BY <1>1, <1>7, ConnsDomain DEF LInv, Timely
  <2> QED  BY <1>1, <2>1, <2>2, <2>3, <2>4
<1>8. ASSUME NEW f \in Fds, Turn(f)' PROVE Turn(f) /\ f # ConnFd
  <2>1. PICK j \in DOMAIN conns' : j >= cur /\ conns'[j].conn = f /\ HasTurn(j)'
    BY <1>1, <1>8 DEF Turn
  <2>2. PICK m \in DOMAIN conns : m # cur /\ conns'[j] = conns[m] /\ m > cur
    BY <1>1, <2>1, DeleteEffects
  <2>3. HasTurn(m)  BY <1>1, <1>4, <1>5, <2>1, <2>2
  <2>4. m >= cur
    <3>1. m \in Nat  BY <1>1, ConnsDomain DEF LInv
    <3> QED  BY <1>1, <2>2, <3>1
  <2> QED  BY <1>7, <2>1, <2>2, <2>3, <2>4 DEF Turn
<1>9. ASSUME NEW f \in Fds, Turn(f), f # ConnFd PROVE Turn(f)'
  <2>1. PICK m \in DOMAIN conns : m >= cur /\ conns[m].conn = f /\ HasTurn(m)
    BY <1>9 DEF Turn
  <2>2. m # cur /\ m > cur
    <3>1. m # cur  BY <1>9, <2>1 DEF ConnFd
    <3>2. m \in Nat  BY <1>1, ConnsDomain DEF LInv
    <3> QED  BY <1>1, <2>1, <3>1, <3>2
  <2>3. PICK j \in DOMAIN conns' : conns'[j] = conns[m] /\ j >= cur
    BY <1>1, <2>2, DeleteEffects
  <2>4. HasTurn(j)'  BY <1>4, <1>5, <1>7, <2>1, <2>2, <2>3
  <2> QED  BY <1>1, <2>1, <2>3, <2>4 DEF Turn
<1>10. Due' = Due \ {ConnFd}  BY <1>2, <1>3, <1>8, <1>9
<1>11. HasTurn(cur)
  <2>1. CASE doDelete  BY <1>1, <2>1 DEF HasTurn
  <2>2. CASE table.fds[TimerAt].revents
    <3>1. TimerAt \in DOMAIN table.fds /\ table.fds[TimerAt].fd = TimerFd
      BY <1>1, FoundIsThere DEF TimerAt, Timely
    <3>2. TimerFd \in Marks  BY <1>1, <2>2, <3>1 DEF Flagged
    <3> QED  BY <3>2 DEF HasTurn, TimerFd
  <2> QED  BY <1>1, <2>1, <2>2 DEF ToDelete
<1>12. ConnFd \in Fds => ConnFd \in Due
  BY <1>1, <1>2, <1>11 DEF Turn, ConnFd
<1> QED  BY <1>10, <1>12

LEMMA WatchDelete ==
  ASSUME WInv, WInv', Running, Delete
  PROVE  [Watch!Next]_(Watch!vars)
<1>1. PICK f : f = ConnFd  OBVIOUS
<1>2. /\ f \in Fds => f \in Due
      /\ Due' = Due \ {f}
  BY <1>1, DueDeleted
<1>3. /\ Served' = Served \ {f}
      /\ \A g \in Fds \ {f} : rx'[g] = rx[g]
  BY <1>1, DeleteEffects DEF WInv, Served, Running
<1>4. /\ Stages = [g \in Fds |-> IF g \in Served THEN "watched" ELSE "closed"]
      /\ Stages' = [g \in Fds |-> IF g \in Served' THEN "watched" ELSE "closed"]
      /\ Pending = [g \in Fds |-> IF g \in Served THEN Len(rx[g]) ELSE 0]
      /\ Pending' = [g \in Fds |-> IF g \in Served' THEN Len(rx'[g]) ELSE 0]
  BY StagesAre, PendingIs, MappedNext DEF WInv
<1>5. CASE f \in Fds
  <2>1. Stages' = [Stages EXCEPT ![f] = "closed"]  BY <1>3, <1>4, <1>5
  <2>2. Pending' = [Pending EXCEPT ![f] = 0]  BY <1>3, <1>4, <1>5
  <2>3. Watch!Drop(f)
    BY <1>2, <1>5, <2>1, <2>2
    DEF Watch!Drop, Watch!Become, Watch!Forget, Stages, Pending
  <2> QED  BY <1>5, <2>3 DEF Watch!Next
<1>6. CASE f \notin Fds
  <2>1. Due' = Due  BY <1>2, <1>6 DEF Due
  <2>2. Stages' = Stages  BY <1>3, <1>4, <1>6
  <2>3. Pending' = Pending  BY <1>3, <1>4, <1>6
  <2> QED  BY <2>1, <2>2, <2>3 DEF Watch!vars, Stages, Pending
<1> QED  BY <1>5, <1>6

LEMMA WatchInit == ASSUME Init PROVE Watch!Init
<1>1. Everyone /\ Running /\ pc = "poll" /\ \A f \in Fds : kern[f] = "free"
  BY EveryoneInit DEF Init, Running
<1>2. Served = {} /\ Due = {}  BY <1>1, States DEF Served, Socks, Due
<1>3. Stages = [f \in Fds |-> "closed"] /\ Pending = [f \in Fds |-> 0]
  BY <1>1, <1>2, StagesAre, PendingIs
<1> QED  BY <1>2, <1>3 DEF Watch!Init, Stages, Pending

LEMMA WatchNext == WInv /\ WInv' /\ [Next]_vars => [Watch!Next]_(Watch!vars)
<1> SUFFICES ASSUME WInv, WInv', [Next]_vars PROVE [Watch!Next]_(Watch!vars)  OBVIOUS
<1>1. CASE UNCHANGED vars
  <2>1. UNCHANGED <<table, conns, pc, cur, doDelete, status, kern, rx>>  BY <1>1 DEF vars
  <2>2. Due' = Due /\ Served' = Served  BY <2>1, DueSame DEF Served, Socks, Running
  <2> QED  BY <2>1, <2>2, WatchStutters DEF WInv
<1>2. CASE Environment  BY <1>2, WatchEnvironment
<1>3. CASE Running /\ Poll  BY <1>3, WatchPoll
<1>4. CASE Running /\ (Accept \/ AcceptFails)  BY <1>4, WatchAccept
<1>5. CASE Running /\ (NoAccept \/ AcceptFailsAgain \/ NoEvent \/ Keep \/ EndOfWalk)
  BY <1>5, WatchMoves
<1>6. CASE Running /\ Serve  BY <1>6, WatchServe
<1>7. CASE Running /\ Eof  BY <1>7, WatchEof
<1>8. CASE Running /\ Delete  BY <1>8, WatchDelete
<1>9. CASE Running /\ (PollFails \/ NotFound \/ SendFails \/ RecvFails)
  <2>1. ~Running'  BY <1>9 DEF PollFails, NotFound, SendFails, RecvFails, Running
  <2> QED  BY <1>9, <2>1, WatchStops DEF WInv
<1> QED
  BY <1>1, <1>2, <1>3, <1>4, <1>5, <1>6, <1>7, <1>8, <1>9 DEF Next, Server, Ended

\* The loop implements WatchSet, for any number of clients and descriptors
\* and whatever fails: every accepted socket is in the table and the list
\* until it is closed, and everyone poll named, by his socket or his timer,
\* has been received from or closed when poll is called again.
THEOREM AlwaysImplementsWatchSet == Spec => ImplementsWatchSet
  BY WatchInit, WatchNext, WatchAlways, PTL DEF Spec, ImplementsWatchSet, Watch!Spec
=============================================================================
