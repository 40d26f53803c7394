------------------------------- MODULE FdTable -------------------------------
(***************************************************************************)
(* The growing pollfd table of the event server                            *)
(* (my_code/simple_non_blocking_tcp_server_client/server_fd.h): pure       *)
(* operations on a record [fds |-> entries, size |-> capacity].  An entry  *)
(* is [fd |-> number, revents |-> whether poll reported an event]; the     *)
(* source's index i is index i + 1 here, and 0 stands for "not found".     *)
(***************************************************************************)
EXTENDS Integers, SequencesExt

CONSTANT InitialSize      \* the size init_fds_queue allocates (16)

\* insert_fd compares len with size - 1, so a table of one never grows.
ASSUME InitialSizeAssumption == InitialSize \in Nat /\ InitialSize >= 2

PollfdBytes == 8          \* sizeof(struct pollfd)

Entry(fd) == [fd |-> fd, revents |-> FALSE]

EmptyTable == [fds |-> <<>>, size |-> InitialSize]

\* (Slip: the table grows only after an entry was written past its end.)
FullLate(t) == Len(t.fds) > t.size

Full(t) == Len(t.fds) = t.size - 1

\* insert_fd, when realloc has the memory.
InsertFd(t, fd) ==
    [fds |-> Append(t.fds, Entry(fd)),
     size |-> IF Full(t) THEN 2 * t.size ELSE t.size]

Matches(t, fd) == {i \in DOMAIN t.fds : t.fds[i].fd = fd}

\* The first entry with that number.
FindFd(t, fd) ==
    LET first == {i \in Matches(t, fd) : \A j \in Matches(t, fd) : i <= j}
    IN  IF first = {} THEN 0 ELSE CHOOSE i \in first : TRUE

\* remove_fd searches from the end, and never takes the listening socket.
Removable(t, fd) ==
    LET last == {i \in Matches(t, fd) : i > 1 /\ \A j \in Matches(t, fd) : j <= i}
    IN  IF last = {} THEN 0 ELSE CHOOSE i \in last : TRUE

\* The shrink test of remove_fd compares entries with bytes.
SizeAfterRemove(len, size) ==
    LET bytes == size * PollfdBytes
    IN  IF len > bytes \div 2 /\ bytes % 2 = 0 THEN bytes \div 2 ELSE size

\* (Slip: without the i++, the entry before the one found is overwritten.)
RemoveEntryBefore(fds, i) == RemoveAt(fds, i - 1)

\* (Slip: the last entry's fd moves into the hole, its revents do not.)
RemoveEntryBySwap(fds, i) ==
    SubSeq([fds EXCEPT ![i].fd = fds[Len(fds)].fd], 1, Len(fds) - 1)

\* The entries after the hole move up, with their revents.
RemoveEntry(fds, i) == RemoveAt(fds, i)

RemoveFd(t, fd) ==
    LET i == Removable(t, fd)
    IN  IF i = 0 THEN t
        ELSE [fds |-> RemoveEntry(t.fds, i),
              size |-> SizeAfterRemove(Len(t.fds) - 1, t.size)]

\* What poll writes: revents of every entry, given the descriptors that are
\* ready.
SetRevents(t, ready) ==
    [t EXCEPT !.fds =
        [i \in DOMAIN @ |-> [fd |-> @[i].fd, revents |-> @[i].fd \in ready]]]
=============================================================================
