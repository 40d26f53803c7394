--------------------------- MODULE ReadinessProofs ---------------------------
(***************************************************************************)
(* What SslServerProofs shows of the TLS server, for the TLS server that   *)
(* MCReadiness composes with the select() server: its table has one entry  *)
(* for the listening socket and as many for clients as the other's.        *)
(***************************************************************************)
EXTENDS MCReadiness, TLAPS

Proved == INSTANCE SslServerProofs WITH
    pc <- sslPc, i <- sslI, status <- sslStatus,
    backlog <- sslBacklog, kern <- sslKern, rx <- sslRx,
    MaxConnection <- MaxConnection + 1

LEMMA Applies == Proved!Sized /\ Proved!BoundsAssumption
  BY MaxConnectionAssumption, BoundsAssumption DEF Proved!Sized, Proved!BoundsAssumption

\* Proved's operators are the instance's own, name by name.
LEMMA SameTables ==
  /\ Ssl!Fds = Proved!Fds /\ Ssl!ListenFd = Proved!ListenFd
  /\ Ssl!Slots = Proved!Slots
  /\ Ssl!NoFd = Proved!NoFd /\ Ssl!NoSession = Proved!NoSession
  /\ Ssl!Message = Proved!Message
  /\ Ssl!Running = Proved!Running
  /\ Ssl!Held = Proved!Held
  /\ Ssl!vars = Proved!vars
BY DEF Ssl!Fds, Proved!Fds, Ssl!ListenFd, Proved!ListenFd, Ssl!Slots, Proved!Slots,
       Ssl!NoFd, Proved!NoFd, Ssl!NoSession, Proved!NoSession,
       Ssl!Message, Proved!Message, Ssl!Running, Proved!Running,
       Ssl!Held, Proved!Held, Ssl!vars, Proved!vars,
       Ssl!tableVars, Proved!tableVars, Ssl!kernVars, Proved!kernVars

LEMMA SameInit == Ssl!Init => Proved!Init
BY SameTables DEF Ssl!Init, Proved!Init, Ssl!KernInit, Proved!KernInit

LEMMA SameClient == Ssl!Client <=> Proved!Client
BY DEF Ssl!Client, Proved!Client, Ssl!ClientConnect, Proved!ClientConnect,
       Ssl!ClientGreets, Proved!ClientGreets, Ssl!ClientSend,
       Proved!ClientSend, Ssl!ClientLeave, Proved!ClientLeave, Ssl!Cardinality,
       Proved!Cardinality, Ssl!Fds, Proved!Fds, Ssl!Message, Proved!Message,
       Ssl!Running, Proved!Running, Ssl!tableVars, Proved!tableVars,
       Ssl!kernVars, Proved!kernVars

LEMMA SameServer == Ssl!Server <=> Proved!Server
BY DEF Ssl!Server, Proved!Server, Ssl!Poll, Proved!Poll, Ssl!PollFails,
       Proved!PollFails, Ssl!EndScan, Proved!EndScan, Ssl!NotReady,
       Proved!NotReady, Ssl!Accept, Proved!Accept, Ssl!AcceptFull,
       Proved!AcceptFull, Ssl!AcceptFails, Proved!AcceptFails,
       Ssl!SslNewFails, Proved!SslNewFails,
       Ssl!HandshakeDone, Proved!HandshakeDone, Ssl!HandshakeFails,
       Proved!HandshakeFails, Ssl!Answer, Proved!Answer, Ssl!Disconnect,
       Proved!Disconnect, Ssl!WriteBreaksPipe, Proved!WriteBreaksPipe,
       Ssl!Compact, Proved!Compact, Ssl!Forget, Proved!Forget, Ssl!Closed,
       Proved!Closed, Ssl!Accepted, Proved!Accepted, Ssl!IsNewFd,
       Proved!IsNewFd, Ssl!Aborted, Proved!Aborted, Ssl!NoFdFree,
       Proved!NoFdFree, Ssl!Ready, Proved!Ready, Ssl!AtEntry, Proved!AtEntry,
       Ssl!AtClient, Proved!AtClient, Ssl!ScanOver, Proved!ScanOver,
       Ssl!Joining, Proved!Joining, Ssl!First, Proved!First, Ssl!Record,
       Proved!Record, Ssl!Fds, Proved!Fds, Ssl!ListenFd, Proved!ListenFd,
       Ssl!Slots, Proved!Slots, Ssl!NoFd, Proved!NoFd, Ssl!NoSession,
       Proved!NoSession, Ssl!Message, Proved!Message, Ssl!Running,
       Proved!Running, Ssl!tableVars, Proved!tableVars, Ssl!kernVars,
       Proved!kernVars

LEMMA SameVars == UNCHANGED Ssl!vars <=> UNCHANGED Proved!vars
BY DEF Ssl!vars, Proved!vars, Ssl!tableVars, Proved!tableVars, Ssl!kernVars, Proved!kernVars

LEMMA SameNext == [RunSelect \/ RunSsl]_allVars => [Proved!Next]_Proved!vars
<1>1. Ssl!Ended <=> Proved!Ended  BY SameVars, SameTables DEF Ssl!Ended, Proved!Ended
<1>2. Ssl!Next => Proved!Next
  BY <1>1, SameClient, SameServer DEF Ssl!Next, Proved!Next
<1>3. RunSelect \/ UNCHANGED allVars => UNCHANGED Ssl!vars
  BY DEF RunSelect, allVars, sslVars, Ssl!vars, Ssl!tableVars, Ssl!kernVars
<1> QED  BY <1>2, <1>3, SameVars DEF RunSsl

\* Every behaviour of the composition is one of the TLS server.
LEMMA RunsServer == MCSpec => Proved!Spec
<1>1. MCInit => Proved!Init  BY SameInit DEF MCInit
<1> QED  BY <1>1, SameNext, PTL DEF MCSpec, Proved!Spec

\* Descriptors and TLS sessions stay in step, through handshakes that fail,
\* compaction and the reuse of entries and numbers.
THEOREM AlwaysSslSessionsMatch == MCSpec => []SslSessionsMatch
<1>1. Proved!SessionsMatch => SslSessionsMatch
  BY SameTables DEF SslSessionsMatch, Ssl!SessionsMatch, Proved!SessionsMatch
<1> QED  BY <1>1, RunsServer, Applies, Proved!AlwaysSessionsMatch, PTL

\* A TLS client that is still connected is only disconnected for what it
\* said: a handshake that failed, exit, quit, or something that is no record of
\* data.
THEOREM AlwaysSslDisconnectsJustified == MCSpec => SslDisconnectsJustified
<1>1. Proved!DisconnectsJustified => SslDisconnectsJustified
  BY SameTables
  DEF SslDisconnectsJustified, Ssl!DisconnectsJustified, Proved!DisconnectsJustified,
      Ssl!First, Proved!First, Ssl!vars, Proved!vars, Ssl!tableVars, Proved!tableVars,
      Ssl!kernVars, Proved!kernVars, Ssl!Running, Proved!Running, Ssl!Fds, Proved!Fds
<1> QED  BY <1>1, RunsServer, Applies, Proved!AlwaysDisconnectsJustified, PTL

\* The TLS server implements WatchSet beside the select() server.
THEOREM AlwaysSslImplementsWatchSet == MCSpec => SslImplementsWatchSet
<1>1. Proved!Watch!Init => Ssl!Watch!Init
  BY DEF Ssl!Watch!Init, Proved!Watch!Init, Ssl!Fds, Proved!Fds,
         Ssl!StageOf, Proved!StageOf, Ssl!Polled, Proved!Polled,
         Ssl!Joining, Proved!Joining, Ssl!Due, Proved!Due
<1>2. [Proved!Watch!Next]_Proved!Watch!vars => [Ssl!Watch!Next]_Ssl!Watch!vars
  BY DEF Ssl!Watch!Next, Proved!Watch!Next, Ssl!Watch!vars, Proved!Watch!vars,
         Ssl!Watch!Admit, Proved!Watch!Admit, Ssl!Watch!Join, Proved!Watch!Join,
         Ssl!Watch!Strand, Proved!Watch!Strand, Ssl!Watch!Receive, Proved!Watch!Receive,
         Ssl!Watch!Drop, Proved!Watch!Drop, Ssl!Watch!Report, Proved!Watch!Report,
         Ssl!Watch!Stop, Proved!Watch!Stop, Ssl!Watch!Arrive, Proved!Watch!Arrive,
         Ssl!Watch!Forget, Proved!Watch!Forget, Ssl!Watch!Become, Proved!Watch!Become,
         Ssl!Watch!Taken, Proved!Watch!Taken, Ssl!Watch!Watched, Proved!Watch!Watched,
         Ssl!Watch!Cardinality, Proved!Watch!Cardinality, Ssl!Fds, Proved!Fds,
         Ssl!StageOf, Proved!StageOf, Ssl!Polled, Proved!Polled,
         Ssl!Joining, Proved!Joining, Ssl!Due, Proved!Due
<1>3. Proved!ImplementsWatchSet => SslImplementsWatchSet
  BY <1>1, <1>2, PTL
  DEF SslImplementsWatchSet, Ssl!ImplementsWatchSet, Proved!ImplementsWatchSet,
      Ssl!Watch!Spec, Proved!Watch!Spec
<1> QED  BY <1>3, RunsServer, Applies, Proved!AlwaysImplementsWatchSet, PTL
=============================================================================
