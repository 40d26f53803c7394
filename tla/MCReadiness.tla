----------------------------- MODULE MCReadiness -----------------------------
(***************************************************************************)
(* SelectServer and SslServer, each with clients of its own.  A behaviour  *)
(* runs one of the two programs and leaves the other's state alone.        *)
(***************************************************************************)
EXTENDS SelectServer

VARIABLES
    program,
    \* the TLS server's state
    fds, arr_ssl, revents, nfds, sslPc, sslI, hello, sslStatus,
    sslBacklog, sslKern, sslRx

sslVars == <<fds, arr_ssl, revents, nfds, sslPc, sslI, hello, sslStatus,
             sslBacklog, sslKern, sslRx>>
allVars == <<program, vars, sslVars>>

Ssl == INSTANCE SslServer WITH
    pc <- sslPc, i <- sslI, status <- sslStatus,
    backlog <- sslBacklog, kern <- sslKern, rx <- sslRx,
    MaxConnection <- MaxConnection + 1

MCInit == program \in {"select", "ssl"} /\ Init /\ Ssl!Init

RunSelect == program = "select" /\ Next /\ UNCHANGED <<program, sslVars>>
RunSsl == program = "ssl" /\ Ssl!Next /\ UNCHANGED <<program, vars>>

MCSpec ==
    /\ MCInit /\ [][RunSelect \/ RunSsl]_allVars
    /\ WF_allVars(program = "select" /\ Server /\ UNCHANGED <<program, sslVars>>)
    /\ WF_allVars(program = "ssl" /\ Ssl!Server /\ UNCHANGED <<program, vars>>)

\* Descriptors and TLS sessions stay in step through handshakes that fail,
\* compaction and reuse of entries (ssl_client_server.c 242-263, 286-291).
SslSessionsMatch == Ssl!SessionsMatch

\* Nobody who is still connected is disconnected but for what it said: a
\* handshake that failed (ssl_client_server.c 247-258), or what ends its
\* session; never for having sent nothing (271-282).
SslDisconnectsJustified == Ssl!DisconnectsJustified

\* A watched TLS client's request is read, unless the loop waits inside a
\* silent client's handshake (ssl_client_server.c 247).
SslRequestsRead == Ssl!RequestsRead

\* The TLS server, too, implements WatchSet.
SslImplementsWatchSet == Ssl!ImplementsWatchSet
=============================================================================
