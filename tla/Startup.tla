------------------------------ MODULE Startup ------------------------------
(***************************************************************************)
(* How the programs start: a chain of calls, each of which acquires        *)
(* something or prepares what was acquired, and each with a branch of its  *)
(* own that releases what there is so far and gives up.  The branches were *)
(* written one by one in every program, and each is run only on a failure  *)
(* nobody can cause at will.  The broadcast threads and the TLS server     *)
(* have a call without one, whose NULL they go on to write through.        *)
(***************************************************************************)
EXTENDS Naturals, Sequences

\* What is held: the addrinfo list, the socket, the TLS context and session,
\* a broadcast_t from calloc.
Resources == {"addr", "sock", "ctx", "ssl", "info"}

\* A call that acquires gets, or fails, releases frees, and gives up.
Step(call, gets, frees) ==
    [call |-> call, gets |-> gets, frees |-> frees, onFailure |-> "gives up"]

\* A call whose failure is at most reported.
Ignored(call) == [call |-> call, gets |-> {}, frees |-> {}, onFailure |-> "goes on"]

\* A call whose result is used without a look at it.
Untested(call, gets) ==
    [call |-> call, gets |-> gets, frees |-> {}, onFailure |-> "crashes"]

-----------------------------------------------------------------------------
(* The programs, the chains many of them share first.                      *)

Opens == << Step("getprotobyname", {}, {}),
            Step("getaddrinfo", {"addr"}, {}),
            Step("socket", {"sock"}, {"addr"}) >>

\* (Slip: the failing bind keeps the socket.)
BindsLeaky == << Step("bind", {}, {"addr"}) >>

Binds == << Step("bind", {}, {"addr", "sock"}) >>

Listens(options) ==
    Opens \o options \o Binds \o << Step("listen", {}, {"addr", "sock"}) >>

Connects == Opens \o << Step("connect", {}, {"addr", "sock"}) >>

Server08 == Listens(<< Ignored("setsockopt") >>)
Server09 == Listens(<< Ignored("setsockopt") >>)
Server11 == Listens(<< Ignored("fcntl") >>)
Server12 == Listens(<< Ignored("fcntl") >>)
Server13 == Listens(<< Ignored("fcntl") >>)
HttpSetup == Listens(<< Ignored("fcntl") >>)

Client08 == Connects
Client09 == Connects
Client11 == Connects
Client12 == Connects
Client13 == Connects

Server10 == Opens \o Binds
Client10 == Opens

\* perform_http_request also asks for the port.
Fetch07 == << Step("getprotobyname", {}, {}),
              Step("getservbyname", {}, {}) >>
              \o SubSeq(Connects, 2, Len(Connects))

ServerSsl ==
    Listens(<< Ignored("fcntl"), Ignored("setsockopt") >>)
    \o << Step("SSL_CTX_new", {"ctx"}, {"addr", "sock"}),
          Step("SSL_CTX_use_certificate_file", {}, {"ctx", "addr", "sock"}),
          Step("SSL_CTX_use_PrivateKey_file", {}, {"ctx", "addr", "sock"}),
          Untested("SSL_new", {"ssl"}) >>

Handshake ==
    << Step("SSL_CTX_new", {"ctx"}, {"addr", "sock"}),
       Step("SSL_new", {"ssl"}, {"ctx", "addr", "sock"}),
       Step("SSL_connect", {}, {"addr", "sock", "ctx", "ssl"}) >>

\* A connect that fails releases nothing.
ClientSsl == Opens \o << Step("connect", {}, {}) >> \o Handshake

\* Neither does a socket.
Https == << Step("getprotobyname", {}, {}),
            Step("getaddrinfo", {"addr"}, {}),
            Step("socket", {"sock"}, {}),
            Step("connect", {}, {}) >> \o Handshake

\* The setup functions write what socket returns through calloc's pointer; when
\* they return -1, the threads return.
Receiver14 == << Untested("calloc", {"info"}),
                 Step("socket", {"sock"}, {}),
                 Step("setsockopt", {}, {}),
                 Step("bind", {}, {}) >>

Sender14 == << Untested("calloc", {"info"}),
               Step("socket", {"sock"}, {}),
               Step("setsockopt", {}, {}) >>

Programs == [
    server08 |-> Server08, server09 |-> Server09, server10 |-> Server10,
    server11 |-> Server11, server12 |-> Server12, server13 |-> Server13,
    client08 |-> Client08, client09 |-> Client09, client10 |-> Client10,
    client11 |-> Client11, client12 |-> Client12, client13 |-> Client13,
    http |-> HttpSetup, fetch07 |-> Fetch07, https |-> Https,
    serverSsl |-> ServerSsl, clientSsl |-> ClientSsl,
    receiver14 |-> Receiver14, sender14 |-> Sender14]

-----------------------------------------------------------------------------
VARIABLES
    name,      \* of the program
    at,        \* calls made
    held,      \* acquired, and not released
    state      \* "starting", "ready", "failed", or "crashed"

vars == <<name, at, held, state>>

Init ==
    /\ name \in DOMAIN Programs
    /\ at = 0 /\ held = {}
    /\ state = "starting"

Chain == Programs[name]
Call == Chain[at + 1]

Done(n) == IF n = Len(Chain) THEN "ready" ELSE "starting"

Succeeds ==
    /\ state = "starting"
    /\ held' = held \cup Call.gets
    /\ at' = at + 1
    /\ state' = Done(at + 1)
    /\ UNCHANGED name

Fails ==
    /\ state = "starting"
    /\ Call.onFailure = "gives up"
    /\ held' = held \ Call.frees
    /\ state' = "failed"
    /\ UNCHANGED <<name, at>>

FailsAndGoesOn ==
    /\ state = "starting"
    /\ Call.onFailure = "goes on"
    /\ at' = at + 1
    /\ state' = Done(at + 1)
    /\ UNCHANGED <<name, held>>

\* NULL is dereferenced.
Crashes ==
    /\ state = "starting"
    /\ Call.onFailure = "crashes"
    /\ state' = "crashed"
    /\ UNCHANGED <<name, at, held>>

Next == Succeeds \/ Fails \/ FailsAndGoesOn \/ Crashes

Spec == Init /\ [][Next]_vars

-----------------------------------------------------------------------------
(* What a start promises.                                                  *)

\* The failures that do leave something behind: both TLS clients when they
\* cannot connect, the HTTPS client without a socket, and every failure the
\* broadcast threads' setup reports.
Leaks == {<<"clientSsl", "connect">>, <<"https", "socket">>, <<"https", "connect">>,
          <<"receiver14", "socket">>, <<"receiver14", "setsockopt">>, <<"receiver14", "bind">>,
          <<"sender14", "socket">>, <<"sender14", "setsockopt">>}

\* The failures no branch is there for.
Uncaught == {<<"receiver14", "calloc">>, <<"sender14", "calloc">>, <<"serverSsl", "SSL_new">>}

\* A start that gave up holds nothing, wherever it failed, but for the failures
\* Leaks lists, which do leave something; only a failure in
\* Uncaught brings a start down; no branch releases what was never acquired;
\* and a program that is ready holds a socket.
FailsClean ==
    /\ state = "failed" => (held # {} <=> <<name, Call.call>> \in Leaks)
    /\ state = "crashed" => <<name, Call.call>> \in Uncaught
    /\ state = "starting" => Call.frees \subseteq held
    /\ state = "ready" => "sock" \in held
=============================================================================
