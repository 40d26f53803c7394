------------------------------- MODULE MCHttp -------------------------------
(***************************************************************************)
(* HttpServer, the fetching programs and every program's start, one per    *)
(* behaviour, each with variables of its own.                              *)
(***************************************************************************)
EXTENDS HttpServer

CONSTANTS MaxRedirection, MaxFetches, Request, Page, Buffer

ASSUME FetchBounds == {MaxRedirection, MaxFetches, Request, Page, Buffer} \subseteq Nat

VARIABLES
    part,      \* the module that runs
    \* HttpFetch
    program, fetches, frame, requests, fetchPc, open, sent, left, broken,
    buffer, response, result, followed,
    \* Startup
    name, at, held, state

fetchVars == <<program, fetches, frame, requests, fetchPc, open, sent, left, broken,
               buffer, response, result, followed>>
startVars == <<name, at, held, state>>
allVars == <<part, vars, fetchVars, startVars>>

Fetches == INSTANCE HttpFetch WITH pc <- fetchPc
Start == INSTANCE Startup

MCInit ==
    /\ part \in {"server", "fetch", "start"}
    /\ Init /\ Fetches!Init /\ Start!Init
    /\ part # "server" => ~garbage /\ ~revents[0]
    /\ part # "fetch" => program = "07"
    /\ part # "start" => name = "http"

RunServer == part = "server" /\ Next /\ UNCHANGED <<part, fetchVars, startVars>>
RunFetch == part = "fetch" /\ Fetches!Next /\ UNCHANGED <<part, vars, startVars>>
RunStart == part = "start" /\ Start!Next /\ UNCHANGED <<part, vars, fetchVars>>

MCSpec == MCInit /\ [][RunServer \/ RunFetch \/ RunStart]_allVars

\* A fetch releases what it acquired, but one socket and address list per
\* redirection it followed (07_http_redirection.c 28, 75-82, 102-108, 140-146).
FetchReleases == Fetches!FetchReleases

\* A successful fetch puts out the page it received (07: 112-124).
FetchIsPrefix == Fetches!FetchIsPrefix

\* A start that gives up leaves nothing behind but where Leaks says so (08:
\* 54-93, and the starts like it), and crashes but where Uncaught says so (14:
\* 102, 136; ssl_client_server.c 198).
FailsClean == Start!FailsClean
=============================================================================
