------------------------------ MODULE HttpFetch ------------------------------
(***************************************************************************)
(* The programs that fetch a page:                                         *)
(*   "07"     00_tutorials/07_http_redirection.c: perform_http_request,    *)
(*            called by main several times, and by itself to follow a      *)
(*            redirection                                                  *)
(*   "06"     00_tutorials/06_receive_http_response.c                      *)
(*   "plain"  my_code/http_client/main.c                                   *)
(*   "https"  01_networking_libraries/openssl/src/https_client.c           *)
(* Data is counted in units.  The page arrives in pieces of any size, and  *)
(* the connection may break between two of them.                           *)
(***************************************************************************)
EXTENDS Naturals, Sequences

CONSTANTS
    MaxRedirection,    \* MAX_REDIRECTION
    MaxFetches,        \* bound: calls of perform_http_request by main
    Request,           \* units of a request
    Page,              \* units of a page
    Buffer             \* units http_response holds

VARIABLES
    program,
    fetches,      \* calls main has made
    frame,        \* redirect_count of the innermost call
    requests,     \* calls in all, and so the name of the innermost one
    pc,           \* "main", "send" or "recv"
    open,         \* sockets, each with its addrinfo list, not released
    sent,         \* units of the request sent
    left,         \* units of the page not received yet
    broken,       \* history: the connection broke in this call
    buffer,       \* http_response: which units of the page
    response,     \* what main prints: units, each with its call's name
    result,       \* of the last call: "unknown", "ok" or "not found"
    followed      \* history: redirections followed

vars == <<program, fetches, frame, requests, pc, open, sent, left, broken,
          buffer, response, result, followed>>

Programs == {"06", "07", "plain", "https"}

Init ==
    /\ program \in Programs
    /\ fetches = 0 /\ frame = 0 /\ requests = 0
    /\ pc = "main"
    /\ open = 0
    /\ sent = 0 /\ left = 0 /\ broken = FALSE
    /\ buffer = << >> /\ response = << >>
    /\ result = "unknown"
    /\ followed = 0

\* http_client prints what it receives as it comes.
Room == IF program = "plain" THEN Page - Len(buffer) ELSE Buffer - Len(buffer)

-----------------------------------------------------------------------------
(* One call, at redirection n.                                             *)

\* Every redirection on the stack returns with it, and releases nothing.
Return(r) == pc' = "main" /\ result' = r

\* (Slip: the limit is tested one call late.)
LateLimit(n) == n <= MaxRedirection + 1

WithinLimit(n) == n <= MaxRedirection

Connected(n) ==
    /\ open' = open + 1
    /\ pc' = "send"
    /\ frame' = n
    /\ requests' = requests + 1
    /\ sent' = 0 /\ left' = Page /\ broken' = FALSE
    /\ buffer' = << >>
    /\ UNCHANGED result

\* What was acquired before a failing step is released (Startup).
Unreachable(n) ==
    /\ Return("unknown")
    /\ frame' = n
    /\ UNCHANGED <<open, requests, sent, left, broken, buffer>>

TooManyRedirections(n) ==
    /\ Return("not found")
    /\ frame' = n
    /\ UNCHANGED <<open, requests, sent, left, broken, buffer>>

Call(n) ==
    \/ WithinLimit(n) /\ (Connected(n) \/ Unreachable(n))
    \/ ~WithinLimit(n) /\ TooManyRedirections(n)

Fetch ==
    /\ pc = "main"
    /\ fetches < (IF program = "07" THEN MaxFetches ELSE 1)
    /\ fetches' = fetches + 1
    /\ Call(0)
    /\ UNCHANGED <<program, response, followed>>

\* 06 and 07 send until everything is sent, http_client and https once.
Send ==
    /\ pc = "send"
    /\ IF sent < Request
       THEN /\ \E n \in 1..Request - sent :
                  sent' = IF program \in {"06", "07"} THEN sent + n ELSE Request
            /\ UNCHANGED pc
       ELSE pc' = "recv" /\ UNCHANGED sent
    /\ UNCHANGED <<program, fetches, frame, requests, open, left, broken,
                   buffer, response, result, followed>>

SendFails ==
    /\ pc = "send" /\ sent < Request
    /\ open' = open - 1
    /\ Return("unknown")
    /\ UNCHANGED <<program, fetches, frame, requests, sent, left, broken,
                   buffer, response, followed>>

\* (Slip: every recv writes to the start of the buffer.)
StoreAtStart(piece) ==
    buffer' = piece \o SubSeq(buffer, Len(piece) + 1, Len(buffer))

Store(piece) == buffer' = buffer \o piece

Receive ==
    /\ pc = "recv"
    /\ \E n \in 1..left :
          /\ n <= Room
          /\ Store([k \in 1..n |-> Page - left + k])
          /\ left' = left - n
    /\ UNCHANGED <<program, fetches, frame, requests, pc, open, sent, broken,
                   response, result, followed>>

\* recv into a full buffer asks for nothing, and returns 0 like the end.
AtEnd == left = 0 \/ Room = 0

\* recv fails: http_client exits, the others take it for the end.
Break ==
    /\ pc = "recv" /\ ~broken
    /\ broken' = TRUE
    /\ IF program = "plain"
       THEN Return("unknown") /\ open' = open - 1
       ELSE UNCHANGED <<pc, open, result>>
    /\ UNCHANGED <<program, fetches, frame, requests, sent, left, buffer,
                   response, followed>>

\* memcpy of the bytes received: what an earlier call left behind them stays.
Copied ==
    LET new == [k \in 1..Len(buffer) |-> <<requests, buffer[k]>>]
    IN  response' = new \o SubSeq(response, Len(new) + 1, Len(response))

ReturnPage ==
    /\ pc = "recv" /\ (AtEnd \/ broken)
    /\ open' = open - 1
    /\ IF program = "06" /\ buffer = << >>
       THEN Return("unknown") /\ UNCHANGED response
       ELSE Return("ok") /\ Copied
    /\ UNCHANGED <<program, fetches, frame, requests, sent, left, broken,
                   buffer, followed>>

\* The page says 301 and names a location: the call is made for that, and
\* its result returned before this call's list and socket are released.
Redirect ==
    /\ program = "07"
    /\ pc = "recv" /\ (AtEnd \/ broken)
    /\ buffer # << >>
    /\ Copied
    /\ followed' = followed + 1
    /\ Call(frame + 1)
    /\ UNCHANGED <<program, fetches>>

\* The page breaks off: no more of it is received.
Next ==
    \/ Fetch
    \/ Send \/ SendFails
    \/ (~broken /\ Receive) \/ Break
    \/ ReturnPage \/ Redirect

Spec == Init /\ [][Next]_vars

-----------------------------------------------------------------------------
(* What a fetch promises.                                                  *)

\* Between two calls nothing is open but what followed redirections left, one
\* socket and list for each (07: line 140), on no path more; and one call of
\* main leaves at most MAX_REDIRECTION + 1 of them (07: line 28).
FetchReleases ==
    /\ open = followed + (IF pc = "main" THEN 0 ELSE 1)
    /\ followed <= fetches * (MaxRedirection + 1)

\* A fetch that reports success has put out the page received last, from its
\* first unit on and in order: all of it, as much as fits the buffer, or what
\* came before the connection broke (06: 82-95; 07: 112-124; https: 172-185).
\* Behind it 07 may print what an earlier call left.
FetchIsPrefix ==
    pc = "main" /\ result = "ok" =>
       \E n \in 0..Len(response) :
          /\ \A k \in 1..n : response[k] = <<requests, k>>
          /\ \A k \in n + 1..Len(response) : response[k][1] # requests
          /\ n = Page \/ n = Buffer \/ broken
=============================================================================
