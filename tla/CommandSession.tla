---------------------------- MODULE CommandSession ----------------------------
(***************************************************************************)
(* One command client and the server's side of its connection: the client  *)
(* sends a line, waits in recv for the answer, and asks for the next line. *)
(* The tutorials repeat that loop with small differences, which the        *)
(* records below hold; the actions are the loop they share.                *)
(*                                                                         *)
(* TCP keeps the bytes in order and nothing else: what one send wrote may  *)
(* arrive in two parts, and a recv that takes one of them takes it for all *)
(* there is.                                                               *)
(***************************************************************************)
EXTENDS Naturals, Sequences

CONSTANT MaxRequests    \* bound: lines typed

VARIABLES
    program,    \* which tutorial runs, at both ends
    client,     \* "typing", "waiting", "done", or "killed" by SIGPIPE
    line,       \* the line typed last
    asked,      \* the requests sent, and so the number of the last one
    shown,      \* the request whose answer was printed last
    up, down,   \* parts on their way, to the server and to the client
    server,     \* "serving", "closed", or "left" without closing
    reset,      \* the server's side has answered data with a reset
    split       \* history: something arrived in two parts

vars == <<program, client, line, asked, shown, up, down, server, reset, split>>

Lines == {"", "time", "exit", "shutdown"}    \* quit is treated as exit

-----------------------------------------------------------------------------
(* The programs.  leaves: the lines that end the client's loop; asksFirst: *)
(* whether it looks for them before it sends; empty: what it does with an  *)
(* empty line; errors: what it does when recv fails.                       *)

Client08 == [leaves |-> {"exit", "shutdown"}, asksFirst |-> FALSE,
             empty |-> "ask again", errors |-> "go on"]

\* A send of nothing returns 0, which is what was asked for.
Client09 == [leaves |-> {"exit", "shutdown"}, asksFirst |-> FALSE,
             empty |-> "wait", errors |-> "go on"]

Client12 == [leaves |-> {"exit", "shutdown"}, asksFirst |-> FALSE,
             empty |-> "wait", errors |-> "go on"]

Client13 == [leaves |-> {"exit", "shutdown"}, asksFirst |-> FALSE,
             empty |-> "wait", errors |-> "go on"]

\* SSL_write of nothing fails.
ClientSsl == [leaves |-> {"exit", "shutdown"}, asksFirst |-> TRUE,
              empty |-> "ask again", errors |-> "go on"]

\* It sends the time over and over, and nobody types.
Client11 == [leaves |-> {}, asksFirst |-> FALSE,
             empty |-> "never typed", errors |-> "leave"]

(* ends: the requests after which the server closes; atEof: what it does   *)
(* when the client has closed.                                             *)

\* (Slip: shutdown is not one of them.)
Server08NoShutdown == [ends |-> {"exit"}, atEof |-> "left"]

Server08 == [ends |-> {"exit", "shutdown"}, atEof |-> "left"]
Server09 == [ends |-> {"exit", "shutdown"}, atEof |-> "left"]
Server12 == [ends |-> {"exit"}, atEof |-> "closed"]
Server13 == [ends |-> {"exit"}, atEof |-> "closed"]
ServerSsl == [ends |-> {"exit"}, atEof |-> "closed"]

\* It goes on receiving nothing from a client that left.
Server11 == [ends |-> {}, atEof |-> "serving"]

Programs == {"08", "09", "11", "12", "13", "ssl"}

C == CASE program = "08" -> Client08 [] program = "09" -> Client09
       [] program = "11" -> Client11 [] program = "12" -> Client12
       [] program = "13" -> Client13 [] program = "ssl" -> ClientSsl

S == CASE program = "08" -> Server08 [] program = "09" -> Server09
       [] program = "11" -> Server11 [] program = "12" -> Server12
       [] program = "13" -> Server13 [] program = "ssl" -> ServerSsl

Init ==
    /\ program \in Programs
    /\ client = "typing" /\ line = ""
    /\ asked = 0 /\ shown = 0
    /\ up = <<>> /\ down = <<>>
    /\ server = "serving" /\ reset = FALSE
    /\ split = FALSE

-----------------------------------------------------------------------------
(* What one send puts on its way: itself, or two halves of it.             *)

Item(no, of, whole) == [no |-> no, of |-> of, whole |-> whole]

Writes(channel, no, of) ==
    \/ channel' = Append(channel, Item(no, of, TRUE)) /\ UNCHANGED split
    \/ channel' = channel \o <<Item(no, of, FALSE), Item(no, of, FALSE)>> /\ split' = TRUE

\* The buffer is exactly one of the words.
Spells(buffer, words) ==
    /\ buffer[1].of \in words
    /\ \/ Len(buffer) = 1 /\ buffer[1].whole
       \/ Len(buffer) = 2 /\ ~buffer[1].whole /\ buffer[1] = buffer[2]

-----------------------------------------------------------------------------
(* The client's loop.                                                      *)

Typing(l) ==
    /\ client = "typing"
    /\ asked < MaxRequests
    /\ C.empty = "never typed" => l = "time"
    /\ line' = l

\* The loop of ssl looks for the end before it sends.
LeaveUnsent(l) ==
    /\ Typing(l)
    /\ C.asksFirst /\ l \in C.leaves
    /\ client' = "done"
    /\ UNCHANGED <<program, asked, shown, up, down, server, reset, split>>

\* Nothing is sent, and the client waits for the answer to it.
WaitForNothing(l) ==
    /\ Typing(l)
    /\ l = "" /\ C.empty = "wait"
    /\ client' = "waiting"
    /\ UNCHANGED <<program, asked, shown, up, down, server, reset, split>>

IsSent(l) == l # "" /\ ~(C.asksFirst /\ l \in C.leaves)

\* The first data for a closed socket is accepted, and answered by a reset.
Ask(l) ==
    /\ Typing(l)
    /\ IsSent(l) /\ ~reset
    /\ client' = "waiting"
    /\ asked' = asked + 1
    /\ IF server = "closed"
       THEN reset' = TRUE /\ UNCHANGED <<up, split>>
       ELSE Writes(up, asked + 1, l) /\ UNCHANGED reset
    /\ UNCHANGED <<program, shown, down, server>>

\* send on a connection that was reset.
AskKills(l) ==
    /\ Typing(l)
    /\ IsSent(l) /\ reset
    /\ client' = "killed"
    /\ UNCHANGED <<program, asked, shown, up, down, server, reset, split>>

AfterAnswer == IF line \in C.leaves THEN "done" ELSE "typing"

\* Whatever arrived is printed as the answer.
ShowAnswer ==
    /\ client = "waiting"
    /\ \E n \in 1..Len(down) :
          /\ shown' = down[n].no
          /\ down' = SubSeq(down, n + 1, Len(down))
    /\ client' = AfterAnswer
    /\ UNCHANGED <<program, line, asked, up, server, reset, split>>

\* recv returns 0 or fails; only the client of 11 leaves, and not on 0.
AnswerFails ==
    /\ client = "waiting"
    /\ down = <<>> /\ server = "closed"
    /\ client' = IF reset /\ C.errors = "leave" THEN "done" ELSE AfterAnswer
    /\ UNCHANGED <<program, line, asked, shown, up, down, server, reset, split>>

Client ==
    \/ \E l \in Lines : LeaveUnsent(l) \/ WaitForNothing(l) \/ Ask(l) \/ AskKills(l)
    \/ ShowAnswer
    \/ AnswerFails

-----------------------------------------------------------------------------
(* The server's side of the connection.                                    *)

\* (Slip: the answer does not fit the client's buffer.)
AnswersTooLong(no) ==
    /\ down' = down \o <<Item(no, "answer", TRUE), Item(no, "rest", TRUE)>>
    /\ UNCHANGED split

\* In 08 and 09 the whole buffer is sent, MESSAGE_SIZE bytes of it.
Answers(no) == Writes(down, no, "answer")

\* (Slip: the last request is not answered.)
TakeLastSilently ==
    /\ server = "serving"
    /\ \E n \in 1..Len(up) :
          /\ up' = SubSeq(up, n + 1, Len(up))
          /\ IF Spells(SubSeq(up, 1, n), S.ends)
             THEN server' = "left" /\ UNCHANGED <<down, split>>
             ELSE Answers(up[n].no) /\ UNCHANGED server
    /\ UNCHANGED <<program, client, line, asked, shown, reset>>

\* Whatever one recv returns is a request and gets one answer.
Take ==
    /\ server = "serving"
    /\ \E n \in 1..Len(up) :
          /\ up' = SubSeq(up, n + 1, Len(up))
          /\ Answers(up[n].no)
          /\ server' = IF Spells(SubSeq(up, 1, n), S.ends) THEN "closed" ELSE server
    /\ UNCHANGED <<program, client, line, asked, shown, reset>>

SeeEnd ==
    /\ server = "serving"
    /\ client \in {"done", "killed"} /\ up = <<>>
    /\ server' = S.atEof
    /\ UNCHANGED <<program, client, line, asked, shown, up, down, reset, split>>

Server == Take \/ SeeEnd

\* The server's process is ended, and the kernel closes its sockets, with a
\* reset where something was not read.
ServerDies ==
    /\ server = "serving"
    /\ server' = "closed"
    /\ reset' = (up # <<>>)
    /\ up' = <<>>
    /\ UNCHANGED <<program, client, line, asked, shown, down, split>>

Next == Client \/ Server \/ ServerDies

\* Both programs run; what is typed is up to the user.
Spec ==
    /\ Init /\ [][Next]_vars
    /\ WF_vars(ShowAnswer \/ AnswerFails)
    /\ WF_vars(Server)

-----------------------------------------------------------------------------
(* What a session promises.                                                *)

\* As long as nothing arrives in two parts, the answer on the screen is the
\* answer to the request that was typed: no answer is taken for an earlier or
\* a later one, also after requests the server did not know.
InStep == client = "typing" /\ server = "serving" /\ ~split => shown = asked

\* The client does not wait for good, but for the answer to a line that was
\* never sent (the empty line of 09, 12 and 13).
WaitEnds == client = "waiting" ~> client # "waiting" \/ line = ""

\* A session that ended at the client has ended at the server, its descriptor
\* closed: the two sides agree on the words that end it, or the server closes
\* at the end of the stream.  A word that came in two parts, or a server that
\* never looks (11), leaves it open.
BothSidesEnd == client = "done" ~> server = "closed" \/ split \/ program = "11"
=============================================================================
