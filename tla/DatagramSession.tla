--------------------------- MODULE DatagramSession ---------------------------
(***************************************************************************)
(* A client that asks by datagram and waits for the answer, and its server:*)
(*   "10"   00_tutorials/10_peer_to_peer_client_server.c                   *)
(*   "udp"  my_code/simple_udp_client_server (client.c, server.c), whose   *)
(*          client sends a ping, which is answered, and a greeting, which  *)
(*          is not, in turn                                                *)
(* The network loses, duplicates and reorders.  Neither client has a       *)
(* timeout, a retry, or a number in its requests.                          *)
(***************************************************************************)
EXTENDS Naturals

CONSTANT MaxRequests    \* bound: datagrams the client sends

VARIABLES
    program,
    client,      \* "ready", "waiting" in recvfrom, or "done"
    sent,        \* datagrams sent, and so the number of the last one
    awaited,     \* the last one whose answer the client waits for, or waited
    last,        \* what the last one said
    shown,       \* the one whose answer was received last
    net,         \* datagrams on their way: a set, delivered in any order
    lost, duplicated    \* history of the network

vars == <<program, client, sent, awaited, last, shown, net, lost, duplicated>>

Datagram(to, no, what, copy) == [to |-> to, no |-> no, what |-> what, copy |-> copy]

Init ==
    /\ program \in {"10", "udp"}
    /\ client = "ready"
    /\ sent = 0 /\ awaited = 0 /\ last = "" /\ shown = 0
    /\ net = {}
    /\ lost = FALSE /\ duplicated = FALSE

-----------------------------------------------------------------------------
(* The clients.                                                            *)

Send(what) ==
    /\ client = "ready"
    /\ sent < MaxRequests
    /\ sent' = sent + 1
    /\ last' = what
    /\ net' = net \cup {Datagram("server", sent + 1, what, 1)}
    /\ UNCHANGED <<program, shown, lost, duplicated>>

AndWait == client' = "waiting" /\ awaited' = sent + 1

\* Any line, the empty one too, is sent and its answer awaited.
Ask10 ==
    /\ program = "10"
    /\ \E what \in {"line", "exit", ""} : Send(what)
    /\ AndWait

\* Every other datagram is a ping, and only a ping is waited for.
PingUdp ==
    /\ program = "udp" /\ sent % 2 = 0
    /\ Send("ping")
    /\ AndWait

GreetUdp ==
    /\ program = "udp" /\ sent % 2 = 1
    /\ Send("greeting")
    /\ UNCHANGED <<client, awaited>>

\* Any datagram is taken for the answer.
Receive ==
    /\ client = "waiting"
    /\ \E d \in net :
          /\ d.to = "client"
          /\ shown' = d.no
          /\ net' = net \ {d}
    /\ client' = IF program = "10" /\ last = "exit" THEN "done" ELSE "ready"
    /\ UNCHANGED <<program, sent, awaited, last, lost, duplicated>>

Client == Ask10 \/ PingUdp \/ GreetUdp \/ Receive

-----------------------------------------------------------------------------
(* The servers.                                                            *)

\* (Slip: the server of simple_udp answers whatever comes.)
AnswersGreetings(what) == what # ""

\* (Slip: exit is not answered.)
AnswersNoExit(what) == what \notin {"", "greeting", "exit"}

\* recvfrom returns 0 for an empty datagram, which 10 takes for a failure;
\* the server of simple_udp only answers pings.
IsAnswered(what) ==
    IF program = "udp" THEN what = "ping" ELSE what # ""

Serve ==
    /\ \E d \in net :
          /\ d.to = "server"
          /\ net' = (net \ {d}) \cup
                IF IsAnswered(d.what) THEN {Datagram("client", d.no, "answer", d.copy)} ELSE {}
    /\ UNCHANGED <<program, client, sent, awaited, last, shown, lost, duplicated>>

-----------------------------------------------------------------------------
(* The network.                                                            *)

Lose ==
    /\ \E d \in net : net' = net \ {d}
    /\ lost' = TRUE
    /\ UNCHANGED <<program, client, sent, awaited, last, shown, duplicated>>

\* Bound: one datagram is duplicated.
Duplicate ==
    /\ ~duplicated
    /\ \E d \in net : net' = net \cup {[d EXCEPT !.copy = 2]}
    /\ duplicated' = TRUE
    /\ UNCHANGED <<program, client, sent, awaited, last, shown, lost>>

Next == Client \/ Serve \/ Lose \/ Duplicate

\* Both programs run, and what is not lost arrives.
Spec ==
    /\ Init /\ [][Next]_vars
    /\ WF_vars(Receive)
    /\ WF_vars(Serve)

-----------------------------------------------------------------------------
(* What the exchange promises.                                             *)

\* The answer received last is the answer to the request it was waited for
\* with, however the network delays and reorders.  One duplicate is enough to
\* put the client a step behind for good: nothing in an answer says what it
\* answers (10: 196-210; client.c: 71-98).
InStep == client # "waiting" /\ ~duplicated => shown = awaited

\* Without a timeout the client waits for good only when the network lost
\* something, or for the answer to an empty line, which the server takes for
\* a failure (10: 93-98, 203).
WaitEnds == client = "waiting" ~> client # "waiting" \/ lost \/ last = ""
=============================================================================
