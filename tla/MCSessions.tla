----------------------------- MODULE MCSessions -----------------------------
(***************************************************************************)
(* The smaller client and server pairs, one per behaviour: CommandServer,  *)
(* PollingServer, CommandSession and DatagramSession, each with variables  *)
(* of its own, which stay as they are while another one runs.              *)
(***************************************************************************)
EXTENDS CommandServer

CONSTANTS MaxLines, MaxDatagrams

VARIABLES
    part,       \* the module that runs
    \* PollingServer
    pollingClient, pollingPc, pollingNonBlocking, pollingFcntlFailed, pollingStatus,
    pollingBacklog, pollingKern, pollingRx,
    \* CommandSession
    program, client, line, asked, shown, up, down, server, reset, split,
    \* DatagramSession
    udpProgram, udpClient, sent, awaited, last, udpShown, net, lost, duplicated

pollingVars == <<pollingClient, pollingPc, pollingNonBlocking, pollingFcntlFailed,
                 pollingStatus, pollingBacklog, pollingKern, pollingRx>>
sessionVars == <<program, client, line, asked, shown, up, down, server, reset, split>>
datagramVars == <<udpProgram, udpClient, sent, awaited, last, udpShown, net, lost, duplicated>>

Polling == INSTANCE PollingServer WITH
    sock_client <- pollingClient, pc <- pollingPc, status <- pollingStatus,
    nonBlocking <- pollingNonBlocking, fcntlFailed <- pollingFcntlFailed,
    backlog <- pollingBacklog, kern <- pollingKern, rx <- pollingRx

Session == INSTANCE CommandSession WITH MaxRequests <- MaxLines

Udp == INSTANCE DatagramSession WITH
    MaxRequests <- MaxDatagrams,
    program <- udpProgram, client <- udpClient, shown <- udpShown

allVars == <<part, vars, pollingVars, sessionVars, datagramVars>>

MCInit ==
    /\ part \in {"server", "polling", "session", "datagram"}
    /\ Init /\ Polling!Init /\ Session!Init /\ Udp!Init
    /\ part # "server" => mode = "pong"
    /\ part # "polling" => ~pollingFcntlFailed
    /\ part # "session" => program = "08"
    /\ part # "datagram" => udpProgram = "10"

\* One part moves.
ServerOnly(A) == part = "server" /\ A /\ UNCHANGED <<part, pollingVars, sessionVars, datagramVars>>
PollingOnly(A) == part = "polling" /\ A /\ UNCHANGED <<part, vars, sessionVars, datagramVars>>
SessionOnly(A) == part = "session" /\ A /\ UNCHANGED <<part, vars, pollingVars, datagramVars>>
DatagramOnly(A) == part = "datagram" /\ A /\ UNCHANGED <<part, vars, pollingVars, sessionVars>>

MCNext ==
    \/ ServerOnly(Next)
    \/ PollingOnly(Polling!Next)
    \/ SessionOnly(Session!Next)
    \/ DatagramOnly(Udp!Next)

MCSpec ==
    /\ MCInit /\ [][MCNext]_allVars
    /\ WF_allVars(ServerOnly(AcceptLoop))
    /\ \A h \in Handlers : WF_allVars(ServerOnly(Handler(h)))
    /\ WF_allVars(PollingOnly(Polling!Server))
    /\ WF_allVars(SessionOnly(Session!ShowAnswer \/ Session!AnswerFails))
    /\ WF_allVars(SessionOnly(Session!Server))
    /\ WF_allVars(DatagramOnly(Udp!Receive))
    /\ WF_allVars(DatagramOnly(Udp!Serve))

\* The loop of tutorial 11 never sleeps (11: 113-173), unless set_non_blocking
\* reported an error (11: 33-42).
PollingNeverSleeps == part = "polling" => Polling!NeverSleeps

\* A TCP client is shown the answer to what it asked, while nothing arrives in
\* two parts (08: 220-260, and the loops like it).
SessionInStep == Session!InStep

\* A TCP client only waits for good for the answer to a line it never sent
\* (09: 269-278, and the loops like it).
SessionWaitEnds == Session!WaitEnds

\* A session that ended at the client has ended at the server (08: 135-143,
\* 254-259, and the pairs like it).
SessionBothSidesEnd == Session!BothSidesEnd

\* A UDP client is shown the answer to what it asked, while the network
\* duplicates nothing (10: 196-210; client.c: 71-98).
DatagramInStep == Udp!InStep

\* A UDP client only waits for good when a datagram was lost, or for the
\* answer to an empty line (10: 93-98, 203).
DatagramWaitEnds == Udp!WaitEnds
=============================================================================
