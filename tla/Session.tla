------------------------------ MODULE Session ------------------------------
(***************************************************************************)
(* A measurement session: one connection of the client and its session at  *)
(* the mio server, over a byte stream that splits what is sent at any      *)
(* point.  Neither side answers for the other's state: each acts on the    *)
(* bytes it has read, so what matters is that the two state machines agree *)
(* on whose turn it is, on the chunk size and on where a line ends.        *)
(*                                                                         *)
(* The client never sends PUT or PUTNORESULT; Commands covers those.       *)
(***************************************************************************)
EXTENDS ServerSession, ClientSession

\* increase_chunk_size stops at MAX_CHUNK_SIZE, which CHUNK_STORAGE must have.
ASSUME SessionAssumption == MaxChunk \in Stored

vars == <<wire, srv, cli>>

Init ==
    /\ toServer = <<>> /\ toClient = <<>>
    /\ gone = {} /\ splitOk = FALSE
    /\ SrvInit
    /\ CliInit

ServerStep == (SrvGreeting \/ SrvCommand \/ SrvDownload \/ SrvUpload) /\ UNCHANGED cli
ClientStep == (CliGreeting \/ CliDownload \/ CliUpload \/ CliNextPhase) /\ UNCHANGED srv
ServerEnds == SrvEnds /\ UNCHANGED cli
ClientEnds == CliEnds /\ UNCHANGED srv

Next == ServerStep \/ ClientStep \/ ServerEnds \/ ClientEnds

Spec == Init /\ [][Next]_vars

\* mio reports a stream that can be read or written, and both loops come round to it:
\* a step of the dialogue that can be taken is taken.  Nothing makes a side fail.
FairSpec == Spec /\ WF_vars(ServerStep) /\ WF_vars(ClientStep)
-----------------------------------------------------------------------------
ServerTalks == {"GreetingSendVersion", "GreetingSendAcceptToken", "GreetingSendOk",
                "GreetingSendChunksize", "AcceptCommandSend", "GetChunkSendChunk",
                "GetChunksSendChunksLast", "GetChunksSendTime", "PongSend", "PingSendTime",
                "GetTimeSendChunk", "GetTimeSendLastChunk", "GetTimeSendTime",
                "PutTimeResultSendOk", "PutTimeResultSendTimeResult"}
ServerPhases == ServerTalks \cup
                (Reading \ {"PutReceiveChunk", "PutNoResultReceiveChunk"})

ClientTalks == {"GreetingSendConnectionType", "GreetingSendToken",
                "GetChunksSendChunksCommand", "GetChunksSendOk", "PingSendPing",
                "PingSendOk", "GetTimeSendCommand", "GetTimeSendOk", "PerfSendCommand",
                "PerfSendChunks", "PerfSendLastChunk"}

BothOpen == srv.status = "open" /\ cli.status = "open" /\ gone = {}

\* Nothing is ever sent beyond the room there is, and every position stays within what
\* it points into.
TypeOK ==
    /\ Len(toServer) <= Cap /\ Len(toClient) <= Cap
    /\ gone \subseteq {"client", "server"}
    /\ srv.phase \in ServerPhases
    /\ cli.phase \in ClientTalks \cup CliReading \cup BetweenPhases
    /\ srv.wpos <= MaxChunk /\ cli.wpos <= MaxChunk
    /\ srv.size \in {0} \cup Stored /\ cli.size \in Stored
    /\ cli.total < 2 * MaxChunksBefore /\ cli.pings <= MaxPings

\* The dialogue is half duplex: while both sides take part, a side that has bytes on
\* the way to it finds the other way empty.  One that talked out of turn would have
\* its bytes read as part of the next line or chunk.
HalfDuplex == BothOpen /\ cli.phase # "PerfCompleted" => toServer = <<>> \/ toClient = <<>>

\* Both sides never wait for each other with nothing on the way, except when an OK has
\* reached a handler that must get it whole (read_pos is not used there) in two pieces.
NoStandoff ==
    (BothOpen /\ cli.phase \in CliReading /\ srv.phase \in Reading
     /\ toServer = <<>> /\ toClient = <<>>) => splitOk

\* A phase of the client is only complete when everything of it has been read, and the
\* server waits for a command with its positions at the start, no clock running and no
\* chunk counted: what the next phase meets does not depend on the last one.
QuietBetweenPhases ==
    (BothOpen /\ cli.phase \in BetweenPhases \ {"PerfCompleted"}) =>
        /\ toServer = <<>> /\ toClient = <<>>
        /\ srv.phase = "AcceptCommandReceive"
        /\ srv.got = <<>> /\ srv.wpos = 0 /\ srv.done = 0 /\ srv.clock = "none"
        /\ cli.wpos = 0

\* During a command both sides cut the byte stream into chunks of one size, and it is
\* one that CHUNK_STORAGE has, so that its unwrap() cannot panic.
ChunkSizesAgree ==
    (srv.status = "open"
     /\ srv.phase \in {"GetChunkSendChunk", "GetChunksSendChunksLast", "GetTimeSendChunk",
                       "GetTimeSendLastChunk", "PutTimeResultSendOk",
                       "PutTimeResultReceiveChunk"}) =>
        srv.size \in Stored /\ srv.size = cli.size

\* The lines whose handlers do not go on from write_pos (TIME is written from its first
\* byte, the client's lines from a window that slides) are never cut by a full buffer:
\* the dialogue leaves room for them.
LinesGoWhole ==
    /\ srv.phase \in {"GetChunksSendTime", "GetTimeSendTime"} => srv.wpos = 0
    /\ cli.phase \in {"GreetingSendConnectionType", "GreetingSendToken",
                      "GetChunksSendChunksCommand", "GetChunksSendOk"} => cli.wpos = 0

\* Every session ends: the measurement completes, or a side leaves, or an OK was cut;
\* except that the download goes on for ever when the client always reads faster than
\* the server writes, since the duration is only looked at after a write that blocked.
SessionCompletes ==
    \/ <>(cli.phase = "PerfCompleted" \/ cli.status # "open" \/ srv.status # "open" \/ splitOk)
    \/ []<><<handle_get_time_send_chunk>>_vars

\* The server counts a point for every chunk the client has sent, however the stream was
\* cut into reads.
EveryChunkCounted ==
    (srv.status = "open" /\ srv.phase = "PutTimeResultSendTimeResult") => srv.points = cli.sent

\* puttimeresult.rs of the client says that it adds all pairs of the result to
\* upload_measurements, and takes the last for the outcome: a pair for every chunk.
UploadReported == cli.phase = "PerfCompleted" => cli.up = cli.sent
-----------------------------------------------------------------------------
=============================================================================
