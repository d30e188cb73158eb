--------------------------- MODULE ClientSession ---------------------------
(***************************************************************************)
(* One connection of the measurement client: the state machine that the    *)
(* handlers in src/src/client/handlers drive over MeasurementState, for a  *)
(* TCP or TLS stream (a WebSocket stream skips the upgrade line).  Every   *)
(* action carries the name of its handler and is one turn of the handler's *)
(* loop: one read() or write() and what follows it.                        *)
(*                                                                         *)
(* How run_threads leads from phase to phase and what the other threads do *)
(* meanwhile is ClientRun's; here the next phase just starts at some time. *)
(***************************************************************************)
EXTENDS Wire

CONSTANTS MaxChunksBefore,        \* MAX_CHUNKS_BEFORE_SIZE_INCREASE
          MaxPings,               \* MAX_PINGS
          MaxUpload               \* bound: chunks sent before the upload's last one

ASSUME ClientAssumption ==
    /\ MaxChunksBefore \in Nat \ {0}
    /\ MaxPings \in Nat \ {0}
    /\ MaxUpload \in Nat \ {0}

VARIABLE cli     \* MeasurementState: got is what read_pos covers of the buffer in use

CliInit ==
    cli = [phase |-> "GreetingSendConnectionType", got |-> <<>>, wpos |-> 0,
           size |-> MinChunk, total |-> 1, pings |-> 0, down |-> 0, sent |-> 0,
           result |-> <<>>, up |-> 0, status |-> "open"]

On(p) == cli.status = "open" /\ cli.phase = p

CliWrites(p, buf, fin) ==
    /\ On(p)
    /\ LET out == Taken(toServer, buf, cli.wpos) IN
       /\ out # <<>>
       /\ toServer' = toServer \o out
       /\ cli' = IF cli.wpos + Len(out) = Len(buf) THEN fin
                 ELSE [cli EXCEPT !.wpos = @ + Len(out)]
    /\ UNCHANGED <<toClient, gone, splitOk>>

\* Handlers that write a window as long as the line from write_pos on: after a partial
\* write they run on into what the buffer held before, and may miss the end.
Junk == [of |-> "junk", at |-> 1, arg |-> <<>>]
Slides(line) == IF cli.wpos = 0 THEN line
                ELSE SubSeq(line \o [i \in 1..cli.wpos |-> Junk], 1, Len(line) + cli.wpos)
CliSlides(p, line, fin) ==
    /\ On(p)
    /\ LET out  == Taken(toServer, Slides(line), cli.wpos)
           done == cli.wpos + Len(out)
       IN /\ out # <<>>
          /\ toServer' = toServer \o out
          /\ cli' = IF done = Len(line) THEN fin ELSE [cli EXCEPT !.wpos = done]
    /\ UNCHANGED <<toClient, gone, splitOk>>

CliReads(p, space, Becomes(_)) ==
    /\ On(p)
    /\ \E data \in Pieces(toClient, space) :
          /\ toClient' = Rest(toClient, data)
          /\ splitOk' = (splitOk \/ (CutsOk(data) /\ p = "PerfReceiveOk"))
          /\ cli' = Becomes(data)
    /\ UNCHANGED <<toServer, gone>>

CliAnew(next)   == [cli EXCEPT !.phase = next, !.wpos = 0, !.got = <<>>]
CliSays(next)   == [cli EXCEPT !.phase = next, !.wpos = 0]
Kept(data)      == [cli EXCEPT !.got = @ \o data]
-----------------------------------------------------------------------------
(* greeting.rs                                                             *)

client_greeting_send_connection_type ==
    CliSlides("GreetingSendConnectionType", Line("GET /rmbt", <<>>),
              CliAnew("GreetingReceiveGreeting"))

GreetingRead(data) ==
    IF EndsWith(cli.got \o data, Line("ACCEPT TOKEN", <<>>))
    THEN [cli EXCEPT !.phase = "GreetingSendToken", !.got = <<>>]
    ELSE Kept(data)

client_greeting_receive_greeting == CliReads("GreetingReceiveGreeting", Cap, GreetingRead)

client_greeting_send_token ==
    CliSlides("GreetingSendToken", Line("TOKEN", <<>>), CliAnew("GreetingReceiveResponse"))

ResponseRead(data) ==
    IF EndsWith(cli.got \o data, Accept)
    THEN [cli EXCEPT !.phase = "GreetingCompleted", !.got = <<>>]
    ELSE Kept(data)

client_greeting_receive_response == CliReads("GreetingReceiveResponse", Cap, ResponseRead)
-----------------------------------------------------------------------------
(* get_chunks.rs                                                           *)

client_get_chunks_send_chunks_command ==
    CliSlides("GetChunksSendChunksCommand", Line("GETCHUNKS", <<cli.total, cli.size>>),
              CliAnew("GetChunksReceiveChunk"))

\* A whole chunk that ends with neither mark leaves no room to read into.
ChunkRead(data) ==
    LET chunk == cli.got \o data IN
    CASE Len(chunk) = cli.size /\ LastOf(chunk).of = "00" -> [cli EXCEPT !.got = <<>>]
      [] Len(chunk) = cli.size /\ LastOf(chunk).of = "FF" ->
            [cli EXCEPT !.phase = "GetChunksSendOk", !.got = <<>>]
      [] OTHER -> Kept(data)

client_get_chunks_receive_chunk ==
    CliReads("GetChunksReceiveChunk", cli.size - Len(cli.got), ChunkRead)

client_get_chunks_send_ok == CliSlides("GetChunksSendOk", OK, CliSays("GetChunksReceiveTime"))

\* Mutant: the number of chunks grows without a limit.
increase_chunks_only == [cli EXCEPT !.total = @ * 2]

increase_chunk_size ==
    IF cli.total < MaxChunksBefore THEN [cli EXCEPT !.total = @ * 2]
    ELSE [cli EXCEPT !.size = Least(@ * 2, MaxChunk)]

TimeIn(buf) == buf[CHOOSE i \in LinesOf("TIME", buf) : TRUE].arg[1]

\* Mutant: a short time asks for more even at the largest size.
TimeReadUnlimited(data) ==
    LET buf == cli.got \o data IN
    IF ~(Contains(buf, Accept) /\ LinesOf("TIME", buf) # {}) THEN Kept(data)
    ELSE IF TimeIn(buf) = 0
    THEN [increase_chunk_size EXCEPT !.phase = "GetChunksSendChunksCommand", !.got = <<>>,
                                     !.wpos = 0]
    ELSE CliAnew("GetChunksCompleted")

\* A short time asks for more: more chunks first, then larger ones.
TimeRead(data) ==
    LET buf == cli.got \o data IN
    IF ~(Contains(buf, Accept) /\ LinesOf("TIME", buf) # {}) THEN Kept(data)
    ELSE IF TimeIn(buf) = 0 /\ cli.size < MaxChunk
    THEN [increase_chunk_size EXCEPT !.phase = "GetChunksSendChunksCommand", !.got = <<>>,
                                     !.wpos = 0]
    ELSE CliAnew("GetChunksCompleted")

client_get_chunks_receive_time == CliReads("GetChunksReceiveTime", Cap, TimeRead)
-----------------------------------------------------------------------------
(* ping.rs                                                                 *)

client_ping_send_ping ==
    CliWrites("PingSendPing", Line("PING", <<>>), CliAnew("PingReceivePong"))

\* Five bytes, whatever they say.
PongRead(data) ==
    IF Len(cli.got \o data) = 2 THEN [cli EXCEPT !.phase = "PingSendOk", !.got = <<>>]
    ELSE Kept(data)

client_ping_receive_pong == CliReads("PingReceivePong", 2 - Len(cli.got), PongRead)

client_ping_send_ok == CliWrites("PingSendOk", OK, CliAnew("PingReceiveTime"))

\* `over`: one second has passed since the phase began.
client_ping_receive_time ==
    \E over \in BOOLEAN :
       LET Received(data) ==
               LET buf == cli.got \o data IN
               IF ~(EndsWith(buf, Accept) /\ LinesOf("TIME", buf) # {}) THEN Kept(data)
               ELSE [cli EXCEPT !.pings = @ + 1, !.got = <<>>,
                                !.phase = IF ~over /\ cli.pings + 1 < MaxPings
                                          THEN "PingSendPing" ELSE "PingCompleted"]
       IN CliReads("PingReceiveTime", Cap, Received)
-----------------------------------------------------------------------------
(* get_time.rs                                                             *)

client_get_time_send_command ==
    CliWrites("GetTimeSendCommand", Line("GETTIME", <<cli.size>>), CliSays("GetTimeReceiveChunk"))

\* Every whole chunk is a point of the download measurement; down = 1: there is one.
DownloadRead(data) ==
    LET chunk == cli.got \o data IN
    IF Len(chunk) < cli.size THEN Kept(data)
    ELSE IF LastOf(chunk).of = "FF"
    THEN [cli EXCEPT !.down = 1, !.phase = "GetTimeSendOk", !.got = chunk]
    ELSE [cli EXCEPT !.down = 1, !.got = <<>>]

client_get_time_receive_chunk ==
    CliReads("GetTimeReceiveChunk", cli.size - Len(cli.got), DownloadRead)

client_get_time_send_ok == CliWrites("GetTimeSendOk", OK, CliAnew("GetTimeReceiveTime"))

\* The time is the second word of all that was read.
DownloadTimeRead(data) ==
    LET buf == cli.got \o data IN
    IF Contains(buf, Accept) /\ 1 \in LinesOf("TIME", buf)
    THEN [cli EXCEPT !.phase = "GetTimeCompleted", !.got = buf]
    ELSE Kept(data)

client_get_time_receive_time == CliReads("GetTimeReceiveTime", Cap, DownloadTimeRead)
-----------------------------------------------------------------------------
(* puttimeresult.rs                                                        *)

client_put_time_result_send_command ==
    CliWrites("PerfSendCommand", Line("PUTTIMERESULT", <<cli.size>>), CliAnew("PerfReceiveOk"))

\* read_pos does not move: an OK in two pieces is never seen.
PerfOkRead(data) ==
    IF data = OK THEN [cli EXCEPT !.phase = "PerfSendChunks", !.got = <<>>] ELSE cli

client_put_time_result_receive_ok == CliReads("PerfReceiveOk", 2, PerfOkRead)

\* `over`: the test duration has passed when the chunk is through.
client_put_time_result_send_chunks ==
    \E over \in BOOLEAN :
       /\ over \/ cli.sent + 1 < MaxUpload
       /\ CliWrites("PerfSendChunks", Chunk(cli.size, FALSE),
                    [cli EXCEPT !.sent = @ + 1, !.wpos = 0,
                                !.phase = IF over THEN "PerfSendLastChunk" ELSE @])

client_put_time_result_send_last_chunk ==
    CliWrites("PerfSendLastChunk", Chunk(cli.size, TRUE),
              [cli EXCEPT !.phase = "PerfReceiveTime", !.wpos = cli.size, !.sent = @ + 1])

\* The last pair is followed by ")\n" and not by ")": it does not parse.
ParsedPairs(result) == result[1].arg[1] - 1

\* Random bytes of a chunk that follow the line may look like a newline too.
client_put_time_result_receive_time ==
    \E newline \in BOOLEAN :
       LET Received(data) ==
               LET result == cli.result \o data
                   ended  == EndsLine(result) \/ (newline /\ LastOf(result).of = "body")
               IN IF ended
                  THEN [cli EXCEPT !.phase = "PerfCompleted", !.got = <<>>, !.result = <<>>,
                                   !.up = ParsedPairs(result)]
                  ELSE [cli EXCEPT !.result = result]
       IN CliReads("PerfReceiveTime", Cap, Received)
-----------------------------------------------------------------------------
(* state.rs, runnner.rs: from phase to phase, and how a session ends.      *)

FollowsPhase == [GreetingCompleted  |-> {"GetChunksSendChunksCommand"},
                 GetChunksCompleted |-> {"PingSendPing", "GetTimeSendCommand"},
                 PingCompleted      |-> {"GetTimeSendCommand"},
                 GetTimeCompleted   |-> {"PerfSendCommand"},
                 PerfCompleted      |-> {}]
BetweenPhases == DOMAIN FollowsPhase

\* Thread 0 pings, the others go on to the download.
CliNextPhase ==
    /\ cli.status = "open"
    /\ cli.phase \in BetweenPhases
    /\ \E next \in FollowsPhase[cli.phase] : cli' = [cli EXCEPT !.phase = next]
    /\ UNCHANGED wire

CliReading == {"GreetingReceiveGreeting", "GreetingReceiveResponse", "GetChunksReceiveChunk",
               "GetChunksReceiveTime", "PingReceivePong", "PingReceiveTime",
               "GetTimeReceiveChunk", "GetTimeReceiveTime", "PerfReceiveOk", "PerfReceiveTime"}

\* read() returns 0, and every reading handler goes on reading for ever.
CliEof ==
    /\ cli.status = "open"
    /\ cli.phase \in CliReading
    /\ "server" \in gone
    /\ toClient = <<>>
    /\ cli' = [cli EXCEPT !.status = "spin"]
    /\ UNCHANGED wire

\* A handler fails, or nothing came for the duration of the phase: `failed` is set, and
\* the session goes no further.
CliFails ==
    /\ cli.status = "open"
    /\ cli' = [cli EXCEPT !.status = "failed"]
    /\ UNCHANGED wire

\* The thread's state is dropped, at the end or with the process.
CliCloses ==
    /\ "client" \notin gone
    /\ cli' = [cli EXCEPT !.status = "closed"]
    /\ gone' = gone \cup {"client"}
    /\ UNCHANGED <<toServer, toClient, splitOk>>
-----------------------------------------------------------------------------
CliGreeting ==
    \/ client_greeting_send_connection_type \/ client_greeting_receive_greeting
    \/ client_greeting_send_token \/ client_greeting_receive_response

CliDownload ==
    \/ client_get_chunks_send_chunks_command \/ client_get_chunks_receive_chunk
    \/ client_get_chunks_send_ok \/ client_get_chunks_receive_time
    \/ client_ping_send_ping \/ client_ping_receive_pong
    \/ client_ping_send_ok \/ client_ping_receive_time
    \/ client_get_time_send_command \/ client_get_time_receive_chunk
    \/ client_get_time_send_ok \/ client_get_time_receive_time

CliUpload ==
    \/ client_put_time_result_send_command \/ client_put_time_result_receive_ok
    \/ client_put_time_result_send_chunks \/ client_put_time_result_send_last_chunk
    \/ client_put_time_result_receive_time

CliEnds == CliEof \/ CliFails \/ CliCloses
=============================================================================
