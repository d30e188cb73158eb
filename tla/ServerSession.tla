--------------------------- MODULE ServerSession ---------------------------
(***************************************************************************)
(* One session of the mio server: the state machine that the handlers in   *)
(* src/src/mioserver/handlers drive over the TestState of a connection.    *)
(* Every action carries the name of its handler and is one turn of the     *)
(* handler's loop: one read() or write() and what follows it.  Between two *)
(* turns the handler may have returned with WouldBlock and been called     *)
(* again by the worker; nothing else runs on the session's state.          *)
(*                                                                         *)
(* Times are left out: a deadline may have passed or not, and TIME carries *)
(* 0 for a short and 1 for a long time.                                    *)
(***************************************************************************)
EXTENDS Wire

VARIABLE srv     \* TestState: phase is measurement_state, got what read_pos covers

SrvInit ==
    srv = [phase |-> "GreetingReceiveConnectionType", got |-> <<>>, wpos |-> 0,
           size |-> 0, num |-> 0, done |-> 0, clock |-> "none", time |-> 0,
           over |-> FALSE, made |-> 0, points |-> 0, status |-> "open"]

At(p) == srv.status = "open" /\ srv.phase = p

\* One turn of a writing loop: buf from position pos on; `fin` when all is written.
SrvWritesFrom(p, pos, buf, begun, fin) ==
    /\ At(p)
    /\ LET out == Taken(toClient, buf, pos) IN
       /\ out # <<>>
       /\ toClient' = toClient \o out
       /\ srv' = IF pos + Len(out) = Len(buf) THEN fin
                 ELSE [begun EXCEPT !.wpos = pos + Len(out)]
    /\ UNCHANGED <<toServer, gone, splitOk>>

SrvWrites(p, buf, begun, fin) == SrvWritesFrom(p, srv.wpos, buf, begun, fin)

\* One turn of a reading loop into a buffer with `space` left; Next(data) is what
\* becomes of the session.
SrvReads(p, space, Becomes(_)) ==
    /\ At(p)
    /\ \E data \in Pieces(toServer, space) :
          /\ toServer' = Rest(toServer, data)
          /\ splitOk' = (splitOk \/ CutsOk(data))
          /\ srv' = Becomes(data)
    /\ UNCHANGED <<toClient, gone>>

Says(next)       == [srv EXCEPT !.phase = next, !.wpos = 0]
Anew(next)       == [srv EXCEPT !.phase = next, !.wpos = 0, !.got = <<>>]
Started(cmd)     == IF srv.clock = "none" THEN cmd ELSE srv.clock
-----------------------------------------------------------------------------
(* worker.rs and greeting_handler.rs: upgrade, version, token.             *)

\* The answer is one write() whose result is not looked at.
handle_greeting_receive_connection_type ==
    /\ At("GreetingReceiveConnectionType")
    /\ \E data \in Pieces(toServer, Cap) :
          LET request == srv.got \o data IN
          /\ toServer' = Rest(toServer, data)
          /\ IF EndsLine(request)
             THEN /\ toClient' = toClient \o Taken(toClient, Line("UPGRADE", <<>>), 0)
                  /\ srv' = Anew("GreetingSendVersion")
             ELSE /\ srv' = [srv EXCEPT !.got = request]
                  /\ UNCHANGED toClient
    /\ UNCHANGED <<gone, splitOk>>

handle_greeting_send_version ==
    SrvWrites("GreetingSendVersion", Line("RMBT", <<>>), srv, Anew("GreetingSendAcceptToken"))

handle_greeting_send_accept_token ==
    SrvWrites("GreetingSendAcceptToken", Line("ACCEPT TOKEN", <<>>), srv,
              Anew("GreetingReceiveToken"))

TokenRead(data) ==
    IF EndsLine(data) THEN [srv EXCEPT !.phase = "GreetingSendOk", !.got = <<>>]
    ELSE [srv EXCEPT !.got = @ \o data]

handle_greeting_receive_token == SrvReads("GreetingReceiveToken", Cap, TokenRead)

handle_greeting_send_ok ==
    SrvWrites("GreetingSendOk", OK, srv, Says("GreetingSendChunksize"))

\* Mutant: the session waits for a command without having said ACCEPT.
SendChunksizeOnly ==
    SrvWrites("GreetingSendChunksize", Line("CHUNKSIZE", <<>>), srv, Says("AcceptCommandReceive"))

handle_greeting_send_chunksize ==
    SrvWrites("GreetingSendChunksize", Line("CHUNKSIZE", <<>>), srv, Says("AcceptCommandSend"))
-----------------------------------------------------------------------------
(* common.rs: the command line.                                            *)

handle_main_command_send ==
    SrvWrites("AcceptCommandSend", Accept, srv, Anew("AcceptCommandReceive"))

\* The chunk size is the i-th argument: `missing` when there is none, `wrong` when it is
\* out of range.
SizeArg(arg, i, missing, wrong) ==
    IF Len(arg) < i THEN missing
    ELSE IF arg[i] \in MinChunk..MaxChunk THEN arg[i] ELSE wrong

\* The handler returns an error: the worker removes the session.
Refused == [srv EXCEPT !.status = "refused"]

GetChunks(arg) ==
    LET size == SizeArg(arg, 2, MinChunk, 0) IN
    IF size = 0 THEN Refused
    ELSE [srv EXCEPT !.phase = "GetChunkSendChunk", !.got = <<>>, !.num = arg[1],
                     !.size = size]

\* Mutant: the second argument is not looked at.
GetTimeSmallest(arg, over) ==
    [srv EXCEPT !.phase = "GetTimeSendChunk", !.got = <<>>, !.size = MinChunk, !.over = over]

\* `over`: the duration has passed when the sending handler is entered, which a clock
\* that an earlier command left running makes possible from the start.
GetTime(arg, over) ==
    LET size == SizeArg(arg, 1, MinChunk, 0) IN
    IF size = 0 THEN Refused
    ELSE [srv EXCEPT !.phase = "GetTimeSendChunk", !.got = <<>>, !.size = size,
                     !.over = over]

\* PUT and PUTNORESULT take one argument at most.
Put(next, arg, wrong) ==
    IF Len(arg) > 1 THEN Refused
    ELSE [srv EXCEPT !.phase = next, !.got = <<>>, !.size = SizeArg(arg, 1, MinChunk, wrong)]

\* PUTTIMERESULT has its state changed before parts[1] is looked at, and panics without.
PutTimeResult(arg) ==
    LET begun == [srv EXCEPT !.phase = "PutTimeResultSendOk", !.got = <<>>] IN
    IF arg = <<>> THEN [begun EXCEPT !.status = "panic"]
    ELSE [begun EXCEPT !.size = SizeArg(arg, 1, MinChunk, MinChunk)]

\* What a complete command line makes of the session; GETCHUNKS has its count and GETTIME
\* its duration.  An unknown line is kept in the read buffer, in front of the next.
Command(line, over) ==
    LET arg == LastOf(line).arg IN
    CASE LinesOf("GETCHUNKS", line) # {}  -> GetChunks(arg)
      [] line[1].of = "PING"              -> [srv EXCEPT !.phase = "PongSend", !.got = <<>>]
      [] line[1].of = "GETTIME"           -> GetTime(arg, over)
      [] line[1].of = "PUTNORESULT"       -> Put("PutNoResultSendOk", arg, srv.size)
      [] line[1].of = "PUTTIMERESULT"     -> PutTimeResult(arg)
      [] line[1].of = "PUT"               -> Put("PutSendOk", arg, MinChunk)
      [] OTHER                            -> [srv EXCEPT !.got = line]

handle_main_command_receive ==
    \E over \in BOOLEAN :
       LET Received(data) ==
               LET line == srv.got \o data IN
               IF EndsLine(line) THEN Command(line, over) ELSE [srv EXCEPT !.got = line]
       IN /\ over => srv.clock # "none"
          /\ SrvReads("AcceptCommandReceive", Cap, Received)
-----------------------------------------------------------------------------
(* getchunks.rs                                                            *)

\* The first chunk starts the clock, and the last but one leads on.
handle_get_chunks_send_chunks ==
    LET begun == [srv EXCEPT !.clock = Started("GETCHUNKS")]
        pos   == IF srv.clock = "none" THEN 0 ELSE srv.wpos
        out   == Taken(toClient, Chunk(srv.size, FALSE), pos)
        sent  == srv.done + 1
    IN /\ At("GetChunkSendChunk")
       /\ srv.size \in Stored
       /\ IF srv.done = srv.num - 1
          THEN /\ srv' = [begun EXCEPT !.phase = "GetChunksSendChunksLast", !.wpos = pos]
               /\ UNCHANGED toClient
          ELSE /\ out # <<>>
               /\ toClient' = toClient \o out
               /\ srv' = IF pos + Len(out) < srv.size
                         THEN [begun EXCEPT !.wpos = pos + Len(out)]
                         ELSE [begun EXCEPT !.wpos = 0, !.done = sent,
                                            !.phase = IF sent = srv.num - 1
                                                      THEN "GetChunksSendChunksLast" ELSE @]
       /\ UNCHANGED <<toServer, gone, splitOk>>

\* A size within range that is no power of two: CHUNK_STORAGE.get(..).unwrap() panics.
get_chunks_panics ==
    /\ srv.status = "open"
    /\ srv.phase = "GetChunkSendChunk"
    /\ srv.size \notin Stored
    /\ srv' = [srv EXCEPT !.status = "panic"]
    /\ UNCHANGED wire

\* Mutant: the time is sent without waiting for the client's OK.
SendLastThenTime ==
    SrvWrites("GetChunksSendChunksLast", Chunk(srv.size, TRUE), srv,
              [srv EXCEPT !.phase = "GetChunksSendTime", !.wpos = 0, !.done = 0])

\* Mutant: processed_chunks is not reset.
SendLastKeepsCount ==
    SrvWrites("GetChunksSendChunksLast", Chunk(srv.size, TRUE), srv,
              [srv EXCEPT !.phase = "GetChunksReceiveOK", !.wpos = 0, !.done = @ + 1])

handle_get_chunks_send_chunks_last ==
    SrvWrites("GetChunksSendChunksLast", Chunk(srv.size, TRUE), srv,
              [srv EXCEPT !.phase = "GetChunksReceiveOK", !.wpos = 0, !.done = 0])

\* Every read() goes to the start of the buffer: an OK in two pieces is never seen.
OkRead(data, next, time, clock) ==
    IF srv.got = <<>> /\ data = OK
    THEN [srv EXCEPT !.phase = next, !.time = time, !.clock = clock]
    ELSE [srv EXCEPT !.got = @ \o data]

handle_get_chunks_receive_ok ==
    \E time \in {0, 1} :
       LET Received(data) == OkRead(data, "GetChunksSendTime", time, srv.clock)
       IN SrvReads("GetChunksReceiveOK", Cap, Received)

\* Mutant: the clock is left running.
SendTimeKeepsClock(p) ==
    SrvWritesFrom(p, 0, Line("TIME", <<srv.time>>), srv,
                  [srv EXCEPT !.phase = "AcceptCommandSend", !.wpos = 0])

\* Every write() starts with the first byte of the line, whatever went before.
SendTime(p) ==
    LET line == Line("TIME", <<srv.time>>)
        out  == Taken(toClient, line, 0)
        done == srv.wpos + Len(out)
    IN /\ At(p)
       /\ out # <<>>
       /\ toClient' = toClient \o out
       /\ srv' = IF done = Len(line)
                 THEN [srv EXCEPT !.phase = "AcceptCommandSend", !.wpos = 0, !.clock = "none"]
                 ELSE [srv EXCEPT !.wpos = done, !.clock = "none"]
       /\ UNCHANGED <<toServer, gone, splitOk>>

handle_get_chunks_send_time == SendTime("GetChunksSendTime")
-----------------------------------------------------------------------------
(* ping.rs                                                                 *)

handle_pong_send ==
    LET begun == [srv EXCEPT !.clock = Started("PING")]
    IN SrvWrites("PongSend", Line("PONG", <<>>), begun,
                 [begun EXCEPT !.phase = "PingReceiveOk", !.wpos = 0])

\* Only the first bytes of the buffer are compared, but every read() overwrites them.
PingOkRead(data, time, clock) ==
    IF SubSeq(data, 1, Least(Len(OK), Len(data))) = OK
    THEN [srv EXCEPT !.phase = "PingSendTime", !.time = time, !.clock = clock, !.got = <<>>]
    ELSE [srv EXCEPT !.got = @ \o data]

\* Mutant: the clock is left running.
PingReceiveOkKeepsClock ==
    \E time \in {0, 1} :
       LET Received(data) == PingOkRead(data, time, srv.clock)
       IN SrvReads("PingReceiveOk", Cap, Received)

handle_ping_receive_ok ==
    \E time \in {0, 1} :
       LET Received(data) == PingOkRead(data, time, "none")
       IN SrvReads("PingReceiveOk", Cap, Received)

handle_ping_send_time ==
    SrvWrites("PingSendTime", Line("TIME", <<srv.time>>), srv, Anew("AcceptCommandSend"))
-----------------------------------------------------------------------------
(* gettime.rs                                                              *)

\* Mutant: the chunk of every first size is kept, a stored one too.
MadeOfAny == IF srv.made = 0 THEN srv.size ELSE srv.made

\* A size that CHUNK_STORAGE has no chunk of: the chunk, and its terminal twin, is made
\* once in a session and used for every such size.
Made == IF srv.size \in Stored THEN srv.made ELSE IF srv.made = 0 THEN srv.size ELSE srv.made
GetTimeSize == IF srv.size \in Stored THEN srv.size ELSE Made

\* Whether the duration is over is looked at when the handler is entered only.
handle_get_time_send_chunk ==
    LET begun == [srv EXCEPT !.clock = Started("GETTIME"), !.made = Made]
    IN SrvWrites("GetTimeSendChunk", Chunk(GetTimeSize, FALSE), begun,
                 IF srv.over
                 THEN [begun EXCEPT !.phase = "GetTimeSendLastChunk", !.wpos = 0, !.got = <<>>]
                 ELSE [begun EXCEPT !.wpos = 0])

\* The write would block, and when the handler is entered again the time is over.
get_time_would_block ==
    /\ At("GetTimeSendChunk")
    /\ srv.clock # "none"
    /\ ~srv.over
    /\ Len(toClient) = Cap
    /\ srv' = [srv EXCEPT !.over = TRUE]
    /\ UNCHANGED wire

handle_perf_send_last_chunk ==
    SrvWrites("GetTimeSendLastChunk", Chunk(GetTimeSize, TRUE), srv, Anew("GetTimeReceiveOk"))

handle_get_time_receive_ok ==
    \E time \in {0, 1} :
       LET Received(data) == OkRead(data, "GetTimeSendTime", time, srv.clock)
       IN SrvReads("GetTimeReceiveOk", Cap, Received)

handle_get_time_send_time == SendTime("GetTimeSendTime")
-----------------------------------------------------------------------------
(* putnoresult.rs, put.rs, puttimeresult.rs                                *)

\* A chunk that arrives in chunk_buffer: Whole is what becomes of the session then.
ReceivesChunk(p, Whole(_)) ==
    LET Received(data) ==
            LET chunk == srv.got \o data IN
            IF Len(chunk) < srv.size THEN [srv EXCEPT !.got = chunk] ELSE Whole(chunk)
    IN SrvReads(p, srv.size - Len(srv.got), Received)

Ending(chunk, last, more) ==
    CASE LastOf(chunk).of = "FF" -> last
      [] LastOf(chunk).of = "00" -> more
      [] OTHER                   -> [more EXCEPT !.status = "refused"]

handle_put_no_result_send_ok ==
    SrvWrites("PutNoResultSendOk", OK, srv,
              [Anew("PutNoResultReceiveChunk") EXCEPT !.clock = "PUTNORESULT"])

handle_put_no_result_receive_chunk ==
    \E time \in {0, 1} :
       LET Whole(chunk) == Ending(chunk, [Anew("PutNoResultSendTime") EXCEPT !.time = time],
                                   [srv EXCEPT !.got = <<>>])
       IN ReceivesChunk("PutNoResultReceiveChunk", Whole)

handle_put_no_result_send_time ==
    SrvWrites("PutNoResultSendTime", Line("TIME", <<srv.time>>), srv, Anew("AcceptCommandSend"))

handle_put_send_ok ==
    LET begun == [srv EXCEPT !.clock = Started("PUT")]
    IN SrvWrites("PutSendOk", OK, begun,
                 [begun EXCEPT !.phase = "PutReceiveChunk", !.wpos = 0, !.got = <<>>])

handle_put_receive_chunk ==
    \E time \in {0, 1} :
       LET Whole(chunk) == [srv EXCEPT !.phase = "PutSendBytes", !.got = chunk, !.time = time]
       IN ReceivesChunk("PutReceiveChunk", Whole)

\* Mutant: the terminating byte is not looked at.
PutSendBytesOnly ==
    SrvWrites("PutSendBytes", Line("TIME BYTES", <<srv.time>>), srv, Anew("PutReceiveChunk"))

\* read_pos still covers the chunk, whose last byte tells what follows.
handle_put_send_bytes ==
    SrvWrites("PutSendBytes", Line("TIME BYTES", <<srv.time>>), srv,
              IF LastOf(srv.got).of = "FF" THEN Says("PutSendTime") ELSE Anew("PutReceiveChunk"))

handle_put_send_time ==
    SrvWrites("PutSendTime", Line("TIME", <<srv.time>>), srv, Anew("AcceptCommandSend"))

handle_put_time_result_send_ok ==
    LET begun == [srv EXCEPT !.clock = Started("PUTTIMERESULT")]
    IN SrvWritesFrom("PutTimeResultSendOk", IF srv.clock = "none" THEN 0 ELSE srv.wpos, OK,
                     begun, [Anew("PutTimeResultReceiveChunk")
                                EXCEPT !.clock = "PUTTIMERESULT"])

\* Mutant: the last chunk returns before it is counted.
ReceiveChunkUncounted ==
    LET Whole(chunk) == Ending(chunk, Anew("PutTimeResultSendTimeResult"),
                               [srv EXCEPT !.got = <<>>, !.points = @ + 1])
    IN ReceivesChunk("PutTimeResultReceiveChunk", Whole)

\* bytes_received gets a point for every chunk; nothing ever empties it.
handle_put_time_result_receive_chunk ==
    LET Whole(chunk) == Ending(chunk, [Anew("PutTimeResultSendTimeResult") EXCEPT !.points = @ + 1],
                               [srv EXCEPT !.got = <<>>, !.points = @ + 1])
    IN ReceivesChunk("PutTimeResultReceiveChunk", Whole)

\* The line is laid over chunk_buffer, and all of chunk_buffer is sent: what it does
\* not cover of the last chunk follows the newline.
handle_put_time_result_send_time ==
    LET line == Line("TIMERESULT", <<srv.points>>)
        buf  == line \o SubSeq(Chunk(srv.size, TRUE), Len(line) + 1, srv.size)
    IN SrvWrites("PutTimeResultSendTimeResult", buf, srv,
                 [Anew("AcceptCommandSend") EXCEPT !.points = @ + 1])
-----------------------------------------------------------------------------
(* worker.rs: how a session ends.                                          *)

SpinsOnEof == {"GreetingReceiveToken", "GetChunksReceiveOK", "GetTimeReceiveOk"}
Reading    == SpinsOnEof \cup
              {"GreetingReceiveConnectionType", "AcceptCommandReceive", "PingReceiveOk",
               "PutReceiveChunk", "PutNoResultReceiveChunk", "PutTimeResultReceiveChunk"}

\* read() returns 0: three handlers go on reading for ever, the others give up.
SrvEof ==
    /\ srv.status = "open"
    /\ srv.phase \in Reading
    /\ "client" \in gone
    /\ toServer = <<>>
    /\ srv' = [srv EXCEPT !.status = IF srv.phase \in SpinsOnEof THEN "spin" ELSE "removed"]
    /\ UNCHANGED wire

\* A read() or write() fails on a connection the client has closed, or nothing came
\* for 15 s (3 s in the greeting).
SrvGivesUp ==
    /\ srv.status = "open"
    /\ srv' = [srv EXCEPT !.status = "removed"]
    /\ UNCHANGED wire

\* The stream is dropped, with the removed session or with the stack of the worker.
SrvCloses ==
    /\ srv.status \in {"removed", "refused", "panic"}
    /\ "server" \notin gone
    /\ gone' = gone \cup {"server"}
    /\ UNCHANGED <<toServer, toClient, splitOk, srv>>
-----------------------------------------------------------------------------
SrvGreeting ==
    \/ handle_greeting_receive_connection_type
    \/ handle_greeting_send_version \/ handle_greeting_send_accept_token
    \/ handle_greeting_receive_token
    \/ handle_greeting_send_ok \/ handle_greeting_send_chunksize

SrvDownload ==
    \/ handle_get_chunks_send_chunks \/ get_chunks_panics \/ handle_get_chunks_send_chunks_last
    \/ handle_get_chunks_receive_ok \/ handle_get_chunks_send_time
    \/ handle_pong_send \/ handle_ping_receive_ok \/ handle_ping_send_time
    \/ handle_get_time_send_chunk \/ get_time_would_block \/ handle_perf_send_last_chunk
    \/ handle_get_time_receive_ok \/ handle_get_time_send_time

SrvPut ==
    \/ handle_put_send_ok \/ handle_put_receive_chunk
    \/ handle_put_send_bytes \/ handle_put_send_time
    \/ handle_put_no_result_send_ok \/ handle_put_no_result_receive_chunk
    \/ handle_put_no_result_send_time

SrvUpload ==
    \/ handle_put_time_result_send_ok \/ handle_put_time_result_receive_chunk
    \/ handle_put_time_result_send_time

SrvCommand == handle_main_command_send \/ handle_main_command_receive

SrvEnds == SrvEof \/ SrvGivesUp \/ SrvCloses
=============================================================================
