---------------------------- MODULE TokioSession ----------------------------
(***************************************************************************)
(* One session of the legacy server in src/src/tokio_server: the task that *)
(* tokio spawns for a connection.  It is sequential code that awaits every *)
(* read() and write_all(), so a state is a place in it: what write_all()   *)
(* has still to write, and the read() that follows.                        *)
(*                                                                         *)
(* Unlike the mio server it takes every read() for a whole line and drops  *)
(* what follows the first line.  A line cut in two is nondeterminism here: *)
(* whatever the first piece may be taken for.                              *)
(***************************************************************************)
EXTENDS Wire

VARIABLE task    \* at: the read() or loop to come, out: what is written before that,
                 \* size, got: of the chunk that is received, over: GETTIME's time is up

TaskInit ==
    task = [at |-> "define_stream", out |-> <<>>, size |-> 0, got |-> 0, over |-> FALSE,
            status |-> "open"]

TaskAt(p)       == task.status = "open" /\ task.out = <<>> /\ task.at = p
TaskSays(out, p) == [task EXCEPT !.out = out, !.at = p]
TaskEnded       == [task EXCEPT !.status = "ended"]
Err             == Line("ERR", <<>>)
Time            == Line("TIME", <<>>)

\* write_all(): whatever there is room for.
write_all ==
    /\ task.status = "open"
    /\ LET out == Taken(toClient, task.out, 0) IN
       /\ out # <<>>
       /\ toClient' = toClient \o out
       /\ task' = [task EXCEPT !.out = Rest(@, out)]
    /\ UNCHANGED <<toServer, gone, splitOk>>

\* One read() with `space` left; Becomes(data) is what may become of the task.
TaskReads(p, space, Becomes(_)) ==
    /\ TaskAt(p)
    /\ \E data \in Pieces(toServer, space) :
          /\ toServer' = Rest(toServer, data)
          /\ splitOk' = (splitOk \/ CutsLine(data))
          /\ task' \in Becomes(data)
    /\ UNCHANGED <<toClient, gone>>
-----------------------------------------------------------------------------
(* use_http.rs and connection_handler.rs: upgrade, greeting, token.        *)

Greeting == Line("RMBT", <<>>) \o Line("ACCEPT TOKEN", <<>>)

\* Of a request cut in two less than "GET " may come, or all but the upgrade header.
define_stream ==
    LET Received(data) ==
            LET upgraded == TaskSays(Line("UPGRADE", <<>>) \o Greeting, "handle_token") IN
            IF EndsLine(data) THEN {upgraded}
            ELSE {upgraded, TaskSays(Greeting, "handle_token"), TaskEnded}
    IN TaskReads("define_stream", Cap, Received)

\* Whatever is read is answered with OK.
handle_token ==
    LET Received(data) == {TaskSays(OK \o Line("CHUNKSIZE", <<>>) \o Accept, "command")}
    IN TaskReads("handle_token", Cap, Received)
-----------------------------------------------------------------------------
(* connection_handler.rs: the command loop.  Every handler ends in it, so  *)
(* what it says last is followed by ACCEPT.                                *)

TaskSize(arg, i) == IF Len(arg) < i THEN MinChunk ELSE arg[i]
InRange(size)    == size \in MinChunk..MaxChunk

AllChunks(n, size) ==
    [i \in 1..(n * size) |-> Chunk(size, i > (n - 1) * size)[((i - 1) % size) + 1]]

TaskGetChunks(arg) ==
    LET size == TaskSize(arg, 2) IN
    IF arg # <<>> /\ arg[1] > 0 /\ InRange(size)
    THEN TaskSays(AllChunks(arg[1], size), "get_chunks_ok")
    ELSE TaskSays(Err \o Accept, "command")

TaskGetTime(arg) ==
    LET size == TaskSize(arg, 1) IN
    IF InRange(size)
    THEN [TaskSays(<<>>, "get_time") EXCEPT !.size = size, !.over = FALSE]
    ELSE TaskSays(Err \o Accept, "command")

\* A size that is out of range ends the session after ERR.
TaskPut(arg, p) ==
    LET size == TaskSize(arg, 1) IN
    IF InRange(size) THEN [TaskSays(OK, p) EXCEPT !.size = size, !.got = 0]
    ELSE TaskSays(Err, "end")

TaskCommand(cmd, arg) ==
    CASE cmd = "PUTNORESULT"               -> TaskPut(arg, "put_no_result")
      [] cmd \in {"PUT", "PUTTIMERESULT"}  -> TaskPut(arg, "put")
      [] cmd = "GETTIME"                   -> TaskGetTime(arg)
      [] cmd = "GETCHUNKS"                 -> TaskGetChunks(arg)
      [] cmd = "PING"                      -> TaskSays(Line("PONG", <<>>), "ping_ok")
      [] cmd = "QUIT"                      -> TaskSays(Line("BYE", <<>>), "end")
      [] OTHER                             -> TaskSays(Err \o Accept, "command")

\* What a command line without its end is taken for: a part of its name is no command,
\* but that of every upload starts with PUT; arguments lack digits, or are missing.
CutCommand(line) ==
    {TaskCommand("part", <<>>), TaskCommand(line.of, <<>>)}
    \cup {TaskCommand("PUT", <<>>) : up \in {line.of} \cap {"PUTNORESULT", "PUTTIMERESULT"}}
    \cup UNION {{TaskCommand(line.of, SubSeq(line.arg, 1, i - 1) \o <<size>>) :
                    size \in 0..line.arg[i]} : i \in DOMAIN line.arg}

\* The first line of what was read; the rest is dropped.
handle_command ==
    LET Received(data) ==
            CASE Len(data) > 1 /\ data[2].at = 2 -> {TaskCommand(data[1].of, data[1].arg)}
              [] Len(data) = 1 /\ CutsLine(data) -> CutCommand(data[1])
              [] OTHER                           -> {TaskCommand("part", <<>>)}
    IN TaskReads("command", Cap, Received)
-----------------------------------------------------------------------------
(* handlers/                                                               *)

\* The answer must be OK; without its newline it may pass.
AwaitsOk(p) ==
    LET Received(data) == (IF data \in {OK, <<OK[1]>>} THEN {TaskSays(Time \o Accept, "command")} ELSE {})
                          \cup (IF data # OK THEN {TaskEnded} ELSE {})
    IN TaskReads(p, Cap, Received)

handle_get_chunks == AwaitsOk("get_chunks_ok")
handle_ping       == AwaitsOk("ping_ok")

\* The clock is looked at before every chunk.
handle_get_time ==
    \/ /\ TaskAt("get_time")
       /\ task' = TaskSays(Chunk(task.size, task.over),
                           IF task.over THEN "get_time_ok" ELSE "get_time")
       /\ UNCHANGED wire
    \/ AwaitsOk("get_time_ok")

time_passes ==
    /\ task.status = "open"
    /\ task.at = "get_time"
    /\ ~task.over
    /\ task' = [task EXCEPT !.over = TRUE]
    /\ UNCHANGED wire

\* The last byte of a chunk that came in after a cut line may be any.
Terminators(unit) == IF unit.of \in {"00", "FF"} THEN {unit.of} ELSE {"00", "FF", "other"}

\* Mutant: every chunk is taken for the last.
AfterEveryChunk(p, terminator) == [TaskSays(Time \o Accept, "command") EXCEPT !.got = 0]

\* PUT answers every chunk; after the last one, or one that ends in neither byte, the
\* time follows.
AfterChunk(p, terminator) ==
    LET bytes == IF p = "put" THEN Line("TIME BYTES", <<>>) ELSE <<>> IN
    IF terminator = "00" THEN [TaskSays(bytes, p) EXCEPT !.got = 0]
    ELSE [TaskSays(bytes \o Time \o Accept, "command") EXCEPT !.got = 0]

ReceivesChunks(p) ==
    LET Received(data) ==
            IF task.got + Len(data) < task.size THEN {[task EXCEPT !.got = @ + Len(data)]}
            ELSE {AfterChunk(p, terminator) : terminator \in Terminators(LastOf(data))}
    IN TaskReads(p, task.size - task.got, Received)

handle_put           == ReceivesChunks("put")
handle_put_no_result == ReceivesChunks("put_no_result")

\* handle() returns, after QUIT and after an upload that was refused.
TaskEnds ==
    /\ TaskAt("end")
    /\ task' = TaskEnded
    /\ UNCHANGED wire
-----------------------------------------------------------------------------
TaskReading == {"define_stream", "handle_token", "command", "get_chunks_ok", "ping_ok",
                "get_time_ok", "put", "put_no_result"}

\* read() returns 0: an upload still reports its time, everything else gives up.
TaskEof ==
    /\ task.status = "open" /\ task.out = <<>> /\ task.at \in TaskReading
    /\ "client" \in gone
    /\ toServer = <<>>
    /\ task' = IF task.at \in {"put", "put_no_result"} THEN TaskSays(Time \o Accept, "command")
               ELSE TaskEnded
    /\ UNCHANGED wire

\* A write to a client that has gone fails.  The uploads ignore that, but not the loop
\* that they return to.
TaskWriteFails ==
    /\ task.status = "open" /\ task.out # <<>>
    /\ "client" \in gone
    /\ task' = TaskEnded
    /\ UNCHANGED wire

\* The stream is dropped with the task.
TaskCloses ==
    /\ task.status = "ended"
    /\ "server" \notin gone
    /\ gone' = gone \cup {"server"}
    /\ UNCHANGED <<toServer, toClient, splitOk, task>>

TaskStep ==
    \/ write_all \/ define_stream \/ handle_token \/ handle_command
    \/ handle_get_chunks \/ handle_ping \/ handle_get_time
    \/ handle_put \/ handle_put_no_result \/ TaskEnds

TaskLeaves == TaskEof \/ TaskWriteFails \/ TaskCloses
=============================================================================
