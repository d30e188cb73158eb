------------------------------ MODULE Commands ------------------------------
(***************************************************************************)
(* A session of the mio server, or of the legacy tokio server, with a      *)
(* client that speaks the RMBT protocol, as the tests in src/tests/handler *)
(* do with the latter: after the greeting any number of the offered        *)
(* commands, in any order and with any chunk size in range.  A command is  *)
(* a list of exchanges: what the client says, each line with its newline,  *)
(* and the unit it must then hear before it goes on.                       *)
(*                                                                         *)
(* The measurement client of Session sends each command at most once and   *)
(* only in one order; what one command leaves behind for the next is seen  *)
(* here.                                                                   *)
(***************************************************************************)
EXTENDS ServerSession, TokioSession

CONSTANTS Servers,       \* which server it is: "mio" or "tokio"
          Sizes,         \* chunk sizes that the client asks for
          MaxCommands,   \* bound: commands in a session
          WithQuit       \* servers to which the client also says QUIT, which both offer

ASSUME CommandsAssumption ==
    /\ Servers \subseteq {"mio", "tokio"}
    /\ Sizes \subseteq MinChunk..MaxChunk
    /\ MaxCommands \in Nat
    /\ WithQuit \subseteq Servers

VARIABLES server,  \* the one that runs: srv is the state of the mio server's session,
                   \* task that of the tokio server's
          user     \* the client: cmd and last are the command at hand and the one before,
                   \* todo the exchanges to come, said and heard count within the first

sessions == <<server, srv, task>>
vars == <<wire, sessions, user>>

\* `each`: what is heard comes in chunks of that size.
Turn(say, hear, each) == [say |-> say, hear |-> hear, each |-> each]
Hello == <<Turn(Line("GET /rmbt", <<>>), Line("ACCEPT TOKEN", <<>>)[2], 1),
           Turn(Line("TOKEN", <<>>), Accept[2], 1)>>

Mark(size) == LastOf(Chunk(size, TRUE))
Two(size)  == Chunk(size, FALSE) \o Chunk(size, TRUE)

Exchanges(cmd, n, size) ==
    CASE cmd = "GETCHUNKS" ->
            <<Turn(Line(cmd, <<n, size>>), Mark(size), size), Turn(OK, Accept[2], 1)>>
      [] cmd = "PING" ->
            <<Turn(Line(cmd, <<>>), Line("PONG", <<>>)[2], 1), Turn(OK, Accept[2], 1)>>
      [] cmd = "GETTIME" ->
            <<Turn(Line(cmd, <<size>>), Mark(size), size), Turn(OK, Accept[2], 1)>>
      [] cmd = "PUT" ->
            <<Turn(Line(cmd, <<size>>), OK[2], 1),
              Turn(Chunk(size, FALSE), Line("TIME BYTES", <<>>)[2], 1),
              Turn(Chunk(size, TRUE), Accept[2], 1)>>
      [] cmd = "QUIT" -> <<Turn(Line(cmd, <<>>), Line("BYE", <<>>)[2], 1)>>
      [] OTHER -> <<Turn(Line(cmd, <<size>>), OK[2], 1), Turn(Two(size), Accept[2], 1)>>

Offered == {"GETCHUNKS", "PING", "GETTIME", "PUT", "PUTNORESULT", "PUTTIMERESULT"}
           \cup (IF server \in WithQuit THEN {"QUIT"} ELSE {})
Uploads == {"PUT", "PUTNORESULT", "PUTTIMERESULT"}

Init ==
    /\ toServer = <<>> /\ toClient = <<>>
    /\ gone = {} /\ splitOk = FALSE
    /\ server \in Servers
    /\ SrvInit /\ TaskInit
    /\ user = [cmd |-> "none", last |-> "none", todo |-> Hello, said |-> 0, heard |-> 0,
               count |-> 0]

\* The next command, once the last one is through.
Begins ==
    /\ user.todo = <<>>
    /\ user.cmd # "QUIT"
    /\ user.count < MaxCommands
    /\ \E cmd \in Offered, n \in {1, 2}, size \in Sizes :
          user' = [user EXCEPT !.cmd = cmd, !.last = user.cmd, !.count = @ + 1,
                               !.todo = Exchanges(cmd, n, size)]
    /\ UNCHANGED <<wire, sessions>>

UserSays ==
    /\ user.todo # <<>>
    /\ LET out == Taken(toServer, user.todo[1].say, user.said) IN
       /\ out # <<>>
       /\ toServer' = toServer \o out
       /\ user' = [user EXCEPT !.said = @ + Len(out)]
    /\ UNCHANGED <<toClient, gone, splitOk, sessions>>

SameUnit(u, v) == u.of = v.of /\ u.at = v.at

UserHears ==
    /\ user.todo # <<>>
    /\ user.said = Len(user.todo[1].say)
    /\ \E data \in Pieces(toClient, Cap) :
          LET turn  == user.todo[1]
              heard == (user.heard + Len(data)) % turn.each
          IN /\ toClient' = Rest(toClient, data)
             /\ user' = IF SameUnit(LastOf(data), turn.hear) /\ heard = 0
                        THEN [user EXCEPT !.todo = Tail(@), !.said = 0, !.heard = 0]
                        ELSE [user EXCEPT !.heard = heard]
    /\ UNCHANGED <<toServer, gone, splitOk, sessions>>

Leaves ==
    /\ "client" \notin gone
    /\ gone' = gone \cup {"client"}
    /\ user' = [user EXCEPT !.todo = <<>>, !.count = MaxCommands]
    /\ UNCHANGED <<toServer, toClient, splitOk, sessions>>

UserStep  == Begins \/ UserSays \/ UserHears
MioStep   ==
    /\ server = "mio"
    /\ SrvGreeting \/ SrvCommand \/ SrvDownload \/ SrvPut \/ SrvUpload
    /\ UNCHANGED <<server, task, user>>
MioEnds   == server = "mio" /\ SrvEnds /\ UNCHANGED <<server, task, user>>
TokioStep == server = "tokio" /\ TaskStep /\ UNCHANGED <<server, srv, user>>
TokioTime == server = "tokio" /\ time_passes /\ UNCHANGED <<server, srv, user>>
TokioEnds == server = "tokio" /\ TaskLeaves /\ UNCHANGED <<server, srv, user>>

Next == UserStep \/ Leaves \/ MioStep \/ MioEnds \/ TokioStep \/ TokioTime \/ TokioEnds

Spec == Init /\ [][Next]_vars
\* As in Session: the client goes on, and the worker comes round to a ready stream.  The
\* tokio runtime polls a task that was woken, and time passes.
FairSpec ==
    /\ Spec
    /\ WF_vars(UserSays \/ UserHears)
    /\ WF_vars(MioStep) /\ WF_vars(TokioStep) /\ WF_vars(TokioTime)
-----------------------------------------------------------------------------
ServerOpen == IF server = "mio" THEN srv.status = "open" ELSE task.status = "open"
BothOpen   == ServerOpen /\ gone = {}

\* Positions stay within what they point into, and nothing is sent beyond the room.
TypeOK ==
    /\ Len(toServer) <= Cap /\ Len(toClient) <= Cap
    /\ srv.status \in {"open", "removed", "refused", "spin", "panic"}
    /\ srv.clock \in {"none", "GETCHUNKS", "PING", "GETTIME"} \cup Uploads
    /\ srv.size \in {0} \cup Sizes /\ srv.made \in {0} \cup (Sizes \ Stored)
    /\ srv.wpos <= MaxChunk /\ Len(srv.got) <= MaxChunk
    /\ task.status \in {"open", "ended"}
    /\ task.at \in TaskReading \cup {"get_time", "end"}
    /\ task.size \in 0..MaxChunk /\ task.got \in 0..task.size

\* Whatever command came before, the next one finds nothing on the way, the positions at
\* the start and no chunk counted, and the tokio server back in its loop unless it took a
\* piece of a line for one.
CleanSlate ==
    (BothOpen /\ user.todo = <<>> /\ user.cmd # "QUIT" /\ (server = "tokio" => ~splitOk)) =>
        /\ toServer = <<>> /\ toClient = <<>>
        /\ IF server = "tokio" THEN task.at = "command" /\ task.out = <<>> /\ task.got = 0
           ELSE /\ srv.phase = "AcceptCommandReceive"
                /\ srv.got = <<>> /\ srv.wpos = 0 /\ srv.done = 0

\* A command is timed from its own start, except after an upload, whose handlers leave
\* the clock running: then, and only then, is the time that of an earlier command.
OwnClock ==
    (srv.status = "open" /\ srv.clock # "none") =>
        srv.clock = user.cmd \/ {srv.clock, user.last} \subseteq Uploads

\* The chunk that was made for the first odd size is sent for the next one.
WrongSize == /\ srv.phase \in {"GetTimeSendChunk", "GetTimeSendLastChunk", "GetTimeReceiveOk"}
             /\ GetTimeSize # srv.size

\* The client and the server never wait for each other with nothing on the way, whatever
\* commands came before: an answer ends when the client expects it to, down to the chunk
\* sizes by which it is counted.  Excused are a line that is taken for whole and was cut in
\* two, the wrong size, and QUIT at the mio server, which does not know it.
ServerWaits ==
    IF server = "mio" THEN srv.phase \in Reading ELSE task.out = <<>> /\ task.at \in TaskReading
UserWaits == user.todo # <<>> /\ user.said = Len(user.todo[1].say)
NoStandoff ==
    (BothOpen /\ UserWaits /\ ServerWaits /\ toServer = <<>> /\ toClient = <<>>) =>
        splitOk \/ WrongSize \/ (server = "mio" /\ user.cmd = "QUIT")

\* No sequence of commands makes a server lose track of a client that says nothing wrong:
\* the mio server refuses no command, and the tokio server
\* says ERR only when a line was cut in two.
NeverErr ==
    /\ srv.status # "refused"
    /\ splitOk \/ \A i \in 1..Len(toClient) : toClient[i] # Err[1]

\* GETCHUNKS with a size in range that is no power of two: CHUNK_STORAGE has no chunk
\* of it, and the mio server panics (getchunks.rs:40).
UnstoredSize == srv.phase = "GetChunkSendChunk" /\ srv.size \notin Stored

\* Every command is carried through to the next ACCEPT, or BYE, by either server, except
\*   - when a line that is taken for whole is cut in two (splitOk),
\*   - at the mio server, when GETCHUNKS asks for a size that is no power of two, on which
\*     it panics, when GETTIME asks for a second such size and the first is sent, and when
\*     the download is read as fast as it is written, so that it never ends,
\*   - and when the connection fails or the server gives up after 15 s without an event.
\* Neither server refuses a command, or ends otherwise, while the client waits.
Answered ==
    \/ [](user.todo # <<>> => <>(\/ user.todo = <<>>
                                 \/ splitOk \/ UnstoredSize \/ WrongSize
                                 \/ srv.status = "removed"))
    \/ <>[]At("GetTimeSendChunk")

\* common.rs offers "ACCEPT GETCHUNKS GETTIME PUT PUTNORESULT PING QUIT": a complete line
\* with an offered command is acted upon and not left in the read buffer.
OfferedIsTaken ==
    (srv.status = "open" /\ srv.phase = "AcceptCommandReceive") => ~EndsLine(srv.got)
=============================================================================
