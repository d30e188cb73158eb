--------------------------- MODULE Commands_proofs ---------------------------
(***************************************************************************)
(* Proofs about Commands: either server takes any sequence of commands,    *)
(* and finds nothing of one when it begins the next.                       *)
(***************************************************************************)
EXTENDS Commands, Wire_proofs

(***************************************************************************)
(* The inductive invariant.  A command is a list of turns: the client says *)
(* something, and hears the unit that ends the answer.  At any time the    *)
(* server listens to what the client says at a turn, or answers, or has    *)
(* answered.  What of the turns is left when the client has gone is its    *)
(* Agenda.                                                                 *)
(***************************************************************************)

Turns  == [say : Seq(Unit), hear : Unit, each : Nat \ {0}]
Agenda == IF "client" \in gone THEN Seq(Turns) ELSE {user.todo}

Asked == {"GETCHUNKS", "PING", "GETTIME", "PUT", "PUTNORESULT", "PUTTIMERESULT", "QUIT"}
UserState == [cmd : Asked \cup {"none"}, last : Asked \cup {"none"}, todo : Seq(Turns),
              said : Nat, heard : Nat, count : Nat]

\* X is what follows the first m units of text, up to the n-th.
FromOn(X, text, m, n) ==
    m <= n /\ n <= Len(text) /\ Len(X) = n - m /\ \A i \in 1..Len(X) : X[i] = text[m + i]

\* The unit that ends an answer is not in ch, or the last of it.
Silent(ch, hear)   == \A i \in 1..Len(ch) : ~SameUnit(ch[i], hear)
EndsOnly(ch, hear) ==
    ch # <<>> => SameUnit(LastOf(ch), hear) /\ \A i \in 1..(Len(ch) - 1) : ~SameUnit(ch[i], hear)

LastTurn(say) == Turn(say, Accept[2], 1)
PutTurn(size) == Turn(Chunk(size, FALSE), Line("TIME BYTES", <<>>)[2], 1)
Commanding(cmd, todo) ==
    cmd # "none" /\ \E n \in {1, 2}, size \in Sizes : todo = Exchanges(cmd, n, size)
-----------------------------------------------------------------------------
(* The mio server: s is the state of its session, u that of the client, ts *)
(* and tc what is on the way.                                              *)

Awaits  == {"GetChunksReceiveOK", "PingReceiveOk", "GetTimeReceiveOk"}
Takes2  == {"PutNoResultReceiveChunk", "PutTimeResultReceiveChunk"}
Talking == {"GreetingSendVersion", "GreetingSendAcceptToken", "GreetingSendOk",
            "GreetingSendChunksize", "AcceptCommandSend", "GetChunkSendChunk",
            "GetChunksSendChunksLast", "GetChunksSendTime", "PongSend", "PingSendTime",
            "GetTimeSendChunk", "GetTimeSendLastChunk", "GetTimeSendTime", "PutSendOk",
            "PutSendBytes", "PutSendTime", "PutNoResultSendOk", "PutNoResultSendTime",
            "PutTimeResultSendOk", "PutTimeResultSendTimeResult"}

SrvState == [phase : Talking \cup Reading, got : Seq(Unit), wpos : Nat, size : {0} \cup Sizes,
             num : Nat, done : Nat, clock : Uploads \cup {"none", "GETCHUNKS", "PING", "GETTIME"},
             time : {0, 1}, over : BOOLEAN, made : {0} \cup (Sizes \ Stored), points : Nat,
             status : {"open", "removed", "spin", "panic"}]

\* Where the server is in what it writes, and what it has counted.
Counts    == {"GetChunkSendChunk", "GetChunksSendChunksLast"}
Bulk      == Counts \cup {"PutTimeResultSendTimeResult"}
BulkTime  == {"GetTimeSendChunk", "GetTimeSendLastChunk"}
TimeSize(s) == IF s.size \in Stored THEN s.size ELSE IF s.made = 0 THEN s.size ELSE s.made
Positions(s) ==
    /\ s.phase \in Reading \cup {"GetChunksSendTime", "GetTimeSendTime"} => s.wpos = 0
    /\ s.phase \in Bulk => s.wpos < s.size
    /\ s.phase \in BulkTime => s.wpos < TimeSize(s)
    /\ s.phase \notin Bulk \cup BulkTime => s.wpos < 2
    /\ s.phase \notin Counts => s.done = 0
    /\ Len(s.got) <= MaxChunk

\* Whose phase it is, and that it has a size.
Greets == {"GreetingReceiveConnectionType", "GreetingSendVersion", "GreetingSendAcceptToken",
           "GreetingReceiveToken", "GreetingSendOk", "GreetingSendChunksize"}
OwnPhases(cmd) ==
    CASE cmd = "GETCHUNKS" -> {"GetChunkSendChunk", "GetChunksSendChunksLast",
                               "GetChunksReceiveOK", "GetChunksSendTime"}
      [] cmd = "PING" -> {"PongSend", "PingReceiveOk", "PingSendTime"}
      [] cmd = "GETTIME" -> {"GetTimeSendChunk", "GetTimeSendLastChunk", "GetTimeReceiveOk",
                             "GetTimeSendTime"}
      [] cmd = "PUT" -> {"PutSendOk", "PutReceiveChunk", "PutSendBytes", "PutSendTime"}
      [] cmd = "PUTNORESULT" -> {"PutNoResultSendOk", "PutNoResultReceiveChunk",
                                 "PutNoResultSendTime"}
      [] cmd = "PUTTIMERESULT" -> {"PutTimeResultSendOk", "PutTimeResultReceiveChunk",
                                   "PutTimeResultSendTimeResult"}
      [] cmd = "none" -> Greets
      [] OTHER -> {}
Sized == Takes2 \cup {"GetChunkSendChunk", "GetChunksSendChunksLast", "GetTimeSendChunk",
                      "GetTimeSendLastChunk", "PutSendOk", "PutReceiveChunk", "PutSendBytes",
                      "PutNoResultSendOk", "PutTimeResultSendOk", "PutTimeResultSendTimeResult"}
Owned(s, cmd) ==
    /\ s.phase \in {"AcceptCommandSend", "AcceptCommandReceive"} \cup OwnPhases(cmd)
    /\ s.phase \in Sized => s.size \in Sizes

\* The clock is that of the command at hand, or has been left running by an upload.
Ticks(clock, u)    == clock \in {"none", u.cmd} \/ {clock, u.last} \subseteq Uploads
Rested(clock, cmd) == clock = "none" \/ {clock, cmd} \subseteq Uploads

Sound(s, u) == s \in SrvState /\ Positions(s) /\ Owned(s, u.cmd) /\ Ticks(s.clock, u)

\* What the client has still to say when the server, in phase p, has heard all so far.
Takes(p, size, todo) ==
    \/ p = "AcceptCommandReceive" /\ todo = <<>>
    \/ p = "GreetingReceiveToken" /\ todo = <<Hello[2]>>
    \/ p \in Awaits /\ todo = <<LastTurn(OK)>>
    \/ p = "PutReceiveChunk" /\ todo = <<PutTurn(size), LastTurn(Chunk(size, TRUE))>>
    \/ p = "PutReceiveChunk" /\ todo = <<LastTurn(Chunk(size, TRUE))>>
    \/ p \in Takes2 /\ todo = <<LastTurn(Two(size))>>

\* In phase p the server, having heard text, is on its way to a unit of the word w, after
\* which it reads in phase q.
ToAccept == {"GreetingSendOk", "GreetingSendChunksize", "AcceptCommandSend",
             "GetChunksSendTime", "PingSendTime", "GetTimeSendTime", "PutSendTime",
             "PutNoResultSendTime", "PutTimeResultSendTimeResult"}
Answers(p, text, w, q) ==
    \/ p \in {"GreetingSendVersion", "GreetingSendAcceptToken"} /\ w = "ACCEPT TOKEN"
          /\ q = "GreetingReceiveToken"
    \/ p \in Counts /\ w = "FF" /\ q = "GetChunksReceiveOK"
    \/ p \in BulkTime /\ w = "FF" /\ q = "GetTimeReceiveOk"
    \/ p = "PongSend" /\ w = "PONG" /\ q = "PingReceiveOk"
    \/ p = "PutSendOk" /\ w = "OK" /\ q = "PutReceiveChunk"
    \/ p = "PutSendBytes" /\ LastOf(text).of # "FF" /\ w = "TIME BYTES"
          /\ q = "PutReceiveChunk"
    \/ p = "PutNoResultSendOk" /\ w = "OK" /\ q = "PutNoResultReceiveChunk"
    \/ p = "PutTimeResultSendOk" /\ w = "OK" /\ q = "PutTimeResultReceiveChunk"
    \/ p \in ToAccept /\ w = "ACCEPT GETCHUNKS" /\ q = "AcceptCommandReceive"
    \/ p = "PutSendBytes" /\ LastOf(text).of = "FF" /\ w = "ACCEPT GETCHUNKS"
          /\ q = "AcceptCommandReceive"

Resting(s, u, ts, tc, todo) ==
    /\ todo = <<>> /\ u.said = 0 /\ ts = <<>> /\ tc = <<>>
    /\ s.phase = "AcceptCommandReceive" /\ s.got = <<>>
    /\ Rested(s.clock, u.cmd)

Listening(s, u, ts, tc, todo) ==
    /\ todo # <<>> /\ tc = <<>>
    /\ \/ Takes(s.phase, s.size, todo)
       \/ s.phase = "GreetingReceiveConnectionType" /\ todo = Hello
       \/ s.phase = "AcceptCommandReceive" /\ Commanding(u.cmd, todo)
    /\ \E m \in {0, s.size} : /\ FromOn(s.got \o ts, todo[1].say, m, u.said)
                              /\ m = 0 \/ s.phase \in Takes2

\* What the phases keep of the text that they answer.
Kept(p, text) == IF p \in {"PutSendBytes", "PutSendTime"} THEN text ELSE <<>>
Quiet         == {"GetChunksSendTime", "GetTimeSendTime"}

Speaking(s, u, ts, tc, todo) ==
    /\ todo # <<>> /\ u.said = Len(todo[1].say) /\ ts = <<>>
    /\ s.got = Kept(s.phase, todo[1].say)
    /\ Silent(tc, todo[1].hear)
    /\ \E q \in Reading : /\ Answers(s.phase, s.got, todo[1].hear.of, q)
                          /\ Takes(q, s.size, Tail(todo))
    /\ todo[1].hear.at = IF todo[1].hear.of = "FF" THEN 1 ELSE 2
    /\ s.phase \in {"AcceptCommandSend", "PingSendTime"} => Rested(s.clock, u.cmd)
    /\ s.phase \in Quiet => tc = <<>>

Spoken(s, u, ts, tc, todo) ==
    /\ todo # <<>> /\ u.said = Len(todo[1].say) /\ ts = <<>> /\ s.got = <<>>
    /\ s.phase \in Reading /\ Takes(s.phase, s.size, Tail(todo))
    /\ EndsOnly(tc, todo[1].hear)
    /\ s.phase = "AcceptCommandReceive" => Rested(s.clock, u.cmd)

MioScene(s, u, ts, tc, todo) ==
    \/ Resting(s, u, ts, tc, todo) \/ Listening(s, u, ts, tc, todo)
    \/ Speaking(s, u, ts, tc, todo) \/ Spoken(s, u, ts, tc, todo)

NoErr(ch) == Silent(ch, Err[1])

MioInv ==
    /\ Sound(srv, user)
    /\ NoErr(toClient)
    /\ \E todo \in Agenda : MioScene(srv, user, toServer, toClient, todo)
-----------------------------------------------------------------------------
(* The tokio server: t is the state of its task, tc what is on the way and *)
(* what the task has still to write.                                       *)

TaskState == [at : TaskReading \cup {"get_time", "end"}, out : Seq(Unit), size : 0..MaxChunk,
              got : Nat, over : BOOLEAN, status : {"open", "ended"}]
Counting  == {"put", "put_no_result"}

\* What the client has still to say when the task, at p, has heard all so far.
TaskTakes(p, size, cmd, todo) ==
    /\ p \in Counting => size >= 2
    /\ \/ p = "command" /\ todo = <<>>
       \/ p = "end" /\ todo = <<>> /\ cmd = "QUIT"
       \/ p = "handle_token" /\ todo = <<Hello[2]>>
       \/ p \in {"get_chunks_ok", "ping_ok", "get_time_ok"} /\ todo = <<LastTurn(OK)>>
       \/ p = "put" /\ todo = <<PutTurn(size), LastTurn(Chunk(size, TRUE))>>
       \/ p = "put" /\ todo = <<LastTurn(Chunk(size, TRUE))>>
       \/ p \in Counting /\ todo = <<LastTurn(Two(size))>>

TaskRests(t, u, ts, tc, todo) ==
    /\ todo = <<>> /\ u.said = 0 /\ ts = <<>> /\ tc = <<>>
    /\ t.at = "command" \/ (t.at = "end" /\ u.cmd = "QUIT")
    /\ t.got = 0

TaskListens(t, u, ts, tc, todo) ==
    /\ todo # <<>>
    /\ \/ TaskTakes(t.at, t.size, u.cmd, todo)
       \/ t.at = "define_stream" /\ todo = Hello
       \/ t.at = "command" /\ Commanding(u.cmd, todo)
    /\ \E m \in {0, t.size} :
          /\ FromOn(ts, todo[1].say, m + t.got, u.said)
          /\ m = 0 \/ (t.at \in Counting /\ todo = <<LastTurn(Two(t.size))>>)
    /\ Silent(tc, todo[1].hear)

\* GETTIME: chunks go out until the time is up.
TaskSends(t, u, ts, tc, todo) ==
    /\ todo # <<>> /\ u.said = Len(todo[1].say) /\ ts = <<>>
    /\ t.at = "get_time" /\ t.size >= 2
    /\ todo[1].hear.of = "FF" /\ todo[1].hear.at = 1
    /\ TaskTakes("get_time_ok", t.size, u.cmd, Tail(todo))
    /\ Silent(tc, todo[1].hear)

TaskHasSaid(t, u, ts, tc, todo) ==
    /\ todo # <<>> /\ u.said = Len(todo[1].say) /\ ts = <<>>
    /\ TaskTakes(t.at, t.size, u.cmd, Tail(todo)) /\ t.got = 0
    /\ EndsOnly(tc, todo[1].hear)

TaskScene(t, u, ts, tc, todo) ==
    \/ TaskRests(t, u, ts, tc, todo) \/ TaskListens(t, u, ts, tc, todo)
    \/ TaskSends(t, u, ts, tc, todo) \/ TaskHasSaid(t, u, ts, tc, todo)

\* Nobody talks to the task any more.
Deserted == "client" \in gone /\ toServer = <<>>
Unheard  == toClient \o task.out

\* As long as no line was cut in two, the task is in a scene; chunks are counted only where
\* they are received, as long as anything comes.
TaskInv ==
    /\ task \in TaskState /\ task.got <= task.size
    /\ task.at \notin Counting => task.got = 0 \/ Deserted
    /\ splitOk \/ NoErr(Unheard)
    /\ splitOk \/ Deserted \/ \E todo \in Agenda : TaskScene(task, user, toServer, Unheard, todo)
-----------------------------------------------------------------------------
Wired ==
    /\ toServer \in Seq(Unit) /\ Len(toServer) <= Cap
    /\ toClient \in Seq(Unit) /\ Len(toClient) <= Cap
    /\ gone \subseteq {"client", "server"} /\ splitOk \in BOOLEAN
    /\ server \in {"mio", "tokio"}
    /\ user \in UserState
    /\ user.cmd = "none" => user.last = "none"
    /\ "client" \in gone => user.todo = <<>> /\ user.count = MaxCommands

CommandsInv ==
    /\ Wired
    /\ server = "mio" => MioInv /\ TaskInit
    /\ server = "tokio" => TaskInv /\ SrvInit
-----------------------------------------------------------------------------
(* Lines, chunks and turns.                                                *)

LEMMA SizeFacts ==
    /\ \A size \in Sizes : size \in Nat /\ MinChunk <= size /\ size <= MaxChunk /\ size >= 2
    /\ 0 \notin Sizes
<1>1. \A size \in Sizes : size \in MinChunk..MaxChunk
  BY CommandsAssumption
<1>2. QED
  BY <1>1, Bounds

LEMMA ArgFacts ==
    /\ <<>> \in Seq(Nat) /\ Len(<<>>) = 0
    /\ \A n \in Nat : <<n>> \in Seq(Nat) /\ Len(<<n>>) = 1
    /\ \A n, m \in Nat : <<n, m>> \in Seq(Nat) /\ Len(<<n, m>>) = 2
OBVIOUS

LEMMA LineUnits ==
    ASSUME NEW of \in Words, NEW arg \in Seq(Nat)
    PROVE  /\ Line(of, arg) \in Seq(Unit) /\ Len(Line(of, arg)) = 2
           /\ Line(of, arg)[1] \in Unit /\ Line(of, arg)[2] \in Unit
           /\ Line(of, arg)[1].of = of /\ Line(of, arg)[1].at = 1 /\ Line(of, arg)[1].arg = arg
           /\ Line(of, arg)[2].of = of /\ Line(of, arg)[2].at = 2 /\ Line(of, arg)[2].arg = arg
<1> DEFINE line == Line(of, arg)
<1>1. /\ line \in Seq(Unit) /\ Len(line) = 2
      /\ line[1] = [of |-> of, at |-> 1, arg |-> arg]
      /\ line[2] = [of |-> of, at |-> 2, arg |-> arg]
  BY LineFacts
<1> HIDE DEF line
<1>2. line[1] \in Unit /\ line[2] \in Unit
  BY <1>1 DEF Unit
<1>3. QED
  BY <1>1, <1>2 DEF line

LEMMA AcceptUnits ==
    /\ Accept \in Seq(Unit) /\ Len(Accept) = 2 /\ Accept[1] \in Unit /\ Accept[2] \in Unit
    /\ Accept[1].of = "ACCEPT GETCHUNKS" /\ Accept[1].at = 1
    /\ Accept[2].of = "ACCEPT GETCHUNKS" /\ Accept[2].at = 2
<1>1. "ACCEPT GETCHUNKS" \in Words
  BY DEF Words
<1>2. QED
  BY <1>1, ArgFacts, LineUnits DEF Accept

LEMMA OkUnits ==
    /\ OK \in Seq(Unit) /\ Len(OK) = 2 /\ OK[1] \in Unit /\ OK[2] \in Unit
    /\ OK[1].of = "OK" /\ OK[1].at = 1 /\ OK[2].of = "OK" /\ OK[2].at = 2
<1>1. "OK" \in Words
  BY DEF Words
<1>2. QED
  BY <1>1, ArgFacts, LineUnits DEF OK

LEMMA ChunkUnits ==
    ASSUME NEW size \in Nat, size >= 2, NEW last \in BOOLEAN
    PROVE  /\ Chunk(size, last) \in Seq(Unit) /\ Len(Chunk(size, last)) = size
           /\ \A i \in 1..size : /\ Chunk(size, last)[i].at = 1
                                 /\ Chunk(size, last)[i].of \in {"body", "00", "FF"}
                                 /\ Chunk(size, last)[i].of = "FF" <=> i = size /\ last
           /\ Chunk(size, last)[size] \in Unit
           /\ LastOf(Chunk(size, last)) = Chunk(size, last)[size]
           /\ Chunk(size, last)[size].of = IF last THEN "FF" ELSE "00"
<1> DEFINE chunk == Chunk(size, last)
<1>1. /\ chunk \in Seq(Unit) /\ Len(chunk) = size
      /\ chunk[size].of = IF last THEN "FF" ELSE "00"
  BY ChunkFacts
<1>2. \A i \in 1..size : chunk[i].at = 1
  BY DEF Chunk
<1>3. \A i \in 1..size : chunk[i].of = IF i < size THEN "body" ELSE IF last THEN "FF" ELSE "00"
  BY DEF Chunk
<1> HIDE DEF chunk
<1>4. \A i \in 1..size : chunk[i].of \in {"body", "00", "FF"}
  BY <1>3
<1>5. \A i \in 1..size : chunk[i].of = "FF" <=> i = size /\ last
  BY <1>3
<1>6. chunk[size] \in Unit
  BY <1>1
<1>7. LastOf(chunk) = chunk[size]
  BY <1>1 DEF LastOf
<1>8. QED
  BY <1>1, <1>2, <1>4, <1>5, <1>6, <1>7 DEF chunk

LEMMA TwoFacts ==
    ASSUME NEW size \in Nat, size >= 2
    PROVE  /\ Two(size) \in Seq(Unit) /\ Len(Two(size)) = 2 * size
           /\ \A i \in 1..size : Two(size)[i] = Chunk(size, FALSE)[i]
           /\ \A i \in 1..size : Two(size)[size + i] = Chunk(size, TRUE)[i]
<1> DEFINE a == Chunk(size, FALSE)
           b == Chunk(size, TRUE)
<1>1. a \in Seq(Unit) /\ Len(a) = size /\ b \in Seq(Unit) /\ Len(b) = size
  BY ChunkUnits
<1> HIDE DEF a, b
<1> DEFINE c == a \o b
<1>2. /\ c \in Seq(Unit) /\ Len(c) = Len(a) + Len(b)
      /\ \A i \in 1..Len(a) : c[i] = a[i]
      /\ \A i \in 1..Len(b) : c[Len(a) + i] = b[i]
  BY <1>1, JoinOf
<1>3. Two(size) = c
  BY DEF Two, a, b
<1> HIDE DEF c
<1>4. Len(c) = 2 * size
  BY <1>1, <1>2
<1>5. \A i \in 1..size : c[i] = a[i] /\ c[size + i] = b[i]
  BY <1>1, <1>2
<1>6. QED
  BY <1>2, <1>3, <1>4, <1>5 DEF a, b

LEMMA TurnFacts ==
    ASSUME NEW say \in Seq(Unit), NEW hear \in Unit, NEW each \in Nat \ {0}
    PROVE  /\ Turn(say, hear, each) \in Turns
           /\ Turn(say, hear, each).say = say /\ Turn(say, hear, each).hear = hear
           /\ Turn(say, hear, each).each = each
BY DEF Turn, Turns

LEMMA LastTurnFacts ==
    ASSUME NEW say \in Seq(Unit)
    PROVE  /\ LastTurn(say) \in Turns /\ LastTurn(say).say = say
           /\ LastTurn(say).hear.of = "ACCEPT GETCHUNKS" /\ LastTurn(say).hear.at = 2
<1>1. PICK one \in Nat \ {0} : one = 1
  OBVIOUS
<1>2. PICK unit \in Unit : unit = Accept[2]
  BY AcceptUnits
<1>3. LastTurn(say) = Turn(say, unit, one)
  BY <1>1, <1>2 DEF LastTurn
<1>4. unit.of = "ACCEPT GETCHUNKS" /\ unit.at = 2
  BY <1>2, AcceptUnits
<1>5. /\ Turn(say, unit, one) \in Turns /\ Turn(say, unit, one).say = say
      /\ Turn(say, unit, one).hear = unit
  BY TurnFacts
<1>6. QED
  BY <1>3, <1>4, <1>5

LEMMA PutTurnFacts ==
    ASSUME NEW size \in Nat, size >= 2
    PROVE  /\ PutTurn(size) \in Turns /\ PutTurn(size).say = Chunk(size, FALSE)
           /\ PutTurn(size).hear.of = "TIME BYTES" /\ PutTurn(size).hear.at = 2
<1>1. PICK word \in Words : word = "TIME BYTES"
  BY DEF Words
<1>2. PICK unit \in Unit : unit = Line(word, <<>>)[2] /\ unit.of = word /\ unit.at = 2
  BY ArgFacts, LineUnits
<1>3. PICK one \in Nat \ {0} : one = 1
  OBVIOUS
<1>4. PICK no \in BOOLEAN : no = FALSE
  OBVIOUS
<1>5. Chunk(size, no) \in Seq(Unit)
  BY ChunkUnits
<1>6. PutTurn(size) = Turn(Chunk(size, no), unit, one)
  BY <1>1, <1>2, <1>3, <1>4 DEF PutTurn
<1> DEFINE chunk == Chunk(size, no)
<1> HIDE DEF chunk
<1>7. /\ Turn(chunk, unit, one) \in Turns /\ Turn(chunk, unit, one).say = chunk
      /\ Turn(chunk, unit, one).hear = unit
  BY <1>5, TurnFacts DEF chunk
<1>8. QED
  BY <1>1, <1>2, <1>4, <1>6, <1>7 DEF chunk

\* Lists of one and of two turns.
LEMMA Lists ==
    ASSUME NEW a \in Turns, NEW b \in Turns
    PROVE  /\ <<a>> \in Seq(Turns) /\ <<a>> # <<>> /\ <<a>>[1] = a /\ Tail(<<a>>) = <<>>
           /\ <<a, b>> \in Seq(Turns) /\ <<a, b>> # <<>> /\ <<a, b>>[1] = a
           /\ Tail(<<a, b>>) = <<b>>
           /\ <<>> \in Seq(Turns)
OBVIOUS

\* What is first said in a command, the word that ends the answer, and what is left then.
Args(cmd, n, size) ==
    IF cmd = "GETCHUNKS" THEN <<n, size>> ELSE IF cmd \in {"PING", "QUIT"} THEN <<>> ELSE <<size>>
Reply(cmd) ==
    IF cmd \in {"GETCHUNKS", "GETTIME"} THEN "FF"
    ELSE IF cmd = "PING" THEN "PONG" ELSE IF cmd = "QUIT" THEN "BYE" ELSE "OK"
Remains(cmd, size) ==
    IF cmd \in {"GETCHUNKS", "PING", "GETTIME"} THEN <<LastTurn(OK)>>
    ELSE IF cmd = "PUT" THEN <<PutTurn(size), LastTurn(Chunk(size, TRUE))>>
    ELSE IF cmd = "QUIT" THEN <<>> ELSE <<LastTurn(Two(size))>>
Opens(todo, cmd, n, size) ==
    /\ todo \in Seq(Turns) /\ todo # <<>>
    /\ todo[1].say = Line(cmd, Args(cmd, n, size)) /\ todo[1].hear.of = Reply(cmd)
    /\ todo[1].hear.at = IF Reply(cmd) = "FF" THEN 1 ELSE 2
    /\ Tail(todo) = Remains(cmd, size)

LEMMA OneByOne ==
    ASSUME NEW a \in Turns, NEW b \in Turns, NEW c \in Turns
    PROVE  /\ <<a, b, c>> \in Seq(Turns) /\ <<a, b, c>> # <<>> /\ <<a, b, c>>[1] = a
           /\ Tail(<<a, b, c>>) = <<b, c>>
OBVIOUS

\* What the client does with a command.
LEMMA ExchangesOpen ==
    ASSUME NEW cmd \in Asked, NEW n \in {1, 2}, NEW size \in Sizes
    PROVE  Opens(Exchanges(cmd, n, size), cmd, n, size)
<1> DEFINE todo == Exchanges(cmd, n, size)
           first == Line(cmd, Args(cmd, n, size))
<1>1. size \in Nat /\ size >= 2 /\ n \in Nat
  BY SizeFacts
<1>2. first \in Seq(Unit)
  <2>1. Args(cmd, n, size) \in Seq(Nat)
    BY <1>1, ArgFacts DEF Args
  <2>2. cmd \in Words
    BY DEF Asked, Words
  <2>3. QED
    BY <2>1, <2>2, LineUnits
<1>3. PICK one \in Nat \ {0} : one = 1
  OBVIOUS
<1>4. ASSUME NEW word \in {"PONG", "OK", "BYE"}
      PROVE  /\ Turn(first, Line(word, <<>>)[2], 1) \in Turns
             /\ Turn(first, Line(word, <<>>)[2], 1).say = first
             /\ Turn(first, Line(word, <<>>)[2], 1).hear.of = word
             /\ Turn(first, Line(word, <<>>)[2], 1).hear.at = 2
  <2>1. word \in Words
    BY DEF Words
  <2>2. PICK unit \in Unit : unit = Line(word, <<>>)[2] /\ unit.of = word /\ unit.at = 2
    BY ZenonT(30), <2>1, ArgFacts, LineUnits
  <2> HIDE DEF first
  <2>3. QED
    BY <1>2, <1>3, <2>2, TurnFacts
<1>5. /\ Turn(first, Mark(size), size) \in Turns
      /\ Turn(first, Mark(size), size).say = first
      /\ Turn(first, Mark(size), size).hear.of = "FF"
      /\ Turn(first, Mark(size), size).hear.at = 1
  <2>1. PICK unit \in Unit : unit = Mark(size) /\ unit.of = "FF" /\ unit.at = 1
    <3>1. PICK yes \in BOOLEAN : yes = TRUE
      OBVIOUS
    <3>2. /\ Chunk(size, yes)[size] \in Unit
          /\ LastOf(Chunk(size, yes)) = Chunk(size, yes)[size]
          /\ Chunk(size, yes)[size].of = "FF"
      BY <1>1, <3>1, ChunkUnits
    <3>3. \A i \in 1..size : Chunk(size, yes)[i].at = 1
      BY <1>1, ChunkUnits
    <3>4. Chunk(size, yes)[size].at = 1
      BY <1>1, <3>3
    <3>5. QED
      BY <3>1, <3>2, <3>4 DEF Mark
  <2> HIDE DEF first
  <2>2. size \in Nat \ {0}
    BY <1>1
  <2>3. QED
    BY <1>2, <2>1, <2>2, TurnFacts
<1>6. LastTurn(OK) \in Turns
  BY OkUnits, LastTurnFacts
<1>7. /\ PutTurn(size) \in Turns /\ LastTurn(Chunk(size, TRUE)) \in Turns
      /\ LastTurn(Two(size)) \in Turns
  <2>1. Chunk(size, TRUE) \in Seq(Unit) /\ Two(size) \in Seq(Unit)
    BY <1>1, ChunkUnits, TwoFacts
  <2>2. QED
    BY <1>1, <2>1, LastTurnFacts, PutTurnFacts
<1>8. CASE cmd \in {"GETCHUNKS", "GETTIME"}
  <2>1. todo = <<Turn(first, Mark(size), size), LastTurn(OK)>>
    BY <1>8 DEF Exchanges, LastTurn, Args
  <2> HIDE DEF todo, first
  <2>2. /\ todo \in Seq(Turns) /\ todo # <<>> /\ todo[1] = Turn(first, Mark(size), size)
        /\ Tail(todo) = <<LastTurn(OK)>>
    BY <1>5, <1>6, <2>1, Lists
  <2>3. QED
    BY <1>5, <1>8, <2>2 DEF Opens, Reply, Remains, todo, first
<1>9. CASE cmd = "PING"
  <2>1. todo = <<Turn(first, Line("PONG", <<>>)[2], 1), LastTurn(OK)>>
    BY <1>9 DEF Exchanges, LastTurn, Args
  <2> DEFINE turn == Turn(first, Line("PONG", <<>>)[2], 1)
  <2>2. turn \in Turns /\ turn.say = first /\ turn.hear.of = "PONG" /\ turn.hear.at = 2
    BY <1>4
  <2> HIDE DEF todo, first, turn
  <2>3. todo \in Seq(Turns) /\ todo # <<>> /\ todo[1] = turn /\ Tail(todo) = <<LastTurn(OK)>>
    BY <1>6, <2>1, <2>2, Lists DEF turn
  <2>4. QED
    BY <1>9, <2>2, <2>3 DEF Opens, Reply, Remains, todo, first
<1>10. CASE cmd = "QUIT"
  <2>1. todo = <<Turn(first, Line("BYE", <<>>)[2], 1)>>
    BY <1>10 DEF Exchanges, Args
  <2> DEFINE turn == Turn(first, Line("BYE", <<>>)[2], 1)
  <2>2. turn \in Turns /\ turn.say = first /\ turn.hear.of = "BYE" /\ turn.hear.at = 2
    BY <1>4
  <2> HIDE DEF todo, first, turn
  <2>3. todo \in Seq(Turns) /\ todo # <<>> /\ todo[1] = turn /\ Tail(todo) = <<>>
    BY <2>1, <2>2, Lists DEF turn
  <2>4. QED
    BY <1>10, <2>2, <2>3 DEF Opens, Reply, Remains, todo, first
<1>11. CASE cmd \in {"PUT", "PUTNORESULT", "PUTTIMERESULT"}
  <2> DEFINE turn == Turn(first, Line("OK", <<>>)[2], 1)
             two  == <<turn, LastTurn(Two(size))>>
             each == <<turn, PutTurn(size), LastTurn(Chunk(size, TRUE))>>
  <2>1. todo = IF cmd = "PUT" THEN each ELSE two
    BY <1>11 DEF Exchanges, LastTurn, PutTurn, Args, OK
  <2>2. turn \in Turns /\ turn.say = first /\ turn.hear.of = "OK" /\ turn.hear.at = 2
    BY <1>4
  <2> HIDE DEF todo, first, turn
  <2>3. two \in Seq(Turns) /\ two # <<>> /\ two[1] = turn /\ Tail(two) = <<LastTurn(Two(size))>>
    BY <1>7, <2>2, Lists
  <2>4. /\ each \in Seq(Turns) /\ each # <<>> /\ each[1] = turn
        /\ Tail(each) = <<PutTurn(size), LastTurn(Chunk(size, TRUE))>>
    BY <1>7, <2>2, OneByOne
  <2> HIDE DEF two, each
  <2>5. QED
    BY <1>11, <2>1, <2>2, <2>3, <2>4 DEF Opens, Reply, Remains, todo, first
<1>12. QED
  BY <1>8, <1>9, <1>10, <1>11 DEF Asked
-----------------------------------------------------------------------------
(* Saying and hearing.                                                     *)

\* The client says more of what it has to say.
LEMMA SaysOn ==
    ASSUME NEW text \in Seq(Unit), NEW m \in Nat, NEW n \in Nat,
           NEW got \in Seq(Unit), NEW ch \in Seq(Unit), Len(ch) <= Cap,
           FromOn(got \o ch, text, m, n),
           NEW out, out = Taken(ch, text, n)
    PROVE  /\ out \in Seq(Unit) /\ Len(out) \in Nat
           /\ ch \o out \in Seq(Unit) /\ Len(ch \o out) <= Cap
           /\ FromOn(got \o (ch \o out), text, m, n + Len(out))
<1> DEFINE X == got \o ch
           Y == X \o out
<1>1. m <= n /\ n <= Len(text) /\ Len(X) = n - m /\ \A i \in 1..Len(X) : X[i] = text[m + i]
  BY DEF FromOn
<1>2. X \in Seq(Unit) /\ Len(X) \in Nat
  BY JoinOf
<1>3. n \in 0..Len(text)
  BY <1>1
<1>4. /\ out \in Seq(Unit) /\ Len(out) \in Nat /\ n + Len(out) <= Len(text)
      /\ \A i \in 1..Len(out) : out[i] = text[n + i]
      /\ ch \o out \in Seq(Unit) /\ Len(ch \o out) <= Cap
  BY <1>3, TakenFacts
<1>5. Y = got \o (ch \o out)
  BY <1>4, JoinThree
<1> HIDE DEF X
<1>6. /\ Len(Y) = Len(X) + Len(out)
      /\ \A i \in 1..Len(X) : Y[i] = X[i]
      /\ \A i \in 1..Len(out) : Y[Len(X) + i] = out[i]
  BY <1>2, <1>4, JoinOf
<1> HIDE DEF Y
<1>7. Len(Y) = (n + Len(out)) - m
  BY <1>1, <1>2, <1>4, <1>6
<1>8. ASSUME NEW i \in 1..Len(Y) PROVE Y[i] = text[m + i]
  <2>1. CASE i <= Len(X)
    BY <1>1, <1>2, <1>6, <2>1
  <2>2. CASE ~(i <= Len(X))
    <3>1. PICK j \in 1..Len(out) : i = Len(X) + j
      <4>1. i - Len(X) \in 1..Len(out) /\ i = Len(X) + (i - Len(X))
        BY <1>2, <1>4, <1>6, <2>2
      <4>2. QED
        BY <4>1
    <3>2. Y[i] = out[j] /\ out[j] = text[n + j]
      BY <1>4, <1>6, <3>1
    <3>3. m + i = n + j
      BY <1>1, <3>1
    <3>4. QED
      BY <3>2, <3>3
  <2>3. QED
    BY <2>1, <2>2
<1>9. m <= n + Len(out)
  BY <1>1, <1>4
<1>10. FromOn(Y, text, m, n + Len(out))
  BY <1>4, <1>7, <1>8, <1>9 DEF FromOn
<1>11. QED
  BY <1>4, <1>5, <1>10

\* The server reads a piece of it.
LEMMA ReadsOn ==
    ASSUME NEW text \in Seq(Unit), NEW m \in Nat, NEW n \in Nat,
           NEW got \in Seq(Unit), NEW ch \in Seq(Unit), FromOn(got \o ch, text, m, n),
           NEW space \in Nat, NEW data \in Pieces(ch, space)
    PROVE  LET read == got \o data
           IN  /\ read \in Seq(Unit) /\ Len(read) = Len(got) + Len(data)
               /\ data \in Seq(Unit) /\ Len(data) \in 1..space /\ Len(got) \in Nat
               /\ Rest(ch, data) \in Seq(Unit) /\ Len(Rest(ch, data)) <= Len(ch)
               /\ Len(read) \in 1..(n - m) /\ n - m <= Len(text)
               /\ \A i \in 1..Len(read) : read[i] = text[m + i]
               /\ LastOf(read) = text[m + Len(read)] /\ LastOf(data) = LastOf(read)
               /\ FromOn(read \o Rest(ch, data), text, m, n)
               /\ FromOn(Rest(ch, data), text, m + Len(read), n)
               /\ Rest(ch, data) = <<>> <=> Len(read) = n - m
<1> DEFINE X    == got \o ch
           read == got \o data
           rest == Rest(ch, data)
<1>1. m <= n /\ n <= Len(text) /\ Len(X) = n - m /\ \A i \in 1..Len(X) : X[i] = text[m + i]
  BY DEF FromOn
<1>2. /\ read \in Seq(Unit) /\ Len(read) = Len(got) + Len(data)
      /\ LastOf(read) = LastOf(data) /\ read # <<>> /\ LastOf(read) = X[Len(read)]
      /\ read \o rest = X /\ \A i \in 1..Len(read) : read[i] = X[i]
      /\ Len(read) <= Len(X) /\ (rest = <<>> <=> Len(read) = Len(X))
  <2>1. /\ got \o data \in Seq(Unit) /\ Len(got \o data) = Len(got) + Len(data)
        /\ LastOf(got \o data) = LastOf(data) /\ got \o data # <<>>
        /\ LastOf(got \o data) = (got \o ch)[Len(got \o data)]
        /\ (got \o data) \o Rest(ch, data) = got \o ch
        /\ \A i \in 1..Len(got \o data) : (got \o data)[i] = (got \o ch)[i]
        /\ Len(got \o data) <= Len(got \o ch)
        /\ Rest(ch, data) = <<>> <=> Len(got \o data) = Len(got \o ch)
    BY ZenonT(30), ReadKeeps
  <2>2. QED
    BY <2>1, Zenon
<1>3. /\ data \in Seq(Unit) /\ Len(data) \in 1..space
      /\ rest \in Seq(Unit) /\ Len(rest) = Len(ch) - Len(data)
  BY PieceFacts
<1>4. Len(got) \in Nat /\ Len(ch) \in Nat /\ Len(text) \in Nat
  OBVIOUS
<1> HIDE DEF X, read, rest
<1>5. Len(read) \in Nat /\ Len(read) \in 1..(n - m) /\ n - m <= Len(text)
  BY <1>1, <1>2, <1>3, <1>4
<1>6. \A i \in 1..Len(read) : read[i] = text[m + i]
  BY <1>1, <1>2, <1>5
<1>7. LastOf(read) = text[m + Len(read)]
  BY <1>2, <1>5, <1>6 DEF LastOf
<1>8. FromOn(read \o rest, text, m, n)
  BY <1>1, <1>2 DEF FromOn
<1>9. FromOn(rest, text, m + Len(read), n)
  <2>1. /\ Len(rest) \in Nat /\ Len(X) = Len(read) + Len(rest)
        /\ \A i \in 1..Len(rest) : X[Len(read) + i] = rest[i]
    BY ZenonT(30), <1>2, <1>3, JoinOf
  <2>2. Len(rest) = n - (m + Len(read)) /\ m + Len(read) <= n
    BY <1>1, <1>5, <2>1
  <2>3. ASSUME NEW i \in 1..Len(rest) PROVE rest[i] = text[(m + Len(read)) + i]
    <3>1. Len(read) + i \in 1..Len(X) /\ m + (Len(read) + i) = (m + Len(read)) + i
      BY <1>5, <2>1
    <3>2. rest[i] = X[Len(read) + i]
      BY <2>1
    <3>3. QED
      BY <1>1, <3>1, <3>2
  <2>4. QED
    BY <1>1, <2>2, <2>3 DEF FromOn
<1>10. Len(rest) <= Len(ch)
  BY <1>3, <1>4
<1>11. rest = <<>> <=> Len(read) = n - m
  BY <1>1, <1>2
<1>12. QED
  BY <1>2, <1>3, <1>4, <1>5, <1>6, <1>7, <1>8, <1>9, <1>10, <1>11 DEF read, rest

\* The server says more: what is not in the buffer is not on the way.
LEMMA StaysSilent ==
    ASSUME NEW hear, NEW ch \in Seq(Unit), Silent(ch, hear),
           NEW out \in Seq(Unit), Silent(out, hear)
    PROVE  Silent(ch \o out, hear)
<1> DEFINE Y == ch \o out
<1>1. /\ Len(Y) = Len(ch) + Len(out) /\ Len(ch) \in Nat /\ Len(out) \in Nat
      /\ \A i \in 1..Len(ch) : Y[i] = ch[i]
      /\ \A i \in 1..Len(out) : Y[Len(ch) + i] = out[i]
  BY JoinOf
<1> HIDE DEF Y
<1>2. ASSUME NEW i \in 1..Len(Y) PROVE ~SameUnit(Y[i], hear)
  <2>1. CASE i <= Len(ch)
    <3>1. i \in 1..Len(ch)
      BY <1>1, <2>1
    <3>2. QED
      BY <1>1, <3>1 DEF Silent
  <2>2. CASE ~(i <= Len(ch))
    <3>1. PICK j \in 1..Len(out) : i = Len(ch) + j
      <4>1. i - Len(ch) \in 1..Len(out) /\ i = Len(ch) + (i - Len(ch))
        BY <1>1, <2>2
      <4>2. QED
        BY <4>1
    <3>2. Y[i] = out[j]
      BY <1>1, <3>1
    <3>3. QED
      BY <3>2 DEF Silent
  <2>3. QED
    BY <2>1, <2>2
<1>3. QED
  BY <1>2 DEF Silent, Y

LEMMA EndsIt ==
    ASSUME NEW hear, NEW ch \in Seq(Unit), Silent(ch, hear),
           NEW out \in Seq(Unit), out # <<>>, EndsOnly(out, hear)
    PROVE  EndsOnly(ch \o out, hear)
<1> DEFINE Y == ch \o out
<1>1. /\ Len(Y) = Len(ch) + Len(out) /\ Len(ch) \in Nat /\ Len(out) \in Nat
      /\ \A i \in 1..Len(ch) : Y[i] = ch[i]
      /\ \A i \in 1..Len(out) : Y[Len(ch) + i] = out[i]
  BY JoinOf
<1>2. Len(out) >= 1
  OBVIOUS
<1> HIDE DEF Y
<1>3. ASSUME NEW i \in 1..(Len(Y) - 1) PROVE ~SameUnit(Y[i], hear)
  <2>1. CASE i <= Len(ch)
    <3>1. i \in 1..Len(ch)
      BY <1>1, <2>1
    <3>2. QED
      BY <1>1, <3>1 DEF Silent
  <2>2. CASE ~(i <= Len(ch))
    <3>1. PICK j \in 1..(Len(out) - 1) : i = Len(ch) + j
      <4>1. i - Len(ch) \in 1..(Len(out) - 1) /\ i = Len(ch) + (i - Len(ch))
        BY <1>1, <2>2
      <4>2. QED
        BY <4>1
    <3>2. j \in 1..Len(out)
      BY <1>1
    <3>3. Y[i] = out[j]
      BY <1>1, <3>1, <3>2
    <3>4. QED
      BY <3>1, <3>3 DEF EndsOnly
  <2>3. QED
    BY <2>1, <2>2
<1>4. LastOf(Y) = LastOf(out)
  <2>1. Len(out) \in 1..Len(out)
    BY <1>1, <1>2
  <2>2. Y[Len(ch) + Len(out)] = out[Len(out)]
    BY <1>1, <2>1
  <2>3. QED
    BY <1>1, <2>2 DEF LastOf
<1>5. SameUnit(LastOf(Y), hear)
  BY <1>4 DEF EndsOnly
<1>6. QED
  BY <1>3, <1>5 DEF EndsOnly, Y

\* What write() took of a buffer in which only the last unit may be the awaited one.
LEMMA TakenEnds ==
    ASSUME NEW hear, NEW ch \in Seq(Unit), Len(ch) <= Cap,
           NEW buf \in Seq(Unit), NEW pos \in Nat, pos <= Len(buf),
           \A i \in 1..(Len(buf) - 1) : ~SameUnit(buf[i], hear),
           NEW out, out = Taken(ch, buf, pos)
    PROVE  /\ out \in Seq(Unit) /\ Len(out) \in Nat /\ pos + Len(out) <= Len(buf)
           /\ ch \o out \in Seq(Unit) /\ Len(ch \o out) <= Cap
           /\ pos + Len(out) # Len(buf) => Silent(out, hear)
           /\ ~SameUnit(LastOf(buf), hear) => Silent(out, hear)
           /\ SameUnit(LastOf(buf), hear) /\ pos + Len(out) = Len(buf) => EndsOnly(out, hear)
<1>1. pos \in 0..Len(buf)
  OBVIOUS
<1>2. /\ out \in Seq(Unit) /\ Len(out) \in Nat /\ pos + Len(out) <= Len(buf)
      /\ \A i \in 1..Len(out) : out[i] = buf[pos + i]
      /\ ch \o out \in Seq(Unit) /\ Len(ch \o out) <= Cap
  BY <1>1, TakenFacts
<1>3. ASSUME NEW i \in 1..Len(out), pos + i # Len(buf) PROVE ~SameUnit(out[i], hear)
  <2>1. pos + i \in 1..(Len(buf) - 1)
    BY <1>2, <1>3
  <2>2. QED
    BY <1>2, <2>1
<1>4. ASSUME pos + Len(out) # Len(buf) PROVE Silent(out, hear)
  <2>1. \A i \in 1..Len(out) : pos + i # Len(buf)
    BY <1>2, <1>4
  <2>2. QED
    BY <1>3, <2>1 DEF Silent
<1>5. ASSUME ~SameUnit(LastOf(buf), hear) PROVE Silent(out, hear)
  <2>1. ASSUME NEW i \in 1..Len(out) PROVE ~SameUnit(out[i], hear)
    <3>1. CASE pos + i = Len(buf)
      BY <1>2, <1>5, <3>1 DEF LastOf
    <3>2. QED
      BY <1>3, <3>1
  <2>2. QED
    BY <2>1 DEF Silent
<1>6. ASSUME SameUnit(LastOf(buf), hear), pos + Len(out) = Len(buf), out # <<>>
      PROVE  SameUnit(LastOf(out), hear) /\ \A i \in 1..(Len(out) - 1) : ~SameUnit(out[i], hear)
  <2>1. Len(out) \in 1..Len(out)
    BY <1>2, <1>6
  <2>2. LastOf(out) = LastOf(buf)
    BY <1>2, <1>6, <2>1 DEF LastOf
  <2>3. ASSUME NEW i \in 1..(Len(out) - 1) PROVE ~SameUnit(out[i], hear)
    <3>1. i \in 1..Len(out) /\ pos + i # Len(buf)
      BY <1>2, <1>6
    <3>2. QED
      BY <1>3, <3>1
  <2>4. QED
    BY <1>6, <2>2, <2>3
<1>7. QED
  BY <1>2, <1>4, <1>5, <1>6 DEF EndsOnly

\* The client reads a piece, and `more` is still to be written.
LEMMA HearsOn ==
    ASSUME NEW hear, NEW ch \in Seq(Unit), NEW more \in Seq(Unit),
           NEW data \in Pieces(ch, Cap)
    PROVE  LET rest == Rest(ch, data)
           IN  /\ data \in Seq(Unit) /\ Len(data) >= 1
               /\ rest \in Seq(Unit) /\ Len(rest) <= Len(ch)
               /\ Silent(ch \o more, hear) =>
                     ~SameUnit(LastOf(data), hear) /\ Silent(rest \o more, hear)
               /\ EndsOnly(ch \o more, hear) =>
                     /\ SameUnit(LastOf(data), hear) => rest \o more = <<>>
                     /\ EndsOnly(rest \o more, hear)
<1> DEFINE rest == Rest(ch, data)
           X    == ch \o more
           R    == rest \o more
<1>1. /\ data \in Seq(Unit) /\ Len(data) \in 1..Cap /\ Len(data) <= Len(ch)
      /\ rest \in Seq(Unit) /\ Len(rest) = Len(ch) - Len(data)
      /\ data \o rest = ch
  BY PieceFacts, Bounds
<1>2. Len(data) \in Nat /\ Len(data) >= 1 /\ Len(ch) \in Nat
  BY <1>1
<1>3. X = data \o R
  <2> HIDE DEF rest
  <2>1. (data \o rest) \o more = data \o (rest \o more)
    BY ZenonT(30), <1>1, JoinThree
  <2>2. QED
    BY <1>1, <2>1
<1>4. R \in Seq(Unit)
  BY <1>1, JoinOf
<1> HIDE DEF X, R, rest
<1>5. /\ Len(X) = Len(data) + Len(R) /\ Len(R) \in Nat
      /\ \A i \in 1..Len(data) : X[i] = data[i]
      /\ \A i \in 1..Len(R) : X[Len(data) + i] = R[i]
  BY <1>1, <1>3, <1>4, JoinOf
<1>6. LastOf(data) = X[Len(data)] /\ Len(data) \in 1..Len(X)
  BY <1>2, <1>5 DEF LastOf
<1>7. ASSUME Silent(X, hear) PROVE ~SameUnit(LastOf(data), hear) /\ Silent(R, hear)
  <2>1. \A i \in 1..Len(R) : Len(data) + i \in 1..Len(X)
    BY <1>2, <1>5
  <2>2. QED
    BY <1>5, <1>6, <1>7, <2>1 DEF Silent
<1>8. ASSUME EndsOnly(X, hear)
      PROVE  (SameUnit(LastOf(data), hear) => R = <<>>) /\ EndsOnly(R, hear)
  <2>1. X # <<>>
    BY <1>2, <1>5
  <2>2. SameUnit(X[Len(X)], hear) /\ \A i \in 1..(Len(X) - 1) : ~SameUnit(X[i], hear)
    BY <1>8, <2>1 DEF EndsOnly, LastOf
  <2>3. ASSUME R # <<>>
        PROVE  /\ ~SameUnit(LastOf(data), hear)
               /\ SameUnit(LastOf(R), hear)
               /\ \A i \in 1..(Len(R) - 1) : ~SameUnit(R[i], hear)
    <3>1. Len(R) >= 1
      BY <1>4, <2>3
    <3>2. Len(data) \in 1..(Len(X) - 1) /\ Len(R) \in 1..Len(R)
      BY <1>2, <1>5, <3>1
    <3>3. LastOf(R) = X[Len(X)]
      BY <1>5, <3>2 DEF LastOf
    <3>4. ASSUME NEW i \in 1..(Len(R) - 1) PROVE ~SameUnit(R[i], hear)
      <4>1. Len(data) + i \in 1..(Len(X) - 1) /\ i \in 1..Len(R)
        BY <1>2, <1>5
      <4>2. QED
        BY <1>5, <2>2, <4>1
    <3>5. QED
      BY <1>6, <2>2, <3>2, <3>3, <3>4
  <2>4. QED
    BY <2>3 DEF EndsOnly
<1>9. Len(rest) <= Len(ch)
  BY <1>1, <1>2
<1>10. QED
  BY <1>1, <1>2, <1>7, <1>8, <1>9 DEF X, R, rest
-----------------------------------------------------------------------------
(* The mio server and what is on the way.                                  *)

LEMMA HelloFacts ==
    /\ Hello \in Seq(Turns) /\ Hello # <<>> /\ Tail(Hello) = <<Hello[2]>>
    /\ Hello[1].say = Line("GET /rmbt", <<>>)
    /\ Hello[1].hear.of = "ACCEPT TOKEN" /\ Hello[1].hear.at = 2
    /\ Hello[2] \in Turns /\ Hello[2].say = Line("TOKEN", <<>>)
    /\ Hello[2].hear.of = "ACCEPT GETCHUNKS" /\ Hello[2].hear.at = 2
<1>1. PICK get \in Words, accept \in Words, token \in Words :
         get = "GET /rmbt" /\ accept = "ACCEPT TOKEN" /\ token = "TOKEN"
  BY DEF Words
<1>2. PICK line \in Seq(Unit) : line = Line(get, <<>>)
  BY ArgFacts, LineUnits
<1>3. PICK text \in Seq(Unit) : text = Line(token, <<>>)
  BY ArgFacts, LineUnits
<1>4. PICK unit \in Unit : unit = Line(accept, <<>>)[2] /\ unit.of = accept /\ unit.at = 2
  BY ArgFacts, LineUnits
<1>5. PICK mark \in Unit : mark = Accept[2]
  BY AcceptUnits
<1>6. PICK one \in Nat \ {0} : one = 1
  OBVIOUS
<1>7. Hello = <<Turn(line, unit, one), Turn(text, mark, one)>>
  BY <1>1, <1>2, <1>3, <1>4, <1>5, <1>6 DEF Hello
<1> DEFINE a == Turn(line, unit, one)
           b == Turn(text, mark, one)
<1>8. a \in Turns /\ a.say = line /\ a.hear = unit
  BY TurnFacts
<1>9. b \in Turns /\ b.say = text /\ b.hear = mark
  BY TurnFacts
<1> HIDE DEF a, b
<1>10. Hello[1] = a /\ Hello[2] = b
  BY <1>7 DEF a, b
<1>11. Hello \in Seq(Turns) /\ Hello # <<>> /\ Tail(Hello) = <<Hello[2]>>
  BY <1>7, <1>8, <1>9, <1>10, Lists DEF a, b
<1>12. Hello[1].say = Line("GET /rmbt", <<>>) /\ Hello[2].say = Line("TOKEN", <<>>)
  BY <1>1, <1>2, <1>3, <1>8, <1>9, <1>10
<1>13. Hello[1].hear.of = "ACCEPT TOKEN" /\ Hello[1].hear.at = 2
  BY <1>1, <1>4, <1>8, <1>10
<1>14. Hello[2].hear.of = "ACCEPT GETCHUNKS" /\ Hello[2].hear.at = 2
  BY <1>5, <1>9, <1>10, AcceptUnits
<1>15. QED
  BY <1>9, <1>10, <1>11, <1>12, <1>13, <1>14

LEMMA AgendaFacts ==
    ASSUME Wired
    PROVE  /\ Agenda \subseteq Seq(Turns)
           /\ \A todo \in Agenda : todo # <<>> =>
                 /\ todo[1] \in Turns /\ todo[1].say \in Seq(Unit) /\ todo[1].hear \in Unit
                 /\ todo[1].each \in Nat \ {0} /\ Tail(todo) \in Seq(Turns)
<1>1. user.todo \in Seq(Turns)
  BY DEF Wired, UserState
<1>2. Agenda \subseteq Seq(Turns)
  BY <1>1 DEF Agenda
<1>3. ASSUME NEW todo \in Seq(Turns), todo # <<>>
      PROVE  todo[1] \in Turns /\ Tail(todo) \in Seq(Turns)
  BY <1>3
<1>4. \A turn \in Turns : turn.say \in Seq(Unit) /\ turn.hear \in Unit /\ turn.each \in Nat \ {0}
  BY DEF Turns
<1>5. QED
  BY <1>2, <1>3, <1>4

\* What remains to be said in a reading phase.
LEMMA TakesToken ==
    ASSUME NEW size, NEW todo, Takes("GreetingReceiveToken", size, todo)
    PROVE  /\ todo # <<>> /\ todo[1].say = Line("TOKEN", <<>>) /\ Tail(todo) = <<>>
           /\ todo[1].hear.of = "ACCEPT GETCHUNKS" /\ todo[1].hear.at = 2
<1>1. todo = <<Hello[2]>>
  BY DEF Takes, Awaits, Takes2
<1>2. QED
  BY <1>1, HelloFacts, Lists

LEMMA TakesOk ==
    ASSUME NEW p \in Awaits, NEW size, NEW todo, Takes(p, size, todo)
    PROVE  /\ todo # <<>> /\ todo[1].say = OK /\ Tail(todo) = <<>>
           /\ todo[1].hear.of = "ACCEPT GETCHUNKS" /\ todo[1].hear.at = 2
<1>1. todo = <<LastTurn(OK)>>
  BY DEF Takes, Awaits, Takes2
<1>2. QED
  BY <1>1, OkUnits, LastTurnFacts, Lists

LEMMA TakesTwo ==
    ASSUME NEW p \in Takes2, NEW size \in Sizes, NEW todo, Takes(p, size, todo)
    PROVE  /\ todo # <<>> /\ todo[1].say = Two(size) /\ Tail(todo) = <<>>
           /\ todo[1].hear.of = "ACCEPT GETCHUNKS" /\ todo[1].hear.at = 2
<1>1. todo = <<LastTurn(Two(size))>>
  BY DEF Takes, Awaits, Takes2
<1>2. Two(size) \in Seq(Unit)
  BY SizeFacts, TwoFacts
<1>3. QED
  BY <1>1, <1>2, LastTurnFacts, Lists

LEMMA TakesPut ==
    ASSUME NEW size \in Sizes, NEW todo, Takes("PutReceiveChunk", size, todo)
    PROVE  /\ todo # <<>>
           /\ \E last \in BOOLEAN :
                 /\ todo[1].say = Chunk(size, last) /\ todo[1].hear.at = 2
                 /\ last => todo[1].hear.of = "ACCEPT GETCHUNKS" /\ Tail(todo) = <<>>
                 /\ ~last => /\ todo[1].hear.of = "TIME BYTES"
                             /\ Takes("PutReceiveChunk", size, Tail(todo))
<1>1. size \in Nat /\ size >= 2
  BY SizeFacts
<1>2. PICK yes \in BOOLEAN : yes = TRUE
  OBVIOUS
<1>3. PICK no \in BOOLEAN : no = FALSE
  OBVIOUS
<1>4. Chunk(size, yes) \in Seq(Unit)
  BY <1>1, ChunkUnits
<1> DEFINE a == PutTurn(size)
           b == LastTurn(Chunk(size, TRUE))
<1>5. /\ a \in Turns /\ a.say = Chunk(size, no)
      /\ a.hear.of = "TIME BYTES" /\ a.hear.at = 2
  BY <1>1, <1>3, PutTurnFacts
<1>6. /\ b \in Turns /\ b.say = Chunk(size, yes)
      /\ b.hear.of = "ACCEPT GETCHUNKS" /\ b.hear.at = 2
  BY <1>2, <1>4, LastTurnFacts
<1>7. Takes("PutReceiveChunk", size, <<b>>)
  BY DEF Takes
<1>8. todo = <<a, b>> \/ todo = <<b>>
  BY DEF Takes, Awaits, Takes2
<1> HIDE DEF a, b
<1>9. CASE todo = <<a, b>>
  <2>1. todo # <<>> /\ todo[1] = a /\ Tail(todo) = <<b>>
    BY <1>5, <1>6, <1>9, Lists
  <2>2. QED
    BY <1>3, <1>5, <1>7, <2>1
<1>10. CASE todo = <<b>>
  <2>1. todo # <<>> /\ todo[1] = b /\ Tail(todo) = <<>>
    BY <1>6, <1>10, Lists
  <2>2. QED
    BY <1>2, <1>6, <2>1
<1>11. QED
  BY <1>8, <1>9, <1>10

\* The scene that a phase is in.
LEMMA PhasesApart == Talking \cap Reading = {} /\ Awaits \cup Takes2 \subseteq Reading
BY DEF Talking, Reading, SpinsOnEof, Awaits, Takes2

LEMMA MioTalks ==
    ASSUME CommandsInv, server = "mio", srv.phase \in Talking
    PROVE  \E todo \in Agenda : Speaking(srv, user, toServer, toClient, todo)
<1>1. PICK todo \in Agenda : MioScene(srv, user, toServer, toClient, todo)
  BY DEF CommandsInv, MioInv
<1>2. ~Resting(srv, user, toServer, toClient, todo) /\ ~Spoken(srv, user, toServer, toClient, todo)
  BY PhasesApart DEF Resting, Spoken, Talking
<1>3. ~Listening(srv, user, toServer, toClient, todo)
  BY DEF Listening, Takes, Talking, Awaits, Takes2
<1>4. QED
  BY <1>1, <1>2, <1>3 DEF MioScene

LEMMA MioHears ==
    ASSUME CommandsInv, server = "mio", toServer # <<>>
    PROVE  \E todo \in Agenda : Listening(srv, user, toServer, toClient, todo)
<1>1. PICK todo \in Agenda : MioScene(srv, user, toServer, toClient, todo)
  BY DEF CommandsInv, MioInv
<1>2. /\ ~Resting(srv, user, toServer, toClient, todo)
      /\ ~Speaking(srv, user, toServer, toClient, todo)
      /\ ~Spoken(srv, user, toServer, toClient, todo)
  BY DEF Resting, Speaking, Spoken
<1>3. QED
  BY <1>1, <1>2 DEF MioScene

LEMMA MioStays ==
    ASSUME CommandsInv, server = "mio", UNCHANGED <<gone, server, task, user>>,
           splitOk' \in BOOLEAN,
           toServer' \in Seq(Unit), Len(toServer') <= Cap,
           toClient' \in Seq(Unit), Len(toClient') <= Cap,
           Sound(srv', user), NoErr(toClient'),
           NEW todo \in Agenda, MioScene(srv', user, toServer', toClient', todo)
    PROVE  CommandsInv'
<1>1. Wired'
  BY DEF CommandsInv, Wired
<1>2. todo \in Agenda'
  BY DEF Agenda
<1>3. MioInv'
  BY <1>2 DEF MioInv
<1>4. TaskInit'
  BY DEF CommandsInv, TaskInit
<1>5. server' = "mio"
  OBVIOUS
<1>6. QED
  BY <1>1, <1>3, <1>4, <1>5 DEF CommandsInv

\* After an upload the clock may go on.
LEMMA RestsAfter ==
    ASSUME NEW clock, NEW u, Ticks(clock, u), u.cmd \in Uploads
    PROVE  Rested(clock, u.cmd)
BY DEF Ticks, Rested, Uploads

LEMMA RestsFirst ==
    ASSUME NEW clock, NEW u, Ticks(clock, u), u.cmd = "none", u.last = "none"
    PROVE  clock = "none"
BY DEF Ticks, Uploads
-----------------------------------------------------------------------------
(* The mio server writes.                                                  *)

LEMMA ErrUnits == Err[1].of = "ERR" /\ Err[1].at = 1 /\ Err \in Seq(Unit) /\ Len(Err) = 2
<1>1. PICK word \in Words : word = "ERR"
  BY DEF Words
<1>2. QED
  BY <1>1, ArgFacts, LineUnits DEF Err

LEMMA LineSaid ==
    ASSUME NEW hear, NEW ch \in Seq(Unit), Len(ch) <= Cap, NoErr(ch), Silent(ch, hear),
           NEW of \in Words, of # "ERR", NEW arg \in Seq(Nat), hear.of = of => hear.at = 2,
           NEW pos \in {0, 1}, NEW out, out = Taken(ch, Line(of, arg), pos)
    PROVE  /\ out \in Seq(Unit) /\ Len(out) \in Nat /\ pos + Len(out) <= 2
           /\ ch \o out \in Seq(Unit) /\ Len(ch \o out) <= Cap /\ NoErr(ch \o out)
           /\ of # hear.of \/ pos + Len(out) # 2 => Silent(ch \o out, hear)
           /\ of = hear.of /\ pos + Len(out) = 2 /\ out # <<>> => EndsOnly(ch \o out, hear)
<1> DEFINE buf == Line(of, arg)
<1>1. /\ buf \in Seq(Unit) /\ Len(buf) = 2
      /\ buf[1].of = of /\ buf[1].at = 1 /\ buf[2].of = of /\ buf[2].at = 2
  BY LineUnits
<1>2. out = Taken(ch, buf, pos)
  OBVIOUS
<1> HIDE DEF buf
<1>3. pos \in Nat /\ pos <= Len(buf)
  BY <1>1
<1>4. LastOf(buf) = buf[2] /\ \A i \in 1..(Len(buf) - 1) : buf[i] = buf[1]
  BY <1>1 DEF LastOf
<1>5. /\ \A i \in 1..(Len(buf) - 1) : ~SameUnit(buf[i], hear)
      /\ SameUnit(LastOf(buf), hear) <=> of = hear.of
  BY <1>1, <1>4 DEF SameUnit
<1>6. /\ \A i \in 1..(Len(buf) - 1) : ~SameUnit(buf[i], Err[1])
      /\ ~SameUnit(LastOf(buf), Err[1])
  BY <1>1, <1>4, ErrUnits DEF SameUnit
<1>7. /\ out \in Seq(Unit) /\ Len(out) \in Nat /\ pos + Len(out) <= Len(buf)
      /\ ch \o out \in Seq(Unit) /\ Len(ch \o out) <= Cap
      /\ pos + Len(out) # Len(buf) => Silent(out, hear)
      /\ ~SameUnit(LastOf(buf), hear) => Silent(out, hear)
      /\ SameUnit(LastOf(buf), hear) /\ pos + Len(out) = Len(buf) => EndsOnly(out, hear)
  BY <1>1, <1>2, <1>3, <1>5, TakenEnds
<1>8. Silent(out, Err[1])
  BY <1>1, <1>2, <1>3, <1>6, TakenEnds
<1>9. NoErr(ch \o out)
  BY <1>7, <1>8, StaysSilent DEF NoErr
<1>10. ASSUME of # hear.of \/ pos + Len(out) # 2 PROVE Silent(ch \o out, hear)
  <2>1. Silent(out, hear)
    BY <1>1, <1>5, <1>7, <1>10
  <2>2. QED
    BY <1>7, <2>1, StaysSilent
<1>11. ASSUME of = hear.of, pos + Len(out) = 2, out # <<>> PROVE EndsOnly(ch \o out, hear)
  <2>1. EndsOnly(out, hear)
    BY <1>1, <1>5, <1>7, <1>11
  <2>2. QED
    BY <1>7, <1>11, <2>1, EndsIt
<1>12. QED
  BY <1>1, <1>7, <1>9, <1>10, <1>11

\* All of a turn of the server that says a line: before it is through, and then.
Holds == {"PutSendBytes", "PutSendTime"}
ToRest == {"AcceptCommandSend", "PingSendTime", "AcceptCommandReceive"}
Plain == Talking \ (Bulk \cup BulkTime \cup Quiet)
Carries(s, p) ==
    /\ s.phase = p /\ s.got = srv.got /\ s.size = srv.size /\ s.done = srv.done
    /\ s.clock \in {srv.clock, user.cmd}
    /\ p \in ToRest => s.clock = srv.clock
Leads(p, of, s) ==
    /\ Sound(s, user) /\ s.size = srv.size
    /\ s.phase \notin Quiet
    /\ s.phase \in ToRest => Rested(s.clock, user.cmd)
    /\ s.got = Kept(s.phase, srv.got)
    /\ s.phase \in Holds => p \in Holds
    /\ \A w, q : Answers(p, srv.got, w, q) =>
          IF w = of THEN s.phase = q /\ s.got = <<>> ELSE Answers(s.phase, s.got, w, q)

LEMMA KeptTwice ==
    ASSUME NEW p, NEW q, q \in Holds => p \in Holds, NEW text
    PROVE  Kept(q, Kept(p, text)) = Kept(q, text)
BY DEF Kept, Holds

\* The line is through.
LEMMA LineIsThrough ==
    ASSUME CommandsInv, NEW p \in Talking, srv.phase = p, NEW of \in Words,
           NEW todo \in Agenda, Speaking(srv, user, toServer, toClient, todo),
           NEW s, Leads(p, of, s), NEW tc,
           of # todo[1].hear.of => Silent(tc, todo[1].hear),
           of = todo[1].hear.of => EndsOnly(tc, todo[1].hear)
    PROVE  MioScene(s, user, toServer, tc, todo)
<1>1. /\ todo # <<>> /\ user.said = Len(todo[1].say) /\ toServer = <<>>
      /\ srv.got = Kept(p, todo[1].say)
      /\ todo[1].hear.at = IF todo[1].hear.of = "FF" THEN 1 ELSE 2
  BY DEF Speaking
<1>2. PICK q \in Reading : /\ Answers(p, srv.got, todo[1].hear.of, q)
                           /\ Takes(q, srv.size, Tail(todo))
  BY DEF Speaking
<1>3. s.size = srv.size /\ s.phase \notin Quiet /\ (s.phase \in ToRest => Rested(s.clock, user.cmd))
  BY DEF Leads
<1>4. CASE todo[1].hear.of = of
  <2>1. s.phase = q /\ s.got = <<>>
    BY <1>2, <1>4 DEF Leads
  <2>2. Spoken(s, user, toServer, tc, todo)
    BY <1>1, <1>2, <1>3, <1>4, <2>1 DEF Spoken, ToRest
  <2>3. QED
    BY <2>2 DEF MioScene
<1>5. CASE todo[1].hear.of # of
  <2>1. Answers(s.phase, s.got, todo[1].hear.of, q)
    BY <1>2, <1>5 DEF Leads
  <2>2. s.got = Kept(s.phase, todo[1].say)
    <3>1. s.got = Kept(s.phase, srv.got) /\ (s.phase \in Holds => p \in Holds)
      BY DEF Leads
    <3>2. Kept(s.phase, Kept(p, todo[1].say)) = Kept(s.phase, todo[1].say)
      BY <3>1, KeptTwice
    <3>3. QED
      BY <1>1, <3>1, <3>2
  <2>3. Speaking(s, user, toServer, tc, todo)
    BY <1>1, <1>2, <1>3, <1>5, <2>1, <2>2 DEF Speaking, ToRest
  <2>4. QED
    BY <2>3 DEF MioScene
<1>6. QED
  BY <1>4, <1>5

\* There is more of it, or of a chunk, to be written.
LEMMA MoreToWrite ==
    ASSUME CommandsInv, NEW p \in Talking \ Quiet, srv.phase = p,
           NEW todo \in Agenda, Speaking(srv, user, toServer, toClient, todo),
           NEW s, Carries(s, p), NEW tc, Silent(tc, todo[1].hear)
    PROVE  MioScene(s, user, toServer, tc, todo)
<1>1. /\ todo # <<>> /\ user.said = Len(todo[1].say) /\ toServer = <<>>
      /\ srv.got = Kept(p, todo[1].say)
      /\ todo[1].hear.at = IF todo[1].hear.of = "FF" THEN 1 ELSE 2
      /\ p \in {"AcceptCommandSend", "PingSendTime"} => Rested(srv.clock, user.cmd)
  BY DEF Speaking
<1>2. PICK q \in Reading : /\ Answers(p, srv.got, todo[1].hear.of, q)
                           /\ Takes(q, srv.size, Tail(todo))
  BY DEF Speaking
<1>3. s.phase = p /\ s.got = srv.got /\ s.size = srv.size /\ (p \in ToRest => s.clock = srv.clock)
  BY DEF Carries
<1>4. p \in {"AcceptCommandSend", "PingSendTime"} => Rested(s.clock, user.cmd)
  BY <1>1, <1>3 DEF ToRest
<1>5. Speaking(s, user, toServer, tc, todo)
  BY <1>1, <1>2, <1>3, <1>4 DEF Speaking
<1>6. QED
  BY <1>5 DEF MioScene

LEMMA TicksOn ==
    ASSUME NEW u, NEW clock, NEW then, Ticks(clock, u), then \in {clock, u.cmd, "none"}
    PROVE  Ticks(then, u)
BY DEF Ticks

LEMMA LineWrites ==
    ASSUME CommandsInv, server = "mio", UNCHANGED <<server, task, user>>,
           NEW p \in Plain, NEW of \in Words, of # "ERR", of # "FF", NEW arg \in Seq(Nat),
           NEW pos \in {0, srv.wpos},
           NEW begun \in SrvState, Carries(begun, p),
           NEW fin, Leads(p, of, fin),
           SrvWritesFrom(p, pos, Line(of, arg), begun, fin)
    PROVE  CommandsInv'
<1> DEFINE out == Taken(toClient, Line(of, arg), pos)
<1>1. /\ srv.phase = p /\ out # <<>> /\ toClient' = toClient \o out
      /\ srv' = IF pos + Len(out) = Len(Line(of, arg)) THEN fin
                ELSE [begun EXCEPT !.wpos = pos + Len(out)]
      /\ UNCHANGED <<toServer, gone, splitOk>>
  BY DEF SrvWritesFrom, At
<1>2. p \in Talking /\ p \notin Bulk \cup BulkTime /\ p \notin Quiet /\ p \in Talking \ Quiet
  BY DEF Plain
<1>3. /\ Wired /\ Sound(srv, user) /\ NoErr(toClient)
      /\ toClient \in Seq(Unit) /\ Len(toClient) <= Cap
      /\ toServer \in Seq(Unit) /\ Len(toServer) <= Cap /\ splitOk \in BOOLEAN
  BY DEF CommandsInv, MioInv, Wired
<1>4. PICK todo \in Agenda : Speaking(srv, user, toServer, toClient, todo)
  BY <1>1, <1>2, MioTalks
<1>5. /\ Silent(toClient, todo[1].hear)
      /\ todo[1].hear.of = of => todo[1].hear.at = 2
  BY <1>4 DEF Speaking
<1>6. pos \in {0, 1}
  <2>1. srv.wpos \in Nat /\ srv.wpos < 2
    BY <1>1, <1>2, <1>3 DEF Sound, Positions, SrvState
  <2>2. QED
    BY <2>1
<1>7. Len(Line(of, arg)) = 2
  BY LineUnits
<1> HIDE DEF out
<1>8. out = Taken(toClient, Line(of, arg), pos)
  BY DEF out
<1>9. /\ out \in Seq(Unit) /\ Len(out) \in Nat /\ pos + Len(out) <= 2
      /\ toClient' \in Seq(Unit) /\ Len(toClient') <= Cap /\ NoErr(toClient')
      /\ of # todo[1].hear.of \/ pos + Len(out) # 2 => Silent(toClient', todo[1].hear)
      /\ of = todo[1].hear.of /\ pos + Len(out) = 2 => EndsOnly(toClient', todo[1].hear)
  BY <1>1, <1>3, <1>5, <1>6, <1>8, LineSaid
<1>10. CASE pos + Len(out) = 2
  <2>1. srv' = fin
    BY <1>1, <1>7, <1>10
  <2>2. MioScene(fin, user, toServer, toClient', todo)
    BY <1>1, <1>2, <1>4, <1>9, <1>10, LineIsThrough
  <2>3. Sound(fin, user)
    BY DEF Leads
  <2>4. QED
    BY <1>1, <1>3, <1>9, <2>1, <2>2, <2>3, MioStays
<1>11. CASE pos + Len(out) # 2
  <2>1. srv' = [begun EXCEPT !.wpos = pos + Len(out)]
    BY <1>1, <1>7, <1>11
  <2>2. pos + Len(out) \in Nat /\ pos + Len(out) < 2
    BY <1>6, <1>9, <1>11
  <2>3. /\ srv' \in SrvState /\ srv'.wpos = pos + Len(out)
        /\ srv'.phase = begun.phase /\ srv'.got = begun.got /\ srv'.size = begun.size
        /\ srv'.done = begun.done /\ srv'.clock = begun.clock
    BY <2>1, <2>2 DEF SrvState
  <2>4. Carries(srv', p)
    BY <2>3 DEF Carries
  <2>5. Sound(srv', user)
    <3>1. /\ srv.size \in {0} \cup Sizes /\ Positions(srv) /\ Owned(srv, user.cmd)
          /\ Ticks(srv.clock, user)
      BY <1>3 DEF Sound, SrvState
    <3>2. Ticks(srv'.clock, user)
      BY <2>4, <3>1, TicksOn DEF Carries
    <3>3. Owned(srv', user.cmd)
      BY <1>1, <2>4, <3>1 DEF Owned, Carries
    <3>4. p \notin Reading \cup {"GetChunksSendTime", "GetTimeSendTime"}
      BY <1>2, PhasesApart DEF Quiet
    <3>5. p \notin Counts
      BY <1>2 DEF Bulk
    <3>6. Positions(srv')
      BY <1>1, <1>2, <2>2, <2>3, <2>4, <3>1, <3>4, <3>5 DEF Positions, Carries
    <3>7. QED
      BY <2>3, <3>2, <3>3, <3>6 DEF Sound
  <2>6. MioScene(srv', user, toServer, toClient', todo)
    BY <1>1, <1>2, <1>4, <1>9, <1>11, <2>4, MoreToWrite
  <2>7. QED
    BY <1>1, <1>3, <1>9, <2>5, <2>6, MioStays
<1>12. QED
  BY <1>10, <1>11
-----------------------------------------------------------------------------
(* The lines of the mio server.                                            *)

LEMMA OwnerIs ==
    ASSUME NEW cmd \in Asked \cup {"none"}, NEW own \in Asked \cup {"none"}, NEW s,
           Owned(s, own), s.phase \in OwnPhases(cmd)
    PROVE  own = cmd
<1>1. OwnPhases("QUIT") = {}
  BY DEF OwnPhases
<1>2. s.phase \notin {"AcceptCommandSend", "AcceptCommandReceive"}
  BY DEF OwnPhases, Greets, Asked
<1>3. s.phase \in OwnPhases(own)
  BY <1>2 DEF Owned
<1>4. QED
  BY <1>3 DEF OwnPhases, Greets, Asked

LEMMA MioFacts ==
    ASSUME CommandsInv, server = "mio"
    PROVE  /\ Wired /\ Sound(srv, user) /\ NoErr(toClient)
           /\ srv \in SrvState /\ Positions(srv) /\ Owned(srv, user.cmd) /\ Ticks(srv.clock, user)
           /\ user.cmd \in Asked \cup {"none"} /\ (user.cmd = "none" => user.last = "none")
           /\ toServer \in Seq(Unit) /\ Len(toServer) <= Cap
           /\ toClient \in Seq(Unit) /\ Len(toClient) <= Cap
           /\ splitOk \in BOOLEAN
BY DEF CommandsInv, MioInv, Sound, Wired, UserState

LEMMA StateFacts ==
    ASSUME NEW s \in SrvState
    PROVE  /\ s.phase \in Talking \cup Reading /\ s.got \in Seq(Unit) /\ s.wpos \in Nat
           /\ s.size \in {0} \cup Sizes /\ s.num \in Nat /\ s.done \in Nat
           /\ s.clock \in Uploads \cup {"none", "GETCHUNKS", "PING", "GETTIME"}
           /\ s.time \in {0, 1} /\ s.over \in BOOLEAN /\ s.made \in {0} \cup (Sizes \ Stored)
           /\ s.points \in Nat /\ Len(s.got) \in Nat
BY DEF SrvState

LEMMA TimeSizes ==
    ASSUME NEW s \in SrvState, s.size \in Sizes
    PROVE  TimeSize(s) \in Sizes /\ (s.size \notin Stored /\ s.made # 0 => TimeSize(s) = s.made)
BY StateFacts DEF TimeSize

\* The server goes on to the start of another phase of the same command.
LEMMA SoundNext ==
    ASSUME Sound(srv, user), NEW s \in SrvState, s.wpos = 0, s.done = 0, Len(s.got) <= MaxChunk,
           s.size = srv.size, s.phase \in Sized => srv.phase \in Sized,
           s.phase \in {"AcceptCommandSend", "AcceptCommandReceive"} \cup OwnPhases(user.cmd),
           s.clock \in {srv.clock, user.cmd, "none"}
    PROVE  Sound(s, user)
<1>1. Owned(srv, user.cmd) /\ Ticks(srv.clock, user)
  BY DEF Sound
<1>2. Owned(s, user.cmd)
  BY <1>1 DEF Owned
<1>3. Ticks(s.clock, user)
  BY <1>1, TicksOn
<1>4. s.phase \in Bulk \cup BulkTime => s.size \in Sizes
  BY <1>2 DEF Owned, Sized, Bulk, BulkTime, Counts
<1>5. s.phase \in Bulk => 0 < s.size
  BY <1>4, SizeFacts
<1>6. s.phase \in BulkTime => 0 < TimeSize(s)
  BY <1>4, SizeFacts, TimeSizes
<1>7. Positions(s)
  BY <1>5, <1>6 DEF Positions
<1>8. QED
  BY <1>2, <1>3, <1>7 DEF Sound

LEMMA AnewIs ==
    ASSUME srv \in SrvState, NEW q \in Talking \cup Reading
    PROVE  /\ Anew(q) \in SrvState /\ Anew(q).phase = q /\ Anew(q).got = <<>> /\ Anew(q).wpos = 0
           /\ Anew(q).size = srv.size /\ Anew(q).done = srv.done /\ Anew(q).clock = srv.clock
           /\ Len(Anew(q).got) = 0
<1>1. <<>> \in Seq(Unit) /\ Len(<<>>) = 0
  OBVIOUS
<1>2. /\ Anew(q) \in SrvState /\ Anew(q).phase = q /\ Anew(q).got = <<>> /\ Anew(q).wpos = 0
      /\ Anew(q).size = srv.size /\ Anew(q).done = srv.done /\ Anew(q).clock = srv.clock
  BY <1>1 DEF Anew, SrvState
<1>3. QED
  BY <1>1, <1>2

LEMMA SaysIs ==
    ASSUME srv \in SrvState, NEW q \in Talking \cup Reading
    PROVE  /\ Says(q) \in SrvState /\ Says(q).phase = q /\ Says(q).got = srv.got /\ Says(q).wpos = 0
           /\ Says(q).size = srv.size /\ Says(q).done = srv.done /\ Says(q).clock = srv.clock
BY DEF Says, SrvState

\* A phase in which nothing is counted, and what is left of the text that was heard.
LEMMA PlainFacts ==
    ASSUME CommandsInv, server = "mio", srv.phase \in Plain
    PROVE  /\ srv.done = 0 /\ Carries(srv, srv.phase)
           /\ srv.phase \notin Holds => srv.got = <<>>
           /\ srv.phase \in ToRest => Rested(srv.clock, user.cmd)
<1>1. srv.phase \in Talking /\ srv.phase \notin Counts
  BY DEF Plain, Bulk
<1>2. srv.done = 0
  BY <1>1, MioFacts DEF Positions
<1>3. PICK todo \in Agenda : Speaking(srv, user, toServer, toClient, todo)
  BY <1>1, MioTalks
<1>4. srv.phase \notin Holds => srv.got = <<>>
  BY <1>3 DEF Speaking, Kept, Holds
<1>5. srv.phase # "AcceptCommandReceive"
  BY <1>1 DEF Talking
<1>6. srv.phase \in ToRest => Rested(srv.clock, user.cmd)
  BY <1>3, <1>5 DEF Speaking, ToRest
<1>7. QED
  BY <1>2, <1>4, <1>6 DEF Carries

LEMMA OwnedNext ==
    ASSUME CommandsInv, server = "mio",
           NEW cmd \in Asked \cup {"none"}, srv.phase \in OwnPhases(cmd)
    PROVE  user.cmd = cmd
<1>1. Owned(srv, user.cmd) /\ user.cmd \in Asked \cup {"none"}
  BY MioFacts
<1>2. QED
  BY <1>1, OwnerIs

\* The lines that are said as they are: the phase, the word, the phase that follows and the
\* command that both belong to.
PlainTurn(p, of, q, cmd) ==
    \/ p = "GreetingSendVersion" /\ of = "RMBT" /\ q = "GreetingSendAcceptToken" /\ cmd = "none"
    \/ p = "GreetingSendAcceptToken" /\ of = "ACCEPT TOKEN" /\ q = "GreetingReceiveToken"
          /\ cmd = "none"
    \/ p = "GreetingSendOk" /\ of = "OK" /\ q = "GreetingSendChunksize" /\ cmd = "none"
    \/ p = "GreetingSendChunksize" /\ of = "CHUNKSIZE" /\ q = "AcceptCommandSend" /\ cmd = "none"
    \/ p = "PingSendTime" /\ of = "TIME" /\ q = "AcceptCommandSend" /\ cmd = "PING"
    \/ p = "PutSendTime" /\ of = "TIME" /\ q = "AcceptCommandSend" /\ cmd = "PUT"
    \/ p = "PutNoResultSendTime" /\ of = "TIME" /\ q = "AcceptCommandSend" /\ cmd = "PUTNORESULT"
    \/ p = "AcceptCommandSend" /\ of = "ACCEPT GETCHUNKS" /\ q = "AcceptCommandReceive"
          /\ cmd = "none"

LEMMA PlainTurns ==
    ASSUME NEW p, NEW of, NEW q, NEW cmd, PlainTurn(p, of, q, cmd)
    PROVE  /\ p \in Plain /\ of \in Words /\ of # "ERR" /\ of # "FF"
           /\ q \in Talking \cup Reading /\ q \notin Holds /\ q \notin Quiet /\ q \notin Sized
           /\ cmd \in Asked \cup {"none"}
           /\ p \in OwnPhases(cmd) \/ p = "AcceptCommandSend"
           /\ q \in {"AcceptCommandSend", "AcceptCommandReceive"}
              \/ (p \in OwnPhases(cmd) /\ q \in OwnPhases(cmd))
           /\ q \in ToRest => p \in ToRest \/ cmd \in Uploads \cup {"none"}
           /\ \A text, w, r : Answers(p, text, w, r) =>
                 IF w = of THEN q = r ELSE Answers(q, <<>>, w, r)
<1>1. p \in Plain /\ of \in Words /\ of # "ERR" /\ of # "FF"
  BY DEF PlainTurn, Plain, Talking, Bulk, BulkTime, Counts, Quiet, Words
<1>2. q \in Talking \cup Reading /\ q \notin Holds /\ q \notin Quiet /\ q \notin Sized
  BY DEF PlainTurn, Talking, Reading, SpinsOnEof, Holds, Quiet, Sized, Takes2
<1>3. cmd \in Asked \cup {"none"}
  BY DEF PlainTurn, Asked
<1>4. p \in OwnPhases(cmd) \/ p = "AcceptCommandSend"
  BY DEF PlainTurn, OwnPhases, Greets
<1>5. q \in {"AcceptCommandSend", "AcceptCommandReceive"}
        \/ (p \in OwnPhases(cmd) /\ q \in OwnPhases(cmd))
  BY DEF PlainTurn, OwnPhases, Greets
<1>6. q \in ToRest => p \in ToRest \/ cmd \in Uploads \cup {"none"}
  BY DEF PlainTurn, ToRest, Uploads
<1>7. ASSUME NEW text, NEW w, NEW r, Answers(p, text, w, r)
      PROVE  IF w = of THEN q = r ELSE Answers(q, <<>>, w, r)
  BY <1>7 DEF PlainTurn, Answers, Counts, BulkTime, ToAccept
<1>8. QED
  BY <1>1, <1>2, <1>3, <1>4, <1>5, <1>6, <1>7

LEMMA PlainLine ==
    ASSUME CommandsInv, server = "mio", UNCHANGED <<server, task, user>>,
           NEW p, NEW of, NEW q, NEW cmd, PlainTurn(p, of, q, cmd), NEW arg \in Seq(Nat),
           NEW fin, fin = Anew(q) \/ (fin = Says(q) /\ p \notin Holds),
           SrvWrites(p, Line(of, arg), srv, fin)
    PROVE  CommandsInv'
<1>1. /\ srv \in SrvState /\ Sound(srv, user) /\ Ticks(srv.clock, user)
      /\ user.cmd = "none" => user.last = "none"
  BY MioFacts
<1>2. srv.phase = p /\ SrvWritesFrom(p, srv.wpos, Line(of, arg), srv, fin)
  BY DEF SrvWrites, SrvWritesFrom, At
<1>3. /\ p \in Plain /\ of \in Words /\ of # "ERR" /\ of # "FF"
      /\ q \in Talking \cup Reading /\ q \notin Holds /\ q \notin Quiet /\ q \notin Sized
      /\ cmd \in Asked \cup {"none"}
  BY PlainTurns
<1>4. /\ p \in OwnPhases(cmd) \/ p = "AcceptCommandSend"
      /\ q \in {"AcceptCommandSend", "AcceptCommandReceive"}
         \/ (p \in OwnPhases(cmd) /\ q \in OwnPhases(cmd))
      /\ q \in ToRest => p \in ToRest \/ cmd \in Uploads \cup {"none"}
  BY PlainTurns
<1>5. \A w, r : Answers(p, srv.got, w, r) => IF w = of THEN q = r ELSE Answers(q, <<>>, w, r)
  BY PlainTurns
<1>6. /\ srv.done = 0 /\ Carries(srv, p) /\ (p \notin Holds => srv.got = <<>>)
      /\ p \in ToRest => Rested(srv.clock, user.cmd)
  BY <1>2, <1>3, PlainFacts
<1>7. /\ fin \in SrvState /\ fin.phase = q /\ fin.got = <<>> /\ fin.wpos = 0
      /\ fin.size = srv.size /\ fin.done = 0 /\ fin.clock = srv.clock
  <2>1. CASE fin = Anew(q)
    BY <1>1, <1>3, <1>6, <2>1, AnewIs
  <2>2. CASE fin = Says(q) /\ p \notin Holds
    BY <1>1, <1>3, <1>6, <2>2, SaysIs
  <2>3. QED
    BY <2>1, <2>2
<1>8. p \in OwnPhases(cmd) => user.cmd = cmd
  BY <1>2, <1>3, OwnedNext
<1>9. q \in {"AcceptCommandSend", "AcceptCommandReceive"} \cup OwnPhases(user.cmd)
  BY <1>4, <1>8
<1>10. q \in ToRest => Rested(srv.clock, user.cmd)
  <2>1. CASE p \in ToRest
    BY <1>6, <2>1
  <2>2. ASSUME q \in ToRest, p \notin ToRest PROVE Rested(srv.clock, user.cmd)
    <3>1. user.cmd = cmd /\ cmd \in Uploads \cup {"none"}
      BY <1>4, <1>8, <2>2 DEF ToRest
    <3>2. CASE cmd \in Uploads
      BY <1>1, <3>1, <3>2, RestsAfter
    <3>3. CASE cmd = "none"
      BY <1>1, <3>1, <3>3, RestsFirst DEF Rested
    <3>4. QED
      BY <3>1, <3>2, <3>3
  <2>3. QED
    BY <2>1, <2>2
<1>11. Len(fin.got) <= MaxChunk
  BY <1>7, Bounds
<1>12. Sound(fin, user)
  BY <1>1, <1>3, <1>7, <1>9, <1>11, SoundNext
<1>13. fin.got = Kept(fin.phase, srv.got)
  BY <1>3, <1>7 DEF Kept, Holds
<1>14. Leads(p, of, fin)
  BY <1>3, <1>5, <1>7, <1>10, <1>12, <1>13 DEF Leads
<1>15. srv.wpos \in {0, srv.wpos}
  OBVIOUS
<1>16. QED
  BY <1>1, <1>2, <1>3, <1>6, <1>14, <1>15, LineWrites

LEMMA PlainLines ==
    ASSUME CommandsInv, server = "mio", UNCHANGED <<server, task, user>>,
           \/ handle_greeting_send_version \/ handle_greeting_send_accept_token
           \/ handle_greeting_send_ok \/ handle_greeting_send_chunksize
           \/ handle_main_command_send \/ handle_ping_send_time
           \/ handle_put_send_time \/ handle_put_no_result_send_time
    PROVE  CommandsInv'
<1>1. <<>> \in Seq(Nat) /\ <<srv.time>> \in Seq(Nat)
  BY MioFacts, StateFacts, ArgFacts
<1>2. ASSUME NEW p, NEW of, NEW q, NEW cmd, PlainTurn(p, of, q, cmd),
             NEW arg \in {<<>>, <<srv.time>>},
             \/ SrvWrites(p, Line(of, arg), srv, Anew(q))
             \/ p \notin Holds /\ SrvWrites(p, Line(of, arg), srv, Says(q))
      PROVE  CommandsInv'
  <2>1. arg \in Seq(Nat)
    BY <1>1
  <2>2. CASE SrvWrites(p, Line(of, arg), srv, Anew(q))
    BY <1>2, <2>1, <2>2, PlainLine
  <2>3. CASE p \notin Holds /\ SrvWrites(p, Line(of, arg), srv, Says(q))
    BY <1>2, <2>1, <2>3, PlainLine
  <2>4. QED
    BY <1>2, <2>2, <2>3
<1>3. CASE handle_greeting_send_version
  <2>1. PlainTurn("GreetingSendVersion", "RMBT", "GreetingSendAcceptToken", "none")
    BY DEF PlainTurn
  <2>2. QED
    BY <1>2, <1>3, <2>1 DEF handle_greeting_send_version
<1>4. CASE handle_greeting_send_accept_token
  <2>1. PlainTurn("GreetingSendAcceptToken", "ACCEPT TOKEN", "GreetingReceiveToken", "none")
    BY DEF PlainTurn
  <2>2. QED
    BY <1>2, <1>4, <2>1 DEF handle_greeting_send_accept_token
<1>5. CASE handle_greeting_send_ok
  <2>1. PlainTurn("GreetingSendOk", "OK", "GreetingSendChunksize", "none")
    BY DEF PlainTurn
  <2>2. "GreetingSendOk" \notin Holds
    BY DEF Holds
  <2>3. QED
    BY <1>2, <1>5, <2>1, <2>2 DEF handle_greeting_send_ok, OK
<1>6. CASE handle_greeting_send_chunksize
  <2>1. PlainTurn("GreetingSendChunksize", "CHUNKSIZE", "AcceptCommandSend", "none")
    BY DEF PlainTurn
  <2>2. "GreetingSendChunksize" \notin Holds
    BY DEF Holds
  <2>3. QED
    BY <1>2, <1>6, <2>1, <2>2 DEF handle_greeting_send_chunksize
<1>7. CASE handle_main_command_send
  <2>1. PlainTurn("AcceptCommandSend", "ACCEPT GETCHUNKS", "AcceptCommandReceive", "none")
    BY DEF PlainTurn
  <2>2. QED
    BY <1>2, <1>7, <2>1 DEF handle_main_command_send, Accept
<1>8. CASE handle_ping_send_time
  <2>1. PlainTurn("PingSendTime", "TIME", "AcceptCommandSend", "PING")
    BY DEF PlainTurn
  <2>2. QED
    BY <1>2, <1>8, <2>1 DEF handle_ping_send_time
<1>9. CASE handle_put_send_time
  <2>1. PlainTurn("PutSendTime", "TIME", "AcceptCommandSend", "PUT")
    BY DEF PlainTurn
  <2>2. QED
    BY <1>2, <1>9, <2>1 DEF handle_put_send_time
<1>10. CASE handle_put_no_result_send_time
  <2>1. PlainTurn("PutNoResultSendTime", "TIME", "AcceptCommandSend", "PUTNORESULT")
    BY DEF PlainTurn
  <2>2. QED
    BY <1>2, <1>10, <2>1 DEF handle_put_no_result_send_time
<1>11. QED
  BY <1>3, <1>4, <1>5, <1>6, <1>7, <1>8, <1>9, <1>10
-----------------------------------------------------------------------------
(* The answers that start a clock, and the reports of time.                *)

LEMMA StartsLine ==
    ASSUME CommandsInv, server = "mio", UNCHANGED <<server, task, user>>,
           NEW cmd \in Asked, NEW p \in Plain, p \notin ToRest, p \notin Holds, p \in OwnPhases(cmd),
           NEW of \in Words, of # "ERR", of # "FF",
           NEW q \in Reading, q \notin ToRest, q \in OwnPhases(cmd), q \in Sized => p \in Sized,
           \A text, w, r : Answers(p, text, w, r) => w = of /\ r = q,
           NEW pos \in {0, srv.wpos},
           NEW begun \in SrvState, begun.phase = p, begun.got = srv.got, begun.size = srv.size,
           begun.done = srv.done, begun.clock \in {srv.clock, cmd},
           NEW fin \in SrvState, fin.phase = q, fin.got = <<>>, fin.size = srv.size,
           fin.done = srv.done, fin.clock \in {srv.clock, cmd}, fin.wpos = 0,
           SrvWritesFrom(p, pos, Line(of, <<>>), begun, fin)
    PROVE  CommandsInv'
<1>1. srv.phase = p
  BY DEF SrvWritesFrom, At
<1>2. user.cmd = cmd
  BY <1>1, OwnedNext
<1>3. srv.done = 0 /\ Sound(srv, user)
  BY <1>1, PlainFacts, MioFacts
<1>4. Carries(begun, p)
  BY <1>2 DEF Carries
<1>5. Len(fin.got) <= MaxChunk
  BY Bounds
<1>6. Sound(fin, user)
  BY <1>1, <1>2, <1>3, <1>5, SoundNext
<1>7. q \notin Quiet /\ q \notin Holds
  BY PhasesApart DEF Quiet, Holds, Talking
<1>8. fin.got = Kept(fin.phase, srv.got)
  BY <1>7 DEF Kept, Holds
<1>9. Leads(p, of, fin)
  BY <1>6, <1>7, <1>8 DEF Leads
<1>10. <<>> \in Seq(Nat)
  OBVIOUS
<1>11. QED
  BY <1>4, <1>9, <1>10, LineWrites

LEMMA StartedIs ==
    ASSUME srv \in SrvState, NEW cmd \in Asked \ {"QUIT"}
    PROVE  Started(cmd) \in {srv.clock, cmd} /\ [srv EXCEPT !.clock = Started(cmd)] \in SrvState
<1>1. Started(cmd) \in {srv.clock, cmd}
  BY DEF Started
<1>2. Started(cmd) \in Uploads \cup {"none", "GETCHUNKS", "PING", "GETTIME"}
  BY <1>1, StateFacts DEF Asked, Uploads
<1>3. QED
  BY <1>1, <1>2 DEF SrvState

LEMMA PongSend ==
    ASSUME CommandsInv, server = "mio", UNCHANGED <<server, task, user>>, handle_pong_send
    PROVE  CommandsInv'
<1>1. PICK cmd \in Asked \ {"QUIT"} : cmd = "PING"
  BY DEF Asked
<1>2. PICK p \in Plain : p = "PongSend"
  BY DEF Plain, Talking, Bulk, BulkTime, Counts, Quiet
<1>3. PICK q \in Reading : q = "PingReceiveOk"
  BY DEF Reading
<1>4. PICK of \in Words : of = "PONG"
  BY DEF Words
<1> DEFINE begun == [srv EXCEPT !.clock = Started(cmd)]
           fin   == [begun EXCEPT !.phase = q, !.wpos = 0]
<1>5. SrvWritesFrom(p, srv.wpos, Line(of, <<>>), begun, fin) /\ srv.phase = p
  BY <1>1, <1>2, <1>3, <1>4 DEF handle_pong_send, SrvWrites, SrvWritesFrom, At
<1>6. /\ p \notin ToRest /\ p \notin Holds /\ p \in OwnPhases(cmd) /\ q \notin ToRest
      /\ q \in OwnPhases(cmd) /\ q \notin Sized
  BY <1>1, <1>2, <1>3 DEF ToRest, Holds, OwnPhases, Sized, Takes2
<1>7. \A text, w, r : Answers(p, text, w, r) => w = of /\ r = q
  BY <1>2, <1>3, <1>4 DEF Answers, Counts, BulkTime, ToAccept
<1>8. srv \in SrvState /\ srv.got = <<>> /\ of # "ERR" /\ of # "FF"
  BY <1>4, <1>5, <1>6, MioFacts, PlainFacts
<1>9. begun \in SrvState /\ Started(cmd) \in {srv.clock, cmd}
  BY <1>8, StartedIs
<1>10. /\ begun.phase = srv.phase /\ begun.got = srv.got /\ begun.size = srv.size
       /\ begun.done = srv.done /\ begun.clock = Started(cmd)
  BY <1>8 DEF SrvState
<1> HIDE DEF begun
<1>11. /\ fin \in SrvState /\ fin.phase = q /\ fin.got = begun.got /\ fin.wpos = 0
       /\ fin.size = begun.size /\ fin.done = begun.done /\ fin.clock = begun.clock
  BY <1>9 DEF SrvState
<1> HIDE DEF fin
<1>12. srv.wpos \in {0, srv.wpos}
  OBVIOUS
<1>13. QED
  BY <1>5, <1>6, <1>7, <1>8, <1>9, <1>10, <1>11, <1>12, StartsLine

LEMMA PutSendOk ==
    ASSUME CommandsInv, server = "mio", UNCHANGED <<server, task, user>>, handle_put_send_ok
    PROVE  CommandsInv'
<1>1. PICK cmd \in Asked \ {"QUIT"} : cmd = "PUT"
  BY DEF Asked
<1>2. PICK p \in Plain : p = "PutSendOk"
  BY DEF Plain, Talking, Bulk, BulkTime, Counts, Quiet
<1>3. PICK q \in Reading : q = "PutReceiveChunk"
  BY DEF Reading
<1>4. PICK of \in Words : of = "OK"
  BY DEF Words
<1> DEFINE begun == [srv EXCEPT !.clock = Started(cmd)]
           fin   == [begun EXCEPT !.phase = q, !.wpos = 0, !.got = <<>>]
<1>5. SrvWritesFrom(p, srv.wpos, Line(of, <<>>), begun, fin) /\ srv.phase = p
  BY <1>1, <1>2, <1>3, <1>4 DEF handle_put_send_ok, SrvWrites, SrvWritesFrom, At, OK
<1>6. /\ p \notin ToRest /\ p \notin Holds /\ p \in OwnPhases(cmd) /\ q \notin ToRest
      /\ q \in OwnPhases(cmd) /\ p \in Sized
  BY <1>1, <1>2, <1>3 DEF ToRest, Holds, OwnPhases, Sized, Takes2
<1>7. \A text, w, r : Answers(p, text, w, r) => w = of /\ r = q
  BY <1>2, <1>3, <1>4 DEF Answers, Counts, BulkTime, ToAccept
<1>8. srv \in SrvState /\ of # "ERR" /\ of # "FF"
  BY <1>4, MioFacts
<1>9. begun \in SrvState /\ Started(cmd) \in {srv.clock, cmd}
  BY <1>8, StartedIs
<1>10. /\ begun.phase = srv.phase /\ begun.got = srv.got /\ begun.size = srv.size
       /\ begun.done = srv.done /\ begun.clock = Started(cmd)
  BY <1>8 DEF SrvState
<1> HIDE DEF begun
<1>11. /\ fin \in SrvState /\ fin.phase = q /\ fin.got = <<>> /\ fin.wpos = 0
       /\ fin.size = begun.size /\ fin.done = begun.done /\ fin.clock = begun.clock
  <2>1. <<>> \in Seq(Unit)
    OBVIOUS
  <2>2. QED
    BY <1>9, <2>1 DEF SrvState
<1> HIDE DEF fin
<1>12. srv.wpos \in {0, srv.wpos}
  OBVIOUS
<1>13. QED
  BY <1>5, <1>6, <1>7, <1>8, <1>9, <1>10, <1>11, <1>12, StartsLine

LEMMA PutNoResultSendOk ==
    ASSUME CommandsInv, server = "mio", UNCHANGED <<server, task, user>>,
           handle_put_no_result_send_ok
    PROVE  CommandsInv'
<1>1. PICK cmd \in Asked \ {"QUIT"} : cmd = "PUTNORESULT"
  BY DEF Asked
<1>2. PICK p \in Plain : p = "PutNoResultSendOk"
  BY DEF Plain, Talking, Bulk, BulkTime, Counts, Quiet
<1>3. PICK q \in Reading : q = "PutNoResultReceiveChunk"
  BY DEF Reading
<1>4. PICK of \in Words : of = "OK"
  BY DEF Words
<1> DEFINE begun == Anew(q)
           fin   == [begun EXCEPT !.clock = cmd]
<1>5. SrvWritesFrom(p, srv.wpos, Line(of, <<>>), srv, fin) /\ srv.phase = p
  BY <1>1, <1>2, <1>3, <1>4 DEF handle_put_no_result_send_ok, SrvWrites, SrvWritesFrom, At, OK
<1>6. /\ p \notin ToRest /\ p \notin Holds /\ p \in OwnPhases(cmd) /\ q \notin ToRest
      /\ q \in OwnPhases(cmd) /\ p \in Sized
  BY <1>1, <1>2, <1>3 DEF ToRest, Holds, OwnPhases, Sized, Takes2
<1>7. \A text, w, r : Answers(p, text, w, r) => w = of /\ r = q
  BY <1>2, <1>3, <1>4 DEF Answers, Counts, BulkTime, ToAccept
<1>8. srv \in SrvState /\ of # "ERR" /\ of # "FF"
  BY <1>4, MioFacts
<1>9. /\ begun \in SrvState /\ begun.phase = q /\ begun.got = <<>> /\ begun.wpos = 0
      /\ begun.size = srv.size /\ begun.done = srv.done
  BY <1>8, AnewIs
<1>10. cmd \in Uploads
  BY <1>1 DEF Uploads
<1> HIDE DEF begun
<1>11. /\ fin \in SrvState /\ fin.phase = q /\ fin.got = <<>> /\ fin.wpos = 0
       /\ fin.size = begun.size /\ fin.done = begun.done /\ fin.clock = cmd
  BY <1>9, <1>10 DEF SrvState
<1> HIDE DEF fin
<1>12. srv.wpos \in {0, srv.wpos} /\ srv.clock \in {srv.clock, cmd} /\ srv.phase = p
  BY <1>5
<1>13. QED
  BY <1>5, <1>6, <1>7, <1>8, <1>9, <1>11, <1>12, StartsLine

LEMMA PutTimeResultSendOk ==
    ASSUME CommandsInv, server = "mio", UNCHANGED <<server, task, user>>,
           handle_put_time_result_send_ok
    PROVE  CommandsInv'
<1>1. PICK cmd \in Asked \ {"QUIT"} : cmd = "PUTTIMERESULT"
  BY DEF Asked
<1>2. PICK p \in Plain : p = "PutTimeResultSendOk"
  BY DEF Plain, Talking, Bulk, BulkTime, Counts, Quiet
<1>3. PICK q \in Reading : q = "PutTimeResultReceiveChunk"
  BY DEF Reading
<1>4. PICK of \in Words : of = "OK"
  BY DEF Words
<1> DEFINE begun == [srv EXCEPT !.clock = Started(cmd)]
           anew  == Anew(q)
           fin   == [anew EXCEPT !.clock = cmd]
<1>5. PICK pos \in {0, srv.wpos} :
         SrvWritesFrom(p, pos, Line(of, <<>>), begun, fin) /\ srv.phase = p
  BY <1>1, <1>2, <1>3, <1>4 DEF handle_put_time_result_send_ok, SrvWritesFrom, At, OK
<1>6. /\ p \notin ToRest /\ p \notin Holds /\ p \in OwnPhases(cmd) /\ q \notin ToRest
      /\ q \in OwnPhases(cmd) /\ p \in Sized
  BY <1>1, <1>2, <1>3 DEF ToRest, Holds, OwnPhases, Sized, Takes2
<1>7. \A text, w, r : Answers(p, text, w, r) => w = of /\ r = q
  BY <1>2, <1>3, <1>4 DEF Answers, Counts, BulkTime, ToAccept
<1>8. srv \in SrvState /\ of # "ERR" /\ of # "FF"
  BY <1>4, MioFacts
<1>9. /\ anew \in SrvState /\ anew.phase = q /\ anew.got = <<>> /\ anew.wpos = 0
      /\ anew.size = srv.size /\ anew.done = srv.done
  BY <1>8, AnewIs
<1>10. begun \in SrvState /\ Started(cmd) \in {srv.clock, cmd} /\ cmd \in Uploads
  BY <1>1, <1>8, StartedIs DEF Uploads
<1>11. /\ begun.phase = srv.phase /\ begun.got = srv.got /\ begun.size = srv.size
       /\ begun.done = srv.done /\ begun.clock = Started(cmd)
  BY <1>8 DEF SrvState
<1> HIDE DEF anew, begun
<1>12. /\ fin \in SrvState /\ fin.phase = q /\ fin.got = <<>> /\ fin.wpos = 0
       /\ fin.size = anew.size /\ fin.done = anew.done /\ fin.clock = cmd
  BY <1>9, <1>10 DEF SrvState
<1> HIDE DEF fin
<1>13. QED
  BY <1>5, <1>6, <1>7, <1>8, <1>9, <1>10, <1>11, <1>12, StartsLine

\* What follows depends on the last byte of the chunk.
LEMMA PutSendBytes ==
    ASSUME CommandsInv, server = "mio", UNCHANGED <<server, task, user>>, handle_put_send_bytes
    PROVE  CommandsInv'
<1>1. PICK p \in Plain : p = "PutSendBytes"
  BY DEF Plain, Talking, Bulk, BulkTime, Counts, Quiet
<1>2. PICK of \in Words : of = "TIME BYTES"
  BY DEF Words
<1>3. PICK cmd \in Asked : cmd = "PUT"
  BY DEF Asked
<1> DEFINE fin == IF LastOf(srv.got).of = "FF" THEN Says("PutSendTime") ELSE Anew("PutReceiveChunk")
<1>4. SrvWritesFrom(p, srv.wpos, Line(of, <<srv.time>>), srv, fin) /\ srv.phase = p
  BY <1>1, <1>2 DEF handle_put_send_bytes, SrvWrites, SrvWritesFrom, At
<1>5. user.cmd = cmd
  BY <1>1, <1>3, <1>4, OwnedNext DEF OwnPhases
<1>6. /\ srv \in SrvState /\ Sound(srv, user) /\ Len(srv.got) <= MaxChunk
      /\ Carries(srv, p) /\ srv.done = 0
  BY <1>4, MioFacts, PlainFacts DEF Positions
<1>7. <<srv.time>> \in Seq(Nat) /\ of # "ERR" /\ of # "FF" /\ srv.wpos \in {0, srv.wpos}
  BY <1>2, <1>6, StateFacts, ArgFacts
<1>8. Leads(p, of, fin)
  <2>1. CASE LastOf(srv.got).of = "FF"
    <3>1. PICK q \in Talking \cup Reading : q = "PutSendTime"
      BY DEF Talking
    <3>2. fin = Says(q)
      BY <2>1, <3>1
    <3> HIDE DEF fin
    <3>3. /\ fin \in SrvState /\ fin.phase = q /\ fin.got = srv.got /\ fin.wpos = 0
          /\ fin.size = srv.size /\ fin.done = 0 /\ fin.clock = srv.clock
      BY <1>6, <3>2, SaysIs
    <3>4. q \in OwnPhases(user.cmd) /\ q \notin Sized /\ q \notin Quiet /\ q \notin ToRest
      BY <1>3, <1>5, <3>1 DEF OwnPhases, Sized, Takes2, Quiet, ToRest
    <3>5. Sound(fin, user)
      BY <1>6, <3>3, <3>4, SoundNext
    <3>6. fin.got = Kept(fin.phase, srv.got)
      BY <3>1, <3>3 DEF Kept
    <3>7. p \in Holds
      BY <1>1 DEF Holds
    <3>8. ASSUME NEW w, NEW r, Answers(p, srv.got, w, r)
          PROVE  w # of /\ Answers(q, srv.got, w, r)
      BY <1>1, <1>2, <2>1, <3>1, <3>8 DEF Answers, Counts, BulkTime, ToAccept
    <3>9. QED
      BY <3>3, <3>4, <3>5, <3>6, <3>7, <3>8 DEF Leads
  <2>2. CASE LastOf(srv.got).of # "FF"
    <3>1. PICK q \in Talking \cup Reading : q = "PutReceiveChunk"
      BY DEF Reading
    <3>2. fin = Anew(q)
      BY <2>2, <3>1
    <3> HIDE DEF fin
    <3>3. /\ fin \in SrvState /\ fin.phase = q /\ fin.got = <<>> /\ fin.wpos = 0
          /\ fin.size = srv.size /\ fin.done = 0 /\ fin.clock = srv.clock
          /\ Len(fin.got) = 0
      BY <1>6, <3>2, AnewIs
    <3>4. /\ q \in OwnPhases(user.cmd) /\ p \in Sized /\ q \notin Quiet /\ q \notin ToRest
          /\ q \notin Holds
      BY <1>1, <1>3, <1>5, <3>1 DEF OwnPhases, Sized, Takes2, Quiet, ToRest, Holds
    <3>5. Len(fin.got) <= MaxChunk
      BY <3>3, Bounds
    <3>6. Sound(fin, user)
      BY <1>4, <1>6, <3>3, <3>4, <3>5, SoundNext
    <3>7. fin.got = Kept(fin.phase, srv.got)
      BY <3>3, <3>4 DEF Kept, Holds
    <3>8. ASSUME NEW w, NEW r, Answers(p, srv.got, w, r)
          PROVE  w = of /\ q = r
      BY <1>1, <1>2, <2>2, <3>1, <3>8 DEF Answers, Counts, BulkTime, ToAccept
    <3>9. QED
      BY <3>3, <3>4, <3>6, <3>7, <3>8 DEF Leads
  <2>3. QED
    BY <2>1, <2>2
<1> HIDE DEF fin
<1>9. QED
  BY <1>4, <1>6, <1>7, <1>8, LineWrites

\* The line of SendTime finds nothing on the way, and goes out whole.
LEMMA SendsTime ==
    ASSUME CommandsInv, server = "mio", UNCHANGED <<server, task, user>>,
           NEW p \in Quiet, SendTime(p)
    PROVE  CommandsInv'
<1>1. PICK of \in Words : of = "TIME"
  BY DEF Words
<1> DEFINE line == Line(of, <<srv.time>>)
           out  == Taken(toClient, line, 0)
<1>2. /\ srv.phase = p /\ out # <<>> /\ toClient' = toClient \o out
      /\ srv' = IF srv.wpos + Len(out) = Len(line)
                THEN [srv EXCEPT !.phase = "AcceptCommandSend", !.wpos = 0, !.clock = "none"]
                ELSE [srv EXCEPT !.wpos = srv.wpos + Len(out), !.clock = "none"]
      /\ UNCHANGED <<toServer, gone, splitOk>>
  BY <1>1 DEF SendTime, At
<1>3. p \in Talking /\ p \notin Counts /\ p \notin Holds
  BY DEF Quiet, Talking, Counts, Holds
<1>4. /\ Sound(srv, user) /\ NoErr(toClient) /\ srv \in SrvState /\ Positions(srv)
      /\ toClient \in Seq(Unit) /\ Len(toClient) <= Cap
      /\ toServer \in Seq(Unit) /\ Len(toServer) <= Cap /\ splitOk \in BOOLEAN
  BY MioFacts
<1>5. PICK todo \in Agenda : Speaking(srv, user, toServer, toClient, todo)
  BY <1>2, <1>3, MioTalks
<1>6. /\ Silent(toClient, todo[1].hear) /\ toClient = <<>> /\ srv.got = <<>>
      /\ todo[1].hear.of = of => todo[1].hear.at = 2
  BY <1>1, <1>2, <1>3, <1>5 DEF Speaking, Kept, Holds
<1>7. <<srv.time>> \in Seq(Nat) /\ of # "ERR"
  BY <1>1, <1>4, StateFacts, ArgFacts
<1>8. line \in Seq(Unit) /\ Len(line) = 2
  BY <1>7, LineUnits
<1> HIDE DEF line
<1>9. Len(out) = 2
  BY <1>6, <1>8, LineIsTaken
<1>10. srv.wpos = 0 /\ srv.done = 0
  BY <1>2, <1>3, <1>4 DEF Positions, Quiet
<1>11. srv' = [srv EXCEPT !.phase = "AcceptCommandSend", !.wpos = 0, !.clock = "none"]
  BY <1>2, <1>8, <1>9, <1>10
<1>12. "AcceptCommandSend" \in Talking
  BY DEF Talking
<1>13. /\ srv' \in SrvState /\ srv'.phase = "AcceptCommandSend" /\ srv'.wpos = 0
       /\ srv'.clock = "none" /\ srv'.got = srv.got /\ srv'.size = srv.size /\ srv'.done = srv.done
  BY <1>4, <1>11, <1>12 DEF SrvState
<1>14. Len(srv'.got) <= MaxChunk
  BY <1>4, <1>13 DEF Positions
<1>15. srv'.phase \notin Sized
  BY <1>13 DEF Sized, Takes2
<1>16. Sound(srv', user)
  BY <1>4, <1>10, <1>13, <1>14, <1>15, SoundNext
<1>17. Leads(p, of, srv')
  <2>1. srv'.phase \notin Quiet /\ srv'.phase \notin Holds
    BY <1>13 DEF Quiet, Holds
  <2>2. srv'.got = Kept(srv'.phase, srv.got)
    BY <1>6, <1>13, <2>1 DEF Kept, Holds
  <2>3. Rested(srv'.clock, user.cmd)
    BY <1>13 DEF Rested
  <2>4. ASSUME NEW w, NEW r, Answers(p, srv.got, w, r)
        PROVE  w # of /\ Answers(srv'.phase, srv'.got, w, r)
    BY <1>1, <1>13, <2>4 DEF Answers, Quiet, Counts, BulkTime, ToAccept
  <2>5. QED
    BY <1>13, <1>16, <2>1, <2>2, <2>3, <2>4 DEF Leads
<1>18. PICK pos \in {0, 1} : pos = 0
  OBVIOUS
<1>19. out = Taken(toClient, Line(of, <<srv.time>>), pos)
  BY <1>18 DEF line
<1> HIDE DEF out
<1>20. /\ toClient' \in Seq(Unit) /\ Len(toClient') <= Cap /\ NoErr(toClient')
       /\ of # todo[1].hear.of => Silent(toClient', todo[1].hear)
       /\ of = todo[1].hear.of => EndsOnly(toClient', todo[1].hear)
  <2> DEFINE hear == todo[1].hear
             arg  == <<srv.time>>
  <2>1. Silent(toClient, hear) /\ (hear.of = of => hear.at = 2) /\ arg \in Seq(Nat)
    BY <1>6, <1>7
  <2>2. out = Taken(toClient, Line(of, arg), pos)
    BY <1>19
  <2> HIDE DEF hear, arg
  <2>3. /\ toClient \o out \in Seq(Unit) /\ Len(toClient \o out) <= Cap /\ NoErr(toClient \o out)
        /\ of # hear.of \/ pos + Len(out) # 2 => Silent(toClient \o out, hear)
        /\ of = hear.of /\ pos + Len(out) = 2 /\ out # <<>> => EndsOnly(toClient \o out, hear)
    BY <1>4, <1>7, <2>1, <2>2, LineSaid
  <2>4. pos + Len(out) = 2
    BY <1>9, <1>18
  <2>5. QED
    BY <1>2, <2>3, <2>4 DEF hear
<1>21. MioScene(srv', user, toServer, toClient', todo)
  BY <1>2, <1>3, <1>5, <1>17, <1>20, LineIsThrough
<1>22. QED
  BY <1>2, <1>4, <1>16, <1>20, <1>21, MioStays
-----------------------------------------------------------------------------
(* The chunks of the mio server.                                           *)

LEMMA ChunkSaid ==
    ASSUME NEW hear, hear.of = "FF", hear.at = 1,
           NEW ch \in Seq(Unit), Len(ch) <= Cap, NoErr(ch), Silent(ch, hear),
           NEW size \in Nat, size >= 2, NEW last \in BOOLEAN,
           NEW pos \in Nat, pos <= size, NEW out, out = Taken(ch, Chunk(size, last), pos)
    PROVE  /\ out \in Seq(Unit) /\ Len(out) \in Nat /\ pos + Len(out) <= size
           /\ ch \o out \in Seq(Unit) /\ Len(ch \o out) <= Cap /\ NoErr(ch \o out)
           /\ ~last \/ pos + Len(out) # size => Silent(ch \o out, hear)
           /\ last /\ pos + Len(out) = size /\ out # <<>> => EndsOnly(ch \o out, hear)
<1> DEFINE buf == Chunk(size, last)
<1>1. /\ buf \in Seq(Unit) /\ Len(buf) = size
      /\ \A i \in 1..size : buf[i].at = 1
      /\ \A i \in 1..size : buf[i].of \in {"body", "00", "FF"}
      /\ \A i \in 1..size : buf[i].of = "FF" <=> i = size /\ last
      /\ LastOf(buf) = buf[size]
  BY ChunkUnits
<1>2. out = Taken(ch, buf, pos)
  OBVIOUS
<1> HIDE DEF buf
<1>3. pos <= Len(buf) /\ size \in 1..size
  BY <1>1
<1>4. /\ \A i \in 1..(Len(buf) - 1) : ~SameUnit(buf[i], hear)
      /\ SameUnit(LastOf(buf), hear) <=> last
  BY <1>1, <1>3 DEF SameUnit
<1>5. \A i \in 1..size : ~SameUnit(buf[i], Err[1])
  BY <1>1, ErrUnits DEF SameUnit
<1>6. /\ \A i \in 1..(Len(buf) - 1) : ~SameUnit(buf[i], Err[1])
      /\ ~SameUnit(LastOf(buf), Err[1])
  BY <1>1, <1>3, <1>5
<1>7. /\ out \in Seq(Unit) /\ Len(out) \in Nat /\ pos + Len(out) <= Len(buf)
      /\ ch \o out \in Seq(Unit) /\ Len(ch \o out) <= Cap
      /\ pos + Len(out) # Len(buf) => Silent(out, hear)
      /\ ~SameUnit(LastOf(buf), hear) => Silent(out, hear)
      /\ SameUnit(LastOf(buf), hear) /\ pos + Len(out) = Len(buf) => EndsOnly(out, hear)
  BY <1>1, <1>2, <1>3, <1>4, TakenEnds
<1>8. Silent(out, Err[1])
  BY <1>1, <1>2, <1>3, <1>6, TakenEnds
<1>9. NoErr(ch \o out)
  BY <1>7, <1>8, StaysSilent DEF NoErr
<1>10. ASSUME ~last \/ pos + Len(out) # size PROVE Silent(ch \o out, hear)
  <2>1. Silent(out, hear)
    BY <1>1, <1>4, <1>7, <1>10
  <2>2. QED
    BY <1>7, <2>1, StaysSilent
<1>11. ASSUME last, pos + Len(out) = size, out # <<>> PROVE EndsOnly(ch \o out, hear)
  <2>1. EndsOnly(out, hear)
    BY <1>1, <1>4, <1>7, <1>11
  <2>2. QED
    BY <1>7, <1>11, <2>1, EndsIt
<1>12. QED
  BY <1>1, <1>7, <1>9, <1>10, <1>11

Sends == Counts \cup BulkTime

LEMMA SoundBulk ==
    ASSUME Sound(srv, user), NEW s \in SrvState, s.phase \in Sends, s.phase \in OwnPhases(user.cmd),
           s.size = srv.size, srv.size \in Sizes, s.got = <<>>,
           s.phase \in Counts => s.wpos < s.size,
           s.phase \in BulkTime => s.wpos < TimeSize(s) /\ s.done = 0,
           s.clock \in {srv.clock, user.cmd, "none"}
    PROVE  Sound(s, user)
<1>1. Ticks(srv.clock, user)
  BY DEF Sound
<1>2. Ticks(s.clock, user)
  BY <1>1, TicksOn
<1>3. Owned(s, user.cmd)
  BY DEF Owned
<1>4. s.phase \notin Reading \cup {"GetChunksSendTime", "GetTimeSendTime"}
  BY DEF Sends, Counts, BulkTime, Reading, SpinsOnEof
<1>5. s.phase \in Bulk <=> s.phase \in Counts
  BY DEF Sends, Bulk, Counts, BulkTime
<1>6. s.phase \in BulkTime <=> s.phase \notin Counts
  BY DEF Sends, Counts, BulkTime
<1>7. Len(s.got) <= MaxChunk
  BY Bounds
<1>8. Positions(s)
  BY <1>4, <1>5, <1>6, <1>7 DEF Positions
<1>9. QED
  BY <1>2, <1>3, <1>8 DEF Sound

LEMMA SendsFacts ==
    ASSUME CommandsInv, server = "mio", srv.phase \in Sends,
           NEW todo \in Agenda, Speaking(srv, user, toServer, toClient, todo)
    PROVE  /\ todo[1].hear.of = "FF" /\ todo[1].hear.at = 1 /\ srv.got = <<>>
           /\ Silent(toClient, todo[1].hear) /\ srv.size \in Sizes
           /\ user.cmd = IF srv.phase \in Counts THEN "GETCHUNKS" ELSE "GETTIME"
           /\ srv.phase \in OwnPhases(user.cmd) /\ Sends \subseteq Talking \ Quiet
<1>1. todo[1].hear.of = "FF" /\ todo[1].hear.at = 1
  <2>1. PICK q \in Reading : Answers(srv.phase, srv.got, todo[1].hear.of, q)
    BY DEF Speaking
  <2>2. todo[1].hear.of = "FF"
    BY <2>1 DEF Answers, Sends, Counts, BulkTime, ToAccept
  <2>3. QED
    BY <2>2 DEF Speaking
<1>2. srv.got = <<>> /\ Silent(toClient, todo[1].hear)
  BY DEF Speaking, Kept, Sends, Counts, BulkTime
<1>3. srv.size \in Sizes
  <2>1. srv.phase \in Sized
    BY DEF Sends, Counts, BulkTime, Sized
  <2>2. QED
    BY <2>1, MioFacts DEF Owned
<1>4. PICK a \in Asked \cup {"none"}, b \in Asked \cup {"none"} : a = "GETCHUNKS" /\ b = "GETTIME"
  BY DEF Asked
<1>5. CASE srv.phase \in Counts
  <2>1. srv.phase \in OwnPhases(a)
    BY <1>4, <1>5 DEF Counts, OwnPhases
  <2>2. user.cmd = a
    BY <2>1, OwnedNext
  <2>3. QED
    BY <1>1, <1>2, <1>3, <1>4, <1>5, <2>1, <2>2 DEF Sends, Counts, BulkTime, Talking, Quiet
<1>6. CASE srv.phase \notin Counts
  <2>1. srv.phase \in OwnPhases(b)
    BY <1>4, <1>6 DEF Sends, Counts, BulkTime, OwnPhases
  <2>2. user.cmd = b
    BY <2>1, OwnedNext
  <2>3. QED
    BY <1>1, <1>2, <1>3, <1>4, <1>6, <2>1, <2>2 DEF Sends, Counts, BulkTime, Talking, Quiet
<1>7. QED
  BY <1>5, <1>6

\* More of a chunk, or another, is on the way.
LEMMA ChunkGoesOn ==
    ASSUME CommandsInv, server = "mio", UNCHANGED <<server, task, user>>,
           UNCHANGED <<toServer, gone, splitOk>>, srv.phase \in Sends,
           NEW todo \in Agenda, Speaking(srv, user, toServer, toClient, todo),
           srv'.phase \in Sends, srv'.phase \in Counts <=> srv.phase \in Counts,
           srv'.got = <<>>, srv'.size = srv.size, Sound(srv', user),
           toClient' \in Seq(Unit), Len(toClient') <= Cap, NoErr(toClient'),
           Silent(toClient', todo[1].hear)
    PROVE  CommandsInv'
<1>1. /\ todo # <<>> /\ user.said = Len(todo[1].say) /\ toServer = <<>>
      /\ todo[1].hear.at = IF todo[1].hear.of = "FF" THEN 1 ELSE 2
  BY DEF Speaking
<1>2. PICK q \in Reading : /\ Answers(srv.phase, srv.got, todo[1].hear.of, q)
                           /\ Takes(q, srv.size, Tail(todo))
  BY DEF Speaking
<1>3. Answers(srv'.phase, srv'.got, todo[1].hear.of, q)
  BY <1>2 DEF Answers, Sends, Counts, BulkTime, ToAccept
<1>4. srv'.got = Kept(srv'.phase, todo[1].say)
  BY DEF Kept, Sends, Counts, BulkTime
<1>5. srv'.phase \notin {"AcceptCommandSend", "PingSendTime"} /\ srv'.phase \notin Quiet
  BY DEF Sends, Counts, BulkTime, Quiet
<1>6. Speaking(srv', user, toServer, toClient', todo)
  BY <1>1, <1>2, <1>3, <1>4, <1>5 DEF Speaking
<1>7. MioScene(srv', user, toServer', toClient', todo)
  BY <1>6 DEF MioScene
<1>8. toServer' \in Seq(Unit) /\ Len(toServer') <= Cap /\ splitOk' \in BOOLEAN
  BY MioFacts
<1>9. QED
  BY <1>7, <1>8, MioStays

\* The last one is through.
LEMMA ChunkIsThrough ==
    ASSUME CommandsInv, server = "mio", UNCHANGED <<server, task, user>>,
           UNCHANGED <<toServer, gone, splitOk>>, srv.phase \in Sends,
           NEW todo \in Agenda, Speaking(srv, user, toServer, toClient, todo),
           srv'.phase = IF srv.phase \in Counts THEN "GetChunksReceiveOK" ELSE "GetTimeReceiveOk",
           srv'.got = <<>>, srv'.size = srv.size, srv'.wpos = 0, srv'.done = 0,
           srv'.clock = srv.clock, srv' \in SrvState,
           toClient' \in Seq(Unit), Len(toClient') <= Cap, NoErr(toClient'),
           EndsOnly(toClient', todo[1].hear)
    PROVE  CommandsInv'
<1>1. todo # <<>> /\ user.said = Len(todo[1].say) /\ toServer = <<>>
  BY DEF Speaking
<1>2. PICK q \in Reading : /\ Answers(srv.phase, srv.got, todo[1].hear.of, q)
                           /\ Takes(q, srv.size, Tail(todo))
  BY DEF Speaking
<1>3. srv'.phase = q
  BY <1>2 DEF Answers, Sends, Counts, BulkTime, ToAccept
<1>4. srv'.phase # "AcceptCommandReceive" /\ srv'.phase \notin Sized
  BY DEF Sized, Takes2
<1>5. Spoken(srv', user, toServer, toClient', todo)
  BY <1>1, <1>2, <1>3, <1>4 DEF Spoken
<1>6. MioScene(srv', user, toServer', toClient', todo)
  BY <1>1, <1>5 DEF MioScene
<1>7. /\ toServer' \in Seq(Unit) /\ Len(toServer') <= Cap /\ splitOk' \in BOOLEAN
      /\ Sound(srv, user)
  BY MioFacts
<1>8. Len(srv'.got) <= MaxChunk
  BY Bounds
<1>9. srv'.phase \in OwnPhases(user.cmd)
  BY SendsFacts DEF OwnPhases
<1>10. Sound(srv', user)
  BY <1>4, <1>7, <1>8, <1>9, SoundNext
<1>11. QED
  BY <1>6, <1>7, <1>10, MioStays

LEMMA GetChunksSend ==
    ASSUME CommandsInv, server = "mio", UNCHANGED <<server, task, user>>,
           handle_get_chunks_send_chunks
    PROVE  CommandsInv'
<1> DEFINE clock == Started("GETCHUNKS")
           begun == [srv EXCEPT !.clock = clock]
           pos   == IF srv.clock = "none" THEN 0 ELSE srv.wpos
           out   == Taken(toClient, Chunk(srv.size, FALSE), pos)
           sent  == srv.done + 1
<1>1. /\ srv.phase = "GetChunkSendChunk"
      /\ IF srv.done = srv.num - 1
         THEN /\ srv' = [begun EXCEPT !.phase = "GetChunksSendChunksLast", !.wpos = pos]
              /\ UNCHANGED toClient
         ELSE /\ out # <<>>
              /\ toClient' = toClient \o out
              /\ srv' = IF pos + Len(out) < srv.size
                        THEN [begun EXCEPT !.wpos = pos + Len(out)]
                        ELSE [begun EXCEPT !.wpos = 0, !.done = sent,
                                           !.phase = IF sent = srv.num - 1
                                                     THEN "GetChunksSendChunksLast" ELSE @]
      /\ UNCHANGED <<toServer, gone, splitOk>>
  BY DEF handle_get_chunks_send_chunks, At
<1>2. srv.phase \in Sends /\ srv.phase \in Counts /\ srv.phase \in Talking
  BY <1>1 DEF Sends, Counts, Talking
<1>3. /\ srv \in SrvState /\ Sound(srv, user) /\ Positions(srv) /\ NoErr(toClient)
      /\ toClient \in Seq(Unit) /\ Len(toClient) <= Cap
  BY MioFacts
<1>4. PICK todo \in Agenda : Speaking(srv, user, toServer, toClient, todo)
  BY <1>2, MioTalks
<1>5. /\ todo[1].hear.of = "FF" /\ todo[1].hear.at = 1 /\ srv.got = <<>>
      /\ Silent(toClient, todo[1].hear) /\ srv.size \in Sizes /\ user.cmd = "GETCHUNKS"
  BY <1>2, <1>4, SendsFacts
<1>6. srv.size \in Nat /\ srv.size >= 2 /\ srv.wpos \in Nat /\ srv.wpos < srv.size /\ srv.done \in Nat
  BY <1>1, <1>3, <1>5, SizeFacts, StateFacts DEF Positions, Bulk, Counts
<1>7. pos \in Nat /\ pos < srv.size
  BY <1>6
<1>8. clock \in {srv.clock, user.cmd} /\ begun \in SrvState
  <2>1. PICK cmd \in Asked \ {"QUIT"} : cmd = "GETCHUNKS"
    BY DEF Asked
  <2>2. QED
    BY <1>3, <1>5, <2>1, StartedIs
<1>9. {"GetChunkSendChunk", "GetChunksSendChunksLast"} \subseteq
        OwnPhases(user.cmd) \cap (Talking \cup Reading) \cap Counts \cap Sends
  BY <1>5 DEF OwnPhases, Talking, Counts, Sends
<1>10. Counts \cap BulkTime = {}
  BY DEF Counts, BulkTime
<1>11. ASSUME srv' \in SrvState, srv'.phase \in {"GetChunkSendChunk", "GetChunksSendChunksLast"},
              srv'.wpos < srv.size, srv'.got = srv.got, srv'.size = srv.size, srv'.clock = clock,
              toClient' \in Seq(Unit), Len(toClient') <= Cap, NoErr(toClient'),
              Silent(toClient', todo[1].hear)
       PROVE  CommandsInv'
  <2>1. srv'.phase \notin BulkTime /\ srv'.phase \in Sends /\ srv'.phase \in OwnPhases(user.cmd)
    BY <1>9, <1>10, <1>11
  <2>2. Sound(srv', user)
    BY <1>3, <1>5, <1>8, <1>11, <2>1, SoundBulk
  <2>3. srv'.phase \in Counts /\ srv'.got = <<>>
    BY <1>5, <1>9, <1>11
  <2>4. QED
    BY <1>1, <1>2, <1>4, <1>11, <2>1, <2>2, <2>3, ChunkGoesOn
<1>12. CASE srv.done = srv.num - 1
  <2>1. srv' = [begun EXCEPT !.phase = "GetChunksSendChunksLast", !.wpos = pos] /\ toClient' = toClient
    BY <1>1, <1>12
  <2> HIDE DEF pos, clock
  <2>2. /\ srv' \in SrvState /\ srv'.phase = "GetChunksSendChunksLast" /\ srv'.wpos = pos
        /\ srv'.got = srv.got /\ srv'.size = srv.size /\ srv'.clock = clock
    BY <1>3, <1>7, <1>8, <1>9, <2>1 DEF SrvState
  <2>3. QED
    BY <1>3, <1>5, <1>7, <1>11, <2>1, <2>2
<1>13. CASE srv.done # srv.num - 1
  <2> HIDE DEF pos
  <2>1. PICK no \in BOOLEAN : no = FALSE
    OBVIOUS
  <2>2. out = Taken(toClient, Chunk(srv.size, no), pos)
    BY <2>1
  <2> HIDE DEF out
  <2>8. pos <= srv.size
    BY <1>6, <1>7
  <2>3. /\ out \in Seq(Unit) /\ Len(out) \in Nat /\ pos + Len(out) <= srv.size
        /\ toClient \o out \in Seq(Unit) /\ Len(toClient \o out) <= Cap /\ NoErr(toClient \o out)
        /\ Silent(toClient \o out, todo[1].hear)
    BY SMTT(30), <1>3, <1>5, <1>6, <1>7, <2>1, <2>2, <2>8, ChunkSaid
  <2>4. toClient' = toClient \o out
    BY <1>1, <1>13
  <2> HIDE DEF clock
  <2>5. CASE pos + Len(out) < srv.size
    <3>1. srv' = [begun EXCEPT !.wpos = pos + Len(out)]
      BY <1>1, <1>13, <2>5
    <3>2. pos + Len(out) \in Nat
      BY <1>7, <2>3
    <3>3. /\ srv' \in SrvState /\ srv'.phase = srv.phase /\ srv'.wpos = pos + Len(out)
          /\ srv'.got = srv.got /\ srv'.size = srv.size /\ srv'.clock = clock
      BY <1>3, <1>8, <3>1, <3>2 DEF SrvState
    <3>4. QED
      BY <1>1, <1>11, <2>3, <2>4, <2>5, <3>3
  <2>6. CASE ~(pos + Len(out) < srv.size)
    <3> DEFINE phase == IF sent = srv.num - 1 THEN "GetChunksSendChunksLast" ELSE srv.phase
    <3>1. srv' = [begun EXCEPT !.wpos = 0, !.done = sent, !.phase = phase]
      BY <1>1, <1>13, <2>6, <1>3 DEF SrvState
    <3>2. phase \in {"GetChunkSendChunk", "GetChunksSendChunksLast"} /\ sent \in Nat
      BY <1>1, <1>6
    <3>3. phase \in Talking \cup Reading
      BY <1>9, <3>2
    <3> HIDE DEF phase, sent
    <3>4. /\ srv' \in SrvState /\ srv'.phase = phase /\ srv'.wpos = 0
          /\ srv'.got = srv.got /\ srv'.size = srv.size /\ srv'.clock = clock
      BY <1>3, <1>8, <3>1, <3>2, <3>3 DEF SrvState
    <3>5. QED
      BY <1>6, <1>11, <2>3, <2>4, <3>2, <3>4
  <2>7. QED
    BY <2>5, <2>6
<1>14. QED
  BY <1>12, <1>13

LEMMA GetChunksSendLast ==
    ASSUME CommandsInv, server = "mio", UNCHANGED <<server, task, user>>,
           handle_get_chunks_send_chunks_last
    PROVE  CommandsInv'
<1> DEFINE pos == srv.wpos
           out == Taken(toClient, Chunk(srv.size, TRUE), pos)
<1>1. /\ srv.phase = "GetChunksSendChunksLast" /\ out # <<>> /\ toClient' = toClient \o out
      /\ srv' = IF pos + Len(out) = Len(Chunk(srv.size, TRUE))
                THEN [srv EXCEPT !.phase = "GetChunksReceiveOK", !.wpos = 0, !.done = 0]
                ELSE [srv EXCEPT !.wpos = pos + Len(out)]
      /\ UNCHANGED <<toServer, gone, splitOk>>
  BY DEF handle_get_chunks_send_chunks_last, SrvWrites, SrvWritesFrom, At
<1>2. srv.phase \in Sends /\ srv.phase \in Counts /\ srv.phase \in Talking
  BY <1>1 DEF Sends, Counts, Talking
<1>3. /\ srv \in SrvState /\ Sound(srv, user) /\ Positions(srv) /\ NoErr(toClient)
      /\ toClient \in Seq(Unit) /\ Len(toClient) <= Cap
  BY MioFacts
<1>4. PICK todo \in Agenda : Speaking(srv, user, toServer, toClient, todo)
  BY <1>2, MioTalks
<1>5. /\ todo[1].hear.of = "FF" /\ todo[1].hear.at = 1 /\ srv.got = <<>>
      /\ Silent(toClient, todo[1].hear) /\ srv.size \in Sizes
      /\ srv.phase \in OwnPhases(user.cmd)
  BY <1>2, <1>4, SendsFacts
<1>6. srv.size \in Nat /\ srv.size >= 2 /\ srv.wpos \in Nat /\ srv.wpos < srv.size
  BY <1>1, <1>3, <1>5, SizeFacts, StateFacts DEF Positions, Bulk, Counts
<1>7. pos \in Nat /\ pos <= srv.size
  BY <1>6
<1>8. PICK yes \in BOOLEAN : yes = TRUE
  OBVIOUS
<1>9. out = Taken(toClient, Chunk(srv.size, yes), pos)
  BY <1>8
<1>10. Len(Chunk(srv.size, TRUE)) = srv.size
  BY <1>6, ChunkUnits
<1> HIDE DEF out, pos
<1>11. /\ out \in Seq(Unit) /\ Len(out) \in Nat /\ pos + Len(out) <= srv.size
       /\ toClient \o out \in Seq(Unit) /\ Len(toClient \o out) <= Cap /\ NoErr(toClient \o out)
       /\ pos + Len(out) # srv.size => Silent(toClient \o out, todo[1].hear)
       /\ pos + Len(out) = srv.size => EndsOnly(toClient \o out, todo[1].hear)
  <2> DEFINE size == srv.size
             hear == todo[1].hear
  <2>1. size \in Nat /\ size >= 2 /\ pos <= size /\ hear.of = "FF" /\ hear.at = 1 /\ Silent(toClient, hear)
    BY <1>5, <1>6, <1>7
  <2>2. out = Taken(toClient, Chunk(size, yes), pos)
    BY <1>9
  <2> HIDE DEF size, hear
  <2>3. /\ out \in Seq(Unit) /\ Len(out) \in Nat /\ pos + Len(out) <= size
        /\ toClient \o out \in Seq(Unit) /\ Len(toClient \o out) <= Cap /\ NoErr(toClient \o out)
        /\ ~yes \/ pos + Len(out) # size => Silent(toClient \o out, hear)
        /\ yes /\ pos + Len(out) = size /\ out # <<>> => EndsOnly(toClient \o out, hear)
    BY <1>3, <1>7, <2>1, <2>2, ChunkSaid
  <2>4. QED
    BY <1>1, <1>8, <2>3 DEF size, hear
<1>12. CASE pos + Len(out) = srv.size
  <2>1. srv' = [srv EXCEPT !.phase = "GetChunksReceiveOK", !.wpos = 0, !.done = 0]
    BY <1>1, <1>10, <1>12
  <2>2. "GetChunksReceiveOK" \in Reading
    BY DEF Reading, SpinsOnEof
  <2>3. /\ srv' \in SrvState /\ srv'.phase = "GetChunksReceiveOK" /\ srv'.wpos = 0
        /\ srv'.got = srv.got /\ srv'.size = srv.size /\ srv'.clock = srv.clock /\ srv'.done = 0
    BY <1>3, <2>1, <2>2 DEF SrvState
  <2>4. EndsOnly(toClient', todo[1].hear)
    BY <1>1, <1>11, <1>12
  <2>5. toClient' \in Seq(Unit) /\ Len(toClient') <= Cap /\ NoErr(toClient')
    BY <1>1, <1>11
  <2>6. QED
    BY <1>1, <1>2, <1>4, <1>5, <2>3, <2>4, <2>5, ChunkIsThrough
<1>13. CASE pos + Len(out) # srv.size
  <2>1. srv' = [srv EXCEPT !.wpos = pos + Len(out)]
    BY <1>1, <1>10, <1>13
  <2>2. pos + Len(out) \in Nat /\ pos + Len(out) < srv.size
    BY <1>6, <1>7, <1>11, <1>13
  <2>3. /\ srv' \in SrvState /\ srv'.phase = srv.phase /\ srv'.wpos = pos + Len(out)
        /\ srv'.got = srv.got /\ srv'.size = srv.size /\ srv'.clock = srv.clock
    BY <1>3, <2>1, <2>2 DEF SrvState
  <2>4. Silent(toClient', todo[1].hear)
    BY <1>1, <1>11, <1>13
  <2>5. toClient' \in Seq(Unit) /\ Len(toClient') <= Cap /\ NoErr(toClient')
    BY <1>1, <1>11
  <2>6. srv'.phase \notin BulkTime /\ srv'.phase \in Sends /\ srv'.got = <<>>
    BY <1>1, <1>2, <1>5, <2>3 DEF BulkTime
  <2>7. Sound(srv', user)
    BY <1>3, <1>5, <2>2, <2>3, <2>6, SoundBulk
  <2>8. QED
    BY <1>1, <1>2, <1>4, <2>3, <2>4, <2>5, <2>6, <2>7, ChunkGoesOn
<1>14. QED
  BY <1>12, <1>13

LEMMA MadeFacts ==
    ASSUME srv \in SrvState, srv.size \in Sizes
    PROVE  /\ Made \in {0} \cup (Sizes \ Stored) /\ GetTimeSize = TimeSize(srv)
           /\ GetTimeSize \in Sizes /\ GetTimeSize \in Nat /\ GetTimeSize >= 2
<1>1. srv.made \in {0} \cup (Sizes \ Stored)
  BY StateFacts
<1>2. Made \in {0} \cup (Sizes \ Stored)
  BY <1>1 DEF Made
<1>3. GetTimeSize = TimeSize(srv)
  BY DEF GetTimeSize, Made, TimeSize
<1>4. GetTimeSize \in Sizes
  BY <1>3, TimeSizes
<1>5. QED
  BY <1>2, <1>3, <1>4, SizeFacts

LEMMA MadeKeeps ==
    ASSUME srv.size \in Sizes, NEW s, s.size = srv.size, s.made = Made
    PROVE  TimeSize(s) = GetTimeSize
BY SizeFacts DEF GetTimeSize, Made, TimeSize

LEMMA GetTimeSend ==
    ASSUME CommandsInv, server = "mio", UNCHANGED <<server, task, user>>,
           handle_get_time_send_chunk
    PROVE  CommandsInv'
<1> DEFINE clock == Started("GETTIME")
           size  == GetTimeSize
           begun == [srv EXCEPT !.clock = clock, !.made = Made]
           pos   == srv.wpos
           out   == Taken(toClient, Chunk(size, FALSE), pos)
<1>1. /\ srv.phase = "GetTimeSendChunk" /\ out # <<>> /\ toClient' = toClient \o out
      /\ srv' = IF pos + Len(out) = Len(Chunk(size, FALSE))
                THEN IF srv.over
                     THEN [begun EXCEPT !.phase = "GetTimeSendLastChunk", !.wpos = 0, !.got = <<>>]
                     ELSE [begun EXCEPT !.wpos = 0]
                ELSE [begun EXCEPT !.wpos = pos + Len(out)]
      /\ UNCHANGED <<toServer, gone, splitOk>>
  BY DEF handle_get_time_send_chunk, SrvWrites, SrvWritesFrom, At
<1>2. srv.phase \in Sends /\ srv.phase \notin Counts /\ srv.phase \in BulkTime /\ srv.phase \in Talking
  BY <1>1 DEF Sends, Counts, BulkTime, Talking
<1>3. /\ srv \in SrvState /\ Sound(srv, user) /\ Positions(srv) /\ NoErr(toClient)
      /\ toClient \in Seq(Unit) /\ Len(toClient) <= Cap
  BY MioFacts
<1>4. PICK todo \in Agenda : Speaking(srv, user, toServer, toClient, todo)
  BY <1>2, MioTalks
<1>5. /\ todo[1].hear.of = "FF" /\ todo[1].hear.at = 1 /\ srv.got = <<>>
      /\ Silent(toClient, todo[1].hear) /\ srv.size \in Sizes /\ user.cmd = "GETTIME"
  BY <1>2, <1>4, SendsFacts
<1>6. /\ Made \in {0} \cup (Sizes \ Stored) /\ size = TimeSize(srv)
      /\ size \in Nat /\ size >= 2
  BY <1>3, <1>5, MadeFacts
<1> HIDE DEF size
<1>7. pos \in Nat /\ pos < size /\ srv.done = 0 /\ srv.wpos \in Nat
  BY <1>2, <1>3, <1>6, StateFacts DEF Positions
<1>8. clock \in {srv.clock, user.cmd} /\ [srv EXCEPT !.clock = clock] \in SrvState
  <2>1. PICK cmd \in Asked \ {"QUIT"} : cmd = "GETTIME"
    BY DEF Asked
  <2>2. QED
    BY <1>3, <1>5, <2>1, StartedIs
<1> HIDE DEF clock
<1>9. clock \in Uploads \cup {"none", "GETCHUNKS", "PING", "GETTIME"}
  BY <1>3, <1>5, <1>8, StateFacts
<1>10. /\ begun \in SrvState /\ begun.phase = srv.phase /\ begun.got = srv.got
       /\ begun.size = srv.size /\ begun.clock = clock /\ begun.made = Made /\ begun.done = srv.done
  BY <1>3, <1>6, <1>9 DEF SrvState
<1> HIDE DEF begun
<1>11. {"GetTimeSendChunk", "GetTimeSendLastChunk"} \subseteq
        OwnPhases(user.cmd) \cap (Talking \cup Reading) \cap BulkTime \cap Sends
  BY <1>5 DEF OwnPhases, Talking, BulkTime, Sends
<1>12. Counts \cap BulkTime = {}
  BY DEF Counts, BulkTime
<1>13. ASSUME srv' \in SrvState, srv'.phase \in {"GetTimeSendChunk", "GetTimeSendLastChunk"},
              srv'.wpos < size, srv'.got = <<>>, srv'.size = srv.size, srv'.clock = clock,
              srv'.made = Made, srv'.done = srv.done,
              toClient' \in Seq(Unit), Len(toClient') <= Cap, NoErr(toClient'),
              Silent(toClient', todo[1].hear)
       PROVE  CommandsInv'
  <2>1. /\ srv'.phase \notin Counts /\ srv'.phase \in Sends /\ srv'.phase \in OwnPhases(user.cmd)
        /\ srv'.phase \in BulkTime
    BY <1>11, <1>12, <1>13
  <2>2. TimeSize(srv') = size
    BY <1>5, <1>13, MadeKeeps DEF size
  <2>3. Sound(srv', user)
    BY <1>3, <1>5, <1>7, <1>8, <1>13, <2>1, <2>2, SoundBulk
  <2>4. QED
    BY <1>1, <1>2, <1>4, <1>13, <2>1, <2>3, ChunkGoesOn
<1>14. PICK no \in BOOLEAN : no = FALSE
  OBVIOUS
<1>15. out = Taken(toClient, Chunk(size, no), pos)
  BY <1>14
<1>16. pos <= size
  BY <1>6, <1>7
<1> HIDE DEF out, pos
<1>17. /\ out \in Seq(Unit) /\ Len(out) \in Nat /\ pos + Len(out) <= size
       /\ toClient \o out \in Seq(Unit) /\ Len(toClient \o out) <= Cap /\ NoErr(toClient \o out)
       /\ Silent(toClient \o out, todo[1].hear)
  BY <1>3, <1>5, <1>6, <1>7, <1>14, <1>15, <1>16, ChunkSaid
<1>18. /\ toClient' \in Seq(Unit) /\ Len(toClient') <= Cap /\ NoErr(toClient')
       /\ Silent(toClient', todo[1].hear)
  BY <1>1, <1>17
<1>19. Len(Chunk(size, FALSE)) = size
  BY <1>6, ChunkUnits
<1>20. CASE pos + Len(out) = size /\ srv.over
  <2>1. srv' = [begun EXCEPT !.phase = "GetTimeSendLastChunk", !.wpos = 0, !.got = <<>>]
    BY <1>1, <1>19, <1>20
  <2>2. "GetTimeSendLastChunk" \in Talking \cup Reading /\ <<>> \in Seq(Unit)
    BY <1>11
  <2>3. /\ srv' \in SrvState /\ srv'.phase = "GetTimeSendLastChunk" /\ srv'.wpos = 0
        /\ srv'.got = <<>> /\ srv'.size = begun.size /\ srv'.clock = begun.clock
        /\ srv'.made = begun.made /\ srv'.done = begun.done
    BY <1>10, <2>1, <2>2 DEF SrvState
  <2>4. 0 < size
    BY <1>6
  <2>5. QED
    BY <1>10, <1>13, <1>18, <2>3, <2>4
<1>21. CASE pos + Len(out) = size /\ ~srv.over
  <2>1. srv' = [begun EXCEPT !.wpos = 0]
    BY <1>1, <1>19, <1>21
  <2>2. /\ srv' \in SrvState /\ srv'.phase = begun.phase /\ srv'.wpos = 0
        /\ srv'.got = begun.got /\ srv'.size = begun.size /\ srv'.clock = begun.clock
        /\ srv'.made = begun.made /\ srv'.done = begun.done
    BY <1>10, <2>1 DEF SrvState
  <2>3. 0 < size
    BY <1>6
  <2>4. QED
    BY <1>1, <1>5, <1>10, <1>13, <1>18, <2>2, <2>3
<1>22. CASE pos + Len(out) # size
  <2>1. srv' = [begun EXCEPT !.wpos = pos + Len(out)]
    BY <1>1, <1>19, <1>22
  <2>2. pos + Len(out) \in Nat /\ pos + Len(out) < size
    BY <1>6, <1>7, <1>17, <1>22
  <2>3. /\ srv' \in SrvState /\ srv'.phase = begun.phase /\ srv'.wpos = pos + Len(out)
        /\ srv'.got = begun.got /\ srv'.size = begun.size /\ srv'.clock = begun.clock
        /\ srv'.made = begun.made /\ srv'.done = begun.done
    BY <1>10, <2>1, <2>2 DEF SrvState
  <2>4. QED
    BY <1>1, <1>5, <1>10, <1>13, <1>18, <2>2, <2>3
<1>23. QED
  BY <1>20, <1>21, <1>22

LEMMA GetTimeSendLast ==
    ASSUME CommandsInv, server = "mio", UNCHANGED <<server, task, user>>,
           handle_perf_send_last_chunk
    PROVE  CommandsInv'
<1> DEFINE size == GetTimeSize
           pos  == srv.wpos
           out  == Taken(toClient, Chunk(size, TRUE), pos)
<1>1. /\ srv.phase = "GetTimeSendLastChunk" /\ out # <<>> /\ toClient' = toClient \o out
      /\ srv' = IF pos + Len(out) = Len(Chunk(size, TRUE)) THEN Anew("GetTimeReceiveOk")
                ELSE [srv EXCEPT !.wpos = pos + Len(out)]
      /\ UNCHANGED <<toServer, gone, splitOk>>
  BY DEF handle_perf_send_last_chunk, SrvWrites, SrvWritesFrom, At
<1>2. srv.phase \in Sends /\ srv.phase \notin Counts /\ srv.phase \in BulkTime /\ srv.phase \in Talking
  BY <1>1 DEF Sends, Counts, BulkTime, Talking
<1>3. /\ srv \in SrvState /\ Sound(srv, user) /\ Positions(srv) /\ NoErr(toClient)
      /\ toClient \in Seq(Unit) /\ Len(toClient) <= Cap
  BY MioFacts
<1>4. PICK todo \in Agenda : Speaking(srv, user, toServer, toClient, todo)
  BY <1>2, MioTalks
<1>5. /\ todo[1].hear.of = "FF" /\ todo[1].hear.at = 1 /\ srv.got = <<>>
      /\ Silent(toClient, todo[1].hear) /\ srv.size \in Sizes
      /\ srv.phase \in OwnPhases(user.cmd)
  BY <1>2, <1>4, SendsFacts
<1>6. size = TimeSize(srv) /\ size \in Nat /\ size >= 2
  BY <1>3, <1>5, MadeFacts
<1> HIDE DEF size
<1>7. pos \in Nat /\ pos < size /\ pos <= size /\ srv.done = 0
  BY <1>2, <1>3, <1>6, StateFacts DEF Positions
<1>8. PICK yes \in BOOLEAN : yes = TRUE
  OBVIOUS
<1>9. out = Taken(toClient, Chunk(size, yes), pos)
  BY <1>8
<1>10. Len(Chunk(size, TRUE)) = size
  BY <1>6, ChunkUnits
<1> HIDE DEF out, pos
<1>11. /\ out \in Seq(Unit) /\ Len(out) \in Nat /\ pos + Len(out) <= size
       /\ toClient \o out \in Seq(Unit) /\ Len(toClient \o out) <= Cap /\ NoErr(toClient \o out)
       /\ pos + Len(out) # size => Silent(toClient \o out, todo[1].hear)
       /\ pos + Len(out) = size => EndsOnly(toClient \o out, todo[1].hear)
  <2>1. /\ out \in Seq(Unit) /\ Len(out) \in Nat /\ pos + Len(out) <= size
        /\ toClient \o out \in Seq(Unit) /\ Len(toClient \o out) <= Cap /\ NoErr(toClient \o out)
        /\ ~yes \/ pos + Len(out) # size => Silent(toClient \o out, todo[1].hear)
        /\ yes /\ pos + Len(out) = size /\ out # <<>> => EndsOnly(toClient \o out, todo[1].hear)
    BY <1>3, <1>5, <1>6, <1>7, <1>9, ChunkSaid
  <2>2. QED
    BY <1>1, <1>8, <2>1
<1>12. toClient' \in Seq(Unit) /\ Len(toClient') <= Cap /\ NoErr(toClient')
  BY <1>1, <1>11
<1>13. CASE pos + Len(out) = size
  <2>1. srv' = Anew("GetTimeReceiveOk")
    BY <1>1, <1>10, <1>13
  <2>2. "GetTimeReceiveOk" \in Talking \cup Reading
    BY DEF Reading, SpinsOnEof
  <2>3. /\ srv' \in SrvState /\ srv'.phase = "GetTimeReceiveOk" /\ srv'.wpos = 0
        /\ srv'.got = <<>> /\ srv'.size = srv.size /\ srv'.clock = srv.clock /\ srv'.done = srv.done
    BY <1>3, <2>1, <2>2, AnewIs
  <2>4. EndsOnly(toClient', todo[1].hear)
    BY <1>1, <1>11, <1>13
  <2>5. QED
    BY <1>1, <1>2, <1>4, <1>7, <1>12, <2>3, <2>4, ChunkIsThrough
<1>14. CASE pos + Len(out) # size
  <2>1. srv' = [srv EXCEPT !.wpos = pos + Len(out)]
    BY <1>1, <1>10, <1>14
  <2>2. pos + Len(out) \in Nat /\ pos + Len(out) < size
    BY <1>6, <1>7, <1>11, <1>14
  <2>3. /\ srv' \in SrvState /\ srv'.phase = srv.phase /\ srv'.wpos = pos + Len(out)
        /\ srv'.got = srv.got /\ srv'.size = srv.size /\ srv'.clock = srv.clock
        /\ srv'.made = srv.made /\ srv'.done = srv.done
    BY <1>3, <2>1, <2>2 DEF SrvState
  <2>4. Silent(toClient', todo[1].hear)
    BY <1>1, <1>11, <1>14
  <2>5. srv'.phase \notin Counts /\ srv'.phase \in Sends /\ srv'.got = <<>>
    BY <1>2, <1>5, <2>3
  <2>6. TimeSize(srv') = size
    BY <1>6, <2>3 DEF TimeSize
  <2>7. Sound(srv', user)
    BY <1>3, <1>5, <1>7, <2>2, <2>3, <2>5, <2>6, SoundBulk
  <2>8. QED
    BY <1>1, <1>2, <1>4, <1>12, <2>3, <2>4, <2>5, <2>7, ChunkGoesOn
<1>15. QED
  BY <1>13, <1>14

\* Only `over` or the status change.
LEMMA MioLike ==
    ASSUME CommandsInv, server = "mio", UNCHANGED <<server, task, user, gone>>,
           UNCHANGED <<toServer, toClient, splitOk>>,
           srv' \in SrvState, srv'.phase = srv.phase, srv'.got = srv.got, srv'.wpos = srv.wpos,
           srv'.size = srv.size, srv'.done = srv.done, srv'.clock = srv.clock, srv'.made = srv.made
    PROVE  CommandsInv'
<1>1. Positions(srv) /\ Owned(srv, user.cmd) /\ Ticks(srv.clock, user)
  BY MioFacts
<1>2. TimeSize(srv') = TimeSize(srv)
  BY DEF TimeSize
<1>3. Positions(srv')
  BY <1>1, <1>2 DEF Positions
<1>4. Sound(srv', user)
  BY <1>1, <1>3 DEF Sound, Owned
<1>5. PICK todo \in Agenda : MioScene(srv, user, toServer, toClient, todo)
  BY DEF CommandsInv, MioInv
<1>6. MioScene(srv', user, toServer', toClient', todo)
  <2>1. CASE Resting(srv, user, toServer, toClient, todo)
    BY <2>1 DEF Resting, MioScene
  <2>2. CASE Listening(srv, user, toServer, toClient, todo)
    BY <2>2 DEF Listening, MioScene
  <2>3. CASE Speaking(srv, user, toServer, toClient, todo)
    BY <2>3 DEF Speaking, MioScene
  <2>4. CASE Spoken(srv, user, toServer, toClient, todo)
    BY <2>4 DEF Spoken, MioScene
  <2>5. QED
    BY <1>5, <2>1, <2>2, <2>3, <2>4 DEF MioScene
<1>7. /\ toServer' \in Seq(Unit) /\ Len(toServer') <= Cap /\ splitOk' \in BOOLEAN
      /\ toClient' \in Seq(Unit) /\ Len(toClient') <= Cap /\ NoErr(toClient')
  BY MioFacts
<1>8. QED
  BY <1>4, <1>6, <1>7, MioStays

LEMMA GetTimeBlocks ==
    ASSUME CommandsInv, server = "mio", UNCHANGED <<server, task, user>>,
           get_time_would_block \/ get_chunks_panics \/ SrvEof \/ SrvGivesUp
    PROVE  CommandsInv'
<1>1. UNCHANGED wire
  BY DEF get_time_would_block, get_chunks_panics, SrvEof, SrvGivesUp
<1>2. srv \in SrvState
  BY MioFacts
<1>3. CASE get_time_would_block
  <2>1. srv' = [srv EXCEPT !.over = TRUE]
    BY <1>3 DEF get_time_would_block
  <2>2. /\ srv' \in SrvState /\ srv'.phase = srv.phase /\ srv'.got = srv.got
        /\ srv'.wpos = srv.wpos /\ srv'.size = srv.size /\ srv'.done = srv.done
        /\ srv'.clock = srv.clock /\ srv'.made = srv.made
    BY <1>2, <2>1 DEF SrvState
  <2>3. QED
    BY <1>1, <2>2, MioLike DEF wire
<1>4. ASSUME NEW how \in {"removed", "spin", "panic"}, srv' = [srv EXCEPT !.status = how]
      PROVE  CommandsInv'
  <2>1. /\ srv' \in SrvState /\ srv'.phase = srv.phase /\ srv'.got = srv.got
        /\ srv'.wpos = srv.wpos /\ srv'.size = srv.size /\ srv'.done = srv.done
        /\ srv'.clock = srv.clock /\ srv'.made = srv.made
    BY <1>2, <1>4 DEF SrvState
  <2>2. QED
    BY <1>1, <2>1, MioLike DEF wire
<1>5. QED
  BY <1>3, <1>4 DEF get_chunks_panics, SrvEof, SrvGivesUp

\* The points, laid over the last chunk: nothing in it is taken for an answer.
LEMMA ReportFacts ==
    ASSUME NEW size \in Nat, size >= 2, NEW arg \in Seq(Nat), NEW line, line = Line("TIMERESULT", arg),
           NEW buf, buf = line \o SubSeq(Chunk(size, TRUE), Len(line) + 1, size)
    PROVE  /\ buf \in Seq(Unit) /\ Len(buf) = size
           /\ \A i \in 1..size : buf[i].of \in {"TIMERESULT", "body", "00", "FF"}
<1>1. PICK of \in Words : of = "TIMERESULT"
  BY DEF Words
<1>2. /\ line \in Seq(Unit) /\ Len(line) = 2 /\ line[1].of = "TIMERESULT" /\ line[2].of = "TIMERESULT"
  BY <1>1, LineUnits
<1>3. PICK yes \in BOOLEAN : yes = TRUE
  OBVIOUS
<1> DEFINE chunk == Chunk(size, TRUE)
           n     == size - 2
           part  == SubSeq(chunk, 2 + 1, 2 + n)
<1>4. /\ chunk \in Seq(Unit) /\ Len(chunk) = size
      /\ \A i \in 1..size : chunk[i].of \in {"body", "00", "FF"}
  BY <1>3, ChunkUnits
<1>5. n \in Nat /\ 2 + n = size
  OBVIOUS
<1>6. buf = line \o part
  BY <1>2, <1>5
<1> HIDE DEF n, chunk
<1>7. part \in Seq(Unit) /\ Len(part) = n /\ \A i \in 1..n : part[i] = chunk[2 + i]
  BY <1>4, <1>5, PartOf
<1> HIDE DEF part
<1> DEFINE all == line \o part
<1>11. /\ all \in Seq(Unit) /\ Len(all) = Len(line) + Len(part)
       /\ \A i \in 1..Len(line) : all[i] = line[i]
       /\ \A i \in 1..Len(part) : all[Len(line) + i] = part[i]
  <2>1. \A s, t \in Seq(Unit) :
          /\ s \o t \in Seq(Unit) /\ Len(s \o t) = Len(s) + Len(t)
          /\ \A i \in 1..Len(s) : (s \o t)[i] = s[i]
          /\ \A i \in 1..Len(t) : (s \o t)[Len(s) + i] = t[i]
    BY JoinOf
  <2>2. QED
    BY <1>2, <1>7, <2>1
<1>12. buf = all
  BY <1>6
<1> HIDE DEF all
<1>8. /\ buf \in Seq(Unit) /\ Len(buf) = Len(line) + Len(part)
      /\ \A i \in 1..Len(line) : buf[i] = line[i]
      /\ \A i \in 1..Len(part) : buf[Len(line) + i] = part[i]
  BY <1>11, <1>12
<1>9. ASSUME NEW i \in 1..size PROVE buf[i].of \in {"TIMERESULT", "body", "00", "FF"}
  <2>1. CASE i \in {1, 2}
    <3>1. i \in 1..Len(line) /\ line[i].of = "TIMERESULT"
      BY <1>2, <2>1
    <3>2. QED
      BY <1>8, <3>1
  <2>2. CASE i \notin {1, 2}
    <3>1. PICK j \in 1..n : i = 2 + j
      <4>1. i - 2 \in 1..n /\ i = 2 + (i - 2)
        BY <1>5, <2>2
      <4>2. QED
        BY <4>1
    <3>2. buf[i] = chunk[2 + j]
      BY <1>2, <1>7, <1>8, <3>1
    <3>3. 2 + j \in 1..size
      BY <1>5, <3>1
    <3>4. QED
      BY <1>4, <3>2, <3>3
  <2>3. QED
    BY <2>1, <2>2
<1>10. QED
  BY <1>2, <1>5, <1>7, <1>8, <1>9

LEMMA PutTimeResultSend ==
    ASSUME CommandsInv, server = "mio", UNCHANGED <<server, task, user>>,
           handle_put_time_result_send_time
    PROVE  CommandsInv'
<1> DEFINE line == Line("TIMERESULT", <<srv.points>>)
           buf  == line \o SubSeq(Chunk(srv.size, TRUE), Len(line) + 1, srv.size)
           pos  == srv.wpos
           out  == Taken(toClient, buf, pos)
           anew == Anew("AcceptCommandSend")
           more == srv.points + 1
           fin  == [anew EXCEPT !.points = more]
<1>1. /\ srv.phase = "PutTimeResultSendTimeResult" /\ out # <<>> /\ toClient' = toClient \o out
      /\ srv' = IF pos + Len(out) = Len(buf) THEN [anew EXCEPT !.points = @ + 1]
                ELSE [srv EXCEPT !.wpos = pos + Len(out)]
      /\ UNCHANGED <<toServer, gone, splitOk>>
  BY DEF handle_put_time_result_send_time, SrvWrites, SrvWritesFrom, At
<1>2. PICK p \in Talking \ Quiet : p = srv.phase
  BY <1>1 DEF Talking, Quiet
<1>3. /\ srv \in SrvState /\ Sound(srv, user) /\ Positions(srv) /\ NoErr(toClient)
      /\ Owned(srv, user.cmd) /\ Ticks(srv.clock, user)
      /\ toClient \in Seq(Unit) /\ Len(toClient) <= Cap
      /\ toServer \in Seq(Unit) /\ Len(toServer) <= Cap /\ splitOk \in BOOLEAN
  BY MioFacts
<1>4. PICK todo \in Agenda : Speaking(srv, user, toServer, toClient, todo)
  BY <1>2, MioTalks
<1>5. todo[1].hear.of = "ACCEPT GETCHUNKS" /\ srv.got = <<>> /\ Silent(toClient, todo[1].hear)
  <2>1. PICK q \in Reading : Answers(srv.phase, srv.got, todo[1].hear.of, q)
    BY <1>4 DEF Speaking
  <2>2. todo[1].hear.of = "ACCEPT GETCHUNKS"
    BY <1>1, <2>1 DEF Answers, Counts, BulkTime, ToAccept
  <2>3. srv.got = <<>> /\ Silent(toClient, todo[1].hear)
    BY <1>1, <1>4 DEF Speaking, Kept
  <2>4. QED
    BY <2>2, <2>3
<1>6. srv.size \in Sizes /\ srv.wpos < srv.size /\ srv.done = 0
  BY <1>1, <1>3 DEF Owned, Sized, Positions, Bulk, Counts
<1>7. srv.size \in Nat /\ srv.size >= 2 /\ pos \in Nat /\ pos <= srv.size /\ srv.points \in Nat
  BY <1>3, <1>6, SizeFacts, StateFacts
<1>8. /\ buf \in Seq(Unit) /\ Len(buf) = srv.size
      /\ \A i \in 1..srv.size : buf[i].of \in {"TIMERESULT", "body", "00", "FF"}
  BY <1>7, ArgFacts, ReportFacts
<1> HIDE DEF buf, pos
<1>9. srv.size \in 1..srv.size /\ 1..(Len(buf) - 1) \subseteq 1..srv.size /\ pos <= Len(buf)
  BY <1>7, <1>8
<1>10. \A i \in 1..srv.size : ~SameUnit(buf[i], todo[1].hear) /\ ~SameUnit(buf[i], Err[1])
  BY <1>5, <1>8, ErrUnits DEF SameUnit
<1>11. ASSUME NEW hear, \A i \in 1..srv.size : ~SameUnit(buf[i], hear), Silent(toClient, hear)
       PROVE  /\ out \in Seq(Unit) /\ Len(out) \in Nat /\ pos + Len(out) <= Len(buf)
              /\ toClient' \in Seq(Unit) /\ Len(toClient') <= Cap /\ Silent(toClient', hear)
  <2>1. /\ \A i \in 1..(Len(buf) - 1) : ~SameUnit(buf[i], hear)
        /\ ~SameUnit(LastOf(buf), hear)
    BY <1>8, <1>9, <1>11 DEF LastOf
  <2>2. /\ out \in Seq(Unit) /\ Len(out) \in Nat /\ pos + Len(out) <= Len(buf)
        /\ toClient \o out \in Seq(Unit) /\ Len(toClient \o out) <= Cap
        /\ Silent(out, hear)
    BY <1>3, <1>7, <1>8, <1>9, <2>1, TakenEnds
  <2>3. Silent(toClient \o out, hear)
    BY <1>3, <1>11, <2>2, StaysSilent
  <2>4. QED
    BY <1>1, <2>2, <2>3
<1> HIDE DEF out
<1>12. /\ out \in Seq(Unit) /\ Len(out) \in Nat /\ pos + Len(out) <= Len(buf)
       /\ toClient' \in Seq(Unit) /\ Len(toClient') <= Cap /\ Silent(toClient', todo[1].hear)
  BY <1>5, <1>10, <1>11
<1>13. NoErr(toClient')
  BY <1>3, <1>10, <1>11 DEF NoErr
<1>14. CASE pos + Len(out) = Len(buf)
  <2>1. "AcceptCommandSend" \in Talking
    BY DEF Talking
  <2>2. /\ anew \in SrvState /\ anew.phase = "AcceptCommandSend" /\ anew.got = <<>> /\ anew.wpos = 0
        /\ anew.size = srv.size /\ anew.done = srv.done /\ anew.clock = srv.clock
    BY <1>3, <2>1, AnewIs
  <2>3. anew.points = srv.points
    BY <1>3 DEF Anew, SrvState
  <2>4. srv' = fin
    BY <1>1, <1>14, <2>2, <2>3 DEF SrvState
  <2>5. more \in Nat
    BY <1>7
  <2> HIDE DEF more, anew
  <2>6. /\ fin \in SrvState /\ fin.phase = anew.phase /\ fin.got = anew.got /\ fin.wpos = anew.wpos
        /\ fin.size = anew.size /\ fin.done = anew.done /\ fin.clock = anew.clock
    BY <2>2, <2>5 DEF SrvState
  <2> HIDE DEF fin
  <2>7. Len(fin.got) <= MaxChunk
    BY <2>2, <2>6, Bounds
  <2>8. fin.phase \notin Sized /\ fin.phase \notin Quiet /\ fin.phase \notin Holds
    BY <2>2, <2>6 DEF Sized, Takes2, Quiet, Holds
  <2>9. Sound(fin, user)
    BY <1>3, <1>6, <2>2, <2>6, <2>7, <2>8, SoundNext
  <2>10. user.cmd \in Uploads
    <3>1. PICK cmd \in Asked \cup {"none"} : cmd = "PUTTIMERESULT"
      BY DEF Asked
    <3>2. srv.phase \in OwnPhases(cmd)
      BY <1>1, <3>1 DEF OwnPhases
    <3>3. user.cmd = cmd
      BY <3>2, OwnedNext
    <3>4. QED
      BY <3>1, <3>3 DEF Uploads
  <2>11. Rested(fin.clock, user.cmd)
    BY <1>3, <2>2, <2>6, <2>10, RestsAfter
  <2>12. PICK of \in Words : of = "TIMERESULT"
    BY DEF Words
  <2>13. \A w, r : Answers(p, srv.got, w, r) => w # of /\ Answers(fin.phase, fin.got, w, r)
    BY <1>1, <1>2, <2>2, <2>6, <2>12 DEF Answers, Counts, BulkTime, ToAccept
  <2>14. fin.got = Kept(fin.phase, srv.got)
    BY <2>2, <2>6, <2>8 DEF Kept, Holds
  <2>15. Leads(p, of, fin)
    BY <2>2, <2>6, <2>8, <2>9, <2>11, <2>13, <2>14 DEF Leads
  <2>16. of # todo[1].hear.of
    BY <1>5, <2>12
  <2>17. MioScene(fin, user, toServer, toClient', todo)
    BY <1>2, <1>4, <1>12, <2>15, <2>16, LineIsThrough
  <2>18. MioScene(srv', user, toServer', toClient', todo) /\ Sound(srv', user)
    BY <1>1, <2>4, <2>9, <2>17
  <2>19. /\ toServer' \in Seq(Unit) /\ Len(toServer') <= Cap /\ splitOk' \in BOOLEAN
         /\ UNCHANGED <<gone, server, task, user>>
    BY <1>1, <1>3
  <2>20. QED
    BY <1>12, <1>13, <2>18, <2>19, MioStays
<1>15. CASE pos + Len(out) # Len(buf)
  <2>1. srv' = [srv EXCEPT !.wpos = pos + Len(out)]
    BY <1>1, <1>15
  <2>2. pos + Len(out) \in Nat /\ pos + Len(out) < srv.size
    BY <1>7, <1>8, <1>12, <1>15
  <2>3. /\ srv' \in SrvState /\ srv'.phase = srv.phase /\ srv'.wpos = pos + Len(out)
        /\ srv'.got = srv.got /\ srv'.size = srv.size /\ srv'.clock = srv.clock
        /\ srv'.done = srv.done
    BY <1>3, <2>1, <2>2 DEF SrvState
  <2>4. Carries(srv', p)
    BY <1>2, <2>3 DEF Carries
  <2>5. MioScene(srv', user, toServer, toClient', todo)
    BY <1>2, <1>4, <1>12, <2>4, MoreToWrite
  <2>6. /\ srv'.phase \notin Reading \cup {"GetChunksSendTime", "GetTimeSendTime"}
        /\ srv'.phase \notin BulkTime
    BY <1>1, <2>3 DEF Reading, SpinsOnEof, BulkTime
  <2>7. srv.phase \in Bulk /\ srv.phase \notin Counts
    BY <1>1 DEF Bulk, Counts
  <2>8. Positions(srv')
    BY <1>3, <1>6, <2>2, <2>3, <2>6, <2>7 DEF Positions
  <2>9. Sound(srv', user)
    BY <1>3, <2>3, <2>8 DEF Sound, Owned
  <2>10. /\ toServer' \in Seq(Unit) /\ Len(toServer') <= Cap /\ splitOk' \in BOOLEAN
         /\ UNCHANGED <<gone, server, task, user>> /\ MioScene(srv', user, toServer', toClient', todo)
    BY <1>1, <1>3, <2>5
  <2>11. QED
    BY <1>12, <1>13, <2>9, <2>10, MioStays
<1>16. QED
  BY <1>14, <1>15
-----------------------------------------------------------------------------
(* The mio server reads.                                                   *)

\* What the server waits for.
Heeds(todo) ==
    \/ Takes(srv.phase, srv.size, todo)
    \/ srv.phase = "GreetingReceiveConnectionType" /\ todo = Hello
    \/ srv.phase = "AcceptCommandReceive" /\ Commanding(user.cmd, todo)

\* It has read so much of what the client says, from its m-th unit on, and the rest is on the
\* way.
HasRead(todo, m, read, rest) ==
    /\ m \in Nat /\ m \in {0, srv.size}
    /\ m = 0 \/ srv.phase \in Takes2
    /\ read \in Seq(Unit) /\ Len(read) \in Nat /\ Len(read) >= 1
    /\ m + Len(read) <= Len(todo[1].say)
    /\ \A i \in 1..Len(read) : read[i] = todo[1].say[m + i]
    /\ LastOf(read) = todo[1].say[m + Len(read)]
    /\ rest \in Seq(Unit) /\ Len(rest) <= Cap
    /\ FromOn(read \o rest, todo[1].say, m, user.said)
    /\ FromOn(rest, todo[1].say, m + Len(read), user.said)
    /\ m + Len(read) = Len(todo[1].say) => rest = <<>> /\ user.said = Len(todo[1].say)

LEMMA MioListens ==
    ASSUME CommandsInv, server = "mio", NEW space \in Nat, NEW data \in Pieces(toServer, space)
    PROVE  /\ data \in Seq(Unit) /\ Len(data) \in 1..space
           /\ Len(srv.got \o data) = Len(srv.got) + Len(data)
           /\ LastOf(data) = LastOf(srv.got \o data)
           /\ \E todo \in Agenda :
                 /\ todo # <<>> /\ toClient = <<>> /\ Heeds(todo)
                 /\ \E m \in {0, srv.size} :
                       HasRead(todo, m, srv.got \o data, Rest(toServer, data))
<1>1. /\ Wired /\ srv \in SrvState /\ toServer \in Seq(Unit) /\ Len(toServer) <= Cap
  BY MioFacts
<1>2. srv.got \in Seq(Unit) /\ srv.size \in {0} \cup Sizes
  BY <1>1, StateFacts
<1>3. toServer # <<>>
  <2>1. Len(data) \in 1..space /\ Len(data) <= Len(toServer)
    BY <1>1, PieceFacts
  <2>2. Len(<<>>) = 0 /\ Len(data) >= 1
    BY <2>1
  <2>3. QED
    BY <2>1, <2>2
<1>4. PICK todo \in Agenda : Listening(srv, user, toServer, toClient, todo)
  BY <1>3, MioHears
<1>5. todo # <<>> /\ toClient = <<>> /\ Heeds(todo)
  BY <1>4 DEF Listening, Heeds
<1>6. PICK m \in {0, srv.size} : /\ FromOn(srv.got \o toServer, todo[1].say, m, user.said)
                                 /\ m = 0 \/ srv.phase \in Takes2
  BY <1>4 DEF Listening
<1>7. todo[1].say \in Seq(Unit)
  BY <1>1, <1>5, AgendaFacts
<1>8. user.said \in Nat /\ m \in Nat
  BY <1>1, <1>2, SizeFacts DEF Wired, UserState
<1> DEFINE text == todo[1].say
           said == user.said
           got  == srv.got
           read == got \o data
           rest == Rest(toServer, data)
<1>9. /\ read \in Seq(Unit) /\ Len(read) = Len(got) + Len(data)
      /\ data \in Seq(Unit) /\ Len(data) \in 1..space /\ Len(got) \in Nat
      /\ rest \in Seq(Unit) /\ Len(rest) <= Len(toServer)
      /\ Len(read) \in 1..(said - m) /\ said - m <= Len(text)
      /\ \A i \in 1..Len(read) : read[i] = text[m + i]
      /\ LastOf(read) = text[m + Len(read)] /\ LastOf(data) = LastOf(read)
      /\ FromOn(read \o rest, text, m, said)
      /\ FromOn(rest, text, m + Len(read), said)
      /\ rest = <<>> <=> Len(read) = said - m
  <2> HIDE DEF text, said, got
  <2>1. /\ text \in Seq(Unit) /\ said \in Nat /\ got \in Seq(Unit)
        /\ FromOn(got \o toServer, text, m, said)
    BY <1>2, <1>6, <1>7, <1>8 DEF text, said, got
  <2>2. QED
    BY <1>1, <1>8, <2>1, ReadsOn, SMTT(60)
<1>10. m <= said /\ said <= Len(text) /\ Len(text) \in Nat
  BY <1>6, <1>7 DEF FromOn
<1>11. Len(rest) <= Cap
  <2> HIDE DEF rest
  <2>1. Len(rest) \in Nat /\ Len(toServer) \in Nat /\ Cap \in Nat
    BY <1>1, <1>9, Bounds
  <2>2. QED
    BY <1>1, <1>9, <2>1
<1> HIDE DEF text, said, got, read, rest
<1>12. Len(read) \in Nat /\ Len(read) >= 1 /\ m + Len(read) <= Len(text)
  BY <1>8, <1>9, <1>10 DEF said
<1>13. m + Len(read) = Len(text) => rest = <<>> /\ said = Len(text)
  <2>1. said \in Nat
    BY <1>8 DEF said
  <2>2. QED
    BY <1>8, <1>9, <1>10, <1>12, <2>1
<1>14. HasRead(todo, m, read, rest)
  BY <1>6, <1>8, <1>9, <1>11, <1>12, <1>13 DEF HasRead, text, said
<1>15. QED
  BY <1>5, <1>9, <1>14 DEF read, rest, got

\* There is more to be read.
LEMMA ReadsMore ==
    ASSUME CommandsInv, server = "mio", UNCHANGED <<server, task, user>>,
           UNCHANGED <<toClient, gone>>, splitOk' \in BOOLEAN,
           NEW todo \in Agenda, todo # <<>>, toClient = <<>>, Heeds(todo), srv.phase \in Reading,
           NEW m, NEW read, HasRead(todo, m, read, toServer'), Len(read) <= MaxChunk,
           srv' = [srv EXCEPT !.got = read]
    PROVE  CommandsInv'
<1>1. /\ srv \in SrvState /\ Sound(srv, user) /\ NoErr(toClient) /\ Positions(srv)
      /\ toClient \in Seq(Unit) /\ Len(toClient) <= Cap /\ Owned(srv, user.cmd)
      /\ Ticks(srv.clock, user)
  BY MioFacts
<1>2. /\ m \in {0, srv.size} /\ (m = 0 \/ srv.phase \in Takes2) /\ read \in Seq(Unit)
      /\ toServer' \in Seq(Unit) /\ Len(toServer') <= Cap
      /\ FromOn(read \o toServer', todo[1].say, m, user.said)
  BY DEF HasRead
<1>3. /\ srv' \in SrvState /\ srv'.phase = srv.phase /\ srv'.got = read /\ srv'.wpos = srv.wpos
      /\ srv'.size = srv.size /\ srv'.done = srv.done /\ srv'.clock = srv.clock
      /\ srv'.made = srv.made
  BY <1>1, <1>2 DEF SrvState
<1>4. TimeSize(srv') = TimeSize(srv)
  BY <1>3 DEF TimeSize
<1>5. Positions(srv')
  BY <1>1, <1>3, <1>4 DEF Positions
<1>6. Sound(srv', user)
  BY <1>1, <1>3, <1>5 DEF Sound, Owned
<1>7. \/ Takes(srv'.phase, srv'.size, todo)
      \/ srv'.phase = "GreetingReceiveConnectionType" /\ todo = Hello
      \/ srv'.phase = "AcceptCommandReceive" /\ Commanding(user.cmd, todo)
  BY <1>3 DEF Heeds
<1>8. \E k \in {0, srv'.size} : /\ FromOn(srv'.got \o toServer', todo[1].say, k, user.said)
                                /\ k = 0 \/ srv'.phase \in Takes2
  BY <1>2, <1>3
<1>9. Listening(srv', user, toServer', toClient', todo)
  BY <1>7, <1>8 DEF Listening
<1>10. MioScene(srv', user, toServer', toClient', todo)
  BY <1>9 DEF MioScene
<1>11. toClient' \in Seq(Unit) /\ Len(toClient') <= Cap /\ NoErr(toClient')
  BY <1>1
<1>12. QED
  BY <1>2, <1>6, <1>10, <1>11, MioStays

\* All is read, and the server goes on to answer.
LEMMA ReadsAll ==
    ASSUME CommandsInv, server = "mio", UNCHANGED <<server, task, user>>,
           gone' = gone, splitOk' \in BOOLEAN,
           NEW todo \in Agenda, todo # <<>>,
           NEW m, NEW read, HasRead(todo, m, read, toServer'), m + Len(read) = Len(todo[1].say),
           Sound(srv', user), srv'.got = Kept(srv'.phase, todo[1].say),
           NEW q \in Reading, Answers(srv'.phase, srv'.got, todo[1].hear.of, q),
           Takes(q, srv'.size, Tail(todo)),
           todo[1].hear.at = IF todo[1].hear.of = "FF" THEN 1 ELSE 2,
           srv'.phase \in {"AcceptCommandSend", "PingSendTime"} => Rested(srv'.clock, user.cmd),
           toClient' \in Seq(Unit), Len(toClient') <= Cap, NoErr(toClient'),
           Silent(toClient', todo[1].hear), srv'.phase \in Quiet => toClient' = <<>>
    PROVE  CommandsInv'
<1>1. toServer' = <<>> /\ user.said = Len(todo[1].say)
  BY DEF HasRead
<1>2. Speaking(srv', user, toServer', toClient', todo)
  BY <1>1 DEF Speaking
<1>3. MioScene(srv', user, toServer', toClient', todo)
  BY <1>2 DEF MioScene
<1>4. toServer' \in Seq(Unit) /\ Len(toServer') <= Cap
  BY DEF HasRead
<1>5. QED
  BY <1>3, <1>4, MioStays

\* One chunk is read, of two.
LEMMA ReadsFirst ==
    ASSUME CommandsInv, server = "mio", UNCHANGED <<server, task, user>>,
           UNCHANGED <<toClient, gone>>, splitOk' \in BOOLEAN,
           NEW todo \in Agenda, todo # <<>>, toClient = <<>>, srv.phase \in Takes2,
           Takes(srv.phase, srv.size, todo),
           NEW read, HasRead(todo, 0, read, toServer'), Len(read) = srv.size,
           srv' \in SrvState, srv'.phase = srv.phase, srv'.got = <<>>, srv'.wpos = srv.wpos,
           srv'.size = srv.size, srv'.done = srv.done, srv'.clock = srv.clock
    PROVE  CommandsInv'
<1>1. /\ srv \in SrvState /\ NoErr(toClient) /\ Positions(srv)
      /\ toClient \in Seq(Unit) /\ Len(toClient) <= Cap /\ Owned(srv, user.cmd)
      /\ Ticks(srv.clock, user) /\ srv.size \in {0} \cup Sizes
  BY MioFacts, StateFacts
<1>2. /\ toServer' \in Seq(Unit) /\ Len(toServer') <= Cap
      /\ FromOn(toServer', todo[1].say, 0 + srv.size, user.said)
  BY DEF HasRead
<1>3. 0 + srv.size = srv.size
  BY <1>1, SizeFacts
<1>4. <<>> \o toServer' = toServer'
  BY <1>2
<1>5. FromOn(srv'.got \o toServer', todo[1].say, srv'.size, user.said)
  BY <1>2, <1>3, <1>4
<1>6. Listening(srv', user, toServer', toClient', todo)
  BY <1>5 DEF Listening
<1>7. MioScene(srv', user, toServer', toClient', todo)
  BY <1>6 DEF MioScene
<1>8. srv'.phase \in Reading /\ srv'.phase \notin Bulk \cup BulkTime
  BY PhasesApart DEF Takes2, Bulk, BulkTime, Counts
<1>9. Len(srv'.got) <= MaxChunk
  BY Bounds
<1>10. Positions(srv')
  BY <1>1, <1>8, <1>9 DEF Positions
<1>11. Sound(srv', user)
  BY <1>1, <1>10 DEF Sound, Owned
<1>12. toClient' \in Seq(Unit) /\ Len(toClient') <= Cap /\ NoErr(toClient')
  BY <1>1
<1>13. QED
  BY <1>2, <1>7, <1>11, <1>12, MioStays
-----------------------------------------------------------------------------
(* Lines that the mio server reads.                                        *)

\* A last line that is read: the token, or OK.
Lasts == Awaits \cup {"GreetingReceiveToken"}

\* The session after it, which goes on to phase next.
GoesTo(s, next) ==
    /\ s \in SrvState /\ s.phase = next /\ s.got = <<>> /\ s.wpos = srv.wpos
    /\ s.size = srv.size /\ s.done = srv.done /\ s.clock \in {srv.clock, "none"}
    /\ next \in OwnPhases(user.cmd) /\ next \in ToAccept
    /\ next \in Sized => srv.phase \in Sized
    /\ next \notin Holds /\ next # "AcceptCommandSend"
    /\ next = "PingSendTime" => s.clock = "none"

LEMMA ShortRead ==
    ASSUME NEW read \in Seq(Unit), Len(read) >= 1, 0 + Len(read) <= 2
    PROVE  Len(read) \in {1, 2} /\ read # <<>> /\ Len(read) <= MaxChunk
<1>1. PICK n \in Nat : n = Len(read)
  OBVIOUS
<1>2. n = 1 \/ n = 2
  BY <1>1
<1>3. n <= MaxChunk
  BY <1>2, Bounds
<1>4. read # <<>>
  BY <1>1, <1>2
<1>5. QED
  BY <1>1, <1>2, <1>3, <1>4

LEMMA LineIsRead ==
    ASSUME NEW of \in Words, NEW arg \in Seq(Nat), NEW todo, todo[1].say = Line(of, arg),
           NEW read, NEW rest, HasRead(todo, 0, read, rest)
    PROVE  /\ read \in Seq(Unit) /\ read # <<>> /\ Len(read) \in {1, 2} /\ Len(read) <= MaxChunk
           /\ EndsLine(read) <=> Len(read) = 2
           /\ Len(read) = 2 => read = Line(of, arg) /\ 0 + Len(read) = Len(todo[1].say)
<1> DEFINE text == Line(of, arg)
<1>1. /\ text \in Seq(Unit) /\ Len(text) = 2 /\ text[1].at = 1 /\ text[2].at = 2
  BY LineUnits
<1> HIDE DEF text
<1>2. todo[1].say = text
  BY DEF text
<1>3. /\ read \in Seq(Unit) /\ Len(read) \in Nat /\ Len(read) >= 1 /\ 0 + Len(read) <= 2
      /\ \A i \in 1..Len(read) : read[i] = text[0 + i]
      /\ LastOf(read) = text[0 + Len(read)]
  BY <1>1, <1>2 DEF HasRead
<1>4. Len(read) \in {1, 2} /\ read # <<>>
  BY <1>3, ShortRead
<1>5. ASSUME NEW i \in 1..Len(read) PROVE read[i] = text[i]
  <2>1. 0 + i = i
    OBVIOUS
  <2>2. QED
    BY <1>3, <2>1
<1>6. EndsLine(read) <=> Len(read) = 2
  <2>1. CASE Len(read) = 1
    BY <1>1, <1>3, <1>4, <2>1 DEF EndsLine
  <2>2. CASE Len(read) = 2
    BY <1>1, <1>3, <1>4, <2>2 DEF EndsLine
  <2>3. QED
    BY <1>4, <2>1, <2>2
<1>7. ASSUME Len(read) = 2 PROVE read = text
  <2>1. read \in Seq(Unit) /\ text \in Seq(Unit) /\ Len(read) = Len(text)
    BY <1>1, <1>3, <1>7
  <2>2. QED
    BY <1>5, <2>1, SeqEqual
<1>9. Len(read) <= MaxChunk
  BY <1>3, ShortRead
<1>10. Len(read) = 2 => 0 + Len(read) = Len(todo[1].say)
  BY <1>1, <1>2
<1>11. QED
  BY <1>3, <1>4, <1>6, <1>7, <1>9, <1>10 DEF text

LEMMA LastsSay ==
    ASSUME NEW p \in Lasts, NEW size, NEW todo, Takes(p, size, todo)
    PROVE  /\ Tail(todo) = <<>>
           /\ todo[1].hear.of = "ACCEPT GETCHUNKS" /\ todo[1].hear.at = 2
           /\ \E of \in Words, arg \in Seq(Nat) : todo[1].say = Line(of, arg)
<1>1. PICK arg \in Seq(Nat) : arg = <<>>
  BY ArgFacts
<1>2. PICK token \in Words, ok \in Words : token = "TOKEN" /\ ok = "OK"
  BY DEF Words
<1>3. CASE p \in Awaits
  <2>1. /\ todo[1].say = OK /\ Tail(todo) = <<>>
        /\ todo[1].hear.of = "ACCEPT GETCHUNKS" /\ todo[1].hear.at = 2
    BY <1>3, TakesOk
  <2>2. todo[1].say = Line(ok, arg)
    BY <1>1, <1>2, <2>1 DEF OK
  <2>3. QED
    BY <2>1, <2>2
<1>4. CASE p = "GreetingReceiveToken"
  <2>1. /\ todo[1].say = Line("TOKEN", <<>>) /\ Tail(todo) = <<>>
        /\ todo[1].hear.of = "ACCEPT GETCHUNKS" /\ todo[1].hear.at = 2
    BY <1>4, TakesToken
  <2>2. todo[1].say = Line(token, arg)
    BY <1>1, <1>2, <2>1
  <2>3. QED
    BY <2>1, <2>2
<1>5. QED
  BY <1>3, <1>4 DEF Lasts

LEMMA LastLineRead ==
    ASSUME CommandsInv, server = "mio", UNCHANGED <<server, task, user>>, srv.phase \in Lasts,
           NEW data \in Pieces(toServer, Cap), toServer' = Rest(toServer, data),
           UNCHANGED <<toClient, gone>>, splitOk' \in BOOLEAN, NEW next,
           \/ srv' = [srv EXCEPT !.got = srv.got \o data]
           \/ (EndsLine(data) \/ Len(data) >= 2) /\ GoesTo(srv', next)
    PROVE  CommandsInv'
<1>1. /\ srv \in SrvState /\ Sound(srv, user) /\ Positions(srv) /\ NoErr(toClient)
      /\ toClient \in Seq(Unit) /\ Len(toClient) <= Cap
  BY MioFacts
<1>2. srv.phase \in Reading /\ srv.phase \notin Takes2 /\ srv.phase \notin Counts
  BY PhasesApart DEF Lasts, Awaits, Takes2, Counts, Reading, SpinsOnEof
<1>3. Cap \in Nat
  BY Bounds
<1> DEFINE read == srv.got \o data
<1>4. /\ data \in Seq(Unit) /\ LastOf(data) = LastOf(read) /\ Len(data) \in 1..Cap
      /\ Len(read) = Len(srv.got) + Len(data)
  BY <1>3, MioListens
<1>5. PICK todo \in Agenda : /\ todo # <<>> /\ toClient = <<>> /\ Heeds(todo)
                             /\ \E m \in {0, srv.size} : HasRead(todo, m, read, toServer')
  BY <1>3, MioListens
<1>6. HasRead(todo, 0, read, toServer')
  BY <1>2, <1>5 DEF HasRead
<1>7. Takes(srv.phase, srv.size, todo)
  BY <1>5 DEF Heeds, Lasts, Awaits
<1>8. PICK of \in Words, arg \in Seq(Nat) : /\ todo[1].say = Line(of, arg) /\ Tail(todo) = <<>>
                                            /\ todo[1].hear.of = "ACCEPT GETCHUNKS"
                                            /\ todo[1].hear.at = 2
  BY <1>7, LastsSay
<1> HIDE DEF read
<1>9. /\ read \in Seq(Unit) /\ read # <<>> /\ Len(read) \in {1, 2} /\ Len(read) <= MaxChunk
      /\ EndsLine(read) <=> Len(read) = 2
      /\ Len(read) = 2 => 0 + Len(read) = Len(todo[1].say)
  BY <1>6, <1>8, LineIsRead
<1>10. CASE srv' = [srv EXCEPT !.got = read]
  BY <1>2, <1>5, <1>6, <1>9, <1>10, ReadsMore
<1>11. CASE (EndsLine(data) \/ Len(data) >= 2) /\ GoesTo(srv', next)
  <2>1. EndsLine(read)
    <3>1. CASE EndsLine(data)
      BY <1>4, <1>9, <3>1 DEF EndsLine
    <3>2. CASE Len(data) >= 2
      <4>1. srv.got \in Seq(Unit)
        BY <1>1, StateFacts
      <4>2. Len(srv.got) \in Nat /\ Len(data) \in Nat
        BY <1>4, <4>1
      <4>3. Len(read) >= 2
        BY <1>4, <3>2, <4>2
      <4>4. \A n \in {1, 2} : n >= 2 => n = 2
        OBVIOUS
      <4>5. Len(read) = 2
        BY <1>9, <4>3, <4>4, Zenon
      <4>6. QED
        BY <1>9, <4>5, Zenon
    <3>3. QED
      BY <1>11, <3>1, <3>2
  <2>2. 0 + Len(read) = Len(todo[1].say)
    BY <1>9, <2>1
  <2>3. srv'.wpos = 0 /\ srv'.done = 0
    BY <1>1, <1>2, <1>11 DEF Positions, GoesTo
  <2>4. Len(srv'.got) <= MaxChunk
    BY <1>11, Bounds DEF GoesTo
  <2>5. Sound(srv', user)
    BY <1>1, <1>11, <2>3, <2>4, SoundNext DEF GoesTo
  <2>6. srv'.got = Kept(srv'.phase, todo[1].say)
    BY <1>11 DEF Kept, Holds, GoesTo
  <2>7. PICK q \in Reading : q = "AcceptCommandReceive"
    BY DEF Reading
  <2>8. Answers(srv'.phase, srv'.got, todo[1].hear.of, q)
    BY <1>8, <1>11, <2>7 DEF Answers, GoesTo
  <2>9. Takes(q, srv'.size, Tail(todo))
    BY <1>8, <2>7 DEF Takes
  <2>10. todo[1].hear.at = IF todo[1].hear.of = "FF" THEN 1 ELSE 2
    BY <1>8
  <2>11. srv'.phase \in {"AcceptCommandSend", "PingSendTime"} => Rested(srv'.clock, user.cmd)
    BY <1>11 DEF Rested, GoesTo
  <2>12. Silent(toClient', todo[1].hear)
    BY <1>5 DEF Silent
  <2>13. toClient' = <<>>
    BY <1>5
  <2>14. toClient' \in Seq(Unit) /\ Len(toClient') <= Cap /\ NoErr(toClient') /\ gone' = gone
    BY <1>1
  <2>15. QED
    BY <1>5, <1>6, <2>2, <2>5, <2>6, <2>8, <2>9, <2>10, <2>11, <2>12, <2>13, <2>14, ReadsAll
<1>12. QED
  BY <1>10, <1>11 DEF read

LEMMA TokenReads ==
    ASSUME CommandsInv, server = "mio", UNCHANGED <<server, task, user>>,
           handle_greeting_receive_token
    PROVE  CommandsInv'
<1>1. PICK data \in Pieces(toServer, Cap) :
         /\ toServer' = Rest(toServer, data) /\ splitOk' = (splitOk \/ CutsOk(data))
         /\ srv' = IF EndsLine(data) THEN [srv EXCEPT !.phase = "GreetingSendOk", !.got = <<>>]
                   ELSE [srv EXCEPT !.got = srv.got \o data]
  <2>1. PICK data \in Pieces(toServer, Cap) :
           /\ toServer' = Rest(toServer, data) /\ splitOk' = (splitOk \/ CutsOk(data))
           /\ srv' = TokenRead(data)
    BY DEF handle_greeting_receive_token, SrvReads
  <2>2. TokenRead(data) = IF EndsLine(data)
                           THEN [srv EXCEPT !.phase = "GreetingSendOk", !.got = <<>>]
                          ELSE [srv EXCEPT !.got = srv.got \o data]
    BY MioFacts DEF TokenRead, SrvState
  <2>3. QED
    BY <2>1, <2>2
<1>2. srv.phase = "GreetingReceiveToken" /\ UNCHANGED <<toClient, gone>>
  BY DEF handle_greeting_receive_token, SrvReads, At
<1>3. srv.phase \in Lasts /\ splitOk' \in BOOLEAN
  BY <1>1, <1>2, MioFacts DEF Lasts, CutsOk
<1>4. CASE ~EndsLine(data)
  BY <1>1, <1>2, <1>3, <1>4, LastLineRead
<1>5. CASE EndsLine(data)
  <2>1. srv' = [srv EXCEPT !.phase = "GreetingSendOk", !.got = <<>>] /\ srv \in SrvState
    BY <1>1, <1>5, MioFacts
  <2>2. <<>> \in Seq(Unit) /\ "GreetingSendOk" \in Talking
    BY DEF Talking
  <2>3. /\ srv' \in SrvState /\ srv'.phase = "GreetingSendOk" /\ srv'.got = <<>>
        /\ srv'.wpos = srv.wpos /\ srv'.size = srv.size /\ srv'.done = srv.done
        /\ srv'.clock = srv.clock
    BY <2>1, <2>2 DEF SrvState
  <2>4. PICK cmd \in Asked \cup {"none"} : cmd = "none"
    OBVIOUS
  <2>5. user.cmd = cmd
    <3>1. srv.phase \in OwnPhases(cmd)
      BY <1>2, <2>4 DEF OwnPhases, Greets
    <3>2. QED
      BY <3>1, OwnedNext
  <2>6. /\ "GreetingSendOk" \in OwnPhases(user.cmd) /\ "GreetingSendOk" \in ToAccept
        /\ "GreetingSendOk" \notin Sized /\ "GreetingSendOk" \notin Holds
    BY <2>4, <2>5 DEF OwnPhases, Greets, ToAccept, Sized, Takes2, Holds
  <2>7. GoesTo(srv', "GreetingSendOk")
    BY <2>3, <2>6 DEF GoesTo
  <2>8. QED
    BY <1>1, <1>2, <1>3, <1>5, <2>7, LastLineRead
<1>6. QED
  BY <1>4, <1>5
LEMMA OkReads ==
    ASSUME CommandsInv, server = "mio", UNCHANGED <<server, task, user>>,
           handle_get_chunks_receive_ok \/ handle_get_time_receive_ok
    PROVE  CommandsInv'
<1>1. ASSUME NEW p \in {"GetChunksReceiveOK", "GetTimeReceiveOk"}, srv.phase = p,
             NEW next, next = IF p = "GetTimeReceiveOk" THEN "GetTimeSendTime"
                              ELSE "GetChunksSendTime",
             NEW time \in {0, 1}, NEW data \in Pieces(toServer, Cap),
             toServer' = Rest(toServer, data), UNCHANGED <<toClient, gone>>, splitOk' \in BOOLEAN,
             srv' = OkRead(data, next, time, srv.clock)
      PROVE  CommandsInv'
  <2>1. srv \in SrvState /\ p \in Lasts
    BY MioFacts DEF Lasts, Awaits
  <2>2. CASE ~(srv.got = <<>> /\ data = OK)
    <3>1. srv' = [srv EXCEPT !.got = srv.got \o data]
      BY <1>1, <2>2 DEF OkRead
    <3>2. QED
      BY <1>1, <2>1, <3>1, LastLineRead
  <2>3. CASE srv.got = <<>> /\ data = OK
    <3>1. srv' = [srv EXCEPT !.phase = next, !.time = time, !.clock = srv.clock]
      BY <1>1, <2>3 DEF OkRead
    <3>2. next \in Talking
      BY <1>1 DEF Talking
    <3>3. /\ srv' \in SrvState /\ srv'.phase = next /\ srv'.got = <<>> /\ srv'.wpos = srv.wpos
          /\ srv'.size = srv.size /\ srv'.done = srv.done /\ srv'.clock = srv.clock
      BY <2>1, <2>3, <3>1, <3>2 DEF SrvState
    <3>4. PICK a \in Asked \cup {"none"}, b \in Asked \cup {"none"} : a = "GETCHUNKS" /\ b = "GETTIME"
      BY DEF Asked
    <3>5. user.cmd = IF p = "GetTimeReceiveOk" THEN b ELSE a
      <4>1. CASE p = "GetTimeReceiveOk"
        <5>1. srv.phase \in OwnPhases(b)
          BY <1>1, <3>4, <4>1 DEF OwnPhases
        <5>2. QED
          BY <4>1, <5>1, OwnedNext
      <4>2. CASE p = "GetChunksReceiveOK"
        <5>1. srv.phase \in OwnPhases(a)
          BY <1>1, <3>4, <4>2 DEF OwnPhases
        <5>2. QED
          BY <4>2, <5>1, OwnedNext
      <4>3. QED
        BY <1>1, <4>1, <4>2
    <3>6. next \in OwnPhases(user.cmd)
      BY <1>1, <3>4, <3>5 DEF OwnPhases
    <3>7. /\ next \in ToAccept /\ next \notin Sized /\ next \notin Holds
          /\ next # "AcceptCommandSend" /\ next # "PingSendTime"
      BY <1>1 DEF ToAccept, Sized, Takes2, Holds
    <3>8. GoesTo(srv', next)
      BY <3>3, <3>6, <3>7 DEF GoesTo
    <3>9. Len(data) >= 2
      BY <2>3, OkUnits
    <3>10. QED
      BY <1>1, <2>1, <3>8, <3>9, LastLineRead
  <2>4. QED
    BY <2>2, <2>3
<1>2. CASE handle_get_chunks_receive_ok
  <2>1. PICK time \in {0, 1}, data \in Pieces(toServer, Cap) :
          /\ srv.phase = "GetChunksReceiveOK" /\ toServer' = Rest(toServer, data)
          /\ UNCHANGED <<toClient, gone>> /\ splitOk' = (splitOk \/ CutsOk(data))
          /\ srv' = OkRead(data, "GetChunksSendTime", time, srv.clock)
    BY <1>2 DEF handle_get_chunks_receive_ok, SrvReads, At
  <2>2. splitOk' \in BOOLEAN
    BY <2>1, MioFacts DEF CutsOk
  <2>3. QED
    BY <1>1, <2>1, <2>2
<1>3. CASE handle_get_time_receive_ok
  <2>1. PICK time \in {0, 1}, data \in Pieces(toServer, Cap) :
          /\ srv.phase = "GetTimeReceiveOk" /\ toServer' = Rest(toServer, data)
          /\ UNCHANGED <<toClient, gone>> /\ splitOk' = (splitOk \/ CutsOk(data))
          /\ srv' = OkRead(data, "GetTimeSendTime", time, srv.clock)
    BY <1>3 DEF handle_get_time_receive_ok, SrvReads, At
  <2>2. splitOk' \in BOOLEAN
    BY <2>1, MioFacts DEF CutsOk
  <2>3. QED
    BY <1>1, <2>1, <2>2
<1>4. QED
  BY <1>2, <1>3

LEMMA PingOkReads ==
    ASSUME CommandsInv, server = "mio", UNCHANGED <<server, task, user>>, handle_ping_receive_ok
    PROVE  CommandsInv'
<1>1. PICK time \in {0, 1}, data \in Pieces(toServer, Cap) :
        /\ srv.phase = "PingReceiveOk" /\ toServer' = Rest(toServer, data)
        /\ UNCHANGED <<toClient, gone>> /\ splitOk' = (splitOk \/ CutsOk(data))
        /\ srv' = PingOkRead(data, time, "none")
  BY DEF handle_ping_receive_ok, SrvReads, At
<1>2. splitOk' \in BOOLEAN
  BY <1>1, MioFacts DEF CutsOk
<1>3. srv \in SrvState /\ srv.phase \in Lasts
  BY <1>1, MioFacts DEF Lasts, Awaits
<1>4. data \in Seq(Unit) /\ Len(data) \in Nat /\ Len(OK) = 2
  BY Bounds, MioListens, OkUnits
<1> DEFINE same == SubSeq(data, 1, Least(Len(OK), Len(data))) = OK
<1>5. CASE ~same
  <2>1. srv' = [srv EXCEPT !.got = srv.got \o data]
    BY <1>1, <1>5 DEF PingOkRead
  <2>2. QED
    BY <1>1, <1>2, <1>3, <2>1, LastLineRead
<1>6. CASE same
  <2>1. srv' = [srv EXCEPT !.phase = "PingSendTime", !.time = time, !.clock = "none", !.got = <<>>]
    BY <1>1, <1>6 DEF PingOkRead
  <2>2. "PingSendTime" \in Talking /\ <<>> \in Seq(Unit)
    BY DEF Talking
  <2>3. /\ srv' \in SrvState /\ srv'.phase = "PingSendTime" /\ srv'.got = <<>>
        /\ srv'.wpos = srv.wpos /\ srv'.size = srv.size /\ srv'.done = srv.done
        /\ srv'.clock = "none"
    BY <1>3, <2>1, <2>2 DEF SrvState
  <2>4. PICK cmd \in Asked \cup {"none"} : cmd = "PING"
    BY DEF Asked
  <2>5. user.cmd = cmd
    <3>1. srv.phase \in OwnPhases(cmd)
      BY <1>1, <2>4 DEF OwnPhases
    <3>2. QED
      BY <3>1, OwnedNext
  <2>6. /\ "PingSendTime" \in OwnPhases(user.cmd) /\ "PingSendTime" \in ToAccept
        /\ "PingSendTime" \notin Sized /\ "PingSendTime" \notin Holds
    BY <2>4, <2>5 DEF OwnPhases, ToAccept, Sized, Takes2, Holds
  <2>7. GoesTo(srv', "PingSendTime")
    BY <2>3, <2>6 DEF GoesTo
  <2>8. Len(data) >= 2
    <3>1. PICK n \in Nat : n = Len(data)
      BY <1>4
    <3>2. PICK k \in Nat : k = Least(2, n) /\ k <= n
      BY DEF Least
    <3>3. 0 + k = k /\ 0 + 1 = 1
      OBVIOUS
    <3>4. Len(SubSeq(data, 0 + 1, 0 + k)) = k
      BY <1>4, <3>1, <3>2, <3>3, PartOf
    <3>5. k = 2
      BY <1>4, <1>6, <3>1, <3>2, <3>3, <3>4
    <3>6. QED
      BY <3>1, <3>2, <3>5
  <2>9. QED
    BY <1>1, <1>2, <1>3, <2>7, <2>8, LastLineRead
<1>7. QED
  BY <1>5, <1>6

\* The request, which is answered at once.
LEMMA RequestReads ==
    ASSUME CommandsInv, server = "mio", UNCHANGED <<server, task, user>>,
           handle_greeting_receive_connection_type
    PROVE  CommandsInv'
<1>1. PICK data \in Pieces(toServer, Cap) :
         /\ toServer' = Rest(toServer, data)
         /\ IF EndsLine(srv.got \o data)
            THEN /\ toClient' = toClient \o Taken(toClient, Line("UPGRADE", <<>>), 0)
                 /\ srv' = Anew("GreetingSendVersion")
            ELSE /\ srv' = [srv EXCEPT !.got = srv.got \o data]
                 /\ UNCHANGED toClient
  BY DEF handle_greeting_receive_connection_type
<1>2. srv.phase = "GreetingReceiveConnectionType" /\ UNCHANGED <<gone, splitOk>>
  BY DEF handle_greeting_receive_connection_type, At
<1>3. /\ srv \in SrvState /\ Sound(srv, user) /\ Positions(srv) /\ NoErr(toClient)
      /\ toClient \in Seq(Unit) /\ Len(toClient) <= Cap /\ splitOk' \in BOOLEAN
  BY <1>2, MioFacts
<1>4. srv.phase \in Reading /\ srv.phase \notin Takes2 /\ srv.phase \notin Counts
  BY <1>2 DEF Takes2, Counts, Reading, SpinsOnEof
<1>5. Cap \in Nat
  BY Bounds
<1> DEFINE read == srv.got \o data
<1>6. PICK todo \in Agenda : /\ todo # <<>> /\ toClient = <<>> /\ Heeds(todo)
                             /\ \E m \in {0, srv.size} : HasRead(todo, m, read, toServer')
  BY <1>1, <1>5, MioListens
<1> HIDE DEF read
<1>7. HasRead(todo, 0, read, toServer')
  BY <1>4, <1>6 DEF HasRead
<1>8. todo = Hello
  BY <1>2, <1>6 DEF Heeds, Takes, Awaits, Takes2
<1>9. PICK of \in Words, arg \in Seq(Nat), up \in Words :
         of = "GET /rmbt" /\ arg = <<>> /\ up = "UPGRADE"
  BY ArgFacts DEF Words
<1>10. /\ todo[1].say = Line(of, arg) /\ Tail(todo) = <<Hello[2]>>
       /\ todo[1].hear.of = "ACCEPT TOKEN" /\ todo[1].hear.at = 2
  BY <1>8, <1>9, HelloFacts
<1>11. /\ Len(read) <= MaxChunk
       /\ EndsLine(read) <=> Len(read) = 2
       /\ Len(read) = 2 => 0 + Len(read) = Len(todo[1].say)
  BY <1>7, <1>10, LineIsRead
<1>12. CASE ~EndsLine(read)
  <2>1. srv' = [srv EXCEPT !.got = read] /\ UNCHANGED toClient
    BY <1>1, <1>12 DEF read
  <2>2. QED
    BY <1>2, <1>3, <1>4, <1>6, <1>7, <1>11, <2>1, ReadsMore
<1>13. CASE EndsLine(read)
  <2>1. PICK q \in Talking \cup Reading : q = "GreetingSendVersion"
    BY DEF Talking
  <2> DEFINE out == Taken(toClient, Line(up, arg), 0)
  <2>2. srv' = Anew(q) /\ toClient' = toClient \o out
    BY <1>1, <1>9, <1>13, <2>1 DEF read
  <2>3. /\ srv' \in SrvState /\ srv'.phase = q /\ srv'.got = <<>> /\ srv'.wpos = 0
        /\ srv'.size = srv.size /\ srv'.done = srv.done /\ srv'.clock = srv.clock
        /\ Len(srv'.got) = 0
    BY <1>3, <2>2, AnewIs
  <2>4. srv'.done = 0 /\ Len(srv'.got) <= MaxChunk
    BY <1>3, <1>4, <2>3, Bounds DEF Positions
  <2>5. PICK cmd \in Asked \cup {"none"} : cmd = "none"
    OBVIOUS
  <2>6. user.cmd = cmd
    <3>1. srv.phase \in OwnPhases(cmd)
      BY <1>2, <2>5 DEF OwnPhases, Greets
    <3>2. QED
      BY <3>1, OwnedNext
  <2>7. q \in OwnPhases(user.cmd) /\ q \notin Sized /\ q \notin Holds /\ q \notin Quiet
    BY <2>1, <2>5, <2>6 DEF OwnPhases, Greets, Sized, Takes2, Holds, Quiet
  <2>8. Sound(srv', user)
    BY <1>3, <2>3, <2>4, <2>7, SoundNext
  <2>9. PICK pos \in {0, 1} : pos = 0
    OBVIOUS
  <2>10. out = Taken(toClient, Line(up, arg), pos)
    BY <2>9
  <2> HIDE DEF out
  <2>11. /\ toClient' \in Seq(Unit) /\ Len(toClient') <= Cap /\ NoErr(toClient')
         /\ Silent(toClient', todo[1].hear)
    <3> DEFINE hear == todo[1].hear
    <3>1. Silent(toClient, hear) /\ (hear.of = up => hear.at = 2) /\ up # hear.of /\ up # "ERR"
      <4>1. toClient = <<>>
        BY <1>6
      <4>2. Silent(toClient, hear)
        BY <4>1 DEF Silent
      <4>3. todo[1].hear.of = "ACCEPT TOKEN"
        BY <1>10
      <4>4. QED
        BY <1>9, <4>2, <4>3
    <3> HIDE DEF hear
    <3>2. /\ toClient \o out \in Seq(Unit) /\ Len(toClient \o out) <= Cap /\ NoErr(toClient \o out)
          /\ up # hear.of \/ pos + Len(out) # 2 => Silent(toClient \o out, hear)
      BY <1>3, <2>10, <3>1, LineSaid
    <3>3. QED
      BY <2>2, <3>1, <3>2 DEF hear
  <2>12. PICK r \in Reading : r = "GreetingReceiveToken"
    BY DEF Reading, SpinsOnEof
  <2>13. Answers(srv'.phase, srv'.got, todo[1].hear.of, r)
    BY <1>10, <2>1, <2>3, <2>12 DEF Answers
  <2>14. Takes(r, srv'.size, Tail(todo))
    BY <1>10, <2>12 DEF Takes
  <2>15. srv'.got = Kept(srv'.phase, todo[1].say)
    BY <2>3, <2>7 DEF Kept, Holds
  <2>16. 0 + Len(read) = Len(todo[1].say) /\ gone' = gone
    BY <1>2, <1>11, <1>13
  <2>17. srv'.phase \notin {"AcceptCommandSend", "PingSendTime"} /\ srv'.phase \notin Quiet
    BY <2>1, <2>3, <2>7
  <2>18. todo[1].hear.at = IF todo[1].hear.of = "FF" THEN 1 ELSE 2
    BY <1>10
  <2>19. QED
    BY <1>3, <1>6, <1>7, <2>8, <2>11, <2>13, <2>14, <2>15, <2>16, <2>17, <2>18, ReadsAll
<1>14. QED
  BY <1>12, <1>13
-----------------------------------------------------------------------------
(* Chunks that the mio server reads.                                       *)

LEMMA PieceHasRoom ==
    ASSUME NEW ch \in Seq(Unit), NEW space \in Int, NEW data \in Pieces(ch, space)
    PROVE  space \in Nat
<1>1. PICK n \in 1..Least(Len(ch), space) : data = SubSeq(ch, 1, n)
  BY DEF Pieces
<1>2. Len(ch) \in Nat
  OBVIOUS
<1>3. n <= space /\ n >= 1 /\ n \in Int
  BY <1>1, <1>2 DEF Least
<1>4. QED
  BY <1>3

Uploading == Takes2 \cup {"PutReceiveChunk"}
LEMMA ChunkPiece ==
    ASSUME CommandsInv, server = "mio", srv.phase \in Uploading,
           NEW data \in Pieces(toServer, srv.size - Len(srv.got))
    PROVE  /\ srv.size \in Sizes /\ srv.size \in Nat /\ srv.size >= 2 /\ srv.size <= MaxChunk
           /\ Len(srv.got \o data) \in Nat /\ Len(srv.got \o data) <= srv.size
           /\ srv.phase \in Reading
           /\ \E todo \in Agenda : /\ todo # <<>> /\ toClient = <<>>
                                   /\ Takes(srv.phase, srv.size, todo)
                                   /\ \E m \in {0, srv.size} :
                                         HasRead(todo, m, srv.got \o data, Rest(toServer, data))
<1>1. srv \in SrvState /\ Owned(srv, user.cmd) /\ toServer \in Seq(Unit)
  BY MioFacts
<1>2. srv.size \in Sizes
  BY <1>1 DEF Owned, Sized, Uploading
<1>3. srv.size \in Nat /\ srv.size >= 2 /\ srv.size <= MaxChunk /\ Len(srv.got) \in Nat
  BY <1>1, <1>2, SizeFacts, StateFacts
<1> DEFINE space == srv.size - Len(srv.got)
<1>4. space \in Int
  BY <1>3
<1>5. space \in Nat
  <2> HIDE DEF space
  <2>1. data \in Pieces(toServer, space)
    BY DEF space
  <2>2. QED
    BY <1>1, <1>4, <2>1, PieceHasRoom
<1> DEFINE read == srv.got \o data
<1>6. /\ Len(data) \in 1..space /\ Len(read) = Len(srv.got) + Len(data)
      /\ \E todo \in Agenda : /\ todo # <<>> /\ toClient = <<>> /\ Heeds(todo)
                              /\ \E m \in {0, srv.size} :
                                     HasRead(todo, m, read, Rest(toServer, data))
  BY <1>5, MioListens
<1> HIDE DEF read
<1>7. Len(read) \in Nat /\ Len(read) <= srv.size
  BY <1>3, <1>5, <1>6
<1>8. ASSUME NEW todo, Heeds(todo) PROVE Takes(srv.phase, srv.size, todo)
  BY <1>8 DEF Heeds, Uploading, Takes2
<1>9. srv.phase \in Reading
  BY PhasesApart DEF Uploading, Reading
<1>10. QED
  BY <1>2, <1>3, <1>6, <1>7, <1>8, <1>9 DEF read

\* The only chunk of PUT that is on the way.
LEMMA PutReads ==
    ASSUME CommandsInv, server = "mio", UNCHANGED <<server, task, user>>, handle_put_receive_chunk
    PROVE  CommandsInv'
<1>1. PICK time \in {0, 1}, data \in Pieces(toServer, srv.size - Len(srv.got)) :
        /\ srv.phase = "PutReceiveChunk" /\ toServer' = Rest(toServer, data)
        /\ UNCHANGED <<toClient, gone>> /\ splitOk' = (splitOk \/ CutsOk(data))
        /\ srv' = IF Len(srv.got \o data) < srv.size THEN [srv EXCEPT !.got = srv.got \o data]
                  ELSE [srv EXCEPT !.phase = "PutSendBytes", !.got = srv.got \o data, !.time = time]
  BY DEF handle_put_receive_chunk, ReceivesChunk, SrvReads, At
<1>2. splitOk' \in BOOLEAN
  BY <1>1, MioFacts DEF CutsOk
<1>3. /\ srv \in SrvState /\ Sound(srv, user) /\ Positions(srv) /\ NoErr(toClient)
      /\ toClient \in Seq(Unit) /\ Len(toClient) <= Cap
  BY MioFacts
<1> DEFINE read == srv.got \o data
<1>4. srv.phase \in Uploading /\ srv.phase \notin Takes2 /\ srv.phase \notin Counts
  BY <1>1 DEF Uploading, Takes2, Counts
<1>5. /\ srv.size \in Sizes /\ srv.size \in Nat /\ srv.size >= 2 /\ srv.size <= MaxChunk
      /\ Len(read) \in Nat /\ Len(read) <= srv.size /\ srv.phase \in Reading
      /\ \E todo \in Agenda : /\ todo # <<>> /\ toClient = <<>> /\ Takes(srv.phase, srv.size, todo)
                              /\ \E m \in {0, srv.size} :
                                     HasRead(todo, m, read, Rest(toServer, data))
  BY <1>4, ChunkPiece
<1> HIDE DEF read
<1>6. PICK todo \in Agenda : /\ todo # <<>> /\ toClient = <<>> /\ Takes(srv.phase, srv.size, todo)
                             /\ \E m \in {0, srv.size} : HasRead(todo, m, read, toServer')
  BY <1>1, <1>5
<1>7. HasRead(todo, 0, read, toServer')
  BY <1>4, <1>6 DEF HasRead
<1>8. CASE Len(read) < srv.size
  <2>1. srv' = [srv EXCEPT !.got = read]
    BY <1>1, <1>8 DEF read
  <2>2. Len(read) <= MaxChunk
    BY <1>5, <1>8, Bounds
  <2>3. Heeds(todo)
    BY <1>6 DEF Heeds
  <2>4. QED
    BY <1>1, <1>2, <1>5, <1>6, <1>7, <2>1, <2>2, <2>3, ReadsMore
<1>9. CASE ~(Len(read) < srv.size)
  <2>1. Len(read) = srv.size
    BY <1>5, <1>9
  <2>2. PICK last \in BOOLEAN :
          /\ todo[1].say = Chunk(srv.size, last) /\ todo[1].hear.at = 2
          /\ last => todo[1].hear.of = "ACCEPT GETCHUNKS" /\ Tail(todo) = <<>>
          /\ ~last => /\ todo[1].hear.of = "TIME BYTES"
                      /\ Takes("PutReceiveChunk", srv.size, Tail(todo))
    BY <1>1, <1>5, <1>6, TakesPut
  <2> DEFINE text == Chunk(srv.size, last)
  <2>3. /\ text \in Seq(Unit) /\ Len(text) = srv.size
        /\ LastOf(text) = text[srv.size] /\ text[srv.size].of = IF last THEN "FF" ELSE "00"
    BY <1>5, ChunkUnits
  <2> HIDE DEF text
  <2>4. todo[1].say = text
    BY <2>2 DEF text
  <2>5. read = text
    <3>1. read \in Seq(Unit) /\ \A i \in 1..Len(read) : read[i] = text[0 + i]
      BY <1>7, <2>4 DEF HasRead
    <3>2. ASSUME NEW i \in 1..Len(read) PROVE read[i] = text[i]
      <4>1. 0 + i = i
        OBVIOUS
      <4>2. QED
        BY <3>1, <4>1
    <3>3. Len(read) = Len(text)
      BY <2>1, <2>3
    <3>4. QED
      BY <2>3, <3>1, <3>2, <3>3, SeqEqual
  <2>6. srv' = [srv EXCEPT !.phase = "PutSendBytes", !.got = read, !.time = time]
    BY <1>1, <1>9 DEF read
  <2>7. "PutSendBytes" \in Talking
    BY DEF Talking
  <2>8. /\ srv' \in SrvState /\ srv'.phase = "PutSendBytes" /\ srv'.got = text
        /\ srv'.wpos = srv.wpos /\ srv'.size = srv.size /\ srv'.done = srv.done
        /\ srv'.clock = srv.clock
    BY <1>3, <2>3, <2>5, <2>6, <2>7 DEF SrvState
  <2>9. srv'.wpos = 0 /\ srv'.done = 0
    BY <1>3, <1>4, <1>5, <2>8 DEF Positions
  <2>10. PICK cmd \in Asked \cup {"none"} : cmd = "PUT"
    BY DEF Asked
  <2>11. user.cmd = cmd
    <3>1. srv.phase \in OwnPhases(cmd)
      BY <1>1, <2>10 DEF OwnPhases
    <3>2. QED
      BY <3>1, OwnedNext
  <2>12. /\ "PutSendBytes" \in OwnPhases(user.cmd) /\ srv.phase \in Sized
         /\ "PutSendBytes" \notin Quiet
    BY <1>1, <2>10, <2>11 DEF OwnPhases, Sized, Quiet
  <2>13. Len(srv'.got) <= MaxChunk
    BY <1>5, <2>3, <2>8
  <2>14. Sound(srv', user)
    BY <1>3, <2>8, <2>9, <2>12, <2>13, SoundNext
  <2>15. srv'.got = Kept(srv'.phase, todo[1].say)
    BY <2>4, <2>8 DEF Kept
  <2>16. PICK q \in Reading : q = IF last THEN "AcceptCommandReceive" ELSE "PutReceiveChunk"
    BY DEF Reading
  <2>17. LastOf(srv'.got).of = IF last THEN "FF" ELSE "00"
    BY <2>3, <2>8
  <2>18. Answers(srv'.phase, srv'.got, todo[1].hear.of, q)
    <3>1. CASE last
      BY <2>2, <2>8, <2>16, <2>17, <3>1 DEF Answers
    <3>2. CASE ~last
      BY <2>2, <2>8, <2>16, <2>17, <3>2 DEF Answers
    <3>3. QED
      BY <3>1, <3>2
  <2>19. Takes(q, srv'.size, Tail(todo))
    <3>1. CASE last
      BY <2>2, <2>16, <3>1 DEF Takes
    <3>2. CASE ~last
      BY <2>2, <2>8, <2>16, <3>2
    <3>3. QED
      BY <3>1, <3>2
  <2>20. todo[1].hear.at = IF todo[1].hear.of = "FF" THEN 1 ELSE 2
    BY <2>2
  <2>21. 0 + Len(read) = Len(todo[1].say)
    BY <2>1, <2>3, <2>4
  <2>22. /\ toClient' \in Seq(Unit) /\ Len(toClient') <= Cap /\ NoErr(toClient')
         /\ toClient' = <<>> /\ gone' = gone
    BY <1>1, <1>3, <1>6
  <2>23. Silent(toClient', todo[1].hear)
    BY <2>22 DEF Silent
  <2>24. srv'.phase \notin {"AcceptCommandSend", "PingSendTime"}
    BY <2>8
  <2>25. QED
    BY <1>2, <1>6, <1>7, <2>14, <2>15, <2>18, <2>19, <2>20, <2>21, <2>22, <2>23, <2>24, ReadsAll
<1>10. QED
  BY <1>8, <1>9

\* A chunk of an upload of two.
LEMMA TwoChunksRead ==
    ASSUME CommandsInv, server = "mio", UNCHANGED <<server, task, user>>, srv.phase \in Takes2,
           NEW data \in Pieces(toServer, srv.size - Len(srv.got)),
           toServer' = Rest(toServer, data), UNCHANGED <<toClient, gone>>, splitOk' \in BOOLEAN,
           NEW read, read = srv.got \o data, NEW next,
           \/ Len(read) < srv.size /\ srv' = [srv EXCEPT !.got = read]
           \/ /\ ~(Len(read) < srv.size) /\ LastOf(read).of = "00"
              /\ srv' \in SrvState /\ srv'.phase = srv.phase /\ srv'.got = <<>>
              /\ srv'.wpos = srv.wpos /\ srv'.size = srv.size /\ srv'.done = srv.done
              /\ srv'.clock = srv.clock
           \/ ~(Len(read) < srv.size) /\ LastOf(read).of = "FF" /\ GoesTo(srv', next)
           \/ ~(Len(read) < srv.size) /\ LastOf(read).of \notin {"00", "FF"}
    PROVE  CommandsInv'
<1>1. /\ srv \in SrvState /\ Sound(srv, user) /\ Positions(srv) /\ NoErr(toClient)
      /\ toClient \in Seq(Unit) /\ Len(toClient) <= Cap
  BY MioFacts
<1>2. srv.phase \in Uploading /\ srv.phase \notin Counts
  BY DEF Uploading, Takes2, Counts
<1>3. /\ srv.size \in Sizes /\ srv.size \in Nat /\ srv.size >= 2 /\ srv.size <= MaxChunk
      /\ Len(read) \in Nat /\ Len(read) <= srv.size /\ srv.phase \in Reading
  BY <1>2, ChunkPiece
<1>4. PICK todo \in Agenda : /\ todo # <<>> /\ toClient = <<>> /\ Takes(srv.phase, srv.size, todo)
                             /\ \E m \in {0, srv.size} : HasRead(todo, m, read, toServer')
  BY <1>2, ChunkPiece
<1>5. PICK m \in {0, srv.size} : HasRead(todo, m, read, toServer')
  BY <1>4
<1>6. /\ todo[1].say = Two(srv.size) /\ Tail(todo) = <<>>
      /\ todo[1].hear.of = "ACCEPT GETCHUNKS" /\ todo[1].hear.at = 2
  BY <1>3, <1>4, TakesTwo
<1>7. ASSUME ~(Len(read) < srv.size)
      PROVE  /\ Len(read) = srv.size
             /\ m = 0 => LastOf(read).of = "00"
             /\ m = srv.size => LastOf(read).of = "FF" /\ m + Len(read) = Len(todo[1].say)
  <2>1. Len(read) = srv.size
    BY <1>3, <1>7
  <2> DEFINE size == srv.size
             text == Two(size)
  <2>2. LastOf(read) = text[m + size]
    BY <1>5, <1>6, <2>1 DEF HasRead
  <2>3. size \in Nat /\ size >= 2 /\ size \in 1..size
    BY <1>3
  <2> HIDE DEF size
  <2>4. PICK yes \in BOOLEAN, no \in BOOLEAN : yes = TRUE /\ no = FALSE
    OBVIOUS
  <2>5. /\ Len(text) = 2 * size
        /\ text[size] = Chunk(size, no)[size] /\ text[size + size] = Chunk(size, yes)[size]
    BY <2>3, <2>4, TwoFacts
  <2>6. Chunk(size, no)[size].of = "00" /\ Chunk(size, yes)[size].of = "FF"
    BY <2>3, <2>4, ChunkUnits
  <2> HIDE DEF text
  <2>7. 0 + size = size /\ size + size = 2 * size
    BY <2>3
  <2>8. m = 0 => LastOf(read).of = "00"
    BY <2>2, <2>5, <2>6, <2>7
  <2>9. ASSUME m = size PROVE LastOf(read).of = "FF" /\ m + Len(read) = Len(text)
    <3>1. LastOf(read).of = "FF"
      BY <2>2, <2>5, <2>6, <2>9
    <3>2. m + Len(read) = Len(text)
      BY <2>1, <2>5, <2>7, <2>9 DEF size
    <3>3. QED
      BY <3>1, <3>2
  <2>10. todo[1].say = text
    BY <1>6 DEF text, size
  <2>11. QED
    BY <2>1, <2>8, <2>9, <2>10 DEF size
<1>8. CASE Len(read) < srv.size /\ srv' = [srv EXCEPT !.got = read]
  <2>1. Len(read) <= MaxChunk
    BY <1>3, <1>8, Bounds
  <2>2. Heeds(todo)
    BY <1>4 DEF Heeds
  <2>3. QED
    BY <1>3, <1>4, <1>5, <1>8, <2>1, <2>2, ReadsMore
<1>9. CASE /\ ~(Len(read) < srv.size) /\ LastOf(read).of = "00"
           /\ srv' \in SrvState /\ srv'.phase = srv.phase /\ srv'.got = <<>>
           /\ srv'.wpos = srv.wpos /\ srv'.size = srv.size /\ srv'.done = srv.done
           /\ srv'.clock = srv.clock
  <2>1. HasRead(todo, 0, read, toServer')
    BY <1>5, <1>7, <1>9
  <2>2. QED
    BY <1>4, <1>7, <1>9, <2>1, ReadsFirst
<1>10. CASE ~(Len(read) < srv.size) /\ LastOf(read).of = "FF" /\ GoesTo(srv', next)
  <2>1. m + Len(read) = Len(todo[1].say)
    BY <1>5, <1>7, <1>10
  <2>2. srv'.wpos = 0 /\ srv'.done = 0
    BY <1>1, <1>2, <1>3, <1>10 DEF Positions, GoesTo
  <2>3. Len(srv'.got) <= MaxChunk
    BY <1>10, Bounds DEF GoesTo
  <2>4. Sound(srv', user)
    BY <1>1, <1>10, <2>2, <2>3, SoundNext DEF GoesTo
  <2>5. srv'.got = Kept(srv'.phase, todo[1].say)
    BY <1>10 DEF Kept, Holds, GoesTo
  <2>6. PICK q \in Reading : q = "AcceptCommandReceive"
    BY DEF Reading
  <2>7. Answers(srv'.phase, srv'.got, todo[1].hear.of, q)
    BY <1>6, <1>10, <2>6 DEF Answers, GoesTo
  <2>8. Takes(q, srv'.size, Tail(todo))
    BY <1>6, <2>6 DEF Takes
  <2>9. todo[1].hear.at = IF todo[1].hear.of = "FF" THEN 1 ELSE 2
    BY <1>6
  <2>10. srv'.phase \in {"AcceptCommandSend", "PingSendTime"} => Rested(srv'.clock, user.cmd)
    BY <1>10 DEF Rested, GoesTo
  <2>11. /\ toClient' \in Seq(Unit) /\ Len(toClient') <= Cap /\ NoErr(toClient') /\ gone' = gone
         /\ toClient' = <<>>
    BY <1>1, <1>4
  <2>12. Silent(toClient', todo[1].hear)
    BY <2>11 DEF Silent
  <2>13. QED
    BY <1>4, <1>5, <2>1, <2>4, <2>5, <2>7, <2>8, <2>9, <2>10, <2>11, <2>12, ReadsAll
<1>11. ~(Len(read) < srv.size) => LastOf(read).of \in {"00", "FF"}
  BY <1>5, <1>7
<1>12. QED
  BY <1>8, <1>9, <1>10, <1>11

LEMMA PutNoResultReads ==
    ASSUME CommandsInv, server = "mio", UNCHANGED <<server, task, user>>,
           handle_put_no_result_receive_chunk
    PROVE  CommandsInv'
<1>1. PICK time \in {0, 1}, data \in Pieces(toServer, srv.size - Len(srv.got)) :
        /\ srv.phase = "PutNoResultReceiveChunk" /\ toServer' = Rest(toServer, data)
        /\ UNCHANGED <<toClient, gone>> /\ splitOk' = (splitOk \/ CutsOk(data))
        /\ srv' = IF Len(srv.got \o data) < srv.size THEN [srv EXCEPT !.got = srv.got \o data]
                  ELSE Ending(srv.got \o data,
                              [Anew("PutNoResultSendTime") EXCEPT !.time = time],
                              [srv EXCEPT !.got = <<>>])
  BY DEF handle_put_no_result_receive_chunk, ReceivesChunk, SrvReads, At
<1>2. splitOk' \in BOOLEAN /\ srv \in SrvState
  BY <1>1, MioFacts DEF CutsOk
<1>3. srv.phase \in Takes2
  BY <1>1 DEF Takes2
<1> DEFINE read == srv.got \o data
<1>4. CASE Len(read) < srv.size
  BY <1>1, <1>2, <1>3, <1>4, TwoChunksRead
<1> HIDE DEF read
<1>5. CASE ~(Len(read) < srv.size) /\ LastOf(read).of = "00"
  <2>1. srv' = [srv EXCEPT !.got = <<>>]
    BY <1>1, <1>5 DEF Ending, read
  <2>2. <<>> \in Seq(Unit)
    OBVIOUS
  <2>3. /\ srv' \in SrvState /\ srv'.phase = srv.phase /\ srv'.got = <<>>
        /\ srv'.wpos = srv.wpos /\ srv'.size = srv.size /\ srv'.done = srv.done
        /\ srv'.clock = srv.clock
    BY <1>2, <2>1, <2>2 DEF SrvState
  <2>4. QED
    BY <1>1, <1>2, <1>3, <1>5, <2>3, TwoChunksRead DEF read
<1>6. CASE ~(Len(read) < srv.size) /\ LastOf(read).of = "FF"
  <2>1. PICK q \in Talking \cup Reading : q = "PutNoResultSendTime"
    BY DEF Talking
  <2> DEFINE s == Anew(q)
  <2>2. /\ s \in SrvState /\ s.phase = q /\ s.got = <<>> /\ s.wpos = 0
        /\ s.size = srv.size /\ s.done = srv.done /\ s.clock = srv.clock
    BY <1>2, AnewIs
  <2>3. srv' = [s EXCEPT !.time = time]
    BY <1>1, <1>6, <2>1 DEF Ending, read
  <2> HIDE DEF s
  <2>4. /\ srv' \in SrvState /\ srv'.phase = q /\ srv'.got = <<>> /\ srv'.wpos = 0
        /\ srv'.size = srv.size /\ srv'.done = srv.done /\ srv'.clock = srv.clock
    BY <2>2, <2>3 DEF SrvState
  <2>5. PICK cmd \in Asked \cup {"none"} : cmd = "PUTNORESULT"
    BY DEF Asked
  <2>6. user.cmd = cmd
    <3>1. srv.phase \in OwnPhases(cmd)
      BY <1>1, <2>5 DEF OwnPhases
    <3>2. QED
      BY <3>1, OwnedNext
  <2>7. /\ q \in OwnPhases(user.cmd) /\ q \in ToAccept /\ q \notin Holds
        /\ srv.phase \in Sized /\ q \notin {"AcceptCommandSend", "PingSendTime"}
    BY <1>1, <2>1, <2>5, <2>6 DEF OwnPhases, ToAccept, Holds, Sized, Takes2
  <2>8. srv.wpos = 0
    BY <1>3, MioFacts, PhasesApart DEF Positions
  <2>9. GoesTo(srv', q)
    BY <2>4, <2>7, <2>8 DEF GoesTo
  <2>10. QED
    BY <1>1, <1>2, <1>3, <1>6, <2>9, TwoChunksRead DEF read
<1>7. CASE ~(Len(read) < srv.size) /\ LastOf(read).of \notin {"00", "FF"}
  BY <1>1, <1>2, <1>3, <1>7, TwoChunksRead DEF read
<1>8. QED
  BY <1>4, <1>5, <1>6, <1>7 DEF read

LEMMA PutTimeResultReads ==
    ASSUME CommandsInv, server = "mio", UNCHANGED <<server, task, user>>,
           handle_put_time_result_receive_chunk
    PROVE  CommandsInv'
<1>1. PICK data \in Pieces(toServer, srv.size - Len(srv.got)) :
        /\ srv.phase = "PutTimeResultReceiveChunk" /\ toServer' = Rest(toServer, data)
        /\ UNCHANGED <<toClient, gone>> /\ splitOk' = (splitOk \/ CutsOk(data))
        /\ srv' = IF Len(srv.got \o data) < srv.size THEN [srv EXCEPT !.got = srv.got \o data]
                  ELSE Ending(srv.got \o data,
                              [Anew("PutTimeResultSendTimeResult") EXCEPT !.points = @ + 1],
                              [srv EXCEPT !.got = <<>>, !.points = @ + 1])
  BY DEF handle_put_time_result_receive_chunk, ReceivesChunk, SrvReads, At
<1>2. splitOk' \in BOOLEAN /\ srv \in SrvState
  BY <1>1, MioFacts DEF CutsOk
<1>3. srv.phase \in Takes2
  BY <1>1 DEF Takes2
<1> DEFINE read == srv.got \o data
<1>4. CASE Len(read) < srv.size
  BY <1>1, <1>2, <1>3, <1>4, TwoChunksRead
<1> HIDE DEF read
<1>5. CASE ~(Len(read) < srv.size) /\ LastOf(read).of = "00"
  <2>1. srv' = [srv EXCEPT !.got = <<>>, !.points = @ + 1]
    BY <1>1, <1>5 DEF Ending, read
  <2>2. <<>> \in Seq(Unit)
    OBVIOUS
  <2>3. srv.points + 1 \in Nat
    BY <1>2, StateFacts
  <2>4. /\ srv' \in SrvState /\ srv'.phase = srv.phase /\ srv'.got = <<>>
        /\ srv'.wpos = srv.wpos /\ srv'.size = srv.size /\ srv'.done = srv.done
        /\ srv'.clock = srv.clock
    BY <1>2, <2>1, <2>2, <2>3 DEF SrvState
  <2>5. QED
    BY <1>1, <1>2, <1>3, <1>5, <2>4, TwoChunksRead DEF read
<1>6. CASE ~(Len(read) < srv.size) /\ LastOf(read).of = "FF"
  <2>1. PICK q \in Talking \cup Reading : q = "PutTimeResultSendTimeResult"
    BY DEF Talking
  <2> DEFINE s == Anew(q)
  <2>2. /\ s \in SrvState /\ s.phase = q /\ s.got = <<>> /\ s.wpos = 0
        /\ s.size = srv.size /\ s.done = srv.done /\ s.clock = srv.clock
    BY <1>2, AnewIs
  <2>3. srv' = [s EXCEPT !.points = @ + 1]
    BY <1>1, <1>6, <2>1 DEF Ending, read
  <2> HIDE DEF s
  <2>4. /\ srv' \in SrvState /\ srv'.phase = q /\ srv'.got = <<>> /\ srv'.wpos = 0
        /\ srv'.size = srv.size /\ srv'.done = srv.done /\ srv'.clock = srv.clock
    BY <2>2, <2>3 DEF SrvState
  <2>5. PICK cmd \in Asked \cup {"none"} : cmd = "PUTTIMERESULT"
    BY DEF Asked
  <2>6. user.cmd = cmd
    <3>1. srv.phase \in OwnPhases(cmd)
      BY <1>1, <2>5 DEF OwnPhases
    <3>2. QED
      BY <3>1, OwnedNext
  <2>7. /\ q \in OwnPhases(user.cmd) /\ q \in ToAccept /\ q \notin Holds
        /\ srv.phase \in Sized /\ q \notin {"AcceptCommandSend", "PingSendTime"}
    BY <1>1, <2>1, <2>5, <2>6 DEF OwnPhases, ToAccept, Holds, Sized, Takes2
  <2>8. srv.wpos = 0
    BY <1>3, MioFacts, PhasesApart DEF Positions
  <2>9. GoesTo(srv', q)
    BY <2>4, <2>7, <2>8 DEF GoesTo
  <2>10. QED
    BY <1>1, <1>2, <1>3, <1>6, <2>9, TwoChunksRead DEF read
<1>7. CASE ~(Len(read) < srv.size) /\ LastOf(read).of \notin {"00", "FF"}
  BY <1>1, <1>2, <1>3, <1>7, TwoChunksRead DEF read
<1>8. QED
  BY <1>4, <1>5, <1>6, <1>7 DEF read
-----------------------------------------------------------------------------
(* Commands that the mio server reads.                                     *)

\* What a command begins with, and where its answer leads.
FirstPhase(cmd) ==
    CASE cmd = "GETCHUNKS"   -> "GetChunkSendChunk"
      [] cmd = "PING"        -> "PongSend"
      [] cmd = "GETTIME"     -> "GetTimeSendChunk"
      [] cmd = "PUT"         -> "PutSendOk"
      [] cmd = "PUTNORESULT" -> "PutNoResultSendOk"
      [] OTHER               -> "PutTimeResultSendOk"
ThenReads(cmd) ==
    CASE cmd = "GETCHUNKS"   -> "GetChunksReceiveOK"
      [] cmd = "PING"        -> "PingReceiveOk"
      [] cmd = "GETTIME"     -> "GetTimeReceiveOk"
      [] cmd = "PUT"         -> "PutReceiveChunk"
      [] cmd = "PUTNORESULT" -> "PutNoResultReceiveChunk"
      [] OTHER               -> "PutTimeResultReceiveChunk"

LEMMA FirstFacts ==
    ASSUME NEW cmd \in Asked, cmd # "QUIT", NEW size \in Sizes, NEW s,
           s.phase = FirstPhase(cmd), cmd # "PING" => s.size = size
    PROVE  /\ FirstPhase(cmd) \in Talking /\ FirstPhase(cmd) \in OwnPhases(cmd)
           /\ FirstPhase(cmd) \notin Holds \cup Quiet \cup {"AcceptCommandSend", "PingSendTime"}
           /\ FirstPhase(cmd) \in Sized => cmd # "PING"
           /\ FirstPhase(cmd) \in Bulk => cmd # "PING"
           /\ FirstPhase(cmd) \in BulkTime => cmd # "PING"
           /\ FirstPhase(cmd) \notin Reading
           /\ ThenReads(cmd) \in Reading
           /\ Answers(s.phase, <<>>, Reply(cmd), ThenReads(cmd))
           /\ Takes(ThenReads(cmd), s.size, Remains(cmd, size))
<1>1. CASE cmd = "GETCHUNKS"
  BY <1>1 DEF FirstPhase, ThenReads, Talking, OwnPhases, Holds, Quiet, Sized, Bulk, BulkTime,
              Counts, Reading, SpinsOnEof, Answers, Reply, Takes, Awaits, Remains
<1>2. CASE cmd = "PING"
  BY <1>2 DEF FirstPhase, ThenReads, Talking, OwnPhases, Holds, Quiet, Sized, Takes2, Bulk, BulkTime,
              Counts, Reading, SpinsOnEof, Answers, Reply, Takes, Awaits, Remains
<1>3. CASE cmd = "GETTIME"
  BY <1>3 DEF FirstPhase, ThenReads, Talking, OwnPhases, Holds, Quiet, Sized, Bulk, BulkTime,
              Counts, Reading, SpinsOnEof, Answers, Reply, Takes, Awaits, Remains
<1>4. CASE cmd = "PUT"
  BY <1>4 DEF FirstPhase, ThenReads, Talking, OwnPhases, Holds, Quiet, Sized, Bulk, BulkTime,
              Counts, Reading, SpinsOnEof, Answers, Reply, Takes, Remains
<1>5. CASE cmd = "PUTNORESULT"
  BY <1>5 DEF FirstPhase, ThenReads, Talking, OwnPhases, Holds, Quiet, Sized, Bulk, BulkTime,
              Counts, Reading, SpinsOnEof, Answers, Reply, Takes, Takes2, Remains
<1>6. CASE cmd = "PUTTIMERESULT"
  BY <1>6 DEF FirstPhase, ThenReads, Talking, OwnPhases, Holds, Quiet, Sized, Bulk, BulkTime,
              Counts, Reading, SpinsOnEof, Answers, Reply, Takes, Takes2, Remains
<1>7. QED
  BY <1>1, <1>2, <1>3, <1>4, <1>5, <1>6 DEF Asked

LEMMA SizeArgIs ==
    ASSUME NEW arg, NEW i \in {1, 2}, Len(arg) = i, NEW size \in MinChunk..MaxChunk,
           arg[i] = size, NEW missing, NEW wrong
    PROVE  SizeArg(arg, i, missing, wrong) = size
<1>1. ~(i < i)
  OBVIOUS
<1>2. QED
  BY <1>1 DEF SizeArg

LEMMA CommandOf ==
    ASSUME NEW line, NEW cmd \in Asked, line[1].of = cmd,
           LinesOf("GETCHUNKS", line) # {} <=> cmd = "GETCHUNKS",
           NEW arg, LastOf(line).arg = arg, NEW over
    PROVE  /\ cmd = "GETCHUNKS" => Command(line, over) = GetChunks(arg)
           /\ cmd = "PING" => Command(line, over) = [srv EXCEPT !.phase = "PongSend", !.got = <<>>]
           /\ cmd = "GETTIME" => Command(line, over) = GetTime(arg, over)
           /\ cmd = "PUTNORESULT" => Command(line, over) = Put("PutNoResultSendOk", arg, srv.size)
           /\ cmd = "PUTTIMERESULT" => Command(line, over) = PutTimeResult(arg)
           /\ cmd = "PUT" => Command(line, over) = Put("PutSendOk", arg, MinChunk)
           /\ cmd = "QUIT" => Command(line, over) = [srv EXCEPT !.got = line]
BY DEF Command

\* What the server makes of a whole command line.
LEMMA CommandIs ==
    ASSUME srv \in SrvState, NEW cmd \in Asked, NEW n \in {1, 2}, NEW size \in Sizes,
           NEW over \in BOOLEAN, NEW s, s = Command(Line(cmd, Args(cmd, n, size)), over)
    PROVE  /\ cmd = "QUIT" => s = [srv EXCEPT !.got = Line(cmd, Args(cmd, n, size))]
           /\ cmd # "QUIT" =>
                 /\ s \in SrvState /\ s.phase = FirstPhase(cmd) /\ s.got = <<>>
                 /\ s.wpos = srv.wpos /\ s.done = srv.done /\ s.clock = srv.clock
                 /\ s.made = srv.made /\ s.size = IF cmd = "PING" THEN srv.size ELSE size
<1> DEFINE arg  == Args(cmd, n, size)
           line == Line(cmd, arg)
<1>1. size \in MinChunk..MaxChunk /\ size # 0 /\ size \in Nat /\ n \in Nat
  BY SizeFacts, CommandsAssumption
<1>2. /\ arg \in Seq(Nat)
      /\ cmd = "GETCHUNKS" => Len(arg) = 2 /\ arg[1] = n /\ arg[2] = size
      /\ cmd \notin {"GETCHUNKS", "PING", "QUIT"} => Len(arg) = 1 /\ arg[1] = size
  BY <1>1, ArgFacts DEF Args
<1> HIDE DEF arg
<1>3. cmd \in Words
  BY DEF Asked, Words
<1>4. /\ line \in Seq(Unit) /\ Len(line) = 2 /\ line[1].of = cmd /\ line[1].at = 1
      /\ line[2].at = 2 /\ line[2].arg = arg
  BY <1>2, <1>3, LineUnits
<1> HIDE DEF line
<1>5. LastOf(line).arg = arg
  BY <1>4 DEF LastOf
<1>6. LinesOf("GETCHUNKS", line) # {} <=> cmd = "GETCHUNKS"
  <2>1. 1..(Len(line) - 1) = {1}
    BY <1>4
  <2>2. 1 + 1 = 2
    OBVIOUS
  <2>3. QED
    BY <1>4, <2>1, <2>2 DEF LinesOf
<1>7. s = Command(line, over)
  BY DEF line, arg
<1>8. <<>> \in Seq(Unit)
  OBVIOUS
<1>9. CASE cmd = "GETCHUNKS"
  <2>1. s = GetChunks(arg)
    BY <1>4, <1>5, <1>6, <1>7, <1>9, CommandOf
  <2>2. SizeArg(arg, 2, MinChunk, 0) = size
    BY <1>1, <1>2, <1>9, SizeArgIs
  <2>3. s = [srv EXCEPT !.phase = "GetChunkSendChunk", !.got = <<>>, !.num = n, !.size = size]
    BY <1>1, <1>2, <1>9, <2>1, <2>2 DEF GetChunks
  <2>4. "GetChunkSendChunk" \in Talking
    BY DEF Talking
  <2>5. QED
    BY ZenonT(30), <1>1, <1>8, <1>9, <2>3, <2>4 DEF SrvState, FirstPhase
<1>10. CASE cmd = "PING"
  <2>1. s = [srv EXCEPT !.phase = "PongSend", !.got = <<>>]
    BY <1>4, <1>5, <1>6, <1>7, <1>10, CommandOf
  <2>2. "PongSend" \in Talking
    BY DEF Talking
  <2>3. QED
    BY <1>8, <1>10, <2>1, <2>2 DEF SrvState, FirstPhase
<1>11. CASE cmd = "GETTIME"
  <2>1. s = GetTime(arg, over)
    BY <1>4, <1>5, <1>6, <1>7, <1>11, CommandOf
  <2>2. SizeArg(arg, 1, MinChunk, 0) = size
    BY <1>1, <1>2, <1>11, SizeArgIs
  <2>3. s = [srv EXCEPT !.phase = "GetTimeSendChunk", !.got = <<>>, !.size = size, !.over = over]
    BY <1>1, <2>1, <2>2 DEF GetTime
  <2>4. "GetTimeSendChunk" \in Talking
    BY DEF Talking
  <2>5. QED
    BY <1>1, <1>8, <1>11, <2>3, <2>4 DEF SrvState, FirstPhase
<1>12. CASE cmd \in Uploads
  <2>1. /\ Len(arg) = 1 /\ ~(Len(arg) > 1) /\ arg # <<>>
        /\ SizeArg(arg, 1, MinChunk, srv.size) = size /\ SizeArg(arg, 1, MinChunk, MinChunk) = size
    <3>1. Len(arg) = 1 /\ arg[1] = size
      BY <1>2, <1>12 DEF Uploads
    <3>2. QED
      BY <1>1, <3>1, SizeArgIs
  <2>2. PICK q \in Talking : q = FirstPhase(cmd)
    BY <1>12 DEF Uploads, FirstPhase, Talking
  <2>3. s = [srv EXCEPT !.phase = q, !.got = <<>>, !.size = size]
    <3>1. CASE cmd = "PUT"
      <4>1. s = Put("PutSendOk", arg, MinChunk)
        BY <1>4, <1>5, <1>6, <1>7, <3>1, CommandOf
      <4>2. QED
        BY <2>1, <2>2, <3>1, <4>1 DEF Put, FirstPhase
    <3>2. CASE cmd = "PUTNORESULT"
      <4>1. s = Put("PutNoResultSendOk", arg, srv.size)
        BY <1>4, <1>5, <1>6, <1>7, <3>2, CommandOf
      <4>2. QED
        BY <2>1, <2>2, <3>2, <4>1 DEF Put, FirstPhase
    <3>3. CASE cmd = "PUTTIMERESULT"
      <4>1. s = PutTimeResult(arg)
        BY <1>4, <1>5, <1>6, <1>7, <3>3, CommandOf
      <4>2. s = [[srv EXCEPT !.phase = q, !.got = <<>>] EXCEPT !.size = size]
        BY <2>1, <2>2, <3>3, <4>1 DEF PutTimeResult, FirstPhase
      <4>3. QED
        BY <4>2
    <3>4. QED
      BY <1>12, <3>1, <3>2, <3>3 DEF Uploads
  <2>4. cmd # "QUIT" /\ cmd # "PING"
    BY <1>12 DEF Uploads
  <2>5. QED
    BY <1>1, <1>8, <2>2, <2>3, <2>4 DEF SrvState
<1>13. CASE cmd = "QUIT"
  <2>1. s = [srv EXCEPT !.got = line]
    BY <1>4, <1>5, <1>6, <1>7, <1>13, CommandOf
  <2>2. QED
    BY <1>13, <2>1 DEF line, arg
<1>14. QED
  BY <1>9, <1>10, <1>11, <1>12, <1>13 DEF Asked, Uploads

LEMMA CommandingIs ==
    ASSUME NEW cmd \in Asked \cup {"none"}, NEW todo, Commanding(cmd, todo)
    PROVE  /\ cmd \in Asked
           /\ \E n \in {1, 2}, size \in Sizes : Opens(todo, cmd, n, size)
<1>1. cmd \in Asked
  BY DEF Commanding
<1>2. PICK n \in {1, 2}, size \in Sizes : todo = Exchanges(cmd, n, size)
  BY DEF Commanding
<1>3. Opens(todo, cmd, n, size)
  BY <1>1, <1>2, ExchangesOpen
<1>4. QED
  BY <1>1, <1>3

LEMMA ArgsAre ==
    ASSUME NEW cmd, NEW n \in {1, 2}, NEW size \in Sizes
    PROVE  Args(cmd, n, size) \in Seq(Nat)
<1>1. size \in Nat /\ n \in Nat
  BY SizeFacts
<1>2. QED
  BY <1>1, ArgFacts DEF Args

LEMMA CommandReads ==
    ASSUME CommandsInv, server = "mio", UNCHANGED <<server, task, user>>,
           handle_main_command_receive
    PROVE  CommandsInv'
<1>1. PICK over \in BOOLEAN, data \in Pieces(toServer, Cap) :
        /\ srv.phase = "AcceptCommandReceive" /\ toServer' = Rest(toServer, data)
        /\ UNCHANGED <<toClient, gone>> /\ splitOk' = (splitOk \/ CutsOk(data))
        /\ srv' = IF EndsLine(srv.got \o data) THEN Command(srv.got \o data, over)
                  ELSE [srv EXCEPT !.got = srv.got \o data]
  BY DEF handle_main_command_receive, SrvReads, At
<1>2. splitOk' \in BOOLEAN
  BY <1>1, MioFacts DEF CutsOk
<1>3. /\ srv \in SrvState /\ Sound(srv, user) /\ Positions(srv) /\ NoErr(toClient)
      /\ toClient \in Seq(Unit) /\ Len(toClient) <= Cap /\ user.cmd \in Asked \cup {"none"}
      /\ Owned(srv, user.cmd) /\ Ticks(srv.clock, user)
  BY MioFacts
<1>4. srv.phase \in Reading /\ srv.phase \notin Takes2 /\ srv.phase \notin Counts
  BY <1>1 DEF Takes2, Counts, Reading, SpinsOnEof
<1>5. Cap \in Nat
  BY Bounds
<1> DEFINE read == srv.got \o data
<1>6. PICK todo \in Agenda : /\ todo # <<>> /\ toClient = <<>> /\ Heeds(todo)
                             /\ \E m \in {0, srv.size} : HasRead(todo, m, read, toServer')
  BY <1>1, <1>5, MioListens
<1> HIDE DEF read
<1>7. HasRead(todo, 0, read, toServer')
  BY <1>4, <1>6 DEF HasRead
<1>8. Commanding(user.cmd, todo)
  BY <1>1, <1>6 DEF Heeds, Takes, Awaits, Takes2
<1>9. PICK cmd \in Asked : cmd = user.cmd
  BY <1>3, <1>8, CommandingIs
<1>10. PICK n \in {1, 2}, size \in Sizes : Opens(todo, cmd, n, size)
  BY <1>3, <1>8, <1>9, CommandingIs
<1> DEFINE arg  == Args(cmd, n, size)
<1>11. arg \in Seq(Nat) /\ cmd \in Words
  BY ArgsAre DEF Asked, Words
<1> HIDE DEF arg
<1>12. /\ todo[1].say = Line(cmd, arg) /\ todo[1].hear.of = Reply(cmd)
       /\ todo[1].hear.at = IF Reply(cmd) = "FF" THEN 1 ELSE 2
       /\ Tail(todo) = Remains(cmd, size)
  BY <1>10 DEF Opens, arg
<1>13. /\ Len(read) <= MaxChunk
       /\ EndsLine(read) <=> Len(read) = 2
       /\ Len(read) = 2 => read = Line(cmd, arg) /\ 0 + Len(read) = Len(todo[1].say)
  BY <1>7, <1>11, <1>12, LineIsRead
<1>14. CASE srv' = [srv EXCEPT !.got = read]
  BY <1>1, <1>2, <1>4, <1>6, <1>7, <1>13, <1>14, ReadsMore
<1>15. CASE EndsLine(read) /\ cmd # "QUIT"
  <2>1. srv' = Command(Line(cmd, arg), over)
    BY <1>1, <1>13, <1>15 DEF read
  <2>2. /\ srv' \in SrvState /\ srv'.phase = FirstPhase(cmd) /\ srv'.got = <<>>
        /\ srv'.wpos = srv.wpos /\ srv'.done = srv.done /\ srv'.clock = srv.clock
        /\ srv'.made = srv.made /\ srv'.size = IF cmd = "PING" THEN srv.size ELSE size
    BY <1>3, <1>15, <2>1, CommandIs DEF arg
  <2> DEFINE p == FirstPhase(cmd)
             q == ThenReads(cmd)
  <2>3. /\ p \in Talking /\ p \in OwnPhases(cmd)
        /\ p \notin Holds \cup Quiet \cup {"AcceptCommandSend", "PingSendTime"}
        /\ p \in Sized => cmd # "PING"
        /\ p \in Bulk => cmd # "PING"
        /\ p \in BulkTime => cmd # "PING"
        /\ p \notin Reading
        /\ q \in Reading
        /\ Answers(srv'.phase, <<>>, Reply(cmd), q)
        /\ Takes(q, srv'.size, Remains(cmd, size))
    BY <1>15, <2>2, FirstFacts
  <2> HIDE DEF p, q
  <2>4. srv'.wpos = 0 /\ srv'.done = 0
    BY <1>3, <1>4, <2>2 DEF Positions
  <2>5. size \in Nat /\ 0 < size /\ size # 0 /\ \A k \in Sizes : 0 < k
    BY SizeFacts
  <2>6. p \in BulkTime => 0 < TimeSize(srv')
    <3>1. srv'.made = 0 \/ srv'.made \in Sizes
      BY <2>2, StateFacts
    <3>2. CASE p \in BulkTime
      <4>1. srv'.size = size
        BY <2>2, <2>3, <3>2
      <4>2. QED
        BY <2>5, <3>1, <4>1 DEF TimeSize
    <3>3. QED
      BY <3>2
  <2>7. p \in Bulk => 0 < srv'.size
    BY <2>2, <2>3, <2>5
  <2>8. Len(srv'.got) <= MaxChunk
    BY <2>2, Bounds
  <2>9. Positions(srv')
    <3>1. srv'.phase = p
      BY <2>2 DEF p
    <3>2. 0 < 2
      OBVIOUS
    <3>3. QED
      BY <2>3, <2>4, <2>6, <2>7, <2>8, <3>1, <3>2 DEF Positions
  <2>10. Owned(srv', user.cmd)
    <3>1. srv'.phase = p
      BY <2>2 DEF p
    <3>2. p \in Sized => srv'.size \in Sizes
      BY <2>2, <2>3
    <3>3. QED
      BY <1>9, <2>3, <3>1, <3>2 DEF Owned
  <2>11. Sound(srv', user)
    BY <1>3, <2>2, <2>9, <2>10 DEF Sound
  <2>12. srv'.got = Kept(srv'.phase, todo[1].say)
    BY <2>2, <2>3 DEF Kept, Holds, p
  <2>13. Answers(srv'.phase, srv'.got, todo[1].hear.of, q) /\ Takes(q, srv'.size, Tail(todo))
    BY <1>12, <2>2, <2>3
  <2>14. /\ 0 + Len(read) = Len(todo[1].say)
         /\ todo[1].hear.at = IF todo[1].hear.of = "FF" THEN 1 ELSE 2
    BY <1>12, <1>13, <1>15
  <2>15. /\ toClient' \in Seq(Unit) /\ Len(toClient') <= Cap /\ NoErr(toClient') /\ gone' = gone
         /\ toClient' = <<>>
    BY <1>1, <1>3, <1>6
  <2>16. Silent(toClient', todo[1].hear)
    BY <2>15 DEF Silent
  <2>17. srv'.phase \notin {"AcceptCommandSend", "PingSendTime"}
    BY <2>2, <2>3 DEF p
  <2>18. QED
    BY <1>2, <1>6, <1>7, <2>3, <2>11, <2>12, <2>13, <2>14, <2>15, <2>16, <2>17, ReadsAll
<1>16. CASE EndsLine(read) /\ cmd = "QUIT"
  <2>1. srv' = Command(Line(cmd, arg), over)
    BY <1>1, <1>13, <1>16 DEF read
  <2>2. srv' = [srv EXCEPT !.got = Line(cmd, arg)]
    BY <1>3, <1>16, <2>1, CommandIs DEF arg
  <2>3. QED
    BY <1>13, <1>14, <1>16, <2>2
<1>17. CASE ~EndsLine(read)
  BY <1>1, <1>14, <1>17 DEF read
<1>18. QED
  BY <1>15, <1>16, <1>17
-----------------------------------------------------------------------------
(* All of the mio server.                                                  *)

LEMMA MioCloses ==
    ASSUME CommandsInv, server = "mio", UNCHANGED <<server, task, user>>, SrvCloses
    PROVE  CommandsInv'
<1>1. UNCHANGED <<toServer, toClient, splitOk, srv>> /\ gone' = gone \cup {"server"}
  BY DEF SrvCloses
<1>2. gone' \subseteq {"client", "server"} /\ ("client" \in gone' <=> "client" \in gone)
  BY <1>1, MioFacts DEF Wired
<1>3. Wired'
  BY <1>1, <1>2 DEF CommandsInv, Wired
<1>4. Agenda' = Agenda
  BY <1>2 DEF Agenda
<1>5. PICK todo \in Agenda : MioScene(srv, user, toServer, toClient, todo)
  BY DEF CommandsInv, MioInv
<1>6. MioScene(srv, user, toServer, toClient, todo)'
  BY <1>1, <1>5
<1>7. MioInv'
  BY <1>1, <1>4, <1>6, MioFacts DEF MioInv
<1>8. TaskInit'
  BY DEF CommandsInv, TaskInit
<1>9. QED
  BY <1>3, <1>7, <1>8 DEF CommandsInv

LEMMA MioKeeps ==
    ASSUME CommandsInv, MioStep \/ MioEnds
    PROVE  CommandsInv'
<1>1. server = "mio" /\ UNCHANGED <<server, task, user>>
  BY DEF MioStep, MioEnds
<1>2. CASE SrvGreeting
  BY <1>1, <1>2, PlainLines, RequestReads, TokenReads DEF SrvGreeting
<1>3. CASE SrvCommand
  BY <1>1, <1>3, PlainLines, CommandReads DEF SrvCommand
<1>4. CASE SrvDownload
  <2>1. PICK p \in Quiet, q \in Quiet : p = "GetChunksSendTime" /\ q = "GetTimeSendTime"
    BY DEF Quiet
  <2>2. CASE handle_get_chunks_send_time \/ handle_get_time_send_time
    BY <1>1, <2>1, <2>2, SendsTime DEF handle_get_chunks_send_time, handle_get_time_send_time
  <2>3. QED
    BY <1>1, <1>4, <2>2, GetChunksSend, GetTimeBlocks, GetChunksSendLast, OkReads, PongSend,
       PingOkReads, PlainLines, GetTimeSend, GetTimeSendLast DEF SrvDownload
<1>5. CASE SrvPut
  BY <1>1, <1>5, PutSendOk, PutReads, PutSendBytes, PlainLines, PutNoResultSendOk,
     PutNoResultReads DEF SrvPut
<1>6. CASE SrvUpload
  BY <1>1, <1>6, PutTimeResultSendOk, PutTimeResultReads, PutTimeResultSend DEF SrvUpload
<1>7. CASE SrvEnds
  BY <1>1, <1>7, GetTimeBlocks, MioCloses DEF SrvEnds
<1>8. QED
  BY <1>2, <1>3, <1>4, <1>5, <1>6, <1>7 DEF MioStep, MioEnds
-----------------------------------------------------------------------------
(* The client.                                                             *)

LEMMA UserFacts ==
    ASSUME CommandsInv
    PROVE  /\ Wired /\ user \in UserState /\ user.todo \in Seq(Turns)
           /\ user.cmd \in Asked \cup {"none"} /\ user.last \in Asked \cup {"none"}
           /\ user.said \in Nat /\ user.heard \in Nat /\ user.count \in Nat
           /\ toServer \in Seq(Unit) /\ Len(toServer) <= Cap
           /\ toClient \in Seq(Unit) /\ Len(toClient) <= Cap
           /\ user.todo # <<>> => /\ "client" \notin gone /\ Agenda = {user.todo}
                                  /\ user.todo[1].say \in Seq(Unit)
                                  /\ user.todo[1].each \in Nat \ {0}
                                  /\ Tail(user.todo) \in Seq(Turns)
<1>1. Wired
  BY DEF CommandsInv
<1>2. user \in UserState
  BY <1>1 DEF Wired
<1>3. ASSUME user.todo # <<>>
      PROVE  /\ "client" \notin gone /\ Agenda = {user.todo}
             /\ user.todo[1].say \in Seq(Unit) /\ user.todo[1].each \in Nat \ {0}
             /\ Tail(user.todo) \in Seq(Turns)
  <2>1. "client" \notin gone
    BY <1>1, <1>3 DEF Wired
  <2>2. Agenda = {user.todo}
    BY <2>1 DEF Agenda
  <2>3. QED
    BY <1>1, <1>3, <2>1, <2>2, AgendaFacts
<1>4. QED
  BY <1>1, <1>2, <1>3 DEF Wired, UserState

LEMMA UserStays ==
    ASSUME CommandsInv, UNCHANGED sessions, Wired',
           server = "mio" => MioInv', server = "tokio" => TaskInv'
    PROVE  CommandsInv'
<1>1. UNCHANGED <<server, srv, task>>
  BY DEF sessions
<1>2. (server = "mio" => TaskInit') /\ (server = "tokio" => SrvInit')
  BY <1>1 DEF CommandsInv, TaskInit, SrvInit
<1>3. QED
  BY <1>1, <1>2 DEF CommandsInv

LEMMA FromNothing ==
    ASSUME NEW text \in Seq(Unit)
    PROVE  FromOn(<<>>, text, 0, 0) /\ FromOn(<<>> \o <<>>, text, 0, 0)
<1>1. Len(text) \in Nat /\ <<>> \o <<>> = <<>> /\ Len(<<>>) = 0
  OBVIOUS
<1>2. FromOn(<<>>, text, 0, 0)
  BY <1>1 DEF FromOn
<1>3. QED
  BY <1>1, <1>2

LEMMA UserBegins ==
    ASSUME CommandsInv, Begins
    PROVE  CommandsInv'
<1>1. PICK cmd \in Offered, n \in {1, 2}, size \in Sizes :
         user' = [user EXCEPT !.cmd = cmd, !.last = user.cmd, !.count = @ + 1,
                              !.todo = Exchanges(cmd, n, size)]
  BY DEF Begins
<1>2. /\ user.todo = <<>> /\ user.cmd # "QUIT" /\ user.count < MaxCommands
      /\ UNCHANGED <<wire, sessions>>
  BY DEF Begins
<1>3. cmd \in Asked /\ cmd # "none"
  BY DEF Offered, Asked
<1> DEFINE todo == Exchanges(cmd, n, size)
<1>4. Opens(todo, cmd, n, size) /\ Commanding(cmd, todo)
  BY <1>3, ExchangesOpen DEF Commanding
<1> HIDE DEF todo
<1>5. todo \in Seq(Turns) /\ todo # <<>>
  BY <1>4 DEF Opens
<1>6. user' = [user EXCEPT !.cmd = cmd, !.last = user.cmd, !.count = user.count + 1, !.todo = todo]
  BY <1>1 DEF todo
<1>7. /\ user' \in UserState /\ user'.cmd = cmd /\ user'.last = user.cmd /\ user'.todo = todo
      /\ user'.said = user.said
  <2>1. user \in UserState /\ user.cmd \in Asked \cup {"none"} /\ user.count + 1 \in Nat
    BY UserFacts
  <2>2. QED
    BY <1>3, <1>5, <1>6, <2>1 DEF UserState
<1>8. "client" \notin gone
  <2>1. user.count \in Nat /\ MaxCommands \in Nat /\ Wired
    BY UserFacts, CommandsAssumption
  <2>2. ASSUME NEW a \in Nat, NEW b \in Nat, a < b PROVE a # b
    BY <2>2
  <2>3. user.count # MaxCommands
    BY <1>2, <2>1, <2>2
  <2>4. QED
    BY <2>1, <2>3 DEF Wired
<1>9. Wired'
  BY <1>2, <1>3, <1>7, <1>8, UserFacts DEF Wired, wire, sessions
<1>10. Agenda = {<<>>} /\ Agenda' = {todo}
  BY <1>2, <1>7, <1>8 DEF Agenda, wire
<1>11. todo[1].say \in Seq(Unit)
  <2>1. todo \in Agenda'
    BY <1>10
  <2>2. todo[1] \in Turns
    BY <1>5
  <2>3. QED
    BY <2>2 DEF Turns
<1>12. UNCHANGED <<toServer, toClient, gone, splitOk, server, srv, task>>
  BY <1>2 DEF wire, sessions
<1>13. CASE server = "mio"
  <2>1. MioScene(srv, user, toServer, toClient, <<>>)
    BY <1>10, <1>13 DEF CommandsInv, MioInv
  <2>2. Resting(srv, user, toServer, toClient, <<>>)
    BY <2>1 DEF MioScene, Listening, Speaking, Spoken
  <2>3. /\ user.said = 0 /\ toServer = <<>> /\ toClient = <<>> /\ srv.got = <<>>
        /\ srv.phase = "AcceptCommandReceive" /\ Rested(srv.clock, user.cmd)
    BY <2>2 DEF Resting
  <2>4. FromOn(srv'.got \o toServer', todo[1].say, 0, user'.said)
    BY <1>7, <1>11, <1>12, <2>3, FromNothing
  <2>5. Listening(srv', user', toServer', toClient', todo)
    BY <1>4, <1>5, <1>7, <1>12, <2>3, <2>4 DEF Listening
  <2>6. Sound(srv', user')
    <3>1. Ticks(srv.clock, user')
      BY <1>7, <2>3 DEF Ticks, Rested
    <3>2. srv.phase \notin Sized
      BY <2>3 DEF Sized, Takes2
    <3>3. Owned(srv, user'.cmd)
      BY <2>3, <3>2 DEF Owned
    <3>4. QED
      BY <1>12, <1>13, <3>1, <3>3, MioFacts DEF Sound
  <2>7. NoErr(toClient')
    BY <1>12, <1>13, MioFacts
  <2>8. MioInv'
    BY <1>10, <2>5, <2>6, <2>7 DEF MioInv, MioScene
  <2>9. QED
    BY <1>2, <1>9, <1>13, <2>8, UserStays
<1>14. CASE server = "tokio"
  <2>1. TaskInv
    BY <1>14 DEF CommandsInv
  <2>2. ASSUME ~splitOk
        PROVE  TaskScene(task', user', toServer', Unheard', todo)
    <3>1. TaskScene(task, user, toServer, Unheard, <<>>)
      BY <1>8, <1>10, <2>1, <2>2 DEF TaskInv, Deserted
    <3>2. TaskRests(task, user, toServer, Unheard, <<>>)
      BY <3>1 DEF TaskScene, TaskListens, TaskSends, TaskHasSaid
    <3>3. /\ user.said = 0 /\ toServer = <<>> /\ Unheard = <<>> /\ task.at = "command"
          /\ task.got = 0
      BY <1>2, <3>2 DEF TaskRests
    <3>4. 0 + task'.got = 0
      BY <1>12, <3>3
    <3>5. FromOn(toServer', todo[1].say, 0 + task'.got, user'.said)
      BY <1>7, <1>11, <1>12, <3>3, <3>4, FromNothing
    <3>6. Unheard' = <<>>
      BY <1>12, <3>3 DEF Unheard
    <3>7. Silent(Unheard', todo[1].hear)
      BY <3>6 DEF Silent
    <3>8. TaskListens(task', user', toServer', Unheard', todo)
      BY <1>4, <1>5, <1>7, <1>12, <3>3, <3>5, <3>7 DEF TaskListens
    <3>9. QED
      BY <3>8 DEF TaskScene
  <2>3. Unheard' = Unheard /\ Deserted' = Deserted
    BY <1>12 DEF Unheard, Deserted
  <2>4. TaskInv'
    BY <1>10, <1>12, <2>1, <2>2, <2>3 DEF TaskInv
  <2>5. QED
    BY <1>2, <1>9, <1>14, <2>4, UserStays
<1>15. QED
  BY <1>13, <1>14, UserFacts DEF Wired

LEMMA EmptyUnits == <<>> \in Seq(Unit)
OBVIOUS

LEMMA NothingToSay ==
    ASSUME NEW text \in Seq(Unit), NEW ch \in Seq(Unit), Len(ch) <= Cap
    PROVE  Taken(ch, text, Len(text)) = <<>>
<1>1. PICK n \in 0..Len(text) : n = Len(text)
  OBVIOUS
<1> DEFINE out == Taken(ch, text, n)
<1>2. out \in Seq(Unit) /\ Len(out) \in Nat /\ n + Len(out) <= Len(text)
  BY TakenFacts
<1> HIDE DEF out
<1>3. Len(out) = 0
  BY <1>1, <1>2
<1>4. QED
  BY <1>1, <1>2, <1>3 DEF out

LEMMA SaysWithin ==
    ASSUME NEW text \in Seq(Unit), NEW ch \in Seq(Unit), Len(ch) <= Cap, NEW pos \in Nat,
           Taken(ch, text, pos) # <<>>
    PROVE  pos \in 0..Len(text)
<1> DEFINE k == Least(Cap - Len(ch), Len(text) - pos)
<1>1. k \in Int /\ k <= Len(text) - pos /\ Len(text) \in Nat
  BY Bounds DEF Least
<1> HIDE DEF k
<1>2. Taken(ch, text, pos) = SubSeq(text, pos + 1, pos + k)
  BY DEF Taken, k
<1>3. SUFFICES ASSUME pos > Len(text) PROVE FALSE
  BY <1>1
<1>4. pos + 1 \in Int /\ pos + k \in Int /\ pos + 1 > pos + k
  BY <1>1, <1>3
<1>5. \A m, n \in Int : m > n => SubSeq(text, m, n) = <<>>
  OBVIOUS
<1>6. QED
  BY <1>2, <1>4, <1>5

LEMMA UserSaysKeeps ==
    ASSUME CommandsInv, UserSays
    PROVE  CommandsInv'
<1> DEFINE todo == user.todo
           out  == Taken(toServer, todo[1].say, user.said)
<1>1. /\ todo # <<>> /\ out # <<>> /\ toServer' = toServer \o out
      /\ user' = [user EXCEPT !.said = @ + Len(out)]
      /\ UNCHANGED <<toClient, gone, splitOk, sessions>>
  BY DEF UserSays
<1>2. /\ "client" \notin gone /\ Agenda = {todo} /\ todo[1].say \in Seq(Unit)
      /\ user \in UserState /\ user.said \in Nat /\ Wired
      /\ toServer \in Seq(Unit) /\ Len(toServer) <= Cap
  BY <1>1, UserFacts
<1> HIDE DEF todo, out
<1>3. out = Taken(toServer, todo[1].say, user.said)
  BY DEF out
<1>4. user.said # Len(todo[1].say)
  BY <1>1, <1>2, <1>3, NothingToSay
<1>5. UNCHANGED <<toClient, gone, splitOk, server, srv, task>>
  BY <1>1 DEF sessions
<1>6. ASSUME NEW m \in Nat, NEW got \in Seq(Unit),
             FromOn(got \o toServer, todo[1].say, m, user.said)
      PROVE  /\ user' \in UserState /\ Wired'
             /\ user'.cmd = user.cmd /\ user'.last = user.last
             /\ Agenda' = {todo}
             /\ FromOn(got \o toServer', todo[1].say, m, user'.said)
  <2>1. /\ out \in Seq(Unit) /\ Len(out) \in Nat
        /\ toServer' \in Seq(Unit) /\ Len(toServer') <= Cap
        /\ FromOn(got \o toServer', todo[1].say, m, user.said + Len(out))
    BY <1>1, <1>2, <1>3, <1>6, SaysOn
  <2>2. user.said + Len(out) \in Nat
    BY <1>2, <2>1
  <2>3. /\ user' \in UserState /\ user'.cmd = user.cmd /\ user'.last = user.last
        /\ user'.todo = todo /\ user'.count = user.count /\ user'.said = user.said + Len(out)
    BY <1>1, <1>2, <2>2 DEF UserState, todo
  <2>4. Agenda' = {todo}
    BY <1>2, <1>5, <2>3 DEF Agenda
  <2>5. Wired'
    BY <1>2, <1>5, <2>1, <2>3 DEF Wired
  <2>6. QED
    BY <2>1, <2>3, <2>4, <2>5
<1>7. CASE server = "mio"
  <2>1. MioScene(srv, user, toServer, toClient, todo)
    BY <1>2, <1>7 DEF CommandsInv, MioInv
  <2>2. Listening(srv, user, toServer, toClient, todo)
    BY <1>1, <1>4, <2>1 DEF MioScene, Resting, Speaking, Spoken
  <2>3. PICK m \in {0, srv.size} : /\ FromOn(srv.got \o toServer, todo[1].say, m, user.said)
                                   /\ m = 0 \/ srv.phase \in Takes2
    BY <2>2 DEF Listening
  <2>4. m \in Nat /\ srv.got \in Seq(Unit)
    <3>1. srv.got \in Seq(Unit) /\ srv.size \in {0} \cup Sizes
      BY <1>7, MioFacts, StateFacts
    <3>2. QED
      BY <3>1, SizeFacts
  <2>5. /\ user' \in UserState /\ Wired'
        /\ user'.cmd = user.cmd /\ user'.last = user.last
        /\ Agenda' = {todo}
        /\ FromOn(srv.got \o toServer', todo[1].say, m, user'.said)
    BY <1>6, <2>3, <2>4
  <2>6. Listening(srv', user', toServer', toClient', todo)
    BY <1>5, <2>2, <2>3, <2>5 DEF Listening
  <2>7. Sound(srv', user')
    BY <1>5, <1>7, <2>5, MioFacts DEF Sound, Ticks
  <2>8. NoErr(toClient')
    BY <1>5, <1>7, MioFacts
  <2>9. MioInv'
    BY <2>5, <2>6, <2>7, <2>8 DEF MioInv, MioScene
  <2>10. QED
    BY <1>1, <1>7, <2>5, <2>9, UserStays
<1>8. CASE server = "tokio"
  <2>1. TaskInv
    BY <1>8 DEF CommandsInv
  <2>2. Unheard' = Unheard /\ ~Deserted /\ ~Deserted'
    BY <1>2, <1>5 DEF Unheard, Deserted
  <2>3. CASE ~splitOk
    <3>1. TaskScene(task, user, toServer, Unheard, todo)
      BY <1>2, <2>1, <2>2, <2>3 DEF TaskInv
    <3>2. TaskListens(task, user, toServer, Unheard, todo)
      BY <1>1, <1>4, <3>1 DEF TaskScene, TaskRests, TaskSends, TaskHasSaid
    <3>3. PICK k \in {0, task.size} : /\ FromOn(toServer, todo[1].say, k + task.got, user.said)
                                      /\ \/ k = 0
                                         \/ /\ task.at \in Counting
                                            /\ todo = <<LastTurn(Two(task.size))>>
      BY <3>2 DEF TaskListens
    <3> DEFINE m == k + task.got
    <3>4. m \in Nat
      <4>1. task.got \in Nat /\ task.size \in Nat
        BY <2>1, Bounds DEF TaskInv, TaskState
      <4>2. QED
        BY <4>1
    <3> HIDE DEF m
    <3>5. PICK got \in Seq(Unit) : got = <<>>
      BY Zenon, EmptyUnits
    <3>6. got \o toServer = toServer
      BY <1>2, <3>5
    <3>7. FromOn(got \o toServer, todo[1].say, m, user.said)
      BY <3>3, <3>6 DEF m
    <3>8. /\ user' \in UserState /\ Wired'
          /\ user'.cmd = user.cmd /\ user'.last = user.last
          /\ Agenda' = {todo}
          /\ FromOn(got \o toServer', todo[1].say, m, user'.said)
      BY <1>6, <3>4, <3>7
    <3>9. got \o toServer' = toServer'
      BY <3>5, <3>8 DEF Wired
    <3>10. FromOn(toServer', todo[1].say, k + task.got, user'.said)
      BY <3>8, <3>9 DEF m
    <3>11. TaskListens(task', user', toServer', Unheard', todo)
      BY <1>5, <2>2, <3>2, <3>3, <3>8, <3>10 DEF TaskListens
    <3>12. TaskInv'
      BY <1>5, <2>1, <2>2, <3>8, <3>11 DEF TaskInv, TaskScene
    <3>13. QED
      BY <1>1, <1>8, <3>8, <3>12, UserStays
  <2>4. CASE splitOk
    <3>1. TaskInv'
      BY <1>5, <2>1, <2>2, <2>4 DEF TaskInv
    <3>2. PICK n \in 0..Len(todo[1].say) : n = user.said
      BY <1>1, <1>2, <1>3, SaysWithin
    <3>3. /\ Len(out) \in Nat /\ toServer' \in Seq(Unit) /\ Len(toServer') <= Cap
      BY <1>1, <1>2, <1>3, <3>2, TakenFacts
    <3>4. user.said + Len(out) \in Nat
      BY <1>2, <3>3
    <3>5. user' \in UserState /\ user'.cmd = user.cmd /\ user'.last = user.last
      BY <1>1, <1>2, <3>4 DEF UserState
    <3>6. Wired'
      BY <1>2, <1>5, <3>3, <3>5 DEF Wired
    <3>7. QED
      BY <1>1, <1>8, <3>1, <3>6, UserStays
  <2>5. QED
    BY <2>3, <2>4, UserFacts DEF Wired
<1>9. QED
  BY <1>7, <1>8, UserFacts DEF Wired

\* What the client makes of a piece that it hears.
LEMMA HearsFacts ==
    ASSUME CommandsInv, UserHears
    PROVE  /\ user.todo # <<>> /\ user.said = Len(user.todo[1].say) /\ toClient # <<>>
           /\ UNCHANGED <<toServer, gone, splitOk, sessions>> /\ Wired'
           /\ user'.cmd = user.cmd /\ user'.last = user.last
           /\ Agenda = {user.todo} /\ Agenda' = {user'.todo}
           /\ user.todo[1].say \in Seq(Unit) /\ Tail(user.todo) \in Seq(Turns)
           /\ \E data \in Pieces(toClient, Cap) :
                 /\ toClient' = Rest(toClient, data)
                 /\ \/ user'.todo = user.todo /\ user'.said = user.said
                    \/ /\ SameUnit(LastOf(data), user.todo[1].hear)
                       /\ user'.todo = Tail(user.todo) /\ user'.said = 0
<1> DEFINE todo == user.todo
           turn == todo[1]
<1>1. /\ todo # <<>> /\ user.said = Len(turn.say)
      /\ UNCHANGED <<toServer, gone, splitOk, sessions>>
  BY DEF UserHears
<1>2. PICK data \in Pieces(toClient, Cap) :
         /\ toClient' = Rest(toClient, data)
         /\ user' = IF /\ SameUnit(LastOf(data), turn.hear)
                       /\ (user.heard + Len(data)) % turn.each = 0
                    THEN [user EXCEPT !.todo = Tail(@), !.said = 0, !.heard = 0]
                    ELSE [user EXCEPT !.heard = (user.heard + Len(data)) % turn.each]
  BY DEF UserHears
<1>3. /\ Wired /\ user \in UserState /\ user.heard \in Nat
      /\ toClient \in Seq(Unit) /\ Len(toClient) <= Cap
      /\ "client" \notin gone /\ Agenda = {todo} /\ turn.say \in Seq(Unit)
      /\ turn.each \in Nat \ {0} /\ Tail(todo) \in Seq(Turns)
  BY <1>1, UserFacts
<1> HIDE DEF turn
<1>4. /\ Len(data) \in 1..Cap /\ Len(data) <= Len(toClient)
      /\ Rest(toClient, data) \in Seq(Unit)
      /\ Len(Rest(toClient, data)) = Len(toClient) - Len(data)
  BY <1>3, Bounds, PieceFacts
<1>5. Len(toClient') <= Cap /\ toClient' \in Seq(Unit) /\ toClient # <<>>
  <2>1. Len(toClient) \in Nat /\ Len(data) \in Nat /\ Cap \in Nat /\ Len(data) >= 1
    BY <1>3, <1>4, Bounds
  <2>2. toClient' \in Seq(Unit) /\ Len(toClient') = Len(toClient) - Len(data)
    BY <1>2, <1>4
  <2>3. Len(toClient) - Len(data) <= Cap
    BY <1>3, <2>1
  <2>4. Len(toClient) >= 1
    BY <1>4, <2>1
  <2>5. Len(<<>>) = 0
    OBVIOUS
  <2>6. QED
    BY <2>2, <2>3, <2>4, <2>5
<1>6. CASE user' = [user EXCEPT !.heard = (user.heard + Len(data)) % turn.each]
  <2> DEFINE heard == (user.heard + Len(data)) % turn.each
  <2>1. heard \in Nat
    <3>1. \A a \in Nat, b \in Nat \ {0} : a % b \in Nat
      OBVIOUS
    <3>2. user.heard + Len(data) \in Nat
      BY <1>3, <1>4, Bounds
    <3>3. QED
      BY <1>3, <3>1, <3>2
  <2> HIDE DEF heard
  <2>2. user' = [user EXCEPT !.heard = heard]
    BY <1>6 DEF heard
  <2>3. /\ user' \in UserState /\ user'.todo = todo /\ user'.said = user.said
        /\ user'.cmd = user.cmd /\ user'.last = user.last /\ user'.count = user.count
    BY <1>3, <2>1, <2>2 DEF UserState
  <2>4. Wired'
    BY <1>1, <1>3, <1>5, <2>3 DEF Wired, sessions
  <2>5. Agenda' = {user'.todo}
    BY <1>1, <1>3, <2>3 DEF Agenda
  <2>6. QED
    BY <1>1, <1>2, <1>3, <1>5, <2>3, <2>4, <2>5 DEF turn
<1>7. CASE /\ SameUnit(LastOf(data), turn.hear)
           /\ user' = [user EXCEPT !.todo = Tail(@), !.said = 0, !.heard = 0]
  <2> DEFINE rest == Tail(todo)
  <2>1. rest \in Seq(Turns)
    BY <1>3
  <2> HIDE DEF rest
  <2>2. user' = [user EXCEPT !.todo = rest, !.said = 0, !.heard = 0]
    BY <1>7 DEF rest, todo
  <2>3. /\ user' \in UserState /\ user'.todo = rest /\ user'.said = 0
        /\ user'.cmd = user.cmd /\ user'.last = user.last /\ user'.count = user.count
    BY <1>3, <2>1, <2>2 DEF UserState
  <2>4. Wired'
    BY <1>1, <1>3, <1>5, <2>3 DEF Wired, sessions
  <2>5. Agenda' = {user'.todo}
    BY <1>1, <1>3, <2>3 DEF Agenda
  <2>6. QED
    BY <1>1, <1>2, <1>3, <1>5, <1>7, <2>3, <2>4, <2>5 DEF turn, rest
<1>8. QED
  BY <1>2, <1>6, <1>7

LEMMA MioIsHeard ==
    ASSUME CommandsInv, UserHears, server = "mio"
    PROVE  CommandsInv'
<1>1. /\ user.todo # <<>> /\ user.said = Len(user.todo[1].say) /\ toClient # <<>>
      /\ UNCHANGED <<toServer, gone, splitOk, sessions>> /\ Wired'
      /\ user'.cmd = user.cmd /\ user'.last = user.last
      /\ Agenda = {user.todo} /\ Agenda' = {user'.todo}
      /\ user.todo[1].say \in Seq(Unit) /\ Tail(user.todo) \in Seq(Turns)
  BY HearsFacts
<1>2. PICK data \in Pieces(toClient, Cap) :
         /\ toClient' = Rest(toClient, data)
         /\ \/ user'.todo = user.todo /\ user'.said = user.said
            \/ /\ SameUnit(LastOf(data), user.todo[1].hear)
               /\ user'.todo = Tail(user.todo) /\ user'.said = 0
  BY HearsFacts
<1>3. UNCHANGED <<toServer, gone, splitOk, server, srv, task>>
  BY <1>1 DEF sessions
<1>4. /\ toClient \in Seq(Unit) /\ Len(toClient) <= Cap /\ NoErr(toClient) /\ Sound(srv, user)
  BY MioFacts
<1> DEFINE todo == user.todo
           hear == todo[1].hear
<1>5. MioScene(srv, user, toServer, toClient, todo)
  BY <1>1 DEF CommandsInv, MioInv
<1> HIDE DEF todo, hear
<1>6. PICK none \in Seq(Unit) : none = <<>>
  BY Zenon, EmptyUnits
<1>7. /\ toClient \o none = toClient /\ toClient' \o none = toClient'
      /\ toClient' \in Seq(Unit)
  BY <1>1, <1>4, <1>6 DEF Wired
<1>8. /\ Silent(toClient, hear) => ~SameUnit(LastOf(data), hear) /\ Silent(toClient', hear)
      /\ EndsOnly(toClient, hear) =>
            /\ SameUnit(LastOf(data), hear) => toClient' = <<>>
            /\ EndsOnly(toClient', hear)
  <2>1. /\ Silent(toClient \o none, hear) =>
              ~SameUnit(LastOf(data), hear) /\ Silent(Rest(toClient, data) \o none, hear)
        /\ EndsOnly(toClient \o none, hear) =>
              /\ SameUnit(LastOf(data), hear) => Rest(toClient, data) \o none = <<>>
              /\ EndsOnly(Rest(toClient, data) \o none, hear)
    BY <1>4, <1>6, HearsOn
  <2>2. QED
    BY <1>2, <1>7, <2>1
<1>9. NoErr(toClient')
  <2>1. Silent(toClient \o none, Err[1]) => Silent(Rest(toClient, data) \o none, Err[1])
    BY <1>4, <1>6, HearsOn
  <2>2. QED
    BY <1>2, <1>4, <1>7, <2>1 DEF NoErr
<1>10. Sound(srv', user')
  BY <1>1, <1>3, <1>4 DEF Sound, Ticks
<1>11. SUFFICES MioScene(srv', user', toServer', toClient', user'.todo)
  <2>1. MioInv'
    BY <1>1, <1>9, <1>10, <1>11 DEF MioInv
  <2>2. QED
    BY <1>1, <2>1, UserStays
<1>12. CASE Speaking(srv, user, toServer, toClient, todo)
  <2>1. Silent(toClient, hear)
    BY <1>12 DEF Speaking, hear
  <2>2. user'.todo = todo /\ user'.said = user.said /\ Silent(toClient', hear)
    BY <1>2, <1>8, <2>1 DEF todo, hear
  <2>3. srv.phase \notin Quiet
    BY <1>1, <1>12 DEF Speaking
  <2>4. Speaking(srv', user', toServer', toClient', todo)
    BY <1>1, <1>3, <1>12, <2>2, <2>3 DEF Speaking, hear
  <2>5. QED
    BY <2>2, <2>4 DEF MioScene
<1>13. CASE Spoken(srv, user, toServer, toClient, todo)
  <2>1. EndsOnly(toClient, hear)
    BY <1>13 DEF Spoken, hear
  <2>2. CASE user'.todo = user.todo /\ user'.said = user.said
    <3>1. Spoken(srv', user', toServer', toClient', todo)
      BY <1>1, <1>3, <1>8, <1>13, <2>1, <2>2 DEF Spoken, hear
    <3>2. QED
      BY <2>2, <3>1 DEF MioScene, todo
  <2>3. CASE /\ SameUnit(LastOf(data), user.todo[1].hear)
             /\ user'.todo = Tail(user.todo) /\ user'.said = 0
    <3> DEFINE rest == Tail(todo)
    <3>1. toClient' = <<>>
      BY <1>8, <2>1, <2>3 DEF hear, todo
    <3>2. /\ Takes(srv.phase, srv.size, rest) /\ toServer = <<>> /\ srv.got = <<>>
          /\ srv.phase = "AcceptCommandReceive" => Rested(srv.clock, user.cmd)
      BY <1>13 DEF Spoken
    <3>3. user'.todo = rest /\ user'.said = 0 /\ rest \in Seq(Turns)
      BY <1>1, <2>3 DEF todo
    <3> HIDE DEF rest
    <3>4. CASE rest = <<>>
      <4>1. srv.phase = "AcceptCommandReceive"
        BY <3>2, <3>4 DEF Takes
      <4>2. Resting(srv', user', toServer', toClient', rest)
        BY <1>1, <1>3, <3>1, <3>2, <3>3, <3>4, <4>1 DEF Resting
      <4>3. QED
        BY <3>3, <4>2 DEF MioScene
    <3>5. CASE rest # <<>>
      <4>1. rest[1].say \in Seq(Unit)
        <5>1. rest[1] \in Turns
          BY <3>3, <3>5
        <5>2. QED
          BY <5>1 DEF Turns
      <4>2. FromOn(srv'.got \o toServer', rest[1].say, 0, user'.said)
        BY <1>3, <3>2, <3>3, <4>1, FromNothing
      <4>3. Listening(srv', user', toServer', toClient', rest)
        BY <1>3, <3>1, <3>2, <3>5, <4>2 DEF Listening
      <4>4. QED
        BY <3>3, <4>3 DEF MioScene
    <3>6. QED
      BY <3>4, <3>5
  <2>4. QED
    BY <1>2, <2>2, <2>3
<1>14. QED
  BY <1>1, <1>5, <1>12, <1>13 DEF MioScene, Resting, Listening, todo

LEMMA TaskIsHeard ==
    ASSUME CommandsInv, UserHears, server = "tokio"
    PROVE  CommandsInv'
<1>1. /\ user.todo # <<>> /\ user.said = Len(user.todo[1].say) /\ toClient # <<>>
      /\ UNCHANGED <<toServer, gone, splitOk, sessions>> /\ Wired'
      /\ user'.cmd = user.cmd /\ user'.last = user.last
      /\ Agenda = {user.todo} /\ Agenda' = {user'.todo}
      /\ user.todo[1].say \in Seq(Unit) /\ Tail(user.todo) \in Seq(Turns)
  BY HearsFacts
<1>2. PICK data \in Pieces(toClient, Cap) :
         /\ toClient' = Rest(toClient, data)
         /\ \/ user'.todo = user.todo /\ user'.said = user.said
            \/ /\ SameUnit(LastOf(data), user.todo[1].hear)
               /\ user'.todo = Tail(user.todo) /\ user'.said = 0
  BY HearsFacts
<1>3. UNCHANGED <<toServer, gone, splitOk, server, srv, task>>
  BY <1>1 DEF sessions
<1>4. toClient \in Seq(Unit) /\ TaskInv /\ task.out \in Seq(Unit)
  BY UserFacts DEF CommandsInv, TaskInv, TaskState
<1> DEFINE todo == user.todo
           hear == todo[1].hear
           on   == Rest(toClient, data) \o task.out
<1>5. Unheard = toClient \o task.out /\ Unheard' = on
  BY <1>2, <1>3 DEF Unheard
<1>6. /\ Silent(Unheard, hear) => ~SameUnit(LastOf(data), hear) /\ Silent(on, hear)
      /\ EndsOnly(Unheard, hear) => /\ SameUnit(LastOf(data), hear) => on = <<>>
                                    /\ EndsOnly(on, hear)
  <2> HIDE DEF hear
  <2>1. QED
    BY <1>4, <1>5, HearsOn
<1>7. NoErr(Unheard) => NoErr(on)
  BY <1>4, <1>5, HearsOn DEF NoErr
<1> HIDE DEF todo, hear, on
<1>8. Deserted' = Deserted
  BY <1>3 DEF Deserted
<1>9. ~Deserted
  BY <1>1, UserFacts DEF Deserted
<1>10. SUFFICES ASSUME ~splitOk PROVE TaskScene(task', user', toServer', on, user'.todo)
  <2>1. TaskInv'
    BY <1>1, <1>3, <1>4, <1>5, <1>7, <1>8, <1>10 DEF TaskInv
  <2>2. QED
    BY <1>1, <2>1, UserStays
<1>11. TaskScene(task, user, toServer, Unheard, todo)
  BY <1>1, <1>4, <1>9, <1>10 DEF TaskInv, todo
<1>12. CASE TaskListens(task, user, toServer, Unheard, todo)
  <2>1. Silent(Unheard, hear)
    BY <1>12 DEF TaskListens, hear
  <2>2. user'.todo = todo /\ user'.said = user.said /\ Silent(on, hear)
    BY <1>2, <1>6, <2>1 DEF todo, hear
  <2>3. TaskListens(task', user', toServer', on, todo)
    BY <1>1, <1>3, <1>12, <2>2 DEF TaskListens, hear
  <2>4. QED
    BY <2>2, <2>3 DEF TaskScene
<1>13. CASE TaskSends(task, user, toServer, Unheard, todo)
  <2>1. Silent(Unheard, hear)
    BY <1>13 DEF TaskSends, hear
  <2>2. user'.todo = todo /\ user'.said = user.said /\ Silent(on, hear)
    BY <1>2, <1>6, <2>1 DEF todo, hear
  <2>3. TaskSends(task', user', toServer', on, todo)
    BY <1>1, <1>3, <1>13, <2>2 DEF TaskSends, hear
  <2>4. QED
    BY <2>2, <2>3 DEF TaskScene
<1>14. CASE TaskHasSaid(task, user, toServer, Unheard, todo)
  <2>1. EndsOnly(Unheard, hear)
    BY <1>14 DEF TaskHasSaid, hear
  <2>2. CASE user'.todo = user.todo /\ user'.said = user.said
    <3>1. TaskHasSaid(task', user', toServer', on, todo)
      BY <1>1, <1>3, <1>6, <1>14, <2>1, <2>2 DEF TaskHasSaid, hear
    <3>2. QED
      BY <2>2, <3>1 DEF TaskScene, todo
  <2>3. CASE /\ SameUnit(LastOf(data), user.todo[1].hear)
             /\ user'.todo = Tail(user.todo) /\ user'.said = 0
    <3> DEFINE rest == Tail(todo)
    <3>1. on = <<>>
      BY <1>6, <2>1, <2>3 DEF hear, todo
    <3>2. TaskTakes(task.at, task.size, user.cmd, rest) /\ toServer = <<>> /\ task.got = 0
      BY <1>14 DEF TaskHasSaid
    <3>3. user'.todo = rest /\ user'.said = 0 /\ rest \in Seq(Turns)
      BY <1>1, <2>3 DEF todo
    <3> HIDE DEF rest
    <3>4. CASE rest = <<>>
      <4>1. task.at = "command" \/ (task.at = "end" /\ user.cmd = "QUIT")
        BY <3>2, <3>4 DEF TaskTakes
      <4>2. task.at \notin Counting
        BY <4>1 DEF Counting
      <4>3. TaskRests(task', user', toServer', on, rest)
        BY <1>1, <1>3, <3>1, <3>2, <3>3, <3>4, <4>1, <4>2 DEF TaskRests
      <4>4. QED
        BY <3>3, <4>3 DEF TaskScene
    <3>5. CASE rest # <<>>
      <4>1. rest[1].say \in Seq(Unit)
        <5>1. rest[1] \in Turns
          BY <3>3, <3>5
        <5>2. QED
          BY <5>1 DEF Turns
      <4>2. 0 + task'.got = 0
        BY <1>3, <3>2
      <4>3. FromOn(toServer', rest[1].say, 0 + task'.got, user'.said)
        BY <1>3, <3>2, <3>3, <4>1, <4>2, FromNothing
      <4>4. Silent(on, rest[1].hear)
        BY <3>1 DEF Silent
      <4>5. TaskListens(task', user', toServer', on, rest)
        BY <1>1, <1>3, <3>2, <3>5, <4>3, <4>4 DEF TaskListens
      <4>6. QED
        BY <3>3, <4>5 DEF TaskScene
    <3>6. QED
      BY <3>4, <3>5
  <2>4. QED
    BY <1>2, <2>2, <2>3
<1>15. QED
  BY <1>1, <1>11, <1>12, <1>13, <1>14 DEF TaskScene, TaskRests, todo

LEMMA UserLeaves ==
    ASSUME CommandsInv, Leaves
    PROVE  CommandsInv'
<1>1. /\ "client" \notin gone /\ gone' = gone \cup {"client"}
      /\ user' = [user EXCEPT !.todo = <<>>, !.count = MaxCommands]
      /\ UNCHANGED <<toServer, toClient, splitOk, sessions>>
  BY DEF Leaves
<1>2. UNCHANGED <<server, srv, task>>
  BY <1>1 DEF sessions
<1>3. Wired /\ user \in UserState /\ MaxCommands \in Nat /\ <<>> \in Seq(Turns)
  BY UserFacts, CommandsAssumption
<1>4. /\ user' \in UserState /\ user'.todo = <<>> /\ user'.count = MaxCommands
      /\ user'.cmd = user.cmd /\ user'.last = user.last /\ user'.said = user.said
  BY <1>1, <1>3 DEF UserState
<1>5. Wired'
  BY <1>1, <1>2, <1>3, <1>4 DEF Wired
<1>6. Agenda = {user.todo} /\ user.todo \in Agenda'
  BY <1>1, UserFacts DEF Agenda
<1>7. CASE server = "mio"
  <2>1. MioScene(srv, user, toServer, toClient, user.todo) /\ Sound(srv, user) /\ NoErr(toClient)
    BY <1>6, <1>7 DEF CommandsInv, MioInv
  <2>2. MioScene(srv', user', toServer', toClient', user.todo)
    BY <1>1, <1>2, <1>4, <2>1 DEF MioScene, Resting, Listening, Speaking, Spoken
  <2>3. Sound(srv', user')
    BY <1>2, <1>4, <2>1 DEF Sound, Ticks
  <2>4. MioInv'
    BY <1>1, <1>6, <2>1, <2>2, <2>3 DEF MioInv
  <2>5. QED
    BY <1>1, <1>5, <1>7, <2>4, UserStays
<1>8. CASE server = "tokio"
  <2>1. TaskInv
    BY <1>8 DEF CommandsInv
  <2>2. Unheard' = Unheard
    BY <1>1, <1>2 DEF Unheard
  <2>3. ~Deserted
    BY <1>1 DEF Deserted
  <2>4. CASE splitOk
    <3>1. TaskInv'
      BY <1>1, <1>2, <2>1, <2>2, <2>3, <2>4 DEF TaskInv
    <3>2. QED
      BY <1>1, <1>5, <1>8, <3>1, UserStays
  <2>5. CASE ~splitOk
    <3>1. TaskScene(task, user, toServer, Unheard, user.todo)
      BY <1>6, <2>1, <2>3, <2>5 DEF TaskInv
    <3>2. TaskScene(task', user', toServer', Unheard', user.todo)
      BY <1>1, <1>2, <1>4, <2>2, <3>1 DEF TaskScene, TaskRests, TaskListens, TaskSends, TaskHasSaid
    <3>3. TaskInv'
      BY <1>1, <1>2, <1>6, <2>1, <2>2, <2>3, <3>2 DEF TaskInv
    <3>4. QED
      BY <1>1, <1>5, <1>8, <3>3, UserStays
  <2>6. QED
    BY <2>4, <2>5
<1>9. QED
  BY <1>7, <1>8, <1>3 DEF Wired

LEMMA UserKeeps ==
    ASSUME CommandsInv, UserStep \/ Leaves
    PROVE  CommandsInv'
<1>1. server \in {"mio", "tokio"}
  BY UserFacts DEF Wired
<1>2. QED
  BY <1>1, UserBegins, UserSaysKeeps, MioIsHeard, TaskIsHeard, UserLeaves DEF UserStep
-----------------------------------------------------------------------------
(* The tokio server.                                                       *)

LEMMA TaskFacts ==
    ASSUME CommandsInv, server = "tokio"
    PROVE  /\ TaskInv /\ Wired /\ task \in TaskState /\ task.got <= task.size
           /\ task.at \in TaskReading \cup {"get_time", "end"} /\ task.out \in Seq(Unit)
           /\ task.size \in 0..MaxChunk /\ task.size \in Nat /\ task.got \in Nat
           /\ task.over \in BOOLEAN
           /\ toServer \in Seq(Unit) /\ Len(toServer) <= Cap
           /\ toClient \in Seq(Unit) /\ Len(toClient) <= Cap
           /\ splitOk \in BOOLEAN
<1>1. TaskInv /\ Wired
  BY DEF CommandsInv
<1>2. task \in TaskState /\ task.got <= task.size
  BY <1>1 DEF TaskInv
<1>3. task.size \in 0..MaxChunk
  BY <1>2 DEF TaskState
<1>4. task.size \in Nat
  BY <1>3, Bounds
<1>5. QED
  BY <1>1, <1>2, <1>3, <1>4 DEF Wired, TaskState

LEMMA TaskStays ==
    ASSUME CommandsInv, server = "tokio", UNCHANGED <<server, srv, user>>,
           gone' \in {gone, gone \cup {"server"}}, splitOk' \in BOOLEAN,
           toServer' \in Seq(Unit), Len(toServer') <= Cap,
           toClient' \in Seq(Unit), Len(toClient') <= Cap,
           TaskInv'
    PROVE  CommandsInv'
<1>1. gone' \subseteq {"client", "server"} /\ ("client" \in gone' <=> "client" \in gone)
  BY TaskFacts DEF Wired
<1>2. Wired'
  BY <1>1, TaskFacts DEF Wired
<1>3. SrvInit'
  BY DEF CommandsInv, SrvInit
<1>4. QED
  BY <1>2, <1>3 DEF CommandsInv

\* Only the status changes, or `over`, or what was to be written has been.
LEMMA TaskLike ==
    ASSUME CommandsInv, server = "tokio", UNCHANGED <<server, srv, user>>,
           gone' \in {gone, gone \cup {"server"}}, UNCHANGED <<toServer, splitOk>>,
           toClient' \in Seq(Unit), Len(toClient') <= Cap, Unheard' = Unheard,
           task' \in TaskState, task'.at = task.at, task'.size = task.size, task'.got = task.got
    PROVE  CommandsInv'
<1>1. TaskInv
  BY TaskFacts
<1>2. "client" \in gone' <=> "client" \in gone
  OBVIOUS
<1>3. Deserted' = Deserted /\ Agenda' = Agenda
  BY <1>2 DEF Deserted, Agenda
<1>4. ASSUME NEW todo, TaskScene(task, user, toServer, Unheard, todo)
      PROVE  TaskScene(task', user', toServer', Unheard', todo)
  BY <1>4 DEF TaskScene, TaskRests, TaskListens, TaskSends, TaskHasSaid
<1>5. TaskInv'
  BY <1>1, <1>3, <1>4 DEF TaskInv
<1>6. toServer' \in Seq(Unit) /\ Len(toServer') <= Cap /\ splitOk' \in BOOLEAN
  BY TaskFacts
<1>7. QED
  BY <1>5, <1>6, TaskStays

LEMMA JoinsSome ==
    ASSUME NEW ch \in Seq(Unit), NEW out \in Seq(Unit)
    PROVE  ch # <<>> \/ out # <<>> => ch \o out # <<>>
<1>1. PICK m \in Nat, n \in Nat : m = Len(ch) /\ n = Len(out)
  OBVIOUS
<1>2. Len(ch \o out) = m + n
  BY <1>1, JoinOf
<1>3. (m = 0 => ch = <<>>) /\ (n = 0 => out = <<>>)
  BY <1>1
<1>4. ch \o out = <<>> => m + n = 0
  BY <1>2, ArgFacts
<1>5. QED
  BY <1>3, <1>4

LEMMA WritesOut ==
    ASSUME CommandsInv, server = "tokio", write_all
    PROVE  /\ toClient' \in Seq(Unit) /\ Len(toClient') <= Cap /\ Unheard' = Unheard
           /\ task' \in TaskState /\ toClient' # <<>>
           /\ task'.at = task.at /\ task'.size = task.size /\ task'.got = task.got
<1> DEFINE buf == task.out
           out == Taken(toClient, buf, 0)
<1>1. /\ toClient' = toClient \o out /\ task' = [task EXCEPT !.out = Rest(buf, out)]
      /\ UNCHANGED <<toServer, gone, splitOk>>
  BY DEF write_all
<1>2. task \in TaskState /\ buf \in Seq(Unit) /\ toClient \in Seq(Unit) /\ Len(toClient) <= Cap
  BY TaskFacts
<1> HIDE DEF buf
<1>3. PICK pos \in 0..Len(buf) : pos = 0
  BY <1>2
<1>4. /\ out \in Seq(Unit) /\ Len(out) \in Nat /\ 0 + Len(out) <= Len(buf)
      /\ \A i \in 1..Len(out) : out[i] = buf[0 + i]
      /\ toClient \o out \in Seq(Unit) /\ Len(toClient \o out) <= Cap
  <2>1. out = Taken(toClient, buf, pos)
    BY <1>3
  <2> HIDE DEF out
  <2>2. QED
    BY <1>2, <1>3, <2>1, TakenFacts
<1> HIDE DEF out
<1> DEFINE rest == Rest(buf, out)
<1>5. Len(buf) \in Nat
  BY <1>2
<1>6. rest \in Seq(Unit) /\ out \o rest = buf
  <2>1. PICK m \in Nat, n \in Nat : m = Len(out) /\ n = Len(buf) - Len(out)
    <3>1. Len(out) \in Nat /\ Len(out) <= Len(buf)
      BY <1>4
    <3>2. Len(buf) - Len(out) \in Nat
      BY <1>5, <3>1
    <3>3. QED
      BY <3>1, <3>2
  <2>2. m + n = Len(buf)
    BY <1>5, <2>1
  <2>3. /\ SubSeq(buf, m + 1, m + n) \in Seq(Unit) /\ Len(SubSeq(buf, m + 1, m + n)) = n
        /\ \A i \in 1..n : SubSeq(buf, m + 1, m + n)[i] = buf[m + i]
    BY <1>2, <2>2, PartOf
  <2>4. rest = SubSeq(buf, m + 1, m + n)
    BY <2>1, <2>2 DEF Rest
  <2>5. ASSUME NEW i \in 1..Len(out) PROVE out[i] = buf[i]
    <3>1. 0 + i = i
      OBVIOUS
    <3>2. QED
      BY <1>4, <3>1
  <2> HIDE DEF rest
  <2>6. rest \in Seq(Unit) /\ Len(buf) = Len(out) + Len(rest)
    BY <2>1, <2>2, <2>3, <2>4
  <2>7. \A i \in 1..Len(rest) : rest[i] = buf[Len(out) + i]
    BY <2>1, <2>3, <2>4
  <2>8. out \o rest = buf
    BY <1>2, <1>4, <2>5, <2>6, <2>7, JoinParts
  <2>9. QED
    BY <2>6, <2>8
<1> HIDE DEF rest
<1>7. task' = [task EXCEPT !.out = rest]
  BY <1>1 DEF rest
<1>8. /\ task' \in TaskState /\ task'.out = rest
      /\ task'.at = task.at /\ task'.size = task.size /\ task'.got = task.got
  BY <1>2, <1>6, <1>7 DEF TaskState
<1>9. Unheard' = Unheard
  <2>1. (toClient \o out) \o rest = toClient \o (out \o rest)
    BY <1>2, <1>4, <1>6, JoinThree
  <2>2. QED
    BY <1>1, <1>6, <1>8, <2>1 DEF Unheard, buf
<1>10. toClient' # <<>>
  <2>1. out # <<>>
    BY DEF write_all, out, buf
  <2>2. QED
    BY <1>1, <1>2, <1>4, <2>1, JoinsSome
<1>11. QED
  BY <1>1, <1>4, <1>8, <1>9, <1>10

LEMMA WritesAll ==
    ASSUME CommandsInv, server = "tokio", UNCHANGED <<server, srv, user>>, write_all
    PROVE  CommandsInv'
BY WritesOut, TaskLike DEF write_all

\* The task goes on to what it says next.
LEMMA TaskAnswers ==
    ASSUME CommandsInv, server = "tokio", UNCHANGED <<server, srv, user>>,
           UNCHANGED <<gone, toClient>>, toServer' \in Seq(Unit), Len(toServer') <= Cap,
           task.out = <<>>, splitOk' \in BOOLEAN, splitOk => splitOk',
           task' \in TaskState, task'.got <= task'.size,
           task'.at \notin Counting => task'.got = 0 \/ Deserted',
           ~splitOk' => Silent(task'.out, Err[1]),
           ~splitOk' /\ ~Deserted' =>
              \E todo \in Agenda : TaskScene(task', user, toServer', toClient \o task'.out, todo)
    PROVE  CommandsInv'
<1>1. /\ TaskInv /\ toClient \in Seq(Unit) /\ Len(toClient) <= Cap
      /\ task'.out \in Seq(Unit) /\ Agenda' = Agenda
  BY TaskFacts DEF TaskState, Agenda
<1>2. Unheard' = toClient \o task'.out
  BY DEF Unheard
<1>3. Unheard = toClient
  BY <1>1 DEF Unheard
<1>4. ASSUME ~splitOk' PROVE NoErr(Unheard')
  <2>1. Silent(toClient, Err[1])
    BY <1>1, <1>3, <1>4 DEF TaskInv, NoErr
  <2>2. Silent(task'.out, Err[1])
    BY <1>4
  <2>3. Silent(toClient \o task'.out, Err[1])
    BY <1>1, <2>1, <2>2, StaysSilent
  <2>4. QED
    BY <1>2, <2>3 DEF NoErr
<1>5. TaskInv'
  BY <1>1, <1>2, <1>4 DEF TaskInv
<1>6. QED
  BY <1>1, <1>5, TaskStays
-----------------------------------------------------------------------------
(* What the tokio server says, and the lines it is told.                   *)

LEMMA LineSilent ==
    ASSUME NEW hear, NEW of \in Words, hear.of # of
    PROVE  Silent(Line(of, <<>>), hear)
<1> DEFINE line == Line(of, <<>>)
<1>1. Len(line) = 2 /\ line[1].of = of /\ line[2].of = of
  BY ArgFacts, LineUnits
<1> HIDE DEF line
<1>2. QED
  BY <1>1 DEF Silent, SameUnit, line

LEMMA LineEnds ==
    ASSUME NEW hear, NEW of \in Words, hear.of = of, hear.at = 2
    PROVE  EndsOnly(Line(of, <<>>), hear) /\ Line(of, <<>>) # <<>>
<1> DEFINE line == Line(of, <<>>)
<1>1. /\ line \in Seq(Unit) /\ Len(line) = 2
      /\ line[1].of = of /\ line[2].of = of /\ line[1].at = 1 /\ line[2].at = 2
  BY ArgFacts, LineUnits
<1> HIDE DEF line
<1>2. \A i \in 1..(Len(line) - 1) : i = 1
  BY <1>1
<1>3. QED
  BY <1>1, <1>2 DEF EndsOnly, SameUnit, LastOf, line

\* Said by the task: typed, no ERR, and with the unit that is waited for at its end or nowhere.
Proper(out)     == out \in Seq(Unit) /\ Silent(out, Err[1])
Ends(out, hear) == Proper(out) /\ out # <<>> /\ EndsOnly(out, hear)

LEMMA ProperLine ==
    ASSUME NEW of \in Words, of # "ERR"
    PROVE  Proper(Line(of, <<>>))
<1>1. Err[1].of # of
  BY ErrUnits
<1>2. QED
  BY <1>1, ArgFacts, LineUnits, LineSilent DEF Proper

LEMMA ProperEnd ==
    ASSUME NEW hear, NEW of \in Words, of # "ERR", hear.of = of, hear.at = 2
    PROVE  Ends(Line(of, <<>>), hear)
BY ProperLine, LineEnds DEF Ends

LEMMA LineBefore ==
    ASSUME NEW hear, NEW of \in Words, of # "ERR", hear.of # of, NEW out, Ends(out, hear)
    PROVE  Ends(Line(of, <<>>) \o out, hear)
<1> DEFINE line == Line(of, <<>>)
<1>1. line \in Seq(Unit) /\ Silent(line, hear) /\ Silent(line, Err[1])
  BY LineSilent, ProperLine DEF Proper
<1> HIDE DEF line
<1>2. out \in Seq(Unit) /\ out # <<>> /\ EndsOnly(out, hear) /\ Silent(out, Err[1])
  BY DEF Ends, Proper
<1>3. EndsOnly(line \o out, hear)
  BY <1>1, <1>2, EndsIt
<1>4. Silent(line \o out, Err[1])
  BY <1>1, <1>2, StaysSilent
<1>5. line \o out \in Seq(Unit) /\ line \o out # <<>>
  BY <1>1, <1>2
<1>6. QED
  BY <1>3, <1>4, <1>5 DEF Ends, Proper, line

Accepting(hear) == hear.of = "ACCEPT GETCHUNKS" /\ hear.at = 2

LEMMA AcceptEnds ==
    ASSUME NEW hear, Accepting(hear)
    PROVE  /\ Ends(Accept, hear) /\ Ends(Time \o Accept, hear)
           /\ Ends(Line("TIME BYTES", <<>>) \o (Time \o Accept), hear)
           /\ Ends(OK \o (Line("CHUNKSIZE", <<>>) \o Accept), hear)
<1>1. /\ "ACCEPT GETCHUNKS" \in Words /\ "TIME" \in Words /\ "TIME BYTES" \in Words
      /\ "OK" \in Words /\ "CHUNKSIZE" \in Words
  BY DEF Words
<1>2. hear.of = "ACCEPT GETCHUNKS" /\ hear.at = 2
  BY DEF Accepting
<1>3. Ends(Accept, hear)
  BY <1>1, <1>2, ProperEnd DEF Accept
<1>4. Ends(Time \o Accept, hear)
  BY <1>1, <1>2, <1>3, LineBefore DEF Time
<1>5. Ends(Line("TIME BYTES", <<>>) \o (Time \o Accept), hear)
  BY <1>1, <1>2, <1>4, LineBefore
<1>6. Ends(Line("CHUNKSIZE", <<>>) \o Accept, hear)
  BY <1>1, <1>2, <1>3, LineBefore
<1>7. Ends(OK \o (Line("CHUNKSIZE", <<>>) \o Accept), hear)
  BY <1>1, <1>2, <1>6, LineBefore DEF OK
<1>8. QED
  BY <1>3, <1>4, <1>5, <1>7

\* A read of a part of a text, that ended at the n-th unit and whose first m have been read.
IsRead(data, rest, text, m, n) ==
    /\ data \in Seq(Unit) /\ rest \in Seq(Unit) /\ Len(data) >= 1
    /\ m + Len(data) <= n /\ n <= Len(text)
    /\ \A i \in 1..Len(data) : data[i] = text[m + i]
    /\ LastOf(data) = text[m + Len(data)]
    /\ FromOn(rest, text, m + Len(data), n)
    /\ rest = <<>> <=> m + Len(data) = n

LEMMA ReadsFrom ==
    ASSUME NEW text \in Seq(Unit), NEW m \in Nat, NEW n \in Nat,
           NEW ch \in Seq(Unit), FromOn(ch, text, m, n),
           NEW space \in Nat, NEW data \in Pieces(ch, space)
    PROVE  /\ IsRead(data, Rest(ch, data), text, m, n)
           /\ Len(Rest(ch, data)) <= Len(ch) /\ Len(data) <= space
<1> DEFINE rest == Rest(ch, data)
           k    == Len(data)
<1>1. /\ data \in Seq(Unit) /\ k \in 1..space /\ k <= Len(ch)
      /\ \A i \in 1..k : data[i] = ch[i]
      /\ rest \in Seq(Unit) /\ Len(rest) = Len(ch) - k
      /\ \A i \in 1..Len(rest) : rest[i] = ch[k + i]
  BY PieceFacts
<1> HIDE DEF rest
<1>2. PICK l \in Nat, r \in Nat : l = Len(ch) /\ r = Len(rest)
  BY <1>1
<1>3. m <= n /\ n <= Len(text) /\ l = n - m /\ \A i \in 1..l : ch[i] = text[m + i]
  BY <1>2 DEF FromOn
<1>4. k \in Nat /\ k >= 1 /\ k <= l /\ r = l - k
  BY <1>1, <1>2
<1>5. m + k <= n /\ r = n - (m + k) /\ r <= l
  BY <1>3, <1>4
<1>6. ASSUME NEW i \in 1..k PROVE data[i] = text[m + i]
  BY <1>1, <1>3, <1>4, <1>6
<1>7. LastOf(data) = text[m + k]
  <2>1. k \in 1..k
    BY <1>4
  <2>2. QED
    BY <1>6, <2>1 DEF LastOf
<1>8. ASSUME NEW i \in 1..r PROVE rest[i] = text[(m + k) + i]
  <2>1. k + i \in 1..l /\ m + (k + i) = (m + k) + i
    BY <1>4, <1>8
  <2>2. rest[i] = ch[k + i]
    BY <1>1, <1>2, <1>8
  <2>3. QED
    BY <1>3, <2>1, <2>2
<1>9. FromOn(rest, text, m + k, n)
  <2>1. PICK p \in Nat : p = m + k
    BY <1>4
  <2>2. p <= n /\ r = n - p /\ \A i \in 1..r : rest[i] = text[p + i]
    BY <1>5, <1>8, <2>1
  <2>3. FromOn(rest, text, p, n)
    BY <1>2, <1>3, <2>2 DEF FromOn
  <2>4. QED
    BY <2>1, <2>3
<1>10. rest = <<>> <=> m + k = n
  <2>1. rest = <<>> <=> r = 0
    BY <1>1, <1>2
  <2>2. r = 0 <=> m + k = n
    BY <1>3, <1>4, <1>5
  <2>3. QED
    BY <2>1, <2>2
<1>11. QED
  BY <1>1, <1>2, <1>3, <1>4, <1>5, <1>6, <1>7, <1>9, <1>10 DEF rest, IsRead

\* A read of a line that is not cut is the line.
LEMMA LineHeard ==
    ASSUME NEW of \in Words \ {"body", "00", "FF"}, NEW arg \in Seq(Nat), NEW n \in Nat,
           NEW ch \in Seq(Unit), FromOn(ch, Line(of, arg), 0, n),
           NEW data \in Pieces(ch, Cap), ~CutsLine(data)
    PROVE  data = Line(of, arg) /\ Rest(ch, data) = <<>> /\ n = 2
<1> DEFINE text == Line(of, arg)
           rest == Rest(ch, data)
<1>1. /\ text \in Seq(Unit) /\ Len(text) = 2 /\ text[1].of = of /\ text[1].at = 1
  BY LineUnits
<1> HIDE DEF text
<1>2. Cap \in Nat /\ FromOn(ch, text, 0, n)
  BY Bounds DEF text
<1>3. IsRead(data, rest, text, 0, n)
  <2>1. \E m \in Nat : m = 0 /\ IsRead(data, rest, text, m, n)
    <3>1. PICK m \in Nat : m = 0
      OBVIOUS
    <3>2. FromOn(ch, text, m, n)
      BY <1>2, <3>1
    <3>3. QED
      BY <1>1, <1>2, <3>1, <3>2, ReadsFrom
  <2>2. QED
    BY <2>1
<1> HIDE DEF rest
<1>4. PICK k \in Nat : k = Len(data)
  BY <1>3 DEF IsRead
<1>5. /\ k >= 1 /\ k <= n /\ n <= 2 /\ data \in Seq(Unit)
      /\ \A i \in 1..k : data[i] = text[i]
      /\ LastOf(data) = text[k]
      /\ rest = <<>> <=> k = n
  <2>1. /\ k >= 1 /\ 0 + k <= n /\ n <= 2 /\ data \in Seq(Unit)
        /\ \A i \in 1..k : data[i] = text[0 + i]
        /\ LastOf(data) = text[0 + k]
        /\ rest = <<>> <=> 0 + k = n
    BY <1>1, <1>3, <1>4 DEF IsRead
  <2>2. QED
    BY <2>1
<1>6. k # 1
  <2>1. SUFFICES ASSUME k = 1 PROVE FALSE
    OBVIOUS
  <2>2. LastOf(data) = text[1]
    BY <1>5, <2>1
  <2>3. QED
    BY <1>1, <2>2 DEF CutsLine
<1>7. k = 2 /\ n = 2
  BY <1>5, <1>6
<1>8. rest = <<>>
  BY <1>5, <1>7
<1>9. data = text
  <2>1. Len(data) = 2 /\ data[1] = text[1] /\ data[2] = text[2]
    BY <1>4, <1>5, <1>7
  <2>2. \A s, t \in Seq(Unit) : Len(s) = 2 /\ Len(t) = 2 /\ s[1] = t[1] /\ s[2] = t[2] => s = t
    OBVIOUS
  <2>3. QED
    BY <1>1, <1>5, <2>1, <2>2
<1>10. QED
  BY <1>7, <1>8, <1>9 DEF rest, text

\* What the task has heard, when it has read a line.
TaskHeard(data, todo) ==
    /\ todo # <<>> /\ data = todo[1].say /\ user.said = Len(todo[1].say)
    /\ Silent(toClient, todo[1].hear)
    /\ \/ TaskTakes(task.at, task.size, user.cmd, todo)
       \/ task.at = "define_stream" /\ todo = Hello
       \/ task.at = "command" /\ Commanding(user.cmd, todo)
IsALine(text) == \E of \in Words \ {"body", "00", "FF"}, arg \in Seq(Nat) : text = Line(of, arg)

LEMMA TurnIsALine ==
    ASSUME CommandsInv, task.at \notin Counting, NEW todo, todo # <<>>,
           \/ TaskTakes(task.at, task.size, user.cmd, todo)
           \/ task.at = "define_stream" /\ todo = Hello
           \/ task.at = "command" /\ Commanding(user.cmd, todo)
    PROVE  IsALine(todo[1].say)
<1>1. ASSUME NEW of \in Words \ {"body", "00", "FF"}, NEW arg \in Seq(Nat),
             todo[1].say = Line(of, arg)
      PROVE  IsALine(todo[1].say)
  BY <1>1 DEF IsALine
<1>2. <<>> \in Seq(Nat)
  BY ArgFacts
<1>3. CASE task.at = "define_stream" /\ todo = Hello
  <2>1. "GET /rmbt" \in Words \ {"body", "00", "FF"}
    BY DEF Words
  <2>2. todo[1].say = Line("GET /rmbt", <<>>)
    BY <1>3, HelloFacts
  <2>3. QED
    BY <1>1, <1>2, <2>1, <2>2
<1>4. CASE task.at = "command" /\ Commanding(user.cmd, todo)
  <2>1. PICK cmd \in Asked : cmd = user.cmd
    BY <1>4, CommandingIs, UserFacts
  <2>2. PICK n \in {1, 2}, size \in Sizes : Opens(todo, user.cmd, n, size)
    BY <1>4, CommandingIs, UserFacts
  <2>3. todo[1].say = Line(cmd, Args(cmd, n, size))
    BY <2>1, <2>2 DEF Opens
  <2>4. Args(cmd, n, size) \in Seq(Nat) /\ cmd \in Words \ {"body", "00", "FF"}
    BY ArgsAre DEF Asked, Words
  <2>5. QED
    BY <1>1, <2>3, <2>4
<1>5. CASE TaskTakes(task.at, task.size, user.cmd, todo)
  <2>1. todo \in {<<Hello[2]>>, <<LastTurn(OK)>>}
    BY <1>5 DEF TaskTakes, Counting
  <2>2. CASE todo = <<Hello[2]>>
    <3>1. "TOKEN" \in Words \ {"body", "00", "FF"}
      BY DEF Words
    <3>2. todo[1].say = Line("TOKEN", <<>>)
      BY <2>2, HelloFacts
    <3>3. QED
      BY <1>1, <1>2, <3>1, <3>2
  <2>3. CASE todo = <<LastTurn(OK)>>
    <3>1. "OK" \in Words \ {"body", "00", "FF"}
      BY DEF Words
    <3>2. LastTurn(OK).say = OK
      BY OkUnits, LastTurnFacts
    <3>3. todo[1].say = Line("OK", <<>>)
      BY <2>3, <3>2 DEF OK
    <3>4. QED
      BY <1>1, <1>2, <3>1, <3>3
  <2>4. QED
    BY <2>1, <2>2, <2>3
<1>6. QED
  BY <1>3, <1>4, <1>5

LEMMA TaskListensTo ==
    ASSUME CommandsInv, server = "tokio", ~splitOk, task.out = <<>>, toServer # <<>>
    PROVE  \E todo \in Agenda : TaskListens(task, user, toServer, toClient, todo)
<1>1. /\ TaskInv /\ toClient \in Seq(Unit)
  BY TaskFacts
<1>2. Unheard = toClient
  BY <1>1 DEF Unheard
<1>3. ~Deserted
  BY DEF Deserted
<1>4. PICK todo \in Agenda : TaskScene(task, user, toServer, toClient, todo)
  BY <1>1, <1>2, <1>3 DEF TaskInv
<1>5. TaskListens(task, user, toServer, toClient, todo)
  BY <1>4 DEF TaskScene, TaskRests, TaskSends, TaskHasSaid
<1>6. QED
  BY <1>5

LEMMA TaskHearsLine ==
    ASSUME CommandsInv, server = "tokio", ~splitOk, task.out = <<>>, task.at \notin Counting,
           NEW data \in Pieces(toServer, Cap), ~CutsLine(data)
    PROVE  Rest(toServer, data) = <<>> /\ \E todo \in Agenda : TaskHeard(data, todo)
<1>1. toServer \in Seq(Unit) /\ user.said \in Nat /\ Cap \in Nat
  BY TaskFacts, UserFacts, Bounds
<1>2. toServer # <<>>
  BY <1>1, PieceFacts
<1>3. PICK todo \in Agenda : TaskListens(task, user, toServer, toClient, todo)
  BY <1>2, TaskListensTo
<1>4. task.got = 0
  BY <1>2, TaskFacts DEF TaskInv, Deserted
<1>5. /\ todo # <<>> /\ Silent(toClient, todo[1].hear)
      /\ \/ TaskTakes(task.at, task.size, user.cmd, todo)
         \/ task.at = "define_stream" /\ todo = Hello
         \/ task.at = "command" /\ Commanding(user.cmd, todo)
      /\ FromOn(toServer, todo[1].say, 0 + task.got, user.said)
  BY <1>3 DEF TaskListens
<1>6. FromOn(toServer, todo[1].say, 0, user.said)
  <2>1. 0 + task.got = 0
    BY <1>4
  <2>2. QED
    BY <1>5, <2>1
<1>7. IsALine(todo[1].say)
  BY <1>5, TurnIsALine
<1>8. PICK of \in Words \ {"body", "00", "FF"}, arg \in Seq(Nat) : todo[1].say = Line(of, arg)
  BY <1>7 DEF IsALine
<1>9. data = Line(of, arg) /\ Rest(toServer, data) = <<>> /\ user.said = 2
  BY <1>1, <1>6, <1>8, LineHeard
<1>10. Len(todo[1].say) = 2
  BY <1>8, LineUnits
<1>11. TaskHeard(data, todo)
  BY <1>5, <1>8, <1>9, <1>10 DEF TaskHeard
<1>12. QED
  BY <1>9, <1>11

\* A line was read: what the task makes of a whole one decides.
LEMMA TaskTurns ==
    ASSUME CommandsInv, server = "tokio", UNCHANGED <<server, srv, user, gone, toClient>>,
           task.out = <<>>, task.at \notin Counting,
           NEW data \in Pieces(toServer, Cap), toServer' = Rest(toServer, data),
           splitOk' = (splitOk \/ CutsLine(data)),
           task' \in TaskState, task'.got = 0,
           \A todo \in Agenda : ~splitOk /\ ~CutsLine(data) /\ TaskHeard(data, todo) =>
               /\ Silent(task'.out, Err[1])
               /\ TaskScene(task', user, <<>>, toClient \o task'.out, todo)
    PROVE  CommandsInv'
<1>1. /\ toServer \in Seq(Unit) /\ Len(toServer) <= Cap /\ splitOk \in BOOLEAN /\ Cap \in Nat
  BY TaskFacts, Bounds
<1>2. /\ toServer' \in Seq(Unit) /\ Len(toServer') <= Cap
  BY <1>1, PieceFacts
<1>3. splitOk' \in BOOLEAN /\ (splitOk => splitOk')
  BY <1>1 DEF CutsLine
<1>4. task'.got <= task'.size
  <2>1. task'.size \in 0..MaxChunk
    BY DEF TaskState
  <2>2. QED
    BY <2>1, Bounds
<1>5. ASSUME ~splitOk'
      PROVE  /\ Silent(task'.out, Err[1])
             /\ \E todo \in Agenda : TaskScene(task', user, toServer', toClient \o task'.out, todo)
  <2>1. ~splitOk /\ ~CutsLine(data)
    BY <1>5
  <2>2. Rest(toServer, data) = <<>> /\ \E todo \in Agenda : TaskHeard(data, todo)
    BY <2>1, TaskHearsLine
  <2>3. QED
    BY <2>1, <2>2
<1>6. QED
  BY <1>2, <1>3, <1>4, <1>5, TaskAnswers
-----------------------------------------------------------------------------
(* The handlers of the tokio server that read a line.                      *)

Places == TaskReading \cup {"get_time", "end"}

LEMMA TaskSaysIs ==
    ASSUME task \in TaskState, NEW out \in Seq(Unit), NEW p \in Places
    PROVE  /\ TaskSays(out, p) \in TaskState /\ TaskSays(out, p).out = out
           /\ TaskSays(out, p).at = p /\ TaskSays(out, p).size = task.size
           /\ TaskSays(out, p).got = task.got /\ TaskSays(out, p).over = task.over
           /\ TaskSays(out, p).status = task.status
BY DEF TaskSays, TaskState, Places

LEMMA TaskEndedIs ==
    ASSUME task \in TaskState
    PROVE  /\ TaskEnded \in TaskState /\ TaskEnded.out = task.out
           /\ TaskEnded.at = task.at /\ TaskEnded.size = task.size
           /\ TaskEnded.got = task.got
BY DEF TaskEnded, TaskState

LEMMA NothingCounted ==
    ASSUME CommandsInv, server = "tokio", task.at \notin Counting,
           NEW space \in Nat, NEW data \in Pieces(toServer, space)
    PROVE  task.got = 0
<1>1. toServer # <<>>
  BY TaskFacts, PieceFacts
<1>2. QED
  BY <1>1, TaskFacts DEF TaskInv, Deserted

LEMMA TaskSpeaks ==
    ASSUME CommandsInv, server = "tokio", NEW data, NEW todo \in Agenda, TaskHeard(data, todo),
           NEW t, t.got = 0, Ends(t.out, todo[1].hear),
           TaskTakes(t.at, t.size, user.cmd, Tail(todo))
    PROVE  /\ Silent(t.out, Err[1])
           /\ TaskScene(t, user, <<>>, toClient \o t.out, todo)
<1>1. /\ t.out \in Seq(Unit) /\ t.out # <<>> /\ EndsOnly(t.out, todo[1].hear)
      /\ Silent(t.out, Err[1])
  BY DEF Ends, Proper
<1>2. toClient \in Seq(Unit) /\ Silent(toClient, todo[1].hear)
  BY TaskFacts DEF TaskHeard
<1>3. EndsOnly(toClient \o t.out, todo[1].hear)
  BY <1>1, <1>2, EndsIt
<1>4. TaskHasSaid(t, user, <<>>, toClient \o t.out, todo)
  BY <1>3 DEF TaskHasSaid, TaskHeard
<1>5. QED
  BY <1>1, <1>4 DEF TaskScene

LEMMA GreetingEnds ==
    ASSUME NEW hear, hear.of = "ACCEPT TOKEN", hear.at = 2
    PROVE  Ends(Greeting, hear) /\ Ends(Line("UPGRADE", <<>>) \o Greeting, hear)
<1>1. "UPGRADE" \in Words /\ "RMBT" \in Words /\ "ACCEPT TOKEN" \in Words
  BY DEF Words
<1>2. Ends(Line("ACCEPT TOKEN", <<>>), hear)
  BY <1>1, ProperEnd
<1>3. Ends(Greeting, hear)
  BY <1>1, <1>2, LineBefore DEF Greeting
<1>4. QED
  BY <1>1, <1>3, LineBefore

LEMMA EndsTyped == ASSUME NEW out, NEW hear, Ends(out, hear) PROVE out \in Seq(Unit)
BY DEF Ends, Proper

LEMMA DefinesStream ==
    ASSUME CommandsInv, server = "tokio", UNCHANGED <<server, srv, user>>, define_stream
    PROVE  CommandsInv'
<1>1. PICK data \in Pieces(toServer, Cap) :
        /\ TaskAt("define_stream") /\ toServer' = Rest(toServer, data)
        /\ splitOk' = (splitOk \/ CutsLine(data)) /\ UNCHANGED <<toClient, gone>>
        /\ \/ task' = TaskSays(Line("UPGRADE", <<>>) \o Greeting, "handle_token")
           \/ ~EndsLine(data) /\ task' \in {TaskSays(Greeting, "handle_token"), TaskEnded}
  BY DEF define_stream, TaskReads
<1>2. /\ task \in TaskState /\ task.out = <<>> /\ task.at = "define_stream"
      /\ task.at \notin Counting /\ Cap \in Nat
  BY <1>1, TaskFacts, Bounds DEF TaskAt, Counting
<1>3. task.got = 0
  BY <1>2, NothingCounted
<1>4. PICK hear \in Unit : hear.of = "ACCEPT TOKEN" /\ hear.at = 2
  <2>1. [of |-> "ACCEPT TOKEN", at |-> 2, arg |-> <<>>] \in Unit
    BY ArgFacts DEF Unit, Words
  <2>2. QED
    BY <2>1
<1>5. /\ Greeting \in Seq(Unit) /\ Line("UPGRADE", <<>>) \o Greeting \in Seq(Unit)
      /\ "handle_token" \in Places
  BY <1>4, GreetingEnds, EndsTyped DEF Places, TaskReading
<1>6. task' \in TaskState /\ task'.got = 0
  <2>1. ASSUME NEW out \in Seq(Unit), task' = TaskSays(out, "handle_token")
        PROVE  task' \in TaskState /\ task'.got = 0
    BY <1>2, <1>3, <1>5, <2>1, TaskSaysIs
  <2>2. ASSUME task' = TaskEnded
        PROVE  task' \in TaskState /\ task'.got = 0
    BY <1>2, <1>3, <2>2, TaskEndedIs
  <2>3. QED
    BY <1>1, <1>5, <2>1, <2>2
<1>7. ASSUME NEW todo \in Agenda, TaskHeard(data, todo)
      PROVE  /\ Silent(task'.out, Err[1])
             /\ TaskScene(task', user, <<>>, toClient \o task'.out, todo)
  <2>1. todo = Hello
    BY <1>2, <1>7 DEF TaskHeard, TaskTakes, Counting
  <2>2. data = Line("GET /rmbt", <<>>)
    BY <1>7, <2>1, HelloFacts DEF TaskHeard
  <2>3. EndsLine(data)
    <3>1. "GET /rmbt" \in Words
      BY DEF Words
    <3>2. Len(data) = 2 /\ data[2].at = 2 /\ data \in Seq(Unit)
      BY <2>2, <3>1, ArgFacts, LineUnits
    <3>3. QED
      BY <3>2 DEF EndsLine, LastOf
  <2>4. task' = TaskSays(Line("UPGRADE", <<>>) \o Greeting, "handle_token")
    BY <1>1, <2>3
  <2>5. task'.at = "handle_token" /\ task'.out = Line("UPGRADE", <<>>) \o Greeting
    BY <1>2, <1>5, <2>4, TaskSaysIs
  <2>6. Ends(task'.out, todo[1].hear) /\ Tail(todo) = <<Hello[2]>>
    BY <2>1, <2>5, HelloFacts, GreetingEnds
  <2>7. TaskTakes(task'.at, task'.size, user.cmd, Tail(todo))
    BY <2>5, <2>6 DEF TaskTakes, Counting
  <2>8. QED
    BY <1>6, <1>7, <2>6, <2>7, TaskSpeaks
<1>8. QED
  BY <1>1, <1>2, <1>6, <1>7, TaskTurns

LEMMA HandlesToken ==
    ASSUME CommandsInv, server = "tokio", UNCHANGED <<server, srv, user>>, handle_token
    PROVE  CommandsInv'
<1> DEFINE out == OK \o Line("CHUNKSIZE", <<>>) \o Accept
<1>1. PICK data \in Pieces(toServer, Cap) :
        /\ TaskAt("handle_token") /\ toServer' = Rest(toServer, data)
        /\ splitOk' = (splitOk \/ CutsLine(data)) /\ UNCHANGED <<toClient, gone>>
        /\ task' = TaskSays(out, "command")
  BY DEF handle_token, TaskReads
<1>2. /\ task \in TaskState /\ task.out = <<>> /\ task.at = "handle_token"
      /\ task.at \notin Counting /\ Cap \in Nat
  BY <1>1, TaskFacts, Bounds DEF TaskAt, Counting
<1>3. task.got = 0
  BY <1>2, NothingCounted
<1>4. out = OK \o (Line("CHUNKSIZE", <<>>) \o Accept)
  <2>1. Line("CHUNKSIZE", <<>>) \in Seq(Unit)
    <3>1. "CHUNKSIZE" \in Words
      BY DEF Words
    <3>2. QED
      BY <3>1, ArgFacts, LineUnits
  <2>2. QED
    BY <2>1, OkUnits, AcceptUnits, JoinThree
<1> HIDE DEF out
<1>5. out \in Seq(Unit) /\ "command" \in Places
  <2>1. Accepting(Accept[2])
    BY AcceptUnits DEF Accepting
  <2>2. Ends(out, Accept[2])
    BY <1>4, <2>1, AcceptEnds
  <2>3. QED
    BY <2>2, EndsTyped DEF Places, TaskReading
<1>6. /\ task' \in TaskState /\ task'.got = 0 /\ task'.at = "command" /\ task'.out = out
  BY <1>1, <1>2, <1>3, <1>5, TaskSaysIs
<1>7. ASSUME NEW todo \in Agenda, TaskHeard(data, todo)
      PROVE  /\ Silent(task'.out, Err[1])
             /\ TaskScene(task', user, <<>>, toClient \o task'.out, todo)
  <2>1. todo = <<Hello[2]>>
    BY <1>2, <1>7 DEF TaskHeard, TaskTakes, Counting
  <2>2. Tail(todo) = <<>> /\ Accepting(todo[1].hear)
    BY <2>1, HelloFacts, Lists DEF Accepting
  <2>3. Ends(task'.out, todo[1].hear)
    BY <1>4, <1>6, <2>2, AcceptEnds
  <2>4. TaskTakes(task'.at, task'.size, user.cmd, Tail(todo))
    BY <1>6, <2>2 DEF TaskTakes, Counting
  <2>5. QED
    BY <1>6, <1>7, <2>3, <2>4, TaskSpeaks
<1>8. QED
  BY <1>1, <1>2, <1>6, <1>7, TaskTurns

\* OK is awaited after what was asked for, and what comes then is the next command.
LEMMA TaskAwaits ==
    ASSUME CommandsInv, server = "tokio", UNCHANGED <<server, srv, user>>,
           NEW p \in {"get_chunks_ok", "ping_ok", "get_time_ok"}, AwaitsOk(p)
    PROVE  CommandsInv'
<1>1. PICK data \in Pieces(toServer, Cap) :
        /\ TaskAt(p) /\ toServer' = Rest(toServer, data)
        /\ splitOk' = (splitOk \/ CutsLine(data)) /\ UNCHANGED <<toClient, gone>>
        /\ \/ task' = TaskSays(Time \o Accept, "command")
           \/ data # OK /\ task' = TaskEnded
  BY DEF AwaitsOk, TaskReads
<1>2. /\ task \in TaskState /\ task.out = <<>> /\ task.at = p
      /\ task.at \notin Counting /\ Cap \in Nat
  BY <1>1, TaskFacts, Bounds DEF TaskAt, Counting
<1>3. task.got = 0
  BY <1>2, NothingCounted
<1>4. Accepting(Accept[2])
  BY AcceptUnits DEF Accepting
<1>5. Time \o Accept \in Seq(Unit) /\ "command" \in Places
  BY <1>4, AcceptEnds, EndsTyped DEF Places, TaskReading
<1>6. task' \in TaskState /\ task'.got = 0
  <2>1. ASSUME NEW out \in Seq(Unit), task' = TaskSays(out, "command")
        PROVE  task' \in TaskState /\ task'.got = 0
    BY <1>2, <1>3, <1>5, <2>1, TaskSaysIs
  <2>2. ASSUME task' = TaskEnded
        PROVE  task' \in TaskState /\ task'.got = 0
    BY <1>2, <1>3, <2>2, TaskEndedIs
  <2>3. QED
    BY <1>1, <1>5, <2>1, <2>2
<1>7. ASSUME NEW todo \in Agenda, TaskHeard(data, todo)
      PROVE  /\ Silent(task'.out, Err[1])
             /\ TaskScene(task', user, <<>>, toClient \o task'.out, todo)
  <2>1. todo = <<LastTurn(OK)>>
    BY <1>2, <1>7 DEF TaskHeard, TaskTakes, Counting
  <2>2. data = OK /\ Tail(todo) = <<>> /\ Accepting(todo[1].hear)
    <3>1. /\ LastTurn(OK) \in Turns /\ LastTurn(OK).say = OK /\ Accepting(LastTurn(OK).hear)
      BY OkUnits, LastTurnFacts DEF Accepting
    <3>2. QED
      BY <1>7, <2>1, <3>1, Lists DEF TaskHeard
  <2>3. task' = TaskSays(Time \o Accept, "command")
    BY <1>1, <2>2
  <2>4. task'.at = "command" /\ task'.out = Time \o Accept
    BY <1>2, <1>5, <2>3, TaskSaysIs
  <2>5. Ends(task'.out, todo[1].hear)
    BY <2>2, <2>4, AcceptEnds
  <2>6. TaskTakes(task'.at, task'.size, user.cmd, Tail(todo))
    BY <2>2, <2>4 DEF TaskTakes, Counting
  <2>7. QED
    BY <1>6, <1>7, <2>5, <2>6, TaskSpeaks
<1>8. QED
  BY <1>1, <1>2, <1>6, <1>7, TaskTurns
-----------------------------------------------------------------------------
(* The commands of the tokio server.                                       *)

LEMMA ChunkIndex ==
    /\ \A n, size \in Nat : n * size \in Nat
    /\ \A i \in Nat, size \in Nat \ {0} : i % size \in Nat /\ i % size < size
    /\ \A i \in Nat, size \in Nat \ {0} : i < size => i % size = i /\ (size + i) % size = i
    /\ \A size \in Nat : 1 * size = size /\ 2 * size = size + size
OBVIOUS

LEMMA AllChunksFacts ==
    ASSUME NEW n \in Nat, NEW size \in MinChunk..MaxChunk
    PROVE  /\ Len(AllChunks(n, size)) = n * size /\ Proper(AllChunks(n, size))
           /\ \A i \in 1..(n * size) :
                 /\ AllChunks(n, size)[i].at = 1
                 /\ AllChunks(n, size)[i].of = "FF" <=> /\ i > (n - 1) * size
                                                        /\ ((i - 1) % size) + 1 = size
<1>1. size \in Nat /\ size >= 2 /\ size \in Nat \ {0}
  BY Bounds
<1>2. PICK all \in Nat : all = n * size
  BY <1>1, ChunkIndex
<1> DEFINE last(i) == i > (n - 1) * size
           at(i)   == ((i - 1) % size) + 1
           unit(i) == Chunk(size, last(i))[at(i)]
<1>3. AllChunks(n, size) = [i \in 1..all |-> unit(i)]
  BY <1>2 DEF AllChunks
<1>4. ASSUME NEW i \in 1..all
      PROVE  last(i) \in BOOLEAN /\ at(i) \in 1..size
  <2>1. PICK j \in Nat : i = j + 1
    <3>1. i - 1 \in Nat /\ i = (i - 1) + 1
      BY <1>2
    <3>2. QED
      BY <3>1
  <2>2. i - 1 = j
    BY <2>1
  <2>3. j % size \in Nat /\ j % size < size
    BY <1>1, ChunkIndex
  <2>4. at(i) \in 1..size
    BY <1>1, <2>2, <2>3
  <2>5. QED
    BY <2>4
<1>5. ASSUME NEW i \in 1..all
      PROVE  /\ unit(i) \in Unit /\ unit(i).at = 1 /\ unit(i).of \in {"body", "00", "FF"}
             /\ unit(i).of = "FF" <=> last(i) /\ at(i) = size
  <2> DEFINE l == last(i)
             k == at(i)
  <2>1. l \in BOOLEAN /\ k \in 1..size
    BY <1>4
  <2> HIDE DEF l, k
  <2>2. /\ Chunk(size, l) \in Seq(Unit) /\ Len(Chunk(size, l)) = size
        /\ Chunk(size, l)[k].at = 1 /\ Chunk(size, l)[k].of \in {"body", "00", "FF"}
        /\ Chunk(size, l)[k].of = "FF" <=> k = size /\ l
    BY <1>1, <2>1, ChunkUnits
  <2>3. Chunk(size, l)[k] \in Unit
    BY <2>1, <2>2
  <2>4. QED
    BY <2>1, <2>2, <2>3 DEF l, k
<1> HIDE DEF unit, at
<1> DEFINE ac == AllChunks(n, size)
<1>6. ac \in Seq(Unit) /\ Len(ac) = all /\ \A i \in 1..all : ac[i] = unit(i)
  BY <1>3, <1>5
<1> HIDE DEF ac
<1>7. Silent(ac, Err[1])
  BY <1>5, <1>6, ErrUnits DEF Silent, SameUnit
<1>8. \A i \in 1..all :
            ac[i].at = 1 /\ (ac[i].of = "FF" <=> last(i) /\ at(i) = size)
  BY <1>5, <1>6
<1>9. QED
  BY <1>2, <1>6, <1>7, <1>8 DEF Proper, ac, at

LEMMA AllChunksEnd ==
    ASSUME NEW n \in {1, 2}, NEW size \in Sizes, NEW hear, hear.of = "FF", hear.at = 1
    PROVE  Ends(AllChunks(n, size), hear)
<1>1. size \in Nat /\ size >= 2 /\ size \in MinChunk..MaxChunk /\ size \in Nat \ {0} /\ n \in Nat
  BY SizeFacts, Bounds
<1>2. /\ 1 * size = size /\ 2 * size = size + size /\ (1 - 1) * size = 0 /\ (2 - 1) * size = size
      /\ \A i \in Nat : i < size => i % size = i /\ (size + i) % size = i
  BY <1>1, ChunkIndex
<1>3. PICK all \in Nat, before \in Nat :
         all = n * size /\ before = (n - 1) * size /\ all = before + size
  BY <1>1, <1>2
<1>4. before \in {0, size}
  BY <1>2, <1>3
<1> DEFINE ac == AllChunks(n, size)
<1>5. /\ Len(ac) = all /\ Proper(ac)
      /\ \A i \in 1..all :
            ac[i].at = 1 /\ (ac[i].of = "FF" <=> i > before /\ ((i - 1) % size) + 1 = size)
  BY ZenonT(30), <1>1, <1>3, AllChunksFacts
<1> HIDE DEF ac
<1>6. ASSUME NEW i \in 1..all PROVE i > before /\ ((i - 1) % size) + 1 = size <=> i = all
  <2>1. CASE i > before
    <3>1. PICK j \in Nat : i = before + j /\ j >= 1 /\ j <= size
      <4>1. i - before \in Nat /\ i = before + (i - before)
        BY <1>3, <2>1
      <4>2. i - before >= 1 /\ i - before <= size
        BY <1>1, <1>3, <2>1
      <4>3. QED
        BY <4>1, <4>2
    <3>2. PICK h \in Nat : h = j - 1 /\ h < size
      BY <1>1, <3>1
    <3>3. i - 1 = before + h
      BY <1>3, <3>1, <3>2
    <3>4. (i - 1) % size = h
      <4>1. i - 1 = h \/ i - 1 = size + h
        BY <1>1, <1>4, <3>2, <3>3
      <4>2. QED
        BY <1>2, <3>2, <4>1
    <3>5. QED
      BY <1>1, <1>3, <2>1, <3>1, <3>2, <3>4
  <2>2. CASE ~(i > before)
    BY <1>1, <1>3, <2>2
  <2>3. QED
    BY <2>1, <2>2
<1>7. all >= 2 /\ ac \in Seq(Unit)
  BY <1>1, <1>3, <1>5 DEF Proper
<1>8. SameUnit(LastOf(ac), hear)
  <2>1. ac[all].at = 1 /\ ac[all].of = "FF"
    BY <1>5, <1>6, <1>7
  <2>2. QED
    BY <1>5, <2>1 DEF SameUnit, LastOf
<1>9. \A i \in 1..(all - 1) : ~SameUnit(ac[i], hear)
  BY <1>5, <1>6 DEF SameUnit
<1>10. EndsOnly(ac, hear)
  BY <1>5, <1>8, <1>9 DEF EndsOnly
<1>11. ac # <<>>
  BY <1>5, <1>7
<1>12. QED
  BY <1>5, <1>10, <1>11 DEF Ends, ac

LEMMA ErrAccepts == Err \o Accept \in Seq(Unit) /\ Err \in Seq(Unit)
<1>1. Err \in Seq(Unit) /\ Accept \in Seq(Unit)
  BY ErrUnits, AcceptUnits
<1>2. QED
  BY <1>1, JoinOf

LEMMA TaskSizeIs ==
    ASSUME NEW arg \in Seq(Nat), NEW i \in {1, 2}
    PROVE  TaskSize(arg, i) \in Nat
<1>1. CASE Len(arg) < i
  BY <1>1, Bounds DEF TaskSize
<1>2. CASE ~(Len(arg) < i)
  <2>1. i \in 1..Len(arg)
    BY <1>2
  <2>2. QED
    BY <1>2, <2>1 DEF TaskSize
<1>3. QED
  BY <1>1, <1>2

LEMMA TaskPutIs ==
    ASSUME task \in TaskState, NEW arg \in Seq(Nat), NEW p \in Counting
    PROVE  /\ TaskPut(arg, p) \in TaskState
           /\ task.got = 0 => TaskPut(arg, p).got = 0
           /\ InRange(TaskSize(arg, 1)) =>
                 /\ TaskPut(arg, p).out = OK /\ TaskPut(arg, p).at = p
                 /\ TaskPut(arg, p).size = TaskSize(arg, 1)
<1>1. OK \in Seq(Unit) /\ Err \in Seq(Unit) /\ p \in Places /\ "end" \in Places
  BY OkUnits, ErrAccepts DEF Places, Counting, TaskReading
<1> DEFINE size == TaskSize(arg, 1)
           said == TaskSays(OK, p)
<1>2. said \in TaskState /\ said.out = OK /\ said.at = p
  BY <1>1, TaskSaysIs
<1>3. size \in Nat
  BY TaskSizeIs
<1> HIDE DEF size, said
<1>4. CASE InRange(size)
  <2>1. size \in 0..MaxChunk
    BY <1>3, <1>4, Bounds DEF InRange
  <2>2. TaskPut(arg, p) = [said EXCEPT !.size = size, !.got = 0]
    BY <1>4 DEF TaskPut, size, said
  <2>3. /\ [said EXCEPT !.size = size, !.got = 0] \in TaskState
        /\ [said EXCEPT !.size = size, !.got = 0].got = 0
        /\ [said EXCEPT !.size = size, !.got = 0].size = size
        /\ [said EXCEPT !.size = size, !.got = 0].out = OK
        /\ [said EXCEPT !.size = size, !.got = 0].at = p
    BY <1>2, <2>1 DEF TaskState
  <2>4. QED
    BY <2>2, <2>3 DEF size
<1>5. CASE ~InRange(size)
  <2>1. TaskPut(arg, p) = TaskSays(Err, "end")
    BY <1>5 DEF TaskPut, size
  <2>2. TaskSays(Err, "end") \in TaskState /\ TaskSays(Err, "end").got = task.got
    BY <1>1, TaskSaysIs
  <2>3. QED
    BY <1>5, <2>1, <2>2 DEF size
<1>6. QED
  BY <1>4, <1>5

LEMMA TaskGetTimeIs ==
    ASSUME task \in TaskState, NEW arg \in Seq(Nat)
    PROVE  /\ TaskGetTime(arg) \in TaskState /\ TaskGetTime(arg).got = task.got
           /\ InRange(TaskSize(arg, 1)) =>
                 /\ TaskGetTime(arg).out = <<>> /\ TaskGetTime(arg).at = "get_time"
                 /\ TaskGetTime(arg).size = TaskSize(arg, 1)
<1>1. /\ Err \o Accept \in Seq(Unit) /\ <<>> \in Seq(Unit)
      /\ "get_time" \in Places /\ "command" \in Places
  BY ErrAccepts, EmptyUnits DEF Places, TaskReading
<1> DEFINE size == TaskSize(arg, 1)
           said == TaskSays(<<>>, "get_time")
<1>2. said \in TaskState /\ said.out = <<>> /\ said.at = "get_time" /\ said.got = task.got
  <2>1. PICK none \in Seq(Unit) : none = <<>>
    BY Zenon, EmptyUnits
  <2>2. /\ TaskSays(none, "get_time") \in TaskState /\ TaskSays(none, "get_time").out = none
        /\ TaskSays(none, "get_time").at = "get_time"
        /\ TaskSays(none, "get_time").got = task.got
    BY <1>1, TaskSaysIs
  <2>3. QED
    BY <2>1, <2>2
<1>3. size \in Nat
  BY TaskSizeIs
<1> HIDE DEF size, said
<1>4. CASE InRange(size)
  <2>1. size \in 0..MaxChunk
    BY <1>3, <1>4, Bounds DEF InRange
  <2>2. TaskGetTime(arg) = [said EXCEPT !.size = size, !.over = FALSE]
    BY <1>4 DEF TaskGetTime, size, said
  <2>3. /\ [said EXCEPT !.size = size, !.over = FALSE] \in TaskState
        /\ [said EXCEPT !.size = size, !.over = FALSE].got = said.got
        /\ [said EXCEPT !.size = size, !.over = FALSE].size = size
        /\ [said EXCEPT !.size = size, !.over = FALSE].out = said.out
        /\ [said EXCEPT !.size = size, !.over = FALSE].at = said.at
    BY <1>2, <2>1 DEF TaskState
  <2>4. QED
    BY <1>2, <2>2, <2>3 DEF size
<1>5. CASE ~InRange(size)
  <2>1. TaskGetTime(arg) = TaskSays(Err \o Accept, "command")
    BY <1>5 DEF TaskGetTime, size
  <2>2. /\ TaskSays(Err \o Accept, "command") \in TaskState
        /\ TaskSays(Err \o Accept, "command").got = task.got
    BY <1>1, TaskSaysIs
  <2>3. QED
    BY <1>5, <2>1, <2>2 DEF size
<1>6. QED
  BY <1>4, <1>5

LEMMA TaskGetChunksIs ==
    ASSUME task \in TaskState, NEW arg \in Seq(Nat)
    PROVE  /\ TaskGetChunks(arg) \in TaskState /\ TaskGetChunks(arg).got = task.got
           /\ arg # <<>> /\ arg[1] > 0 /\ InRange(TaskSize(arg, 2)) =>
                 /\ TaskGetChunks(arg).out = AllChunks(arg[1], TaskSize(arg, 2))
                 /\ TaskGetChunks(arg).at = "get_chunks_ok"
<1>1. /\ Err \o Accept \in Seq(Unit)
      /\ "get_chunks_ok" \in Places /\ "command" \in Places
  BY ErrAccepts DEF Places, TaskReading
<1> DEFINE size == TaskSize(arg, 2)
<1>2. CASE arg # <<>> /\ arg[1] > 0 /\ InRange(size)
  <2>1. TaskGetChunks(arg) = TaskSays(AllChunks(arg[1], size), "get_chunks_ok")
    BY <1>2 DEF TaskGetChunks
  <2>2. arg[1] \in Nat /\ size \in MinChunk..MaxChunk
    BY <1>2 DEF InRange
  <2> HIDE DEF size
  <2>3. AllChunks(arg[1], size) \in Seq(Unit)
    BY <2>2, AllChunksFacts DEF Proper
  <2>4. /\ TaskGetChunks(arg) \in TaskState /\ TaskGetChunks(arg).got = task.got
        /\ TaskGetChunks(arg).out = AllChunks(arg[1], size)
        /\ TaskGetChunks(arg).at = "get_chunks_ok"
    BY <1>1, <2>1, <2>3, TaskSaysIs
  <2>5. QED
    BY <2>4 DEF size
<1>3. CASE ~(arg # <<>> /\ arg[1] > 0 /\ InRange(size))
  <2>1. TaskGetChunks(arg) = TaskSays(Err \o Accept, "command")
    BY <1>3 DEF TaskGetChunks
  <2>2. /\ TaskSays(Err \o Accept, "command") \in TaskState
        /\ TaskSays(Err \o Accept, "command").got = task.got
    BY <1>1, TaskSaysIs
  <2>3. QED
    BY <1>3, <2>1, <2>2
<1>4. QED
  BY <1>2, <1>3

\* Whatever the line, the task is in a state.
LEMMA TaskCommandTyped ==
    ASSUME task \in TaskState, task.got = 0, NEW cmd, NEW arg \in Seq(Nat)
    PROVE  TaskCommand(cmd, arg) \in TaskState /\ TaskCommand(cmd, arg).got = 0
<1>1. /\ TaskPut(arg, "put_no_result") \in TaskState /\ TaskPut(arg, "put_no_result").got = 0
      /\ TaskPut(arg, "put") \in TaskState /\ TaskPut(arg, "put").got = 0
  BY TaskPutIs DEF Counting
<1>2. /\ TaskGetTime(arg) \in TaskState /\ TaskGetTime(arg).got = 0
      /\ TaskGetChunks(arg) \in TaskState /\ TaskGetChunks(arg).got = 0
  BY TaskGetTimeIs, TaskGetChunksIs
<1>3. ASSUME NEW out \in Seq(Unit), NEW p \in {"ping_ok", "end", "command"}
      PROVE  TaskSays(out, p) \in TaskState /\ TaskSays(out, p).got = 0
  <2>1. p \in Places
    BY DEF Places, TaskReading
  <2>2. QED
    BY <2>1, TaskSaysIs
<1>4. Line("PONG", <<>>) \in Seq(Unit) /\ Line("BYE", <<>>) \in Seq(Unit)
  <2>1. "PONG" \in Words /\ "BYE" \in Words
    BY DEF Words
  <2>2. QED
    BY <2>1, ArgFacts, LineUnits
<1>5. /\ TaskSays(Line("PONG", <<>>), "ping_ok") \in TaskState
      /\ TaskSays(Line("PONG", <<>>), "ping_ok").got = 0
      /\ TaskSays(Line("BYE", <<>>), "end") \in TaskState
      /\ TaskSays(Line("BYE", <<>>), "end").got = 0
  BY <1>3, <1>4
<1>6. /\ TaskSays(Err \o Accept, "command") \in TaskState
      /\ TaskSays(Err \o Accept, "command").got = 0
  BY <1>3, ErrAccepts
<1>7. QED
  BY <1>1, <1>2, <1>5, <1>6 DEF TaskCommand

LEMMA CutCommandTyped ==
    ASSUME task \in TaskState, task.got = 0, NEW line \in Unit, NEW t \in CutCommand(line)
    PROVE  t \in TaskState /\ t.got = 0
<1>1. line.arg \in Seq(Nat) /\ <<>> \in Seq(Nat)
  BY ArgFacts DEF Unit
<1>2. \E cmd : \E arg \in Seq(Nat) : t = TaskCommand(cmd, arg)
  <2>1. CASE t \in {TaskCommand("part", <<>>), TaskCommand(line.of, <<>>)}
    BY <1>1, <2>1
  <2>2. CASE t \in {TaskCommand("PUT", <<>>) : up \in {line.of} \cap {"PUTNORESULT", "PUTTIMERESULT"}}
    BY <1>1, <2>2
  <2>3. ASSUME NEW i \in DOMAIN line.arg, NEW size \in 0..line.arg[i],
               t = TaskCommand(line.of, SubSeq(line.arg, 1, i - 1) \o <<size>>)
        PROVE  \E cmd : \E arg \in Seq(Nat) : t = TaskCommand(cmd, arg)
    <3>1. i \in 1..Len(line.arg) /\ line.arg[i] \in Nat
      BY <1>1
    <3>2. size \in Nat
      BY <3>1
    <3>3. SubSeq(line.arg, 1, i - 1) \in Seq(Nat)
      BY <1>1, <3>1
    <3>4. SubSeq(line.arg, 1, i - 1) \o <<size>> \in Seq(Nat)
      BY <3>2, <3>3
    <3>5. QED
      BY <2>3, <3>4
  <2>4. QED
    BY ZenonT(30), <2>1, <2>2, <2>3 DEF CutCommand
<1>3. QED
  BY <1>2, TaskCommandTyped

LEMMA ArgsSize ==
    ASSUME NEW cmd \in Asked, cmd \notin {"PING", "QUIT"}, NEW n \in {1, 2}, NEW size \in Sizes,
           NEW arg, arg = Args(cmd, n, size)
    PROVE  /\ InRange(size)
           /\ cmd # "GETCHUNKS" => TaskSize(arg, 1) = size
           /\ cmd = "GETCHUNKS" => /\ arg # <<>> /\ arg[1] = n /\ arg[1] > 0
                                   /\ TaskSize(arg, 2) = size
<1>1. size \in Nat /\ size \in MinChunk..MaxChunk
  BY SizeFacts, Bounds
<1>2. CASE cmd # "GETCHUNKS"
  <2>1. arg = <<size>>
    BY <1>2 DEF Args
  <2>2. Len(arg) = 1 /\ arg[1] = size
    BY <2>1
  <2>3. QED
    BY <1>1, <1>2, <2>2 DEF TaskSize, InRange
<1>3. CASE cmd = "GETCHUNKS"
  <2>1. arg = <<n, size>>
    BY <1>3 DEF Args
  <2>2. Len(arg) = 2 /\ arg[1] = n /\ arg[2] = size /\ arg # <<>>
    BY <2>1
  <2>3. QED
    BY <1>1, <1>3, <2>2 DEF TaskSize, InRange
<1>4. QED
  BY <1>2, <1>3

\* What the task does with a whole command.
LEMMA TaskObeys ==
    ASSUME CommandsInv, server = "tokio", NEW data, NEW todo \in Agenda, TaskHeard(data, todo),
           NEW cmd \in Asked, cmd = user.cmd, NEW n \in {1, 2}, NEW size \in Sizes,
           Opens(todo, cmd, n, size),
           NEW t, t = TaskCommand(cmd, Args(cmd, n, size)), t.got = 0
    PROVE  /\ Silent(t.out, Err[1])
           /\ TaskScene(t, user, <<>>, toClient \o t.out, todo)
<1> DEFINE arg  == Args(cmd, n, size)
           hear == todo[1].hear
           rest == Tail(todo)
<1>1. task \in TaskState /\ arg \in Seq(Nat) /\ toClient \in Seq(Unit)
  BY TaskFacts, ArgsAre
<1>2. /\ hear.of = Reply(cmd) /\ hear.at = (IF Reply(cmd) = "FF" THEN 1 ELSE 2)
      /\ rest = Remains(cmd, size)
  BY DEF Opens
<1>3. /\ t = TaskCommand(cmd, arg)
      /\ cmd \notin {"PING", "QUIT"} =>
            /\ InRange(size)
            /\ cmd # "GETCHUNKS" => TaskSize(arg, 1) = size
            /\ cmd = "GETCHUNKS" => /\ arg # <<>> /\ arg[1] = n /\ arg[1] > 0
                                    /\ TaskSize(arg, 2) = size
  BY ArgsSize
<1> HIDE DEF arg, hear, rest
<1>4. ASSUME Ends(t.out, hear), TaskTakes(t.at, t.size, user.cmd, rest)
      PROVE  /\ Silent(t.out, Err[1])
             /\ TaskScene(t, user, <<>>, toClient \o t.out, todo)
  BY <1>4, TaskSpeaks DEF hear, rest
<1>5. ASSUME NEW of \in Words, of # "ERR", of # "FF", NEW p \in Places, Reply(cmd) = of,
             t = TaskSays(Line(of, <<>>), p)
      PROVE  Ends(t.out, hear) /\ t.at = p
  <2>1. Line(of, <<>>) \in Seq(Unit)
    BY ArgFacts, LineUnits
  <2>2. t.out = Line(of, <<>>) /\ t.at = p
    BY <1>1, <1>5, <2>1, TaskSaysIs
  <2>3. hear.of = of /\ hear.at = 2
    BY <1>2, <1>5
  <2>4. QED
    BY <1>5, <2>2, <2>3, ProperEnd
<1>6. CASE cmd = "PING"
  <2>1. /\ t = TaskSays(Line("PONG", <<>>), "ping_ok") /\ Reply(cmd) = "PONG"
        /\ "PONG" \in Words /\ "ping_ok" \in Places
    BY <1>3, <1>6 DEF TaskCommand, Reply, Words, Places, TaskReading
  <2>2. Ends(t.out, hear) /\ t.at = "ping_ok"
    BY <1>5, <2>1
  <2>3. rest = <<LastTurn(OK)>>
    BY <1>2, <1>6 DEF Remains
  <2>4. TaskTakes(t.at, t.size, user.cmd, rest)
    BY <2>2, <2>3 DEF TaskTakes, Counting
  <2>5. QED
    BY <1>4, <2>2, <2>4
<1>7. CASE cmd = "QUIT"
  <2>1. /\ t = TaskSays(Line("BYE", <<>>), "end") /\ Reply(cmd) = "BYE"
        /\ "BYE" \in Words /\ "end" \in Places
    BY <1>3, <1>7 DEF TaskCommand, Reply, Words, Places
  <2>2. Ends(t.out, hear) /\ t.at = "end"
    BY <1>5, <2>1
  <2>3. rest = <<>>
    BY <1>2, <1>7 DEF Remains
  <2>4. TaskTakes(t.at, t.size, user.cmd, rest)
    BY <1>7, <2>2, <2>3 DEF TaskTakes, Counting
  <2>5. QED
    BY <1>4, <2>2, <2>4
<1>8. CASE cmd = "GETCHUNKS"
  <2>1. t = TaskGetChunks(arg)
    BY <1>3, <1>8 DEF TaskCommand
  <2>2. t.out = AllChunks(n, size) /\ t.at = "get_chunks_ok"
    BY <1>1, <1>3, <1>8, <2>1, TaskGetChunksIs
  <2>3. hear.of = "FF" /\ hear.at = 1 /\ rest = <<LastTurn(OK)>>
    BY <1>2, <1>8 DEF Reply, Remains
  <2>4. Ends(t.out, hear)
    BY <2>2, <2>3, AllChunksEnd
  <2>5. TaskTakes(t.at, t.size, user.cmd, rest)
    BY <2>2, <2>3 DEF TaskTakes, Counting
  <2>6. QED
    BY <1>4, <2>4, <2>5
<1>9. CASE cmd = "GETTIME"
  <2>1. t = TaskGetTime(arg)
    BY <1>3, <1>9 DEF TaskCommand
  <2>2. t.out = <<>> /\ t.at = "get_time" /\ t.size = size
    BY <1>1, <1>3, <1>9, <2>1, TaskGetTimeIs
  <2>3. hear.of = "FF" /\ hear.at = 1 /\ rest = <<LastTurn(OK)>>
    BY <1>2, <1>9 DEF Reply, Remains
  <2>4. t.size >= 2 /\ Silent(t.out, Err[1])
    BY <2>2, SizeFacts DEF Silent
  <2>5. TaskTakes("get_time_ok", t.size, user.cmd, rest)
    BY <2>3 DEF TaskTakes, Counting
  <2>6. toClient \o t.out = toClient
    BY <1>1, <2>2
  <2>7. TaskSends(t, user, <<>>, toClient \o t.out, todo)
    BY <2>2, <2>3, <2>4, <2>5, <2>6 DEF TaskSends, TaskHeard, hear, rest
  <2>8. QED
    BY <2>4, <2>7 DEF TaskScene
<1>10. CASE cmd \in {"PUT", "PUTNORESULT", "PUTTIMERESULT"}
  <2>1. PICK p \in Counting : t = TaskPut(arg, p) /\ (p = "put" \/ cmd = "PUTNORESULT")
    BY <1>3, <1>10 DEF TaskCommand, Counting
  <2>2. t.out = OK /\ t.at = p /\ t.size = size
    BY <1>1, <1>3, <1>10, <2>1, TaskPutIs
  <2>3. hear.of = "OK" /\ hear.at = 2
    BY <1>2, <1>10 DEF Reply
  <2>4. Ends(t.out, hear)
    <3>1. "OK" \in Words
      BY DEF Words
    <3>2. QED
      BY <2>2, <2>3, <3>1, ProperEnd DEF OK
  <2>5. TaskTakes(t.at, t.size, user.cmd, rest)
    <3> size >= 2
      BY SizeFacts
    <3>1. CASE cmd = "PUT"
      <4>1. p = "put" /\ rest = <<PutTurn(size), LastTurn(Chunk(size, TRUE))>>
        BY <1>2, <2>1, <3>1 DEF Remains
      <4>2. QED
        BY <2>2, <4>1 DEF TaskTakes, Counting
    <3>2. CASE cmd # "PUT"
      <4>1. rest = <<LastTurn(Two(size))>>
        BY <1>2, <1>10, <3>2 DEF Remains
      <4>2. QED
        BY <2>1, <2>2, <4>1 DEF TaskTakes, Counting
    <3>3. QED
      BY <3>1, <3>2
  <2>6. QED
    BY <1>4, <2>4, <2>5
<1>11. QED
  BY <1>6, <1>7, <1>8, <1>9, <1>10 DEF Asked

LEMMA HandlesCommand ==
    ASSUME CommandsInv, server = "tokio", UNCHANGED <<server, srv, user>>, handle_command
    PROVE  CommandsInv'
<1>1. PICK data \in Pieces(toServer, Cap) :
        /\ TaskAt("command") /\ toServer' = Rest(toServer, data)
        /\ splitOk' = (splitOk \/ CutsLine(data)) /\ UNCHANGED <<toClient, gone>>
        /\ task' \in CASE Len(data) > 1 /\ data[2].at = 2 -> {TaskCommand(data[1].of, data[1].arg)}
                       [] Len(data) = 1 /\ CutsLine(data) -> CutCommand(data[1])
                       [] OTHER                           -> {TaskCommand("part", <<>>)}
  BY DEF handle_command, TaskReads
<1>2. /\ task \in TaskState /\ task.out = <<>> /\ task.at = "command"
      /\ task.at \notin Counting /\ Cap \in Nat /\ toServer \in Seq(Unit)
  BY <1>1, TaskFacts, Bounds DEF TaskAt, Counting
<1>3. task.got = 0
  BY <1>2, NothingCounted
<1>4. data[1] \in Unit /\ data \in Seq(Unit) /\ Len(data) \in Nat
  <2>1. data \in Seq(Unit) /\ Len(data) \in 1..Cap
    BY <1>2, PieceFacts
  <2>2. 1 \in 1..Len(data)
    BY <1>2, <2>1
  <2>3. QED
    BY <2>1, <2>2
<1>5. task' \in TaskState /\ task'.got = 0
  <2>1. CASE Len(data) > 1 /\ data[2].at = 2
    <3>1. task' = TaskCommand(data[1].of, data[1].arg)
      BY <1>1, <2>1
    <3>2. data[1].arg \in Seq(Nat)
      BY <1>4 DEF Unit
    <3>3. QED
      BY <1>2, <1>3, <3>1, <3>2, TaskCommandTyped
  <2>2. CASE ~(Len(data) > 1 /\ data[2].at = 2) /\ Len(data) = 1 /\ CutsLine(data)
    <3>1. task' \in CutCommand(data[1])
      BY <1>1, <2>2
    <3>2. QED
      BY <1>2, <1>3, <1>4, <3>1, CutCommandTyped
  <2>3. CASE ~(Len(data) > 1 /\ data[2].at = 2) /\ ~(Len(data) = 1 /\ CutsLine(data))
    <3>1. task' = TaskCommand("part", <<>>)
      BY <1>1, <2>3
    <3>2. QED
      BY <1>2, <1>3, <3>1, ArgFacts, TaskCommandTyped
  <2>4. QED
    BY <2>1, <2>2, <2>3
<1>6. ASSUME NEW todo \in Agenda, TaskHeard(data, todo)
      PROVE  /\ Silent(task'.out, Err[1])
             /\ TaskScene(task', user, <<>>, toClient \o task'.out, todo)
  <2>1. Commanding(user.cmd, todo)
    BY <1>2, <1>6 DEF TaskHeard, TaskTakes, Counting
  <2>2. PICK cmd \in Asked : cmd = user.cmd
    BY <2>1, CommandingIs, UserFacts
  <2>3. PICK n \in {1, 2}, size \in Sizes : Opens(todo, user.cmd, n, size)
    BY <2>1, CommandingIs, UserFacts
  <2>4. data = Line(cmd, Args(cmd, n, size))
    BY <1>6, <2>2, <2>3 DEF TaskHeard, Opens
  <2> DEFINE arg == Args(cmd, n, size)
  <2>5. cmd \in Words /\ arg \in Seq(Nat)
    BY ArgsAre DEF Asked, Words
  <2> HIDE DEF arg
  <2>6. Len(data) = 2 /\ data[1].of = cmd /\ data[1].arg = arg /\ data[2].at = 2
    <3>1. data = Line(cmd, arg)
      BY <2>4 DEF arg
    <3>2. QED
      BY <2>5, <3>1, LineUnits
  <2>7. task' = TaskCommand(cmd, arg)
    <3>1. Len(data) > 1
      BY <2>6
    <3>2. QED
      BY <1>1, <2>6, <3>1
  <2>8. QED
    BY <1>5, <1>6, <2>2, <2>3, <2>7, TaskObeys DEF arg
<1>7. QED
  BY <1>1, <1>2, <1>5, <1>6, TaskTurns
-----------------------------------------------------------------------------
(* The tokio server sends and receives chunks.                             *)

LEMMA ChunkProper ==
    ASSUME NEW size \in Nat, NEW last \in BOOLEAN
    PROVE  Proper(Chunk(size, last))
<1> DEFINE chunk == Chunk(size, last)
<1>1. chunk \in Seq(Unit) /\ Len(chunk) = size
  BY ChunkFacts
<1>2. \A i \in 1..size : chunk[i].of \in {"body", "00", "FF"}
  BY DEF Chunk
<1> HIDE DEF chunk
<1>3. QED
  BY <1>1, <1>2, ErrUnits DEF Proper, Silent, SameUnit, chunk

LEMMA ChunkHeard ==
    ASSUME NEW size \in Nat, size >= 2, NEW hear, hear.of = "FF", hear.at = 1
    PROVE  Silent(Chunk(size, FALSE), hear) /\ Ends(Chunk(size, TRUE), hear)
<1>1. PICK no \in BOOLEAN, yes \in BOOLEAN : no = FALSE /\ yes = TRUE
  OBVIOUS
<1> DEFINE a == Chunk(size, no)
           b == Chunk(size, yes)
<1>2. /\ Len(a) = size /\ Len(b) = size
      /\ \A i \in 1..size : a[i].of = "FF" <=> i = size /\ no
      /\ \A i \in 1..size : b[i].at = 1 /\ (b[i].of = "FF" <=> i = size /\ yes)
      /\ LastOf(b) = b[size]
  BY ChunkUnits
<1>3. Proper(b)
  BY ChunkProper
<1> HIDE DEF a, b
<1>4. Silent(a, hear)
  BY <1>1, <1>2 DEF Silent, SameUnit
<1>5. EndsOnly(b, hear) /\ b # <<>>
  BY <1>1, <1>2 DEF EndsOnly, SameUnit
<1>6. QED
  BY <1>1, <1>3, <1>4, <1>5 DEF Ends, a, b

LEMMA TaskInScene ==
    ASSUME CommandsInv, server = "tokio", ~splitOk, ~Deserted, task.out = <<>>
    PROVE  \E todo \in Agenda : TaskScene(task, user, toServer, toClient, todo)
<1>1. TaskInv /\ toClient \in Seq(Unit)
  BY TaskFacts
<1>2. Unheard = toClient
  BY <1>1 DEF Unheard
<1>3. QED
  BY <1>1, <1>2 DEF TaskInv

LEMMA TaskSendsTime ==
    ASSUME CommandsInv, server = "tokio", UNCHANGED <<server, srv, user>>,
           TaskAt("get_time"), UNCHANGED wire,
           task' = TaskSays(Chunk(task.size, task.over),
                            IF task.over THEN "get_time_ok" ELSE "get_time")
    PROVE  CommandsInv'
<1>1. /\ task \in TaskState /\ task.out = <<>> /\ task.at = "get_time"
      /\ task.at \notin Counting /\ task.size \in Nat /\ task.over \in BOOLEAN
      /\ task.got \in Nat /\ task.got <= task.size /\ TaskInv
      /\ toServer \in Seq(Unit) /\ Len(toServer) <= Cap /\ toClient \in Seq(Unit)
      /\ splitOk \in BOOLEAN
  BY TaskFacts DEF TaskAt, Counting
<1>2. UNCHANGED <<toServer, toClient, gone, splitOk>>
  BY DEF wire
<1> DEFINE out == Chunk(task.size, task.over)
           p   == IF task.over THEN "get_time_ok" ELSE "get_time"
<1>3. Proper(out)
  BY <1>1, ChunkProper
<1>4. p \in Places /\ p \notin Counting
  BY DEF Places, TaskReading, Counting
<1> HIDE DEF out, p
<1>5. /\ task' \in TaskState /\ task'.out = out /\ task'.at = p
      /\ task'.size = task.size /\ task'.got = task.got
  <2>1. task' = TaskSays(out, p)
    BY DEF out, p
  <2>2. QED
    BY <1>1, <1>3, <1>4, <2>1, TaskSaysIs DEF Proper
<1>6. Silent(task'.out, Err[1])
  BY <1>3, <1>5 DEF Proper
<1>7. Deserted' = Deserted
  BY <1>2 DEF Deserted
<1>8. task.got = 0 \/ Deserted
  BY <1>1 DEF TaskInv
<1>9. ASSUME ~splitOk', ~Deserted'
      PROVE  \E todo \in Agenda : TaskScene(task', user, toServer', toClient \o task'.out, todo)
  <2>1. PICK todo \in Agenda : TaskScene(task, user, toServer, toClient, todo)
    BY <1>1, <1>2, <1>7, <1>9, TaskInScene
  <2>2. TaskSends(task, user, toServer, toClient, todo)
    BY <1>1, <2>1 DEF TaskScene, TaskRests, TaskListens, TaskHasSaid, TaskTakes, Counting
  <2> DEFINE hear == todo[1].hear
  <2>3. /\ todo # <<>> /\ user.said = Len(todo[1].say) /\ toServer = <<>>
        /\ task.size >= 2 /\ hear.of = "FF" /\ hear.at = 1
        /\ TaskTakes("get_time_ok", task.size, user.cmd, Tail(todo))
        /\ Silent(toClient, hear)
    BY <2>2 DEF TaskSends
  <2> HIDE DEF hear
  <2>4. Silent(Chunk(task.size, FALSE), hear) /\ Ends(Chunk(task.size, TRUE), hear)
    BY <1>1, <2>3, ChunkHeard
  <2>5. CASE task.over
    <3>1. out = Chunk(task.size, TRUE) /\ p = "get_time_ok"
      BY <1>1, <2>5 DEF out, p
    <3>2. Ends(out, hear)
      BY <2>4, <3>1
    <3>3. EndsOnly(toClient \o out, hear)
      BY <1>1, <2>3, <3>2, EndsIt DEF Ends, Proper
    <3>4. TaskHasSaid(task', user, toServer', toClient \o task'.out, todo)
      BY <1>2, <1>5, <1>7, <1>8, <1>9, <2>3, <3>1, <3>3 DEF TaskHasSaid, hear
    <3>5. QED
      BY <3>4 DEF TaskScene
  <2>6. CASE ~task.over
    <3>1. out = Chunk(task.size, FALSE) /\ p = "get_time"
      BY <1>1, <2>6 DEF out, p
    <3>2. Silent(out, hear)
      BY <2>4, <3>1
    <3>3. Silent(toClient \o out, hear)
      BY <1>1, <1>3, <2>3, <3>2, StaysSilent DEF Proper
    <3>4. TaskSends(task', user, toServer', toClient \o task'.out, todo)
      BY <1>2, <1>5, <2>3, <3>1, <3>3 DEF TaskSends, hear
    <3>5. QED
      BY <3>4 DEF TaskScene
  <2>7. QED
    BY <1>1, <2>5, <2>6
<1>10. QED
  BY <1>1, <1>2, <1>4, <1>5, <1>6, <1>7, <1>8, <1>9, TaskAnswers

LEMMA HandlesGetTime ==
    ASSUME CommandsInv, server = "tokio", UNCHANGED <<server, srv, user>>, handle_get_time
    PROVE  CommandsInv'
<1>1. CASE AwaitsOk("get_time_ok")
  BY <1>1, TaskAwaits
<1>2. CASE /\ TaskAt("get_time") /\ UNCHANGED wire
           /\ task' = TaskSays(Chunk(task.size, task.over),
                               IF task.over THEN "get_time_ok" ELSE "get_time")
  BY <1>2, TaskSendsTime
<1>3. QED
  BY <1>1, <1>2 DEF handle_get_time

Bytes(p) == IF p = "put" THEN Line("TIME BYTES", <<>>) ELSE <<>>

LEMMA BytesFacts ==
    ASSUME NEW p \in Counting, NEW hear, Accepting(hear)
    PROVE  /\ Proper(Bytes(p)) /\ Silent(Bytes(p), hear)
           /\ Ends(Bytes(p) \o Time \o Accept, hear)
<1>1. "TIME BYTES" \in Words /\ "TIME" \in Words
  BY DEF Words
<1>2. Proper(Line("TIME BYTES", <<>>)) /\ Silent(Line("TIME BYTES", <<>>), hear)
  BY <1>1, ProperLine, LineSilent DEF Accepting
<1>3. Time \in Seq(Unit) /\ Accept \in Seq(Unit)
  BY <1>1, ArgFacts, LineUnits, AcceptUnits DEF Time
<1>4. CASE p = "put"
  <2> DEFINE bytes == Line("TIME BYTES", <<>>)
  <2>1. Bytes(p) = bytes /\ bytes \in Seq(Unit)
    BY <1>2, <1>4 DEF Bytes, Proper
  <2>2. Ends(bytes \o (Time \o Accept), hear)
    BY AcceptEnds
  <2> HIDE DEF bytes
  <2>3. bytes \o Time \o Accept = bytes \o (Time \o Accept)
    BY <1>3, <2>1, JoinThree
  <2>4. Ends(bytes \o Time \o Accept, hear)
    BY <2>2, <2>3
  <2>5. Proper(bytes) /\ Silent(bytes, hear)
    BY <1>2 DEF bytes
  <2>6. QED
    BY <2>1, <2>4, <2>5
<1>5. CASE p # "put"
  <2>1. Bytes(p) = <<>>
    BY <1>5 DEF Bytes
  <2>2. <<>> \o Time \o Accept = Time \o Accept
    BY <1>3
  <2>3. Ends(Time \o Accept, hear)
    BY AcceptEnds
  <2>4. Proper(<<>>) /\ Silent(<<>>, hear)
    BY EmptyUnits DEF Proper, Silent
  <2>5. QED
    BY <2>1, <2>2, <2>3, <2>4
<1>6. QED
  BY <1>4, <1>5

IsAfter(t, p, terminator) ==
    /\ t \in TaskState /\ t.got = 0 /\ t.size = task.size /\ Proper(t.out)
    /\ terminator = "00" => t.out = Bytes(p) /\ t.at = p
    /\ terminator # "00" => t.out = Bytes(p) \o Time \o Accept /\ t.at = "command"

LEMMA AfterChunkIs ==
    ASSUME task \in TaskState, NEW p \in Counting, NEW terminator,
           NEW t, t = AfterChunk(p, terminator)
    PROVE  IsAfter(t, p, terminator)
<1>1. p \in Places /\ "command" \in Places
  BY DEF Places, Counting, TaskReading
<1>2. PICK hear : Accepting(hear)
  BY AcceptUnits DEF Accepting
<1>3. Proper(Bytes(p)) /\ Proper(Bytes(p) \o Time \o Accept)
  BY <1>2, BytesFacts DEF Ends
<1>4. ASSUME NEW out, Proper(out), NEW q \in Places, t = [TaskSays(out, q) EXCEPT !.got = 0]
      PROVE  /\ t \in TaskState /\ t.got = 0 /\ t.size = task.size /\ t.out = out /\ t.at = q
  <2> DEFINE said == TaskSays(out, q)
  <2>1. said \in TaskState /\ said.out = out /\ said.at = q /\ said.size = task.size
    BY <1>4, TaskSaysIs DEF Proper
  <2>2. t = [said EXCEPT !.got = 0]
    BY <1>4
  <2> HIDE DEF said
  <2>3. QED
    BY <2>1, <2>2 DEF TaskState
<1>5. CASE terminator = "00"
  <2>1. t = [TaskSays(Bytes(p), p) EXCEPT !.got = 0]
    BY <1>5 DEF AfterChunk, Bytes
  <2>2. /\ t \in TaskState /\ t.got = 0 /\ t.size = task.size /\ t.out = Bytes(p) /\ t.at = p
    BY <1>1, <1>3, <1>4, <2>1
  <2>3. QED
    BY <1>3, <1>5, <2>2 DEF IsAfter
<1>6. CASE terminator # "00"
  <2>1. t = [TaskSays(Bytes(p) \o Time \o Accept, "command") EXCEPT !.got = 0]
    BY <1>6 DEF AfterChunk, Bytes
  <2>2. /\ t \in TaskState /\ t.got = 0 /\ t.size = task.size
        /\ t.out = Bytes(p) \o Time \o Accept /\ t.at = "command"
    BY <1>1, <1>3, <1>4, <2>1
  <2>3. QED
    BY <1>3, <1>6, <2>2 DEF IsAfter
<1>7. QED
  BY <1>5, <1>6

\* A read where chunks are received: from the first chunk of those that are sent at once, or
\* from the second.
TaskCounts(p, m, todo) ==
    /\ todo # <<>> /\ Silent(toClient, todo[1].hear)
    /\ TaskTakes(p, task.size, user.cmd, todo) /\ m \in {0, task.size}
    /\ m = 0 \/ todo = <<LastTurn(Two(task.size))>>

LEMMA ChunkRead ==
    ASSUME CommandsInv, server = "tokio", ~splitOk, task.out = <<>>,
           NEW p \in Counting, task.at = p,
           NEW data \in Pieces(toServer, task.size - task.got)
    PROVE  \E todo \in Agenda, m \in Nat :
              /\ TaskCounts(p, m, todo)
              /\ IsRead(data, Rest(toServer, data), todo[1].say, m + task.got, user.said)
<1>1. /\ toServer \in Seq(Unit) /\ task.size \in Nat /\ task.got \in Nat
      /\ task.got <= task.size /\ user.said \in Nat
  BY TaskFacts, UserFacts
<1>2. PICK space \in Nat : space = task.size - task.got
  BY <1>1
<1>3. data \in Pieces(toServer, space)
  BY <1>2
<1>4. toServer # <<>>
  BY <1>1, <1>3, PieceFacts
<1>5. PICK todo \in Agenda : TaskListens(task, user, toServer, toClient, todo)
  BY <1>4, TaskListensTo
<1>6. /\ todo # <<>> /\ TaskTakes(p, task.size, user.cmd, todo)
      /\ Silent(toClient, todo[1].hear)
  BY <1>5 DEF TaskListens, Counting
<1>7. PICK m \in {0, task.size} : /\ FromOn(toServer, todo[1].say, m + task.got, user.said)
                                  /\ m = 0 \/ todo = <<LastTurn(Two(task.size))>>
  BY <1>5 DEF TaskListens
<1>8. todo[1].say \in Seq(Unit)
  BY <1>6, AgendaFacts, UserFacts
<1>9. PICK k \in Nat : k = m + task.got
  BY <1>1, <1>7
<1>10. FromOn(toServer, todo[1].say, k, user.said)
  BY <1>7, <1>9
<1>11. IsRead(data, Rest(toServer, data), todo[1].say, k, user.said)
  BY <1>1, <1>3, <1>8, <1>10, ReadsFrom
<1>12. IsRead(data, Rest(toServer, data), todo[1].say, m + task.got, user.said)
  BY <1>9, <1>11
<1>13. m \in Nat
  BY <1>1, <1>7
<1>14. TaskCounts(p, m, todo)
  BY <1>6, <1>7 DEF TaskCounts
<1>15. QED
  BY <1>12, <1>13, <1>14

\* More of a chunk.
LEMMA CountsOn ==
    ASSUME CommandsInv, server = "tokio", UNCHANGED <<server, srv, user, gone, toClient>>,
           NEW p \in Counting, task.at = p, task.out = <<>>,
           NEW data \in Pieces(toServer, task.size - task.got),
           toServer' = Rest(toServer, data), splitOk' = (splitOk \/ CutsLine(data)),
           task.got + Len(data) < task.size, task' = [task EXCEPT !.got = @ + Len(data)]
    PROVE  CommandsInv'
<1>1. /\ toServer \in Seq(Unit) /\ Len(toServer) <= Cap /\ splitOk \in BOOLEAN
      /\ task \in TaskState /\ task.size \in Nat /\ task.got \in Nat
      /\ task.got <= task.size /\ user.said \in Nat /\ toClient \in Seq(Unit)
  BY TaskFacts, UserFacts
<1>2. PICK space \in Nat : space = task.size - task.got
  BY <1>1
<1>3. data \in Pieces(toServer, space) /\ Cap \in Nat
  BY <1>2, Bounds
<1>4. /\ toServer' \in Seq(Unit) /\ Len(toServer') <= Cap
      /\ data \in Seq(Unit)
  BY <1>1, <1>3, PieceFacts
<1>5. PICK k \in Nat : k = Len(data)
  BY <1>4
<1>6. PICK got \in Nat : got = task.got + k
  BY <1>1
<1>7. task' = [task EXCEPT !.got = got]
  BY <1>5, <1>6
<1>8. /\ task' \in TaskState /\ task'.got = got /\ task'.size = task.size /\ task'.at = p
      /\ task'.out = <<>>
  BY <1>1, <1>7 DEF TaskState
<1>9. task'.got <= task'.size
  BY <1>1, <1>5, <1>6, <1>8
<1>10. Silent(task'.out, Err[1]) /\ toClient \o task'.out = toClient
  BY <1>1, <1>8 DEF Silent
<1>11. splitOk' \in BOOLEAN /\ (splitOk => splitOk')
  BY <1>1 DEF CutsLine
<1>12. ASSUME ~splitOk'
       PROVE  \E todo \in Agenda : TaskScene(task', user, toServer', toClient \o task'.out, todo)
  <2>1. ~splitOk
    BY <1>12
  <2>2. PICK todo \in Agenda, m \in Nat :
           /\ TaskCounts(p, m, todo)
           /\ IsRead(data, Rest(toServer, data), todo[1].say, m + task.got, user.said)
    BY <2>1, ChunkRead
  <2>3. FromOn(toServer', todo[1].say, (m + task.got) + Len(data), user.said)
    BY <2>2 DEF IsRead
  <2>4. (m + task.got) + Len(data) = m + task'.got
    BY <1>1, <1>5, <1>6, <1>8
  <2>5. FromOn(toServer', todo[1].say, m + task'.got, user.said)
    BY <2>3, <2>4
  <2>6. TaskListens(task', user, toServer', toClient, todo)
    BY <1>8, <2>2, <2>5 DEF TaskListens, TaskCounts
  <2>7. QED
    BY <1>10, <2>6 DEF TaskScene
<1>13. QED
  BY <1>4, <1>8, <1>9, <1>10, <1>11, <1>12, TaskAnswers

\* A whole chunk.
LEMMA ChunkHasCome ==
    ASSUME CommandsInv, server = "tokio", NEW p \in Counting, NEW todo \in Agenda,
           NEW m \in Nat, TaskCounts(p, m, todo), NEW rest \in Seq(Unit),
           NEW end \in Nat, end = m + task.size,
           FromOn(rest, todo[1].say, end, user.said),
           NEW unit, unit = todo[1].say[end],
           NEW t, t = AfterChunk(p, unit.of)
    PROVE  /\ unit.of \in {"00", "FF"}
           /\ TaskScene(t, user, rest, toClient \o t.out, todo)
<1>1. /\ task \in TaskState /\ task.size \in Nat /\ user.said \in Nat /\ toClient \in Seq(Unit)
  BY TaskFacts, UserFacts
<1> DEFINE size == task.size
           hear == todo[1].hear
           text == todo[1].say
<1>2. /\ todo # <<>> /\ Silent(toClient, hear) /\ size >= 2
      /\ m \in {0, size} /\ (m = 0 \/ todo = <<LastTurn(Two(size))>>)
      /\ \/ p = "put" /\ todo = <<PutTurn(size), LastTurn(Chunk(size, TRUE))>>
         \/ p = "put" /\ todo = <<LastTurn(Chunk(size, TRUE))>>
         \/ todo = <<LastTurn(Two(size))>>
  BY DEF TaskCounts, TaskTakes, Counting
<1>3. /\ t \in TaskState /\ t.got = 0 /\ t.size = size
      /\ unit.of = "00" => t.out = Bytes(p) /\ t.at = p
      /\ unit.of # "00" => t.out = Bytes(p) \o Time \o Accept /\ t.at = "command"
  <2>1. IsAfter(t, p, unit.of)
    BY <1>1, AfterChunkIs
  <2>2. QED
    BY <2>1 DEF IsAfter
<1>4. /\ FromOn(rest, text, end, user.said) /\ end <= user.said /\ user.said <= Len(text)
      /\ Len(rest) = user.said - end
  BY DEF FromOn
<1>5. PICK no \in BOOLEAN, yes \in BOOLEAN : no = FALSE /\ yes = TRUE
  OBVIOUS
<1>6. /\ Len(Chunk(size, no)) = size /\ Chunk(size, no)[size].of = "00"
      /\ Len(Chunk(size, yes)) = size /\ Chunk(size, yes)[size].of = "FF"
      /\ Chunk(size, no) \in Seq(Unit) /\ Chunk(size, yes) \in Seq(Unit)
  BY <1>1, <1>2, <1>5, ChunkUnits
<1>7. ASSUME Len(text) = end
      PROVE  user.said = Len(text) /\ rest = <<>>
  <2>1. user.said = end
    BY <1>1, <1>4, <1>7
  <2>2. Len(rest) = 0
    BY <1>4, <2>1
  <2>3. QED
    BY <1>7, <2>1, <2>2
<1>8. ASSUME Len(text) = end, t.out \in Seq(Unit), t.out # <<>>, EndsOnly(t.out, hear),
             TaskTakes(t.at, size, user.cmd, Tail(todo))
      PROVE  TaskScene(t, user, rest, toClient \o t.out, todo)
  <2> HIDE DEF size, hear, text
  <2>1. EndsOnly(toClient \o t.out, hear)
    BY <1>1, <1>2, <1>8, EndsIt
  <2>2. TaskHasSaid(t, user, rest, toClient \o t.out, todo)
    BY <1>2, <1>3, <1>7, <1>8, <2>1 DEF TaskHasSaid, hear, text
  <2>3. QED
    BY <2>2 DEF TaskScene
<1>9. ASSUME NEW last, last \in Seq(Unit), todo = <<LastTurn(last)>>
      PROVE  text = last /\ Accepting(hear) /\ Tail(todo) = <<>>
  <2>1. LastTurn(last) \in Turns /\ LastTurn(last).say = last /\ Accepting(LastTurn(last).hear)
    BY <1>9, LastTurnFacts DEF Accepting
  <2>2. QED
    BY <1>9, <2>1, Lists
\* The last unit of the last chunk.
<1>10. ASSUME NEW last, last \in Seq(Unit), todo = <<LastTurn(last)>>, Len(last) = end,
              last[end].of = "FF"
       PROVE  /\ unit.of \in {"00", "FF"}
              /\ TaskScene(t, user, rest, toClient \o t.out, todo)
  <2>1. text = last /\ Accepting(hear) /\ Tail(todo) = <<>>
    BY <1>9, <1>10
  <2>2. unit.of = "FF"
    BY <1>10, <2>1
  <2>3. t.out = Bytes(p) \o Time \o Accept /\ t.at = "command"
    BY <1>3, <2>2
  <2>4. Ends(t.out, hear)
    BY <2>1, <2>3, BytesFacts
  <2>5. TaskTakes(t.at, size, user.cmd, Tail(todo))
    BY <2>1, <2>3 DEF TaskTakes, Counting
  <2>6. QED
    BY <1>8, <1>10, <2>1, <2>2, <2>4, <2>5 DEF Ends, Proper
<1>11. CASE todo = <<LastTurn(Two(size))>>
  <2>1. /\ Two(size) \in Seq(Unit) /\ Len(Two(size)) = 2 * size
        /\ Two(size)[size].of = "00" /\ Two(size)[size + size].of = "FF"
    <3>1. /\ Two(size) \in Seq(Unit) /\ Len(Two(size)) = 2 * size
          /\ Two(size)[size] = Chunk(size, no)[size]
          /\ Two(size)[size + size] = Chunk(size, yes)[size]
      <4>1. size \in 1..size /\ size \in Nat /\ size >= 2
        BY <1>1, <1>2
      <4> HIDE DEF size
      <4>2. /\ Two(size) \in Seq(Unit) /\ Len(Two(size)) = 2 * size
            /\ Two(size)[size] = Chunk(size, FALSE)[size]
            /\ Two(size)[size + size] = Chunk(size, TRUE)[size]
        BY <4>1, TwoFacts
      <4>3. QED
        BY <1>5, <4>2
    <3>2. QED
      BY <1>6, <3>1
  <2>2. CASE m = size
    <3>1. end = size + size /\ Len(Two(size)) = end
      BY <1>1, <2>1, <2>2
    <3>2. QED
      BY <1>10, <1>11, <2>1, <3>1
  <2>3. CASE m = 0
    <3>1. end = size
      BY <1>1, <2>3
    <3>2. text = Two(size) /\ Accepting(hear)
      BY <1>9, <1>11, <2>1
    <3>3. unit.of = "00"
      BY <2>1, <3>1, <3>2
    <3>4. t.out = Bytes(p) /\ t.at = p
      BY <1>3, <3>3
    <3>5. Silent(toClient \o t.out, hear)
      <4>1. Bytes(p) \in Seq(Unit) /\ Silent(Bytes(p), hear)
        BY <3>2, BytesFacts DEF Proper
      <4> HIDE DEF hear
      <4>2. QED
        BY <1>1, <1>2, <3>4, <4>1, StaysSilent
    <3>6. FromOn(rest, text, size + t.got, user.said)
      <4>1. size + t.got = end
        <5>1. \A k \in Nat : k + 0 = k
          OBVIOUS
        <5>2. size \in Nat /\ t.got = 0
          BY <1>1, <1>3
        <5>3. QED
          BY <3>1, <5>1, <5>2
      <4>2. FromOn(rest, text, end, user.said)
        BY <1>4
      <4> HIDE DEF size, text
      <4>3. QED
        BY <4>1, <4>2
    <3>7. TaskListens(t, user, rest, toClient \o t.out, todo)
      BY <1>2, <1>3, <1>11, <3>4, <3>5, <3>6 DEF TaskListens, TaskCounts
    <3>8. QED
      BY <3>3, <3>7 DEF TaskScene
  <2>4. QED
    BY <1>2, <2>2, <2>3
<1>12. CASE m = 0 /\ p = "put" /\ todo = <<LastTurn(Chunk(size, TRUE))>>
  <2>1. end = size
    BY <1>1, <1>12
  <2>2. QED
    BY <1>5, <1>6, <1>10, <1>12, <2>1
<1>13. CASE m = 0 /\ p = "put" /\ todo = <<PutTurn(size), LastTurn(Chunk(size, TRUE))>>
  <2>1. end = size
    BY <1>1, <1>13
  <2>2. /\ PutTurn(size) \in Turns /\ PutTurn(size).say = Chunk(size, FALSE)
        /\ PutTurn(size).hear.of = "TIME BYTES" /\ PutTurn(size).hear.at = 2
    BY <1>1, <1>2, PutTurnFacts
  <2>3. LastTurn(Chunk(size, TRUE)) \in Turns
    BY <1>5, <1>6, LastTurnFacts
  <2>4. /\ text = Chunk(size, no) /\ hear.of = "TIME BYTES" /\ hear.at = 2
        /\ Tail(todo) = <<LastTurn(Chunk(size, TRUE))>>
    BY <1>5, <1>13, <2>2, <2>3, Lists
  <2>5. unit.of = "00" /\ Len(text) = end
    BY <1>6, <2>1, <2>4
  <2>6. t.out = Line("TIME BYTES", <<>>) /\ t.at = "put"
    BY <1>3, <1>13, <2>5 DEF Bytes
  <2>7. Ends(t.out, hear)
    <3>1. "TIME BYTES" \in Words
      BY DEF Words
    <3>2. QED
      BY <2>4, <2>6, <3>1, ProperEnd
  <2>8. TaskTakes(t.at, size, user.cmd, Tail(todo))
    BY <1>2, <2>4, <2>6 DEF TaskTakes
  <2>9. QED
    BY <1>8, <2>5, <2>7, <2>8 DEF Ends, Proper
<1>14. QED
  BY <1>2, <1>11, <1>12, <1>13

LEMMA ChunksCome ==
    ASSUME CommandsInv, server = "tokio", UNCHANGED <<server, srv, user>>,
           NEW p \in Counting, ReceivesChunks(p)
    PROVE  CommandsInv'
<1>1. PICK data \in Pieces(toServer, task.size - task.got) :
        /\ TaskAt(p) /\ toServer' = Rest(toServer, data)
        /\ splitOk' = (splitOk \/ CutsLine(data)) /\ UNCHANGED <<toClient, gone>>
        /\ task' \in IF task.got + Len(data) < task.size THEN {[task EXCEPT !.got = @ + Len(data)]}
                     ELSE {AfterChunk(p, terminator) : terminator \in Terminators(LastOf(data))}
  BY DEF ReceivesChunks, TaskReads
<1>2. /\ task \in TaskState /\ task.out = <<>> /\ task.at = p
      /\ task.size \in Nat /\ task.got \in Nat /\ task.got <= task.size
      /\ toServer \in Seq(Unit) /\ Len(toServer) <= Cap /\ splitOk \in BOOLEAN
      /\ Cap \in Nat
  BY <1>1, TaskFacts, Bounds DEF TaskAt
<1>3. CASE task.got + Len(data) < task.size
  <2>1. task' = [task EXCEPT !.got = @ + Len(data)]
    BY <1>1, <1>3
  <2>2. QED
    BY <1>1, <1>2, <1>3, <2>1, CountsOn
<1>4. CASE ~(task.got + Len(data) < task.size)
  <2>1. PICK terminator \in Terminators(LastOf(data)) : task' = AfterChunk(p, terminator)
    BY <1>1, <1>4
  <2>2. IsAfter(task', p, terminator)
    BY <1>2, <2>1, AfterChunkIs
  <2>3. /\ task' \in TaskState /\ task'.got = 0 /\ task'.size = task.size
        /\ Silent(task'.out, Err[1])
    BY <2>2 DEF IsAfter, Proper
  <2>4. PICK space \in Nat : space = task.size - task.got
    BY <1>2
  <2>5. data \in Pieces(toServer, space)
    BY <2>4
  <2>6. /\ toServer' \in Seq(Unit) /\ Len(toServer') <= Cap
        /\ data \in Seq(Unit) /\ Len(data) \in Nat /\ Len(data) <= space
    BY <1>1, <1>2, <2>5, PieceFacts
  <2>7. task.got + Len(data) = task.size
    <3>1. PICK k \in Nat : k = Len(data)
      BY <2>6
    <3>2. QED
      BY <1>2, <1>4, <2>4, <2>6, <3>1
  <2>8. ASSUME ~splitOk'
        PROVE  \E todo \in Agenda : TaskScene(task', user, toServer', toClient \o task'.out, todo)
    <3>1. PICK todo \in Agenda, m \in Nat :
             /\ TaskCounts(p, m, todo)
             /\ IsRead(data, Rest(toServer, data), todo[1].say, m + task.got, user.said)
      BY <1>1, <1>2, <2>8, ChunkRead
    <3> DEFINE text == todo[1].say
               unit == LastOf(data)
    <3>2. /\ FromOn(toServer', text, (m + task.got) + Len(data), user.said)
          /\ unit = text[(m + task.got) + Len(data)]
      BY <1>1, <3>1 DEF IsRead
    <3>3. PICK end \in Nat : end = m + task.size
      BY <1>2
    <3>4. (m + task.got) + Len(data) = end
      <4>1. PICK k \in Nat : k = Len(data)
        BY <2>6
      <4>2. QED
        BY <1>2, <2>7, <3>3, <4>1
    <3>5. FromOn(toServer', text, end, user.said) /\ unit = text[end]
      BY <3>2, <3>4
    <3> HIDE DEF unit, text
    <3>6. \A t : t = AfterChunk(p, unit.of) =>
             /\ unit.of \in {"00", "FF"}
             /\ TaskScene(t, user, toServer', toClient \o t.out, todo)
      BY <2>6, <3>1, <3>3, <3>5, ChunkHasCome DEF text
    <3>7. unit.of \in {"00", "FF"}
      BY <3>6
    <3>8. terminator = unit.of
      BY <2>1, <3>7 DEF Terminators, unit
    <3>9. QED
      BY <2>1, <3>6, <3>8
  <2>9. splitOk' \in BOOLEAN /\ (splitOk => splitOk')
    BY <1>1, <1>2 DEF CutsLine
  <2>10. task'.got <= task'.size
    BY <1>2, <2>3
  <2>11. QED
    BY <1>1, <1>2, <2>3, <2>6, <2>8, <2>9, <2>10, TaskAnswers
<1>5. QED
  BY <1>3, <1>4
-----------------------------------------------------------------------------
(* The tokio server ends.                                                  *)

LEMMA TaskEndsKeeps ==
    ASSUME CommandsInv, server = "tokio", UNCHANGED <<server, srv, user>>,
           TaskEnds \/ TaskWriteFails
    PROVE  CommandsInv'
<1>1. task' = TaskEnded /\ UNCHANGED <<toServer, toClient, gone, splitOk>>
  BY DEF TaskEnds, TaskWriteFails, wire
<1>2. task' \in TaskState /\ task'.at = task.at /\ task'.size = task.size /\ task'.got = task.got
      /\ task'.out = task.out
  BY <1>1, TaskFacts, TaskEndedIs
<1>3. Unheard' = Unheard /\ toClient' \in Seq(Unit) /\ Len(toClient') <= Cap
  BY <1>1, <1>2, TaskFacts DEF Unheard
<1>4. QED
  BY <1>1, <1>2, <1>3, TaskLike

LEMMA TimeKeeps ==
    ASSUME CommandsInv, server = "tokio", UNCHANGED <<server, srv, user>>, time_passes
    PROVE  CommandsInv'
<1>1. task' = [task EXCEPT !.over = TRUE] /\ UNCHANGED <<toServer, toClient, gone, splitOk>>
  BY DEF time_passes, wire
<1>2. task \in TaskState
  BY TaskFacts
<1>3. task' \in TaskState /\ task'.at = task.at /\ task'.size = task.size /\ task'.got = task.got
      /\ task'.out = task.out
  BY <1>1, <1>2 DEF TaskState
<1>4. Unheard' = Unheard /\ toClient' \in Seq(Unit) /\ Len(toClient') <= Cap
  BY <1>1, <1>3, TaskFacts DEF Unheard
<1>5. QED
  BY <1>1, <1>3, <1>4, TaskLike

LEMMA TaskClosesKeeps ==
    ASSUME CommandsInv, server = "tokio", UNCHANGED <<server, srv, user>>, TaskCloses
    PROVE  CommandsInv'
<1>1. gone' = gone \cup {"server"} /\ UNCHANGED <<toServer, toClient, splitOk, task>>
  BY DEF TaskCloses
<1>2. Unheard' = Unheard /\ toClient' \in Seq(Unit) /\ Len(toClient') <= Cap
  BY <1>1, TaskFacts DEF Unheard
<1>3. task' \in TaskState /\ task'.at = task.at /\ task'.size = task.size /\ task'.got = task.got
  BY <1>1, TaskFacts
<1>4. QED
  BY <1>1, <1>2, <1>3, TaskLike

\* The client has gone, and nothing it said is left to read.
LEMMA TaskEofKeeps ==
    ASSUME CommandsInv, server = "tokio", UNCHANGED <<server, srv, user>>, TaskEof
    PROVE  CommandsInv'
<1>1. /\ task.out = <<>> /\ "client" \in gone /\ toServer = <<>>
      /\ UNCHANGED <<toServer, toClient, gone, splitOk>>
      /\ \/ task' = TaskSays(Time \o Accept, "command")
         \/ task' = TaskEnded
  BY DEF TaskEof, wire
<1>2. /\ task \in TaskState /\ task.got \in Nat /\ task.size \in Nat /\ task.got <= task.size
      /\ toServer \in Seq(Unit) /\ Len(toServer) <= Cap /\ splitOk \in BOOLEAN
  BY TaskFacts
<1>3. Accepting(Accept[2])
  BY AcceptUnits DEF Accepting
<1>4. Proper(Time \o Accept) /\ "command" \in Places
  BY <1>3, AcceptEnds DEF Ends, Places, TaskReading
<1>5. task' \in TaskState /\ task'.got = task.got /\ task'.size = task.size
      /\ Silent(task'.out, Err[1])
  <2>1. CASE task' = TaskSays(Time \o Accept, "command")
    BY <1>2, <1>4, <2>1, TaskSaysIs DEF Proper
  <2>2. CASE task' = TaskEnded
    BY <1>1, <1>2, <2>2, TaskEndedIs DEF Silent
  <2>3. QED
    BY <1>1, <2>1, <2>2
<1>6. Deserted'
  BY <1>1 DEF Deserted
<1>7. QED
  BY <1>1, <1>2, <1>5, <1>6, TaskAnswers

LEMMA TokioKeeps ==
    ASSUME CommandsInv, TokioStep \/ TokioTime \/ TokioEnds
    PROVE  CommandsInv'
<1>1. server = "tokio" /\ UNCHANGED <<server, srv, user>>
  BY DEF TokioStep, TokioTime, TokioEnds
<1>2. CASE TaskStep
  <2>1. ASSUME handle_put \/ handle_put_no_result PROVE CommandsInv'
    BY <1>1, <2>1, ChunksCome DEF handle_put, handle_put_no_result, Counting
  <2>2. ASSUME handle_get_chunks \/ handle_ping PROVE CommandsInv'
    BY <1>1, <2>2, TaskAwaits DEF handle_get_chunks, handle_ping
  <2>3. QED
    BY <1>1, <1>2, <2>1, <2>2, WritesAll, DefinesStream, HandlesToken, HandlesCommand,
       HandlesGetTime, TaskEndsKeeps DEF TaskStep
<1>3. CASE time_passes
  BY <1>1, <1>3, TimeKeeps
<1>4. CASE TaskLeaves
  BY <1>1, <1>4, TaskEofKeeps, TaskEndsKeeps, TaskClosesKeeps DEF TaskLeaves
<1>5. QED
  BY <1>2, <1>3, <1>4 DEF TokioStep, TokioTime, TokioEnds
-----------------------------------------------------------------------------
(* The theorems.                                                           *)

LEMMA CommandsStart ==
    ASSUME Init
    PROVE  CommandsInv
<1>1. /\ toServer = <<>> /\ toClient = <<>> /\ gone = {} /\ splitOk = FALSE
      /\ server \in {"mio", "tokio"} /\ SrvInit /\ TaskInit
      /\ user = [cmd |-> "none", last |-> "none", todo |-> Hello, said |-> 0, heard |-> 0,
                 count |-> 0]
  BY CommandsAssumption DEF Init
<1>2. /\ user \in UserState /\ user.cmd = "none" /\ user.last = "none" /\ user.todo = Hello
      /\ user.said = 0
  BY <1>1, HelloFacts DEF UserState
<1>3. Wired
  <2>1. toServer \in Seq(Unit) /\ toClient \in Seq(Unit)
    BY Zenon, <1>1, EmptyUnits
  <2>2. Len(toServer) <= Cap /\ Len(toClient) <= Cap
    BY <1>1, Bounds
  <2>3. /\ gone \subseteq {"client", "server"} /\ splitOk \in BOOLEAN
        /\ "client" \notin gone
    BY <1>1
  <2>4. QED
    BY <1>1, <1>2, <2>1, <2>2, <2>3 DEF Wired
<1>4. Agenda = {Hello}
  BY <1>1, <1>2 DEF Agenda
<1>5. Hello[1].say \in Seq(Unit)
  BY <1>1, <1>3, <1>4, AgendaFacts, HelloFacts
<1>6. NoErr(<<>>) /\ Silent(<<>>, Hello[1].hear)
  BY DEF NoErr, Silent
<1>7. ASSUME server = "mio" PROVE MioInv
  <2>1. /\ srv.phase = "GreetingReceiveConnectionType" /\ srv.got = <<>> /\ srv.wpos = 0
        /\ srv.size = 0 /\ srv.done = 0 /\ srv.clock = "none"
    BY <1>1 DEF SrvInit
  <2>2. srv \in SrvState
    BY <1>1, EmptyUnits DEF SrvInit, SrvState, Reading, SpinsOnEof
  <2>3. Positions(srv)
    <3>1. Len(srv.got) <= MaxChunk
      BY <2>1, Bounds
    <3>2. QED
      BY <2>1, <3>1 DEF Positions, Bulk, BulkTime, Counts
  <2>4. Owned(srv, user.cmd)
    BY <1>2, <2>1 DEF Owned, OwnPhases, Greets, Sized, Takes2
  <2>5. Sound(srv, user)
    BY <2>1, <2>2, <2>3, <2>4 DEF Sound, Ticks
  <2>6. FromOn(srv.got \o toServer, Hello[1].say, 0, user.said)
    BY <1>1, <1>2, <1>5, <2>1, FromNothing
  <2>7. Listening(srv, user, toServer, toClient, Hello)
    BY <1>1, <2>1, <2>6, HelloFacts DEF Listening
  <2>8. QED
    BY <1>1, <1>4, <1>6, <2>5, <2>7 DEF MioInv, MioScene
<1>8. ASSUME server = "tokio" PROVE TaskInv
  <2>1. /\ task.at = "define_stream" /\ task.out = <<>> /\ task.size = 0 /\ task.got = 0
    BY <1>1 DEF TaskInit
  <2>2. task \in TaskState
    <3>1. 0 \in 0..MaxChunk
      BY Bounds
    <3>2. QED
      BY <1>1, <3>1, EmptyUnits DEF TaskInit, TaskState, TaskReading
  <2>3. Unheard = <<>>
    BY <1>1, <2>1 DEF Unheard
  <2>4. FromOn(toServer, Hello[1].say, 0 + task.got, user.said)
    <3>1. 0 + task.got = 0
      BY <2>1
    <3>2. QED
      BY <1>1, <1>2, <1>5, <3>1, FromNothing
  <2>5. TaskListens(task, user, toServer, <<>>, Hello)
    BY <1>6, <2>1, <2>4, HelloFacts DEF TaskListens
  <2>6. task.got <= task.size
    BY <2>1
  <2>7. QED
    BY <1>4, <1>6, <2>1, <2>2, <2>3, <2>5, <2>6 DEF TaskInv, TaskScene
<1>9. QED
  BY <1>1, <1>3, <1>7, <1>8 DEF CommandsInv

LEMMA CommandsGoOn ==
    ASSUME CommandsInv, [Next]_vars
    PROVE  CommandsInv'
<1>1. CASE UNCHANGED vars
  <2>1. UNCHANGED <<toServer, toClient, gone, splitOk, server, srv, task, user>>
    BY <1>1 DEF vars, wire, sessions
  <2>2. Wired' = Wired /\ SrvInit' = SrvInit /\ TaskInit' = TaskInit /\ Agenda' = Agenda
    BY <2>1 DEF Wired, SrvInit, TaskInit, Agenda
  <2>3. MioInv' = MioInv
    BY <2>1, <2>2 DEF MioInv
  <2>4. TaskInv' = TaskInv
    BY <2>1, <2>2 DEF TaskInv, Deserted, Unheard
  <2>5. QED
    BY <2>1, <2>2, <2>3, <2>4 DEF CommandsInv
<1>2. CASE UserStep \/ Leaves
  BY <1>2, UserKeeps
<1>3. CASE MioStep \/ MioEnds
  BY <1>3, MioKeeps
<1>4. CASE TokioStep \/ TokioTime \/ TokioEnds
  BY <1>4, TokioKeeps
<1>5. QED
  BY <1>1, <1>2, <1>3, <1>4 DEF Next

\* The inductive invariant: whichever server runs, it is where the dialogue has got to, in
\* any sequence of commands and with any cut of the streams.
THEOREM CommandsInvHolds == Spec => []CommandsInv
<1>1. Init => CommandsInv
  BY CommandsStart
<1>2. CommandsInv /\ [Next]_vars => CommandsInv'
  BY CommandsGoOn
<1>3. QED
  BY <1>1, <1>2, PTL DEF Spec

LEMMA MioTyped ==
    ASSUME CommandsInv
    PROVE  /\ srv \in SrvState /\ srv.wpos <= MaxChunk /\ Len(srv.got) <= MaxChunk
<1>1. CASE server = "mio"
  <2>1. /\ srv \in SrvState /\ Positions(srv) /\ Owned(srv, user.cmd)
        /\ srv.size \in {0} \cup Sizes /\ srv.wpos \in Nat
    BY <1>1, MioFacts, StateFacts
  <2>2. \/ srv.wpos < srv.size
        \/ srv.wpos < TimeSize(srv) /\ srv.size \in Sizes
        \/ srv.wpos < 2
        \/ srv.wpos = 0
    BY <2>1 DEF Positions, Owned, Sized, BulkTime
  <2>3. srv.size \in Sizes => TimeSize(srv) \in Sizes
    BY <2>1, TimeSizes
  <2>4. \A size \in Sizes : size \in Nat /\ size <= MaxChunk
    BY SizeFacts, Bounds, CommandsAssumption
  <2>5. srv.wpos <= MaxChunk
    <3>1. CASE srv.wpos < srv.size
      BY <2>1, <2>4, <3>1, Bounds
    <3>2. CASE srv.wpos < TimeSize(srv) /\ srv.size \in Sizes
      <4>1. PICK size \in Sizes : size = TimeSize(srv)
        BY <2>3, <3>2
      <4>2. QED
        BY <2>1, <2>4, <3>2, <4>1, Bounds
    <3>3. CASE srv.wpos < 2 \/ srv.wpos = 0
      BY <2>1, <3>3, Bounds
    <3>4. QED
      BY <2>2, <3>1, <3>2, <3>3
  <2>6. QED
    BY <2>1, <2>5 DEF Positions
<1>2. CASE server = "tokio"
  <2>1. SrvInit
    BY <1>2 DEF CommandsInv
  <2>2. srv \in SrvState
    BY <2>1, EmptyUnits DEF SrvInit, SrvState, Reading, SpinsOnEof
  <2>3. srv.wpos = 0 /\ srv.got = <<>>
    BY <2>1 DEF SrvInit
  <2>4. QED
    BY <2>2, <2>3, Bounds
<1>3. QED
  BY <1>1, <1>2, UserFacts DEF Wired

\* For every size of the buffers and chunks: nothing is sent beyond the room there is, and
\* the positions of either server stay within what they point into.
THEOREM TypeOKHolds == Spec => []TypeOK
<1>1. CommandsInv => TypeOK
  <2>1. ASSUME CommandsInv PROVE TypeOK
    <3>1. /\ Len(toServer) <= Cap /\ Len(toClient) <= Cap
      BY <2>1, UserFacts
    <3>2. /\ srv.status \in {"open", "removed", "refused", "spin", "panic"}
          /\ srv.clock \in {"none", "GETCHUNKS", "PING", "GETTIME"} \cup Uploads
          /\ srv.size \in {0} \cup Sizes /\ srv.made \in {0} \cup (Sizes \ Stored)
          /\ srv.wpos <= MaxChunk /\ Len(srv.got) <= MaxChunk
      BY <2>1, MioTyped DEF SrvState
    <3>3. /\ task.status \in {"open", "ended"}
          /\ task.at \in TaskReading \cup {"get_time", "end"}
          /\ task.size \in 0..MaxChunk /\ task.got \in 0..task.size
      <4>1. CASE server = "tokio"
        <5>1. /\ task \in TaskState /\ task.size \in Nat /\ task.got \in Nat
              /\ task.got <= task.size
          BY <2>1, <4>1, TaskFacts
        <5>2. task.got \in 0..task.size
          BY <5>1
        <5>3. QED
          BY <5>1, <5>2 DEF TaskState
      <4>2. CASE server = "mio"
        <5>1. /\ task.status = "open" /\ task.at = "define_stream" /\ task.size = 0
              /\ task.got = 0
          BY <2>1, <4>2 DEF CommandsInv, TaskInit
        <5>2. QED
          BY <5>1, Bounds DEF TaskReading
      <4>3. QED
        BY <2>1, <4>1, <4>2, UserFacts DEF Wired
    <3>4. QED
      BY <3>1, <3>2, <3>3 DEF TypeOK
  <2>2. QED
    BY <2>1
<1>2. QED
  BY <1>1, CommandsInvHolds, PTL

\* No command finds anything of the one before: nothing on the way, no part of a line read,
\* the positions at the start, no chunk counted.  The tokio server is excused when it took a
\* piece of a line for one.
THEOREM CleanSlateHolds == Spec => []CleanSlate
<1>1. CommandsInv => CleanSlate
  <2>1. SUFFICES ASSUME CommandsInv, BothOpen, user.todo = <<>>, user.cmd # "QUIT",
                        server = "tokio" => ~splitOk
                 PROVE  /\ toServer = <<>> /\ toClient = <<>>
                        /\ IF server = "tokio"
                           THEN task.at = "command" /\ task.out = <<>> /\ task.got = 0
                           ELSE /\ srv.phase = "AcceptCommandReceive"
                                /\ srv.got = <<>> /\ srv.wpos = 0 /\ srv.done = 0
    BY DEF CleanSlate
  <2>2. Agenda = {<<>>} /\ ~Deserted
    BY <2>1 DEF BothOpen, Agenda, Deserted
  <2>3. CASE server = "tokio"
    <3>1. TaskInv /\ toClient \in Seq(Unit) /\ task.out \in Seq(Unit)
      BY <2>1, <2>3, TaskFacts
    <3>2. TaskScene(task, user, toServer, Unheard, <<>>)
      BY <2>1, <2>2, <2>3, <3>1 DEF TaskInv
    <3>3. TaskRests(task, user, toServer, Unheard, <<>>)
      BY <3>2 DEF TaskScene, TaskListens, TaskSends, TaskHasSaid
    <3>4. toServer = <<>> /\ Unheard = <<>> /\ task.at = "command" /\ task.got = 0
      BY <2>1, <3>3 DEF TaskRests
    <3>5. toClient = <<>> /\ task.out = <<>>
      <4>1. Len(toClient) \in Nat /\ Len(task.out) \in Nat
            /\ Len(Unheard) = Len(toClient) + Len(task.out)
        BY <3>1 DEF Unheard
      <4>2. Len(Unheard) = 0
        BY <3>4
      <4>3. PICK m, n \in Nat : m = Len(toClient) /\ n = Len(task.out)
        BY <4>1
      <4>4. m + n = 0
        BY <4>1, <4>2, <4>3
      <4>5. m = 0 /\ n = 0
        BY <4>4
      <4>6. \A out \in Seq(Unit) : Len(out) = 0 => out = <<>>
        OBVIOUS
      <4>7. QED
        BY Zenon, <3>1, <4>3, <4>5, <4>6
    <3>6. QED
      BY <2>3, <3>4, <3>5
  <2>4. CASE server = "mio"
    <3>1. MioScene(srv, user, toServer, toClient, <<>>)
      BY <2>1, <2>2, <2>4 DEF CommandsInv, MioInv
    <3>2. Resting(srv, user, toServer, toClient, <<>>)
      BY <3>1 DEF MioScene, Listening, Speaking, Spoken
    <3>3. /\ toServer = <<>> /\ toClient = <<>> /\ srv.phase = "AcceptCommandReceive"
          /\ srv.got = <<>>
      BY <3>2 DEF Resting
    <3>4. Positions(srv)
      BY <2>1, <2>4, MioFacts
    <3>5. srv.wpos = 0 /\ srv.done = 0
      BY <3>3, <3>4 DEF Positions, Counts, Reading, SpinsOnEof
    <3>6. QED
      BY <2>4, <3>3, <3>5
  <2>5. QED
    BY <2>1, <2>3, <2>4, UserFacts DEF Wired
<1>2. QED
  BY <1>1, CommandsInvHolds, PTL

\* The mio server times a command by a clock that an earlier one has started only after
\* uploads, whose handlers leave it running.
THEOREM OwnClockHolds == Spec => []OwnClock
<1>1. CommandsInv => OwnClock
  <2>1. SUFFICES ASSUME CommandsInv, srv.clock # "none"
                 PROVE  srv.clock = user.cmd \/ {srv.clock, user.last} \subseteq Uploads
    BY DEF OwnClock
  <2>2. server # "tokio"
    BY <2>1 DEF CommandsInv, SrvInit
  <2>3. server = "mio"
    BY <2>1, <2>2, UserFacts DEF Wired
  <2>4. Ticks(srv.clock, user)
    BY <2>1, <2>3, MioFacts
  <2>5. QED
    BY <2>1, <2>4 DEF Ticks
<1>2. QED
  BY <1>1, CommandsInvHolds, PTL

\* Whatever commands it is given, the mio server never ends a session over what it read, and
\* neither server answers ERR to a client that says nothing wrong, unless a piece of a line
\* was taken for one.
THEOREM NeverErrHolds == Spec => []NeverErr
<1>0. CommandsInv => srv.status # "refused"
  BY MioTyped DEF SrvState
<1>1. CommandsInv => NeverErr
  <2>1. SUFFICES ASSUME CommandsInv, ~splitOk, NEW i \in 1..Len(toClient)
                 PROVE  toClient[i] # Err[1]
    BY <1>0 DEF NeverErr
  <2>2. ASSUME NoErr(toClient) PROVE toClient[i] # Err[1]
    BY <2>1, <2>2 DEF NoErr, Silent, SameUnit
  <2>3. CASE server = "mio"
    BY <2>1, <2>2, <2>3, MioFacts
  <2>4. CASE server = "tokio"
    <3>1. TaskInv /\ toClient \in Seq(Unit) /\ task.out \in Seq(Unit)
      BY <2>1, <2>4, TaskFacts
    <3>2. NoErr(Unheard)
      BY <2>1, <3>1 DEF TaskInv
    <3>3. /\ Len(Unheard) = Len(toClient) + Len(task.out) /\ Len(toClient) \in Nat
          /\ Len(task.out) \in Nat
          /\ \A k \in 1..Len(toClient) : Unheard[k] = toClient[k]
      BY <3>1, JoinOf DEF Unheard
    <3>4. i \in 1..Len(Unheard) /\ Unheard[i] = toClient[i]
      BY <3>3
    <3>5. QED
      BY <3>2, <3>4 DEF NoErr, Silent, SameUnit
  <2>5. QED
    BY <2>1, <2>3, <2>4, UserFacts DEF Wired
<1>2. QED
  BY <1>1, CommandsInvHolds, PTL
=============================================================================
