---------------------------- MODULE Session_proofs ----------------------------
(***************************************************************************)
(* Proofs about Session: the two sides of a measurement agree on whose     *)
(* turn it is, on the chunk size and on where a line ends.                 *)
(***************************************************************************)
EXTENDS Session, Wire_proofs

(***************************************************************************)
(* The inductive invariant.  The session is a dialogue: at any time either *)
(* nothing is on the way and the client is to speak, or the client has     *)
(* said a line that the server has not read all of, or the server says a   *)
(* text or a stream of chunks that the client has not read all of, or the  *)
(* client uploads.  Scene tells which of these, in which phases of the two *)
(* sides.  What a reader has read of the text at hand and what is on the   *)
(* way to it are together what has been said of it, wherever the stream    *)
(* was cut.                                                                *)
(***************************************************************************)

SrvState == [phase : ServerPhases, got : Seq(Unit), wpos : Nat,
             size : {0} \cup Stored, num : Nat, done : Nat,
             clock : {"none", "GETCHUNKS", "PING", "GETTIME", "PUTTIMERESULT"},
             time : {0, 1}, over : BOOLEAN, made : {0}, points : Nat,
             status : {"open", "removed", "spin", "panic"}]

\* What the client has made of the result (up) is not looked at again.
CliState(up) == [phase : ClientTalks \cup CliReading \cup BetweenPhases, got : Seq(Unit),
                 wpos : Nat, size : Stored, total : Nat, pings : Nat, down : {0, 1}, sent : Nat,
                 result : Seq(Unit), up : {up}, status : {"open", "spin", "failed", "closed"}]

Typed ==
    /\ toServer \in Seq(Unit) /\ Len(toServer) <= Cap
    /\ toClient \in Seq(Unit) /\ Len(toClient) <= Cap
    /\ gone \subseteq {"client", "server"}
    /\ splitOk \in BOOLEAN
    /\ srv \in SrvState
    /\ cli \in CliState(cli.up)

SendsChunks   == {"GetChunkSendChunk", "GetChunksSendChunksLast", "GetTimeSendChunk",
                  "GetTimeSendLastChunk", "PutTimeResultSendTimeResult"}
InUpload      == {"PerfSendChunks", "PerfSendLastChunk", "PerfReceiveTime", "PerfCompleted"}
StartsAtFirst == Reading \cup {"GetChunksSendTime", "GetTimeSendTime", "PutTimeResultSendOk"}

\* Where the two sides are in what they write.
Positions ==
    /\ srv.wpos <= MaxChunk /\ cli.wpos <= MaxChunk
    /\ srv.phase \in StartsAtFirst => srv.wpos = 0
    /\ srv.phase \notin SendsChunks => srv.wpos < 2
    /\ srv.phase = "GetChunkSendChunk" /\ srv.clock = "none" => srv.wpos = 0
    /\ cli.phase \notin InUpload => cli.wpos = 0

\* The number of chunks stays below twice the limit.  Pings, chunks and points are only
\* counted in their phases, and the client pings on only below MAX_PINGS.
BeforePings == {"GreetingSendConnectionType", "GreetingReceiveGreeting", "GreetingSendToken",
                "GreetingReceiveResponse", "GreetingCompleted", "GetChunksSendChunksCommand",
                "GetChunksReceiveChunk", "GetChunksSendOk", "GetChunksReceiveTime",
                "GetChunksCompleted"}
Pinging     == {"PingSendPing", "PingReceivePong", "PingSendOk", "PingReceiveTime"}

Counters ==
    /\ cli.total \in 1..(2 * MaxChunksBefore - 1) /\ cli.pings <= MaxPings
    /\ srv.phase \notin {"GetChunkSendChunk", "GetChunksSendChunksLast"} => srv.done = 0
    /\ cli.phase \notin InUpload => srv.points = 0 /\ cli.sent = 0
    /\ cli.phase \in BeforePings => cli.pings = 0
    /\ cli.phase \in Pinging => cli.pings < MaxPings

\* No clock runs in the greeting and between two commands.
SaysHello == {"GreetingReceiveConnectionType", "GreetingSendVersion", "GreetingSendAcceptToken",
              "GreetingReceiveToken", "GreetingSendOk", "GreetingSendChunksize"}

Clocks ==
    /\ srv.phase \in SaysHello \cup {"PingSendTime"} => srv.clock = "none"
    /\ srv.phase \in {"AcceptCommandSend", "AcceptCommandReceive"}
          /\ cli.phase \notin {"PerfReceiveTime", "PerfCompleted"} => srv.clock = "none"

\* Phases of the client in which the server waits for a command.
Idle == {"GreetingCompleted", "GetChunksSendChunksCommand", "GetChunksCompleted",
         "PingSendPing", "PingCompleted", "GetTimeSendCommand", "GetTimeCompleted",
         "PerfSendCommand"}

\* Nothing is on the way, and it is the client that speaks next.
Quiet(phases, p) ==
    /\ cli.phase \in phases /\ srv.phase = p
    /\ toServer = <<>> /\ toClient = <<>> /\ srv.got = <<>>
    /\ cli.phase \in {"GetTimeSendOk", "GetTimeCompleted", "PerfSendCommand"} \/ cli.got = <<>>

\* The client has said `line` and waits in phase c for an answer; the server, in phase p,
\* has not read all of it.
Asked(c, p, line) ==
    /\ cli.phase = c /\ srv.phase = p
    /\ srv.got \o toServer = line /\ toServer # <<>>
    /\ toClient = <<>> /\ cli.got = <<>>

\* So with an OK, which the server may have read in two pieces and then waits for in vain.
AskedOk(c, p) ==
    /\ cli.phase = c /\ srv.phase = p
    /\ srv.got \o toServer = OK
    /\ srv.got # <<>> => splitOk
    /\ toClient = <<>> /\ cli.got = <<>>

\* n units of `text` are said and some of them read, but not all of the text.
Hears(got, ch, text, n) ==
    n <= Len(text) /\ StartOf(got \o ch, text, n) /\ Len(got) < Len(text)

\* The server says `text`, said[p] units of it before it enters phase p.
Answering(c, text, said) ==
    /\ cli.phase = c /\ srv.phase \in DOMAIN said
    /\ toServer = <<>> /\ srv.got = <<>>
    /\ Hears(cli.got, toClient, text, said[srv.phase] + srv.wpos)

GreetingText == Line("UPGRADE", <<>>) \o Line("RMBT", <<>>) \o Line("ACCEPT TOKEN", <<>>)
ResponseText == OK \o Line("CHUNKSIZE", <<>>) \o Accept
TimeText     == Line("TIME", <<srv.time>>) \o Accept
GreetingSaid == [p \in {"GreetingSendVersion", "GreetingSendAcceptToken",
                        "GreetingReceiveToken"} |->
                    IF p = "GreetingSendVersion" THEN 2
                    ELSE IF p = "GreetingSendAcceptToken" THEN 4 ELSE 6]
ResponseSaid == [p \in {"GreetingSendOk", "GreetingSendChunksize", "AcceptCommandSend",
                        "AcceptCommandReceive"} |->
                    IF p = "GreetingSendOk" THEN 0 ELSE IF p = "GreetingSendChunksize" THEN 2
                    ELSE IF p = "AcceptCommandSend" THEN 4 ELSE 6]
PongSaid     == [p \in {"PongSend", "PingReceiveOk"} |-> IF p = "PongSend" THEN 0 ELSE 2]
TimeSaid(q)  == [p \in {q, "AcceptCommandSend", "AcceptCommandReceive"} |->
                    IF p = "AcceptCommandReceive" THEN 4 ELSE IF p = "AcceptCommandSend" THEN 2
                    ELSE 0]

\* The server sends chunks, the last of them before it enters phase `ok`.
Downloading(c, sending, last, ok) ==
    /\ cli.phase = c /\ srv.phase \in {sending, last, ok}
    /\ toServer = <<>> /\ srv.got = <<>>
    /\ srv.size = cli.size /\ Len(cli.got) < cli.size
    /\ Chunked(cli.got \o toClient, cli.size, srv.wpos, srv.phase = ok)

\* The server says OK to the upload, which the client may read in two pieces and then
\* waits for in vain.
UploadBegins ==
    /\ cli.phase = "PerfReceiveOk"
    /\ srv.phase \in {"PutTimeResultSendOk", "PutTimeResultReceiveChunk"}
    /\ toServer = <<>> /\ srv.got = <<>> /\ cli.got = <<>>
    /\ srv.size = cli.size
    /\ IF srv.phase = "PutTimeResultSendOk" THEN toClient = <<>>
       ELSE toClient = OK \/ (splitOk /\ Len(toClient) <= 1)

\* X is what is under way of `sent` chunks and w units, of which the server has counted
\* `points` chunks.
UnderWay(X, size, w, ended, sent, points) ==
    Chunked(X, size, w, ended) /\ points <= sent /\ Len(X) = (sent - points) * size + w

\* The client sends chunks; those that the server has no point for yet are on the way.
Uploading ==
    /\ cli.phase \in {"PerfSendChunks", "PerfSendLastChunk", "PerfReceiveTime"}
    /\ srv.phase = "PutTimeResultReceiveChunk"
    /\ toClient = <<>> /\ cli.got = <<>>
    /\ srv.size = cli.size /\ Len(srv.got) < srv.size
    /\ LET ended == cli.phase = "PerfReceiveTime"
       IN  UnderWay(srv.got \o toServer, srv.size, IF ended THEN 0 ELSE cli.wpos, ended,
                    cli.sent, srv.points)

\* The result, and the random bytes that follow it; the client looks for a newline only.
Reporting ==
    /\ cli.phase \in {"PerfReceiveTime", "PerfCompleted"}
    /\ srv.phase \in {"PutTimeResultSendTimeResult", "AcceptCommandSend", "AcceptCommandReceive"}
    /\ toServer = <<>> /\ srv.got = <<>>
    /\ srv.size \in Stored
    /\ srv.phase = "PutTimeResultSendTimeResult" => srv.points = cli.sent /\ srv.wpos < srv.size
    /\ srv.phase = "AcceptCommandReceive" /\ cli.phase = "PerfReceiveTime" =>
          toClient # <<>> /\ LastOf(toClient) = Accept[2]

Scene ==
    \/ Quiet({"GreetingSendConnectionType"}, "GreetingReceiveConnectionType")
    \/ Asked("GreetingReceiveGreeting", "GreetingReceiveConnectionType", Line("GET /rmbt", <<>>))
    \/ Answering("GreetingReceiveGreeting", GreetingText, GreetingSaid)
    \/ Quiet({"GreetingSendToken"}, "GreetingReceiveToken")
    \/ Asked("GreetingReceiveResponse", "GreetingReceiveToken", Line("TOKEN", <<>>))
    \/ Answering("GreetingReceiveResponse", ResponseText, ResponseSaid)
    \/ Quiet(Idle, "AcceptCommandReceive")
    \/ Asked("GetChunksReceiveChunk", "AcceptCommandReceive",
             Line("GETCHUNKS", <<cli.total, cli.size>>))
    \/ Downloading("GetChunksReceiveChunk", "GetChunkSendChunk", "GetChunksSendChunksLast",
                   "GetChunksReceiveOK")
    \/ Quiet({"GetChunksSendOk"}, "GetChunksReceiveOK")
    \/ AskedOk("GetChunksReceiveTime", "GetChunksReceiveOK")
    \/ Answering("GetChunksReceiveTime", TimeText, TimeSaid("GetChunksSendTime"))
    \/ Asked("PingReceivePong", "AcceptCommandReceive", Line("PING", <<>>))
    \/ Answering("PingReceivePong", Line("PONG", <<>>), PongSaid)
    \/ Quiet({"PingSendOk"}, "PingReceiveOk")
    \/ AskedOk("PingReceiveTime", "PingReceiveOk")
    \/ Answering("PingReceiveTime", TimeText, TimeSaid("PingSendTime"))
    \/ Asked("GetTimeReceiveChunk", "AcceptCommandReceive", Line("GETTIME", <<cli.size>>))
    \/ Downloading("GetTimeReceiveChunk", "GetTimeSendChunk", "GetTimeSendLastChunk",
                   "GetTimeReceiveOk")
    \/ Quiet({"GetTimeSendOk"}, "GetTimeReceiveOk")
    \/ AskedOk("GetTimeReceiveTime", "GetTimeReceiveOk")
    \/ Answering("GetTimeReceiveTime", TimeText, TimeSaid("GetTimeSendTime"))
    \/ Asked("PerfReceiveOk", "AcceptCommandReceive", Line("PUTTIMERESULT", <<cli.size>>))
    \/ UploadBegins
    \/ Uploading
    \/ Reporting

SessionInv == Typed /\ Positions /\ Counters /\ Clocks /\ Scene
-----------------------------------------------------------------------------
(* Which scene it is, by the phase of either side.                         *)

LEMMA SrvScene ==
    ASSUME Scene
    PROVE  /\ srv.phase = "GreetingReceiveConnectionType" /\ toServer # <<>> =>
                 Asked("GreetingReceiveGreeting", "GreetingReceiveConnectionType",
                       Line("GET /rmbt", <<>>))
           /\ srv.phase \in {"GreetingSendVersion", "GreetingSendAcceptToken"} =>
                 Answering("GreetingReceiveGreeting", GreetingText, GreetingSaid)
           /\ srv.phase = "GreetingReceiveToken" /\ toServer # <<>> =>
                 Asked("GreetingReceiveResponse", "GreetingReceiveToken", Line("TOKEN", <<>>))
           /\ srv.phase \in {"GreetingSendOk", "GreetingSendChunksize"} =>
                 Answering("GreetingReceiveResponse", ResponseText, ResponseSaid)
           /\ srv.phase = "AcceptCommandSend" =>
                 \/ Answering("GreetingReceiveResponse", ResponseText, ResponseSaid)
                 \/ Answering("GetChunksReceiveTime", TimeText, TimeSaid("GetChunksSendTime"))
                 \/ Answering("PingReceiveTime", TimeText, TimeSaid("PingSendTime"))
                 \/ Answering("GetTimeReceiveTime", TimeText, TimeSaid("GetTimeSendTime"))
                 \/ Reporting
           /\ srv.phase = "AcceptCommandReceive" /\ toServer # <<>> =>
                 \/ Asked("GetChunksReceiveChunk", "AcceptCommandReceive",
                          Line("GETCHUNKS", <<cli.total, cli.size>>))
                 \/ Asked("PingReceivePong", "AcceptCommandReceive", Line("PING", <<>>))
                 \/ Asked("GetTimeReceiveChunk", "AcceptCommandReceive",
                          Line("GETTIME", <<cli.size>>))
                 \/ Asked("PerfReceiveOk", "AcceptCommandReceive",
                          Line("PUTTIMERESULT", <<cli.size>>))
           /\ srv.phase \in {"GetChunkSendChunk", "GetChunksSendChunksLast"} =>
                 Downloading("GetChunksReceiveChunk", "GetChunkSendChunk",
                             "GetChunksSendChunksLast", "GetChunksReceiveOK")
           /\ srv.phase = "GetChunksReceiveOK" /\ toServer # <<>> =>
                 AskedOk("GetChunksReceiveTime", "GetChunksReceiveOK")
           /\ srv.phase = "GetChunksSendTime" =>
                 Answering("GetChunksReceiveTime", TimeText, TimeSaid("GetChunksSendTime"))
           /\ srv.phase = "PongSend" =>
                 Answering("PingReceivePong", Line("PONG", <<>>), PongSaid)
           /\ srv.phase = "PingReceiveOk" /\ toServer # <<>> =>
                 AskedOk("PingReceiveTime", "PingReceiveOk")
           /\ srv.phase = "PingSendTime" =>
                 Answering("PingReceiveTime", TimeText, TimeSaid("PingSendTime"))
           /\ srv.phase \in {"GetTimeSendChunk", "GetTimeSendLastChunk"} =>
                 Downloading("GetTimeReceiveChunk", "GetTimeSendChunk", "GetTimeSendLastChunk",
                             "GetTimeReceiveOk")
           /\ srv.phase = "GetTimeReceiveOk" /\ toServer # <<>> =>
                 AskedOk("GetTimeReceiveTime", "GetTimeReceiveOk")
           /\ srv.phase = "GetTimeSendTime" =>
                 Answering("GetTimeReceiveTime", TimeText, TimeSaid("GetTimeSendTime"))
           /\ srv.phase = "PutTimeResultSendOk" => UploadBegins
           /\ srv.phase = "PutTimeResultReceiveChunk" /\ toServer # <<>> => Uploading
           /\ srv.phase = "PutTimeResultSendTimeResult" => Reporting
BY DEF Scene, Quiet, Asked, AskedOk, Answering, GreetingSaid, ResponseSaid, TimeSaid, PongSaid,
       Downloading, UploadBegins, Uploading, Reporting, Idle

LEMMA CliScene ==
    ASSUME Scene
    PROVE  /\ cli.phase = "GreetingSendConnectionType" =>
                 Quiet({"GreetingSendConnectionType"}, "GreetingReceiveConnectionType")
           /\ cli.phase = "GreetingReceiveGreeting" /\ toClient # <<>> =>
                 Answering("GreetingReceiveGreeting", GreetingText, GreetingSaid)
           /\ cli.phase = "GreetingSendToken" =>
                 Quiet({"GreetingSendToken"}, "GreetingReceiveToken")
           /\ cli.phase = "GreetingReceiveResponse" /\ toClient # <<>> =>
                 Answering("GreetingReceiveResponse", ResponseText, ResponseSaid)
           /\ cli.phase \in Idle => Quiet(Idle, "AcceptCommandReceive")
           /\ cli.phase = "GetChunksReceiveChunk" /\ toClient # <<>> =>
                 Downloading("GetChunksReceiveChunk", "GetChunkSendChunk",
                             "GetChunksSendChunksLast", "GetChunksReceiveOK")
           /\ cli.phase = "GetChunksSendOk" => Quiet({"GetChunksSendOk"}, "GetChunksReceiveOK")
           /\ cli.phase = "GetChunksReceiveTime" /\ toClient # <<>> =>
                 Answering("GetChunksReceiveTime", TimeText, TimeSaid("GetChunksSendTime"))
           /\ cli.phase = "PingReceivePong" /\ toClient # <<>> =>
                 Answering("PingReceivePong", Line("PONG", <<>>), PongSaid)
           /\ cli.phase = "PingSendOk" => Quiet({"PingSendOk"}, "PingReceiveOk")
           /\ cli.phase = "PingReceiveTime" /\ toClient # <<>> =>
                 Answering("PingReceiveTime", TimeText, TimeSaid("PingSendTime"))
           /\ cli.phase = "GetTimeReceiveChunk" /\ toClient # <<>> =>
                 Downloading("GetTimeReceiveChunk", "GetTimeSendChunk", "GetTimeSendLastChunk",
                             "GetTimeReceiveOk")
           /\ cli.phase = "GetTimeSendOk" => Quiet({"GetTimeSendOk"}, "GetTimeReceiveOk")
           /\ cli.phase = "GetTimeReceiveTime" /\ toClient # <<>> =>
                 Answering("GetTimeReceiveTime", TimeText, TimeSaid("GetTimeSendTime"))
           /\ cli.phase = "PerfReceiveOk" /\ toClient # <<>> => UploadBegins
           /\ cli.phase \in {"PerfSendChunks", "PerfSendLastChunk"} => Uploading
           /\ cli.phase = "PerfReceiveTime" /\ toClient # <<>> => Reporting
BY DEF Scene, Quiet, Asked, AskedOk, Answering, GreetingSaid, ResponseSaid, TimeSaid, PongSaid,
       Downloading, UploadBegins, Uploading, Reporting, Idle
-----------------------------------------------------------------------------
(* The texts of the server.                                                *)

LEMMA TwoLines ==
    ASSUME NEW s \in Seq(Unit), Len(s) = 2, NEW t \in Seq(Unit), Len(t) = 2
    PROVE  /\ s \o t \in Seq(Unit) /\ Len(s \o t) = 4
           /\ (s \o t)[1] = s[1] /\ (s \o t)[2] = s[2]
           /\ (s \o t)[3] = t[1] /\ (s \o t)[4] = t[2]
<1> DEFINE u == s \o t
<1>1. /\ u \in Seq(Unit) /\ Len(u) = Len(s) + Len(t)
      /\ \A i \in 1..Len(s) : u[i] = s[i]
      /\ \A i \in 1..Len(t) : u[Len(s) + i] = t[i]
  BY JoinOf
<1> HIDE DEF u
<1>2. u[1] = s[1] /\ u[2] = s[2] /\ u[2 + 1] = t[1] /\ u[2 + 2] = t[2]
  BY <1>1
<1>3. u[3] = t[1] /\ u[4] = t[2]
  BY <1>2
<1>4. QED
  BY <1>1, <1>2, <1>3 DEF u

LEMMA ThreeLines ==
    ASSUME NEW s \in Seq(Unit), Len(s) = 2, NEW t \in Seq(Unit), Len(t) = 2,
           NEW u \in Seq(Unit), Len(u) = 2
    PROVE  LET text == s \o t \o u
           IN  /\ text \in Seq(Unit) /\ Len(text) = 6
               /\ text[1] = s[1] /\ text[2] = s[2] /\ text[3] = t[1]
               /\ text[4] = t[2] /\ text[5] = u[1] /\ text[6] = u[2]
<1> DEFINE v == s \o t
           w == v \o u
<1>1. /\ v \in Seq(Unit) /\ Len(v) = 4
      /\ v[1] = s[1] /\ v[2] = s[2] /\ v[3] = t[1] /\ v[4] = t[2]
  BY TwoLines
<1> HIDE DEF v
<1>2. /\ w \in Seq(Unit) /\ Len(w) = Len(v) + Len(u)
      /\ \A i \in 1..Len(v) : w[i] = v[i]
      /\ \A i \in 1..Len(u) : w[Len(v) + i] = u[i]
  BY <1>1, JoinOf
<1> HIDE DEF w
<1>3. w[1] = v[1] /\ w[2] = v[2] /\ w[3] = v[3] /\ w[4] = v[4]
  BY <1>1, <1>2
<1>4. w[4 + 1] = u[1] /\ w[4 + 2] = u[2]
  BY <1>1, <1>2
<1>5. w[5] = u[1] /\ w[6] = u[2]
  BY <1>4
<1>6. QED
  BY <1>1, <1>2, <1>3, <1>5 DEF v, w

\* text ends with `line`, and holds its tail nowhere else.
EndsOnce(text, line) ==
    /\ line \in Seq(Unit) /\ Len(line) = 2 /\ Len(text) >= 2
    /\ text[Len(text) - 1] = line[1] /\ text[Len(text)] = line[2]
    /\ \A i \in 1..(Len(text) - 1) : text[i] # line[2]

\* The line that the text goes on with after n units.
GoesOn(text, n, line) ==
    /\ line \in Seq(Unit) /\ Len(line) = 2 /\ n + 2 <= Len(text)
    /\ text[n + 1] = line[1] /\ text[n + 2] = line[2]

LEMMA NoArg == <<>> \in Seq(Nat) /\ \A n \in Nat : <<n>> \in Seq(Nat)
OBVIOUS

LEMMA LineIsLine ==
    ASSUME NEW of \in Words, NEW arg \in Seq(Nat)
    PROVE  IsLine(Line(of, arg), of)
<1> DEFINE line == Line(of, arg)
<1>1. /\ line \in Seq(Unit) /\ Len(line) = 2
      /\ line[1] = [of |-> of, at |-> 1, arg |-> arg]
      /\ line[2] = [of |-> of, at |-> 2, arg |-> arg]
  BY LineFacts
<1> HIDE DEF line
<1>2. line[1].of = of /\ line[1].at = 1 /\ line[2].of = of /\ line[2].at = 2
  BY <1>1
<1>3. IsLine(line, of)
  BY <1>1, <1>2 DEF IsLine
<1>4. QED
  BY <1>3 DEF line

LEMMA Tails ==
    ASSUME NEW s, NEW t, NEW head, NEW word,
           IsLine(s, head), IsLine(t, word), head # word
    PROVE  s[2] # t[1] /\ s[2] # t[2] /\ s[2] # s[1]
<1>1. s[1].at = 1 /\ s[2].at = 2 /\ t[1].at = 1 /\ t[2].of = word /\ s[2].of = head
  BY DEF IsLine
<1>2. s[1].at # s[2].at /\ t[1].at # s[2].at /\ t[2].of # s[2].of
  BY <1>1
<1>3. QED
  BY <1>2, Zenon

LEMMA GreetingTextFacts ==
    /\ GreetingText \in Seq(Unit) /\ Len(GreetingText) = 6
    /\ GreetingText[1] = Line("UPGRADE", <<>>)[1] /\ GreetingText[2] = Line("UPGRADE", <<>>)[2]
    /\ GoesOn(GreetingText, GreetingSaid["GreetingSendVersion"], Line("RMBT", <<>>))
    /\ GoesOn(GreetingText, GreetingSaid["GreetingSendAcceptToken"], Line("ACCEPT TOKEN", <<>>))
    /\ EndsOnce(GreetingText, Line("ACCEPT TOKEN", <<>>))
<1> DEFINE a == Line("UPGRADE", <<>>)
           b == Line("RMBT", <<>>)
           c == Line("ACCEPT TOKEN", <<>>)
<1>1. GreetingText = a \o b \o c
  BY DEF GreetingText
<1>2. IsLine(a, "UPGRADE") /\ IsLine(b, "RMBT") /\ IsLine(c, "ACCEPT TOKEN")
  BY LineIsLine, NoArg DEF Words
<1> HIDE DEF a, b, c
<1>3. /\ a \in Seq(Unit) /\ Len(a) = 2 /\ b \in Seq(Unit) /\ Len(b) = 2
      /\ c \in Seq(Unit) /\ Len(c) = 2
  BY <1>2 DEF IsLine
<1>4. /\ GreetingText \in Seq(Unit) /\ Len(GreetingText) = 6
      /\ GreetingText[1] = a[1] /\ GreetingText[2] = a[2] /\ GreetingText[3] = b[1]
      /\ GreetingText[4] = b[2] /\ GreetingText[5] = c[1] /\ GreetingText[6] = c[2]
  <2> DEFINE text == a \o b \o c
  <2>1. /\ text \in Seq(Unit) /\ Len(text) = 6
        /\ text[1] = a[1] /\ text[2] = a[2] /\ text[3] = b[1]
        /\ text[4] = b[2] /\ text[5] = c[1] /\ text[6] = c[2]
    BY <1>3, ThreeLines
  <2>2. GreetingText = text
    BY <1>1
  <2> HIDE DEF text
  <2>3. QED
    BY <2>1, <2>2
<1>5. c[2] # a[1] /\ c[2] # a[2] /\ c[2] # b[1] /\ c[2] # b[2] /\ c[2] # c[1]
  BY <1>2, Tails
<1>6. \A i \in 1..(6 - 1) : i \in {1, 2, 3, 4, 5}
  OBVIOUS
<1>7. EndsOnce(GreetingText, c)
  BY <1>3, <1>4, <1>5, <1>6 DEF EndsOnce
<1>8. GreetingSaid["GreetingSendVersion"] = 2 /\ GreetingSaid["GreetingSendAcceptToken"] = 4
  BY DEF GreetingSaid
<1>9. /\ GoesOn(GreetingText, GreetingSaid["GreetingSendVersion"], b)
      /\ GoesOn(GreetingText, GreetingSaid["GreetingSendAcceptToken"], c)
  BY <1>3, <1>4, <1>8 DEF GoesOn
<1>10. QED
  BY <1>4, <1>7, <1>9 DEF a, b, c

LEMMA ResponseTextFacts ==
    /\ ResponseText \in Seq(Unit) /\ Len(ResponseText) = 6
    /\ GoesOn(ResponseText, ResponseSaid["GreetingSendOk"], OK)
    /\ GoesOn(ResponseText, ResponseSaid["GreetingSendChunksize"], Line("CHUNKSIZE", <<>>))
    /\ GoesOn(ResponseText, ResponseSaid["AcceptCommandSend"], Accept)
    /\ EndsOnce(ResponseText, Accept)
<1> DEFINE b == Line("CHUNKSIZE", <<>>)
<1>1. ResponseText = OK \o b \o Accept
  BY DEF ResponseText
<1>2. IsLine(OK, "OK") /\ IsLine(b, "CHUNKSIZE") /\ IsLine(Accept, "ACCEPT GETCHUNKS")
  BY LineIsLine, NoArg DEF Words, OK, Accept
<1> HIDE DEF b
<1>3. /\ OK \in Seq(Unit) /\ Len(OK) = 2 /\ b \in Seq(Unit) /\ Len(b) = 2
      /\ Accept \in Seq(Unit) /\ Len(Accept) = 2
  BY <1>2 DEF IsLine
<1>4. /\ ResponseText \in Seq(Unit) /\ Len(ResponseText) = 6
      /\ ResponseText[1] = OK[1] /\ ResponseText[2] = OK[2] /\ ResponseText[3] = b[1]
      /\ ResponseText[4] = b[2] /\ ResponseText[5] = Accept[1] /\ ResponseText[6] = Accept[2]
  <2> DEFINE text == OK \o b \o Accept
  <2>1. /\ text \in Seq(Unit) /\ Len(text) = 6
        /\ text[1] = OK[1] /\ text[2] = OK[2] /\ text[3] = b[1]
        /\ text[4] = b[2] /\ text[5] = Accept[1] /\ text[6] = Accept[2]
    BY <1>3, ThreeLines
  <2>2. ResponseText = text
    BY <1>1
  <2> HIDE DEF text
  <2>3. QED
    BY <2>1, <2>2
<1>5. /\ Accept[2] # OK[1] /\ Accept[2] # OK[2] /\ Accept[2] # b[1] /\ Accept[2] # b[2]
      /\ Accept[2] # Accept[1]
  BY <1>2, Tails
<1>6. \A i \in 1..(6 - 1) : i \in {1, 2, 3, 4, 5}
  OBVIOUS
<1>7. EndsOnce(ResponseText, Accept)
  BY <1>3, <1>4, <1>5, <1>6 DEF EndsOnce
<1>8. /\ ResponseSaid["GreetingSendOk"] = 0 /\ ResponseSaid["GreetingSendChunksize"] = 2
      /\ ResponseSaid["AcceptCommandSend"] = 4
  BY DEF ResponseSaid
<1>9. /\ GoesOn(ResponseText, ResponseSaid["GreetingSendOk"], OK)
      /\ GoesOn(ResponseText, ResponseSaid["GreetingSendChunksize"], b)
      /\ GoesOn(ResponseText, ResponseSaid["AcceptCommandSend"], Accept)
  BY <1>3, <1>4, <1>8 DEF GoesOn
<1>10. QED
  BY <1>4, <1>7, <1>9 DEF b

LEMMA TimeTextFacts ==
    ASSUME srv.time \in {0, 1},
           NEW q \in {"GetChunksSendTime", "PingSendTime", "GetTimeSendTime"}
    PROVE  /\ TimeText \in Seq(Unit) /\ Len(TimeText) = 4
           /\ GoesOn(TimeText, TimeSaid(q)[q], Line("TIME", <<srv.time>>))
           /\ GoesOn(TimeText, TimeSaid(q)["AcceptCommandSend"], Accept)
           /\ EndsOnce(TimeText, Accept)
           /\ TimeText[1].of = "TIME" /\ TimeText[1].at = 1 /\ TimeText[2].at = 2
<1> DEFINE a == Line("TIME", <<srv.time>>)
<1>1. TimeText = a \o Accept
  BY DEF TimeText
<1>2. IsLine(a, "TIME") /\ IsLine(Accept, "ACCEPT GETCHUNKS")
  <2>1. <<srv.time>> \in Seq(Nat)
    BY NoArg
  <2>2. QED
    BY <2>1, LineIsLine, NoArg DEF Words, Accept
<1> HIDE DEF a
<1>3. a \in Seq(Unit) /\ Len(a) = 2 /\ Accept \in Seq(Unit) /\ Len(Accept) = 2
  BY <1>2 DEF IsLine
<1>4. /\ TimeText \in Seq(Unit) /\ Len(TimeText) = 4
      /\ TimeText[1] = a[1] /\ TimeText[2] = a[2]
      /\ TimeText[3] = Accept[1] /\ TimeText[4] = Accept[2]
  BY <1>1, <1>3, TwoLines
<1>5. Accept[2] # a[1] /\ Accept[2] # a[2] /\ Accept[2] # Accept[1]
  BY <1>2, Tails
<1>6. a[1].of = "TIME" /\ a[1].at = 1 /\ a[2].at = 2
  BY <1>2 DEF IsLine
<1>7. \A i \in 1..(4 - 1) : i \in {1, 2, 3}
  OBVIOUS
<1>8. EndsOnce(TimeText, Accept)
  BY <1>3, <1>4, <1>5, <1>7 DEF EndsOnce
<1>9. TimeSaid(q)[q] = 0 /\ TimeSaid(q)["AcceptCommandSend"] = 2
  BY DEF TimeSaid
<1>10. /\ GoesOn(TimeText, TimeSaid(q)[q], a)
       /\ GoesOn(TimeText, TimeSaid(q)["AcceptCommandSend"], Accept)
  BY <1>3, <1>4, <1>9 DEF GoesOn
<1>11. QED
  BY <1>4, <1>6, <1>8, <1>10 DEF a

LEMMA PongTextFacts ==
    /\ Line("PONG", <<>>) \in Seq(Unit) /\ Len(Line("PONG", <<>>)) = 2
    /\ GoesOn(Line("PONG", <<>>), PongSaid["PongSend"], Line("PONG", <<>>))
<1>1. Line("PONG", <<>>) \in Seq(Unit) /\ Len(Line("PONG", <<>>)) = 2
  BY LineFacts, NoArg DEF Words
<1>2. PongSaid["PongSend"] = 0
  BY DEF PongSaid
<1>3. QED
  BY <1>1, <1>2 DEF GoesOn
-----------------------------------------------------------------------------
(* The server says a line of its text.                                     *)

LEMMA Parts ==
    ASSUME Typed
    PROVE  /\ srv.got \in Seq(Unit) /\ cli.got \in Seq(Unit) /\ srv.wpos \in Nat
           /\ cli.wpos \in Nat /\ srv.time \in {0, 1} /\ cli.size \in Stored
           /\ srv.size \in {0} \cup Stored /\ cli.result \in Seq(Unit)
           /\ toServer \in Seq(Unit) /\ Len(toServer) <= Cap
           /\ toClient \in Seq(Unit) /\ Len(toClient) <= Cap
           /\ srv \in SrvState /\ cli \in CliState(cli.up)
BY DEF Typed, SrvState, CliState

LEMMA AnewFacts ==
    ASSUME srv \in SrvState, NEW p \in ServerPhases
    PROVE  /\ Anew(p) \in SrvState /\ Anew(p).phase = p
           /\ Anew(p).wpos = 0 /\ Anew(p).got = <<>>
           /\ Anew(p).size = srv.size /\ Anew(p).done = srv.done /\ Anew(p).clock = srv.clock
           /\ Anew(p).time = srv.time /\ Anew(p).points = srv.points
<1>1. <<>> \in Seq(Unit)
  OBVIOUS
<1>2. Anew(p) \in SrvState
  BY <1>1 DEF SrvState, Anew
<1>3. Anew(p).phase = p /\ Anew(p).wpos = 0 /\ Anew(p).got = <<>>
  BY DEF SrvState, Anew
<1>4. /\ Anew(p).size = srv.size /\ Anew(p).done = srv.done /\ Anew(p).clock = srv.clock
      /\ Anew(p).time = srv.time /\ Anew(p).points = srv.points
  BY DEF SrvState, Anew
<1>5. QED
  BY <1>2, <1>3, <1>4

\* The session s with half of a line written.
Half(s) == [s EXCEPT !.wpos = 1]

LEMMA HalfFacts ==
    ASSUME NEW s \in SrvState
    PROVE  /\ Half(s) \in SrvState /\ Half(s).wpos = 1
           /\ Half(s).phase = s.phase /\ Half(s).got = s.got
           /\ Half(s).size = s.size /\ Half(s).done = s.done
           /\ Half(s).clock = s.clock /\ Half(s).time = s.time
           /\ Half(s).points = s.points
<1>1. Half(s) \in SrvState
  BY DEF SrvState, Half
<1>2. Half(s).wpos = 1
  BY DEF SrvState, Half
<1>3. /\ Half(s).phase = s.phase /\ Half(s).got = s.got
      /\ Half(s).size = s.size /\ Half(s).done = s.done
      /\ Half(s).clock = s.clock /\ Half(s).time = s.time
      /\ Half(s).points = s.points
  BY DEF SrvState, Half
<1>4. QED
  BY <1>1, <1>2, <1>3

LEMMA AnswerGrows ==
    ASSUME Typed, UNCHANGED cli, srv.wpos < 2,
           NEW c, NEW text \in Seq(Unit), NEW said, Answering(c, text, said),
           NEW p \in DOMAIN said, NEW q \in DOMAIN said, NEW line,
           said[p] \in Nat, said[q] = said[p] + 2, GoesOn(text, said[p], line),
           NEW begun \in SrvState, begun.phase = p, begun.got = <<>>,
           NEW fin \in SrvState, fin.phase = q, fin.wpos = 0, fin.got = <<>>,
           SrvWrites(p, line, begun, fin)
    PROVE  /\ toClient' \in Seq(Unit) /\ Len(toClient') <= Cap
           /\ UNCHANGED <<toServer, gone, splitOk>>
           /\ srv' \in SrvState /\ srv.phase = p /\ srv.status = "open"
           /\ srv' = fin \/ srv' = Half(begun)
           /\ Answering(c, text, said)'
<1> DEFINE w   == srv.wpos
           n   == said[p]
           out == Taken(toClient, line, w)
<1>1. srv.phase = p /\ srv.status = "open"
  BY DEF SrvWrites, SrvWritesFrom, At
<1>2. /\ cli.got \in Seq(Unit) /\ toClient \in Seq(Unit) /\ Len(toClient) <= Cap
      /\ w \in {0, 1}
  <2>1. \A m \in Nat : m < 2 => m \in {0, 1}
    OBVIOUS
  <2>2. QED
    BY <2>1, Parts
<1>3. /\ line \in Seq(Unit) /\ Len(line) = 2 /\ n + 2 <= Len(text)
      /\ text[n + 1] = line[1] /\ text[n + 2] = line[2]
  BY DEF GoesOn
<1>4. StartOf(cli.got \o toClient, text, n + w) /\ Len(cli.got) < Len(text)
  BY <1>1 DEF Hears, Answering
<1>5. /\ out # <<>>
      /\ toClient' = toClient \o out
      /\ srv' = IF w + Len(out) = Len(line) THEN fin ELSE [begun EXCEPT !.wpos = w + Len(out)]
      /\ UNCHANGED <<toServer, gone, splitOk>>
  BY DEF SrvWrites, SrvWritesFrom
<1> HIDE DEF w, out
<1>6. /\ toClient \o out \in Seq(Unit) /\ Len(toClient \o out) <= Cap
      /\ Len(out) \in Nat /\ w + Len(out) <= 2
      /\ StartOf(cli.got \o (toClient \o out), text, n + w + Len(out))
  BY <1>2, <1>3, <1>4, SayingLine DEF out
<1>7. out \in Seq(Unit) /\ Len(out) >= 1
  <2>1. w \in 0..Len(line)
    BY <1>2, <1>3
  <2>2. out \in Seq(Unit)
    BY <1>2, <1>3, <2>1, TakenFacts DEF out
  <2>3. QED
    BY <1>5, <2>2
<1>8. srv' \in SrvState /\ (srv' = fin \/ srv' = Half(begun))
      /\ srv'.phase \in DOMAIN said /\ srv'.got = <<>>
      /\ n + w + Len(out) = said[srv'.phase] + srv'.wpos
      /\ said[srv'.phase] + srv'.wpos <= Len(text)
  <2>1. CASE w + Len(out) = 2
    <3>1. srv' = fin /\ n + w + Len(out) = n + 2
      BY <1>2, <1>3, <1>5, <1>6, <2>1
    <3>2. QED
      BY <1>3, <3>1
  <2>2. CASE w + Len(out) # 2
    <3>1. w + Len(out) = 1 /\ n + w + Len(out) = n + 1
      BY <1>2, <1>6, <1>7, <2>2
    <3>2. srv' = [begun EXCEPT !.wpos = w + Len(out)]
      BY <1>3, <1>5, <2>2
    <3>3. srv' = Half(begun)
      BY <3>1, <3>2 DEF Half
    <3>4. srv' \in SrvState
      BY <3>3, HalfFacts
    <3>5. srv'.phase = p /\ srv'.got = <<>>
      BY <3>3, HalfFacts
    <3>6. srv'.wpos = 1
      BY <3>3, HalfFacts
    <3>7. n + 1 <= Len(text)
      BY <1>3
    <3>8. QED
      BY <3>1, <3>3, <3>4, <3>5, <3>6, <3>7
  <2>3. QED
    BY <2>1, <2>2
<1>9. Hears(cli.got, toClient', text, said[srv'.phase] + srv'.wpos)
  <2> DEFINE m == said[srv'.phase] + srv'.wpos
  <2>1. n + w + Len(out) = m /\ m <= Len(text)
    BY <1>8
  <2> HIDE DEF m, n
  <2>2. QED
    BY <1>4, <1>5, <1>6, <2>1 DEF Hears, m
<1>10. cli.phase = c /\ toServer = <<>>
  BY DEF Answering
<1>11. Answering(c, text, said)'
  BY <1>5, <1>8, <1>9, <1>10 DEF Answering
<1>12. toClient' \in Seq(Unit) /\ Len(toClient') <= Cap
  BY <1>5, <1>6
<1>13. UNCHANGED <<toServer, gone, splitOk>>
  BY <1>5
<1>14. srv' \in SrvState
  BY <1>8
<1>15. srv' = fin \/ srv' = Half(begun)
  BY <1>8
<1>16. QED
  BY <1>1, <1>11, <1>12, <1>13, <1>14, <1>15

LEMMA Phases ==
    ServerPhases = {"GreetingSendVersion", "GreetingSendAcceptToken", "GreetingSendOk",
                "GreetingSendChunksize", "AcceptCommandSend", "GetChunkSendChunk",
                "GetChunksSendChunksLast", "GetChunksSendTime", "PongSend", "PingSendTime",
                "GetTimeSendChunk", "GetTimeSendLastChunk", "GetTimeSendTime",
                "PutTimeResultSendOk", "PutTimeResultSendTimeResult",
                "GreetingReceiveToken", "GetChunksReceiveOK", "GetTimeReceiveOk",
                "GreetingReceiveConnectionType", "AcceptCommandReceive", "PingReceiveOk",
                "PutTimeResultReceiveChunk"}
BY DEF ServerPhases, ServerTalks, Reading, SpinsOnEof

\* Phases in which the server says a line of its text, and those that follow.
Speaks == {"GreetingSendVersion", "GreetingSendAcceptToken", "GreetingSendOk",
          "GreetingSendChunksize", "AcceptCommandSend", "GetChunksSendTime", "PongSend",
          "PingSendTime", "GetTimeSendTime"}
Spoken == Speaks \cup {"GreetingReceiveToken", "AcceptCommandReceive", "PingReceiveOk"}

\* What else the invariant says is not disturbed by a line that is said.
LEMMA AnswerKeeps ==
    ASSUME SessionInv, UNCHANGED <<cli, toServer, gone, splitOk>>,
           toClient' \in Seq(Unit), Len(toClient') <= Cap, srv' \in SrvState,
           srv.phase \in Speaks, srv'.phase \in Spoken,
           srv'.wpos \in {0, 1}, srv'.phase \in StartsAtFirst => srv'.wpos = 0,
           srv'.done = srv.done, srv'.points = srv.points,
           srv'.phase \in {"PongSend", "PingReceiveOk"} \/ srv'.clock = "none"
    PROVE  Typed' /\ Positions' /\ Counters' /\ Clocks'
<1>1. Typed /\ Positions /\ Counters /\ Clocks
  BY DEF SessionInv
<1>2. Typed'
  BY <1>1 DEF Typed
<1>3. Positions'
  BY <1>1, Bounds DEF Positions, SendsChunks, InUpload, Spoken, Speaks
<1>4. Counters'
  BY <1>1 DEF Counters, Speaks, Spoken
<1>5. Clocks'
  BY DEF Clocks, SaysHello
<1>6. QED
  BY <1>2, <1>3, <1>4, <1>5

LEMMA LineSaid ==
    ASSUME SessionInv, UNCHANGED cli,
           NEW c, NEW text \in Seq(Unit), NEW said, Answering(c, text, said),
           NEW p \in Speaks, p \notin StartsAtFirst, p \in DOMAIN said,
           NEW q \in Spoken, q \in DOMAIN said,
           NEW line, said[p] \in Nat, said[q] = said[p] + 2, GoesOn(text, said[p], line),
           NEW begun \in SrvState, begun.phase = p, begun.got = <<>>,
           begun.done = srv.done, begun.points = srv.points, begun.time = srv.time,
           begun.clock = "none" \/ p = "PongSend",
           NEW fin \in SrvState, fin.phase = q, fin.wpos = 0, fin.got = <<>>,
           fin.done = srv.done, fin.points = srv.points, fin.time = srv.time,
           fin.clock = "none" \/ q = "PingReceiveOk",
           SrvWrites(p, line, begun, fin)
    PROVE  /\ Typed' /\ Positions' /\ Counters' /\ Clocks'
           /\ Answering(c, text, said)'
           /\ srv'.time = srv.time
<1>1. Typed /\ Positions /\ srv.phase = p
  BY DEF SessionInv, SrvWrites, SrvWritesFrom, At
<1>2. srv.wpos < 2
  BY <1>1 DEF Positions, SendsChunks, Speaks
<1>3. /\ toClient' \in Seq(Unit) /\ Len(toClient') <= Cap
      /\ UNCHANGED <<toServer, gone, splitOk>>
      /\ srv' \in SrvState
      /\ srv' = fin \/ srv' = Half(begun)
      /\ Answering(c, text, said)'
  BY <1>1, <1>2, AnswerGrows
<1>4. /\ srv'.wpos \in {0, 1} /\ srv'.phase \in {p, q}
      /\ srv'.done = srv.done /\ srv'.points = srv.points /\ srv'.time = srv.time
      /\ srv'.phase \in {"PongSend", "PingReceiveOk"} \/ srv'.clock = "none"
      /\ srv'.phase \in StartsAtFirst => srv'.wpos = 0
  BY <1>3, HalfFacts
<1>5. Typed' /\ Positions' /\ Counters' /\ Clocks'
  BY <1>1, <1>3, <1>4, AnswerKeeps DEF Speaks, Spoken
<1>6. QED
  BY <1>3, <1>4, <1>5

LEMMA SaysFacts ==
    ASSUME srv \in SrvState, NEW p \in ServerPhases
    PROVE  /\ Says(p) \in SrvState /\ Says(p).phase = p
           /\ Says(p).wpos = 0 /\ Says(p).got = srv.got
           /\ Says(p).size = srv.size /\ Says(p).done = srv.done /\ Says(p).clock = srv.clock
           /\ Says(p).time = srv.time /\ Says(p).points = srv.points
<1>1. Says(p) \in SrvState
  BY DEF SrvState, Says
<1>2. Says(p).phase = p /\ Says(p).wpos = 0
  BY DEF SrvState, Says
<1>3. /\ Says(p).got = srv.got
      /\ Says(p).size = srv.size /\ Says(p).done = srv.done /\ Says(p).clock = srv.clock
      /\ Says(p).time = srv.time /\ Says(p).points = srv.points
  BY DEF SrvState, Says
<1>4. QED
  BY <1>1, <1>2, <1>3

LEMMA SendVersion ==
    ASSUME SessionInv, handle_greeting_send_version, UNCHANGED cli
    PROVE  SessionInv'
<1> DEFINE p == "GreetingSendVersion"
           q == "GreetingSendAcceptToken"
           line == Line("RMBT", <<>>)
<1>1. /\ Typed /\ Positions /\ Clocks /\ Scene
      /\ SrvWrites(p, line, srv, Anew(q))
  BY DEF SessionInv, handle_greeting_send_version
<1>2. srv.phase = p
  BY <1>1 DEF SrvWrites, SrvWritesFrom, At
<1>3. Answering("GreetingReceiveGreeting", GreetingText, GreetingSaid)
  BY <1>1, <1>2, SrvScene
<1>4. srv.got = <<>> /\ srv.clock = "none"
  BY <1>1, <1>2, <1>3 DEF Answering, Clocks, SaysHello
<1>5. /\ p \in DOMAIN GreetingSaid /\ q \in DOMAIN GreetingSaid
      /\ GreetingSaid[p] \in Nat /\ GreetingSaid[q] = GreetingSaid[p] + 2
  BY DEF GreetingSaid
<1>6. /\ srv \in SrvState /\ Anew(q) \in SrvState /\ Anew(q).phase = q
      /\ Anew(q).wpos = 0 /\ Anew(q).got = <<>> /\ Anew(q).done = srv.done
      /\ Anew(q).clock = srv.clock /\ Anew(q).points = srv.points
      /\ Anew(q).time = srv.time
  BY <1>1, <1>4, Parts, Phases, AnewFacts
<1>7. GreetingText \in Seq(Unit) /\ GoesOn(GreetingText, GreetingSaid[p], line)
  BY GreetingTextFacts
<1>8. p \in Speaks /\ p \notin StartsAtFirst /\ q \in Spoken
  BY DEF Speaks, Spoken, StartsAtFirst, Reading, SpinsOnEof
<1> HIDE DEF line
<1>9. /\ Typed' /\ Positions' /\ Counters' /\ Clocks'
      /\ Answering("GreetingReceiveGreeting", GreetingText, GreetingSaid)'
  BY <1>1, <1>2, <1>3, <1>4, <1>5, <1>6, <1>7, <1>8, LineSaid
<1>10. QED
  BY <1>9 DEF SessionInv, Scene

LEMMA SendAcceptToken ==
    ASSUME SessionInv, handle_greeting_send_accept_token, UNCHANGED cli
    PROVE  SessionInv'
<1> DEFINE p == "GreetingSendAcceptToken"
           q == "GreetingReceiveToken"
           line == Line("ACCEPT TOKEN", <<>>)
<1>1. /\ Typed /\ Positions /\ Clocks /\ Scene
      /\ SrvWrites(p, line, srv, Anew(q))
  BY DEF SessionInv, handle_greeting_send_accept_token
<1>2. srv.phase = p
  BY <1>1 DEF SrvWrites, SrvWritesFrom, At
<1>3. Answering("GreetingReceiveGreeting", GreetingText, GreetingSaid)
  BY <1>1, <1>2, SrvScene
<1>4. srv.got = <<>> /\ srv.clock = "none"
  BY <1>1, <1>2, <1>3 DEF Answering, Clocks, SaysHello
<1>5. /\ p \in DOMAIN GreetingSaid /\ q \in DOMAIN GreetingSaid
      /\ GreetingSaid[p] \in Nat /\ GreetingSaid[q] = GreetingSaid[p] + 2
  BY DEF GreetingSaid
<1>6. /\ srv \in SrvState /\ Anew(q) \in SrvState /\ Anew(q).phase = q
      /\ Anew(q).wpos = 0 /\ Anew(q).got = <<>> /\ Anew(q).done = srv.done
      /\ Anew(q).clock = srv.clock /\ Anew(q).points = srv.points
      /\ Anew(q).time = srv.time
  BY <1>1, <1>4, Parts, Phases, AnewFacts
<1>7. GreetingText \in Seq(Unit) /\ GoesOn(GreetingText, GreetingSaid[p], line)
  BY GreetingTextFacts
<1>8. p \in Speaks /\ p \notin StartsAtFirst /\ q \in Spoken
  BY DEF Speaks, Spoken, StartsAtFirst, Reading, SpinsOnEof
<1> HIDE DEF line
<1>9. /\ Typed' /\ Positions' /\ Counters' /\ Clocks'
      /\ Answering("GreetingReceiveGreeting", GreetingText, GreetingSaid)'
  BY <1>1, <1>2, <1>3, <1>4, <1>5, <1>6, <1>7, <1>8, LineSaid
<1>10. QED
  BY <1>9 DEF SessionInv, Scene

LEMMA SendTokenOk ==
    ASSUME SessionInv, handle_greeting_send_ok, UNCHANGED cli
    PROVE  SessionInv'
<1> DEFINE p == "GreetingSendOk"
           q == "GreetingSendChunksize"
           line == OK
<1>1. /\ Typed /\ Positions /\ Clocks /\ Scene
      /\ SrvWrites(p, line, srv, Says(q))
  BY DEF SessionInv, handle_greeting_send_ok
<1>2. srv.phase = p
  BY <1>1 DEF SrvWrites, SrvWritesFrom, At
<1>3. Answering("GreetingReceiveResponse", ResponseText, ResponseSaid)
  BY <1>1, <1>2, SrvScene
<1>4. srv.got = <<>> /\ srv.clock = "none"
  BY <1>1, <1>2, <1>3 DEF Answering, Clocks, SaysHello
<1>5. /\ p \in DOMAIN ResponseSaid /\ q \in DOMAIN ResponseSaid
      /\ ResponseSaid[p] \in Nat /\ ResponseSaid[q] = ResponseSaid[p] + 2
  BY DEF ResponseSaid
<1>6. /\ srv \in SrvState /\ Says(q) \in SrvState /\ Says(q).phase = q
      /\ Says(q).wpos = 0 /\ Says(q).got = <<>> /\ Says(q).done = srv.done
      /\ Says(q).clock = srv.clock /\ Says(q).points = srv.points
      /\ Says(q).time = srv.time
  BY <1>1, <1>4, Parts, Phases, SaysFacts
<1>7. ResponseText \in Seq(Unit) /\ GoesOn(ResponseText, ResponseSaid[p], line)
  BY ResponseTextFacts
<1>8. p \in Speaks /\ p \notin StartsAtFirst /\ q \in Spoken
  BY DEF Speaks, Spoken, StartsAtFirst, Reading, SpinsOnEof
<1> HIDE DEF line
<1>9. /\ Typed' /\ Positions' /\ Counters' /\ Clocks'
      /\ Answering("GreetingReceiveResponse", ResponseText, ResponseSaid)'
  BY <1>1, <1>2, <1>3, <1>4, <1>5, <1>6, <1>7, <1>8, LineSaid
<1>10. QED
  BY <1>9 DEF SessionInv, Scene

LEMMA SendChunksize ==
    ASSUME SessionInv, handle_greeting_send_chunksize, UNCHANGED cli
    PROVE  SessionInv'
<1> DEFINE p == "GreetingSendChunksize"
           q == "AcceptCommandSend"
           line == Line("CHUNKSIZE", <<>>)
<1>1. /\ Typed /\ Positions /\ Clocks /\ Scene
      /\ SrvWrites(p, line, srv, Says(q))
  BY DEF SessionInv, handle_greeting_send_chunksize
<1>2. srv.phase = p
  BY <1>1 DEF SrvWrites, SrvWritesFrom, At
<1>3. Answering("GreetingReceiveResponse", ResponseText, ResponseSaid)
  BY <1>1, <1>2, SrvScene
<1>4. srv.got = <<>> /\ srv.clock = "none"
  BY <1>1, <1>2, <1>3 DEF Answering, Clocks, SaysHello
<1>5. /\ p \in DOMAIN ResponseSaid /\ q \in DOMAIN ResponseSaid
      /\ ResponseSaid[p] \in Nat /\ ResponseSaid[q] = ResponseSaid[p] + 2
  BY DEF ResponseSaid
<1>6. /\ srv \in SrvState /\ Says(q) \in SrvState /\ Says(q).phase = q
      /\ Says(q).wpos = 0 /\ Says(q).got = <<>> /\ Says(q).done = srv.done
      /\ Says(q).clock = srv.clock /\ Says(q).points = srv.points
      /\ Says(q).time = srv.time
  BY <1>1, <1>4, Parts, Phases, SaysFacts
<1>7. ResponseText \in Seq(Unit) /\ GoesOn(ResponseText, ResponseSaid[p], line)
  BY ResponseTextFacts
<1>8. p \in Speaks /\ p \notin StartsAtFirst /\ q \in Spoken
  BY DEF Speaks, Spoken, StartsAtFirst, Reading, SpinsOnEof
<1> HIDE DEF line
<1>9. /\ Typed' /\ Positions' /\ Counters' /\ Clocks'
      /\ Answering("GreetingReceiveResponse", ResponseText, ResponseSaid)'
  BY <1>1, <1>2, <1>3, <1>4, <1>5, <1>6, <1>7, <1>8, LineSaid
<1>10. QED
  BY <1>9 DEF SessionInv, Scene

LEMMA AcceptSaid ==
    ASSUME SessionInv, handle_main_command_send, UNCHANGED cli,
           srv.phase = "AcceptCommandSend", srv.clock = "none",
           NEW c, NEW text \in Seq(Unit), NEW said, Answering(c, text, said),
           "AcceptCommandReceive" \in DOMAIN said, said["AcceptCommandSend"] \in Nat,
           said["AcceptCommandReceive"] = said["AcceptCommandSend"] + 2,
           GoesOn(text, said["AcceptCommandSend"], Accept)
    PROVE  /\ Typed' /\ Positions' /\ Counters' /\ Clocks'
           /\ Answering(c, text, said)'
           /\ srv'.time = srv.time
<1> DEFINE p == "AcceptCommandSend"
           q == "AcceptCommandReceive"
<1>1. Typed /\ SrvWrites(p, Accept, srv, Anew(q))
  BY DEF SessionInv, handle_main_command_send
<1>2. srv.got = <<>> /\ p \in DOMAIN said
  BY DEF Answering
<1>3. /\ srv \in SrvState /\ Anew(q) \in SrvState /\ Anew(q).phase = q
      /\ Anew(q).wpos = 0 /\ Anew(q).got = <<>> /\ Anew(q).done = srv.done
      /\ Anew(q).clock = srv.clock /\ Anew(q).points = srv.points
      /\ Anew(q).time = srv.time
  BY <1>1, Parts, Phases, AnewFacts
<1>4. p \in Speaks /\ p \notin StartsAtFirst /\ q \in Spoken
  BY DEF Speaks, Spoken, StartsAtFirst, Reading, SpinsOnEof
<1>5. QED
  BY <1>1, <1>2, <1>3, <1>4, LineSaid

\* A line at the end of what is on the way.
LEMMA LineFollows ==
    ASSUME Typed, NEW line \in Seq(Unit), Len(line) = 2, srv.wpos \in {0, 1},
           NEW out, out = Taken(toClient, line, srv.wpos), out # <<>>
    PROVE  /\ toClient \o out \in Seq(Unit) /\ Len(toClient \o out) <= Cap
           /\ toClient \o out # <<>>
           /\ srv.wpos + Len(out) = 2 => LastOf(toClient \o out) = line[2]
           /\ srv.wpos + Len(out) # 2 => srv.wpos + Len(out) = 1
<1>1. toClient \in Seq(Unit) /\ Len(toClient) <= Cap
  BY Parts
<1> DEFINE w == srv.wpos
           n == Len(toClient)
<1>2. w \in 0..Len(line)
  OBVIOUS
<1> HIDE DEF w
<1>3. /\ out \in Seq(Unit) /\ Len(out) \in Nat /\ w + Len(out) <= 2
      /\ \A i \in 1..Len(out) : out[i] = line[w + i]
      /\ toClient \o out \in Seq(Unit) /\ Len(toClient \o out) <= Cap
  BY <1>1, <1>2, TakenFacts DEF w
<1>4. Len(out) >= 1
  BY <1>3
<1>5. /\ Len(toClient \o out) = n + Len(out) /\ n \in Nat
      /\ \A i \in 1..Len(out) : (toClient \o out)[n + i] = out[i]
  BY <1>1, <1>3, JoinOf
<1>6. LastOf(toClient \o out) = line[w + Len(out)]
  <2>1. Len(out) \in 1..Len(out)
    BY <1>3, <1>4
  <2>2. QED
    BY <1>3, <1>5, <2>1 DEF LastOf
<1> HIDE DEF n
<1>7. toClient \o out # <<>>
  BY <1>3, <1>4, <1>5
<1>8. w + Len(out) # 2 => w + Len(out) = 1
  BY <1>3, <1>4, w \in {0, 1} DEF w
<1>9. w + Len(out) = 2 => LastOf(toClient \o out) = line[2]
  BY <1>6
<1>10. QED
  BY <1>3, <1>7, <1>8, <1>9 DEF w

LEMMA AcceptAfterReport ==
    ASSUME SessionInv, handle_main_command_send, UNCHANGED cli, Reporting
    PROVE  SessionInv'
<1> DEFINE p == "AcceptCommandSend"
           q == "AcceptCommandReceive"
           out == Taken(toClient, Accept, srv.wpos)
<1>1. /\ Typed /\ Positions /\ Counters /\ Clocks
      /\ srv.phase = p /\ out # <<>> /\ toClient' = toClient \o out
      /\ srv' = IF srv.wpos + Len(out) = Len(Accept) THEN Anew(q)
                ELSE [srv EXCEPT !.wpos = srv.wpos + Len(out)]
      /\ UNCHANGED <<toServer, gone, splitOk>>
  BY DEF SessionInv, handle_main_command_send, SrvWrites, SrvWritesFrom, At
<1>2. srv \in SrvState /\ srv.wpos \in {0, 1}
  <2>1. \A m \in Nat : m < 2 => m \in {0, 1}
    OBVIOUS
  <2>2. srv \in SrvState /\ srv.wpos \in Nat
    BY <1>1, Parts
  <2>3. srv.wpos < 2
    BY <1>1 DEF Positions, SendsChunks
  <2>4. QED
    BY <2>1, <2>2, <2>3
<1>3. Accept \in Seq(Unit) /\ Len(Accept) = 2
  BY LineFacts, NoArg DEF Accept, Words
<1> HIDE DEF out
<1>4. /\ toClient' \in Seq(Unit) /\ Len(toClient') <= Cap
      /\ srv.wpos + Len(out) = 2 => toClient' # <<>> /\ LastOf(toClient') = Accept[2]
      /\ srv.wpos + Len(out) # 2 => srv.wpos + Len(out) = 1
  BY <1>1, <1>2, <1>3, LineFollows DEF out
<1>5. /\ srv' = Anew(q) \/ srv' = Half(srv)
      /\ srv' = Anew(q) => toClient' # <<>> /\ LastOf(toClient') = Accept[2]
  <2>1. CASE srv.wpos + Len(out) = 2
    BY <1>1, <1>3, <1>4, <2>1
  <2>2. CASE srv.wpos + Len(out) # 2
    <3>1. srv' = Half(srv)
      BY <1>1, <1>3, <1>4, <2>2 DEF Half
    <3>2. srv'.wpos = 1
      BY <1>2, <3>1, HalfFacts
    <3>3. q \in ServerPhases
      BY Phases
    <3>4. Anew(q).wpos = 0
      BY <1>2, <3>3, AnewFacts
    <3>5. QED
      BY <3>1, <3>2, <3>4
  <2>3. QED
    BY <2>1, <2>2
<1>6. /\ srv' \in SrvState /\ srv'.phase \in {p, q} /\ srv'.wpos \in {0, 1}
      /\ srv'.phase = q => srv'.wpos = 0 /\ toClient' # <<>> /\ LastOf(toClient') = Accept[2]
      /\ srv'.size = srv.size /\ srv'.done = srv.done /\ srv'.points = srv.points
      /\ srv'.got = <<>>
  <2>1. srv.got = <<>>
    BY DEF Reporting
  <2>2. CASE srv' = Anew(q)
    BY <1>2, <1>5, <2>2, AnewFacts, Phases
  <2>3. CASE srv' = Half(srv)
    BY <1>1, <1>2, <2>1, <2>3, HalfFacts
  <2>4. QED
    BY <1>5, <2>2, <2>3
<1>7. cli.phase \in {"PerfReceiveTime", "PerfCompleted"} /\ toServer = <<>> /\ srv.size \in Stored
  BY DEF Reporting
<1>8. Typed'
  BY <1>1, <1>4, <1>6 DEF Typed
<1>9. Positions'
  BY <1>1, <1>6, Bounds
     DEF Positions, SendsChunks, InUpload, StartsAtFirst, Reading, SpinsOnEof
<1>10. Counters' /\ Clocks'
  BY <1>1, <1>6, <1>7
     DEF Counters, Clocks, InUpload, BeforePings, Pinging, SaysHello
<1>11. Reporting'
  BY <1>1, <1>6, <1>7 DEF Reporting
<1>12. QED
  BY <1>8, <1>9, <1>10, <1>11 DEF SessionInv, Scene

LEMMA SendAccept ==
    ASSUME SessionInv, handle_main_command_send, UNCHANGED cli
    PROVE  SessionInv'
<1>1. Typed /\ Positions /\ Clocks /\ Scene /\ srv.phase = "AcceptCommandSend"
  BY DEF SessionInv, handle_main_command_send, SrvWrites, SrvWritesFrom, At
<1>2. srv.time \in {0, 1}
  BY <1>1, Parts
<1>3. CASE Answering("GreetingReceiveResponse", ResponseText, ResponseSaid)
  <2>1. srv.clock = "none"
    BY <1>1, <1>3 DEF Answering, Clocks
  <2>2. /\ "AcceptCommandReceive" \in DOMAIN ResponseSaid
        /\ ResponseSaid["AcceptCommandSend"] \in Nat
        /\ ResponseSaid["AcceptCommandReceive"] = ResponseSaid["AcceptCommandSend"] + 2
    BY DEF ResponseSaid
  <2>3. /\ ResponseText \in Seq(Unit)
        /\ GoesOn(ResponseText, ResponseSaid["AcceptCommandSend"], Accept)
    BY ResponseTextFacts
  <2>4. /\ Typed' /\ Positions' /\ Counters' /\ Clocks'
        /\ Answering("GreetingReceiveResponse", ResponseText, ResponseSaid)'
    BY <1>1, <1>3, <2>1, <2>2, <2>3, AcceptSaid
  <2>5. QED
    BY <2>4 DEF SessionInv, Scene
<1>4. ASSUME NEW c \in {"GetChunksReceiveTime", "PingReceiveTime", "GetTimeReceiveTime"},
             NEW q \in {"GetChunksSendTime", "PingSendTime", "GetTimeSendTime"},
             Answering(c, TimeText, TimeSaid(q))
      PROVE  /\ Typed' /\ Positions' /\ Counters' /\ Clocks'
             /\ Answering(c, TimeText, TimeSaid(q))'
  <2>1. srv.clock = "none"
    BY <1>1, <1>4 DEF Answering, Clocks
  <2>2. /\ "AcceptCommandReceive" \in DOMAIN TimeSaid(q)
        /\ TimeSaid(q)["AcceptCommandSend"] \in Nat
        /\ TimeSaid(q)["AcceptCommandReceive"] = TimeSaid(q)["AcceptCommandSend"] + 2
    BY DEF TimeSaid
  <2>3. PICK text : text = TimeText
    OBVIOUS
  <2>4. text \in Seq(Unit) /\ GoesOn(text, TimeSaid(q)["AcceptCommandSend"], Accept)
    BY <1>2, <2>3, TimeTextFacts
  <2>5. /\ Typed' /\ Positions' /\ Counters' /\ Clocks'
        /\ Answering(c, text, TimeSaid(q))' /\ srv'.time = srv.time
    BY <1>1, <1>4, <2>1, <2>2, <2>3, <2>4, AcceptSaid
  <2>6. TimeText' = text
    BY <2>3, <2>5 DEF TimeText
  <2>7. QED
    BY <2>5, <2>6 DEF Answering
<1>5. CASE Reporting
  BY <1>5, AcceptAfterReport
<1>6. QED
  BY <1>1, <1>3, <1>4, <1>5, SrvScene DEF SessionInv, Scene

\* TIME is written at once: nothing is on the way when it is.
LEMMA TimeIsSaid ==
    ASSUME SessionInv, UNCHANGED cli, NEW p \in {"GetChunksSendTime", "GetTimeSendTime"},
           NEW c, Answering(c, TimeText, TimeSaid(p)), SendTime(p)
    PROVE  /\ Typed' /\ Positions' /\ Counters' /\ Clocks'
           /\ Answering(c, TimeText, TimeSaid(p))'
<1> DEFINE q    == "AcceptCommandSend"
           line == Line("TIME", <<srv.time>>)
           out  == Taken(toClient, line, 0)
           fin  == [srv EXCEPT !.phase = q, !.wpos = 0, !.clock = "none"]
<1>1. Typed /\ Positions /\ Counters /\ srv.phase = p /\ srv.status = "open"
  BY DEF SessionInv, SendTime, At
<1>2. srv.wpos = 0 /\ srv.time \in {0, 1} /\ srv \in SrvState /\ srv.got = <<>>
  BY <1>1, Parts DEF Positions, StartsAtFirst, Answering
<1>3. toClient = <<>>
  <2>1. TimeSaid(p)[p] + srv.wpos = 0
    BY <1>2 DEF TimeSaid
  <2>2. Len(cli.got \o toClient) = 0
    BY <1>1, <2>1 DEF Answering, Hears, StartOf
  <2>3. Len(cli.got \o toClient) = Len(cli.got) + Len(toClient)
        /\ Len(cli.got) \in Nat /\ Len(toClient) \in Nat /\ toClient \in Seq(Unit)
    BY <1>1, Parts, JoinOf
  <2>4. Len(toClient) = 0
    BY <2>2, <2>3
  <2>5. QED
    BY <2>3, <2>4, EmptySeq
<1>4. line \in Seq(Unit) /\ Len(line) = 2
  <2>1. <<srv.time>> \in Seq(Nat)
    BY <1>2, NoArg
  <2>2. QED
    BY <2>1, LineFacts DEF Words
<1>5. /\ out # <<>> /\ toClient' = toClient \o out
      /\ UNCHANGED <<toServer, gone, splitOk>>
      /\ srv' = IF srv.wpos + Len(out) = Len(line) THEN fin
                ELSE [srv EXCEPT !.wpos = srv.wpos + Len(out), !.clock = "none"]
  BY DEF SendTime
<1> HIDE DEF line
<1>6. Len(out) = 2
  BY <1>3, <1>4, LineIsTaken
<1>7. srv' = fin
  BY <1>2, <1>4, <1>5, <1>6
<1>8. /\ fin \in SrvState /\ fin.phase = q /\ fin.wpos = 0 /\ fin.got = <<>>
      /\ fin.done = srv.done /\ fin.points = srv.points /\ fin.clock = "none"
      /\ fin.time = srv.time
  <2>1. fin \in SrvState
    <3>1. q \in ServerPhases
      BY Phases
    <3>2. QED
      BY <1>2, <3>1 DEF SrvState
  <2>2. fin.phase = q /\ fin.wpos = 0 /\ fin.clock = "none"
    BY <1>2 DEF SrvState
  <2>3. /\ fin.done = srv.done /\ fin.points = srv.points /\ fin.time = srv.time
        /\ fin.got = srv.got
    BY <1>2 DEF SrvState
  <2>4. QED
    BY <1>2, <2>1, <2>2, <2>3
<1>9. SrvWrites(p, line, srv, fin)
  BY <1>1, <1>2, <1>4, <1>5, <1>6 DEF SrvWrites, SrvWritesFrom, At
<1>10. /\ p \in DOMAIN TimeSaid(p) /\ q \in DOMAIN TimeSaid(p)
       /\ TimeSaid(p)[p] \in Nat /\ TimeSaid(p)[q] = TimeSaid(p)[p] + 2
  BY DEF TimeSaid
<1>11. PICK text : text = TimeText
  OBVIOUS
<1>12. text \in Seq(Unit) /\ GoesOn(text, TimeSaid(p)[p], line)
  BY <1>2, <1>11, TimeTextFacts DEF line
<1> HIDE DEF fin, out
<1>13. /\ toClient' \in Seq(Unit) /\ Len(toClient') <= Cap
       /\ Answering(c, text, TimeSaid(p))'
  <2>1. srv.wpos < 2 /\ Answering(c, text, TimeSaid(p))
    BY <1>2, <1>11
  <2>2. QED
    BY <1>1, <1>2, <1>8, <1>9, <1>10, <1>12, <2>1, AnswerGrows
<1>14. Typed' /\ Positions' /\ Counters' /\ Clocks'
  BY <1>1, <1>5, <1>7, <1>8, <1>13, AnswerKeeps DEF Speaks, Spoken
<1>15. TimeText' = text
  BY <1>7, <1>8, <1>11 DEF TimeText
<1>16. QED
  BY <1>13, <1>14, <1>15 DEF Answering

LEMMA GetChunksSendTime ==
    ASSUME SessionInv, handle_get_chunks_send_time, UNCHANGED cli
    PROVE  SessionInv'
<1>1. Scene /\ SendTime("GetChunksSendTime") /\ srv.phase = "GetChunksSendTime"
  BY DEF SessionInv, handle_get_chunks_send_time, SendTime, At
<1>2. /\ Typed' /\ Positions' /\ Counters' /\ Clocks'
      /\ Answering("GetChunksReceiveTime", TimeText, TimeSaid("GetChunksSendTime"))'
  BY <1>1, SrvScene, TimeIsSaid
<1>3. QED
  BY <1>2 DEF SessionInv, Scene

LEMMA GetTimeSendTime ==
    ASSUME SessionInv, handle_get_time_send_time, UNCHANGED cli
    PROVE  SessionInv'
<1>1. Scene /\ SendTime("GetTimeSendTime") /\ srv.phase = "GetTimeSendTime"
  BY DEF SessionInv, handle_get_time_send_time, SendTime, At
<1>2. /\ Typed' /\ Positions' /\ Counters' /\ Clocks'
      /\ Answering("GetTimeReceiveTime", TimeText, TimeSaid("GetTimeSendTime"))'
  BY <1>1, SrvScene, TimeIsSaid
<1>3. QED
  BY <1>2 DEF SessionInv, Scene

LEMMA PingSendTime ==
    ASSUME SessionInv, handle_ping_send_time, UNCHANGED cli
    PROVE  SessionInv'
<1> DEFINE p == "PingSendTime"
           q == "AcceptCommandSend"
           line == Line("TIME", <<srv.time>>)
<1>1. Typed /\ Clocks /\ Scene /\ SrvWrites(p, line, srv, Anew(q))
  BY DEF SessionInv, handle_ping_send_time
<1>2. srv.phase = p
  BY <1>1 DEF SrvWrites, SrvWritesFrom, At
<1>3. Answering("PingReceiveTime", TimeText, TimeSaid(p))
  BY <1>1, <1>2, SrvScene
<1>4. srv.got = <<>> /\ srv.clock = "none" /\ srv.time \in {0, 1}
  BY <1>1, <1>2, <1>3, Parts DEF Answering, Clocks
<1>5. /\ p \in DOMAIN TimeSaid(p) /\ q \in DOMAIN TimeSaid(p)
      /\ TimeSaid(p)[p] \in Nat /\ TimeSaid(p)[q] = TimeSaid(p)[p] + 2
  BY DEF TimeSaid
<1>6. /\ srv \in SrvState /\ Anew(q) \in SrvState /\ Anew(q).phase = q
      /\ Anew(q).wpos = 0 /\ Anew(q).got = <<>> /\ Anew(q).done = srv.done
      /\ Anew(q).clock = srv.clock /\ Anew(q).points = srv.points
      /\ Anew(q).time = srv.time
  BY <1>1, Parts, Phases, AnewFacts
<1>7. p \in Speaks /\ p \notin StartsAtFirst /\ q \in Spoken
  BY DEF Speaks, Spoken, StartsAtFirst, Reading, SpinsOnEof
<1>8. PICK text : text = TimeText
  OBVIOUS
<1>9. text \in Seq(Unit) /\ GoesOn(text, TimeSaid(p)[p], line)
  BY <1>4, <1>8, TimeTextFacts
<1> HIDE DEF line
<1>10. /\ Typed' /\ Positions' /\ Counters' /\ Clocks'
       /\ Answering("PingReceiveTime", text, TimeSaid(p))' /\ srv'.time = srv.time
  <2>1. Answering("PingReceiveTime", text, TimeSaid(p))
    BY <1>3, <1>8
  <2>2. QED
    BY <1>1, <1>2, <1>4, <1>5, <1>6, <1>7, <1>9, <2>1, LineSaid
<1>11. TimeText' = text
  BY <1>8, <1>10 DEF TimeText
<1>12. Answering("PingReceiveTime", TimeText, TimeSaid(p))'
  BY <1>10, <1>11 DEF Answering
<1>13. QED
  BY <1>10, <1>12 DEF SessionInv, Scene

LEMMA PongSend ==
    ASSUME SessionInv, handle_pong_send, UNCHANGED cli
    PROVE  SessionInv'
<1> DEFINE p     == "PongSend"
           q     == "PingReceiveOk"
           line  == Line("PONG", <<>>)
           begun == [srv EXCEPT !.clock = Started("PING")]
           fin   == [begun EXCEPT !.phase = q, !.wpos = 0]
<1>1. Typed /\ Scene /\ SrvWrites(p, line, begun, fin)
  BY DEF SessionInv, handle_pong_send
<1>2. srv.phase = p
  BY <1>1 DEF SrvWrites, SrvWritesFrom, At
<1>3. Answering("PingReceivePong", line, PongSaid)
  BY <1>1, <1>2, SrvScene
<1>4. srv.got = <<>> /\ srv \in SrvState
  BY <1>1, <1>3, Parts DEF Answering
<1>5. /\ p \in DOMAIN PongSaid /\ q \in DOMAIN PongSaid
      /\ PongSaid[p] \in Nat /\ PongSaid[q] = PongSaid[p] + 2
  BY DEF PongSaid
<1>6. /\ begun \in SrvState /\ begun.phase = p /\ begun.got = <<>>
      /\ begun.done = srv.done /\ begun.points = srv.points /\ begun.time = srv.time
  <2>1. begun \in SrvState
    BY <1>4 DEF SrvState, Started
  <2>2. QED
    BY <1>2, <1>4, <2>1 DEF SrvState
<1> HIDE DEF begun
<1>7. /\ fin \in SrvState /\ fin.phase = q /\ fin.wpos = 0 /\ fin.got = <<>>
      /\ fin.done = srv.done /\ fin.points = srv.points /\ fin.time = srv.time
  <2>1. fin \in SrvState
    BY <1>6, Phases DEF SrvState
  <2>2. fin.phase = q /\ fin.wpos = 0
    BY <1>6 DEF SrvState
  <2>3. /\ fin.got = begun.got
        /\ fin.done = begun.done /\ fin.points = begun.points /\ fin.time = begun.time
    BY <1>6 DEF SrvState
  <2>4. QED
    BY <1>6, <2>1, <2>2, <2>3
<1>8. p \in Speaks /\ p \notin StartsAtFirst /\ q \in Spoken
  BY DEF Speaks, Spoken, StartsAtFirst, Reading, SpinsOnEof
<1>9. line \in Seq(Unit) /\ GoesOn(line, PongSaid[p], line)
  BY PongTextFacts
<1> HIDE DEF line, fin
<1>10. /\ Typed' /\ Positions' /\ Counters' /\ Clocks'
       /\ Answering("PingReceivePong", line, PongSaid)'
  BY <1>1, <1>2, <1>3, <1>4, <1>5, <1>6, <1>7, <1>8, <1>9, LineSaid
<1>11. QED
  BY <1>10 DEF SessionInv, Scene, line
-----------------------------------------------------------------------------
(* The server reads a line of the client.                                  *)

LEMMA GotFacts ==
    ASSUME srv \in SrvState, NEW x \in Seq(Unit)
    PROVE  LET s == [srv EXCEPT !.got = x]
           IN  /\ s \in SrvState /\ s.got = x
               /\ s.phase = srv.phase /\ s.wpos = srv.wpos /\ s.size = srv.size
               /\ s.done = srv.done /\ s.clock = srv.clock /\ s.points = srv.points
<1> DEFINE s == [srv EXCEPT !.got = x]
<1>1. s \in SrvState
  BY DEF SrvState
<1>2. s.got = x
  BY DEF SrvState
<1>3. /\ s.phase = srv.phase /\ s.wpos = srv.wpos /\ s.size = srv.size
      /\ s.done = srv.done /\ s.clock = srv.clock /\ s.points = srv.points
  BY DEF SrvState
<1>4. QED
  BY <1>1, <1>2, <1>3

\* What it has read is not all: it keeps it.
LEMMA SrvKeeps ==
    ASSUME SessionInv, UNCHANGED <<cli, toClient, gone>>,
           NEW space \in Nat, NEW data \in Pieces(toServer, space),
           toServer' = Rest(toServer, data), splitOk' \in BOOLEAN,
           srv' = [srv EXCEPT !.got = srv.got \o data]
    PROVE  /\ Typed' /\ Positions' /\ Counters' /\ Clocks'
           /\ srv'.got = srv.got \o data /\ srv'.got # <<>>
           /\ srv'.phase = srv.phase /\ srv'.wpos = srv.wpos /\ srv'.size = srv.size
           /\ srv'.points = srv.points
<1>1. /\ Typed /\ Positions /\ Counters /\ Clocks
      /\ srv \in SrvState /\ srv.got \in Seq(Unit)
      /\ toServer \in Seq(Unit) /\ Len(toServer) <= Cap
  BY Parts DEF SessionInv
<1>2. srv.got \o data \in Seq(Unit) /\ srv.got \o data # <<>>
  BY <1>1, ReadKeeps
<1>3. /\ srv' \in SrvState /\ srv'.got = srv.got \o data
      /\ srv'.phase = srv.phase /\ srv'.wpos = srv.wpos /\ srv'.size = srv.size
      /\ srv'.done = srv.done /\ srv'.clock = srv.clock /\ srv'.points = srv.points
  BY <1>1, <1>2, GotFacts
<1>4. toServer' \in Seq(Unit) /\ Len(toServer') <= Cap
  <2>1. /\ Rest(toServer, data) \in Seq(Unit) /\ Len(data) \in Nat
        /\ Len(Rest(toServer, data)) = Len(toServer) - Len(data) /\ Len(data) >= 1
    BY <1>1, PieceFacts
  <2>2. QED
    BY <1>1, <2>1, Bounds
<1>5. Typed'
  BY <1>1, <1>3, <1>4 DEF Typed
<1>6. Positions' /\ Counters' /\ Clocks'
  BY <1>1, <1>3 DEF Positions, Counters, Clocks
<1>7. QED
  BY <1>2, <1>3, <1>5, <1>6

\* It has read all of it and goes on.
LEMMA SrvTurns ==
    ASSUME SessionInv, UNCHANGED <<cli, gone>>, toServer' = <<>>,
           toClient' \in Seq(Unit), Len(toClient') <= Cap, splitOk' \in BOOLEAN,
           srv.phase \in Reading,
           srv' \in SrvState, srv'.wpos = 0, srv'.done = srv.done, srv'.points = srv.points,
           srv'.phase \in SaysHello \cup {"PingSendTime", "AcceptCommandSend",
                                          "AcceptCommandReceive"} => srv'.clock = "none"
    PROVE  Typed' /\ Positions' /\ Counters' /\ Clocks'
<1>1. Typed /\ Positions /\ Counters
  BY DEF SessionInv
<1>2. <<>> \in Seq(Unit) /\ Len(<<>>) = 0
  OBVIOUS
<1>3. Typed'
  BY <1>1, <1>2, Bounds DEF Typed
<1>4. Positions'
  BY <1>1, Bounds DEF Positions
<1>5. srv.done = 0
  BY <1>1 DEF Counters, Reading, SpinsOnEof
<1>6. Counters' /\ Clocks'
  BY <1>1, <1>5 DEF Counters, Clocks
<1>7. QED
  BY <1>3, <1>4, <1>6

LEMMA SaidNothing ==
    ASSUME NEW text \in Seq(Unit), Len(text) > 0
    PROVE  Hears(<<>>, <<>>, text, 0)
<1>1. <<>> \o <<>> = <<>> /\ Len(<<>>) = 0
  OBVIOUS
<1>2. Len(text) \in Nat
  OBVIOUS
<1>3. QED
  BY <1>1, <1>2 DEF Hears, StartOf

\* What a reader of the server finds of a line it has been sent.
LEMMA AskedHeard ==
    ASSUME Typed, NEW c, NEW p, NEW line \in Seq(Unit), NEW word,
           IsLine(line, word), Asked(c, p, line),
           NEW data \in Pieces(toServer, Cap)
    PROVE  \/ WholeLine(line, srv.got, data, Rest(toServer, data))
           \/ HalfLine(line, srv.got, data, Rest(toServer, data))
<1>1. /\ srv.got \in Seq(Unit) /\ toServer \in Seq(Unit) /\ Cap \in Nat
      /\ srv.got \o toServer = line
  BY Parts, Bounds DEF Asked
<1>2. QED
  BY <1>1, HearingLine

LEMMA ReceiveConnectionType ==
    ASSUME SessionInv, handle_greeting_receive_connection_type, UNCHANGED cli
    PROVE  SessionInv'
<1> DEFINE p    == "GreetingReceiveConnectionType"
           q    == "GreetingSendVersion"
           c    == "GreetingReceiveGreeting"
           line == Line("GET /rmbt", <<>>)
           up   == Line("UPGRADE", <<>>)
<1>1. PICK data \in Pieces(toServer, Cap) :
          /\ toServer' = Rest(toServer, data)
          /\ IF EndsLine(srv.got \o data)
             THEN /\ toClient' = toClient \o Taken(toClient, up, 0)
                  /\ srv' = Anew(q)
             ELSE srv' = [srv EXCEPT !.got = srv.got \o data] /\ UNCHANGED toClient
          /\ UNCHANGED <<gone, splitOk>> /\ srv.phase = p
  BY DEF handle_greeting_receive_connection_type, At
<1>2. Typed /\ Clocks /\ Scene /\ toServer \in Seq(Unit) /\ srv \in SrvState /\ splitOk \in BOOLEAN
  BY Parts DEF SessionInv, Typed
<1>3. toServer # <<>>
  <2>1. Len(data) \in Nat /\ Len(data) >= 1 /\ Len(data) <= Len(toServer)
    BY <1>2, PieceFacts, Bounds
  <2>2. QED
    BY <2>1
<1>4. Asked(c, p, line)
  BY <1>1, <1>2, <1>3, SrvScene
<1>5. IsLine(line, "GET /rmbt") /\ line \in Seq(Unit)
  BY LineIsLine, LineFacts, NoArg DEF Words
<1>6. up \in Seq(Unit) /\ Len(up) = 2
  BY LineFacts, NoArg DEF Words
<1> HIDE DEF line
<1>7. CASE EndsLine(srv.got \o data)
  <2>1. Rest(toServer, data) = <<>>
    BY <1>2, <1>4, <1>5, <1>7, AskedHeard DEF WholeLine, HalfLine
  <2>2. toClient = <<>> /\ cli.got = <<>> /\ cli.phase = c
    BY <1>4 DEF Asked
  <2>3. toClient' = up
    BY <1>1, <1>6, <1>7, <2>2, LineIsTaken
  <2>4. toClient' \in Seq(Unit) /\ Len(toClient') <= Cap
    BY <1>6, <2>3, Bounds
  <2>5. q \in ServerPhases
    BY Phases
  <2>6. /\ srv' \in SrvState /\ srv'.phase = q /\ srv'.wpos = 0 /\ srv'.got = <<>>
        /\ srv'.done = srv.done /\ srv'.clock = srv.clock /\ srv'.points = srv.points
    BY <1>1, <1>2, <1>7, <2>5, AnewFacts
  <2>7. srv.phase \in Reading /\ srv.clock = "none"
    BY <1>1, <1>2 DEF Reading, Clocks, SaysHello
  <2>8. Typed' /\ Positions' /\ Counters' /\ Clocks'
    BY <1>1, <1>2, <2>1, <2>4, <2>6, <2>7, SrvTurns
  <2>9. Hears(<<>>, up, GreetingText, GreetingSaid[q] + 0)
    <3>1. /\ Len(GreetingText) = 6
          /\ GreetingText[1] = up[1] /\ GreetingText[2] = up[2]
      BY GreetingTextFacts
    <3>2. GreetingSaid[q] + 0 = 2
      BY DEF GreetingSaid
    <3> HIDE DEF up
    <3>3. <<>> \o up = up /\ \A i \in 1..2 : i = 1 \/ i = 2
      BY <1>6
    <3>4. StartOf(<<>> \o up, GreetingText, 2)
      BY <1>6, <3>1, <3>3 DEF StartOf
    <3>5. QED
      BY <3>1, <3>2, <3>4 DEF Hears
  <2>10. q \in DOMAIN GreetingSaid
    BY DEF GreetingSaid
  <2> HIDE DEF up
  <2>11. Answering(c, GreetingText, GreetingSaid)'
    BY <1>1, <2>1, <2>2, <2>3, <2>6, <2>9, <2>10 DEF Answering
  <2>12. QED
    BY <2>8, <2>11 DEF SessionInv, Scene
<1>8. CASE ~EndsLine(srv.got \o data)
  <2>1. /\ Rest(toServer, data) # <<>>
        /\ (srv.got \o data) \o Rest(toServer, data) = line
    BY <1>2, <1>4, <1>5, <1>8, AskedHeard DEF WholeLine, HalfLine
  <2>2. /\ Typed' /\ Positions' /\ Counters' /\ Clocks'
        /\ srv'.got = srv.got \o data /\ srv'.phase = srv.phase
    BY <1>1, <1>2, <1>8, SrvKeeps, Bounds
  <2>3. Asked(c, p, line)'
    BY <1>1, <1>4, <1>8, <2>1, <2>2 DEF Asked
  <2>4. QED
    BY <2>2, <2>3 DEF SessionInv, Scene, line
<1>9. QED
  BY <1>7, <1>8

LEMMA ReceiveToken ==
    ASSUME SessionInv, handle_greeting_receive_token, UNCHANGED cli
    PROVE  SessionInv'
<1> DEFINE p    == "GreetingReceiveToken"
           q    == "GreetingSendOk"
           c    == "GreetingReceiveResponse"
           line == Line("TOKEN", <<>>)
           fin  == [srv EXCEPT !.phase = q, !.got = <<>>]
<1>1. PICK data \in Pieces(toServer, Cap) :
          /\ toServer' = Rest(toServer, data)
          /\ splitOk' = (splitOk \/ CutsOk(data))
          /\ srv' = IF EndsLine(data) THEN fin ELSE [srv EXCEPT !.got = srv.got \o data]
          /\ UNCHANGED <<toClient, gone>> /\ srv.phase = p
  BY DEF handle_greeting_receive_token, SrvReads, TokenRead, At
<1>2. /\ Typed /\ Positions /\ Clocks /\ Scene /\ toServer \in Seq(Unit) /\ srv \in SrvState
      /\ splitOk' \in BOOLEAN /\ toClient \in Seq(Unit) /\ Len(toClient) <= Cap
  BY <1>1, Parts DEF SessionInv, Typed
<1>3. toServer # <<>>
  <2>1. Len(data) \in Nat /\ Len(data) >= 1 /\ Len(data) <= Len(toServer)
    BY <1>2, PieceFacts, Bounds
  <2>2. QED
    BY <2>1
<1>4. Asked(c, p, line)
  BY <1>1, <1>2, <1>3, SrvScene
<1>5. IsLine(line, "TOKEN") /\ line \in Seq(Unit)
  BY LineIsLine, LineFacts, NoArg DEF Words
<1> HIDE DEF line
<1>6. CASE EndsLine(data)
  <2>1. Rest(toServer, data) = <<>>
    BY <1>2, <1>4, <1>5, <1>6, AskedHeard DEF WholeLine, HalfLine
  <2>2. toClient = <<>> /\ cli.got = <<>> /\ cli.phase = c
    BY <1>4 DEF Asked
  <2>3. srv.phase \in Reading /\ srv.clock = "none" /\ srv.wpos = 0
    BY <1>1, <1>2 DEF Reading, SpinsOnEof, Clocks, SaysHello, Positions, StartsAtFirst
  <2>4. /\ srv' \in SrvState /\ srv'.phase = q /\ srv'.wpos = 0 /\ srv'.got = <<>>
        /\ srv'.done = srv.done /\ srv'.clock = "none" /\ srv'.points = srv.points
    <3>1. <<>> \in Seq(Unit)
      OBVIOUS
    <3>2. fin \in SrvState
      BY <1>2, <3>1, Phases DEF SrvState
    <3>3. /\ fin.phase = q /\ fin.got = <<>> /\ fin.wpos = srv.wpos
          /\ fin.done = srv.done /\ fin.clock = srv.clock /\ fin.points = srv.points
      BY <1>2 DEF SrvState
    <3>4. QED
      BY <1>1, <1>6, <2>3, <3>2, <3>3
  <2>5. Typed' /\ Positions' /\ Counters' /\ Clocks'
    BY <1>1, <1>2, <2>1, <2>3, <2>4, SrvTurns
  <2>6. q \in DOMAIN ResponseSaid /\ ResponseSaid[q] + 0 = 0
    BY DEF ResponseSaid
  <2>7. Hears(<<>>, <<>>, ResponseText, ResponseSaid[q] + 0)
    <3>1. ResponseText \in Seq(Unit) /\ Len(ResponseText) > 0
      BY ResponseTextFacts
    <3>2. Hears(<<>>, <<>>, ResponseText, 0)
      BY <3>1, SaidNothing
    <3>3. QED
      BY <2>6, <3>2
  <2>8. Answering(c, ResponseText, ResponseSaid)'
    BY <1>1, <2>1, <2>2, <2>4, <2>6, <2>7 DEF Answering
  <2>9. QED
    BY <2>5, <2>8 DEF SessionInv, Scene
<1>7. CASE ~EndsLine(data)
  <2>1. /\ Rest(toServer, data) # <<>>
        /\ (srv.got \o data) \o Rest(toServer, data) = line
    BY <1>2, <1>4, <1>5, <1>7, AskedHeard DEF WholeLine, HalfLine
  <2>2. /\ Typed' /\ Positions' /\ Counters' /\ Clocks'
        /\ srv'.got = srv.got \o data /\ srv'.phase = srv.phase
    BY <1>1, <1>2, <1>7, SrvKeeps, Bounds
  <2>3. Asked(c, p, line)'
    BY <1>1, <1>4, <1>7, <2>1, <2>2 DEF Asked
  <2>4. QED
    BY <2>2, <2>3 DEF SessionInv, Scene, line
<1>8. QED
  BY <1>6, <1>7
-----------------------------------------------------------------------------
(* The server reads an OK, whole or in two pieces.                         *)

OkWhole(data) == srv.got = <<>> /\ data = OK /\ Rest(toServer, data) = <<>>
OkCut(data)   ==
    /\ Len(data) = 1
    /\ srv.got # <<>> \/ CutsOk(data)
    /\ (srv.got \o data) \o Rest(toServer, data) = OK

LEMMA OkIsLine == IsLine(OK, "OK") /\ OK \in Seq(Unit) /\ Len(OK) = 2
BY LineIsLine, LineFacts, NoArg DEF Words, OK

LEMMA OkHeard ==
    ASSUME Typed, NEW c, NEW p, AskedOk(c, p), NEW data \in Pieces(toServer, Cap)
    PROVE  OkWhole(data) \/ OkCut(data)
<1> DEFINE rest == Rest(toServer, data)
<1>1. /\ srv.got \in Seq(Unit) /\ toServer \in Seq(Unit) /\ Cap \in Nat
      /\ srv.got \o toServer = OK
  BY Parts, Bounds DEF AskedOk
<1>2. data \in Seq(Unit) /\ Len(data) \in Nat /\ Len(data) >= 1
  BY <1>1, PieceFacts
<1>3. WholeLine(OK, srv.got, data, rest) \/ HalfLine(OK, srv.got, data, rest)
  BY <1>1, OkIsLine, HearingLine
<1>4. CASE HalfLine(OK, srv.got, data, rest)
  BY <1>4 DEF HalfLine, OkCut, CutsOk
<1>5. CASE WholeLine(OK, srv.got, data, rest) /\ srv.got = <<>>
  <2>1. srv.got \o data = OK /\ rest = <<>>
    BY <1>5 DEF WholeLine
  <2>2. <<>> \o data = data
    BY <1>2
  <2>3. data = OK
    BY <1>5, <2>1, <2>2
  <2>4. QED
    BY <1>5, <2>1, <2>3 DEF OkWhole
<1>6. CASE WholeLine(OK, srv.got, data, rest) /\ srv.got # <<>>
  <2>1. srv.got \o data = OK /\ rest = <<>>
    BY <1>6 DEF WholeLine
  <2>2. Len(OK) = Len(srv.got) + Len(data) /\ Len(srv.got) \in Nat
    BY <1>1, <1>2, <2>1, JoinOf
  <2>3. Len(srv.got) # 0
    BY <1>1, <1>6, EmptySeq
  <2>4. Len(data) = 1
    <3>1. Len(OK) = 2
      BY OkIsLine
    <3>2. ASSUME NEW g \in Nat, NEW d \in Nat, g # 0, d >= 1, g + d = 2
          PROVE  d = 1
      BY <3>2
    <3> HIDE DEF rest
    <3>3. QED
      BY <1>2, <2>2, <2>3, <3>1, <3>2
  <2>5. OK \o <<>> = OK
    BY OkIsLine
  <2>6. QED
    BY <1>6, <2>1, <2>4, <2>5 DEF OkCut
<1>7. QED
  BY <1>3, <1>4, <1>5, <1>6

\* In two pieces: it will wait for ever.
LEMMA OkIsCut ==
    ASSUME SessionInv, UNCHANGED <<cli, toClient, gone>>, NEW c, NEW p, AskedOk(c, p),
           NEW data \in Pieces(toServer, Cap), OkCut(data),
           toServer' = Rest(toServer, data), splitOk' = (splitOk \/ CutsOk(data)),
           srv' = [srv EXCEPT !.got = srv.got \o data]
    PROVE  /\ Typed' /\ Positions' /\ Counters' /\ Clocks'
           /\ AskedOk(c, p)'
<1>1. splitOk' \in BOOLEAN
  BY DEF SessionInv, Typed
<1>2. /\ Typed' /\ Positions' /\ Counters' /\ Clocks'
      /\ srv'.got = srv.got \o data /\ srv'.phase = srv.phase
  BY <1>1, Bounds, SrvKeeps
<1>3. splitOk'
  BY DEF OkCut, AskedOk
<1>4. srv'.got \o toServer' = OK
  BY <1>2 DEF OkCut
<1>5. AskedOk(c, p)'
  BY <1>2, <1>3, <1>4 DEF AskedOk
<1>6. QED
  BY <1>2, <1>5

LEMMA TimeTextShape ==
    ASSUME NEW time \in {0, 1}
    PROVE  /\ Line("TIME", <<time>>) \o Accept \in Seq(Unit)
           /\ Len(Line("TIME", <<time>>) \o Accept) = 4
<1>1. <<time>> \in Seq(Nat)
  BY NoArg
<1>2. Line("TIME", <<time>>) \in Seq(Unit) /\ Len(Line("TIME", <<time>>)) = 2
  BY <1>1, LineFacts DEF Words
<1>3. Accept \in Seq(Unit) /\ Len(Accept) = 2
  BY LineFacts, NoArg DEF Accept, Words
<1>4. QED
  BY <1>2, <1>3, TwoLines

LEMMA OkIsRead ==
    ASSUME SessionInv, UNCHANGED cli,
           NEW p \in {"GetChunksReceiveOK", "GetTimeReceiveOk"},
           NEW q \in {"GetChunksSendTime", "GetTimeSendTime"},
           NEW c, toServer # <<>> => AskedOk(c, p),
           NEW time \in {0, 1},
           NEW data \in Pieces(toServer, Cap), srv.phase = p,
           toServer' = Rest(toServer, data), splitOk' = (splitOk \/ CutsOk(data)),
           srv' = OkRead(data, q, time, srv.clock), UNCHANGED <<toClient, gone>>
    PROVE  /\ Typed' /\ Positions' /\ Counters' /\ Clocks'
           /\ AskedOk(c, p)' \/ Answering(c, TimeText, TimeSaid(q))'
<1>1. /\ Typed /\ Positions /\ toServer \in Seq(Unit) /\ srv \in SrvState
      /\ splitOk' \in BOOLEAN /\ toClient \in Seq(Unit) /\ Len(toClient) <= Cap
  BY Parts DEF SessionInv, Typed
<1>2. toServer # <<>>
  <2>1. Len(data) \in Nat /\ Len(data) >= 1 /\ Len(data) <= Len(toServer)
    BY <1>1, PieceFacts, Bounds
  <2>2. QED
    BY <2>1
<1>3. AskedOk(c, p)
  BY <1>2
<1>4. CASE OkWhole(data)
  <2> DEFINE s == [srv EXCEPT !.phase = q, !.time = time, !.clock = srv.clock]
  <2>1. srv' = s
    BY <1>4 DEF OkWhole, OkRead
  <2>2. q \in ServerPhases
    BY Phases
  <2>3. /\ srv' \in SrvState /\ srv'.phase = q /\ srv'.time = time
        /\ srv'.wpos = srv.wpos /\ srv'.got = srv.got /\ srv'.done = srv.done
        /\ srv'.points = srv.points
    <3>1. s \in SrvState
      BY <1>1, <2>2 DEF SrvState
    <3>2. s.phase = q /\ s.time = time
      BY <1>1 DEF SrvState
    <3>3. /\ s.wpos = srv.wpos /\ s.got = srv.got /\ s.done = srv.done
          /\ s.points = srv.points
      BY <1>1 DEF SrvState
    <3> HIDE DEF s
    <3>4. QED
      BY <2>1, <3>1, <3>2, <3>3
  <2>4. srv.wpos = 0 /\ srv.phase \in Reading /\ srv.got = <<>> /\ toServer' = <<>>
    BY <1>1, <1>4 DEF Positions, StartsAtFirst, Reading, SpinsOnEof, OkWhole
  <2>5. q \notin SaysHello \cup {"PingSendTime", "AcceptCommandSend", "AcceptCommandReceive"}
    BY DEF SaysHello
  <2>6. Typed' /\ Positions' /\ Counters' /\ Clocks'
    BY <1>1, <2>3, <2>4, <2>5, SrvTurns
  <2>7. q \in DOMAIN TimeSaid(q) /\ TimeSaid(q)[q] + 0 = 0
    BY DEF TimeSaid
  <2>8. Hears(<<>>, <<>>, TimeText', 0)
    <3>1. Typed'
      BY <2>6
    <3>2. srv'.time \in {0, 1}
      BY <2>3
    <3>3. TimeText' \in Seq(Unit) /\ Len(TimeText') = 4
      BY <3>2, TimeTextShape DEF TimeText
    <3> DEFINE text == TimeText'
    <3>4. text \in Seq(Unit) /\ Len(text) > 0
      BY <3>3
    <3> HIDE DEF text
    <3>5. Hears(<<>>, <<>>, text, 0)
      BY <3>4, SaidNothing
    <3>6. QED
      BY <3>5 DEF text
  <2>9. cli'.phase = c /\ cli'.got = <<>> /\ toClient' = <<>>
    BY <1>3 DEF AskedOk
  <2>10. Answering(c, TimeText, TimeSaid(q))'
    BY <2>3, <2>4, <2>7, <2>8, <2>9 DEF Answering
  <2>11. QED
    BY <2>6, <2>10
<1>5. CASE OkCut(data)
  <2>1. Len(data) = 1 /\ Len(OK) = 2
    BY <1>5, OkIsLine DEF OkCut
  <2>2. data # OK
    <3>1. Len(data) # Len(OK)
      BY <2>1
    <3>2. QED
      BY <3>1, Zenon
  <2>3. srv' = [srv EXCEPT !.got = srv.got \o data]
    BY <2>2 DEF OkRead
  <2>4. QED
    BY <1>3, <1>5, <2>3, OkIsCut
<1>6. QED
  BY <1>1, <1>3, <1>4, <1>5, OkHeard

LEMMA GetChunksReceiveOk ==
    ASSUME SessionInv, handle_get_chunks_receive_ok, UNCHANGED cli
    PROVE  SessionInv'
<1>1. PICK time \in {0, 1}, data \in Pieces(toServer, Cap) :
          /\ srv.phase = "GetChunksReceiveOK"
          /\ toServer' = Rest(toServer, data) /\ splitOk' = (splitOk \/ CutsOk(data))
          /\ srv' = OkRead(data, "GetChunksSendTime", time, srv.clock)
          /\ UNCHANGED <<toClient, gone>>
  BY DEF handle_get_chunks_receive_ok, SrvReads, At
<1>2. toServer # <<>> => AskedOk("GetChunksReceiveTime", "GetChunksReceiveOK")
  BY <1>1, SrvScene DEF SessionInv
<1>3. /\ Typed' /\ Positions' /\ Counters' /\ Clocks'
      /\ \/ AskedOk("GetChunksReceiveTime", "GetChunksReceiveOK")'
         \/ Answering("GetChunksReceiveTime", TimeText, TimeSaid("GetChunksSendTime"))'
  BY <1>1, <1>2, OkIsRead
<1>4. QED
  BY <1>3 DEF SessionInv, Scene

LEMMA GetTimeReceiveOk ==
    ASSUME SessionInv, handle_get_time_receive_ok, UNCHANGED cli
    PROVE  SessionInv'
<1>1. PICK time \in {0, 1}, data \in Pieces(toServer, Cap) :
          /\ srv.phase = "GetTimeReceiveOk"
          /\ toServer' = Rest(toServer, data) /\ splitOk' = (splitOk \/ CutsOk(data))
          /\ srv' = OkRead(data, "GetTimeSendTime", time, srv.clock)
          /\ UNCHANGED <<toClient, gone>>
  BY DEF handle_get_time_receive_ok, SrvReads, At
<1>2. toServer # <<>> => AskedOk("GetTimeReceiveTime", "GetTimeReceiveOk")
  BY <1>1, SrvScene DEF SessionInv
<1>3. /\ Typed' /\ Positions' /\ Counters' /\ Clocks'
      /\ \/ AskedOk("GetTimeReceiveTime", "GetTimeReceiveOk")'
         \/ Answering("GetTimeReceiveTime", TimeText, TimeSaid("GetTimeSendTime"))'
  BY <1>1, <1>2, OkIsRead
<1>4. QED
  BY <1>3 DEF SessionInv, Scene

LEMMA PingReceiveOk ==
    ASSUME SessionInv, handle_ping_receive_ok, UNCHANGED cli
    PROVE  SessionInv'
<1> DEFINE p == "PingReceiveOk"
           q == "PingSendTime"
           c == "PingReceiveTime"
<1>1. PICK time \in {0, 1}, data \in Pieces(toServer, Cap) :
          /\ srv.phase = p
          /\ toServer' = Rest(toServer, data) /\ splitOk' = (splitOk \/ CutsOk(data))
          /\ srv' = PingOkRead(data, time, "none")
          /\ UNCHANGED <<toClient, gone>>
  BY DEF handle_ping_receive_ok, SrvReads, At
<1>2. /\ Typed /\ Positions /\ Scene /\ toServer \in Seq(Unit) /\ srv \in SrvState
      /\ splitOk' \in BOOLEAN /\ toClient \in Seq(Unit) /\ Len(toClient) <= Cap
  BY <1>1, Parts DEF SessionInv, Typed
<1>3. /\ data \in Seq(Unit) /\ Len(data) \in Nat /\ Len(data) >= 1
      /\ Len(data) <= Len(toServer)
  BY <1>2, PieceFacts, Bounds
<1>4. toServer # <<>>
  BY <1>3
<1>5. AskedOk(c, p)
  BY <1>1, <1>2, <1>4, SrvScene
<1> DEFINE head == SubSeq(data, 1, Least(Len(OK), Len(data)))
<1>6. CASE OkWhole(data)
  <2> DEFINE s == [srv EXCEPT !.phase = q, !.time = time, !.clock = "none", !.got = <<>>]
  <2>1. head = OK
    <3>1. Least(Len(OK), Len(data)) = Len(OK) /\ data = OK
      BY <1>6 DEF OkWhole, Least
    <3>2. SubSeq(OK, 1, Len(OK)) = OK
      BY OkIsLine
    <3>3. QED
      BY <3>1, <3>2
  <2>2. srv' = s
    BY <1>1, <2>1 DEF PingOkRead
  <2>3. q \in ServerPhases /\ <<>> \in Seq(Unit)
    BY Phases
  <2>4. /\ srv' \in SrvState /\ srv'.phase = q /\ srv'.time = time
        /\ srv'.wpos = srv.wpos /\ srv'.got = <<>> /\ srv'.done = srv.done
        /\ srv'.points = srv.points /\ srv'.clock = "none"
    <3>1. s \in SrvState
      BY <1>2, <2>3 DEF SrvState
    <3>2. s.phase = q /\ s.time = time /\ s.clock = "none" /\ s.got = <<>>
      BY <1>2 DEF SrvState
    <3>3. s.wpos = srv.wpos /\ s.done = srv.done /\ s.points = srv.points
      BY <1>2 DEF SrvState
    <3> HIDE DEF s
    <3>4. QED
      BY <2>2, <3>1, <3>2, <3>3
  <2>5. srv.wpos = 0 /\ srv.phase \in Reading /\ toServer' = <<>>
    BY <1>1, <1>2, <1>6 DEF Positions, StartsAtFirst, Reading, SpinsOnEof, OkWhole
  <2>6. Typed' /\ Positions' /\ Counters' /\ Clocks'
    BY <1>1, <1>2, <2>4, <2>5, SrvTurns
  <2>7. q \in DOMAIN TimeSaid(q) /\ TimeSaid(q)[q] + 0 = 0
    BY DEF TimeSaid
  <2>8. Hears(<<>>, <<>>, TimeText', 0)
    <3>1. srv'.time \in {0, 1}
      BY <2>4
    <3>2. TimeText' \in Seq(Unit) /\ Len(TimeText') = 4
      BY <3>1, TimeTextShape DEF TimeText
    <3> DEFINE text == TimeText'
    <3>3. text \in Seq(Unit) /\ Len(text) > 0
      BY <3>2
    <3> HIDE DEF text
    <3>4. Hears(<<>>, <<>>, text, 0)
      BY <3>3, SaidNothing
    <3>5. QED
      BY <3>4 DEF text
  <2>9. cli'.phase = c /\ cli'.got = <<>> /\ toClient' = <<>>
    BY <1>1, <1>5 DEF AskedOk
  <2>10. Answering(c, TimeText, TimeSaid(q))'
    BY <2>4, <2>5, <2>7, <2>8, <2>9 DEF Answering
  <2>11. QED
    BY <2>6, <2>10 DEF SessionInv, Scene
<1>7. CASE OkCut(data)
  <2>1. Len(data) = 1 /\ Len(OK) = 2
    BY <1>7, OkIsLine DEF OkCut
  <2>2. Least(Len(OK), Len(data)) = 0 + 1
    BY <2>1 DEF Least
  <2>3. Len(SubSeq(data, 0 + 1, 0 + 1)) = 1
    BY <1>3, <2>1, PartOf
  <2>4. Len(head) # Len(OK)
    BY <2>1, <2>2, <2>3
  <2>5. head # OK
    BY <2>4, Zenon
  <2>6. srv' = [srv EXCEPT !.got = srv.got \o data]
    BY <1>1, <2>5 DEF PingOkRead
  <2>7. /\ Typed' /\ Positions' /\ Counters' /\ Clocks'
        /\ AskedOk(c, p)'
    BY <1>1, <1>5, <1>7, <2>6, OkIsCut
  <2>8. QED
    BY <2>7 DEF SessionInv, Scene
<1>8. QED
  BY <1>2, <1>5, <1>6, <1>7, OkHeard
-----------------------------------------------------------------------------
(* The server reads a command.                                             *)

\* What the server makes of the four lines that the client sends.
LEMMA CommandIs ==
    ASSUME srv \in SrvState, NEW size \in Stored, NEW total \in Nat
    PROVE  /\ Command(Line("GETCHUNKS", <<total, size>>), FALSE) =
                 [srv EXCEPT !.phase = "GetChunkSendChunk", !.got = <<>>, !.num = total,
                             !.size = size]
           /\ Command(Line("PING", <<>>), FALSE) = [srv EXCEPT !.phase = "PongSend", !.got = <<>>]
           /\ Command(Line("GETTIME", <<size>>), FALSE) =
                 [srv EXCEPT !.phase = "GetTimeSendChunk", !.got = <<>>, !.size = size,
                             !.over = FALSE]
           /\ Command(Line("PUTTIMERESULT", <<size>>), FALSE) =
                 [srv EXCEPT !.phase = "PutTimeResultSendOk", !.got = <<>>, !.size = size]
<1>1. size \in MinChunk..MaxChunk /\ size # 0
  BY StoredFacts, Bounds
<1>2. ASSUME NEW word \in Words, NEW arg \in Seq(Nat)
      PROVE  /\ Line(word, arg)[1].of = word /\ LastOf(Line(word, arg)).arg = arg
             /\ LinesOf("GETCHUNKS", Line(word, arg)) # {} <=> word = "GETCHUNKS"
  <2> DEFINE line == Line(word, arg)
  <2>1. /\ line \in Seq(Unit) /\ Len(line) = 2
        /\ line[1] = [of |-> word, at |-> 1, arg |-> arg]
        /\ line[2] = [of |-> word, at |-> 2, arg |-> arg]
    BY LineFacts
  <2> HIDE DEF line
  <2>2. line[1].of = word /\ line[1].at = 1 /\ line[2].at = 2 /\ line[2].arg = arg
    BY <2>1
  <2>3. LastOf(line) = line[2]
    BY <2>1 DEF LastOf
  <2>4. 1..(Len(line) - 1) = {1}
    BY <2>1
  <2>5. LinesOf("GETCHUNKS", line) = {i \in {1} : line[i].of = "GETCHUNKS" /\ line[i].at = 1
                                                   /\ line[i + 1].at = 2}
    BY <2>4 DEF LinesOf
  <2>6. LinesOf("GETCHUNKS", line) # {} <=> word = "GETCHUNKS"
    BY <2>2, <2>5
  <2>7. QED
    BY <2>2, <2>3, <2>6 DEF line
<1>3. <<total, size>> \in Seq(Nat) /\ <<size>> \in Seq(Nat) /\ <<>> \in Seq(Nat)
  BY StoredFacts
<1>4. /\ Len(<<total, size>>) = 2 /\ <<total, size>>[1] = total /\ <<total, size>>[2] = size
      /\ Len(<<size>>) = 1 /\ <<size>>[1] = size
  OBVIOUS
<1>5. /\ SizeArg(<<total, size>>, 2, MinChunk, 0) = size
      /\ SizeArg(<<size>>, 1, MinChunk, 0) = size
      /\ SizeArg(<<size>>, 1, MinChunk, MinChunk) = size
  BY <1>1, <1>4 DEF SizeArg
<1>6. Command(Line("GETCHUNKS", <<total, size>>), FALSE) =
          [srv EXCEPT !.phase = "GetChunkSendChunk", !.got = <<>>, !.num = total, !.size = size]
  <2> DEFINE line == Line("GETCHUNKS", <<total, size>>)
  <2>1. /\ line[1].of = "GETCHUNKS" /\ LinesOf("GETCHUNKS", line) # {}
        /\ LastOf(line).arg = <<total, size>>
    <3>1. "GETCHUNKS" \in Words
      BY DEF Words
    <3>2. QED
      BY <1>2, <1>3, <3>1, Zenon
  <2> HIDE DEF line
  <2>2. Command(line, FALSE) = GetChunks(<<total, size>>)
    BY <2>1 DEF Command
  <2>3. QED
    BY <1>1, <1>4, <1>5, <2>2 DEF GetChunks, line
<1>7. Command(Line("PING", <<>>), FALSE) = [srv EXCEPT !.phase = "PongSend", !.got = <<>>]
  <2> DEFINE line == Line("PING", <<>>)
  <2>1. line[1].of = "PING" /\ LinesOf("GETCHUNKS", line) = {}
    <3>1. "PING" \in Words /\ "PING" # "GETCHUNKS"
      BY DEF Words
    <3>2. QED
      BY <1>2, <1>3, <3>1, Zenon
  <2> HIDE DEF line
  <2>2. QED
    BY <2>1 DEF Command, line
<1>8. Command(Line("GETTIME", <<size>>), FALSE) =
          [srv EXCEPT !.phase = "GetTimeSendChunk", !.got = <<>>, !.size = size, !.over = FALSE]
  <2> DEFINE line == Line("GETTIME", <<size>>)
  <2>1. /\ line[1].of = "GETTIME" /\ LinesOf("GETCHUNKS", line) = {}
        /\ LastOf(line).arg = <<size>>
    <3>1. "GETTIME" \in Words /\ "GETTIME" # "GETCHUNKS"
      BY DEF Words
    <3>2. QED
      BY <1>2, <1>3, <3>1, Zenon
  <2> HIDE DEF line
  <2>2. Command(line, FALSE) = GetTime(<<size>>, FALSE)
    BY <2>1 DEF Command
  <2>3. QED
    BY <1>1, <1>5, <2>2 DEF GetTime, line
<1>9. Command(Line("PUTTIMERESULT", <<size>>), FALSE) =
          [srv EXCEPT !.phase = "PutTimeResultSendOk", !.got = <<>>, !.size = size]
  <2> DEFINE line == Line("PUTTIMERESULT", <<size>>)
  <2>1. /\ line[1].of = "PUTTIMERESULT" /\ LinesOf("GETCHUNKS", line) = {}
        /\ LastOf(line).arg = <<size>>
    <3>1. "PUTTIMERESULT" \in Words /\ "PUTTIMERESULT" # "GETCHUNKS"
      BY DEF Words
    <3>2. QED
      BY <1>2, <1>3, <3>1, Zenon
  <2> HIDE DEF line
  <2>2. Command(line, FALSE) = PutTimeResult(<<size>>)
    BY <2>1 DEF Command
  <2>3. Command(line, FALSE) =
           [[srv EXCEPT !.phase = "PutTimeResultSendOk", !.got = <<>>] EXCEPT !.size = size]
    BY <1>5, <2>2 DEF PutTimeResult
  <2>4. QED
    BY <2>3 DEF line
<1>10. QED
  BY <1>6, <1>7, <1>8, <1>9

\* A state that the server goes on to from a command.
Follows(s, p) ==
    /\ s \in SrvState /\ s.phase = p /\ s.wpos = srv.wpos /\ s.got = <<>>
    /\ s.done = srv.done /\ s.points = srv.points /\ s.clock = srv.clock

LEMMA CommandFacts ==
    ASSUME srv \in SrvState, NEW size \in Stored, NEW total \in Nat
    PROVE  /\ Follows(Command(Line("GETCHUNKS", <<total, size>>), FALSE), "GetChunkSendChunk")
           /\ Follows(Command(Line("PING", <<>>), FALSE), "PongSend")
           /\ Follows(Command(Line("GETTIME", <<size>>), FALSE), "GetTimeSendChunk")
           /\ Follows(Command(Line("PUTTIMERESULT", <<size>>), FALSE), "PutTimeResultSendOk")
<1>1. <<>> \in Seq(Unit)
  OBVIOUS
<1>2. /\ "GetChunkSendChunk" \in ServerPhases /\ "PongSend" \in ServerPhases
      /\ "GetTimeSendChunk" \in ServerPhases /\ "PutTimeResultSendOk" \in ServerPhases
  BY Phases
<1>3. Follows(Command(Line("GETCHUNKS", <<total, size>>), FALSE), "GetChunkSendChunk")
  <2> DEFINE s == Command(Line("GETCHUNKS", <<total, size>>), FALSE)
  <2>1. s = [srv EXCEPT !.phase = "GetChunkSendChunk", !.got = <<>>, !.num = total, !.size = size]
    BY CommandIs
  <2> HIDE DEF s
  <2>2. s \in SrvState
    BY <1>1, <1>2, <2>1 DEF SrvState
  <2>3. /\ s.phase = "GetChunkSendChunk" /\ s.wpos = srv.wpos /\ s.got = <<>>
        /\ s.done = srv.done /\ s.points = srv.points /\ s.clock = srv.clock
    BY <2>1 DEF SrvState
  <2>4. QED
    BY <2>2, <2>3 DEF Follows, s
<1>4. Follows(Command(Line("PING", <<>>), FALSE), "PongSend")
  <2> DEFINE s == Command(Line("PING", <<>>), FALSE)
  <2>1. s = [srv EXCEPT !.phase = "PongSend", !.got = <<>>]
    BY CommandIs
  <2> HIDE DEF s
  <2>2. s \in SrvState
    BY <1>1, <1>2, <2>1 DEF SrvState
  <2>3. /\ s.phase = "PongSend" /\ s.wpos = srv.wpos /\ s.got = <<>>
        /\ s.done = srv.done /\ s.points = srv.points /\ s.clock = srv.clock
    BY <2>1 DEF SrvState
  <2>4. QED
    BY <2>2, <2>3 DEF Follows, s
<1>5. Follows(Command(Line("GETTIME", <<size>>), FALSE), "GetTimeSendChunk")
  <2> DEFINE s == Command(Line("GETTIME", <<size>>), FALSE)
  <2>1. s = [srv EXCEPT !.phase = "GetTimeSendChunk", !.got = <<>>, !.size = size, !.over = FALSE]
    BY CommandIs
  <2> HIDE DEF s
  <2>2. s \in SrvState
    BY <1>1, <1>2, <2>1 DEF SrvState
  <2>3. /\ s.phase = "GetTimeSendChunk" /\ s.wpos = srv.wpos /\ s.got = <<>>
        /\ s.done = srv.done /\ s.points = srv.points /\ s.clock = srv.clock
    BY <2>1 DEF SrvState
  <2>4. QED
    BY <2>2, <2>3 DEF Follows, s
<1>6. Follows(Command(Line("PUTTIMERESULT", <<size>>), FALSE), "PutTimeResultSendOk")
  <2> DEFINE s == Command(Line("PUTTIMERESULT", <<size>>), FALSE)
  <2>1. s = [srv EXCEPT !.phase = "PutTimeResultSendOk", !.got = <<>>, !.size = size]
    BY CommandIs
  <2> HIDE DEF s
  <2>2. s \in SrvState
    BY <1>1, <1>2, <2>1 DEF SrvState
  <2>3. /\ s.phase = "PutTimeResultSendOk" /\ s.wpos = srv.wpos /\ s.got = <<>>
        /\ s.done = srv.done /\ s.points = srv.points /\ s.clock = srv.clock
    BY <2>1 DEF SrvState
  <2>4. QED
    BY <2>2, <2>3 DEF Follows, s
<1>7. QED
  BY <1>3, <1>4, <1>5, <1>6

LEMMA CommandHeard ==
    ASSUME SessionInv, UNCHANGED <<cli, toClient, gone>>,
           NEW c, NEW line \in Seq(Unit), NEW word, IsLine(line, word),
           Asked(c, "AcceptCommandReceive", line),
           NEW data \in Pieces(toServer, Cap),
           toServer' = Rest(toServer, data), splitOk' \in BOOLEAN,
           srv' = IF EndsLine(srv.got \o data) THEN Command(srv.got \o data, FALSE)
                  ELSE [srv EXCEPT !.got = srv.got \o data]
    PROVE  \/ toServer' = <<>> /\ srv' = Command(line, FALSE)
           \/ /\ Typed' /\ Positions' /\ Counters' /\ Clocks'
              /\ Asked(c, "AcceptCommandReceive", line)'
<1>1. Typed
  BY DEF SessionInv
<1>2. CASE WholeLine(line, srv.got, data, Rest(toServer, data))
  BY <1>2 DEF WholeLine
<1>3. CASE HalfLine(line, srv.got, data, Rest(toServer, data))
  <2>1. /\ Rest(toServer, data) # <<>> /\ ~EndsLine(srv.got \o data)
        /\ (srv.got \o data) \o Rest(toServer, data) = line
    BY <1>3 DEF HalfLine
  <2>2. srv' = [srv EXCEPT !.got = srv.got \o data]
    BY <2>1
  <2>3. /\ Typed' /\ Positions' /\ Counters' /\ Clocks'
        /\ srv'.got = srv.got \o data /\ srv'.phase = srv.phase
    BY <2>2, SrvKeeps, Bounds
  <2>4. Asked(c, "AcceptCommandReceive", line)'
    BY <2>1, <2>3 DEF Asked
  <2>5. QED
    BY <2>3, <2>4
<1>4. QED
  BY <1>1, <1>2, <1>3, AskedHeard

LEMMA CommandTaken ==
    ASSUME SessionInv, UNCHANGED <<cli, toClient, gone>>, toServer' = <<>>,
           splitOk' \in BOOLEAN, srv.phase = "AcceptCommandReceive", srv.clock = "none",
           NEW q \in {"GetChunkSendChunk", "PongSend", "GetTimeSendChunk",
                      "PutTimeResultSendOk"},
           Follows(srv', q)
    PROVE  Typed' /\ Positions' /\ Counters' /\ Clocks' /\ srv'.wpos = 0
<1>1. /\ srv' \in SrvState /\ srv'.phase = q /\ srv'.wpos = srv.wpos
      /\ srv'.done = srv.done /\ srv'.points = srv.points
  BY DEF Follows
<1>2. srv.phase \in Reading /\ srv.wpos = 0
  BY DEF SessionInv, Positions, StartsAtFirst, Reading
<1>3. toClient \in Seq(Unit) /\ Len(toClient) <= Cap
  BY Parts DEF SessionInv
<1>4. q \notin SaysHello \cup {"PingSendTime", "AcceptCommandSend", "AcceptCommandReceive"}
  BY DEF SaysHello
<1>5. Typed' /\ Positions' /\ Counters' /\ Clocks'
  BY <1>1, <1>2, <1>3, <1>4, SrvTurns
<1>6. QED
  BY <1>1, <1>2, <1>5

LEMMA ReceiveCommand ==
    ASSUME SessionInv, handle_main_command_receive, UNCHANGED cli
    PROVE  SessionInv'
<1> DEFINE p == "AcceptCommandReceive"
<1>1. PICK over \in BOOLEAN, data \in Pieces(toServer, Cap) :
          /\ over => srv.clock # "none"
          /\ srv.phase = p
          /\ toServer' = Rest(toServer, data) /\ splitOk' = (splitOk \/ CutsOk(data))
          /\ srv' = IF EndsLine(srv.got \o data) THEN Command(srv.got \o data, over)
                    ELSE [srv EXCEPT !.got = srv.got \o data]
          /\ UNCHANGED <<toClient, gone>>
  BY DEF handle_main_command_receive, SrvReads, At
<1>2. /\ Typed /\ Positions /\ Clocks /\ Scene /\ toServer \in Seq(Unit) /\ srv \in SrvState
      /\ splitOk' \in BOOLEAN /\ cli.size \in Stored /\ cli.total \in Nat
  BY <1>1, Parts DEF SessionInv, Typed, CliState
<1>3. toServer # <<>>
  <2>1. Len(data) \in Nat /\ Len(data) >= 1 /\ Len(data) <= Len(toServer)
    BY <1>2, PieceFacts, Bounds
  <2>2. QED
    BY <2>1
<1>4. PICK size, total : size = cli.size /\ total = cli.total
  OBVIOUS
<1> DEFINE get  == Line("GETCHUNKS", <<total, size>>)
           ping == Line("PING", <<>>)
           time == Line("GETTIME", <<size>>)
           put  == Line("PUTTIMERESULT", <<size>>)
<1>5. /\ IsLine(get, "GETCHUNKS") /\ IsLine(ping, "PING")
      /\ IsLine(time, "GETTIME") /\ IsLine(put, "PUTTIMERESULT")
      /\ get \in Seq(Unit) /\ ping \in Seq(Unit) /\ time \in Seq(Unit) /\ put \in Seq(Unit)
  <2>1. <<total, size>> \in Seq(Nat) /\ <<size>> \in Seq(Nat) /\ <<>> \in Seq(Nat)
    BY <1>2, <1>4, StoredFacts
  <2>2. QED
    BY <2>1, LineIsLine, LineFacts DEF Words
<1>6. /\ Command(get, FALSE) = [srv EXCEPT !.phase = "GetChunkSendChunk", !.got = <<>>,
                                           !.num = total, !.size = size]
      /\ Command(ping, FALSE) = [srv EXCEPT !.phase = "PongSend", !.got = <<>>]
      /\ Command(time, FALSE) = [srv EXCEPT !.phase = "GetTimeSendChunk", !.got = <<>>,
                                            !.size = size, !.over = FALSE]
      /\ Command(put, FALSE) = [srv EXCEPT !.phase = "PutTimeResultSendOk", !.got = <<>>,
                                           !.size = size]
  BY <1>2, <1>4, CommandIs
<1>7. /\ Follows(Command(get, FALSE), "GetChunkSendChunk")
      /\ Follows(Command(ping, FALSE), "PongSend")
      /\ Follows(Command(time, FALSE), "GetTimeSendChunk")
      /\ Follows(Command(put, FALSE), "PutTimeResultSendOk")
  BY <1>2, <1>4, CommandFacts
<1>8. /\ Command(get, FALSE).size = size /\ Command(time, FALSE).size = size
      /\ Command(put, FALSE).size = size
  BY <1>2, <1>6 DEF SrvState
<1>9. /\ size \in Nat /\ size > 0
  <2>1. size \in Stored
    BY <1>2, <1>4
  <2>2. size \in Nat /\ MinChunk <= size
    BY <2>1, StoredFacts
  <2>3. QED
    BY <2>2, Bounds
<1>10. Chunked(<<>> \o <<>>, size, 0, FALSE)
  <2>1. <<>> \o <<>> = <<>>
    OBVIOUS
  <2>2. QED
    BY <1>9, <2>1, NoChunkYet
<1> HIDE DEF get, ping, time, put
<1>11. \/ Asked("GetChunksReceiveChunk", p, get) \/ Asked("PingReceivePong", p, ping)
       \/ Asked("GetTimeReceiveChunk", p, time) \/ Asked("PerfReceiveOk", p, put)
  BY <1>1, <1>2, <1>3, <1>4, SrvScene DEF get, ping, time, put
<1>12. srv.clock = "none"
  BY <1>1, <1>2, <1>11 DEF Clocks, Asked
<1>13. srv' = IF EndsLine(srv.got \o data) THEN Command(srv.got \o data, FALSE)
              ELSE [srv EXCEPT !.got = srv.got \o data]
  BY <1>1, <1>12
<1>14. cli'.size = size /\ cli'.total = total
  BY <1>4
<1>15. CASE Asked("GetChunksReceiveChunk", p, get)
  <2> DEFINE c == "GetChunksReceiveChunk"
             q == "GetChunkSendChunk"
  <2>1. CASE toServer' = <<>> /\ srv' = Command(get, FALSE)
    <3>1. Typed' /\ Positions' /\ Counters' /\ Clocks' /\ srv'.wpos = 0
      BY <1>1, <1>2, <1>7, <1>12, <2>1, CommandTaken
    <3>2. srv'.phase = q /\ srv'.got = <<>> /\ srv'.size = size
      BY <1>7, <1>8, <2>1 DEF Follows
    <3>3. cli'.phase = c /\ cli'.got = <<>> /\ toClient' = <<>>
      BY <1>1, <1>15 DEF Asked
    <3>4. (srv'.phase = "GetChunksReceiveOK") = FALSE /\ q \in {q} /\ Len(<<>>) = 0
      BY <3>2
    <3>5. Downloading(c, q, "GetChunksSendChunksLast", "GetChunksReceiveOK")'
      BY <1>9, <1>10, <1>14, <2>1, <3>1, <3>2, <3>3, <3>4 DEF Downloading
    <3>6. QED
      BY <3>1, <3>5 DEF SessionInv, Scene
  <2>2. CASE /\ Typed' /\ Positions' /\ Counters' /\ Clocks'
             /\ Asked(c, p, get)'
    BY <1>14, <2>2 DEF SessionInv, Scene, get
  <2>3. QED
    BY <1>1, <1>2, <1>5, <1>13, <1>15, <2>1, <2>2, CommandHeard
<1>16. CASE Asked("PingReceivePong", p, ping)
  <2> DEFINE c == "PingReceivePong"
             q == "PongSend"
  <2>1. CASE toServer' = <<>> /\ srv' = Command(ping, FALSE)
    <3>1. Typed' /\ Positions' /\ Counters' /\ Clocks' /\ srv'.wpos = 0
      BY <1>1, <1>2, <1>7, <1>12, <2>1, CommandTaken
    <3>2. srv'.phase = q /\ srv'.got = <<>>
      BY <1>7, <2>1 DEF Follows
    <3>3. cli'.phase = c /\ cli'.got = <<>> /\ toClient' = <<>>
      BY <1>1, <1>16 DEF Asked
    <3>4. q \in DOMAIN PongSaid /\ PongSaid[q] + 0 = 0
      BY DEF PongSaid
    <3> DEFINE text == Line("PONG", <<>>)
    <3>5. text \in Seq(Unit) /\ Len(text) = 2
      BY PongTextFacts
    <3> HIDE DEF text
    <3>6. Hears(<<>>, <<>>, text, 0)
      <4>1. Len(text) > 0
        BY <3>5
      <4>2. QED
        BY <3>5, <4>1, SaidNothing
    <3>7. Answering(c, text, PongSaid)'
      BY <2>1, <3>1, <3>2, <3>3, <3>4, <3>6 DEF Answering
    <3>8. QED
      BY <3>1, <3>7 DEF SessionInv, Scene, text
  <2>2. CASE /\ Typed' /\ Positions' /\ Counters' /\ Clocks'
             /\ Asked(c, p, ping)'
    BY <2>2 DEF SessionInv, Scene, ping
  <2>3. QED
    BY <1>1, <1>2, <1>5, <1>13, <1>16, <2>1, <2>2, CommandHeard
<1>17. CASE Asked("GetTimeReceiveChunk", p, time)
  <2> DEFINE c == "GetTimeReceiveChunk"
             q == "GetTimeSendChunk"
  <2>1. CASE toServer' = <<>> /\ srv' = Command(time, FALSE)
    <3>1. Typed' /\ Positions' /\ Counters' /\ Clocks' /\ srv'.wpos = 0
      BY <1>1, <1>2, <1>7, <1>12, <2>1, CommandTaken
    <3>2. srv'.phase = q /\ srv'.got = <<>> /\ srv'.size = size
      BY <1>7, <1>8, <2>1 DEF Follows
    <3>3. cli'.phase = c /\ cli'.got = <<>> /\ toClient' = <<>>
      BY <1>1, <1>17 DEF Asked
    <3>4. (srv'.phase = "GetTimeReceiveOk") = FALSE /\ q \in {q} /\ Len(<<>>) = 0
      BY <3>2
    <3>5. Downloading(c, q, "GetTimeSendLastChunk", "GetTimeReceiveOk")'
      BY <1>9, <1>10, <1>14, <2>1, <3>1, <3>2, <3>3, <3>4 DEF Downloading
    <3>6. QED
      BY <3>1, <3>5 DEF SessionInv, Scene
  <2>2. CASE /\ Typed' /\ Positions' /\ Counters' /\ Clocks'
             /\ Asked(c, p, time)'
    BY <1>14, <2>2 DEF SessionInv, Scene, time
  <2>3. QED
    BY <1>1, <1>2, <1>5, <1>13, <1>17, <2>1, <2>2, CommandHeard
<1>18. CASE Asked("PerfReceiveOk", p, put)
  <2> DEFINE c == "PerfReceiveOk"
             q == "PutTimeResultSendOk"
  <2>1. CASE toServer' = <<>> /\ srv' = Command(put, FALSE)
    <3>1. Typed' /\ Positions' /\ Counters' /\ Clocks' /\ srv'.wpos = 0
      BY <1>1, <1>2, <1>7, <1>12, <2>1, CommandTaken
    <3>2. srv'.phase = q /\ srv'.got = <<>> /\ srv'.size = size
      BY <1>7, <1>8, <2>1 DEF Follows
    <3>3. cli'.phase = c /\ cli'.got = <<>> /\ toClient' = <<>>
      BY <1>1, <1>18 DEF Asked
    <3>4. UploadBegins'
      BY <1>14, <2>1, <3>2, <3>3 DEF UploadBegins
    <3>5. QED
      BY <3>1, <3>4 DEF SessionInv, Scene
  <2>2. CASE /\ Typed' /\ Positions' /\ Counters' /\ Clocks'
             /\ Asked(c, p, put)'
    BY <1>14, <2>2 DEF SessionInv, Scene, put
  <2>3. QED
    BY <1>1, <1>2, <1>5, <1>13, <1>18, <2>1, <2>2, CommandHeard
<1>19. QED
  BY <1>11, <1>15, <1>16, <1>17, <1>18
-----------------------------------------------------------------------------
(* The server sends chunks.                                                *)

\* The session s with n units of a chunk written.
Upto(s, n) == [s EXCEPT !.wpos = n]

LEMMA UptoFacts ==
    ASSUME NEW s \in SrvState, NEW n \in Nat
    PROVE  /\ Upto(s, n) \in SrvState /\ Upto(s, n).wpos = n
           /\ Upto(s, n).phase = s.phase /\ Upto(s, n).got = s.got
           /\ Upto(s, n).size = s.size /\ Upto(s, n).done = s.done
           /\ Upto(s, n).clock = s.clock /\ Upto(s, n).points = s.points
<1>1. Upto(s, n) \in SrvState
  BY DEF SrvState, Upto
<1>2. Upto(s, n).wpos = n
  BY DEF SrvState, Upto
<1>3. /\ Upto(s, n).phase = s.phase /\ Upto(s, n).got = s.got
      /\ Upto(s, n).size = s.size /\ Upto(s, n).done = s.done
      /\ Upto(s, n).clock = s.clock /\ Upto(s, n).points = s.points
  BY DEF SrvState, Upto
<1>4. QED
  BY <1>1, <1>2, <1>3

\* More of a chunk on the way from a writer to a reader that has read `got`.
LEMMA ChunkOnTheWay ==
    ASSUME NEW size \in Stored, NEW last \in BOOLEAN, NEW w \in Nat,
           NEW got \in Seq(Unit), NEW ch \in Seq(Unit), Len(ch) <= Cap,
           Chunked(got \o ch, size, w, FALSE),
           NEW out, out = Taken(ch, Chunk(size, last), w), out # <<>>
    PROVE  /\ ch \o out \in Seq(Unit) /\ Len(ch \o out) <= Cap /\ Len(out) \in Nat
           /\ Len(out) >= 1 /\ out \in Seq(Unit)
           /\ IF w + Len(out) = size THEN Chunked(got \o (ch \o out), size, 0, last)
              ELSE w + Len(out) < size /\ Chunked(got \o (ch \o out), size, w + Len(out), FALSE)
<1> DEFINE chunk == Chunk(size, last)
<1>1. size \in Nat
  BY StoredFacts
<1>2. chunk \in Seq(Unit) /\ Len(chunk) = size
  BY <1>1, ChunkFacts
<1>3. w \in 0..(size - 1)
  BY DEF Chunked
<1>4. w \in 0..Len(chunk)
  BY <1>1, <1>2, <1>3
<1> HIDE DEF chunk
<1>5. /\ out \in Seq(Unit) /\ Len(out) \in Nat /\ w + Len(out) <= size
      /\ \A i \in 1..Len(out) : out[i] = chunk[w + i]
      /\ ch \o out \in Seq(Unit) /\ Len(ch \o out) <= Cap
  BY <1>2, <1>4, TakenFacts DEF chunk
<1>6. Len(out) >= 1
  BY <1>5
<1>7. got \o ch \in Seq(Unit) /\ (got \o ch) \o out = got \o (ch \o out)
  <2>1. got \o ch \in Seq(Unit)
    BY JoinOf
  <2>2. (got \o ch) \o out = got \o (ch \o out)
    BY <1>5, JoinThree
  <2>3. QED
    BY <2>1, <2>2
<1>8. IF w + Len(out) = size THEN Chunked((got \o ch) \o out, size, 0, last)
      ELSE Chunked((got \o ch) \o out, size, w + Len(out), FALSE)
  BY <1>1, <1>5, <1>6, <1>7, SayingChunk DEF chunk
<1>9. w + Len(out) # size => w + Len(out) < size
  <2>1. ASSUME NEW k \in Nat, w + k <= size, w + k # size
        PROVE  w + k < size
    BY <1>1, <2>1
  <2>2. QED
    BY <1>5, <2>1
<1>10. QED
  BY <1>5, <1>6, <1>7, <1>8, <1>9

LEMMA DownloadKeeps ==
    ASSUME SessionInv, UNCHANGED <<cli, toServer, gone, splitOk>>,
           toClient' \in Seq(Unit), Len(toClient') <= Cap, srv' \in SrvState,
           srv'.phase \in {"GetChunkSendChunk", "GetChunksSendChunksLast", "GetTimeSendChunk",
                           "GetTimeSendLastChunk", "GetChunksReceiveOK", "GetTimeReceiveOk"},
           srv'.wpos <= MaxChunk, srv'.phase \notin SendsChunks => srv'.wpos = 0,
           srv'.phase = "GetChunkSendChunk" => srv'.clock # "none",
           srv'.phase \notin {"GetChunkSendChunk", "GetChunksSendChunksLast"} => srv'.done = 0,
           srv'.points = srv.points
    PROVE  Typed' /\ Positions' /\ Counters' /\ Clocks'
<1>1. Typed /\ Positions /\ Counters
  BY DEF SessionInv
<1>2. Typed'
  BY <1>1 DEF Typed
<1>3. Positions'
  BY <1>1, Bounds DEF Positions, SendsChunks, StartsAtFirst, Reading, SpinsOnEof
<1>4. Counters'
  BY <1>1 DEF Counters
<1>5. Clocks'
  BY DEF Clocks, SaysHello
<1>6. QED
  BY <1>2, <1>3, <1>4, <1>5

\* What one turn of a handler that writes the chunk with `last` leads to: `fin` when all
\* of the chunk is written.
ChunkWent(begun, fin, last) ==
    /\ toClient' \in Seq(Unit) /\ Len(toClient') <= Cap
    /\ \/ srv' = fin /\ Chunked(cli.got \o toClient', cli.size, 0, last)
       \/ \E n \in Nat : /\ n < cli.size /\ srv' = Upto(begun, n)
                         /\ Chunked(cli.got \o toClient', cli.size, n, FALSE)

LEMMA ChunkSaid ==
    ASSUME Typed, UNCHANGED cli, NEW c, NEW sending, NEW final, NEW ok,
           Downloading(c, sending, final, ok), NEW p, p # ok, srv.phase = p,
           NEW last \in BOOLEAN,
           NEW begun \in SrvState, NEW fin \in SrvState,
           SrvWrites(p, Chunk(srv.size, last), begun, fin)
    PROVE  /\ ChunkWent(begun, fin, last)
           /\ UNCHANGED <<toServer, gone, splitOk>>
<1> DEFINE w    == srv.wpos
           size == cli.size
           got  == cli.got
           ch   == toClient
           out  == Taken(ch, Chunk(size, last), w)
<1>1. size \in Stored /\ w \in Nat /\ got \in Seq(Unit) /\ ch \in Seq(Unit) /\ Len(ch) <= Cap
  BY Parts
<1>2. srv.size = size
  BY DEF Downloading
<1>3. Chunked(got \o ch, size, w, FALSE)
  <2>1. (srv.phase = ok) = FALSE
    OBVIOUS
  <2>2. QED
    BY <2>1 DEF Downloading
<1>4. /\ out # <<>> /\ toClient' = ch \o out
      /\ srv' = IF w + Len(out) = Len(Chunk(size, last)) THEN fin
                ELSE [begun EXCEPT !.wpos = w + Len(out)]
      /\ UNCHANGED <<toServer, gone, splitOk>>
  BY <1>2 DEF SrvWrites, SrvWritesFrom
<1>5. size \in Nat /\ size <= MaxChunk
  BY <1>1, StoredFacts
<1>6. Len(Chunk(size, last)) = size
  BY <1>5, ChunkFacts
<1> HIDE DEF w, size, got, ch
<1>7. /\ ch \o out \in Seq(Unit) /\ Len(ch \o out) <= Cap /\ Len(out) \in Nat
      /\ IF w + Len(out) = size THEN Chunked(got \o (ch \o out), size, 0, last)
         ELSE w + Len(out) < size /\ Chunked(got \o (ch \o out), size, w + Len(out), FALSE)
  BY <1>1, <1>3, <1>4, ChunkOnTheWay
<1> HIDE DEF out
<1>8. CASE w + Len(out) = size
  BY <1>4, <1>6, <1>7, <1>8 DEF got, size, ChunkWent
<1>9. CASE w + Len(out) # size
  <2> DEFINE n == w + Len(out)
  <2>1. n \in Nat
    BY <1>1, <1>7
  <2>2. srv' = Upto(begun, n)
    BY <1>4, <1>6, <1>9 DEF Upto
  <2>3. n < size /\ Chunked(got \o (ch \o out), size, n, FALSE)
    BY <1>7, <1>9
  <2> HIDE DEF n
  <2>4. QED
    BY <1>4, <1>7, <2>1, <2>2, <2>3 DEF got, size, ChunkWent
<1>10. QED
  BY <1>8, <1>9

\* A state of a handler that sends chunks, or of the one that waits for the OK to them.
SendsOn(s, p) ==
    /\ s \in SrvState /\ s.phase = p /\ s.got = srv.got
    /\ s.size = srv.size /\ s.points = srv.points
    /\ p = "GetChunkSendChunk" => s.clock # "none"
    /\ p \notin {"GetChunkSendChunk", "GetChunksSendChunksLast"} => s.done = 0
    /\ p \in {"GetChunkSendChunk", "GetChunksSendChunksLast", "GetTimeSendChunk",
              "GetTimeSendLastChunk", "GetChunksReceiveOK", "GetTimeReceiveOk"}

LEMMA DownloadGoes ==
    ASSUME SessionInv, UNCHANGED cli, NEW c, NEW sending, NEW final, NEW ok,
           Downloading(c, sending, final, ok),
           NEW p \in SendsChunks, srv.phase = p, p # ok,
           NEW r \in {sending, final, ok}, NEW last \in BOOLEAN, last <=> r = ok,
           NEW begun, SendsOn(begun, p), NEW fin, SendsOn(fin, r), fin.wpos = 0,
           SrvWrites(p, Chunk(srv.size, last), begun, fin)
    PROVE  /\ Typed' /\ Positions' /\ Counters' /\ Clocks'
           /\ Downloading(c, sending, final, ok)'
<1>1. Typed /\ begun \in SrvState /\ fin \in SrvState
  BY DEF SessionInv, SendsOn
<1>2. ChunkWent(begun, fin, last) /\ UNCHANGED <<toServer, gone, splitOk>>
  BY <1>1, ChunkSaid
<1>3. cli.size \in Nat /\ cli.size <= MaxChunk
  <2>1. cli.size \in Stored
    BY <1>1, Parts
  <2>2. QED
    BY <2>1, StoredFacts
<1>4. toClient' \in Seq(Unit) /\ Len(toClient') <= Cap
  BY <1>2 DEF ChunkWent
<1>5. CASE srv' = fin /\ Chunked(cli.got \o toClient', cli.size, 0, last)
  <2>1. /\ srv' \in SrvState /\ srv'.phase = r /\ srv'.wpos = 0 /\ srv'.got = srv.got
        /\ srv'.size = srv.size /\ srv'.points = srv.points
    BY <1>5 DEF SendsOn
  <2>2. Typed' /\ Positions' /\ Counters' /\ Clocks'
    BY <1>2, <1>4, <1>5, <2>1, DownloadKeeps, Bounds DEF SendsOn
  <2>3. (srv'.phase = ok) = last
    BY <2>1
  <2>4. Downloading(c, sending, final, ok)'
    BY <1>2, <1>5, <2>1, <2>3 DEF Downloading
  <2>5. QED
    BY <2>2, <2>4
<1>6. ASSUME NEW n \in Nat, n < cli.size, srv' = Upto(begun, n),
             Chunked(cli.got \o toClient', cli.size, n, FALSE)
      PROVE  /\ Typed' /\ Positions' /\ Counters' /\ Clocks'
             /\ Downloading(c, sending, final, ok)'
  <2>1. /\ srv' \in SrvState /\ srv'.phase = p /\ srv'.wpos = n /\ srv'.got = srv.got
        /\ srv'.size = srv.size /\ srv'.points = srv.points
        /\ srv'.done = begun.done /\ srv'.clock = begun.clock
    BY <1>1, <1>6, UptoFacts DEF SendsOn
  <2>2. n <= MaxChunk
    BY <1>3, <1>6, Bounds
  <2>3. Typed' /\ Positions' /\ Counters' /\ Clocks'
    BY <1>2, <1>4, <2>1, <2>2, DownloadKeeps DEF SendsOn
  <2>4. (srv'.phase = ok) = FALSE
    BY <2>1
  <2>5. srv'.phase \in {sending, final, ok}
    BY <2>1 DEF Downloading
  <2>6. Downloading(c, sending, final, ok)'
    BY <1>2, <1>6, <2>1, <2>4, <2>5 DEF Downloading
  <2>7. QED
    BY <2>3, <2>6
<1>7. QED
  BY <1>2, <1>5, <1>6 DEF ChunkWent

LEMMA GetChunksSendLast ==
    ASSUME SessionInv, handle_get_chunks_send_chunks_last, UNCHANGED cli
    PROVE  SessionInv'
<1> DEFINE c   == "GetChunksReceiveChunk"
           a   == "GetChunkSendChunk"
           p   == "GetChunksSendChunksLast"
           q   == "GetChunksReceiveOK"
           fin == [srv EXCEPT !.phase = q, !.wpos = 0, !.done = 0]
<1>1. Typed /\ Scene /\ SrvWrites(p, Chunk(srv.size, TRUE), srv, fin) /\ srv \in SrvState
  BY Parts DEF SessionInv, handle_get_chunks_send_chunks_last
<1>2. srv.phase = p
  BY <1>1 DEF SrvWrites, SrvWritesFrom, At
<1>3. Downloading(c, a, p, q)
  BY <1>1, <1>2, SrvScene
<1>4. SendsOn(fin, q) /\ fin.wpos = 0
  <2>1. fin \in SrvState
    BY <1>1, Phases DEF SrvState
  <2>2. /\ fin.phase = q /\ fin.wpos = 0 /\ fin.done = 0
        /\ fin.got = srv.got /\ fin.size = srv.size /\ fin.points = srv.points
    BY <1>1 DEF SrvState
  <2>3. QED
    BY <2>1, <2>2 DEF SendsOn
<1>5. SendsOn(srv, p)
  BY <1>1, <1>2 DEF SendsOn
<1>6. p \in SendsChunks /\ p # q /\ q \in {a, p, q}
  BY DEF SendsChunks
<1> HIDE DEF fin
<1>7. PICK last \in BOOLEAN : last = TRUE
  OBVIOUS
<1>8. SrvWrites(p, Chunk(srv.size, last), srv, fin) /\ (last <=> q = q)
  BY <1>1, <1>7
<1>9. /\ Typed' /\ Positions' /\ Counters' /\ Clocks'
      /\ Downloading(c, a, p, q)'
  BY <1>2, <1>3, <1>4, <1>5, <1>6, <1>8, DownloadGoes
<1>10. QED
  BY <1>9 DEF SessionInv, Scene

LEMMA GetChunksSend ==
    ASSUME SessionInv, handle_get_chunks_send_chunks, UNCHANGED cli
    PROVE  SessionInv'
<1> DEFINE c     == "GetChunksReceiveChunk"
           p     == "GetChunkSendChunk"
           b     == "GetChunksSendChunksLast"
           q     == "GetChunksReceiveOK"
           begun == [srv EXCEPT !.clock = Started("GETCHUNKS")]
           next  == IF srv.done + 1 = srv.num - 1 THEN b ELSE p
           fin   == [begun EXCEPT !.wpos = 0, !.done = srv.done + 1, !.phase = next]
           out   == Taken(toClient, Chunk(srv.size, FALSE), srv.wpos)
<1>1. Typed /\ Positions /\ Scene /\ srv \in SrvState /\ srv.phase = p /\ srv.status = "open"
  BY Parts DEF SessionInv, handle_get_chunks_send_chunks, At
<1>2. Downloading(c, p, b, q)
  BY <1>1, SrvScene
<1>3. (IF srv.clock = "none" THEN 0 ELSE srv.wpos) = srv.wpos
  BY <1>1 DEF Positions
<1>4. SendsOn(begun, p) /\ begun.clock # "none" /\ begun.done = srv.done
      /\ begun.wpos = srv.wpos
  <2>1. begun \in SrvState
    BY <1>1 DEF SrvState, Started
  <2>2. /\ begun.phase = p /\ begun.got = srv.got /\ begun.size = srv.size
        /\ begun.points = srv.points /\ begun.done = srv.done /\ begun.wpos = srv.wpos
    BY <1>1 DEF SrvState
  <2>3. begun.clock # "none"
    BY <1>1 DEF SrvState, Started
  <2>4. QED
    BY <2>1, <2>2, <2>3 DEF SendsOn
<1>5. CASE srv.done = srv.num - 1
  <2> DEFINE s == [begun EXCEPT !.phase = b, !.wpos = srv.wpos]
  <2>1. srv' = s /\ UNCHANGED <<toServer, toClient, gone, splitOk>>
    BY <1>3, <1>5 DEF handle_get_chunks_send_chunks
  <2>2. begun \in SrvState
    BY <1>4 DEF SendsOn
  <2> HIDE DEF begun
  <2>3. /\ s \in SrvState /\ s.phase = b /\ s.wpos = srv.wpos
    <3>1. s \in SrvState
      <4>1. b \in ServerPhases /\ srv.wpos \in Nat
        BY <1>1, Phases DEF SrvState
      <4>2. QED
        BY <2>2, <4>1 DEF SrvState
    <3>2. s.phase = b /\ s.wpos = srv.wpos
      BY <2>2 DEF SrvState
    <3>3. QED
      BY <3>1, <3>2
  <2>4. s.got = begun.got /\ s.size = begun.size /\ s.points = begun.points
    BY <2>2 DEF SrvState
  <2> HIDE DEF s
  <2>5. /\ srv' \in SrvState /\ srv'.phase = b /\ srv'.wpos = srv.wpos /\ srv'.got = srv.got
        /\ srv'.size = srv.size /\ srv'.points = srv.points
    BY <1>4, <2>1, <2>3, <2>4 DEF SendsOn
  <2>6. toClient' \in Seq(Unit) /\ Len(toClient') <= Cap /\ srv'.wpos <= MaxChunk
    BY <1>1, <2>1, <2>5, Parts DEF Positions
  <2>7. Typed' /\ Positions' /\ Counters' /\ Clocks'
    BY <2>1, <2>5, <2>6, DownloadKeeps DEF SendsChunks
  <2>8. (srv'.phase = q) = FALSE /\ (srv.phase = q) = FALSE
    BY <1>1, <2>5
  <2>9. Downloading(c, p, b, q)'
    BY <1>2, <2>1, <2>5, <2>8 DEF Downloading
  <2>10. QED
    BY <2>7, <2>9 DEF SessionInv, Scene
<1>6. CASE srv.done # srv.num - 1
  <2>1. SendsOn(fin, next) /\ fin.wpos = 0
    <3>1. begun \in SrvState /\ srv.done + 1 \in Nat
      BY <1>1, <1>4 DEF SendsOn, SrvState
    <3>2. next \in ServerPhases /\ next \in {p, b}
      BY Phases
    <3> HIDE DEF begun, next
    <3>3. fin \in SrvState
      BY <3>1, <3>2 DEF SrvState
    <3>4. fin.phase = next /\ fin.wpos = 0
      BY <3>1 DEF SrvState
    <3>5. /\ fin.got = begun.got /\ fin.size = begun.size /\ fin.points = begun.points
          /\ fin.clock = begun.clock
      BY <3>1 DEF SrvState
    <3> HIDE DEF fin
    <3>6. QED
      BY <1>4, <3>2, <3>3, <3>4, <3>5 DEF SendsOn
  <2>2. /\ out # <<>> /\ toClient' = toClient \o out
        /\ srv' = IF srv.wpos + Len(out) < srv.size
                  THEN [begun EXCEPT !.wpos = srv.wpos + Len(out)]
                  ELSE [begun EXCEPT !.wpos = 0, !.done = srv.done + 1,
                                     !.phase = IF srv.done + 1 = srv.num - 1 THEN b ELSE @]
        /\ UNCHANGED <<toServer, gone, splitOk>>
    BY <1>3, <1>6 DEF handle_get_chunks_send_chunks
  <2>3. begun.phase = p
    BY <1>4 DEF SendsOn
  <2>4. [begun EXCEPT !.wpos = 0, !.done = srv.done + 1,
                      !.phase = IF srv.done + 1 = srv.num - 1 THEN b ELSE @] = fin
    BY <1>4, <2>3 DEF SendsOn, SrvState
  <2>5. srv.size = cli.size /\ cli.size \in Nat /\ srv.wpos \in 0..(cli.size - 1)
        /\ toClient \in Seq(Unit) /\ Len(toClient) <= Cap
    <3>1. cli.size \in Stored
      BY <1>1, Parts
    <3>2. cli.size \in Nat
      BY <3>1, StoredFacts
    <3>3. QED
      BY <1>1, <1>2, <3>2, Parts DEF Downloading, Chunked
  <2>6. Len(Chunk(srv.size, FALSE)) = srv.size /\ srv.wpos + Len(out) <= srv.size
        /\ Len(out) \in Nat /\ srv.wpos \in Nat
    <3> DEFINE chunk == Chunk(srv.size, FALSE)
               w     == srv.wpos
    <3>1. chunk \in Seq(Unit) /\ Len(chunk) = srv.size
      BY <2>5, ChunkFacts
    <3>2. ASSUME NEW n \in Nat, NEW i \in 0..(n - 1)
          PROVE  i \in 0..n /\ i \in Nat
      OBVIOUS
    <3>3. w \in 0..srv.size /\ w \in Nat
      BY <2>5, <3>2
    <3>4. w \in 0..Len(chunk) /\ w \in Nat
      BY <3>1, <3>3
    <3> HIDE DEF chunk, w
    <3>5. Len(Taken(toClient, chunk, w)) \in Nat
          /\ w + Len(Taken(toClient, chunk, w)) <= Len(chunk)
      BY <2>5, <3>1, <3>4, TakenFacts
    <3>6. QED
      BY <3>1, <3>4, <3>5 DEF chunk, w
  <2>7. srv.wpos + Len(out) < srv.size <=> srv.wpos + Len(out) # Len(Chunk(srv.size, FALSE))
    <3>1. ASSUME NEW k \in Nat, k <= srv.size
          PROVE  k < srv.size <=> k # srv.size
      BY <2>5, <3>1
    <3> DEFINE k == srv.wpos + Len(out)
    <3> HIDE DEF out
    <3>2. k \in Nat
      BY <2>6
    <3>3. k <= srv.size
      BY <2>6
    <3>4. Len(Chunk(srv.size, FALSE)) = srv.size
      BY <2>6
    <3> HIDE DEF k
    <3>5. k < srv.size <=> k # Len(Chunk(srv.size, FALSE))
      BY <3>1, <3>2, <3>3, <3>4
    <3>6. QED
      BY <3>5 DEF k
  <2> HIDE DEF begun, fin, out
  <2>8. srv' = IF srv.wpos + Len(out) = Len(Chunk(srv.size, FALSE)) THEN fin
               ELSE [begun EXCEPT !.wpos = srv.wpos + Len(out)]
    BY <2>2, <2>4, <2>7
  <2>9. SrvWrites(p, Chunk(srv.size, FALSE), begun, fin)
    BY <1>1, <2>2, <2>8 DEF SrvWrites, SrvWritesFrom, At, out
  <2>10. p \in SendsChunks /\ p # q /\ next \in {p, b, q} /\ next # q
    BY DEF SendsChunks
  <2> HIDE DEF next
  <2>11. PICK last \in BOOLEAN : last = FALSE
    OBVIOUS
  <2>12. SrvWrites(p, Chunk(srv.size, last), begun, fin) /\ (last <=> next = q)
    BY <2>9, <2>10, <2>11
  <2>13. /\ Typed' /\ Positions' /\ Counters' /\ Clocks'
         /\ Downloading(c, p, b, q)'
    BY <1>1, <1>2, <1>4, <2>1, <2>10, <2>12, DownloadGoes
  <2>14. QED
    BY <2>13 DEF SessionInv, Scene
<1>7. QED
  BY <1>5, <1>6

LEMMA GetChunksNeverPanics ==
    ASSUME SessionInv, get_chunks_panics
    PROVE  FALSE
<1>1. Typed /\ Scene /\ srv.phase = "GetChunkSendChunk" /\ srv.size \notin Stored
  BY DEF SessionInv, get_chunks_panics
<1>2. srv.size = cli.size /\ cli.size \in Stored
  BY <1>1, SrvScene, Parts DEF Downloading
<1>3. QED
  BY <1>1, <1>2

LEMMA GetTimeChunk ==
    ASSUME SessionInv, srv.phase \in {"GetTimeSendChunk", "GetTimeSendLastChunk"}
    PROVE  /\ Downloading("GetTimeReceiveChunk", "GetTimeSendChunk", "GetTimeSendLastChunk",
                          "GetTimeReceiveOk")
           /\ GetTimeSize = srv.size /\ Made = srv.made /\ srv.done = 0 /\ srv.got = <<>>
<1>1. Typed /\ Scene /\ Counters
  BY DEF SessionInv
<1>2. Downloading("GetTimeReceiveChunk", "GetTimeSendChunk", "GetTimeSendLastChunk",
                  "GetTimeReceiveOk")
  BY <1>1, SrvScene
<1>3. srv.size \in Stored /\ srv.got = <<>> /\ srv.done = 0
  BY <1>1, <1>2, Parts DEF Downloading, Counters
<1>4. QED
  BY <1>2, <1>3 DEF GetTimeSize, Made

LEMMA GetTimeSendLast ==
    ASSUME SessionInv, handle_perf_send_last_chunk, UNCHANGED cli
    PROVE  SessionInv'
<1> DEFINE c == "GetTimeReceiveChunk"
           a == "GetTimeSendChunk"
           p == "GetTimeSendLastChunk"
           q == "GetTimeReceiveOk"
<1>1. srv \in SrvState /\ SrvWrites(p, Chunk(GetTimeSize, TRUE), srv, Anew(q))
  BY Parts DEF SessionInv, handle_perf_send_last_chunk
<1>2. srv.phase = p
  BY <1>1 DEF SrvWrites, SrvWritesFrom, At
<1>3. /\ Downloading(c, a, p, q) /\ GetTimeSize = srv.size /\ srv.done = 0 /\ srv.got = <<>>
  BY <1>2, GetTimeChunk
<1>4. SendsOn(Anew(q), q) /\ Anew(q).wpos = 0
  BY <1>1, <1>3, AnewFacts, Phases DEF SendsOn
<1>5. SendsOn(srv, p)
  BY <1>1, <1>2, <1>3 DEF SendsOn
<1>6. p \in SendsChunks /\ p # q /\ q \in {a, p, q}
  BY DEF SendsChunks
<1>7. PICK last \in BOOLEAN : last = TRUE
  OBVIOUS
<1>8. SrvWrites(p, Chunk(srv.size, last), srv, Anew(q)) /\ (last <=> q = q)
  BY <1>1, <1>3, <1>7
<1>9. /\ Typed' /\ Positions' /\ Counters' /\ Clocks'
      /\ Downloading(c, a, p, q)'
  BY <1>2, <1>3, <1>4, <1>5, <1>6, <1>8, DownloadGoes
<1>10. QED
  BY <1>9 DEF SessionInv, Scene

LEMMA GetTimeSend ==
    ASSUME SessionInv, handle_get_time_send_chunk, UNCHANGED cli
    PROVE  SessionInv'
<1> DEFINE c     == "GetTimeReceiveChunk"
           p     == "GetTimeSendChunk"
           b     == "GetTimeSendLastChunk"
           q     == "GetTimeReceiveOk"
           begun == [srv EXCEPT !.clock = Started("GETTIME"), !.made = Made]
           fin   == IF srv.over THEN [begun EXCEPT !.phase = b, !.wpos = 0, !.got = <<>>]
                    ELSE [begun EXCEPT !.wpos = 0]
           next  == IF srv.over THEN b ELSE p
<1>1. srv \in SrvState /\ SrvWrites(p, Chunk(GetTimeSize, FALSE), begun, fin)
  BY Parts DEF SessionInv, handle_get_time_send_chunk
<1>2. srv.phase = p
  BY <1>1 DEF SrvWrites, SrvWritesFrom, At
<1>3. /\ Downloading(c, p, b, q) /\ GetTimeSize = srv.size /\ Made = srv.made
      /\ srv.done = 0 /\ srv.got = <<>>
  BY <1>2, GetTimeChunk
<1>4. SendsOn(begun, p) /\ begun \in SrvState
  <2>1. begun \in SrvState
    BY <1>1, <1>3 DEF SrvState, Started
  <2>2. /\ begun.phase = p /\ begun.got = srv.got /\ begun.size = srv.size
        /\ begun.points = srv.points /\ begun.done = 0
    BY <1>1, <1>2, <1>3 DEF SrvState
  <2>3. QED
    BY <2>1, <2>2 DEF SendsOn
<1>5. SendsOn(fin, next) /\ fin.wpos = 0
  <2> HIDE DEF begun
  <2>1. CASE srv.over
    <3> DEFINE s == [begun EXCEPT !.phase = b, !.wpos = 0, !.got = <<>>]
    <3>1. <<>> \in Seq(Unit)
      OBVIOUS
    <3>2. s \in SrvState
      BY <1>4, <3>1, Phases DEF SrvState
    <3>3. /\ s.phase = b /\ s.wpos = 0 /\ s.got = <<>> /\ s.size = begun.size
          /\ s.points = begun.points /\ s.done = begun.done
      BY <1>4 DEF SrvState
    <3>4. fin = s /\ next = b
      BY <2>1
    <3> HIDE DEF s, fin, next
    <3>5. QED
      BY <1>3, <1>4, <3>2, <3>3, <3>4 DEF SendsOn
  <2>2. CASE ~srv.over
    <3> DEFINE s == [begun EXCEPT !.wpos = 0]
    <3>1. s \in SrvState
      BY <1>4 DEF SrvState
    <3>2. /\ s.phase = begun.phase /\ s.wpos = 0 /\ s.got = begun.got /\ s.size = begun.size
          /\ s.points = begun.points /\ s.done = begun.done
      BY <1>4 DEF SrvState
    <3>3. fin = s /\ next = p
      BY <2>2
    <3> HIDE DEF s, fin, next
    <3>4. QED
      BY <1>3, <1>4, <3>1, <3>2, <3>3 DEF SendsOn
  <2>3. QED
    BY <2>1, <2>2
<1>6. p \in SendsChunks /\ p # q /\ next \in {p, b, q} /\ next # q
  BY DEF SendsChunks
<1> HIDE DEF begun, fin, next
<1>7. PICK last \in BOOLEAN : last = FALSE
  OBVIOUS
<1>8. SrvWrites(p, Chunk(srv.size, last), begun, fin) /\ (last <=> next = q)
  BY <1>1, <1>3, <1>6, <1>7
<1>9. /\ Typed' /\ Positions' /\ Counters' /\ Clocks'
      /\ Downloading(c, p, b, q)'
  BY <1>2, <1>3, <1>4, <1>5, <1>6, <1>8, DownloadGoes
<1>10. QED
  BY <1>9 DEF SessionInv, Scene

\* What Scene says of the two sides is about these.
LEMMA SceneStays ==
    ASSUME Scene, UNCHANGED <<toServer, toClient>>, splitOk' = splitOk,
           srv'.phase = srv.phase, srv'.got = srv.got, srv'.wpos = srv.wpos,
           srv'.size = srv.size, srv'.time = srv.time, srv'.points = srv.points,
           cli'.phase = cli.phase, cli'.got = cli.got, cli'.wpos = cli.wpos,
           cli'.size = cli.size, cli'.total = cli.total, cli'.sent = cli.sent
    PROVE  Scene'
<1>1. ASSUME NEW phases, NEW p, Quiet(phases, p)
      PROVE  Quiet(phases, p)'
  BY <1>1 DEF Quiet
<1>2. ASSUME NEW c, NEW p, AskedOk(c, p)
      PROVE  AskedOk(c, p)'
  BY <1>2 DEF AskedOk
<1>3. ASSUME NEW c, NEW a, NEW b, NEW q, Downloading(c, a, b, q)
      PROVE  Downloading(c, a, b, q)'
  BY <1>3 DEF Downloading
<1>4. UploadBegins => UploadBegins'
  BY DEF UploadBegins
<1>5. Uploading => Uploading'
  BY DEF Uploading
<1>6. Reporting => Reporting'
  BY DEF Reporting
<1>7. ASSUME NEW c, NEW p, NEW line, Asked(c, p, line)
      PROVE  Asked(c, p, line)'
  BY <1>7 DEF Asked
<1>8. /\ Asked("GetChunksReceiveChunk", "AcceptCommandReceive",
               Line("GETCHUNKS", <<cli.total, cli.size>>)) =>
            Asked("GetChunksReceiveChunk", "AcceptCommandReceive",
                  Line("GETCHUNKS", <<cli.total, cli.size>>))'
      /\ Asked("GetTimeReceiveChunk", "AcceptCommandReceive", Line("GETTIME", <<cli.size>>)) =>
            Asked("GetTimeReceiveChunk", "AcceptCommandReceive", Line("GETTIME", <<cli.size>>))'
      /\ Asked("PerfReceiveOk", "AcceptCommandReceive", Line("PUTTIMERESULT", <<cli.size>>)) =>
            Asked("PerfReceiveOk", "AcceptCommandReceive", Line("PUTTIMERESULT", <<cli.size>>))'
  BY DEF Asked
<1>9. ASSUME NEW c, NEW text, NEW said, Answering(c, text, said)
      PROVE  Answering(c, text, said)'
  BY <1>9 DEF Answering
<1>10. TimeText' = TimeText
  BY DEF TimeText
<1>11. ASSUME NEW c, NEW q, Answering(c, TimeText, TimeSaid(q))
       PROVE  Answering(c, TimeText, TimeSaid(q))'
  BY <1>10, <1>11 DEF Answering, TimeSaid
<1>12. /\ Answering("GreetingReceiveGreeting", GreetingText, GreetingSaid) =>
             Answering("GreetingReceiveGreeting", GreetingText, GreetingSaid)'
       /\ Answering("GreetingReceiveResponse", ResponseText, ResponseSaid) =>
             Answering("GreetingReceiveResponse", ResponseText, ResponseSaid)'
       /\ Answering("PingReceivePong", Line("PONG", <<>>), PongSaid) =>
             Answering("PingReceivePong", Line("PONG", <<>>), PongSaid)'
       /\ Asked("GreetingReceiveGreeting", "GreetingReceiveConnectionType",
                Line("GET /rmbt", <<>>)) =>
             Asked("GreetingReceiveGreeting", "GreetingReceiveConnectionType",
                   Line("GET /rmbt", <<>>))'
       /\ Asked("GreetingReceiveResponse", "GreetingReceiveToken", Line("TOKEN", <<>>)) =>
             Asked("GreetingReceiveResponse", "GreetingReceiveToken", Line("TOKEN", <<>>))'
       /\ Asked("PingReceivePong", "AcceptCommandReceive", Line("PING", <<>>)) =>
             Asked("PingReceivePong", "AcceptCommandReceive", Line("PING", <<>>))'
  BY <1>7, <1>9
<1>13. QED
  BY <1>1, <1>2, <1>3, <1>4, <1>5, <1>6, <1>8, <1>11, <1>12 DEF Scene

\* What the invariant says of the server is about these.
LEMMA SrvLike ==
    ASSUME SessionInv, UNCHANGED <<wire, cli>>, srv' \in SrvState,
           srv'.phase = srv.phase, srv'.got = srv.got, srv'.wpos = srv.wpos,
           srv'.size = srv.size, srv'.done = srv.done, srv'.clock = srv.clock,
           srv'.time = srv.time, srv'.points = srv.points
    PROVE  SessionInv'
<1>1. Typed /\ Positions /\ Counters /\ Clocks /\ Scene
  BY DEF SessionInv
<1>2. UNCHANGED <<toServer, toClient, gone, splitOk, cli>>
  BY DEF wire
<1>3. Typed'
  BY <1>1, <1>2 DEF Typed
<1>4. Positions' /\ Counters' /\ Clocks'
  BY <1>1, <1>2 DEF Positions, Counters, Clocks
<1>5. Scene'
  BY <1>1, <1>2, SceneStays
<1>6. QED
  BY <1>3, <1>4, <1>5 DEF SessionInv

LEMMA GetTimeWouldBlock ==
    ASSUME SessionInv, get_time_would_block, UNCHANGED cli
    PROVE  SessionInv'
<1> DEFINE s == [srv EXCEPT !.over = TRUE]
<1>1. srv' = s /\ UNCHANGED <<wire, cli>> /\ srv \in SrvState
  BY Parts DEF SessionInv, get_time_would_block
<1>2. s \in SrvState
  BY <1>1 DEF SrvState
<1>3. /\ s.phase = srv.phase /\ s.got = srv.got /\ s.wpos = srv.wpos /\ s.size = srv.size
      /\ s.done = srv.done /\ s.clock = srv.clock /\ s.time = srv.time /\ s.points = srv.points
  BY <1>1 DEF SrvState
<1> HIDE DEF s
<1>4. QED
  BY <1>1, <1>2, <1>3, SrvLike

LEMMA ServerEndsKeeps ==
    ASSUME SessionInv, SrvEnds, UNCHANGED cli
    PROVE  SessionInv'
<1>1. srv \in SrvState
  BY Parts DEF SessionInv
<1>2. ASSUME NEW status \in {"removed", "spin"}, srv' = [srv EXCEPT !.status = status],
             UNCHANGED wire
      PROVE  SessionInv'
  <2> DEFINE s == [srv EXCEPT !.status = status]
  <2>1. s \in SrvState
    BY <1>1 DEF SrvState
  <2>2. /\ s.phase = srv.phase /\ s.got = srv.got /\ s.wpos = srv.wpos /\ s.size = srv.size
        /\ s.done = srv.done /\ s.clock = srv.clock /\ s.time = srv.time /\ s.points = srv.points
    BY <1>1 DEF SrvState
  <2> HIDE DEF s
  <2>3. srv' = s
    BY <1>2 DEF s
  <2>4. QED
    BY <1>2, <2>1, <2>2, <2>3, SrvLike
<1>3. CASE SrvEof
  <2>1. PICK status \in {"removed", "spin"} :
           srv' = [srv EXCEPT !.status = status] /\ UNCHANGED wire
    BY <1>3 DEF SrvEof
  <2>2. QED
    BY <1>2, <2>1
<1>4. CASE SrvGivesUp
  <2>1. PICK status \in {"removed", "spin"} :
           srv' = [srv EXCEPT !.status = status] /\ UNCHANGED wire
    BY <1>4 DEF SrvGivesUp
  <2>2. QED
    BY <1>2, <2>1
<1>5. CASE SrvCloses
  <2>1. UNCHANGED <<toServer, toClient, splitOk, srv, cli>> /\ gone' = gone \cup {"server"}
    BY <1>5 DEF SrvCloses
  <2>2. Typed'
    BY <2>1 DEF Typed, SessionInv
  <2>3. Scene'
    BY <2>1, SceneStays DEF SessionInv
  <2>4. Positions' /\ Counters' /\ Clocks'
    BY <2>1 DEF SessionInv, Positions, Counters, Clocks
  <2>5. QED
    BY <2>2, <2>3, <2>4 DEF SessionInv
<1>6. QED
  BY <1>3, <1>4, <1>5 DEF SrvEnds
-----------------------------------------------------------------------------
(* The server takes the upload and reports on it.                          *)

LEMMA UploadSendOk ==
    ASSUME SessionInv, handle_put_time_result_send_ok, UNCHANGED cli
    PROVE  SessionInv'
<1> DEFINE p     == "PutTimeResultSendOk"
           q     == "PutTimeResultReceiveChunk"
           pos   == IF srv.clock = "none" THEN 0 ELSE srv.wpos
           begun == [srv EXCEPT !.clock = Started("PUTTIMERESULT")]
           fin   == [Anew(q) EXCEPT !.clock = "PUTTIMERESULT"]
<1>1. SrvWritesFrom(p, pos, OK, begun, fin)
  BY DEF handle_put_time_result_send_ok
<1>2. srv.phase = p
  BY <1>1 DEF SrvWritesFrom, At
<1>3. Typed /\ Positions /\ Counters /\ Scene /\ srv \in SrvState
  BY Parts DEF SessionInv
<1>4. UploadBegins
  BY <1>2, <1>3, SrvScene
<1>5. pos = 0 /\ toClient = <<>>
  BY <1>2, <1>3, <1>4 DEF Positions, StartsAtFirst, UploadBegins
<1>6. OK \in Seq(Unit) /\ Len(OK) = 2 /\ Taken(<<>>, OK, 0) = OK
  <2>1. OK \in Seq(Unit) /\ Len(OK) = 2
    BY LineFacts, NoArg DEF OK, Words
  <2>2. QED
    BY <2>1, LineIsTaken
<1>7. Anew(q) \in SrvState
  BY <1>3, AnewFacts, Phases
<1>8. /\ Anew(q).phase = q /\ Anew(q).wpos = 0 /\ Anew(q).got = <<>>
      /\ Anew(q).size = srv.size /\ Anew(q).done = srv.done /\ Anew(q).points = srv.points
  BY <1>3, AnewFacts, Phases
<1>9. /\ fin \in SrvState /\ fin.phase = q /\ fin.wpos = 0 /\ fin.got = <<>>
      /\ fin.size = srv.size /\ fin.done = srv.done /\ fin.points = srv.points
  <2> DEFINE s == Anew(q)
  <2> HIDE DEF s
  <2>1. s \in SrvState
    BY <1>7 DEF s
  <2>2. [s EXCEPT !.clock = "PUTTIMERESULT"] \in SrvState
    BY <2>1 DEF SrvState
  <2>3. LET f == [s EXCEPT !.clock = "PUTTIMERESULT"]
        IN  /\ f.phase = s.phase /\ f.wpos = s.wpos /\ f.got = s.got
            /\ f.size = s.size /\ f.done = s.done /\ f.points = s.points
    BY <2>1 DEF SrvState
  <2>4. QED
    BY <1>8, <2>2, <2>3 DEF s
<1> HIDE DEF begun, fin, pos
<1>10. /\ toClient' = OK /\ srv' = fin
       /\ UNCHANGED <<toServer, gone, splitOk>>
  <2>1. <<>> \o OK = OK /\ 0 + 2 = 2
    BY <1>6
  <2>2. QED
    BY <1>1, <1>5, <1>6, <2>1 DEF SrvWritesFrom
<1>11. Typed'
  BY <1>3, <1>6, <1>9, <1>10, Bounds DEF Typed
<1>12. Positions' /\ Counters' /\ Clocks'
  BY <1>2, <1>3, <1>9, <1>10, Bounds DEF Positions, Counters, Clocks, SaysHello
<1>13. UploadBegins'
  BY <1>4, <1>9, <1>10 DEF UploadBegins
<1>14. QED
  BY <1>11, <1>12, <1>13 DEF SessionInv, Scene

\* Of d whole chunks and w units, without the first chunk.
LEMMA OneChunkLess ==
    ASSUME NEW size \in Nat, NEW d \in Nat, NEW w \in 0..(size - 1),
           size <= d * size + w
    PROVE  /\ d >= 1 /\ d * size + w - size = (d - 1) * size + w
           /\ w = 0 /\ d * size + w = size => d = 1
<1>1. w < size /\ size > 0
  OBVIOUS
<1>2. d # 0
  BY <1>1
<1>3. d >= 1
  BY <1>2
<1>4. d * size + w - size = (d - 1) * size + w
  OBVIOUS
<1>5. ASSUME w = 0, d * size + w = size
      PROVE  d = 1
  <2>1. SUFFICES ASSUME d # 1
                 PROVE  FALSE
    OBVIOUS
  <2>2. PICK e \in Nat : d = e + 2
    <3>1. d - 2 \in Nat /\ d = (d - 2) + 2
      BY <1>3, <2>1
    <3>2. QED
      BY <3>1
  <2>3. d * size = e * size + 2 * size /\ e * size >= 0
    BY <2>2
  <2>4. QED
    BY <1>1, <1>5, <2>3
<1>6. QED
  BY <1>3, <1>4, <1>5

\* The server has taken the first chunk off X, which leaves R, and counts it.
Counted(X, R, size, w, ended, sent, points) ==
    /\ X[size].of \in {"00", "FF"}
    /\ X[size].of = "FF" => ended /\ Len(R) = 0 /\ points + 1 = sent
    /\ X[size].of = "00" => UnderWay(R, size, w, ended, sent, points + 1)

LEMMA OneIsCounted ==
    ASSUME NEW size \in Nat, NEW w \in Nat, NEW ended \in BOOLEAN,
           NEW sent \in Nat, NEW points \in Nat,
           NEW X \in Seq(Unit), UnderWay(X, size, w, ended, sent, points), size <= Len(X),
           NEW R \in Seq(Unit), Len(R) = Len(X) - size,
           \A i \in 1..Len(R) : R[i] = X[size + i]
    PROVE  Counted(X, R, size, w, ended, sent, points)
<1>1. Chunked(X, size, w, ended) /\ w \in 0..(size - 1)
  BY DEF UnderWay, Chunked
<1>2. /\ X[size].of \in {"00", "FF"}
      /\ X[size].of = "FF" => ended /\ Len(X) = size /\ w = 0
      /\ X[size].of = "00" => Chunked(R, size, w, ended)
  BY <1>1, HearingChunk
<1>3. PICK d \in Nat : d = sent - points
  BY DEF UnderWay
<1>4. /\ d >= 1 /\ d * size + w - size = (d - 1) * size + w
      /\ w = 0 /\ d * size + w = size => d = 1
  <2>1. Len(X) = d * size + w
    BY <1>3 DEF UnderWay
  <2>2. size <= d * size + w
    BY <2>1
  <2>3. QED
    BY <1>1, <2>2, OneChunkLess
<1>5. Len(X) = d * size + w /\ points + 1 <= sent /\ sent - (points + 1) = d - 1
  BY <1>3, <1>4 DEF UnderWay
<1>6. Len(R) = (sent - (points + 1)) * size + w
  BY <1>4, <1>5
<1>7. X[size].of = "FF" => ended /\ Len(R) = 0 /\ points + 1 = sent
  BY <1>2, <1>3, <1>4, <1>5
<1>8. QED
  BY <1>2, <1>5, <1>6, <1>7 DEF UnderWay, Counted

LEMMA PiecesOfSome ==
    ASSUME NEW ch \in Seq(Unit), NEW space \in Int, NEW data \in Pieces(ch, space)
    PROVE  ch # <<>>
<1>1. SUFFICES ASSUME ch = <<>>
               PROVE  FALSE
  OBVIOUS
<1>2. PICK n \in 1..Least(Len(ch), space) : TRUE
  BY DEF Pieces
<1>3. Len(ch) = 0
  BY <1>1
<1>4. QED
  BY <1>2, <1>3 DEF Least

\* What one read() has added to what was read.
ReadOn(got, ch, data) ==
    /\ got \o data \in Seq(Unit) /\ Len(got \o data) = Len(got) + Len(data)
    /\ (got \o data) \o Rest(ch, data) = got \o ch
    /\ LastOf(got \o data) = (got \o ch)[Len(got \o data)]
    /\ Len(got \o data) <= Len(got \o ch)

LEMMA ReadsOn ==
    ASSUME NEW got \in Seq(Unit), NEW ch \in Seq(Unit), NEW space \in Nat,
           NEW data \in Pieces(ch, space)
    PROVE  ReadOn(got, ch, data)
BY ReadKeeps DEF ReadOn

\* What one read() of a chunk, of which `got` is there, has added to it: R is what is
\* left on the way, after the whole chunk if it is one now.
PartOfChunk(got, ch, data, size) ==
    LET chunk == got \o data
        X     == got \o ch
        R     == Rest(ch, data)
    IN  /\ chunk \in Seq(Unit) /\ Len(chunk) \in Nat /\ Len(chunk) <= size
        /\ R \in Seq(Unit) /\ Len(R) <= Len(ch) /\ chunk \o R = X
        /\ Len(chunk) = size => /\ size <= Len(X) /\ Len(R) = Len(X) - size
                               /\ LastOf(chunk) = X[size]
                               /\ \A i \in 1..Len(R) : R[i] = X[size + i]

LEMMA ReadsChunk ==
    ASSUME NEW size \in Nat, NEW got \in Seq(Unit), Len(got) < size,
           NEW ch \in Seq(Unit), NEW space \in Int, space = size - Len(got),
           NEW data \in Pieces(ch, space)
    PROVE  PartOfChunk(got, ch, data, size) /\ ch # <<>> /\ space \in Nat
<1> DEFINE chunk == got \o data
           X     == got \o ch
           R     == Rest(ch, data)
<1>1. space \in Nat /\ Len(got) \in Nat
  <2>1. ASSUME NEW g \in Nat, g < size
        PROVE  size - g \in Nat
    BY <2>1
  <2>2. QED
    BY <2>1
<1>2. ReadOn(got, ch, data)
  BY <1>1, ReadsOn
<1>3. /\ chunk \in Seq(Unit) /\ Len(chunk) = Len(got) + Len(data)
      /\ chunk \o R = X /\ LastOf(chunk) = X[Len(chunk)]
      /\ Len(chunk) <= Len(X)
  BY <1>2 DEF ReadOn
<1>4. /\ Len(data) \in 1..space /\ R \in Seq(Unit) /\ Len(R) = Len(ch) - Len(data)
      /\ data \in Seq(Unit)
  BY <1>1, PieceFacts
<1>5. X \in Seq(Unit)
  BY JoinOf
<1> HIDE DEF chunk, X, R
<1>6. Len(chunk) \in Nat /\ Len(chunk) <= size
  <2>1. ASSUME NEW g \in Nat, NEW d \in 1..(size - g), g < size
        PROVE  g + d \in Nat /\ g + d <= size
    BY <2>1
  <2>2. QED
    BY <1>1, <1>3, <1>4, <2>1
<1>7. Len(R) <= Len(ch)
  <2>1. ASSUME NEW n \in Nat, NEW d \in Nat
        PROVE  n - d <= n
    OBVIOUS
  <2>2. Len(ch) \in Nat /\ Len(data) \in Nat
    BY <1>4
  <2>3. QED
    BY <1>4, <2>1, <2>2
<1>8. ASSUME Len(chunk) = size
      PROVE  /\ size <= Len(X) /\ Len(R) = Len(X) - size /\ LastOf(chunk) = X[size]
             /\ \A i \in 1..Len(R) : R[i] = X[size + i]
  <2>1. /\ Len(chunk \o R) = Len(chunk) + Len(R)
        /\ \A i \in 1..Len(R) : (chunk \o R)[Len(chunk) + i] = R[i]
    BY <1>3, <1>4, JoinOf
  <2>2. Len(X) = size + Len(R) /\ \A i \in 1..Len(R) : R[i] = X[size + i]
    BY <1>3, <1>8, <2>1
  <2>3. ASSUME NEW x \in Nat, NEW r \in Nat, x = size + r
        PROVE  r = x - size /\ size <= x
    BY <2>3
  <2>4. Len(R) \in Nat /\ Len(X) \in Nat
    BY <1>4, <1>5
  <2>5. QED
    BY <1>3, <1>8, <2>2, <2>3, <2>4
<1>9. PartOfChunk(got, ch, data, size)
  BY <1>3, <1>4, <1>6, <1>7, <1>8 DEF PartOfChunk, chunk, X, R
<1>10. ch # <<>>
  BY PiecesOfSome
<1>11. QED
  BY <1>1, <1>9, <1>10

LEMMA UploadReceive ==
    ASSUME SessionInv, handle_put_time_result_receive_chunk, UNCHANGED cli
    PROVE  SessionInv'
<1> DEFINE p     == "PutTimeResultReceiveChunk"
           q     == "PutTimeResultSendTimeResult"
           size  == srv.size
           space == size - Len(srv.got)
           last  == [Anew(q) EXCEPT !.points = srv.points + 1]
           more  == [srv EXCEPT !.got = <<>>, !.points = srv.points + 1]
           ended == cli.phase = "PerfReceiveTime"
           w     == IF ended THEN 0 ELSE cli.wpos
           X     == srv.got \o toServer
<1>1. Typed /\ Positions /\ Counters /\ Scene /\ srv \in SrvState
  BY Parts DEF SessionInv
<1>2. /\ srv.got \in Seq(Unit) /\ toServer \in Seq(Unit) /\ Len(toServer) <= Cap
      /\ cli.wpos \in Nat /\ cli.sent \in Nat /\ srv.points \in Nat
      /\ splitOk \in BOOLEAN /\ toClient \in Seq(Unit) /\ Len(toClient) <= Cap
  BY <1>1, Parts DEF Typed, SrvState, CliState
<1>3. PICK data \in Pieces(toServer, space) :
          /\ toServer' = Rest(toServer, data)
          /\ splitOk' = (splitOk \/ CutsOk(data))
          /\ srv' = IF Len(srv.got \o data) < size
                    THEN [srv EXCEPT !.got = srv.got \o data]
                    ELSE Ending(srv.got \o data, last, more)
          /\ UNCHANGED <<toClient, gone>> /\ srv.phase = p
  BY DEF handle_put_time_result_receive_chunk, ReceivesChunk, SrvReads, At, Anew
<1>4. size \in Nat /\ space \in Int
  <2>1. size \in Nat
    BY <1>1, Parts, StoredFacts
  <2>2. QED
    BY <1>2, <2>1
<1>5. toServer # <<>>
  <2> HIDE DEF space
  <2>1. QED
    BY <1>2, <1>4, PiecesOfSome
<1>6. Uploading
  BY <1>1, <1>3, <1>5, SrvScene
<1>7. size = cli.size /\ size \in Stored /\ size >= 2 /\ Len(srv.got) < size
  <2>1. size = cli.size /\ size \in Stored /\ Len(srv.got) < size
    BY <1>1, <1>6, Parts DEF Uploading
  <2>2. MinChunk <= size
    BY <2>1, StoredFacts
  <2>3. size >= 2
    BY <1>4, <2>2, Bounds
  <2>4. QED
    BY <2>1, <2>3
<1>8. UnderWay(X, size, w, ended, cli.sent, srv.points) /\ w \in Nat /\ ended \in BOOLEAN
      /\ toClient = <<>> /\ cli.got = <<>>
      /\ cli.phase \in {"PerfSendChunks", "PerfSendLastChunk", "PerfReceiveTime"}
  BY <1>2, <1>6 DEF Uploading
<1>9. X \in Seq(Unit)
  BY <1>2, JoinOf
<1>10. PartOfChunk(srv.got, toServer, data, size) /\ space \in Nat
  <2>1. PICK room \in Int : room = space
    BY <1>4
  <2>2. data \in Pieces(toServer, room)
    BY <2>1
  <2>3. QED
    BY <1>2, <1>4, <1>7, <2>1, <2>2, ReadsChunk
<1> DEFINE chunk == srv.got \o data
           R     == Rest(toServer, data)
<1>11. /\ chunk \in Seq(Unit) /\ Len(chunk) \in Nat /\ Len(chunk) <= size
       /\ R \in Seq(Unit) /\ Len(R) <= Len(toServer) /\ chunk \o R = X
       /\ Len(chunk) = size => /\ size <= Len(X) /\ Len(R) = Len(X) - size
                              /\ LastOf(chunk) = X[size]
                              /\ \A i \in 1..Len(R) : R[i] = X[size + i]
  BY <1>10 DEF PartOfChunk
<1>12. R \in Seq(Unit) /\ Len(R) <= Cap /\ splitOk' \in BOOLEAN
  BY <1>2, <1>3, <1>11, Bounds
<1>13. CASE Len(chunk) < size
  <2>1. /\ Typed' /\ Positions' /\ Counters' /\ Clocks'
        /\ srv'.got = chunk /\ srv'.phase = p /\ srv'.size = size
        /\ srv'.points = srv.points
    BY <1>3, <1>10, <1>12, <1>13, SrvKeeps
  <2>2. srv'.got \o toServer' = X
    BY <1>3, <1>11, <2>1
  <2> HIDE DEF chunk, X
  <2>3. Uploading'
    BY <1>3, <1>7, <1>8, <1>13, <2>1, <2>2 DEF Uploading
  <2>4. QED
    BY <2>1, <2>3 DEF SessionInv, Scene
<1>14. CASE Len(chunk) = size
  <2>1. /\ size <= Len(X) /\ Len(R) = Len(X) - size /\ LastOf(chunk) = X[size]
        /\ \A i \in 1..Len(R) : R[i] = X[size + i]
    BY <1>11, <1>14
  <2> HIDE DEF X, R, w, ended
  <2>2. Counted(X, R, size, w, ended, cli.sent, srv.points)
    <3>1. /\ size \in Nat /\ w \in Nat /\ ended \in BOOLEAN
          /\ cli.sent \in Nat /\ srv.points \in Nat
      BY <1>2, <1>4, <1>8
    <3>2. UnderWay(X, size, w, ended, cli.sent, srv.points) /\ X \in Seq(Unit) /\ R \in Seq(Unit)
      BY <1>8, <1>9, <1>12
    <3>3. QED
      BY <2>1, <3>1, <3>2, OneIsCounted
  <2>3. /\ srv' = Ending(chunk, last, more) /\ LastOf(chunk) = X[size]
    BY <1>3, <1>14, <2>1
  <2> HIDE DEF last, more, chunk
  <2>4. CASE X[size].of = "FF"
    <3>1. srv' = last /\ toServer' = <<>>
      BY <1>3, <1>12, <2>2, <2>3, <2>4 DEF Counted, Ending, R
    <3>2. /\ last \in SrvState /\ last.phase = q /\ last.wpos = 0 /\ last.got = <<>>
          /\ last.size = size /\ last.done = srv.done /\ last.points = srv.points + 1
      <4> DEFINE s == Anew(q)
      <4>1. /\ s \in SrvState /\ s.phase = q /\ s.wpos = 0 /\ s.got = <<>>
            /\ s.size = size /\ s.done = srv.done /\ s.points = srv.points
        BY <1>1, AnewFacts, Phases
      <4> HIDE DEF s
      <4>2. srv.points + 1 \in Nat
        BY <1>2
      <4>3. [s EXCEPT !.points = srv.points + 1] \in SrvState
        BY <4>1, <4>2 DEF SrvState
      <4>4. LET f == [s EXCEPT !.points = srv.points + 1]
            IN  /\ f.phase = s.phase /\ f.wpos = s.wpos /\ f.got = s.got
                /\ f.size = s.size /\ f.done = s.done /\ f.points = srv.points + 1
        BY <4>1 DEF SrvState
      <4>5. QED
        BY <4>1, <4>3, <4>4 DEF s, last
    <3>3. srv.done = 0 /\ cli.phase = "PerfReceiveTime"
      BY <1>1, <1>3, <2>2, <2>4 DEF Counters, Counted, ended
    <3>4. Typed'
      BY <1>1, <1>3, <1>12, <3>1, <3>2 DEF Typed, R
    <3>5. Positions' /\ Counters' /\ Clocks'
      BY <1>1, <3>1, <3>2, <3>3, Bounds DEF Positions, Counters, Clocks, SaysHello, InUpload
    <3>6. srv'.wpos < srv'.size
      BY <1>4, <1>7, <3>1, <3>2
    <3>7. Reporting'
      BY <1>7, <2>2, <2>4, <3>1, <3>2, <3>3, <3>6 DEF Counted, Reporting
    <3>8. QED
      BY <3>4, <3>5, <3>7 DEF SessionInv, Scene
  <2>5. CASE X[size].of = "00"
    <3>1. srv' = more
      <4>1. X[size].of # "FF"
        BY <2>5
      <4>2. QED
        BY <2>3, <2>5, <4>1 DEF Ending
    <3>2. /\ more \in SrvState /\ more.phase = p /\ more.wpos = srv.wpos /\ more.got = <<>>
          /\ more.size = size /\ more.done = srv.done /\ more.points = srv.points + 1
          /\ more.clock = srv.clock
      <4>1. srv.points + 1 \in Nat /\ <<>> \in Seq(Unit)
        BY <1>2
      <4>2. more \in SrvState
        BY <1>1, <4>1 DEF SrvState, more
      <4>3. /\ more.phase = p /\ more.wpos = srv.wpos /\ more.got = <<>>
            /\ more.size = size /\ more.done = srv.done /\ more.points = srv.points + 1
            /\ more.clock = srv.clock
        BY <1>1, <1>3 DEF SrvState, more
      <4>4. QED
        BY <4>2, <4>3
    <3>3. Typed'
      BY <1>1, <1>3, <1>12, <3>1, <3>2 DEF Typed, R
    <3>4. Positions' /\ Counters' /\ Clocks'
      BY <1>1, <1>3, <1>8, <3>1, <3>2, Bounds
         DEF Positions, Counters, Clocks, SaysHello, InUpload
    <3>5. <<>> \o R = R /\ Len(<<>>) = 0
      BY <1>12
    <3>6. UnderWay(srv'.got \o toServer', srv'.size, w, ended, cli.sent, srv'.points)
      BY <1>3, <2>2, <2>5, <3>1, <3>2, <3>5 DEF Counted, R
    <3>7. Len(srv'.got) < srv'.size
      BY <1>4, <1>7, <3>1, <3>2, <3>5
    <3>8. Uploading'
      BY <1>3, <1>7, <1>8, <3>1, <3>2, <3>6, <3>7 DEF Uploading, w, ended
    <3>9. QED
      BY <3>3, <3>4, <3>8 DEF SessionInv, Scene
  <2>6. QED
    BY <2>2, <2>4, <2>5 DEF Counted
<1>15. Len(chunk) < size \/ Len(chunk) = size
  <2>1. ASSUME NEW n \in Nat, n <= size
        PROVE  n < size \/ n = size
    BY <1>4, <2>1
  <2> HIDE DEF size, chunk
  <2>2. QED
    BY <1>11, <2>1
<1>16. QED
  BY <1>13, <1>14, <1>15

LEMMA UploadSendTime ==
    ASSUME SessionInv, handle_put_time_result_send_time, UNCHANGED cli
    PROVE  SessionInv'
<1> DEFINE p    == "PutTimeResultSendTimeResult"
           q    == "AcceptCommandSend"
           size == srv.size
           line == Line("TIMERESULT", <<srv.points>>)
           tail == SubSeq(Chunk(size, TRUE), Len(line) + 1, size)
           buf  == line \o tail
           fin  == [Anew(q) EXCEPT !.points = srv.points + 1]
           pos  == srv.wpos
           out  == Taken(toClient, buf, pos)
<1>1. SrvWrites(p, buf, srv, fin)
  BY DEF handle_put_time_result_send_time, Anew
<1>2. srv.phase = p
  BY <1>1 DEF SrvWrites, SrvWritesFrom, At
<1>3. Typed /\ Positions /\ Counters /\ Scene /\ srv \in SrvState
  BY Parts DEF SessionInv
<1>4. Reporting /\ srv.done = 0
  BY <1>2, <1>3, SrvScene DEF Counters
<1>5. /\ toClient \in Seq(Unit) /\ Len(toClient) <= Cap /\ pos \in Nat /\ pos < size
      /\ srv.points \in Nat /\ size \in Stored
  BY <1>2, <1>3, <1>4, Parts DEF Reporting, SrvState
<1>6. size \in Nat /\ size >= 2 /\ size <= MaxChunk
  <2>1. size \in Nat /\ MinChunk <= size /\ size <= MaxChunk
    BY <1>5, StoredFacts
  <2>2. size >= 2
    BY <2>1, Bounds
  <2>3. QED
    BY <2>1, <2>2
<1>7. buf \in Seq(Unit) /\ Len(buf) = size
  <2>1. line \in Seq(Unit) /\ Len(line) = 2
    BY <1>5, NoArg, LineFacts DEF Words
  <2>2. Chunk(size, TRUE) \in Seq(Unit) /\ Len(Chunk(size, TRUE)) = size
    BY <1>6, ChunkFacts
  <2>3. PICK n \in Nat : size = 2 + n
    <3>1. size - 2 \in Nat /\ size = 2 + (size - 2)
      BY <1>6
    <3>2. QED
      BY <3>1
  <2> DEFINE chunk == Chunk(size, TRUE)
  <2>4. Len(line) + 1 = 2 + 1
    BY <2>1
  <2> HIDE DEF line, chunk, size
  <2>5. /\ SubSeq(chunk, 2 + 1, 2 + n) \in Seq(Unit)
        /\ Len(SubSeq(chunk, 2 + 1, 2 + n)) = n
    <3>1. PICK m \in Nat : m = 2
      OBVIOUS
    <3>2. chunk \in Seq(Unit) /\ Len(chunk) = m + n
      BY <2>2, <2>3, <3>1 DEF chunk
    <3>3. m + n <= Len(chunk)
      BY <3>2
    <3>4. /\ SubSeq(chunk, m + 1, m + n) \in Seq(Unit)
          /\ Len(SubSeq(chunk, m + 1, m + n)) = n
      BY <3>2, <3>3, PartOf
    <3>5. QED
      BY <3>1, <3>4
  <2>6. tail = SubSeq(chunk, 2 + 1, 2 + n)
    BY <2>3, <2>4 DEF chunk
  <2>7. tail \in Seq(Unit) /\ Len(tail) = n
    BY <2>5, <2>6
  <2> HIDE DEF tail
  <2>8. line \o tail \in Seq(Unit) /\ Len(line \o tail) = Len(line) + Len(tail)
    BY <2>1, <2>7, JoinOf
  <2>9. QED
    BY <2>1, <2>3, <2>7, <2>8
<1> HIDE DEF buf
<1>8. pos \in 0..Len(buf)
  BY <1>5, <1>6, <1>7
<1>9. /\ out # <<>> /\ toClient' = toClient \o out
      /\ srv' = IF pos + Len(out) = Len(buf) THEN fin
                ELSE [srv EXCEPT !.wpos = pos + Len(out)]
      /\ UNCHANGED <<toServer, gone, splitOk>>
  BY <1>1 DEF SrvWrites, SrvWritesFrom
<1>10. /\ Len(out) \in Nat /\ pos + Len(out) <= Len(buf)
       /\ toClient \o out \in Seq(Unit) /\ Len(toClient \o out) <= Cap
  BY <1>5, <1>7, <1>8, TakenFacts
<1> HIDE DEF out, pos
<1>11. ASSUME srv' \in SrvState, srv'.points \in Nat, srv'.size = size, srv'.got = <<>>,
              srv'.done = 0,
              \/ srv'.phase = q /\ srv'.wpos = 0
              \/ srv'.phase = p /\ srv'.wpos < size /\ srv'.points = srv.points
       PROVE  SessionInv'
  <2>1. Typed'
    BY <1>3, <1>9, <1>10, <1>11 DEF Typed
  <2>2. srv'.wpos <= MaxChunk /\ srv'.wpos \in Nat
    <3>1. srv'.wpos \in Nat
      BY <1>11 DEF SrvState
    <3>2. QED
      BY <1>6, <1>11, <3>1, Bounds
  <2>3. Positions'
    BY <1>3, <1>11, <2>2 DEF Positions, StartsAtFirst, Reading, SpinsOnEof, SendsChunks
  <2>4. Counters' /\ Clocks'
    BY <1>3, <1>4, <1>11 DEF Counters, Clocks, SaysHello, Reporting, InUpload
  <2>5. Reporting'
    BY <1>2, <1>4, <1>5, <1>9, <1>11 DEF Reporting
  <2>6. QED
    BY <2>1, <2>3, <2>4, <2>5 DEF SessionInv, Scene
<1>12. srv.got = <<>>
  BY <1>4 DEF Reporting
<1>13. CASE pos + Len(out) = Len(buf)
  <2> DEFINE s == Anew(q)
  <2>1. /\ s \in SrvState /\ s.phase = q /\ s.wpos = 0 /\ s.got = <<>>
        /\ s.size = size /\ s.done = srv.done
    BY <1>3, AnewFacts, Phases
  <2> HIDE DEF s
  <2>2. srv.points + 1 \in Nat
    BY <1>5
  <2>3. [s EXCEPT !.points = srv.points + 1] \in SrvState
    BY <2>1, <2>2 DEF SrvState
  <2>4. LET f == [s EXCEPT !.points = srv.points + 1]
        IN  /\ f.phase = s.phase /\ f.wpos = s.wpos /\ f.got = s.got
            /\ f.size = s.size /\ f.done = s.done /\ f.points = srv.points + 1
    BY <2>1 DEF SrvState
  <2>5. srv' = [s EXCEPT !.points = srv.points + 1]
    BY <1>9, <1>13 DEF s
  <2> HIDE DEF size
  <2>6. QED
    BY <1>4, <1>11, <2>1, <2>2, <2>3, <2>4, <2>5
<1>14. CASE pos + Len(out) # Len(buf)
  <2> DEFINE n == pos + Len(out)
  <2>1. n \in Nat /\ n < size
    <3>1. ASSUME NEW k \in Nat, k <= size, k # size
          PROVE  k < size
      BY <1>6, <3>1
    <3>2. n \in Nat
      BY <1>5, <1>10
    <3> HIDE DEF n
    <3>3. QED
      BY <1>7, <1>10, <1>14, <3>1, <3>2 DEF n
  <2>2. srv' = Upto(srv, n)
    BY <1>9, <1>14 DEF Upto
  <2> HIDE DEF n
  <2>3. /\ srv' \in SrvState /\ srv'.wpos = n /\ srv'.phase = p /\ srv'.got = srv.got
        /\ srv'.size = size /\ srv'.done = srv.done /\ srv'.points = srv.points
    BY <1>2, <1>3, <2>1, <2>2, UptoFacts
  <2> HIDE DEF size
  <2>4. QED
    BY <1>4, <1>5, <1>11, <1>12, <2>1, <2>3
<1>15. QED
  BY <1>13, <1>14
-----------------------------------------------------------------------------
(* The client says a line.                                                 *)

CliPhases == ClientTalks \cup CliReading \cup BetweenPhases

\* The client goes on in phase q with `got`, and nothing else of it changes but wpos.
GoesTo(s, q, got) ==
    /\ s \in CliState(cli.up) /\ s.phase = q /\ s.got = got /\ s.wpos = 0
    /\ s.size = cli.size /\ s.total = cli.total /\ s.pings = cli.pings /\ s.sent = cli.sent
    /\ s.up = cli.up

LEMMA CliAnewGoes ==
    ASSUME cli \in CliState(cli.up), NEW q \in CliPhases
    PROVE  GoesTo(CliAnew(q), q, <<>>)
<1>1. <<>> \in Seq(Unit)
  OBVIOUS
<1>2. CliAnew(q) \in CliState(cli.up)
  BY <1>1 DEF CliState, CliAnew, CliPhases
<1>3. CliAnew(q).phase = q /\ CliAnew(q).got = <<>> /\ CliAnew(q).wpos = 0
  BY DEF CliState, CliAnew
<1>4. /\ CliAnew(q).size = cli.size /\ CliAnew(q).total = cli.total
      /\ CliAnew(q).pings = cli.pings /\ CliAnew(q).sent = cli.sent /\ CliAnew(q).up = cli.up
  BY DEF CliState, CliAnew
<1>5. QED
  BY <1>2, <1>3, <1>4 DEF GoesTo

LEMMA CliSaysGoes ==
    ASSUME cli \in CliState(cli.up), NEW q \in CliPhases
    PROVE  GoesTo(CliSays(q), q, cli.got)
<1>1. CliSays(q) \in CliState(cli.up)
  BY DEF CliState, CliSays, CliPhases
<1>2. CliSays(q).phase = q /\ CliSays(q).got = cli.got /\ CliSays(q).wpos = 0
  BY DEF CliState, CliSays
<1>3. /\ CliSays(q).size = cli.size /\ CliSays(q).total = cli.total
      /\ CliSays(q).pings = cli.pings /\ CliSays(q).sent = cli.sent /\ CliSays(q).up = cli.up
  BY DEF CliState, CliSays
<1>4. QED
  BY <1>1, <1>2, <1>3 DEF GoesTo

LEMMA KeptGoes ==
    ASSUME cli \in CliState(cli.up), cli.wpos = 0, NEW data, cli.got \o data \in Seq(Unit)
    PROVE  GoesTo(Kept(data), cli.phase, cli.got \o data)
<1> DEFINE got == cli.got \o data
<1>1. got \in Seq(Unit) /\ Kept(data) = [cli EXCEPT !.got = got]
  BY DEF Kept
<1> HIDE DEF got
<1>2. Kept(data) \in CliState(cli.up)
  BY <1>1 DEF CliState
<1>3. Kept(data).phase = cli.phase /\ Kept(data).got = got /\ Kept(data).wpos = 0
  BY <1>1 DEF CliState
<1>4. /\ Kept(data).size = cli.size /\ Kept(data).total = cli.total
      /\ Kept(data).pings = cli.pings /\ Kept(data).sent = cli.sent /\ Kept(data).up = cli.up
  BY <1>1 DEF CliState
<1>5. QED
  BY <1>2, <1>3, <1>4 DEF GoesTo, got

\* From phase p on to phase q no count starts, and a count that ends is not looked at.
CountsOn(p, q) ==
    /\ q \in BeforePings => p \in BeforePings
    /\ q \in Pinging => p \in Pinging \cup BeforePings
    /\ q \notin InUpload => p \notin InUpload
    /\ p \in {"PerfReceiveTime", "PerfCompleted"} => q \in {"PerfReceiveTime", "PerfCompleted"}

LEMMA CliGoes ==
    ASSUME SessionInv, UNCHANGED <<srv, gone>>, splitOk' \in BOOLEAN,
           toServer' \in Seq(Unit), Len(toServer') <= Cap,
           toClient' \in Seq(Unit), Len(toClient') <= Cap,
           NEW q, CountsOn(cli.phase, q), NEW got, GoesTo(cli', q, got)
    PROVE  Typed' /\ Positions' /\ Counters' /\ Clocks'
<1>1. Typed /\ Positions /\ Counters /\ Clocks
  BY DEF SessionInv
<1>2. Typed'
  BY <1>1 DEF Typed, GoesTo
<1>3. Positions'
  BY <1>1, Bounds DEF Positions, GoesTo
<1>4. Counters'
  BY <1>1, ClientAssumption DEF Counters, GoesTo, CountsOn
<1>5. Clocks'
  BY <1>1 DEF Clocks, GoesTo, CountsOn
<1>6. QED
  BY <1>2, <1>3, <1>4, <1>5

\* The line goes whole, and the client goes on to hear the answer.
LEMMA CliAsks ==
    ASSUME SessionInv, UNCHANGED srv, NEW phases, NEW sp, Quiet(phases, sp),
           NEW p \in ClientTalks \ InUpload, NEW line \in Seq(Unit), Len(line) = 2,
           NEW fin, NEW c, GoesTo(fin, c, <<>>), CountsOn(p, c),
           CliWrites(p, line, fin) \/ CliSlides(p, line, fin)
    PROVE  /\ Typed' /\ Positions' /\ Counters' /\ Clocks'
           /\ Asked(c, sp, line)' /\ AskedOk(c, sp)' = (line = OK)
           /\ cli'.size = cli.size /\ cli'.total = cli.total
<1>1. Typed /\ Positions /\ cli.phase = p
  BY DEF SessionInv, CliWrites, CliSlides, On
<1>2. cli.wpos = 0 /\ toServer = <<>> /\ toClient = <<>> /\ srv.got = <<>> /\ srv.phase = sp
  BY <1>1 DEF Positions, Quiet
<1>3. Taken(<<>>, line, 0) = line /\ 0 + Len(line) = Len(line) /\ <<>> \o line = line
  BY LineIsTaken
<1>4. toServer' = line /\ cli' = fin /\ UNCHANGED <<toClient, gone, splitOk>>
  <2>1. CASE CliWrites(p, line, fin)
    BY <1>2, <1>3, <2>1 DEF CliWrites
  <2>2. CASE CliSlides(p, line, fin)
    <3>1. Slides(line) = line
      BY <1>2 DEF Slides
    <3>2. QED
      BY <1>2, <1>3, <2>2, <3>1 DEF CliSlides
  <2>3. QED
    BY <2>1, <2>2
<1>5. Len(toServer') <= Cap /\ toServer' # <<>> /\ splitOk' \in BOOLEAN
  <2>1. Len(line) <= Cap /\ line # <<>>
    BY Bounds
  <2>2. QED
    BY <1>1, <1>4, <2>1 DEF Typed
<1>6. toClient' \in Seq(Unit) /\ Len(toClient') <= Cap
  BY <1>1, <1>4, Parts
<1>7. GoesTo(cli', c, <<>>)
  BY <1>4
<1>8. Typed' /\ Positions' /\ Counters' /\ Clocks'
  BY <1>1, <1>4, <1>5, <1>6, <1>7, CliGoes
<1>9. /\ cli'.phase = c /\ cli'.got = <<>> /\ cli'.size = cli.size /\ cli'.total = cli.total
  BY <1>7 DEF GoesTo
<1>10. srv'.got \o toServer' = line /\ srv'.got = <<>> /\ srv'.phase = sp /\ toClient' = <<>>
  BY <1>2, <1>3, <1>4
<1>11. Asked(c, sp, line)'
  BY <1>5, <1>9, <1>10 DEF Asked
<1>12. AskedOk(c, sp)' = (line = OK)
  BY <1>9, <1>10 DEF AskedOk
<1>13. QED
  BY <1>8, <1>9, <1>11, <1>12

LEMMA ConnectionTypeIsSaid ==
    ASSUME SessionInv, client_greeting_send_connection_type, UNCHANGED srv
    PROVE  SessionInv'
<1> DEFINE p  == "GreetingSendConnectionType"
           c  == "GreetingReceiveGreeting"
           sp == "GreetingReceiveConnectionType"
<1>1. /\ Typed /\ Scene /\ cli.phase = p /\ cli \in CliState(cli.up)
      /\ cli.size \in Nat /\ cli.total \in Nat
  <2>1. Typed /\ Scene /\ cli.phase = p
    BY DEF SessionInv, client_greeting_send_connection_type, CliWrites, CliSlides, On
  <2>2. cli \in CliState(cli.up) /\ cli.size \in Stored
    BY <2>1, Parts
  <2>3. QED
    BY <2>1, <2>2, StoredFacts DEF CliState
<1>2. Quiet({"GreetingSendConnectionType"}, sp)
  BY <1>1, CliScene DEF Idle
<1>3. PICK line : line = Line("GET /rmbt", <<>>)
  OBVIOUS
<1>4. line \in Seq(Unit) /\ Len(line) = 2
  BY <1>1, <1>3, LineFacts, NoArg DEF Words
<1>5. GoesTo(CliAnew(c), c, <<>>)
  <2>1. c \in CliPhases
    BY DEF CliPhases, CliReading
  <2>2. QED
    BY <1>1, <2>1, CliAnewGoes
<1>6. p \in ClientTalks \ InUpload /\ CountsOn(p, c)
  BY DEF ClientTalks, InUpload, CountsOn, BeforePings, Pinging
<1>7. CliWrites(p, line, CliAnew(c)) \/ CliSlides(p, line, CliAnew(c))
  BY <1>3 DEF client_greeting_send_connection_type
<1>8. PICK fin : fin = CliAnew(c)
  OBVIOUS
<1>9. /\ GoesTo(fin, c, <<>>)
      /\ CliWrites(p, line, fin) \/ CliSlides(p, line, fin)
  BY <1>5, <1>7, <1>8
<1>10. /\ Typed' /\ Positions' /\ Counters' /\ Clocks'
       /\ Asked(c, sp, line)' /\ AskedOk(c, sp)' = (line = OK)
       /\ cli'.size = cli.size /\ cli'.total = cli.total
  BY <1>2, <1>4, <1>6, <1>9, CliAsks
<1>11. Asked(c, sp, Line("GET /rmbt", <<>>))'
  BY <1>3, <1>10 DEF Asked
<1>12. QED
  BY <1>10, <1>11 DEF SessionInv, Scene

LEMMA TokenIsSaid ==
    ASSUME SessionInv, client_greeting_send_token, UNCHANGED srv
    PROVE  SessionInv'
<1> DEFINE p  == "GreetingSendToken"
           c  == "GreetingReceiveResponse"
           sp == "GreetingReceiveToken"
<1>1. /\ Typed /\ Scene /\ cli.phase = p /\ cli \in CliState(cli.up)
      /\ cli.size \in Nat /\ cli.total \in Nat
  <2>1. Typed /\ Scene /\ cli.phase = p
    BY DEF SessionInv, client_greeting_send_token, CliWrites, CliSlides, On
  <2>2. cli \in CliState(cli.up) /\ cli.size \in Stored
    BY <2>1, Parts
  <2>3. QED
    BY <2>1, <2>2, StoredFacts DEF CliState
<1>2. Quiet({"GreetingSendToken"}, sp)
  BY <1>1, CliScene DEF Idle
<1>3. PICK line : line = Line("TOKEN", <<>>)
  OBVIOUS
<1>4. line \in Seq(Unit) /\ Len(line) = 2
  BY <1>1, <1>3, LineFacts, NoArg DEF Words
<1>5. GoesTo(CliAnew(c), c, <<>>)
  <2>1. c \in CliPhases
    BY DEF CliPhases, CliReading
  <2>2. QED
    BY <1>1, <2>1, CliAnewGoes
<1>6. p \in ClientTalks \ InUpload /\ CountsOn(p, c)
  BY DEF ClientTalks, InUpload, CountsOn, BeforePings, Pinging
<1>7. CliWrites(p, line, CliAnew(c)) \/ CliSlides(p, line, CliAnew(c))
  BY <1>3 DEF client_greeting_send_token
<1>8. PICK fin : fin = CliAnew(c)
  OBVIOUS
<1>9. /\ GoesTo(fin, c, <<>>)
      /\ CliWrites(p, line, fin) \/ CliSlides(p, line, fin)
  BY <1>5, <1>7, <1>8
<1>10. /\ Typed' /\ Positions' /\ Counters' /\ Clocks'
       /\ Asked(c, sp, line)' /\ AskedOk(c, sp)' = (line = OK)
       /\ cli'.size = cli.size /\ cli'.total = cli.total
  BY <1>2, <1>4, <1>6, <1>9, CliAsks
<1>11. Asked(c, sp, Line("TOKEN", <<>>))'
  BY <1>3, <1>10 DEF Asked
<1>12. QED
  BY <1>10, <1>11 DEF SessionInv, Scene

LEMMA GetChunksIsSaid ==
    ASSUME SessionInv, client_get_chunks_send_chunks_command, UNCHANGED srv
    PROVE  SessionInv'
<1> DEFINE p  == "GetChunksSendChunksCommand"
           c  == "GetChunksReceiveChunk"
           sp == "AcceptCommandReceive"
<1>1. /\ Typed /\ Scene /\ cli.phase = p /\ cli \in CliState(cli.up)
      /\ cli.size \in Nat /\ cli.total \in Nat
  <2>1. Typed /\ Scene /\ cli.phase = p
    BY DEF SessionInv, client_get_chunks_send_chunks_command, CliWrites, CliSlides, On
  <2>2. cli \in CliState(cli.up) /\ cli.size \in Stored
    BY <2>1, Parts
  <2>3. QED
    BY <2>1, <2>2, StoredFacts DEF CliState
<1>2. Quiet(Idle, sp)
  BY <1>1, CliScene DEF Idle
<1>3. PICK line : line = Line("GETCHUNKS", <<cli.total, cli.size>>)
  OBVIOUS
<1>4. line \in Seq(Unit) /\ Len(line) = 2
  <2>1. <<cli.total, cli.size>> \in Seq(Nat)
    BY <1>1
  <2>2. QED
    BY ZenonT(30), <1>3, <2>1, LineFacts DEF Words
<1>5. GoesTo(CliAnew(c), c, <<>>)
  <2>1. c \in CliPhases
    BY DEF CliPhases, CliReading
  <2>2. QED
    BY <1>1, <2>1, CliAnewGoes
<1>6. p \in ClientTalks \ InUpload /\ CountsOn(p, c)
  BY DEF ClientTalks, InUpload, CountsOn, BeforePings, Pinging
<1>7. CliWrites(p, line, CliAnew(c)) \/ CliSlides(p, line, CliAnew(c))
  BY <1>3 DEF client_get_chunks_send_chunks_command
<1>8. PICK fin : fin = CliAnew(c)
  OBVIOUS
<1>9. /\ GoesTo(fin, c, <<>>)
      /\ CliWrites(p, line, fin) \/ CliSlides(p, line, fin)
  BY <1>5, <1>7, <1>8
<1>10. /\ Typed' /\ Positions' /\ Counters' /\ Clocks'
       /\ Asked(c, sp, line)' /\ AskedOk(c, sp)' = (line = OK)
       /\ cli'.size = cli.size /\ cli'.total = cli.total
  BY <1>2, <1>4, <1>6, <1>9, CliAsks
<1>11. Asked(c, sp, Line("GETCHUNKS", <<cli.total, cli.size>>))'
  BY <1>3, <1>10 DEF Asked
<1>12. QED
  BY <1>10, <1>11 DEF SessionInv, Scene

LEMMA GetChunksOkIsSaid ==
    ASSUME SessionInv, client_get_chunks_send_ok, UNCHANGED srv
    PROVE  SessionInv'
<1> DEFINE p  == "GetChunksSendOk"
           c  == "GetChunksReceiveTime"
           sp == "GetChunksReceiveOK"
<1>1. /\ Typed /\ Scene /\ cli.phase = p /\ cli \in CliState(cli.up)
      /\ cli.size \in Nat /\ cli.total \in Nat
  <2>1. Typed /\ Scene /\ cli.phase = p
    BY DEF SessionInv, client_get_chunks_send_ok, CliWrites, CliSlides, On
  <2>2. cli \in CliState(cli.up) /\ cli.size \in Stored
    BY <2>1, Parts
  <2>3. QED
    BY <2>1, <2>2, StoredFacts DEF CliState
<1>2. Quiet({"GetChunksSendOk"}, sp)
  BY <1>1, CliScene DEF Idle
<1>3. PICK line : line = OK
  OBVIOUS
<1>4. line \in Seq(Unit) /\ Len(line) = 2
  BY <1>1, <1>3, LineFacts, NoArg DEF Words, OK
<1>5. GoesTo(CliSays(c), c, <<>>)
  <2>1. c \in CliPhases
    BY DEF CliPhases, CliReading
  <2>2. cli.got = <<>>
    BY <1>1, <1>2 DEF Quiet
  <2>3. QED
    BY <1>1, <2>1, <2>2, CliSaysGoes
<1>6. p \in ClientTalks \ InUpload /\ CountsOn(p, c)
  BY DEF ClientTalks, InUpload, CountsOn, BeforePings, Pinging
<1>7. CliWrites(p, line, CliSays(c)) \/ CliSlides(p, line, CliSays(c))
  BY <1>3 DEF client_get_chunks_send_ok
<1>8. PICK fin : fin = CliSays(c)
  OBVIOUS
<1>9. /\ GoesTo(fin, c, <<>>)
      /\ CliWrites(p, line, fin) \/ CliSlides(p, line, fin)
  BY <1>5, <1>7, <1>8
<1>10. /\ Typed' /\ Positions' /\ Counters' /\ Clocks'
       /\ Asked(c, sp, line)' /\ AskedOk(c, sp)' = (line = OK)
       /\ cli'.size = cli.size /\ cli'.total = cli.total
  BY <1>2, <1>4, <1>6, <1>9, CliAsks
<1>11. AskedOk(c, sp)'
  BY <1>3, <1>10
<1>12. QED
  BY <1>10, <1>11 DEF SessionInv, Scene

LEMMA PingIsSaid ==
    ASSUME SessionInv, client_ping_send_ping, UNCHANGED srv
    PROVE  SessionInv'
<1> DEFINE p  == "PingSendPing"
           c  == "PingReceivePong"
           sp == "AcceptCommandReceive"
<1>1. /\ Typed /\ Scene /\ cli.phase = p /\ cli \in CliState(cli.up)
      /\ cli.size \in Nat /\ cli.total \in Nat
  <2>1. Typed /\ Scene /\ cli.phase = p
    BY DEF SessionInv, client_ping_send_ping, CliWrites, CliSlides, On
  <2>2. cli \in CliState(cli.up) /\ cli.size \in Stored
    BY <2>1, Parts
  <2>3. QED
    BY <2>1, <2>2, StoredFacts DEF CliState
<1>2. Quiet(Idle, sp)
  BY <1>1, CliScene DEF Idle
<1>3. PICK line : line = Line("PING", <<>>)
  OBVIOUS
<1>4. line \in Seq(Unit) /\ Len(line) = 2
  BY <1>1, <1>3, LineFacts, NoArg DEF Words
<1>5. GoesTo(CliAnew(c), c, <<>>)
  <2>1. c \in CliPhases
    BY DEF CliPhases, CliReading
  <2>2. QED
    BY <1>1, <2>1, CliAnewGoes
<1>6. p \in ClientTalks \ InUpload /\ CountsOn(p, c)
  BY DEF ClientTalks, InUpload, CountsOn, BeforePings, Pinging
<1>7. CliWrites(p, line, CliAnew(c)) \/ CliSlides(p, line, CliAnew(c))
  BY <1>3 DEF client_ping_send_ping
<1>8. PICK fin : fin = CliAnew(c)
  OBVIOUS
<1>9. /\ GoesTo(fin, c, <<>>)
      /\ CliWrites(p, line, fin) \/ CliSlides(p, line, fin)
  BY <1>5, <1>7, <1>8
<1>10. /\ Typed' /\ Positions' /\ Counters' /\ Clocks'
       /\ Asked(c, sp, line)' /\ AskedOk(c, sp)' = (line = OK)
       /\ cli'.size = cli.size /\ cli'.total = cli.total
  BY <1>2, <1>4, <1>6, <1>9, CliAsks
<1>11. Asked(c, sp, Line("PING", <<>>))'
  BY <1>3, <1>10 DEF Asked
<1>12. QED
  BY <1>10, <1>11 DEF SessionInv, Scene

LEMMA PingOkIsSaid ==
    ASSUME SessionInv, client_ping_send_ok, UNCHANGED srv
    PROVE  SessionInv'
<1> DEFINE p  == "PingSendOk"
           c  == "PingReceiveTime"
           sp == "PingReceiveOk"
<1>1. /\ Typed /\ Scene /\ cli.phase = p /\ cli \in CliState(cli.up)
      /\ cli.size \in Nat /\ cli.total \in Nat
  <2>1. Typed /\ Scene /\ cli.phase = p
    BY DEF SessionInv, client_ping_send_ok, CliWrites, CliSlides, On
  <2>2. cli \in CliState(cli.up) /\ cli.size \in Stored
    BY <2>1, Parts
  <2>3. QED
    BY <2>1, <2>2, StoredFacts DEF CliState
<1>2. Quiet({"PingSendOk"}, sp)
  BY <1>1, CliScene DEF Idle
<1>3. PICK line : line = OK
  OBVIOUS
<1>4. line \in Seq(Unit) /\ Len(line) = 2
  BY <1>1, <1>3, LineFacts, NoArg DEF Words, OK
<1>5. GoesTo(CliAnew(c), c, <<>>)
  <2>1. c \in CliPhases
    BY DEF CliPhases, CliReading
  <2>2. QED
    BY <1>1, <2>1, CliAnewGoes
<1>6. p \in ClientTalks \ InUpload /\ CountsOn(p, c)
  BY DEF ClientTalks, InUpload, CountsOn, BeforePings, Pinging
<1>7. CliWrites(p, line, CliAnew(c)) \/ CliSlides(p, line, CliAnew(c))
  BY <1>3 DEF client_ping_send_ok
<1>8. PICK fin : fin = CliAnew(c)
  OBVIOUS
<1>9. /\ GoesTo(fin, c, <<>>)
      /\ CliWrites(p, line, fin) \/ CliSlides(p, line, fin)
  BY <1>5, <1>7, <1>8
<1>10. /\ Typed' /\ Positions' /\ Counters' /\ Clocks'
       /\ Asked(c, sp, line)' /\ AskedOk(c, sp)' = (line = OK)
       /\ cli'.size = cli.size /\ cli'.total = cli.total
  BY <1>2, <1>4, <1>6, <1>9, CliAsks
<1>11. AskedOk(c, sp)'
  BY <1>3, <1>10
<1>12. QED
  BY <1>10, <1>11 DEF SessionInv, Scene

LEMMA GetTimeIsSaid ==
    ASSUME SessionInv, client_get_time_send_command, UNCHANGED srv
    PROVE  SessionInv'
<1> DEFINE p  == "GetTimeSendCommand"
           c  == "GetTimeReceiveChunk"
           sp == "AcceptCommandReceive"
<1>1. /\ Typed /\ Scene /\ cli.phase = p /\ cli \in CliState(cli.up)
      /\ cli.size \in Nat /\ cli.total \in Nat
  <2>1. Typed /\ Scene /\ cli.phase = p
    BY DEF SessionInv, client_get_time_send_command, CliWrites, CliSlides, On
  <2>2. cli \in CliState(cli.up) /\ cli.size \in Stored
    BY <2>1, Parts
  <2>3. QED
    BY <2>1, <2>2, StoredFacts DEF CliState
<1>2. Quiet(Idle, sp)
  BY <1>1, CliScene DEF Idle
<1>3. PICK line : line = Line("GETTIME", <<cli.size>>)
  OBVIOUS
<1>4. line \in Seq(Unit) /\ Len(line) = 2
  BY <1>1, <1>3, LineFacts, NoArg DEF Words
<1>5. GoesTo(CliSays(c), c, <<>>)
  <2>1. c \in CliPhases
    BY DEF CliPhases, CliReading
  <2>2. cli.got = <<>>
    BY <1>1, <1>2 DEF Quiet
  <2>3. QED
    BY <1>1, <2>1, <2>2, CliSaysGoes
<1>6. p \in ClientTalks \ InUpload /\ CountsOn(p, c)
  BY DEF ClientTalks, InUpload, CountsOn, BeforePings, Pinging
<1>7. CliWrites(p, line, CliSays(c)) \/ CliSlides(p, line, CliSays(c))
  BY <1>3 DEF client_get_time_send_command
<1>8. PICK fin : fin = CliSays(c)
  OBVIOUS
<1>9. /\ GoesTo(fin, c, <<>>)
      /\ CliWrites(p, line, fin) \/ CliSlides(p, line, fin)
  BY <1>5, <1>7, <1>8
<1>10. /\ Typed' /\ Positions' /\ Counters' /\ Clocks'
       /\ Asked(c, sp, line)' /\ AskedOk(c, sp)' = (line = OK)
       /\ cli'.size = cli.size /\ cli'.total = cli.total
  BY <1>2, <1>4, <1>6, <1>9, CliAsks
<1>11. Asked(c, sp, Line("GETTIME", <<cli.size>>))'
  BY <1>3, <1>10 DEF Asked
<1>12. QED
  BY <1>10, <1>11 DEF SessionInv, Scene

LEMMA GetTimeOkIsSaid ==
    ASSUME SessionInv, client_get_time_send_ok, UNCHANGED srv
    PROVE  SessionInv'
<1> DEFINE p  == "GetTimeSendOk"
           c  == "GetTimeReceiveTime"
           sp == "GetTimeReceiveOk"
<1>1. /\ Typed /\ Scene /\ cli.phase = p /\ cli \in CliState(cli.up)
      /\ cli.size \in Nat /\ cli.total \in Nat
  <2>1. Typed /\ Scene /\ cli.phase = p
    BY DEF SessionInv, client_get_time_send_ok, CliWrites, CliSlides, On
  <2>2. cli \in CliState(cli.up) /\ cli.size \in Stored
    BY <2>1, Parts
  <2>3. QED
    BY <2>1, <2>2, StoredFacts DEF CliState
<1>2. Quiet({"GetTimeSendOk"}, sp)
  BY <1>1, CliScene DEF Idle
<1>3. PICK line : line = OK
  OBVIOUS
<1>4. line \in Seq(Unit) /\ Len(line) = 2
  BY <1>1, <1>3, LineFacts, NoArg DEF Words, OK
<1>5. GoesTo(CliAnew(c), c, <<>>)
  <2>1. c \in CliPhases
    BY DEF CliPhases, CliReading
  <2>2. QED
    BY <1>1, <2>1, CliAnewGoes
<1>6. p \in ClientTalks \ InUpload /\ CountsOn(p, c)
  BY DEF ClientTalks, InUpload, CountsOn, BeforePings, Pinging
<1>7. CliWrites(p, line, CliAnew(c)) \/ CliSlides(p, line, CliAnew(c))
  BY <1>3 DEF client_get_time_send_ok
<1>8. PICK fin : fin = CliAnew(c)
  OBVIOUS
<1>9. /\ GoesTo(fin, c, <<>>)
      /\ CliWrites(p, line, fin) \/ CliSlides(p, line, fin)
  BY <1>5, <1>7, <1>8
<1>10. /\ Typed' /\ Positions' /\ Counters' /\ Clocks'
       /\ Asked(c, sp, line)' /\ AskedOk(c, sp)' = (line = OK)
       /\ cli'.size = cli.size /\ cli'.total = cli.total
  BY <1>2, <1>4, <1>6, <1>9, CliAsks
<1>11. AskedOk(c, sp)'
  BY <1>3, <1>10
<1>12. QED
  BY <1>10, <1>11 DEF SessionInv, Scene

LEMMA PutIsSaid ==
    ASSUME SessionInv, client_put_time_result_send_command, UNCHANGED srv
    PROVE  SessionInv'
<1> DEFINE p  == "PerfSendCommand"
           c  == "PerfReceiveOk"
           sp == "AcceptCommandReceive"
<1>1. /\ Typed /\ Scene /\ cli.phase = p /\ cli \in CliState(cli.up)
      /\ cli.size \in Nat /\ cli.total \in Nat
  <2>1. Typed /\ Scene /\ cli.phase = p
    BY DEF SessionInv, client_put_time_result_send_command, CliWrites, CliSlides, On
  <2>2. cli \in CliState(cli.up) /\ cli.size \in Stored
    BY <2>1, Parts
  <2>3. QED
    BY <2>1, <2>2, StoredFacts DEF CliState
<1>2. Quiet(Idle, sp)
  BY <1>1, CliScene DEF Idle
<1>3. PICK line : line = Line("PUTTIMERESULT", <<cli.size>>)
  OBVIOUS
<1>4. line \in Seq(Unit) /\ Len(line) = 2
  BY <1>1, <1>3, LineFacts, NoArg DEF Words
<1>5. GoesTo(CliAnew(c), c, <<>>)
  <2>1. c \in CliPhases
    BY DEF CliPhases, CliReading
  <2>2. QED
    BY <1>1, <2>1, CliAnewGoes
<1>6. p \in ClientTalks \ InUpload /\ CountsOn(p, c)
  BY DEF ClientTalks, InUpload, CountsOn, BeforePings, Pinging
<1>7. CliWrites(p, line, CliAnew(c)) \/ CliSlides(p, line, CliAnew(c))
  BY <1>3 DEF client_put_time_result_send_command
<1>8. PICK fin : fin = CliAnew(c)
  OBVIOUS
<1>9. /\ GoesTo(fin, c, <<>>)
      /\ CliWrites(p, line, fin) \/ CliSlides(p, line, fin)
  BY <1>5, <1>7, <1>8
<1>10. /\ Typed' /\ Positions' /\ Counters' /\ Clocks'
       /\ Asked(c, sp, line)' /\ AskedOk(c, sp)' = (line = OK)
       /\ cli'.size = cli.size /\ cli'.total = cli.total
  BY <1>2, <1>4, <1>6, <1>9, CliAsks
<1>11. Asked(c, sp, Line("PUTTIMERESULT", <<cli.size>>))'
  BY <1>3, <1>10 DEF Asked
<1>12. QED
  BY <1>10, <1>11 DEF SessionInv, Scene
-----------------------------------------------------------------------------
(* The client reads a text.                                                *)

\* Of m units that are said of the text, `read` are read now and `rest` are on the way.
Heard(text, m, read, rest) ==
    /\ read \in Seq(Unit) /\ Len(read) \in 1..Len(text) /\ StartOf(read, text, Len(read))
    /\ rest \in Seq(Unit) /\ Len(rest) <= Cap
    /\ Len(read) = Len(text) => rest = <<>> /\ m = Len(text)
    /\ Len(read) # Len(text) => Hears(read, rest, text, m)

LEMMA TextIsHeard ==
    ASSUME NEW text \in Seq(Unit), NEW m \in Nat, m <= Len(text),
           NEW got \in Seq(Unit), NEW ch \in Seq(Unit), StartOf(got \o ch, text, m),
           Len(ch) <= Cap, NEW space \in Nat, NEW data \in Pieces(ch, space)
    PROVE  Heard(text, m, got \o data, Rest(ch, data))
<1> DEFINE read == got \o data
           rest == Rest(ch, data)
<1>1. /\ read \in Seq(Unit) /\ Len(read) \in 1..m
      /\ StartOf(read, text, Len(read))
      /\ StartOf(read \o rest, text, m)
      /\ Len(read) = Len(text) => rest = <<>> /\ m = Len(text)
  BY HearingText
<1>2. rest \in Seq(Unit) /\ Len(rest) <= Cap
  <2>1. rest \in Seq(Unit) /\ Len(rest) = Len(ch) - Len(data) /\ Len(data) \in Nat
    BY PieceFacts
  <2>2. QED
    BY <2>1, Bounds
<1> HIDE DEF read, rest
<1>3. Len(read) \in 1..Len(text) /\ (Len(read) # Len(text) => Len(read) < Len(text))
  <2>1. ASSUME NEW n \in Nat, m <= n, NEW i \in 1..m
        PROVE  i \in 1..n /\ (i # n => i < n)
    BY <2>1
  <2>2. Len(text) \in Nat
    OBVIOUS
  <2>3. QED
    BY <1>1, <2>1, <2>2
<1>4. Heard(text, m, read, rest)
  BY <1>1, <1>2, <1>3 DEF Heard, Hears
<1>5. QED
  BY <1>4 DEF read, rest

LEMMA CliHears ==
    ASSUME Typed, NEW c, NEW text \in Seq(Unit), NEW said, Answering(c, text, said),
           NEW m \in Nat, m = said[srv.phase] + srv.wpos,
           NEW space \in Nat, NEW data \in Pieces(toClient, space)
    PROVE  Heard(text, m, cli.got \o data, Rest(toClient, data))
<1>1. /\ cli.got \in Seq(Unit) /\ toClient \in Seq(Unit) /\ Len(toClient) <= Cap
      /\ m <= Len(text) /\ StartOf(cli.got \o toClient, text, m)
  BY Parts DEF Answering, Hears
<1>2. QED
  BY <1>1, TextIsHeard

\* What it has read is not all of the text: it keeps it.
LEMMA PartHeard ==
    ASSUME SessionInv, UNCHANGED <<srv, toServer, gone>>, splitOk' \in BOOLEAN,
           NEW c, c \notin InUpload, NEW text, NEW said, Answering(c, text, said),
           NEW m, m = said[srv.phase] + srv.wpos, NEW data,
           Heard(text, m, cli.got \o data, Rest(toClient, data)),
           Len(cli.got \o data) # Len(text),
           toClient' = Rest(toClient, data), cli' = Kept(data)
    PROVE  /\ Typed' /\ Positions' /\ Counters' /\ Clocks'
           /\ Answering(c, text, said)' /\ cli'.size = cli.size /\ cli'.total = cli.total
<1>1. Typed /\ Positions /\ cli.phase = c /\ cli \in CliState(cli.up)
  BY Parts DEF SessionInv, Answering
<1>2. cli.wpos = 0 /\ toServer \in Seq(Unit) /\ Len(toServer) <= Cap
  BY <1>1, Parts DEF Positions
<1>3. /\ cli.got \o data \in Seq(Unit)
      /\ toClient' \in Seq(Unit) /\ Len(toClient') <= Cap
      /\ Hears(cli.got \o data, toClient', text, m)
  BY DEF Heard
<1>4. GoesTo(cli', c, cli.got \o data)
  BY <1>1, <1>2, <1>3, KeptGoes
<1>5. CountsOn(cli.phase, c)
  BY <1>1 DEF CountsOn
<1>6. toServer' \in Seq(Unit) /\ Len(toServer') <= Cap
  BY <1>2
<1>7. Typed' /\ Positions' /\ Counters' /\ Clocks'
  BY <1>3, <1>4, <1>5, <1>6, CliGoes
<1>8. /\ cli'.phase = c /\ cli'.got = cli.got \o data
      /\ cli'.size = cli.size /\ cli'.total = cli.total
  BY <1>4 DEF GoesTo
<1>9. Answering(c, text, said)'
  BY <1>3, <1>8 DEF Answering
<1>10. QED
  BY <1>7, <1>8, <1>9

\* It has read all of the text and is the next to speak.
LEMMA AllHeard ==
    ASSUME SessionInv, UNCHANGED <<srv, toServer, gone>>, splitOk' \in BOOLEAN,
           NEW c, NEW text, NEW said, Answering(c, text, said), toClient' = <<>>,
           NEW sp, srv.phase = sp, NEW phases, NEW q \in phases, CountsOn(c, q),
           NEW got, GoesTo(cli', q, got), got = <<>> \/ q = "GetTimeCompleted"
    PROVE  /\ Typed' /\ Positions' /\ Counters' /\ Clocks'
           /\ Quiet(phases, sp)'
<1>1. Typed /\ cli.phase = c /\ toServer = <<>> /\ srv.got = <<>>
  BY DEF SessionInv, Answering
<1>2. <<>> \in Seq(Unit) /\ Len(<<>>) <= Cap
  BY Bounds
<1>3. toServer' = <<>> /\ toClient' = <<>>
  BY <1>1
<1>4. Typed' /\ Positions' /\ Counters' /\ Clocks'
  BY <1>1, <1>2, <1>3, CliGoes
<1>5. cli'.phase = q /\ cli'.got = got
  BY DEF GoesTo
<1>6. Quiet(phases, sp)'
  BY <1>1, <1>3, <1>5 DEF Quiet
<1>7. QED
  BY <1>4, <1>6

\* The phase the server is in when it has said all of a text.
LEMMA AllSaid ==
    ASSUME NEW p, NEW w \in Nat, w < 2
    PROVE  /\ p \in DOMAIN GreetingSaid =>
                 /\ GreetingSaid[p] + w \in Nat
                 /\ GreetingSaid[p] + w = 6 => p = "GreetingReceiveToken"
           /\ p \in DOMAIN ResponseSaid =>
                 /\ ResponseSaid[p] + w \in Nat
                 /\ ResponseSaid[p] + w = 6 => p = "AcceptCommandReceive"
           /\ p \in DOMAIN PongSaid =>
                 /\ PongSaid[p] + w \in Nat
                 /\ PongSaid[p] + w = 2 => p = "PingReceiveOk"
           /\ \A q \in {"GetChunksSendTime", "PingSendTime", "GetTimeSendTime"} :
                 p \in DOMAIN TimeSaid(q) =>
                    /\ TimeSaid(q)[p] + w \in Nat
                    /\ TimeSaid(q)[p] + w = 4 => p = "AcceptCommandReceive"
<1>1. w = 0 \/ w = 1
  OBVIOUS
<1>2. p \in DOMAIN GreetingSaid =>
        /\ GreetingSaid[p] + w \in Nat
        /\ GreetingSaid[p] + w = 6 => p = "GreetingReceiveToken"
  BY <1>1 DEF GreetingSaid
<1>3. p \in DOMAIN ResponseSaid =>
        /\ ResponseSaid[p] + w \in Nat
        /\ ResponseSaid[p] + w = 6 => p = "AcceptCommandReceive"
  BY <1>1 DEF ResponseSaid
<1>4. p \in DOMAIN PongSaid =>
        /\ PongSaid[p] + w \in Nat
        /\ PongSaid[p] + w = 2 => p = "PingReceiveOk"
  BY <1>1 DEF PongSaid
<1>5. ASSUME NEW q \in {"GetChunksSendTime", "PingSendTime", "GetTimeSendTime"},
             p \in DOMAIN TimeSaid(q)
      PROVE  /\ TimeSaid(q)[p] + w \in Nat
             /\ TimeSaid(q)[p] + w = 4 => p = "AcceptCommandReceive"
  BY <1>1, <1>5 DEF TimeSaid
<1>6. QED
  BY <1>2, <1>3, <1>4, <1>5

\* Phases in which the server says a text, up to where it has said all of it.
LEMMA WithinText ==
    ASSUME SessionInv, NEW c, NEW text, NEW said, Answering(c, text, said),
           DOMAIN said \cap SendsChunks = {}
    PROVE  srv.phase \in DOMAIN said /\ srv.wpos \in Nat /\ srv.wpos < 2
BY Parts DEF SessionInv, Answering, Positions

LEMMA TookFacts ==
    ASSUME cli \in CliState(cli.up), cli.wpos = 0, NEW q \in CliPhases, NEW got \in Seq(Unit)
    PROVE  GoesTo([cli EXCEPT !.phase = q, !.got = got], q, got)
<1> DEFINE s == [cli EXCEPT !.phase = q, !.got = got]
<1>1. s \in CliState(cli.up)
  BY DEF CliState, CliPhases
<1>2. s.phase = q /\ s.got = got /\ s.wpos = 0
  BY DEF CliState
<1>3. /\ s.size = cli.size /\ s.total = cli.total /\ s.pings = cli.pings
      /\ s.sent = cli.sent /\ s.up = cli.up
  BY DEF CliState
<1>4. QED
  BY <1>1, <1>2, <1>3 DEF GoesTo

LEMMA GreetingIsHeard ==
    ASSUME SessionInv, client_greeting_receive_greeting, UNCHANGED srv
    PROVE  SessionInv'
<1> DEFINE c    == "GreetingReceiveGreeting"
           q    == "GreetingSendToken"
           sp   == "GreetingReceiveToken"
           line == Line("ACCEPT TOKEN", <<>>)
<1>1. PICK data \in Pieces(toClient, Cap) :
          /\ toClient' = Rest(toClient, data) /\ UNCHANGED <<toServer, gone>>
          /\ splitOk' = (splitOk \/ (CutsOk(data) /\ c = "PerfReceiveOk"))
          /\ cli' = IF EndsWith(cli.got \o data, line)
                    THEN [cli EXCEPT !.phase = q, !.got = <<>>] ELSE Kept(data)
          /\ cli.phase = c
  BY DEF client_greeting_receive_greeting, CliReads, GreetingRead, On
<1>2. /\ Typed /\ Positions /\ Scene /\ cli \in CliState(cli.up) /\ toClient \in Seq(Unit)
      /\ splitOk' \in BOOLEAN
  BY <1>1, Parts DEF SessionInv, Typed
<1>3. Answering(c, GreetingText, GreetingSaid)
  <2>1. toClient # <<>>
    BY <1>2, PiecesOfSome, Bounds
  <2>2. QED
    BY <1>1, <1>2, <2>1, CliScene
<1>4. srv.phase \in DOMAIN GreetingSaid /\ srv.wpos \in Nat /\ srv.wpos < 2
  <2>1. DOMAIN GreetingSaid \cap SendsChunks = {}
    BY DEF GreetingSaid, SendsChunks
  <2>2. QED
    BY <1>3, <2>1, WithinText
<1>5. PICK m \in Nat : m = GreetingSaid[srv.phase] + srv.wpos
  BY <1>4, AllSaid
<1>6. /\ GreetingText \in Seq(Unit) /\ Len(GreetingText) = 6
      /\ EndsOnce(GreetingText, line)
  BY GreetingTextFacts
<1> HIDE DEF line
<1>7. Heard(GreetingText, m, cli.got \o data, Rest(toClient, data))
  BY <1>2, <1>3, <1>5, <1>6, CliHears, Bounds
<1>8. EndsWith(cli.got \o data, line) <=> Len(cli.got \o data) = Len(GreetingText)
  BY <1>6, <1>7, LastLineFound DEF Heard, EndsOnce
<1>9. CASE Len(cli.got \o data) # Len(GreetingText)
  <2>1. cli' = Kept(data) /\ c \notin InUpload
    BY <1>1, <1>8, <1>9 DEF InUpload
  <2>2. /\ Typed' /\ Positions' /\ Counters' /\ Clocks'
        /\ Answering(c, GreetingText, GreetingSaid)'
    BY <1>1, <1>2, <1>3, <1>5, <1>7, <1>9, <2>1, PartHeard
  <2>3. QED
    BY <2>2 DEF SessionInv, Scene
<1>10. CASE Len(cli.got \o data) = Len(GreetingText)
  <2>1. cli' = [cli EXCEPT !.phase = q, !.got = <<>>]
    BY <1>1, <1>8, <1>10
  <2>2. toClient' = <<>> /\ m = 6
    BY <1>1, <1>6, <1>7, <1>10 DEF Heard
  <2>3. srv.phase = sp
    BY <1>4, <1>5, <2>2, AllSaid
  <2>4. GoesTo(cli', q, <<>>)
    <3>1. cli.wpos = 0 /\ q \in CliPhases /\ <<>> \in Seq(Unit)
      BY <1>1, <1>2 DEF Positions, InUpload, CliPhases, ClientTalks, BetweenPhases, FollowsPhase
    <3>2. QED
      BY <1>2, <2>1, <3>1, TookFacts
  <2>5. q \in {"GreetingSendToken"} /\ CountsOn(c, q)
    BY DEF Idle, CountsOn, BeforePings, Pinging, InUpload
  <2>6. /\ Typed' /\ Positions' /\ Counters' /\ Clocks'
        /\ Quiet({"GreetingSendToken"}, sp)'
    BY <1>1, <1>2, <1>3, <2>2, <2>3, <2>4, <2>5, AllHeard
  <2>7. QED
    BY <2>6 DEF SessionInv, Scene
<1>11. QED
  BY <1>9, <1>10

LEMMA ResponseIsHeard ==
    ASSUME SessionInv, client_greeting_receive_response, UNCHANGED srv
    PROVE  SessionInv'
<1> DEFINE c    == "GreetingReceiveResponse"
           q    == "GreetingCompleted"
           sp   == "AcceptCommandReceive"
           line == Accept
<1>1. PICK data \in Pieces(toClient, Cap) :
          /\ toClient' = Rest(toClient, data) /\ UNCHANGED <<toServer, gone>>
          /\ splitOk' = (splitOk \/ (CutsOk(data) /\ c = "PerfReceiveOk"))
          /\ cli' = IF EndsWith(cli.got \o data, line)
                    THEN [cli EXCEPT !.phase = q, !.got = <<>>] ELSE Kept(data)
          /\ cli.phase = c
  BY DEF client_greeting_receive_response, CliReads, ResponseRead, On
<1>2. /\ Typed /\ Positions /\ Scene /\ cli \in CliState(cli.up) /\ toClient \in Seq(Unit)
      /\ splitOk' \in BOOLEAN
  BY <1>1, Parts DEF SessionInv, Typed
<1>3. Answering(c, ResponseText, ResponseSaid)
  <2>1. toClient # <<>>
    BY <1>2, PiecesOfSome, Bounds
  <2>2. QED
    BY <1>1, <1>2, <2>1, CliScene
<1>4. srv.phase \in DOMAIN ResponseSaid /\ srv.wpos \in Nat /\ srv.wpos < 2
  <2>1. DOMAIN ResponseSaid \cap SendsChunks = {}
    BY DEF ResponseSaid, SendsChunks
  <2>2. QED
    BY <1>3, <2>1, WithinText
<1>5. PICK m \in Nat : m = ResponseSaid[srv.phase] + srv.wpos
  BY <1>4, AllSaid
<1>6. /\ ResponseText \in Seq(Unit) /\ Len(ResponseText) = 6
      /\ EndsOnce(ResponseText, line)
  BY ResponseTextFacts
<1> HIDE DEF line
<1>7. Heard(ResponseText, m, cli.got \o data, Rest(toClient, data))
  BY <1>2, <1>3, <1>5, <1>6, CliHears, Bounds
<1>8. EndsWith(cli.got \o data, line) <=> Len(cli.got \o data) = Len(ResponseText)
  BY <1>6, <1>7, LastLineFound DEF Heard, EndsOnce
<1>9. CASE Len(cli.got \o data) # Len(ResponseText)
  <2>1. cli' = Kept(data) /\ c \notin InUpload
    BY <1>1, <1>8, <1>9 DEF InUpload
  <2>2. /\ Typed' /\ Positions' /\ Counters' /\ Clocks'
        /\ Answering(c, ResponseText, ResponseSaid)'
    BY <1>1, <1>2, <1>3, <1>5, <1>7, <1>9, <2>1, PartHeard
  <2>3. QED
    BY <2>2 DEF SessionInv, Scene
<1>10. CASE Len(cli.got \o data) = Len(ResponseText)
  <2>1. cli' = [cli EXCEPT !.phase = q, !.got = <<>>]
    BY <1>1, <1>8, <1>10
  <2>2. toClient' = <<>> /\ m = 6
    BY <1>1, <1>6, <1>7, <1>10 DEF Heard
  <2>3. srv.phase = sp
    BY <1>4, <1>5, <2>2, AllSaid
  <2>4. GoesTo(cli', q, <<>>)
    <3>1. cli.wpos = 0 /\ q \in CliPhases /\ <<>> \in Seq(Unit)
      BY <1>1, <1>2 DEF Positions, InUpload, CliPhases, ClientTalks, BetweenPhases, FollowsPhase
    <3>2. QED
      BY <1>2, <2>1, <3>1, TookFacts
  <2>5. q \in Idle /\ CountsOn(c, q)
    BY DEF Idle, CountsOn, BeforePings, Pinging, InUpload
  <2>6. /\ Typed' /\ Positions' /\ Counters' /\ Clocks'
        /\ Quiet(Idle, sp)'
    BY <1>1, <1>2, <1>3, <2>2, <2>3, <2>4, <2>5, AllHeard
  <2>7. QED
    BY <2>6 DEF SessionInv, Scene
<1>11. QED
  BY <1>9, <1>10

TimePhases == {"GetChunksSendTime", "PingSendTime", "GetTimeSendTime"}

\* What a reader that looks for TIME and ACCEPT finds in buf, of which Rest follows.
TimeFound(buf, rest, text) ==
    IF Len(buf) = Len(text)
    THEN /\ Contains(buf, Accept) /\ EndsWith(buf, Accept) /\ 1 \in LinesOf("TIME", buf)
         /\ rest = <<>> /\ srv.phase = "AcceptCommandReceive"
    ELSE ~Contains(buf, Accept) /\ ~EndsWith(buf, Accept)

LEMMA TimeIsHeard ==
    ASSUME SessionInv, NEW q \in TimePhases, NEW c, Answering(c, TimeText, TimeSaid(q)),
           NEW data \in Pieces(toClient, Cap)
    PROVE  /\ Heard(TimeText, TimeSaid(q)[srv.phase] + srv.wpos, cli.got \o data,
                    Rest(toClient, data))
           /\ TimeFound(cli.got \o data, Rest(toClient, data), TimeText)
<1> DEFINE buf  == cli.got \o data
           rest == Rest(toClient, data)
<1>1. Typed /\ srv.time \in {0, 1} /\ Cap \in Nat
  BY Parts, Bounds DEF SessionInv
<1>2. PICK text : text = TimeText
  OBVIOUS
<1>3. /\ text \in Seq(Unit) /\ Len(text) = 4 /\ EndsOnce(text, Accept)
      /\ text[1].of = "TIME" /\ text[1].at = 1 /\ text[2].at = 2
  BY <1>1, <1>2, TimeTextFacts DEF TimePhases
<1>4. Answering(c, text, TimeSaid(q))
  BY <1>2
<1>5. srv.phase \in DOMAIN TimeSaid(q) /\ srv.wpos \in Nat /\ srv.wpos < 2
  <2>1. PICK said : said = TimeSaid(q)
    OBVIOUS
  <2>2. DOMAIN said \cap SendsChunks = {}
    BY <2>1 DEF TimePhases, TimeSaid, SendsChunks
  <2>3. QED
    BY <1>4, <2>1, <2>2, WithinText
<1>6. PICK m \in Nat : m = TimeSaid(q)[srv.phase] + srv.wpos
  BY <1>5, AllSaid DEF TimePhases
<1>7. Heard(text, m, buf, rest)
  BY <1>1, <1>3, <1>4, <1>6, CliHears
<1> HIDE DEF buf, rest
<1>8. /\ EndsWith(buf, Accept) <=> Len(buf) = Len(text)
      /\ Contains(buf, Accept) <=> Len(buf) = Len(text)
  BY <1>3, <1>7, LastLineFound DEF Heard, EndsOnce
<1>9. ASSUME Len(buf) = Len(text)
      PROVE  1 \in LinesOf("TIME", buf) /\ rest = <<>> /\ srv.phase = "AcceptCommandReceive"
  <2>1. rest = <<>> /\ m = 4
    BY <1>3, <1>7, <1>9 DEF Heard
  <2>2. \A i \in 1..4 : buf[i] = text[i]
    BY <1>3, <1>7, <1>9 DEF Heard, StartOf
  <2>3. buf[1] = text[1] /\ buf[1 + 1] = text[2] /\ 1 \in 1..(Len(buf) - 1)
    BY <1>3, <1>9, <2>2
  <2>4. 1 \in LinesOf("TIME", buf)
    BY <1>3, <2>3 DEF LinesOf
  <2>5. srv.phase = "AcceptCommandReceive"
    BY <1>5, <1>6, <2>1, AllSaid DEF TimePhases
  <2>6. QED
    BY <2>1, <2>4, <2>5
<1>10. TimeFound(buf, rest, text)
  BY <1>8, <1>9 DEF TimeFound
<1>11. QED
  BY <1>2, <1>6, <1>7, <1>10 DEF buf, rest

\* A reader of TIME and ACCEPT has not got all of it.
LEMMA PartOfTime ==
    ASSUME SessionInv, UNCHANGED <<srv, toServer, gone>>, splitOk' \in BOOLEAN,
           NEW q \in TimePhases, NEW c, c \notin InUpload,
           Answering(c, TimeText, TimeSaid(q)), NEW data,
           Heard(TimeText, TimeSaid(q)[srv.phase] + srv.wpos, cli.got \o data,
                 Rest(toClient, data)),
           Len(cli.got \o data) # Len(TimeText),
           toClient' = Rest(toClient, data), cli' = Kept(data)
    PROVE  /\ Typed' /\ Positions' /\ Counters' /\ Clocks'
           /\ Answering(c, TimeText, TimeSaid(q))'
<1>1. PICK text : text = TimeText
  OBVIOUS
<1>2. PICK said : said = TimeSaid(q)
  OBVIOUS
<1>3. PICK m : m = said[srv.phase] + srv.wpos
  OBVIOUS
<1>4. /\ Answering(c, text, said) /\ Len(cli.got \o data) # Len(text)
      /\ Heard(text, m, cli.got \o data, Rest(toClient, data))
  BY <1>1, <1>2, <1>3
<1>5. /\ Typed' /\ Positions' /\ Counters' /\ Clocks'
      /\ Answering(c, text, said)'
  BY <1>3, <1>4, PartHeard
<1>6. TimeText' = text /\ TimeSaid(q)' = said
  BY <1>1, <1>2 DEF TimeText, TimeSaid
<1>7. Answering(c, TimeText, TimeSaid(q))'
  BY <1>5, <1>6 DEF Answering
<1>8. QED
  BY <1>5, <1>7

LEMMA GetTimeTimeIsHeard ==
    ASSUME SessionInv, client_get_time_receive_time, UNCHANGED srv
    PROVE  SessionInv'
<1> DEFINE c  == "GetTimeReceiveTime"
           p  == "GetTimeSendTime"
           q  == "GetTimeCompleted"
           sp == "AcceptCommandReceive"
<1>1. PICK data \in Pieces(toClient, Cap) :
          /\ toClient' = Rest(toClient, data) /\ UNCHANGED <<toServer, gone>>
          /\ splitOk' = (splitOk \/ (CutsOk(data) /\ c = "PerfReceiveOk"))
          /\ cli' = DownloadTimeRead(data)
          /\ cli.phase = c
  BY DEF client_get_time_receive_time, CliReads, On
<1>2. /\ Typed /\ Positions /\ Scene /\ cli \in CliState(cli.up) /\ toClient \in Seq(Unit)
      /\ splitOk' \in BOOLEAN
  BY <1>1, Parts DEF SessionInv, Typed
<1>3. Answering(c, TimeText, TimeSaid(p))
  <2>1. toClient # <<>>
    BY <1>2, PiecesOfSome, Bounds
  <2>2. QED
    BY <1>1, <1>2, <2>1, CliScene
<1>4. /\ Heard(TimeText, TimeSaid(p)[srv.phase] + srv.wpos, cli.got \o data,
               Rest(toClient, data))
      /\ TimeFound(cli.got \o data, Rest(toClient, data), TimeText)
  BY <1>3, TimeIsHeard DEF TimePhases
<1>5. CASE Len(cli.got \o data) # Len(TimeText)
  <2>1. cli' = Kept(data) /\ c \notin InUpload /\ p \in TimePhases
    BY <1>1, <1>4, <1>5 DEF TimeFound, DownloadTimeRead, InUpload, TimePhases
  <2>2. /\ Typed' /\ Positions' /\ Counters' /\ Clocks'
        /\ Answering(c, TimeText, TimeSaid(p))'
    BY <1>1, <1>2, <1>3, <1>4, <1>5, <2>1, PartOfTime
  <2>3. QED
    BY <2>2 DEF SessionInv, Scene
<1>6. CASE Len(cli.got \o data) = Len(TimeText)
  <2>1. PICK got : got = cli.got \o data
    OBVIOUS
  <2>2. /\ cli' = [cli EXCEPT !.phase = q, !.got = got]
        /\ toClient' = <<>> /\ srv.phase = sp /\ got \in Seq(Unit)
    BY <1>1, <1>4, <1>6, <2>1 DEF TimeFound, DownloadTimeRead, Heard
  <2>3. GoesTo(cli', q, got)
    <3>1. cli.wpos = 0 /\ q \in CliPhases
      BY <1>1, <1>2 DEF Positions, InUpload, CliPhases, BetweenPhases, FollowsPhase
    <3>2. QED
      BY <1>2, <2>2, <3>1, TookFacts
  <2>4. q \in Idle /\ CountsOn(c, q)
    BY DEF Idle, CountsOn, BeforePings, Pinging, InUpload
  <2>5. /\ Typed' /\ Positions' /\ Counters' /\ Clocks'
        /\ Quiet(Idle, sp)'
    <3>1. PICK text : text = TimeText
      OBVIOUS
    <3>2. PICK said : said = TimeSaid(p)
      OBVIOUS
    <3>3. Answering(c, text, said)
      BY <1>3, <3>1, <3>2
    <3>4. QED
      BY <1>1, <1>2, <2>2, <2>3, <2>4, <3>3, AllHeard
  <2>6. QED
    BY <2>5 DEF SessionInv, Scene
<1>7. QED
  BY <1>5, <1>6

LEMMA PongIsHeard ==
    ASSUME SessionInv, client_ping_receive_pong, UNCHANGED srv
    PROVE  SessionInv'
<1> DEFINE c     == "PingReceivePong"
           q     == "PingSendOk"
           sp    == "PingReceiveOk"
           line  == Line("PONG", <<>>)
           space == 2 - Len(cli.got)
<1>1. PICK data \in Pieces(toClient, space) :
          /\ toClient' = Rest(toClient, data) /\ UNCHANGED <<toServer, gone>>
          /\ splitOk' = (splitOk \/ (CutsOk(data) /\ c = "PerfReceiveOk"))
          /\ cli' = IF Len(cli.got \o data) = 2
                    THEN [cli EXCEPT !.phase = q, !.got = <<>>] ELSE Kept(data)
          /\ cli.phase = c
  BY DEF client_ping_receive_pong, CliReads, PongRead, On
<1>2. /\ Typed /\ Positions /\ Scene /\ cli \in CliState(cli.up) /\ toClient \in Seq(Unit)
      /\ splitOk' \in BOOLEAN /\ cli.got \in Seq(Unit)
  BY <1>1, Parts DEF SessionInv, Typed
<1>3. PICK room \in Int : room = space
  <2>1. Len(cli.got) \in Nat
    BY <1>2
  <2>2. space \in Int
    BY <2>1
  <2> HIDE DEF space
  <2>3. QED
    BY <2>2
<1>4. data \in Pieces(toClient, room)
  BY <1>3
<1>5. Answering(c, line, PongSaid)
  <2>1. toClient # <<>>
    BY <1>2, <1>4, PiecesOfSome
  <2>2. QED
    BY <1>1, <1>2, <2>1, CliScene
<1>6. line \in Seq(Unit) /\ Len(line) = 2
  BY PongTextFacts
<1>7. room \in Nat
  <2>1. Len(cli.got) < 2 /\ Len(cli.got) \in Nat
    BY <1>2, <1>5, <1>6 DEF Answering, Hears
  <2>2. QED
    BY <1>3, <2>1
<1>8. srv.phase \in DOMAIN PongSaid /\ srv.wpos \in Nat /\ srv.wpos < 2
  <2>1. DOMAIN PongSaid \cap SendsChunks = {}
    BY DEF PongSaid, SendsChunks
  <2>2. QED
    BY <1>5, <2>1, WithinText
<1>9. PICK m \in Nat : m = PongSaid[srv.phase] + srv.wpos
  BY <1>8, AllSaid
<1> HIDE DEF line
<1>10. Heard(line, m, cli.got \o data, Rest(toClient, data))
  BY <1>2, <1>4, <1>5, <1>6, <1>7, <1>9, CliHears
<1>11. CASE Len(cli.got \o data) # 2
  <2>1. cli' = Kept(data) /\ c \notin InUpload /\ Len(cli.got \o data) # Len(line)
    BY <1>1, <1>6, <1>11 DEF InUpload
  <2>2. /\ Typed' /\ Positions' /\ Counters' /\ Clocks'
        /\ Answering(c, line, PongSaid)'
    BY <1>1, <1>2, <1>5, <1>9, <1>10, <2>1, PartHeard
  <2>3. QED
    BY <2>2 DEF SessionInv, Scene, line
<1>12. CASE Len(cli.got \o data) = 2
  <2>1. cli' = [cli EXCEPT !.phase = q, !.got = <<>>]
    BY <1>1, <1>12
  <2>2. toClient' = <<>> /\ m = 2
    BY <1>1, <1>6, <1>10, <1>12 DEF Heard
  <2>3. srv.phase = sp
    BY <1>8, <1>9, <2>2, AllSaid
  <2>4. GoesTo(cli', q, <<>>)
    <3>1. cli.wpos = 0 /\ q \in CliPhases /\ <<>> \in Seq(Unit)
      BY <1>1, <1>2 DEF Positions, InUpload, CliPhases, ClientTalks
    <3>2. QED
      BY <1>2, <2>1, <3>1, TookFacts
  <2>5. q \in {"PingSendOk"} /\ CountsOn(c, q)
    BY DEF CountsOn, BeforePings, Pinging, InUpload
  <2>6. /\ Typed' /\ Positions' /\ Counters' /\ Clocks'
        /\ Quiet({"PingSendOk"}, sp)'
    BY <1>1, <1>2, <1>5, <2>2, <2>3, <2>4, <2>5, AllHeard
  <2>7. QED
    BY <2>6 DEF SessionInv, Scene
<1>13. QED
  BY <1>11, <1>12

\* The client counts, or asks for more chunks, or for larger ones, and is the next to speak.
LEMMA CountsThen ==
    ASSUME SessionInv, UNCHANGED <<srv, toServer, gone>>, splitOk' \in BOOLEAN,
           NEW c, c \notin InUpload, NEW text, NEW said, Answering(c, text, said),
           toClient' = <<>>, srv.phase = "AcceptCommandReceive",
           cli' \in CliState(cli'.up), cli'.phase \in Idle, cli'.wpos = 0, cli'.got = <<>>,
           cli'.sent = cli.sent, cli'.total \in 1..(2 * MaxChunksBefore - 1),
           cli'.pings <= MaxPings, cli'.phase \in BeforePings => cli'.pings = 0,
           cli'.phase \in Pinging => cli'.pings < MaxPings
    PROVE  SessionInv'
<1>1. /\ Typed /\ Positions /\ Counters /\ Clocks
      /\ cli.phase = c /\ toServer = <<>> /\ srv.got = <<>>
  BY DEF SessionInv, Answering
<1>2. <<>> \in Seq(Unit) /\ Len(<<>>) <= Cap
  BY Bounds
<1>3. toServer' = <<>> /\ toClient' = <<>>
  BY <1>1
<1>4. Typed'
  BY <1>1, <1>2, <1>3 DEF Typed
<1>5. Positions'
  BY <1>1, Bounds DEF Positions
<1>6. Counters'
  BY <1>1 DEF Counters
<1>7. Clocks'
  BY <1>1 DEF Clocks, InUpload
<1>8. Quiet(Idle, "AcceptCommandReceive")'
  BY <1>1, <1>3 DEF Quiet
<1>9. QED
  BY <1>4, <1>5, <1>6, <1>7, <1>8 DEF SessionInv, Scene

LEMMA PingTimeIsHeard ==
    ASSUME SessionInv, client_ping_receive_time, UNCHANGED srv
    PROVE  SessionInv'
<1> DEFINE c  == "PingReceiveTime"
           p  == "PingSendTime"
           sp == "AcceptCommandReceive"
           next(over) == IF ~over /\ cli.pings + 1 < MaxPings
                         THEN "PingSendPing" ELSE "PingCompleted"
           fin(over)  == [cli EXCEPT !.pings = cli.pings + 1, !.got = <<>>, !.phase = next(over)]
<1>1. PICK over \in BOOLEAN, data \in Pieces(toClient, Cap) :
          /\ toClient' = Rest(toClient, data) /\ UNCHANGED <<toServer, gone>>
          /\ splitOk' = (splitOk \/ (CutsOk(data) /\ c = "PerfReceiveOk"))
          /\ cli' = IF ~(EndsWith(cli.got \o data, Accept)
                         /\ LinesOf("TIME", cli.got \o data) # {})
                    THEN Kept(data) ELSE fin(over)
          /\ cli.phase = c
  BY DEF client_ping_receive_time, CliReads, On
<1>2. /\ Typed /\ Positions /\ Counters /\ Scene /\ cli \in CliState(cli.up)
      /\ toClient \in Seq(Unit) /\ splitOk' \in BOOLEAN
  BY <1>1, Parts DEF SessionInv, Typed
<1>3. Answering(c, TimeText, TimeSaid(p))
  <2>1. toClient # <<>>
    BY <1>2, PiecesOfSome, Bounds
  <2>2. QED
    BY <1>1, <1>2, <2>1, CliScene
<1>4. /\ Heard(TimeText, TimeSaid(p)[srv.phase] + srv.wpos, cli.got \o data,
               Rest(toClient, data))
      /\ TimeFound(cli.got \o data, Rest(toClient, data), TimeText)
  BY <1>3, TimeIsHeard DEF TimePhases
<1> HIDE DEF fin
<1>5. CASE Len(cli.got \o data) # Len(TimeText)
  <2>1. cli' = Kept(data) /\ c \notin InUpload /\ p \in TimePhases
    BY <1>1, <1>4, <1>5 DEF TimeFound, InUpload, TimePhases
  <2>2. /\ Typed' /\ Positions' /\ Counters' /\ Clocks'
        /\ Answering(c, TimeText, TimeSaid(p))'
    BY <1>1, <1>2, <1>3, <1>4, <1>5, <2>1, PartOfTime
  <2>3. QED
    BY <2>2 DEF SessionInv, Scene
<1>6. CASE Len(cli.got \o data) = Len(TimeText)
  <2>1. /\ cli' = fin(over) /\ toClient' = <<>> /\ srv.phase = sp
    BY <1>1, <1>4, <1>6 DEF TimeFound
  <2>2. /\ cli.pings \in Nat /\ cli.pings + 1 \in Nat /\ MaxPings \in Nat
        /\ cli.pings < MaxPings /\ <<>> \in Seq(Unit) /\ cli.wpos = 0
        /\ cli.total \in 1..(2 * MaxChunksBefore - 1)
    BY <1>1, <1>2, ClientAssumption
       DEF CliState, Counters, Pinging, Positions, InUpload
  <2>3. PICK q \in {"PingSendPing", "PingCompleted"} : q = next(over)
    OBVIOUS
  <2>4. q = "PingSendPing" => cli.pings + 1 < MaxPings
    BY <2>3
  <2> HIDE DEF next
  <2>5. fin(over) = [cli EXCEPT !.pings = cli.pings + 1, !.got = <<>>, !.phase = q]
    BY <2>3 DEF fin
  <2>6. q \in CliPhases
    BY DEF CliPhases, ClientTalks, BetweenPhases, FollowsPhase
  <2> DEFINE s == [cli EXCEPT !.pings = cli.pings + 1, !.got = <<>>, !.phase = q]
  <2>7. s \in CliState(cli.up)
    BY <1>2, <2>2, <2>6 DEF CliState, CliPhases
  <2>8. /\ s.pings = cli.pings + 1 /\ s.got = <<>> /\ s.phase = q
    BY <1>2 DEF CliState
  <2>9. s.wpos = cli.wpos /\ s.sent = cli.sent /\ s.total = cli.total /\ s.up = cli.up
    BY <1>2 DEF CliState
  <2> HIDE DEF s
  <2>10. cli' = s
    BY <2>1, <2>5 DEF s
  <2>11. /\ cli' \in CliState(cli'.up) /\ cli'.phase \in Idle /\ cli'.wpos = 0
         /\ cli'.got = <<>> /\ cli'.sent = cli.sent
         /\ cli'.total \in 1..(2 * MaxChunksBefore - 1)
    BY <2>2, <2>7, <2>8, <2>9, <2>10 DEF Idle
  <2>12. cli'.pings <= MaxPings
    BY <2>2, <2>8, <2>10
  <2>13. /\ cli'.phase \in BeforePings => cli'.pings = 0
         /\ cli'.phase \in Pinging => cli'.pings < MaxPings
    BY <2>4, <2>8, <2>10 DEF BeforePings, Pinging
  <2>14. PICK text : text = TimeText
    OBVIOUS
  <2>15. PICK said : said = TimeSaid(p)
    OBVIOUS
  <2>16. Answering(c, text, said) /\ c \notin InUpload
    BY <1>3, <2>14, <2>15 DEF InUpload
  <2>17. QED
    BY <1>1, <1>2, <2>1, <2>11, <2>12, <2>13, <2>16, CountsThen
<1>7. QED
  BY <1>5, <1>6

\* What a short time asks for, in all but the phase: the next number or size of chunks.
LEMMA MoreIsAsked ==
    ASSUME cli \in CliState(cli.up), cli.total \in 1..(2 * MaxChunksBefore - 1),
           cli.size < MaxChunk
    PROVE  /\ increase_chunk_size \in CliState(cli.up)
           /\ increase_chunk_size.total \in 1..(2 * MaxChunksBefore - 1)
           /\ increase_chunk_size.pings = cli.pings /\ increase_chunk_size.sent = cli.sent
           /\ increase_chunk_size.up = cli.up
<1>1. MaxChunksBefore \in Nat /\ cli.total \in Nat /\ cli.size \in Stored
  BY ClientAssumption DEF CliState
<1>2. CASE cli.total < MaxChunksBefore
  <2> DEFINE s == [cli EXCEPT !.total = cli.total * 2]
  <2>1. increase_chunk_size = s
    BY <1>2 DEF increase_chunk_size
  <2>2. cli.total * 2 \in Nat /\ cli.total * 2 \in 1..(2 * MaxChunksBefore - 1)
    <3>1. ASSUME NEW t \in Nat, NEW m \in Nat, t >= 1, t < m
          PROVE  t * 2 \in Nat /\ t * 2 \in 1..(2 * m - 1)
      BY <3>1
    <3>2. cli.total >= 1
      BY <1>1
    <3>3. QED
      BY <1>1, <1>2, <3>1, <3>2
  <2>3. s \in CliState(cli.up)
    BY <2>2 DEF CliState
  <2>4. /\ s.total = cli.total * 2 /\ s.pings = cli.pings /\ s.sent = cli.sent
        /\ s.up = cli.up
    BY DEF CliState
  <2> HIDE DEF s
  <2>5. QED
    BY <2>1, <2>2, <2>3, <2>4
<1>3. CASE ~(cli.total < MaxChunksBefore)
  <2> DEFINE n == Least(cli.size * 2, MaxChunk)
             s == [cli EXCEPT !.size = n]
  <2>1. increase_chunk_size = s
    BY <1>3 DEF increase_chunk_size
  <2>2. n \in Stored
    <3>1. cli.size \in Nat /\ (2 * cli.size <= MaxChunk => 2 * cli.size \in Stored)
      BY <1>1, StoredFacts
    <3>2. cli.size * 2 = 2 * cli.size /\ MaxChunk \in Nat
      BY <3>1, Bounds
    <3>3. CASE cli.size * 2 < MaxChunk
      <4>1. n = 2 * cli.size /\ 2 * cli.size <= MaxChunk
        BY <3>1, <3>2, <3>3 DEF Least
      <4>2. QED
        BY <3>1, <4>1
    <3>4. CASE ~(cli.size * 2 < MaxChunk)
      BY <3>4, SessionAssumption DEF Least
    <3>5. QED
      BY <3>3, <3>4
  <2> HIDE DEF n
  <2>3. s \in CliState(cli.up)
    BY <2>2 DEF CliState
  <2>4. s.total = cli.total /\ s.pings = cli.pings /\ s.sent = cli.sent /\ s.up = cli.up
    BY DEF CliState
  <2> HIDE DEF s
  <2>5. QED
    BY <2>1, <2>3, <2>4
<1>4. QED
  BY <1>2, <1>3

LEMMA GetChunksTimeIsHeard ==
    ASSUME SessionInv, client_get_chunks_receive_time, UNCHANGED srv
    PROVE  SessionInv'
<1> DEFINE c  == "GetChunksReceiveTime"
           p  == "GetChunksSendTime"
           q  == "GetChunksSendChunksCommand"
           e  == "GetChunksCompleted"
           sp == "AcceptCommandReceive"
           s  == increase_chunk_size
           again == [s EXCEPT !.phase = q, !.got = <<>>, !.wpos = 0]
<1>1. PICK data \in Pieces(toClient, Cap) :
          /\ toClient' = Rest(toClient, data) /\ UNCHANGED <<toServer, gone>>
          /\ splitOk' = (splitOk \/ (CutsOk(data) /\ c = "PerfReceiveOk"))
          /\ cli' = TimeRead(data)
          /\ cli.phase = c
  BY DEF client_get_chunks_receive_time, CliReads, On
<1>2. /\ Typed /\ Positions /\ Counters /\ Scene /\ cli \in CliState(cli.up)
      /\ toClient \in Seq(Unit) /\ splitOk' \in BOOLEAN
  BY <1>1, Parts DEF SessionInv, Typed
<1>3. Answering(c, TimeText, TimeSaid(p))
  <2>1. toClient # <<>>
    BY <1>2, PiecesOfSome, Bounds
  <2>2. QED
    BY <1>1, <1>2, <2>1, CliScene
<1>4. /\ Heard(TimeText, TimeSaid(p)[srv.phase] + srv.wpos, cli.got \o data,
               Rest(toClient, data))
      /\ TimeFound(cli.got \o data, Rest(toClient, data), TimeText)
  BY <1>3, TimeIsHeard DEF TimePhases
<1>5. CASE Len(cli.got \o data) # Len(TimeText)
  <2>1. cli' = Kept(data) /\ c \notin InUpload /\ p \in TimePhases
    BY <1>1, <1>4, <1>5 DEF TimeFound, TimeRead, InUpload, TimePhases
  <2>2. /\ Typed' /\ Positions' /\ Counters' /\ Clocks'
        /\ Answering(c, TimeText, TimeSaid(p))'
    BY <1>1, <1>2, <1>3, <1>4, <1>5, <2>1, PartOfTime
  <2>3. QED
    BY <2>2 DEF SessionInv, Scene
<1>6. CASE Len(cli.got \o data) = Len(TimeText)
  <2>1. /\ toClient' = <<>> /\ srv.phase = sp
        /\ \/ cli.size < MaxChunk /\ cli' = again
           \/ cli' = CliAnew(e)
    BY <1>1, <1>4, <1>6 DEF TimeFound, TimeRead
  <2>2. cli.pings = 0 /\ cli.total \in 1..(2 * MaxChunksBefore - 1) /\ cli.pings <= MaxPings
    BY <1>1, <1>2, ClientAssumption DEF Counters, BeforePings
  <2>3. ASSUME cli' \in CliState(cli'.up), cli'.phase \in {q, e}, cli'.wpos = 0,
               cli'.got = <<>>, cli'.sent = cli.sent, cli'.pings = cli.pings,
               cli'.total \in 1..(2 * MaxChunksBefore - 1)
        PROVE  SessionInv'
    <3>1. cli'.phase \in Idle /\ cli'.phase \notin Pinging /\ c \notin InUpload
      BY <2>3 DEF Idle, Pinging, InUpload
    <3>2. PICK text : text = TimeText
      OBVIOUS
    <3>3. PICK said : said = TimeSaid(p)
      OBVIOUS
    <3>4. Answering(c, text, said)
      BY <1>3, <3>2, <3>3
    <3>5. cli'.pings = 0 /\ cli'.pings <= MaxPings
      BY <2>2, <2>3
    <3>6. QED
      BY <1>1, <1>2, <2>1, <2>3, <3>1, <3>4, <3>5, CountsThen
  <2>4. CASE cli.size < MaxChunk /\ cli' = again
    <3>1. /\ s \in CliState(cli.up) /\ s.total \in 1..(2 * MaxChunksBefore - 1)
          /\ s.pings = cli.pings /\ s.sent = cli.sent /\ s.up = cli.up
      BY <1>2, <2>2, <2>4, MoreIsAsked
    <3> HIDE DEF s
    <3>2. <<>> \in Seq(Unit) /\ q \in CliPhases
      BY DEF CliPhases, ClientTalks
    <3>3. again \in CliState(cli.up)
      BY <3>1, <3>2 DEF CliState, CliPhases
    <3>4. again.phase = q /\ again.got = <<>> /\ again.wpos = 0
      BY <3>1 DEF CliState
    <3>5. /\ again.total = s.total /\ again.pings = s.pings /\ again.sent = s.sent
          /\ again.up = s.up
      BY <3>1 DEF CliState
    <3> HIDE DEF again
    <3>6. QED
      BY <2>3, <2>4, <3>1, <3>3, <3>4, <3>5
  <2>5. CASE cli' = CliAnew(e)
    <3>1. e \in CliPhases
      BY DEF CliPhases, BetweenPhases, FollowsPhase
    <3>2. GoesTo(cli', e, <<>>)
      BY <1>2, <2>5, <3>1, CliAnewGoes
    <3>3. /\ cli' \in CliState(cli'.up) /\ cli'.phase = e /\ cli'.wpos = 0 /\ cli'.got = <<>>
          /\ cli'.sent = cli.sent /\ cli'.pings = cli.pings /\ cli'.total = cli.total
      BY <3>2 DEF GoesTo
    <3>4. QED
      BY <2>2, <2>3, <3>3
  <2>6. QED
    BY <2>1, <2>4, <2>5
<1>7. QED
  BY <1>5, <1>6
-----------------------------------------------------------------------------
(* The client reads chunks.                                                *)

\* The client has `chunk` now of the chunks, all of one or a part, and `rest` is on the way.
Took(chunk, rest, size, w, ended) ==
    /\ chunk \in Seq(Unit) /\ rest \in Seq(Unit) /\ Len(rest) <= Cap
    /\ Len(chunk) < size \/ Len(chunk) = size
    /\ Len(chunk) < size => Chunked(chunk \o rest, size, w, ended)
    /\ Len(chunk) = size =>
          /\ LastOf(chunk).of \in {"00", "FF"}
          /\ LastOf(chunk).of = "FF" => rest = <<>> /\ ended
          /\ LastOf(chunk).of = "00" => Chunked(rest, size, w, ended)

LEMMA ChunkIsTook ==
    ASSUME NEW size \in Nat, NEW got \in Seq(Unit), Len(got) < size,
           NEW ch \in Seq(Unit), Len(ch) <= Cap, NEW space \in Int, space = size - Len(got),
           NEW data \in Pieces(ch, space), NEW w \in Nat, NEW ended \in BOOLEAN,
           Chunked(got \o ch, size, w, ended)
    PROVE  Took(got \o data, Rest(ch, data), size, w, ended) /\ ch # <<>>
<1> DEFINE chunk == got \o data
           X     == got \o ch
           R     == Rest(ch, data)
<1>1. PartOfChunk(got, ch, data, size) /\ ch # <<>>
  BY ReadsChunk
<1>2. /\ chunk \in Seq(Unit) /\ Len(chunk) \in Nat /\ Len(chunk) <= size
      /\ R \in Seq(Unit) /\ Len(R) <= Len(ch) /\ chunk \o R = X
      /\ Len(chunk) = size => /\ size <= Len(X) /\ Len(R) = Len(X) - size
                             /\ LastOf(chunk) = X[size]
                             /\ \A i \in 1..Len(R) : R[i] = X[size + i]
  BY <1>1 DEF PartOfChunk
<1>3. X \in Seq(Unit)
  BY JoinOf
<1>4. Chunked(X, size, w, ended)
  OBVIOUS
<1> HIDE DEF chunk, X, R
<1>5. Len(R) <= Cap
  BY <1>2, Bounds
<1>6. Len(chunk) < size \/ Len(chunk) = size
  <2>1. ASSUME NEW n \in Nat, n <= size
        PROVE  n < size \/ n = size
    BY <2>1
  <2>2. QED
    BY <1>2, <2>1
<1>7. ASSUME Len(chunk) = size
      PROVE  /\ LastOf(chunk).of \in {"00", "FF"}
             /\ LastOf(chunk).of = "FF" => R = <<>> /\ ended
             /\ LastOf(chunk).of = "00" => Chunked(R, size, w, ended)
  <2>1. /\ size <= Len(X) /\ Len(R) = Len(X) - size /\ LastOf(chunk) = X[size]
        /\ \A i \in 1..Len(R) : R[i] = X[size + i]
    BY <1>2, <1>7
  <2>2. /\ X[size].of \in {"00", "FF"}
        /\ X[size].of = "FF" => ended /\ Len(X) = size /\ w = 0
        /\ X[size].of = "00" => Chunked(R, size, w, ended)
    BY <1>2, <1>3, <1>4, <2>1, HearingChunk
  <2>3. Len(X) = size => R = <<>>
    <3>1. Len(X) = size => Len(R) = 0
      BY <2>1
    <3>2. QED
      BY <1>2, <3>1
  <2>4. QED
    BY <2>1, <2>2, <2>3
<1>8. Took(chunk, R, size, w, ended)
  BY <1>2, <1>4, <1>5, <1>6, <1>7 DEF Took
<1>9. QED
  BY <1>1, <1>8 DEF chunk, R

\* So the client that downloads.
LEMMA DownloadTook ==
    ASSUME SessionInv, NEW c, NEW a, NEW b, NEW ok, Downloading(c, a, b, ok),
           NEW ended \in BOOLEAN, ended = (srv.phase = ok),
           NEW data \in Pieces(toClient, cli.size - Len(cli.got))
    PROVE  Took(cli.got \o data, Rest(toClient, data), cli.size, srv.wpos, ended)
<1>1. /\ cli.got \in Seq(Unit) /\ toClient \in Seq(Unit) /\ Len(toClient) <= Cap
      /\ srv.wpos \in Nat /\ cli.size \in Stored
  BY Parts DEF SessionInv
<1>2. cli.size \in Nat
  BY <1>1, StoredFacts
<1>3. PICK room \in Int : room = cli.size - Len(cli.got)
  <2>1. Len(cli.got) \in Nat
    BY <1>1
  <2>2. cli.size - Len(cli.got) \in Int
    BY <1>2, <2>1
  <2>3. QED
    BY <2>2
<1>4. data \in Pieces(toClient, room)
  BY <1>3
<1>5. Len(cli.got) < cli.size /\ Chunked(cli.got \o toClient, cli.size, srv.wpos, ended)
  BY DEF Downloading
<1>6. QED
  BY <1>1, <1>2, <1>3, <1>4, <1>5, ChunkIsTook

\* It goes on with part of a chunk, or none.
LEMMA DownloadGoesOn ==
    ASSUME SessionInv, UNCHANGED <<srv, toServer, gone>>, splitOk' \in BOOLEAN,
           NEW c, NEW a, NEW b, NEW ok, Downloading(c, a, b, ok), c \notin InUpload,
           toClient' \in Seq(Unit), Len(toClient') <= Cap,
           NEW got, GoesTo(cli', c, got), Len(got) < cli.size,
           NEW ended, ended = (srv.phase = ok),
           Chunked(got \o toClient', cli.size, srv.wpos, ended)
    PROVE  /\ Typed' /\ Positions' /\ Counters' /\ Clocks'
           /\ Downloading(c, a, b, ok)'
<1>1. /\ cli.phase = c /\ srv.phase \in {a, b, ok} /\ toServer = <<>> /\ srv.got = <<>>
      /\ srv.size = cli.size
  BY DEF Downloading
<1>2. CountsOn(cli.phase, c)
  BY <1>1 DEF CountsOn
<1>3. toServer' \in Seq(Unit) /\ Len(toServer') <= Cap
  BY <1>1, Bounds
<1>4. Typed' /\ Positions' /\ Counters' /\ Clocks'
  BY <1>2, <1>3, CliGoes
<1>5. cli'.phase = c /\ cli'.got = got /\ cli'.size = cli.size
  BY DEF GoesTo
<1>6. (srv'.phase = ok) = ended /\ srv'.wpos = srv.wpos
  OBVIOUS
<1>7. Downloading(c, a, b, ok)'
  BY <1>1, <1>5, <1>6 DEF Downloading
<1>8. QED
  BY <1>4, <1>7

\* It has the last chunk, and is the next to speak.
LEMMA DownloadEnds ==
    ASSUME SessionInv, UNCHANGED <<srv, toServer, gone>>, splitOk' \in BOOLEAN,
           NEW c, NEW a, NEW b, NEW ok, Downloading(c, a, b, ok), srv.phase = ok,
           toClient' = <<>>, NEW q, CountsOn(c, q), NEW got, GoesTo(cli', q, got),
           got = <<>> \/ q = "GetTimeSendOk"
    PROVE  /\ Typed' /\ Positions' /\ Counters' /\ Clocks'
           /\ Quiet({q}, ok)'
<1>1. cli.phase = c /\ toServer = <<>> /\ srv.got = <<>>
  BY DEF Downloading
<1>2. toServer' = <<>> /\ toClient' = <<>> /\ <<>> \in Seq(Unit) /\ Len(<<>>) <= Cap
  BY <1>1, Bounds
<1>3. Typed' /\ Positions' /\ Counters' /\ Clocks'
  BY <1>1, <1>2, CliGoes
<1>4. cli'.phase = q /\ cli'.got = got
  BY DEF GoesTo
<1>5. Quiet({q}, ok)'
  BY <1>1, <1>2, <1>4 DEF Quiet
<1>6. QED
  BY <1>3, <1>5

LEMMA GetChunksChunkIsTaken ==
    ASSUME SessionInv, client_get_chunks_receive_chunk, UNCHANGED srv
    PROVE  SessionInv'
<1> DEFINE c  == "GetChunksReceiveChunk"
           a  == "GetChunkSendChunk"
           b  == "GetChunksSendChunksLast"
           ok == "GetChunksReceiveOK"
           q  == "GetChunksSendOk"
<1>1. PICK data \in Pieces(toClient, cli.size - Len(cli.got)) :
          /\ toClient' = Rest(toClient, data) /\ UNCHANGED <<toServer, gone>>
          /\ splitOk' = (splitOk \/ (CutsOk(data) /\ c = "PerfReceiveOk"))
          /\ cli' = ChunkRead(data)
          /\ cli.phase = c
  BY DEF client_get_chunks_receive_chunk, CliReads, On
<1>2. /\ Typed /\ Positions /\ Scene /\ cli \in CliState(cli.up) /\ toClient \in Seq(Unit)
      /\ splitOk' \in BOOLEAN /\ cli.got \in Seq(Unit) /\ cli.size \in Stored
  BY <1>1, Parts DEF SessionInv, Typed
<1>3. cli.wpos = 0 /\ cli.size \in Nat /\ cli.size >= 2
  <2>1. cli.size \in Nat /\ MinChunk <= cli.size
    BY <1>2, StoredFacts
  <2>2. cli.size >= 2
    BY <2>1, Bounds
  <2>3. QED
    BY <1>1, <1>2, <2>1, <2>2 DEF Positions, InUpload
<1>4. Downloading(c, a, b, ok)
  <2>1. PICK room \in Int : room = cli.size - Len(cli.got)
    <3>1. Len(cli.got) \in Nat
      BY <1>2
    <3>2. cli.size - Len(cli.got) \in Int
      BY <1>3, <3>1
    <3>3. QED
      BY <3>2
  <2>2. data \in Pieces(toClient, room)
    BY <2>1
  <2>3. toClient # <<>>
    BY <1>2, <2>2, PiecesOfSome
  <2>4. QED
    BY <1>1, <1>2, <2>3, CliScene
<1>5. PICK ended \in BOOLEAN : ended = (srv.phase = ok)
  OBVIOUS
<1>6. Took(cli.got \o data, Rest(toClient, data), cli.size, srv.wpos, ended)
  BY <1>4, <1>5, DownloadTook
<1>7. PICK chunk : chunk = cli.got \o data
  OBVIOUS
<1>8. /\ Took(chunk, toClient', cli.size, srv.wpos, ended)
      /\ cli' = CASE Len(chunk) = cli.size /\ LastOf(chunk).of = "00" -> [cli EXCEPT !.got = <<>>]
                  [] Len(chunk) = cli.size /\ LastOf(chunk).of = "FF" ->
                        [cli EXCEPT !.phase = q, !.got = <<>>]
                  [] OTHER -> Kept(data)
  BY <1>1, <1>6, <1>7 DEF ChunkRead
<1>9. /\ toClient' \in Seq(Unit) /\ Len(toClient') <= Cap /\ c \notin InUpload
      /\ chunk \in Seq(Unit)
  BY <1>8 DEF Took, InUpload
<1>10. CASE Len(chunk) < cli.size
  <2>1. cli' = Kept(data)
    <3>1. ASSUME NEW m \in Nat, NEW n \in Nat, m < n
          PROVE  m # n
      BY <3>1
    <3>2. Len(chunk) \in Nat
      BY <1>9
    <3>3. Len(chunk) # cli.size
      BY <1>3, <1>10, <3>1, <3>2
    <3>4. QED
      BY <1>8, <3>3
  <2>2. GoesTo(cli', c, chunk)
    BY <1>1, <1>2, <1>3, <1>7, <1>9, <2>1, KeptGoes
  <2>3. Chunked(chunk \o toClient', cli.size, srv.wpos, ended)
    BY <1>8, <1>10 DEF Took
  <2>4. Typed' /\ Positions' /\ Counters' /\ Clocks' /\ Downloading(c, a, b, ok)'
    BY <1>1, <1>2, <1>4, <1>5, <1>9, <1>10, <2>2, <2>3, DownloadGoesOn
  <2>5. QED
    BY <2>4 DEF SessionInv, Scene
<1>11. CASE Len(chunk) = cli.size /\ LastOf(chunk).of = "00"
  <2>1. cli' = [cli EXCEPT !.phase = c, !.got = <<>>]
    <3>1. [cli EXCEPT !.got = <<>>] = [cli EXCEPT !.phase = c, !.got = <<>>]
      BY <1>1, <1>2 DEF CliState
    <3>2. QED
      BY <1>8, <1>11, <3>1
  <2>2. GoesTo(cli', c, <<>>)
    <3>1. <<>> \in Seq(Unit) /\ c \in CliPhases
      BY DEF CliPhases, CliReading
    <3>2. QED
      BY <1>2, <1>3, <2>1, <3>1, TookFacts
  <2>3. <<>> \o toClient' = toClient' /\ Len(<<>>) < cli.size
    BY <1>3, <1>9
  <2>4. Chunked(<<>> \o toClient', cli.size, srv.wpos, ended)
    BY <1>8, <1>11, <2>3 DEF Took
  <2>5. Typed' /\ Positions' /\ Counters' /\ Clocks' /\ Downloading(c, a, b, ok)'
    BY <1>1, <1>2, <1>4, <1>5, <1>9, <2>2, <2>3, <2>4, DownloadGoesOn
  <2>6. QED
    BY <2>5 DEF SessionInv, Scene
<1>12. CASE Len(chunk) = cli.size /\ LastOf(chunk).of = "FF"
  <2>1. cli' = [cli EXCEPT !.phase = q, !.got = <<>>]
    BY <1>8, <1>12
  <2>2. GoesTo(cli', q, <<>>)
    <3>1. <<>> \in Seq(Unit) /\ q \in CliPhases
      BY DEF CliPhases, ClientTalks
    <3>2. QED
      BY <1>2, <1>3, <2>1, <3>1, TookFacts
  <2>3. toClient' = <<>> /\ srv.phase = ok
    BY <1>5, <1>8, <1>12 DEF Took
  <2>4. CountsOn(c, q)
    BY DEF CountsOn, BeforePings, Pinging, InUpload
  <2>5. Typed' /\ Positions' /\ Counters' /\ Clocks' /\ Quiet({q}, ok)'
    BY <1>1, <1>2, <1>4, <2>2, <2>3, <2>4, DownloadEnds
  <2>6. QED
    BY <2>5 DEF SessionInv, Scene
<1>13. QED
  BY <1>8, <1>10, <1>11, <1>12 DEF Took

LEMMA GetTimeChunkIsTaken ==
    ASSUME SessionInv, client_get_time_receive_chunk, UNCHANGED srv
    PROVE  SessionInv'
<1> DEFINE c  == "GetTimeReceiveChunk"
           a  == "GetTimeSendChunk"
           b  == "GetTimeSendLastChunk"
           ok == "GetTimeReceiveOk"
           q  == "GetTimeSendOk"
<1>1. PICK data \in Pieces(toClient, cli.size - Len(cli.got)) :
          /\ toClient' = Rest(toClient, data) /\ UNCHANGED <<toServer, gone>>
          /\ splitOk' = (splitOk \/ (CutsOk(data) /\ c = "PerfReceiveOk"))
          /\ cli' = DownloadRead(data)
          /\ cli.phase = c
  BY DEF client_get_time_receive_chunk, CliReads, On
<1>2. /\ Typed /\ Positions /\ Scene /\ cli \in CliState(cli.up) /\ toClient \in Seq(Unit)
      /\ splitOk' \in BOOLEAN /\ cli.got \in Seq(Unit) /\ cli.size \in Stored
  BY <1>1, Parts DEF SessionInv, Typed
<1>3. cli.wpos = 0 /\ cli.size \in Nat /\ cli.size >= 2
  <2>1. cli.size \in Nat /\ MinChunk <= cli.size
    BY <1>2, StoredFacts
  <2>2. cli.size >= 2
    BY <2>1, Bounds
  <2>3. QED
    BY <1>1, <1>2, <2>1, <2>2 DEF Positions, InUpload
<1>4. Downloading(c, a, b, ok)
  <2>1. PICK room \in Int : room = cli.size - Len(cli.got)
    <3>1. Len(cli.got) \in Nat
      BY <1>2
    <3>2. cli.size - Len(cli.got) \in Int
      BY <1>3, <3>1
    <3>3. QED
      BY <3>2
  <2>2. data \in Pieces(toClient, room)
    BY <2>1
  <2>3. toClient # <<>>
    BY <1>2, <2>2, PiecesOfSome
  <2>4. QED
    BY <1>1, <1>2, <2>3, CliScene
<1>5. PICK ended \in BOOLEAN : ended = (srv.phase = ok)
  OBVIOUS
<1>6. Took(cli.got \o data, Rest(toClient, data), cli.size, srv.wpos, ended)
  BY <1>4, <1>5, DownloadTook
<1>7. PICK chunk : chunk = cli.got \o data
  OBVIOUS
<1>8. /\ Took(chunk, toClient', cli.size, srv.wpos, ended)
      /\ cli' = IF Len(chunk) < cli.size THEN Kept(data)
                ELSE IF LastOf(chunk).of = "FF"
                THEN [cli EXCEPT !.down = 1, !.phase = q, !.got = chunk]
                ELSE [cli EXCEPT !.down = 1, !.got = <<>>]
  BY <1>1, <1>6, <1>7 DEF DownloadRead
<1>9. /\ toClient' \in Seq(Unit) /\ Len(toClient') <= Cap /\ c \notin InUpload
      /\ chunk \in Seq(Unit)
  BY <1>8 DEF Took, InUpload
<1>10. ASSUME NEW r \in CliPhases, NEW g \in Seq(Unit)
       PROVE  GoesTo([cli EXCEPT !.down = 1, !.phase = r, !.got = g], r, g)
  <2> DEFINE s == [cli EXCEPT !.down = 1, !.phase = r, !.got = g]
  <2>1. s \in CliState(cli.up)
    BY <1>2 DEF CliState, CliPhases
  <2>2. s.phase = r /\ s.got = g /\ s.wpos = 0
    BY <1>2, <1>3 DEF CliState
  <2>3. /\ s.size = cli.size /\ s.total = cli.total /\ s.pings = cli.pings
        /\ s.sent = cli.sent /\ s.up = cli.up
    BY <1>2 DEF CliState
  <2> HIDE DEF s
  <2>4. GoesTo(s, r, g)
    BY <2>1, <2>2, <2>3 DEF GoesTo
  <2>5. QED
    BY <2>4 DEF s
<1>11. CASE Len(chunk) < cli.size
  <2>1. GoesTo(cli', c, chunk)
    BY <1>1, <1>2, <1>3, <1>7, <1>8, <1>9, <1>11, KeptGoes
  <2>2. Chunked(chunk \o toClient', cli.size, srv.wpos, ended)
    BY <1>8, <1>11 DEF Took
  <2>3. Typed' /\ Positions' /\ Counters' /\ Clocks' /\ Downloading(c, a, b, ok)'
    BY <1>1, <1>2, <1>4, <1>5, <1>9, <1>11, <2>1, <2>2, DownloadGoesOn
  <2>4. QED
    BY <2>3 DEF SessionInv, Scene
<1>12. Len(chunk) = cli.size => ~(Len(chunk) < cli.size)
  BY <1>3
<1>13. CASE Len(chunk) = cli.size /\ LastOf(chunk).of = "00"
  <2>1. cli' = [cli EXCEPT !.down = 1, !.phase = c, !.got = <<>>]
    <3>1. [cli EXCEPT !.down = 1, !.got = <<>>]
             = [cli EXCEPT !.down = 1, !.phase = c, !.got = <<>>]
      BY <1>1, <1>2 DEF CliState
    <3>2. LastOf(chunk).of # "FF"
      BY <1>13
    <3>3. QED
      BY <1>8, <1>12, <1>13, <3>1, <3>2
  <2>2. GoesTo(cli', c, <<>>)
    <3>1. <<>> \in Seq(Unit) /\ c \in CliPhases
      BY DEF CliPhases, CliReading
    <3>2. QED
      BY <1>10, <2>1, <3>1
  <2>3. <<>> \o toClient' = toClient' /\ Len(<<>>) < cli.size
    BY <1>3, <1>9
  <2>4. Chunked(<<>> \o toClient', cli.size, srv.wpos, ended)
    BY <1>8, <1>13, <2>3 DEF Took
  <2>5. Typed' /\ Positions' /\ Counters' /\ Clocks' /\ Downloading(c, a, b, ok)'
    BY <1>1, <1>2, <1>4, <1>5, <1>9, <2>2, <2>3, <2>4, DownloadGoesOn
  <2>6. QED
    BY <2>5 DEF SessionInv, Scene
<1>14. CASE Len(chunk) = cli.size /\ LastOf(chunk).of = "FF"
  <2>1. cli' = [cli EXCEPT !.down = 1, !.phase = q, !.got = chunk]
    BY <1>8, <1>12, <1>14
  <2>2. GoesTo(cli', q, chunk)
    <3>1. q \in CliPhases
      BY DEF CliPhases, ClientTalks
    <3>2. QED
      BY <1>9, <1>10, <2>1, <3>1
  <2>3. toClient' = <<>> /\ srv.phase = ok
    BY <1>5, <1>8, <1>14 DEF Took
  <2>4. CountsOn(c, q)
    BY DEF CountsOn, BeforePings, Pinging, InUpload
  <2>5. Typed' /\ Positions' /\ Counters' /\ Clocks' /\ Quiet({q}, ok)'
    BY <1>1, <1>2, <1>4, <2>2, <2>3, <2>4, DownloadEnds
  <2>6. QED
    BY <2>5 DEF SessionInv, Scene
<1>15. QED
  BY <1>8, <1>11, <1>13, <1>14 DEF Took

\* The OK to the upload is taken whole, or in two pieces and then never.
LEMMA UploadOkIsTaken ==
    ASSUME SessionInv, client_put_time_result_receive_ok, UNCHANGED srv
    PROVE  SessionInv'
<1> DEFINE c == "PerfReceiveOk"
           q == "PerfSendChunks"
<1>1. PICK data \in Pieces(toClient, 2) :
          /\ toClient' = Rest(toClient, data) /\ UNCHANGED <<toServer, gone>>
          /\ splitOk' = (splitOk \/ (CutsOk(data) /\ c = "PerfReceiveOk"))
          /\ cli' = PerfOkRead(data)
          /\ cli.phase = c
  BY DEF client_put_time_result_receive_ok, CliReads, On
<1>2. /\ Typed /\ Positions /\ Counters /\ Scene /\ cli \in CliState(cli.up)
      /\ toClient \in Seq(Unit) /\ Len(toClient) <= Cap
      /\ splitOk' \in BOOLEAN /\ cli.got \in Seq(Unit) /\ cli.size \in Stored
  BY <1>1, Parts DEF SessionInv, Typed
<1>3. cli.wpos = 0 /\ cli.sent = 0 /\ srv.points = 0
  BY <1>1, <1>2 DEF Positions, Counters, InUpload
<1>4. UploadBegins
  <2>1. toClient # <<>>
    BY <1>2, PiecesOfSome
  <2>2. QED
    BY <1>1, <1>2, <2>1, CliScene
<1>5. toClient # <<>> /\ srv.phase = "PutTimeResultReceiveChunk"
      /\ toServer = <<>> /\ srv.got = <<>> /\ cli.got = <<>> /\ srv.size = cli.size
      /\ (toClient = OK \/ (splitOk /\ Len(toClient) <= 1))
  <2>1. toClient # <<>>
    BY <1>2, PiecesOfSome
  <2>2. QED
    BY <1>4, <2>1 DEF UploadBegins
<1>6. OK \in Seq(Unit) /\ Len(OK) = 2 /\ Len(<<>>) <= Cap /\ <<>> \in Seq(Unit)
  <2>1. OK \in Seq(Unit) /\ Len(OK) = 2
    BY LineFacts, NoArg DEF OK, Words
  <2>2. QED
    BY <2>1, Bounds
<1>7. /\ data \in Seq(Unit) /\ Len(data) \in 1..2 /\ Len(data) <= Len(toClient)
      /\ \A i \in 1..Len(data) : data[i] = toClient[i]
      /\ toClient' \in Seq(Unit) /\ Len(toClient') = Len(toClient) - Len(data)
  BY <1>1, <1>2, PieceFacts
<1>8. Len(toClient') <= Cap /\ toServer' \in Seq(Unit) /\ Len(toServer') <= Cap
  <2>1. Len(toClient) \in Nat
    BY <1>2
  <2>2. ASSUME NEW n \in Nat, n <= Cap, NEW d \in 1..2
        PROVE  n - d <= Cap
    BY <2>2, Bounds
  <2>3. QED
    BY <1>1, <1>2, <1>5, <1>6, <1>7, <2>1, <2>2
<1>9. CASE data = OK
  <2>1. cli' = [cli EXCEPT !.phase = q, !.got = <<>>]
    BY <1>1, <1>9 DEF PerfOkRead
  <2>2. GoesTo(cli', q, <<>>)
    <3>1. q \in CliPhases
      BY DEF CliPhases, ClientTalks
    <3>2. QED
      BY <1>2, <1>3, <1>6, <2>1, <3>1, TookFacts
  <2>3. CountsOn(cli.phase, q)
    BY <1>1 DEF CountsOn, BeforePings, Pinging, InUpload
  <2>4. Typed' /\ Positions' /\ Counters' /\ Clocks'
    BY <1>1, <1>2, <1>7, <1>8, <2>2, <2>3, CliGoes
  <2>5. toClient' = <<>>
    <3>1. Len(data) = 2 /\ Len(toClient) \in Nat
      BY <1>2, <1>6, <1>9
    <3>2. Len(toClient) = 2
      <4>1. CASE toClient = OK
        BY <1>6, <4>1
      <4>2. CASE Len(toClient) <= 1
        <5>1. 2 <= Len(toClient)
          BY <1>7, <3>1
        <5>2. QED
          BY <3>1, <4>2, <5>1
      <4>3. QED
        BY <1>5, <4>1, <4>2
    <3>3. Len(toClient') = 0
      BY <1>7, <3>1, <3>2
    <3>4. QED
      BY <1>7, <3>3
  <2>6. /\ cli'.phase = q /\ cli'.got = <<>> /\ cli'.wpos = 0 /\ cli'.size = cli.size
        /\ cli'.sent = 0
    BY <1>3, <2>2 DEF GoesTo
  <2>7. srv'.size \in Nat /\ srv'.size > 0
    <3>1. srv'.size = cli.size
      BY <1>5
    <3>2. cli.size \in Nat /\ MinChunk <= cli.size
      BY <1>2, StoredFacts
    <3>3. cli.size > 0
      BY <3>2, Bounds
    <3>4. QED
      BY <3>1, <3>2, <3>3
  <2>8. Chunked(<<>>, srv'.size, 0, FALSE)
    BY <2>7, NoChunkYet
  <2>9. /\ srv'.got \o toServer' = <<>> /\ srv'.points = 0 /\ srv'.got = <<>>
        /\ (0 - 0) * srv'.size + 0 = 0 /\ Len(<<>>) = 0
    <3>1. srv'.got = <<>> /\ toServer' = <<>> /\ srv'.points = 0
      BY <1>1, <1>3, <1>5
    <3>2. ASSUME NEW n \in Nat
          PROVE  (0 - 0) * n + 0 = 0
      OBVIOUS
    <3>3. QED
      BY <2>7, <3>1, <3>2
  <2>10. UnderWay(<<>>, srv'.size, 0, FALSE, 0, 0)
    <3>1. PICK n \in Nat : n = srv'.size
      BY <2>7
    <3>2. Chunked(<<>>, n, 0, FALSE)
      BY <2>8, <3>1
    <3>3. Len(<<>>) = (0 - 0) * n + 0 /\ 0 <= 0
      <4>1. (0 - 0) * n + 0 = 0 /\ Len(<<>>) = 0 /\ 0 <= 0
        OBVIOUS
      <4>2. QED
        BY <4>1
    <3>4. UnderWay(<<>>, n, 0, FALSE, 0, 0)
      BY <3>2, <3>3 DEF UnderWay
    <3>5. QED
      BY <3>1, <3>4
  <2>11. Uploading'
    <3>1. (cli'.phase = "PerfReceiveTime") = FALSE
      BY <2>6
    <3>2. (IF cli'.phase = "PerfReceiveTime" THEN 0 ELSE cli'.wpos) = 0
      BY <2>6
    <3>3. Len(srv'.got) < srv'.size /\ srv'.size = cli'.size
      BY <1>5, <2>6, <2>7, <2>9
    <3>4. QED
      BY <1>5, <2>5, <2>6, <2>9, <2>10, <3>1, <3>2, <3>3 DEF Uploading
  <2>12. QED
    BY <2>4, <2>11 DEF SessionInv, Scene
<1>10. CASE data # OK
  <2>1. UNCHANGED cli
    BY <1>1, <1>10 DEF PerfOkRead
  <2>2. Typed' /\ Positions' /\ Counters' /\ Clocks'
    BY <1>1, <1>2, <1>7, <1>8, <2>1
       DEF SessionInv, Typed, Positions, Counters, Clocks
  <2>3. splitOk' /\ Len(toClient') <= 1
    <3>1. CASE splitOk /\ Len(toClient) <= 1
      <4>1. ASSUME NEW n \in Nat, n <= 1, NEW d \in 1..2
            PROVE  n - d <= 1
        BY <4>1
      <4>2. Len(toClient) \in Nat
        BY <1>2
      <4>3. QED
        BY <1>1, <1>7, <3>1, <4>1, <4>2
    <3>2. CASE toClient = OK
      <4>1. Len(data) = 1
        <5>1. Len(data) # 2
          <6>1. SUFFICES ASSUME Len(data) = 2
                         PROVE  FALSE
            OBVIOUS
          <6>2. \A i \in 1..2 : data[i] = OK[i]
            BY <1>7, <3>2, <6>1
          <6>3. data = OK
            BY <1>6, <1>7, <6>1, <6>2, SeqEqual
          <6>4. QED
            BY <1>10, <6>3
        <5>2. QED
          BY <1>7, <5>1
      <4>2. LastOf(data) = OK[1]
        BY <1>7, <3>2, <4>1 DEF LastOf
      <4>3. Len(toClient') = 1
        BY <1>6, <1>7, <3>2, <4>1
      <4>4. CutsOk(data)
        BY <4>2 DEF CutsOk
      <4>5. splitOk'
        <5>1. splitOk' = (splitOk \/ (CutsOk(data) /\ TRUE))
          BY <1>1
        <5>2. QED
          BY <4>4, <5>1
      <4>6. QED
        BY <4>3, <4>5
    <3>3. QED
      BY <1>5, <3>1, <3>2
  <2>4. UploadBegins'
    BY <1>1, <1>4, <1>5, <2>1, <2>3 DEF UploadBegins
  <2>5. QED
    BY <2>2, <2>4 DEF SessionInv, Scene
<1>11. QED
  BY <1>9, <1>10
-----------------------------------------------------------------------------
(* The client sends chunks.                                                *)

\* The client with n units of a chunk written.
CliUpto(n) == [cli EXCEPT !.wpos = n]

\* What one turn of a handler that writes the chunk with `last` leads to: `fin` when all
\* of the chunk is written.
UploadWent(fin, last) ==
    /\ toServer' \in Seq(Unit) /\ Len(toServer') <= Cap
    /\ \/ /\ cli' = fin
          /\ UnderWay(srv.got \o toServer', cli.size, 0, last, cli.sent + 1, srv.points)
       \/ \E n \in Nat :
             /\ n < cli.size /\ cli' = CliUpto(n)
             /\ UnderWay(srv.got \o toServer', cli.size, n, FALSE, cli.sent, srv.points)

\* k units more of a chunk of which w are there.
LEMMA OneMoreChunk ==
    ASSUME NEW size \in Nat, NEW sent \in Nat, NEW points \in Nat, points <= sent,
           NEW w \in Nat, NEW k \in Nat, NEW n \in Nat, n = (sent - points) * size + w
    PROVE  /\ n + k = (sent - points) * size + (w + k)
           /\ w + k = size => n + k = (sent + 1 - points) * size + 0
           /\ points <= sent + 1
<1>1. PICK d \in Nat : d = sent - points
  <2>1. sent - points \in Nat
    OBVIOUS
  <2>2. QED
    BY <2>1
<1>2. sent + 1 - points = d + 1 /\ points <= sent + 1
  BY <1>1
<1>3. (d + 1) * size = d * size + size /\ d * size \in Nat
  OBVIOUS
<1>4. n = d * size + w
  BY <1>1
<1>5. PICK m \in Nat : m = d * size
  BY <1>3
<1>6. n + k = m + (w + k)
  BY <1>4, <1>5
<1>7. w + k = size => n + k = (d + 1) * size + 0
  <2>1. w + k = size => n + k = m + size
    BY <1>6
  <2>2. (d + 1) * size = m + size /\ (d + 1) * size + 0 = (d + 1) * size
    BY <1>3, <1>5
  <2>3. QED
    BY <2>1, <2>2
<1>8. n + k = (sent - points) * size + (w + k)
  BY <1>1, <1>5, <1>6
<1>9. QED
  BY <1>2, <1>7, <1>8

\* Of Y, which has k units more of a chunk of which w were there.
MoreIsThere(Y, size, w, k, last, sent, points) ==
    /\ Chunked(Y, size, w + k, FALSE) => UnderWay(Y, size, w + k, FALSE, sent, points)
    /\ w + k = size /\ Chunked(Y, size, 0, last) =>
          UnderWay(Y, size, 0, last, sent + 1, points)

LEMMA MoreUnderWay ==
    ASSUME NEW size \in Nat, NEW sent \in Nat, NEW points \in Nat, NEW w \in Nat,
           NEW X \in Seq(Unit), UnderWay(X, size, w, FALSE, sent, points),
           NEW k \in Nat, NEW Y \in Seq(Unit), Len(Y) = Len(X) + k, NEW last
    PROVE  MoreIsThere(Y, size, w, k, last, sent, points)
<1>1. PICK n \in Nat : n = Len(X)
  OBVIOUS
<1>2. points <= sent /\ n = (sent - points) * size + w
  BY <1>1 DEF UnderWay
<1>3. /\ n + k = (sent - points) * size + (w + k)
      /\ w + k = size => n + k = (sent + 1 - points) * size + 0
      /\ points <= sent + 1
  BY <1>2, OneMoreChunk
<1>4. Len(Y) = n + k
  BY <1>1
<1>5. Chunked(Y, size, w + k, FALSE) => UnderWay(Y, size, w + k, FALSE, sent, points)
  <2>1. Len(Y) = (sent - points) * size + (w + k)
    BY <1>3, <1>4
  <2>2. QED
    BY <1>2, <2>1 DEF UnderWay
<1>6. w + k = size /\ Chunked(Y, size, 0, last) => UnderWay(Y, size, 0, last, sent + 1, points)
  <2>1. w + k = size => Len(Y) = (sent + 1 - points) * size + 0
    BY <1>3, <1>4
  <2>2. QED
    BY <1>3, <2>1 DEF UnderWay
<1>7. QED
  BY <1>5, <1>6 DEF MoreIsThere

LEMMA UploadSaid ==
    ASSUME SessionInv, UNCHANGED srv, NEW p \in {"PerfSendChunks", "PerfSendLastChunk"},
           NEW last \in BOOLEAN, NEW fin, CliWrites(p, Chunk(cli.size, last), fin)
    PROVE  Uploading /\ cli.phase = p /\ UploadWent(fin, last)
           /\ UNCHANGED <<toClient, gone, splitOk>>
<1> DEFINE w    == cli.wpos
           size == cli.size
           got  == srv.got
           ch   == toServer
           out  == Taken(ch, Chunk(size, last), w)
<1>1. Typed /\ Scene /\ cli.phase = p
  BY DEF SessionInv, CliWrites, On
<1>2. Uploading
  BY <1>1, CliScene
<1>3. /\ size \in Stored /\ w \in Nat /\ got \in Seq(Unit) /\ ch \in Seq(Unit)
      /\ Len(ch) <= Cap /\ cli.sent \in Nat /\ srv.points \in Nat
  BY <1>1, Parts DEF Typed, SrvState, CliState
<1>4. UnderWay(got \o ch, size, w, FALSE, cli.sent, srv.points)
  <2>1. (cli.phase = "PerfReceiveTime") = FALSE
    BY <1>1
  <2>2. srv.size = cli.size
    BY <1>2 DEF Uploading
  <2>3. (IF cli.phase = "PerfReceiveTime" THEN 0 ELSE cli.wpos) = w
    BY <2>1
  <2>4. QED
    BY <1>2, <2>1, <2>2, <2>3 DEF Uploading
<1>5. /\ out # <<>> /\ toServer' = ch \o out
      /\ cli' = IF w + Len(out) = Len(Chunk(size, last)) THEN fin
                ELSE [cli EXCEPT !.wpos = w + Len(out)]
      /\ UNCHANGED <<toClient, gone, splitOk>>
  BY DEF CliWrites
<1>6. size \in Nat
  BY <1>3, StoredFacts
<1>7. Len(Chunk(size, last)) = size
  BY <1>6, ChunkFacts
<1> HIDE DEF w, size, got, ch
<1>8. Chunked(got \o ch, size, w, FALSE)
  BY <1>4 DEF UnderWay
<1>9. /\ ch \o out \in Seq(Unit) /\ Len(ch \o out) <= Cap /\ Len(out) \in Nat
      /\ out \in Seq(Unit)
      /\ IF w + Len(out) = size THEN Chunked(got \o (ch \o out), size, 0, last)
         ELSE w + Len(out) < size /\ Chunked(got \o (ch \o out), size, w + Len(out), FALSE)
  BY <1>3, <1>5, <1>8, ChunkOnTheWay
<1> HIDE DEF out
<1>10. PICK X \in Seq(Unit) : X = got \o ch
  BY <1>3, JoinOf
<1>11. PICK Y \in Seq(Unit) : Y = got \o toServer' /\ Y = X \o out
  <2>1. X \o out = got \o (ch \o out) /\ X \o out \in Seq(Unit)
    BY <1>3, <1>9, <1>10, JoinThree, JoinOf
  <2>2. QED
    BY <1>5, <2>1
<1>12. PICK k \in Nat : k = Len(out)
  BY <1>9
<1>13. MoreIsThere(Y, size, w, k, last, cli.sent, srv.points)
  <2>1. Len(Y) = Len(X) + k
    BY <1>9, <1>11, <1>12, JoinOf
  <2>2. UnderWay(X, size, w, FALSE, cli.sent, srv.points)
    BY <1>4, <1>10
  <2>3. QED
    BY <1>3, <1>6, <2>1, <2>2, MoreUnderWay
<1>14. CASE w + k = size
  <2>1. UnderWay(Y, size, 0, last, cli.sent + 1, srv.points)
    BY <1>5, <1>9, <1>11, <1>12, <1>13, <1>14 DEF MoreIsThere
  <2>2. cli' = fin
    BY <1>5, <1>7, <1>12, <1>14
  <2>3. UploadWent(fin, last)
    BY <1>5, <1>9, <1>11, <2>1, <2>2 DEF UploadWent, got, size
  <2>4. QED
    BY <1>1, <1>2, <1>5, <2>3
<1>15. CASE w + k # size
  <2>1. w + k < size /\ Chunked(Y, size, w + k, FALSE)
    BY <1>5, <1>9, <1>11, <1>12, <1>15
  <2>2. cli' = CliUpto(w + k) /\ w + k \in Nat
    BY <1>3, <1>5, <1>7, <1>12, <1>15 DEF CliUpto
  <2>3. UploadWent(fin, last)
    <3>1. PICK m \in Nat : m = w + k
      BY <2>2
    <3>2. /\ m < size /\ cli' = CliUpto(m)
          /\ UnderWay(Y, size, m, FALSE, cli.sent, srv.points)
      BY <1>13, <2>1, <2>2, <3>1 DEF MoreIsThere
    <3>3. QED
      BY <1>5, <1>9, <1>11, <3>2 DEF UploadWent, got, size
  <2>4. QED
    BY <1>1, <1>2, <1>5, <2>3
<1>16. QED
  BY <1>14, <1>15

LEMMA UploadGoes ==
    ASSUME SessionInv, Uploading, UNCHANGED <<srv, toClient, gone, splitOk>>,
           toServer' \in Seq(Unit), Len(toServer') <= Cap, cli' \in CliState(cli'.up),
           cli'.phase \in {"PerfSendChunks", "PerfSendLastChunk", "PerfReceiveTime"},
           cli'.wpos <= MaxChunk, cli'.got = <<>>, cli'.size = cli.size,
           cli'.total = cli.total, cli'.pings = cli.pings,
           NEW ended, ended = (cli'.phase = "PerfReceiveTime"),
           NEW w, w = IF ended THEN 0 ELSE cli'.wpos,
           UnderWay(srv.got \o toServer', cli.size, w, ended, cli'.sent, srv.points)
    PROVE  SessionInv'
<1>1. Typed /\ Positions /\ Counters
  BY DEF SessionInv
<1>2. /\ srv.phase = "PutTimeResultReceiveChunk" /\ toClient = <<>> /\ srv.size = cli.size
      /\ Len(srv.got) < srv.size
  BY DEF Uploading
<1>3. Typed'
  BY <1>1 DEF Typed
<1>4. Positions'
  BY <1>1 DEF Positions, InUpload
<1>5. Counters'
  BY <1>1 DEF Counters, InUpload, BeforePings, Pinging
<1>6. Clocks'
  BY <1>2 DEF Clocks, SaysHello
<1>7. w = IF cli'.phase = "PerfReceiveTime" THEN 0 ELSE cli'.wpos
  OBVIOUS
<1>8. UnderWay(srv'.got \o toServer', srv'.size,
               IF cli'.phase = "PerfReceiveTime" THEN 0 ELSE cli'.wpos,
               cli'.phase = "PerfReceiveTime", cli'.sent, srv'.points)
  BY <1>2, <1>7
<1>9. Uploading'
  BY <1>2, <1>8 DEF Uploading
<1>10. QED
  BY <1>3, <1>4, <1>5, <1>6, <1>9 DEF SessionInv, Scene

\* The chunk has gone in part: the client goes on in its phase.
LEMMA UploadGoesOn ==
    ASSUME SessionInv, Uploading, UNCHANGED <<srv, toClient, gone, splitOk>>,
           toServer' \in Seq(Unit), Len(toServer') <= Cap,
           cli.phase \in {"PerfSendChunks", "PerfSendLastChunk"},
           NEW n \in Nat, n < cli.size, cli' = CliUpto(n),
           UnderWay(srv.got \o toServer', cli.size, n, FALSE, cli.sent, srv.points)
    PROVE  SessionInv'
<1>1. cli \in CliState(cli.up) /\ cli.size \in Stored /\ cli.got = <<>>
  BY Parts DEF SessionInv, Uploading
<1>2. cli.size \in Nat /\ cli.size <= MaxChunk
  BY <1>1, StoredFacts
<1>3. n <= MaxChunk
  BY <1>2, Bounds
<1>4. CliUpto(n) \in CliState(cli.up)
  BY <1>1 DEF CliState, CliUpto
<1>5. /\ CliUpto(n).phase = cli.phase /\ CliUpto(n).wpos = n /\ CliUpto(n).got = cli.got
      /\ CliUpto(n).size = cli.size /\ CliUpto(n).up = cli.up
      /\ CliUpto(n).total = cli.total /\ CliUpto(n).pings = cli.pings
      /\ CliUpto(n).sent = cli.sent
  BY <1>1 DEF CliState, CliUpto
<1>6. PICK ended \in BOOLEAN : ended = FALSE
  OBVIOUS
<1>7. ended = (cli'.phase = "PerfReceiveTime") /\ n = IF ended THEN 0 ELSE cli'.wpos
  BY <1>5, <1>6
<1>8. UnderWay(srv.got \o toServer', cli.size, n, ended, cli'.sent, srv.points)
  BY <1>5, <1>6
<1>9. /\ cli' \in CliState(cli'.up) /\ cli'.got = <<>> /\ cli'.size = cli.size
      /\ cli'.total = cli.total /\ cli'.pings = cli.pings /\ cli'.wpos <= MaxChunk
      /\ cli'.phase \in {"PerfSendChunks", "PerfSendLastChunk", "PerfReceiveTime"}
  BY <1>1, <1>3, <1>4, <1>5
<1>10. QED
  BY <1>7, <1>8, <1>9, UploadGoes

LEMMA UploadChunkIsSaid ==
    ASSUME SessionInv, client_put_time_result_send_chunks, UNCHANGED srv
    PROVE  SessionInv'
<1> DEFINE p == "PerfSendChunks"
<1>1. PICK over \in BOOLEAN :
         CliWrites(p, Chunk(cli.size, FALSE),
                   [cli EXCEPT !.sent = cli.sent + 1, !.wpos = 0,
                               !.phase = IF over THEN "PerfSendLastChunk" ELSE cli.phase])
  BY DEF client_put_time_result_send_chunks
<1> DEFINE next == IF over THEN "PerfSendLastChunk" ELSE cli.phase
           fin  == [cli EXCEPT !.sent = cli.sent + 1, !.wpos = 0, !.phase = next]
<1>2. PICK last \in BOOLEAN : last = FALSE
  OBVIOUS
<1>3. /\ Uploading /\ cli.phase = p /\ UploadWent(fin, last)
      /\ UNCHANGED <<toClient, gone, splitOk>>
  <2>1. PICK f : f = fin
    OBVIOUS
  <2>2. CliWrites(p, Chunk(cli.size, last), f)
    BY <1>1, <1>2, <2>1
  <2>3. Uploading /\ cli.phase = p /\ UploadWent(f, last) /\ UNCHANGED <<toClient, gone, splitOk>>
    BY <2>2, UploadSaid
  <2>4. QED
    BY <2>1, <2>3
<1>4. toServer' \in Seq(Unit) /\ Len(toServer') <= Cap
  BY <1>3 DEF UploadWent
<1>5. CASE /\ cli' = fin
           /\ UnderWay(srv.got \o toServer', cli.size, 0, last, cli.sent + 1, srv.points)
  <2>1. cli \in CliState(cli.up) /\ cli.got = <<>> /\ cli.sent + 1 \in Nat
    BY <1>3, Parts DEF SessionInv, Uploading, CliState
  <2>2. PICK q \in {"PerfSendChunks", "PerfSendLastChunk"} : q = next
    BY <1>3
  <2>3. fin = [cli EXCEPT !.sent = cli.sent + 1, !.wpos = 0, !.phase = q]
    BY <2>2
  <2> HIDE DEF fin, next
  <2>4. q \in CliPhases
    BY DEF CliPhases, ClientTalks
  <2>5. fin \in CliState(cli.up)
    BY <2>1, <2>3, <2>4 DEF CliState, CliPhases
  <2>6. /\ fin.phase = q /\ fin.wpos = 0 /\ fin.got = cli.got /\ fin.size = cli.size
        /\ fin.up = cli.up /\ fin.total = cli.total /\ fin.pings = cli.pings
        /\ fin.sent = cli.sent + 1
    BY <2>1, <2>3 DEF CliState
  <2>7. PICK w : w = 0
    OBVIOUS
  <2>8. last = (cli'.phase = "PerfReceiveTime") /\ w = IF last THEN 0 ELSE cli'.wpos
    BY <1>2, <1>5, <2>6, <2>7
  <2>9. UnderWay(srv.got \o toServer', cli.size, w, last, cli'.sent, srv.points)
    BY <1>5, <2>6, <2>7
  <2>10. /\ cli' \in CliState(cli'.up) /\ cli'.got = <<>> /\ cli'.size = cli.size
         /\ cli'.total = cli.total /\ cli'.pings = cli.pings /\ cli'.wpos <= MaxChunk
         /\ cli'.phase \in {"PerfSendChunks", "PerfSendLastChunk", "PerfReceiveTime"}
    BY <1>5, <2>1, <2>5, <2>6, Bounds
  <2>11. QED
    BY <1>3, <1>4, <2>8, <2>9, <2>10, UploadGoes
<1>6. CASE \E n \in Nat :
              /\ n < cli.size /\ cli' = CliUpto(n)
              /\ UnderWay(srv.got \o toServer', cli.size, n, FALSE, cli.sent, srv.points)
  BY <1>3, <1>4, <1>6, UploadGoesOn
<1>7. QED
  BY <1>3, <1>5, <1>6 DEF UploadWent

LEMMA UploadLastIsSaid ==
    ASSUME SessionInv, client_put_time_result_send_last_chunk, UNCHANGED srv
    PROVE  SessionInv'
<1> DEFINE p   == "PerfSendLastChunk"
           q   == "PerfReceiveTime"
           fin == [cli EXCEPT !.phase = q, !.wpos = cli.size, !.sent = cli.sent + 1]
<1>1. CliWrites(p, Chunk(cli.size, TRUE), fin)
  BY DEF client_put_time_result_send_last_chunk
<1>2. PICK last \in BOOLEAN : last = TRUE
  OBVIOUS
<1>3. /\ Uploading /\ cli.phase = p /\ UploadWent(fin, last)
      /\ UNCHANGED <<toClient, gone, splitOk>>
  <2>1. PICK f : f = fin
    OBVIOUS
  <2>2. CliWrites(p, Chunk(cli.size, last), f)
    BY <1>1, <1>2, <2>1
  <2>3. Uploading /\ cli.phase = p /\ UploadWent(f, last) /\ UNCHANGED <<toClient, gone, splitOk>>
    BY <2>2, UploadSaid
  <2>4. QED
    BY <2>1, <2>3
<1>4. toServer' \in Seq(Unit) /\ Len(toServer') <= Cap
  BY <1>3 DEF UploadWent
<1>5. CASE /\ cli' = fin
           /\ UnderWay(srv.got \o toServer', cli.size, 0, last, cli.sent + 1, srv.points)
  <2>1. cli \in CliState(cli.up) /\ cli.got = <<>> /\ cli.sent + 1 \in Nat
        /\ cli.size \in Stored
    BY <1>3, Parts DEF SessionInv, Uploading, CliState
  <2>2. cli.size \in Nat /\ cli.size <= MaxChunk /\ q \in CliPhases
    BY <2>1, StoredFacts DEF CliPhases, CliReading
  <2>3. fin \in CliState(cli.up)
    BY <2>1, <2>2 DEF CliState, CliPhases
  <2>4. /\ fin.phase = q /\ fin.wpos = cli.size /\ fin.got = cli.got /\ fin.size = cli.size
        /\ fin.up = cli.up /\ fin.total = cli.total /\ fin.pings = cli.pings
        /\ fin.sent = cli.sent + 1
    BY <2>1 DEF CliState
  <2> HIDE DEF fin
  <2>5. PICK w : w = 0
    OBVIOUS
  <2>6. last = (cli'.phase = "PerfReceiveTime") /\ w = IF last THEN 0 ELSE cli'.wpos
    BY <1>2, <1>5, <2>4, <2>5
  <2>7. UnderWay(srv.got \o toServer', cli.size, w, last, cli'.sent, srv.points)
    BY <1>5, <2>4, <2>5
  <2>8. /\ cli' \in CliState(cli'.up) /\ cli'.got = <<>> /\ cli'.size = cli.size
        /\ cli'.total = cli.total /\ cli'.pings = cli.pings /\ cli'.wpos <= MaxChunk
        /\ cli'.phase \in {"PerfSendChunks", "PerfSendLastChunk", "PerfReceiveTime"}
    BY <1>5, <2>1, <2>2, <2>3, <2>4
  <2>9. QED
    BY <1>3, <1>4, <2>6, <2>7, <2>8, UploadGoes
<1>6. CASE \E n \in Nat :
              /\ n < cli.size /\ cli' = CliUpto(n)
              /\ UnderWay(srv.got \o toServer', cli.size, n, FALSE, cli.sent, srv.points)
  BY <1>3, <1>4, <1>6, UploadGoesOn
<1>7. QED
  BY <1>3, <1>5, <1>6 DEF UploadWent

\* It reads the result, and maybe some of the random bytes behind it.
LEMMA ResultIsHeard ==
    ASSUME SessionInv, client_put_time_result_receive_time, UNCHANGED srv
    PROVE  SessionInv'
<1> DEFINE c == "PerfReceiveTime"
           q == "PerfCompleted"
<1>1. PICK newline \in BOOLEAN, data \in Pieces(toClient, Cap) :
          /\ toClient' = Rest(toClient, data) /\ UNCHANGED <<toServer, gone>>
          /\ splitOk' = (splitOk \/ (CutsOk(data) /\ c = "PerfReceiveOk"))
          /\ cli' = IF EndsLine(cli.result \o data)
                       \/ (newline /\ LastOf(cli.result \o data).of = "body")
                    THEN [cli EXCEPT !.phase = q, !.got = <<>>, !.result = <<>>,
                                     !.up = ParsedPairs(cli.result \o data)]
                    ELSE [cli EXCEPT !.result = cli.result \o data]
          /\ cli.phase = c
  BY DEF client_put_time_result_receive_time, CliReads, On
<1>2. /\ Typed /\ Positions /\ Counters /\ Clocks /\ Scene /\ cli \in CliState(cli.up)
      /\ toClient \in Seq(Unit) /\ Len(toClient) <= Cap /\ splitOk' \in BOOLEAN
  BY <1>1, Parts DEF SessionInv, Typed
<1>3. Reporting /\ cli.result \in Seq(Unit)
  <2>1. toClient # <<>>
    BY <1>2, PiecesOfSome, Bounds
  <2>2. QED
    BY <1>1, <1>2, <2>1, CliScene DEF CliState
<1>4. /\ data \in Seq(Unit) /\ Len(data) \in Nat /\ Len(data) >= 1
      /\ toClient' \in Seq(Unit) /\ Len(toClient') = Len(toClient) - Len(data)
      /\ data \o toClient' = toClient
  <2> DEFINE rest == Rest(toClient, data)
  <2>1. /\ data \in Seq(Unit) /\ Len(data) \in 1..Cap
        /\ rest \in Seq(Unit) /\ Len(rest) = Len(toClient) - Len(data)
        /\ data \o rest = toClient
    BY <1>1, <1>2, PieceFacts, Bounds
  <2>2. toClient' = rest
    BY <1>1
  <2> HIDE DEF rest
  <2>3. QED
    BY <2>1, <2>2, Bounds
<1>5. Len(toClient') <= Cap
  <2>1. Len(toClient) \in Nat
    BY <1>2
  <2>2. ASSUME NEW n \in Nat, n <= Cap, NEW d \in Nat
        PROVE  n - d <= Cap
    BY <2>2, Bounds
  <2>3. QED
    BY <1>2, <1>4, <2>1, <2>2
<1>6. PICK result \in Seq(Unit) : result = cli.result \o data /\ LastOf(result) = LastOf(data)
  <2>1. cli.result \o data \in Seq(Unit)
    BY <1>3, <1>4, JoinOf
  <2>2. LastOf(cli.result \o data) = LastOf(data)
    <3>1. /\ Len(cli.result \o data) = Len(cli.result) + Len(data)
          /\ \A i \in 1..Len(data) : (cli.result \o data)[Len(cli.result) + i] = data[i]
      BY <1>3, <1>4, JoinOf
    <3>2. Len(data) \in 1..Len(data)
      BY <1>4
    <3>3. QED
      BY <3>1, <3>2 DEF LastOf
  <2>3. QED
    BY <2>1, <2>2
<1>7. ASSUME cli' \in CliState(cli'.up), cli'.phase \in {c, q}, cli'.wpos = cli.wpos,
             cli'.total = cli.total, cli'.pings = cli.pings, cli'.sent = cli.sent,
             cli'.phase = c /\ toClient' = <<>> => LastOf(data) # Accept[2]
      PROVE  SessionInv'
  <2>1. Typed'
    BY <1>1, <1>2, <1>4, <1>5, <1>7 DEF Typed
  <2>2. Positions' /\ Counters' /\ Clocks'
    BY <1>1, <1>2, <1>7
       DEF Positions, Counters, Clocks, InUpload, BeforePings, Pinging
  <2>3. ASSUME srv.phase = "AcceptCommandReceive", cli'.phase = c
        PROVE  toClient' # <<>> /\ LastOf(toClient') = Accept[2]
    <3>1. toClient # <<>> /\ LastOf(toClient) = Accept[2]
      BY <1>1, <1>3, <2>3 DEF Reporting
    <3>2. ASSUME toClient' = <<>>
          PROVE  FALSE
      <4>1. data = toClient
        BY <1>4, <3>2
      <4>2. QED
        BY <1>7, <2>3, <3>1, <3>2, <4>1
    <3>3. LastOf(toClient') = LastOf(toClient)
      <4>1. /\ Len(data \o toClient') = Len(data) + Len(toClient')
            /\ \A i \in 1..Len(toClient') : (data \o toClient')[Len(data) + i] = toClient'[i]
        BY <1>4, JoinOf
      <4>2. Len(toClient') \in 1..Len(toClient')
        BY <1>4, <3>2
      <4>3. QED
        BY <1>4, <4>1, <4>2 DEF LastOf
    <3>4. QED
      BY <3>1, <3>2, <3>3
  <2>4. Reporting'
    BY <1>1, <1>3, <1>7, <2>3 DEF Reporting
  <2>5. QED
    BY <2>1, <2>2, <2>4 DEF SessionInv, Scene
<1>8. CASE cli' = [cli EXCEPT !.result = result] /\ ~EndsLine(result)
  <2> DEFINE s == [cli EXCEPT !.result = result]
  <2>1. s \in CliState(cli.up)
    BY <1>2 DEF CliState
  <2>2. /\ s.phase = cli.phase /\ s.wpos = cli.wpos /\ s.total = cli.total
        /\ s.pings = cli.pings /\ s.sent = cli.sent /\ s.up = cli.up
    BY <1>2 DEF CliState
  <2> HIDE DEF s
  <2>3. LastOf(data) # Accept[2]
    <3>1. Accept[2].at = 2
      BY DEF Accept, Line
    <3>2. LastOf(result).at # 2
      <4>1. result # <<>>
        <5>1. Len(cli.result \o data) = Len(cli.result) + Len(data) /\ Len(cli.result) \in Nat
          BY <1>3, <1>4, JoinOf
        <5>2. Len(result) >= 1
          BY <1>4, <1>6, <5>1
        <5>3. QED
          BY <5>2
      <4>2. QED
        BY <1>8, <4>1 DEF EndsLine
    <3>3. QED
      BY <1>6, <3>1, <3>2
  <2>4. QED
    BY <1>1, <1>7, <1>8, <2>1, <2>2, <2>3 DEF s
<1>9. CASE cli' = [cli EXCEPT !.phase = q, !.got = <<>>, !.result = <<>>,
                              !.up = ParsedPairs(result)]
  <2>1. PICK up : up = ParsedPairs(result)
    OBVIOUS
  <2> DEFINE s == [cli EXCEPT !.phase = q, !.got = <<>>, !.result = <<>>, !.up = up]
  <2>2. <<>> \in Seq(Unit) /\ q \in CliPhases
    BY DEF CliPhases, BetweenPhases, FollowsPhase
  <2>3. s \in CliState(up)
    BY <1>2, <2>2 DEF CliState, CliPhases
  <2>4. /\ s.phase = q /\ s.wpos = cli.wpos /\ s.total = cli.total
        /\ s.pings = cli.pings /\ s.sent = cli.sent /\ s.up = up
    BY <1>2 DEF CliState
  <2>5. cli' = s
    BY <1>9, <2>1
  <2> HIDE DEF s
  <2>6. QED
    BY <1>7, <2>3, <2>4, <2>5
<1>10. QED
  BY <1>1, <1>6, <1>8, <1>9
-----------------------------------------------------------------------------
(* From phase to phase, and the end.                                       *)

LEMMA NextPhaseFollows ==
    ASSUME SessionInv, CliNextPhase, UNCHANGED srv
    PROVE  SessionInv'
<1>1. PICK q \in FollowsPhase[cli.phase] :
         /\ cli' = [cli EXCEPT !.phase = q] /\ cli.phase \in BetweenPhases
         /\ UNCHANGED <<toServer, toClient, gone, splitOk>>
  BY DEF CliNextPhase, wire
<1>2. /\ Typed /\ Positions /\ Counters /\ Scene /\ cli \in CliState(cli.up)
      /\ cli.got \in Seq(Unit) /\ toServer \in Seq(Unit) /\ Len(toServer) <= Cap
      /\ toClient \in Seq(Unit) /\ Len(toClient) <= Cap /\ splitOk \in BOOLEAN
  BY Parts DEF SessionInv, Typed
<1>3. \/ cli.phase = "GreetingCompleted" /\ q = "GetChunksSendChunksCommand"
      \/ cli.phase = "GetChunksCompleted" /\ q \in {"PingSendPing", "GetTimeSendCommand"}
      \/ cli.phase = "PingCompleted" /\ q = "GetTimeSendCommand"
      \/ cli.phase = "GetTimeCompleted" /\ q = "PerfSendCommand"
  BY <1>1 DEF BetweenPhases, FollowsPhase
<1>4. Quiet(Idle, "AcceptCommandReceive")
  BY <1>2, <1>3, CliScene DEF Idle
<1>5. GoesTo(cli', q, cli.got)
  <2>1. cli.wpos = 0 /\ q \in CliPhases
    BY <1>2, <1>3 DEF Positions, InUpload, CliPhases, ClientTalks
  <2>2. cli' = [cli EXCEPT !.phase = q, !.got = cli.got]
    BY <1>1, <1>2 DEF CliState
  <2>3. QED
    BY <1>2, <2>1, <2>2, TookFacts
<1>6. CountsOn(cli.phase, q) /\ q \in Idle
  BY <1>3 DEF CountsOn, BeforePings, Pinging, InUpload, Idle
<1>7. Typed' /\ Positions' /\ Counters' /\ Clocks'
  BY <1>1, <1>2, <1>5, <1>6, CliGoes
<1>8. Quiet(Idle, "AcceptCommandReceive")'
  <2>1. cli'.phase = q /\ cli'.got = cli.got
    BY <1>5 DEF GoesTo
  <2>2. q = "PerfSendCommand" \/ cli.got = <<>>
    BY <1>3, <1>4 DEF Quiet
  <2>3. QED
    BY <1>1, <1>4, <1>6, <2>1, <2>2 DEF Quiet
<1>9. QED
  BY <1>7, <1>8 DEF SessionInv, Scene

LEMMA ClientEndsKeeps ==
    ASSUME SessionInv, CliEnds, UNCHANGED srv
    PROVE  SessionInv'
<1>1. /\ Typed /\ Positions /\ Counters /\ Clocks /\ Scene /\ cli \in CliState(cli.up)
  BY Parts DEF SessionInv
<1>2. PICK status \in {"spin", "failed", "closed"} :
         /\ cli' = [cli EXCEPT !.status = status]
         /\ UNCHANGED <<toServer, toClient, splitOk>> /\ gone' \in {gone, gone \cup {"client"}}
  <2>1. CASE CliEof
    BY <2>1 DEF CliEof, wire
  <2>2. CASE CliFails
    BY <2>2 DEF CliFails, wire
  <2>3. CASE CliCloses
    BY <2>3 DEF CliCloses
  <2>4. QED
    BY <2>1, <2>2, <2>3 DEF CliEnds
<1> DEFINE s == [cli EXCEPT !.status = status]
<1>3. s \in CliState(cli.up)
  BY <1>1 DEF CliState
<1>4. /\ s.phase = cli.phase /\ s.got = cli.got /\ s.wpos = cli.wpos /\ s.size = cli.size
      /\ s.total = cli.total /\ s.sent = cli.sent /\ s.pings = cli.pings /\ s.up = cli.up
  BY <1>1 DEF CliState
<1>5. cli' = s
  BY <1>2
<1> HIDE DEF s
<1>6. Typed'
  BY <1>1, <1>2, <1>3, <1>4, <1>5 DEF Typed
<1>7. Positions' /\ Counters' /\ Clocks'
  BY <1>1, <1>4, <1>5 DEF Positions, Counters, Clocks
<1>8. Scene'
  BY <1>1, <1>2, <1>4, <1>5, SceneStays
<1>9. QED
  BY <1>6, <1>7, <1>8 DEF SessionInv

LEMMA SessionStarts ==
    ASSUME Init
    PROVE  SessionInv
<1>1. /\ toServer = <<>> /\ toClient = <<>> /\ gone = {} /\ splitOk = FALSE
      /\ <<>> \in Seq(Unit) /\ Len(<<>>) <= Cap
  BY Bounds DEF Init
<1>2. /\ cli.phase = "GreetingSendConnectionType" /\ cli.got = <<>> /\ cli.wpos = 0
      /\ cli.total = 1 /\ cli.pings = 0 /\ cli.sent = 0
  BY DEF Init, CliInit
<1>3. /\ srv.phase = "GreetingReceiveConnectionType" /\ srv.got = <<>> /\ srv.wpos = 0
      /\ srv.done = 0 /\ srv.clock = "none" /\ srv.points = 0
  BY DEF Init, SrvInit
<1>4. srv \in SrvState
  BY <1>1, Phases DEF Init, SrvInit, SrvState
<1>5. cli \in CliState(cli.up)
  <2>1. "GreetingSendConnectionType" \in CliPhases /\ MinChunk \in Stored
    BY StoredFacts DEF CliPhases, ClientTalks
  <2>2. QED
    BY <1>1, <2>1 DEF Init, CliInit, CliState, CliPhases
<1>6. Typed
  BY <1>1, <1>4, <1>5 DEF Typed
<1>7. Positions
  BY <1>2, <1>3, Bounds DEF Positions
<1>8. Counters
  <2>1. 1 \in 1..(2 * MaxChunksBefore - 1) /\ 0 <= MaxPings /\ 0 < MaxPings
    BY ClientAssumption
  <2>2. QED
    BY <1>2, <1>3, <2>1 DEF Counters
<1>9. Clocks
  BY <1>3 DEF Clocks
<1>10. Quiet({"GreetingSendConnectionType"}, "GreetingReceiveConnectionType")
  BY <1>1, <1>2, <1>3 DEF Quiet
<1>11. QED
  BY <1>6, <1>7, <1>8, <1>9, <1>10 DEF SessionInv, Scene

\* A step of the server.
LEMMA ServerGoes ==
    ASSUME SessionInv, ServerStep
    PROVE  SessionInv'
<1> UNCHANGED cli
  BY DEF ServerStep
<1>1. CASE SrvGreeting
  BY <1>1, ReceiveConnectionType, SendVersion, SendAcceptToken, ReceiveToken, SendTokenOk,
     SendChunksize DEF SrvGreeting
<1>2. CASE SrvCommand
  BY <1>2, SendAccept, ReceiveCommand DEF SrvCommand
<1>3. CASE SrvDownload
  BY <1>3, GetChunksSend, GetChunksNeverPanics, GetChunksSendLast, GetChunksReceiveOk,
     GetChunksSendTime, PongSend, PingReceiveOk, PingSendTime, GetTimeSend, GetTimeWouldBlock,
     GetTimeSendLast, GetTimeReceiveOk, GetTimeSendTime DEF SrvDownload
<1>4. CASE SrvUpload
  BY <1>4, UploadSendOk, UploadReceive, UploadSendTime DEF SrvUpload
<1>5. QED
  BY <1>1, <1>2, <1>3, <1>4 DEF ServerStep

\* A step of the client.
LEMMA ClientGoes ==
    ASSUME SessionInv, ClientStep
    PROVE  SessionInv'
<1> UNCHANGED srv
  BY DEF ClientStep
<1>1. CASE CliGreeting
  BY <1>1, ConnectionTypeIsSaid, GreetingIsHeard, TokenIsSaid, ResponseIsHeard DEF CliGreeting
<1>2. CASE CliDownload
  BY <1>2, GetChunksIsSaid, GetChunksChunkIsTaken, GetChunksOkIsSaid, GetChunksTimeIsHeard,
     PingIsSaid, PongIsHeard, PingOkIsSaid, PingTimeIsHeard,
     GetTimeIsSaid, GetTimeChunkIsTaken, GetTimeOkIsSaid, GetTimeTimeIsHeard DEF CliDownload
<1>3. CASE CliUpload
  BY <1>3, PutIsSaid, UploadOkIsTaken, UploadChunkIsSaid, UploadLastIsSaid, ResultIsHeard
     DEF CliUpload
<1>4. QED
  BY <1>1, <1>2, <1>3, NextPhaseFollows DEF ClientStep

LEMMA SessionGoesOn ==
    ASSUME SessionInv, [Next]_vars
    PROVE  SessionInv'
<1>1. CASE ServerStep
  BY <1>1, ServerGoes
<1>2. CASE ClientStep
  BY <1>2, ClientGoes
<1>3. CASE ServerEnds
  BY <1>3, ServerEndsKeeps DEF ServerEnds
<1>4. CASE ClientEnds
  BY <1>4, ClientEndsKeeps DEF ClientEnds
<1>5. CASE UNCHANGED vars
  <2>1. UNCHANGED <<toServer, toClient, gone, splitOk, srv, cli>>
    BY <1>5 DEF vars, wire
  <2>2. Typed' /\ Positions' /\ Counters' /\ Clocks'
    BY <2>1 DEF SessionInv, Typed, Positions, Counters, Clocks
  <2>3. Scene'
    BY <2>1, SceneStays DEF SessionInv
  <2>4. QED
    BY <2>2, <2>3 DEF SessionInv
<1>6. QED
  BY <1>1, <1>2, <1>3, <1>4, <1>5 DEF Next
-----------------------------------------------------------------------------
(* What the sessions promise.                                              *)

\* The inductive invariant: at any time the session is in one of the scenes of the
\* dialogue, wherever the stream was cut and whoever left.
THEOREM SessionInvHolds == Spec => []SessionInv
<1>1. Init => SessionInv
  BY SessionStarts
<1>2. SessionInv /\ [Next]_vars => SessionInv'
  BY SessionGoesOn
<1>3. QED
  BY <1>1, <1>2, PTL DEF Spec

\* Nothing is ever sent beyond the room there is, and every position stays within what it
\* points into, for every size of the buffers and of the chunks.
THEOREM TypeOKHolds == Spec => []TypeOK
<1>1. SessionInv => TypeOK
  <2>1. ASSUME SessionInv PROVE TypeOK
    <3>1. Typed /\ Positions /\ Counters
      BY <2>1 DEF SessionInv
    <3>2. cli.total < 2 * MaxChunksBefore
      <4>1. MaxChunksBefore \in Nat
        BY ClientAssumption
      <4>2. QED
        BY <3>1, <4>1 DEF Counters
    <3>3. QED
      BY <3>1, <3>2 DEF TypeOK, Typed, Positions, Counters, SrvState, CliState
  <2>2. QED
    BY <2>1
<1>2. QED
  BY <1>1, SessionInvHolds, PTL

\* While both sides take part, a side that has bytes on the way to it finds the other
\* way empty: each scene has bytes on one way only.
THEOREM HalfDuplexHolds == Spec => []HalfDuplex
<1>1. SessionInv => HalfDuplex
  <2>1. ASSUME SessionInv, cli.phase # "PerfCompleted"
        PROVE  toServer = <<>> \/ toClient = <<>>
    <3>1. Scene
      BY <2>1 DEF SessionInv
    <3>2. QED
      BY <2>1, <3>1
         DEF Scene, Quiet, Asked, AskedOk, Answering, Downloading, UploadBegins, Uploading,
             Reporting
  <2>2. QED
    BY <2>1 DEF HalfDuplex
<1>2. QED
  BY <1>1, SessionInvHolds, PTL

\* Both sides wait for each other with nothing on the way only when an awaited OK was cut
\* in two: a text that is not read yet is on the way, or its writer has not ended it.
THEOREM NoStandoffHolds == Spec => []NoStandoff
<1>1. ASSUME SessionInv, cli.phase \in CliReading, srv.phase \in Reading,
             toServer = <<>>, toClient = <<>>
      PROVE  splitOk
  <2>1. Typed /\ Positions /\ Scene /\ srv.wpos = 0
    BY <1>1 DEF SessionInv, Positions, StartsAtFirst
  <2>2. /\ cli.got \in Seq(Unit) /\ srv.got \in Seq(Unit) /\ cli.size \in Nat
        /\ cli.got \o toClient = cli.got /\ srv.got \o toServer = srv.got
    <3>1. cli.got \in Seq(Unit) /\ srv.got \in Seq(Unit) /\ cli.size \in Stored
      BY <2>1, Parts
    <3>2. QED
      BY <1>1, <3>1, StoredFacts
  \* The server has said all of a text, and the client has not read all of it.
  <2>3. ASSUME NEW c, NEW text, NEW said, Answering(c, text, said),
               said[srv.phase] = Len(text), text \in Seq(Unit)
        PROVE  FALSE
    <3>1. StartOf(cli.got, text, said[srv.phase] + srv.wpos) /\ Len(cli.got) < Len(text)
      BY <2>2, <2>3 DEF Answering, Hears
    <3>2. Len(cli.got) = Len(text)
      <4>1. Len(text) + srv.wpos = Len(text)
        BY <2>1, <2>3
      <4>2. QED
        BY <2>3, <3>1, <4>1 DEF StartOf
    <3>3. Len(text) \in Nat
      BY <2>3
    <3>4. QED
      BY <3>1, <3>2, <3>3
  <2>4. ASSUME NEW c, NEW a, NEW b, NEW ok, Downloading(c, a, b, ok), srv.phase = ok
        PROVE  FALSE
    <3>1. (srv.phase = ok) = TRUE
      BY <2>4
    <3>2. Chunked(cli.got, cli.size, srv.wpos, TRUE) /\ Len(cli.got) < cli.size
      BY <2>2, <2>4, <3>1 DEF Downloading
    <3>3. cli.size <= Len(cli.got)
      BY <2>2, <3>2, EndIsWhole
    <3>4. Len(cli.got) \in Nat
      BY <2>2
    <3>5. QED
      BY <2>2, <3>2, <3>3, <3>4
  <2>5. Uploading => FALSE
    <3>1. SUFFICES ASSUME Uploading
                   PROVE  FALSE
      OBVIOUS
    <3>2. (cli.phase = "PerfReceiveTime") = TRUE
      BY <1>1, <3>1 DEF Uploading, CliReading
    <3>3. srv.size = cli.size /\ Len(srv.got) < srv.size
      BY <3>1 DEF Uploading
    <3>4. PICK w : Chunked(srv.got, srv.size, w, TRUE)
      BY <2>2, <3>1, <3>2 DEF Uploading, UnderWay
    <3>5. cli.size <= Len(srv.got)
      BY <2>2, <3>3, <3>4, EndIsWhole
    <3>6. Len(srv.got) \in Nat
      BY <2>2
    <3>7. QED
      BY <2>2, <3>3, <3>5, <3>6
  <2>6. Reporting => FALSE
    BY <1>1 DEF Reporting, CliReading, Reading, SpinsOnEof
  <2>7. ASSUME NEW c, NEW p, AskedOk(c, p)
        PROVE  splitOk
    <3>1. srv.got = OK
      BY <2>2, <2>7 DEF AskedOk
    <3>2. OK # <<>>
      BY OkIsLine
    <3>3. QED
      BY <2>7, <3>1, <3>2 DEF AskedOk
  <2>8. UploadBegins => splitOk
    <3>1. OK # <<>>
      BY OkIsLine
    <3>2. QED
      BY <1>1, <3>1 DEF UploadBegins, Reading, SpinsOnEof
  <2>9. ASSUME NEW c, NEW p, NEW line, Asked(c, p, line)
         PROVE  FALSE
    BY <1>1, <2>9 DEF Asked
  <2>10. ~Answering("GreetingReceiveGreeting", GreetingText, GreetingSaid)
    <3>1. SUFFICES ASSUME Answering("GreetingReceiveGreeting", GreetingText, GreetingSaid)
                   PROVE  FALSE
      OBVIOUS
    <3>2. srv.phase = "GreetingReceiveToken"
      BY <1>1, <3>1 DEF Answering, GreetingSaid, Reading, SpinsOnEof
    <3>3. PICK said : said = GreetingSaid /\ said[srv.phase] = 6
      <4>1. GreetingSaid[srv.phase] = 6
        BY <3>2 DEF GreetingSaid
      <4>2. QED
        BY <4>1
    <3>4. PICK text : text = GreetingText /\ text \in Seq(Unit) /\ Len(text) = 6
      BY GreetingTextFacts
    <3>5. QED
      BY <2>3, <3>1, <3>3, <3>4
  <2>11. ~Answering("GreetingReceiveResponse", ResponseText, ResponseSaid)
    <3>1. SUFFICES ASSUME Answering("GreetingReceiveResponse", ResponseText, ResponseSaid)
                   PROVE  FALSE
      OBVIOUS
    <3>2. srv.phase = "AcceptCommandReceive"
      BY <1>1, <3>1 DEF Answering, ResponseSaid, Reading, SpinsOnEof
    <3>3. PICK said : said = ResponseSaid /\ said[srv.phase] = 6
      <4>1. ResponseSaid[srv.phase] = 6
        BY <3>2 DEF ResponseSaid
      <4>2. QED
        BY <4>1
    <3>4. PICK text : text = ResponseText /\ text \in Seq(Unit) /\ Len(text) = 6
      BY ResponseTextFacts
    <3>5. QED
      BY <2>3, <3>1, <3>3, <3>4
  <2>12. ~Answering("PingReceivePong", Line("PONG", <<>>), PongSaid)
    <3>1. SUFFICES ASSUME Answering("PingReceivePong", Line("PONG", <<>>), PongSaid)
                   PROVE  FALSE
      OBVIOUS
    <3>2. srv.phase = "PingReceiveOk"
      BY <1>1, <3>1 DEF Answering, PongSaid, Reading, SpinsOnEof
    <3>3. PICK said : said = PongSaid /\ said[srv.phase] = 2
      <4>1. PongSaid[srv.phase] = 2
        BY <3>2 DEF PongSaid
      <4>2. QED
        BY <4>1
    <3>4. PICK text : text = Line("PONG", <<>>) /\ text \in Seq(Unit) /\ Len(text) = 2
      BY PongTextFacts
    <3>5. QED
      BY <2>3, <3>1, <3>3, <3>4
  <2>13. ASSUME NEW c, NEW q \in TimePhases, Answering(c, TimeText, TimeSaid(q))
         PROVE  FALSE
    <3>1. srv.phase = "AcceptCommandReceive"
      BY <1>1, <2>13 DEF Answering, TimeSaid, Reading, SpinsOnEof, TimePhases
    <3>2. PICK said : said = TimeSaid(q)
      OBVIOUS
    <3>3. said[srv.phase] = 4
      BY <3>1, <3>2 DEF TimeSaid
    <3>4. PICK text : text = TimeText
      OBVIOUS
    <3>5. Len(text) = 4 /\ text \in Seq(Unit)
      BY <2>1, <2>13, <3>4, Parts, TimeTextFacts DEF TimePhases
    <3>6. QED
      BY <2>3, <2>13, <3>2, <3>3, <3>4, <3>5
  <2>14. /\ ~Downloading("GetChunksReceiveChunk", "GetChunkSendChunk",
                         "GetChunksSendChunksLast", "GetChunksReceiveOK")
         /\ ~Downloading("GetTimeReceiveChunk", "GetTimeSendChunk", "GetTimeSendLastChunk",
                         "GetTimeReceiveOk")
    <3>1. /\ srv.phase \notin {"GetChunkSendChunk", "GetChunksSendChunksLast"}
          /\ srv.phase \notin {"GetTimeSendChunk", "GetTimeSendLastChunk"}
      BY <1>1 DEF Reading, SpinsOnEof
    <3>2. QED
      BY <2>4, <3>1 DEF Downloading
  <2>15. /\ ~Quiet({"GreetingSendConnectionType"}, "GreetingReceiveConnectionType")
         /\ ~Quiet({"GreetingSendToken"}, "GreetingReceiveToken")
         /\ ~Quiet(Idle, "AcceptCommandReceive")
         /\ ~Quiet({"GetChunksSendOk"}, "GetChunksReceiveOK")
         /\ ~Quiet({"PingSendOk"}, "PingReceiveOk")
         /\ ~Quiet({"GetTimeSendOk"}, "GetTimeReceiveOk")
    BY <1>1 DEF Quiet, CliReading, Idle
  <2>16. QED
    BY <2>1, <2>5, <2>6, <2>7, <2>8, <2>9, <2>10, <2>11, <2>12, <2>13, <2>14, <2>15
       DEF Scene, TimePhases
<1>2. SessionInv => NoStandoff
  BY <1>1 DEF NoStandoff
<1>3. QED
  BY <1>2, SessionInvHolds, PTL

\* When a phase of the client is complete, all of it has been read and the server waits
\* for a command with its positions at the start, no clock running and nothing counted.
THEOREM QuietBetweenPhasesHolds == Spec => []QuietBetweenPhases
<1>1. ASSUME SessionInv, cli.phase \in BetweenPhases \ {"PerfCompleted"}
      PROVE  /\ toServer = <<>> /\ toClient = <<>>
             /\ srv.phase = "AcceptCommandReceive"
             /\ srv.got = <<>> /\ srv.wpos = 0 /\ srv.done = 0 /\ srv.clock = "none"
             /\ cli.wpos = 0
  <2>1. Positions /\ Counters /\ Clocks /\ Scene
    BY <1>1 DEF SessionInv
  <2>2. cli.phase \in Idle
    BY <1>1 DEF BetweenPhases, FollowsPhase, Idle
  <2>3. Quiet(Idle, "AcceptCommandReceive")
    BY <2>1, <2>2, CliScene
  <2>4. /\ toServer = <<>> /\ toClient = <<>> /\ srv.got = <<>>
        /\ srv.phase = "AcceptCommandReceive"
    BY <2>3 DEF Quiet
  <2>5. srv.wpos = 0 /\ cli.wpos = 0
    BY <2>1, <2>2, <2>4 DEF Positions, StartsAtFirst, Reading, SpinsOnEof, Idle, InUpload
  <2>6. srv.done = 0 /\ srv.clock = "none"
    BY <2>1, <2>2, <2>4 DEF Counters, Clocks, Idle
  <2>7. QED
    BY <2>4, <2>5, <2>6
<1>2. SessionInv => QuietBetweenPhases
  BY <1>1 DEF QuietBetweenPhases
<1>3. QED
  BY <1>2, SessionInvHolds, PTL

\* During a command both sides cut the stream into chunks of one size, one that
\* CHUNK_STORAGE has.
THEOREM ChunkSizesAgreeHolds == Spec => []ChunkSizesAgree
<1>1. ASSUME SessionInv,
             srv.phase \in {"GetChunkSendChunk", "GetChunksSendChunksLast", "GetTimeSendChunk",
                            "GetTimeSendLastChunk", "PutTimeResultSendOk",
                            "PutTimeResultReceiveChunk"}
      PROVE  srv.size \in Stored /\ srv.size = cli.size
  <2>1. Scene /\ cli.size \in Stored
    BY <1>1, Parts DEF SessionInv
  <2>2. srv.size = cli.size
    BY <1>1, <2>1
       DEF Scene, Quiet, Asked, AskedOk, Answering, Downloading, UploadBegins, Uploading,
           Reporting, GreetingSaid, ResponseSaid, PongSaid, TimeSaid
  <2>3. QED
    BY <2>1, <2>2
<1>2. SessionInv => ChunkSizesAgree
  BY <1>1 DEF ChunkSizesAgree
<1>3. QED
  BY <1>2, SessionInvHolds, PTL

\* The lines whose handlers do not go on from write_pos are never cut by a full buffer.
THEOREM LinesGoWholeHolds == Spec => []LinesGoWhole
<1>1. SessionInv => LinesGoWhole
  BY DEF SessionInv, Positions, StartsAtFirst, LinesGoWhole, InUpload
<1>2. QED
  BY <1>1, SessionInvHolds, PTL

\* When the server reports, it has counted a point for every chunk the client has sent,
\* however the stream was cut into reads.
THEOREM EveryChunkCountedHolds == Spec => []EveryChunkCounted
<1>1. SessionInv => EveryChunkCounted
  <2>1. ASSUME SessionInv, srv.phase = "PutTimeResultSendTimeResult"
        PROVE  srv.points = cli.sent
    BY <2>1, SrvScene DEF SessionInv, Reporting
  <2>2. QED
    BY <2>1 DEF EveryChunkCounted
<1>2. QED
  BY <1>1, SessionInvHolds, PTL

\* The unwrap() of getchunks.rs on CHUNK_STORAGE never panics in a session of the client.
THEOREM ChunkIsStored == Spec => [][~get_chunks_panics]_vars
<1>1. SessionInv /\ [Next]_vars => [~get_chunks_panics]_vars
  BY GetChunksNeverPanics
<1>2. QED
  BY <1>1, SessionInvHolds, PTL DEF Spec
=============================================================================
