---------------------------- MODULE Standoff_proofs ----------------------------
(***************************************************************************)
(* The client and the server of Commands never wait for each other with    *)
(* nothing on the way, for every set of chunk sizes, every room of the     *)
(* socket and any number of commands, with either server.                  *)
(*                                                                         *)
(* CommandsInv says where the two stand in the dialogue.  PaceInv adds how *)
(* far each has got with what the other says: the server has not read all  *)
(* of a text that it still waits for, and what the client has heard of an  *)
(* answer, what is on the way and what the server has still to write of    *)
(* the chunk at hand make up whole chunks of the size by which it counts.  *)
(***************************************************************************)
EXTENDS Commands_proofs

\* x units make up whole chunks of n, and pos of the next.
Whole(x, pos, n) == \E k \in Int : x = pos + k * n

LEMMA WholeFacts ==
    /\ \A x, pos \in Nat : Whole(x, pos, 1)
    /\ \A pos \in Nat, n \in Nat \ {0} : Whole(pos, pos, n)
    /\ \A x, d, pos \in Nat, n \in Nat \ {0} : Whole(x, pos, n) => Whole(x + d, pos + d, n)
    /\ \A x, pos \in Nat, n \in Nat \ {0} :
          /\ Whole(x, pos + n, n) => Whole(x, pos, n)
          /\ Whole(x, pos, n) => Whole(x, pos + n, n)
<1>1. \A x, pos \in Nat : Whole(x, pos, 1)
  <2>1. TAKE x, pos \in Nat
  <2>2. x - pos \in Int /\ x = pos + (x - pos) * 1
    OBVIOUS
  <2>3. QED
    BY <2>2 DEF Whole
<1>2. \A pos \in Nat, n \in Nat \ {0} : Whole(pos, pos, n)
  <2>1. TAKE pos \in Nat, n \in Nat \ {0}
  <2>2. 0 \in Int /\ pos = pos + 0 * n
    OBVIOUS
  <2>3. QED
    BY <2>2 DEF Whole
<1>3. \A x, d, pos \in Nat, n \in Nat \ {0} : Whole(x, pos, n) => Whole(x + d, pos + d, n)
  <2>1. SUFFICES ASSUME NEW x \in Nat, NEW d \in Nat, NEW pos \in Nat, NEW n \in Nat \ {0},
                        NEW k \in Int, x = pos + k * n
                 PROVE  Whole(x + d, pos + d, n)
    BY DEF Whole
  <2>2. PICK m \in Int : m = k * n
    OBVIOUS
  <2>3. x + d = (pos + d) + m
    BY <2>1, <2>2
  <2>4. QED
    BY <2>2, <2>3 DEF Whole
<1>4. ASSUME NEW x \in Nat, NEW pos \in Nat, NEW n \in Nat \ {0}
      PROVE  /\ Whole(x, pos + n, n) => Whole(x, pos, n)
             /\ Whole(x, pos, n) => Whole(x, pos + n, n)
  <2>1. ASSUME NEW k \in Int, x = (pos + n) + k * n PROVE Whole(x, pos, n)
    <3>1. n + k * n = (k + 1) * n /\ k + 1 \in Int
      OBVIOUS
    <3>2. PICK m \in Int : m = k * n
      OBVIOUS
    <3>3. x = pos + (n + m)
      BY <2>1, <3>2
    <3>4. x = pos + (k + 1) * n
      BY <3>1, <3>2, <3>3
    <3>5. QED
      BY <3>1, <3>4 DEF Whole
  <2>2. ASSUME NEW k \in Int, x = pos + k * n PROVE Whole(x, pos + n, n)
    <3>1. k * n = n + (k - 1) * n /\ k - 1 \in Int
      OBVIOUS
    <3>2. PICK m \in Int : m = (k - 1) * n
      OBVIOUS
    <3>3. x = pos + (n + m)
      BY <2>2, <3>1, <3>2
    <3>4. x = (pos + n) + (k - 1) * n
      BY <3>2, <3>3
    <3>5. QED
      BY <3>1, <3>4 DEF Whole
  <2>3. QED
    BY <2>1, <2>2 DEF Whole
<1>5. QED
  BY <1>1, <1>2, <1>3, <1>4

LEMMA Division ==
    ASSUME NEW n \in Nat \ {0}, NEW x \in Nat
    PROVE  x % n \in Nat /\ x \div n \in Nat /\ x = ((x \div n) * n) + (x % n)
OBVIOUS

LEMMA NoRemainder ==
    ASSUME NEW n \in Nat \ {0}, NEW k \in Int, k * n \in Nat
    PROVE  (k * n) % n = 0
OBVIOUS

\* The client counts what it has heard modulo the size of a chunk.
LEMMA HeardFacts ==
    ASSUME NEW heard \in Nat, NEW d \in Nat, NEW rest \in Nat, NEW pos \in Nat,
           NEW n \in Nat \ {0}, Whole(heard + (d + rest), pos, n)
    PROVE  /\ (heard + d) % n \in Nat
           /\ Whole(((heard + d) % n) + rest, pos, n)
           /\ rest = 0 /\ pos = 0 => (heard + d) % n = 0
<1>1. PICK x \in Nat : x = heard + d
  OBVIOUS
<1>2. PICK r \in Nat : r = x % n
  BY <1>1, Division
<1>3. PICK q \in Nat : x = (q * n) + r
  BY <1>1, <1>2, Division
<1>4. PICK k \in Int : heard + (d + rest) = pos + k * n
  BY DEF Whole
<1>5. PICK a \in Int, b \in Nat : a = k * n /\ b = q * n
  OBVIOUS
<1>6. r + rest = pos + (a - b)
  BY <1>1, <1>3, <1>4, <1>5
<1>7. a - b = (k - q) * n /\ k - q \in Int
  BY <1>5
<1>8. r + rest = pos + (k - q) * n
  BY <1>6, <1>7
<1>9. Whole(r + rest, pos, n)
  BY <1>7, <1>8 DEF Whole
<1>10. ASSUME rest = 0, pos = 0 PROVE r = 0
  <2>1. x = k * n
    BY <1>1, <1>4, <1>5, <1>10
  <2>2. (k * n) % n = 0
    BY <1>1, <2>1, NoRemainder
  <2>3. QED
    BY <1>2, <2>1, <2>2
<1>11. QED
  BY <1>1, <1>2, <1>9, <1>10

(* What the invariant adds to CommandsInv.  Only an answer of chunks is    *)
(* counted by their size; what was read is never all that is waited for.   *)

ByUnit(todo) == todo # <<>> /\ todo[1].hear.of # "FF" => todo[1].each = 1

\* A line of which the server makes nothing.
Unknown(line) ==
    /\ LinesOf("GETCHUNKS", line) = {}
    /\ line[1].of \notin {"PING", "GETTIME", "PUTNORESULT", "PUTTIMERESULT", "PUT"}

Unread(s, split) ==
    /\ s.phase \in {"GreetingReceiveConnectionType", "GreetingReceiveToken"} => ~EndsLine(s.got)
    /\ s.phase = "AcceptCommandReceive" /\ EndsLine(s.got) => Unknown(s.got)
    /\ s.phase \in Awaits => split \/ s.got = <<>>
    /\ s.phase \in Uploading => Len(s.got) < s.size

\* The chunks that the client counts are those that the server writes.
WrongFor(s) == s.phase \in BulkTime \cup {"GetTimeReceiveOk"} /\ TimeSize(s) # s.size
At0(s)      == IF s.phase \in Sends THEN s.wpos ELSE 0
Level(s, u, tc) ==
    u.todo # <<>> => WrongFor(s) \/ Whole(u.heard + Len(tc), At0(s), u.todo[1].each)
Sizing(s, u) ==
    s.phase \in Sends /\ u.todo # <<>> =>
        /\ u.todo[1].each = s.size
        /\ s.phase = "GetChunkSendChunk" /\ s.clock = "none" => s.wpos = 0

MioPace ==
    Unread(srv, splitOk) /\ Level(srv, user, toClient) /\ Sizing(srv, user)

TaskPace ==
    /\ task.at \in Counting => task.got < task.size
    /\ user.todo # <<>> =>
          /\ task.at = "get_time" => user.todo[1].each = task.size
          /\ Whole(user.heard + Len(Unheard), 0, user.todo[1].each)

PaceInv ==
    BothOpen =>
        /\ NoStandoff
        /\ user.todo = <<>> => user.heard = 0
        /\ server = "mio" => ByUnit(user.todo) /\ MioPace
        /\ server = "tokio" => splitOk \/ (ByUnit(user.todo) /\ TaskPace)
-----------------------------------------------------------------------------
LEMMA TakesEach ==
    ASSUME NEW p, NEW size, NEW todo, todo # <<>>, Takes(p, size, todo)
    PROVE  todo[1].each = 1
<1>1. \A say : LastTurn(say).each = 1
  BY DEF LastTurn, Turn
<1>2. PutTurn(size).each = 1 /\ Hello[2].each = 1
  BY DEF PutTurn, Turn, Hello
<1> HIDE DEF Hello
<1>3. PICK a, b : a.each = 1 /\ (todo = <<a>> \/ todo = <<a, b>>)
  BY <1>1, <1>2 DEF Takes
<1>4. <<a>>[1] = a /\ <<a, b>>[1] = a
  OBVIOUS
<1>5. QED
  BY <1>3, <1>4

LEMMA HelloEach == Hello[1].each = 1
BY DEF Hello, Turn

LEMMA FirstEach ==
    ASSUME NEW cmd \in Asked, NEW n \in {1, 2}, NEW size \in Sizes,
           NEW todo, todo = Exchanges(cmd, n, size)
    PROVE  todo[1].each = IF cmd \in {"GETCHUNKS", "GETTIME"} THEN size ELSE 1
<1>1. \A say, hear, each : Turn(say, hear, each).each = each
  BY DEF Turn
<1>2. ASSUME NEW a, NEW b, NEW c, todo = <<a>> \/ todo = <<a, b>> \/ todo = <<a, b, c>>
      PROVE  todo[1] = a
  BY <1>2
<1>3. CASE cmd \in {"GETCHUNKS", "GETTIME"}
  <2>1. PICK say : todo = <<Turn(say, Mark(size), size), Turn(OK, Accept[2], 1)>>
    BY <1>3 DEF Exchanges
  <2>2. todo[1] = Turn(say, Mark(size), size)
    BY <1>2, <2>1
  <2>3. QED
    BY <1>1, <1>3, <2>2
<1>4. CASE cmd = "PING"
  <2>1. PICK say, hear : todo = <<Turn(say, hear, 1), Turn(OK, Accept[2], 1)>>
    BY <1>4 DEF Exchanges
  <2>2. todo[1] = Turn(say, hear, 1)
    BY <1>2, <2>1
  <2>3. QED
    BY <1>1, <1>4, <2>2
<1>5. CASE cmd = "QUIT"
  <2>1. PICK say, hear : todo = <<Turn(say, hear, 1)>>
    BY <1>5 DEF Exchanges
  <2>2. todo[1] = Turn(say, hear, 1)
    BY <1>2, <2>1
  <2>3. QED
    BY <1>1, <1>5, <2>2
<1>6. CASE cmd \in {"PUT", "PUTNORESULT", "PUTTIMERESULT"}
  <2>1. PICK say, b, c : todo = <<Turn(say, OK[2], 1), b, c>> \/ todo = <<Turn(say, OK[2], 1), b>>
    BY <1>6 DEF Exchanges
  <2>2. todo[1] = Turn(say, OK[2], 1)
    BY <1>2, <2>1
  <2>3. QED
    BY <1>1, <1>6, <2>2
<1>7. QED
  BY <1>3, <1>4, <1>5, <1>6 DEF Asked
-----------------------------------------------------------------------------
(* The mio server, state by state.                                         *)

LEMMA MioScenes ==
    ASSUME CommandsInv, server = "mio", BothOpen
    PROVE  /\ Agenda = {user.todo} /\ MioScene(srv, user, toServer, toClient, user.todo)
           /\ user.heard \in Nat /\ toClient \in Seq(Unit) /\ Len(toClient) \in Nat
           /\ srv \in SrvState /\ srv.phase \in Talking \cup Reading
           /\ user.todo # <<>> => user.todo[1].each \in Nat \ {0}
<1>1. "client" \notin gone
  BY DEF BothOpen
<1>2. Agenda = {user.todo}
  BY <1>1 DEF Agenda
<1>3. MioScene(srv, user, toServer, toClient, user.todo)
  BY <1>2 DEF CommandsInv, MioInv
<1>4. QED
  BY <1>2, <1>3, UserFacts, MioFacts, StateFacts

\* A whole line would have been taken for one.
LEMMA WholeLineRead ==
    ASSUME NEW of \in Words, NEW arg \in Seq(Nat), NEW got \in Seq(Unit),
           FromOn(got, Line(of, arg), 0, 2)
    PROVE  EndsLine(got) /\ got[1].of = of /\ (LinesOf(of, got) # {})
<1> DEFINE line == Line(of, arg)
<1>1. Len(line) = 2 /\ line[1].of = of /\ line[1].at = 1 /\ line[2].at = 2
  BY LineUnits
<1> HIDE DEF line
<1>2. Len(got) = 2 /\ \A i \in 1..Len(got) : got[i] = line[0 + i]
  BY <1>1 DEF FromOn, line
<1>3. got[1] = line[1] /\ got[2] = line[2] /\ got # <<>>
  <2>1. 1 \in 1..Len(got) /\ 2 \in 1..Len(got) /\ 0 + 1 = 1 /\ 0 + 2 = 2
    BY <1>2
  <2>2. got[1] = line[1] /\ got[2] = line[2]
    BY <1>2, <2>1
  <2>3. got # <<>>
    <3>1. got = <<>> => Len(got) = 0
      BY ArgFacts
    <3>2. QED
      BY <1>2, <3>1
  <2>4. QED
    BY <2>2, <2>3
<1>4. EndsLine(got)
  BY <1>1, <1>2, <1>3 DEF EndsLine, LastOf
<1>5. 1 \in LinesOf(of, got)
  BY <1>1, <1>2, <1>3 DEF LinesOf
<1>6. QED
  BY <1>1, <1>3, <1>4, <1>5

\* Nothing on the way, all said, and the server listens: it has not read it all.
LEMMA MioIsThrough ==
    ASSUME CommandsInv, server = "mio", BothOpen, Unread(srv, splitOk), UserWaits,
           toServer = <<>>, ~splitOk, user.cmd # "QUIT"
    PROVE  ~Listening(srv, user, toServer, toClient, user.todo)
<1> DEFINE todo == user.todo
           text == todo[1].say
           got  == srv.got
<1>1. SUFFICES ASSUME Listening(srv, user, toServer, toClient, todo)
               PROVE  FALSE
  OBVIOUS
<1>2. /\ got \in Seq(Unit) /\ Len(got) \in Nat /\ srv.size \in {0} \cup Sizes
      /\ Owned(srv, user.cmd) /\ user.cmd \in Asked \cup {"none"} /\ todo # <<>>
      /\ text \in Seq(Unit) /\ user.said = Len(text)
  BY MioFacts, StateFacts, UserFacts DEF UserWaits
<1>3. PICK m \in {0, srv.size} : FromOn(got \o toServer, text, m, user.said)
                                 /\ (m = 0 \/ srv.phase \in Takes2)
  BY <1>1 DEF Listening
<1>4. got \o toServer = got
  BY <1>2
<1>5. FromOn(got, text, m, Len(text))
  BY <1>2, <1>3, <1>4
<1>6. /\ Takes2 \cap Awaits = {} /\ Takes2 \cup Awaits \subseteq Reading
      /\ Takes2 \cap {"GreetingReceiveConnectionType", "GreetingReceiveToken",
                      "AcceptCommandReceive", "PutReceiveChunk"} = {}
  BY DEF Takes2, Awaits, Reading, SpinsOnEof
<1>7. ASSUME NEW of \in Words, NEW arg \in Seq(Nat), text = Line(of, arg), srv.phase \notin Takes2
      PROVE  EndsLine(got) /\ got[1].of = of /\ LinesOf(of, got) # {}
  <2>1. Len(text) = 2
    BY <1>7, LineUnits
  <2>2. FromOn(got, Line(of, arg), 0, 2)
    BY <1>3, <1>5, <1>7, <2>1
  <2>3. QED
    BY <1>2, <2>2, WholeLineRead
<1>8. "GET /rmbt" \in Words /\ "TOKEN" \in Words /\ <<>> \in Seq(Nat) /\ Asked \subseteq Words
  BY ArgFacts DEF Words, Asked
<1>9. CASE srv.phase = "GreetingReceiveConnectionType" /\ todo = Hello
  BY <1>6, <1>7, <1>8, <1>9, HelloFacts DEF Unread
<1>10. CASE srv.phase = "AcceptCommandReceive" /\ Commanding(user.cmd, todo)
  <2>1. PICK n \in {1, 2}, size \in Sizes : Opens(todo, user.cmd, n, size)
    BY <1>2, <1>10, CommandingIs
  <2>2. user.cmd \in Asked
    BY <1>2, <1>10, CommandingIs
  <2>3. text = Line(user.cmd, Args(user.cmd, n, size)) /\ Args(user.cmd, n, size) \in Seq(Nat)
    BY <2>1, ArgsAre DEF Opens
  <2>4. EndsLine(got) /\ got[1].of = user.cmd /\ LinesOf(user.cmd, got) # {}
    BY <1>6, <1>7, <1>8, <1>10, <2>2, <2>3
  <2>5. Unknown(got)
    BY <1>10, <2>4 DEF Unread
  <2>6. QED
    BY <2>2, <2>4, <2>5 DEF Unknown, Asked
<1>11. CASE Takes(srv.phase, srv.size, todo)
  <2>1. CASE srv.phase = "GreetingReceiveToken"
    <3>1. text = Line("TOKEN", <<>>)
      BY <1>11, <2>1, TakesToken
    <3>2. QED
      BY <1>6, <1>7, <1>8, <2>1, <3>1 DEF Unread
  <2>2. CASE srv.phase \in Awaits
    <3>1. text = OK /\ Len(OK) = 2
      BY <1>11, <2>2, TakesOk, OkUnits
    <3>2. m = 0 /\ got = <<>>
      BY <1>3, <1>6, <2>2 DEF Unread
    <3>3. Len(got) = 2 - 0
      BY <1>5, <3>1, <3>2 DEF FromOn
    <3>4. QED
      BY <3>2, <3>3
  <2>3. CASE srv.phase \in Uploading
    <3>1. srv.size \in Sizes /\ srv.size \in Nat /\ srv.size >= 2
      BY <1>2, <2>3, SizeFacts DEF Owned, Sized, Uploading, Takes2
    <3>2. Len(got) < srv.size
      BY <2>3 DEF Unread
    <3>3. CASE srv.phase \in Takes2
      <4>1. text = Two(srv.size)
        BY <1>11, <3>1, <3>3, TakesTwo
      <4>2. Len(text) = 2 * srv.size
        BY <3>1, <4>1, TwoFacts
      <4>3. Len(got) = Len(text) - m
        BY <1>5 DEF FromOn
      <4>4. QED
        BY <1>2, <1>3, <3>1, <3>2, <4>2, <4>3
    <3>4. CASE srv.phase = "PutReceiveChunk"
      <4>1. PICK last \in BOOLEAN : text = Chunk(srv.size, last)
        BY <1>11, <3>1, <3>4, TakesPut
      <4>2. Len(text) = srv.size
        BY <3>1, <4>1, ChunkUnits
      <4>3. m = 0 /\ Len(got) = Len(text) - m
        BY <1>3, <1>5, <1>6, <3>4 DEF FromOn
      <4>4. QED
        BY <1>2, <3>1, <3>2, <4>2, <4>3
    <3>5. QED
      BY <2>3, <3>3, <3>4 DEF Uploading
  <2>4. QED
    BY <1>2, <1>11, <2>1, <2>2, <2>3 DEF Takes, Uploading
<1>12. QED
  BY <1>1, <1>9, <1>10, <1>11 DEF Listening

\* While it answers, the client waits for it, and not the other way round.
LEMMA MioTalksOn ==
    ASSUME CommandsInv, server = "mio", BothOpen, ByUnit(user.todo),
           srv.phase \in Talking \ Sends
    PROVE  NoStandoff /\ MioPace
<1>1. srv.phase \notin Reading
  BY PhasesApart
<1>2. NoStandoff
  BY <1>1 DEF NoStandoff, ServerWaits
<1>3. Unread(srv, splitOk) /\ Sizing(srv, user)
  BY <1>1 DEF Unread, Sizing, Uploading, Takes2, Awaits, Reading, SpinsOnEof
<1>4. Level(srv, user, toClient)
  <2>1. SUFFICES ASSUME user.todo # <<>>
                 PROVE  Whole(user.heard + Len(toClient), 0, user.todo[1].each)
    BY DEF Level, At0
  <2>2. PICK todo \in Agenda : Speaking(srv, user, toServer, toClient, todo)
    BY MioTalks
  <2>3. Speaking(srv, user, toServer, toClient, user.todo)
    BY <2>2, MioScenes
  <2>4. PICK q \in Reading : Answers(srv.phase, srv.got, user.todo[1].hear.of, q)
    BY <2>3 DEF Speaking
  <2>5. user.todo[1].hear.of # "FF"
    BY <2>4 DEF Answers, Sends
  <2>6. user.todo[1].each = 1
    BY <2>1, <2>5 DEF ByUnit
  <2>7. user.heard + Len(toClient) \in Nat
    BY MioScenes
  <2>8. QED
    BY <2>6, <2>7, WholeFacts
<1>5. QED
  BY <1>2, <1>3, <1>4 DEF MioPace

\* When it has answered, there is something to hear.
LEMMA MioHasTold ==
    ASSUME CommandsInv, server = "mio", BothOpen, ByUnit(user.todo),
           srv.phase \in Reading, toClient # <<>>,
           user.todo[1].hear.of = "FF" => Level(srv, user, toClient)
    PROVE  NoStandoff /\ MioPace
<1>1. NoStandoff
  BY DEF NoStandoff
<1>2. srv.phase \notin Talking /\ srv.phase \notin Sends
  BY PhasesApart DEF Sends, Counts, BulkTime, Talking
<1>3. Spoken(srv, user, toServer, toClient, user.todo)
  <2>1. ~Resting(srv, user, toServer, toClient, user.todo)
    BY DEF Resting
  <2>2. ~Listening(srv, user, toServer, toClient, user.todo)
    BY DEF Listening
  <2>3. ~Speaking(srv, user, toServer, toClient, user.todo)
    BY <1>2 DEF Speaking, Answers, Talking, Counts, BulkTime, ToAccept
  <2>4. QED
    BY <2>1, <2>2, <2>3, MioScenes DEF MioScene
<1>4. srv.got = <<>> /\ user.todo # <<>> /\ Len(srv.got) = 0 /\ ~EndsLine(srv.got)
  BY <1>3 DEF Spoken, EndsLine
<1>5. srv.phase \in Uploading => srv.size \in Nat /\ srv.size >= 2
  BY MioFacts, SizeFacts DEF Owned, Sized, Uploading, Takes2
<1>6. Unread(srv, splitOk)
  BY <1>4, <1>5 DEF Unread
<1>7. Sizing(srv, user)
  BY <1>2 DEF Sizing
<1>8. Level(srv, user, toClient)
  <2>1. CASE user.todo[1].hear.of # "FF"
    <3>1. user.todo[1].each = 1
      BY <1>4, <2>1 DEF ByUnit
    <3>2. user.heard + Len(toClient) \in Nat
      BY MioScenes
    <3>3. Whole(user.heard + Len(toClient), 0, user.todo[1].each)
      BY <3>1, <3>2, WholeFacts
    <3>4. QED
      BY <1>2, <3>3 DEF Level, At0
  <2>2. QED
    BY <2>1
<1>9. QED
  BY <1>1, <1>6, <1>7, <1>8 DEF MioPace

\* While it listens, it has not read all there is to come.
LEMMA MioListensOn ==
    ASSUME CommandsInv, server = "mio", BothOpen, Unread(srv, splitOk),
           Listening(srv, user, toServer, toClient, user.todo),
           srv.phase \in Reading, Level(srv, user, toClient)
    PROVE  NoStandoff /\ MioPace
<1>1. srv.phase \notin Sends
  BY PhasesApart DEF Sends, Counts, BulkTime, Talking
<1>2. NoStandoff
  BY MioIsThrough DEF NoStandoff
<1>3. QED
  BY <1>1, <1>2 DEF MioPace, Sizing
-----------------------------------------------------------------------------
(* The mio server, step by step.                                           *)

LEMMA MioNext ==
    /\ (CommandsInv /\ server = "mio" /\ BothOpen)' =>
          /\ (Agenda = {user.todo})' /\ MioScene(srv, user, toServer, toClient, user.todo)'
          /\ (user.heard \in Nat)' /\ (Len(toClient) \in Nat)'
          /\ (srv \in SrvState)' /\ (srv.phase \in Talking \cup Reading)'
          /\ (Owned(srv, user.cmd))' /\ (srv.size \in {0} \cup Sizes)' /\ (Positions(srv))'
    /\ /\ (CommandsInv /\ server = "mio" /\ BothOpen /\ ByUnit(user.todo))'
       /\ (srv.phase \in Talking \ Sends)'
       => (NoStandoff /\ MioPace)'
    /\ /\ (CommandsInv /\ server = "mio" /\ BothOpen /\ ByUnit(user.todo))'
       /\ (srv.phase \in Reading /\ toClient # <<>>)'
       /\ (user.todo[1].hear.of = "FF" => Level(srv, user, toClient))'
       => (NoStandoff /\ MioPace)'
    /\ /\ (CommandsInv /\ server = "mio" /\ BothOpen /\ Unread(srv, splitOk))'
       /\ Listening(srv, user, toServer, toClient, user.todo)'
       /\ (srv.phase \in Reading /\ Level(srv, user, toClient))'
       => (NoStandoff /\ MioPace)'
<1>1. CommandsInv /\ server = "mio" /\ BothOpen =>
         /\ (Agenda = {user.todo}) /\ MioScene(srv, user, toServer, toClient, user.todo)
         /\ (user.heard \in Nat) /\ (Len(toClient) \in Nat)
         /\ (srv \in SrvState) /\ (srv.phase \in Talking \cup Reading)
         /\ Owned(srv, user.cmd) /\ (srv.size \in {0} \cup Sizes) /\ Positions(srv)
  BY MioScenes, MioFacts, StateFacts
<1>2. /\ (CommandsInv /\ server = "mio" /\ BothOpen /\ ByUnit(user.todo))
      /\ (srv.phase \in Talking \ Sends)
      => (NoStandoff /\ MioPace)
  BY MioTalksOn
<1>3. /\ (CommandsInv /\ server = "mio" /\ BothOpen /\ ByUnit(user.todo))
      /\ (srv.phase \in Reading /\ toClient # <<>>)
      /\ (user.todo[1].hear.of = "FF" => Level(srv, user, toClient))
      => (NoStandoff /\ MioPace)
  BY MioHasTold
<1>4. /\ (CommandsInv /\ server = "mio" /\ BothOpen /\ Unread(srv, splitOk))
      /\ Listening(srv, user, toServer, toClient, user.todo)
      /\ (srv.phase \in Reading /\ Level(srv, user, toClient))
      => (NoStandoff /\ MioPace)
  BY MioListensOn
<1>5. QED
  BY <1>1, <1>2, <1>3, <1>4, PTL

\* A step of the session's handlers while both sides are there.
MioTurn ==
    /\ CommandsInv /\ CommandsInv' /\ PaceInv /\ server = "mio" /\ UNCHANGED <<server, task, user>>
    /\ BothOpen /\ BothOpen'

LEMMA TurnFactsMio ==
    ASSUME MioTurn
    PROVE  /\ CommandsInv /\ CommandsInv' /\ PaceInv /\ server = "mio" /\ server' = "mio"
           /\ UNCHANGED <<server, task, user>> /\ BothOpen /\ BothOpen' /\ user' = user
           /\ ByUnit(user.todo) /\ ByUnit(user'.todo)
           /\ Unread(srv, splitOk) /\ Level(srv, user, toClient) /\ Sizing(srv, user)
BY DEF MioTurn, PaceInv, MioPace

\* What is written ends the answer or goes on with it.
LEMMA PlainAnswer ==
    ASSUME MioTurn, srv.phase \in Talking \ Sends, srv'.phase \notin Sends, toClient' # <<>>
    PROVE  (NoStandoff /\ MioPace)'
<1>1. /\ CommandsInv /\ CommandsInv' /\ server = "mio" /\ server' = "mio"
      /\ user' = user /\ BothOpen /\ BothOpen' /\ ByUnit(user.todo) /\ ByUnit(user'.todo)
  BY TurnFactsMio
<1>2. srv'.phase \in Talking \cup Reading
  BY <1>1, MioNext
<1>3. PICK todo \in Agenda : Speaking(srv, user, toServer, toClient, todo)
  BY <1>1, MioTalks
<1>4. Speaking(srv, user, toServer, toClient, user.todo)
  BY <1>1, <1>3, MioScenes
<1>5. PICK q \in Reading : Answers(srv.phase, srv.got, user.todo[1].hear.of, q)
  BY <1>4 DEF Speaking
<1>6. user.todo[1].hear.of # "FF"
  BY <1>5 DEF Answers, Sends
<1>7. CASE srv'.phase \in Talking
  <2>1. (srv.phase \in Talking \ Sends)'
    BY <1>7
  <2>2. QED
    BY <1>1, <2>1, MioNext
<1>8. CASE srv'.phase \in Reading
  <2>1. (user.todo[1].hear.of = "FF" => Level(srv, user, toClient))'
    BY <1>1, <1>6
  <2>2. (srv.phase \in Reading /\ toClient # <<>>)'
    BY <1>8
  <2>3. QED
    BY <1>1, <2>1, <2>2, MioNext
<1>9. QED
  BY <1>2, <1>7, <1>8

\* What is read is part of what is waited for, or makes the server answer.
LEMMA ReadsPart ==
    ASSUME MioTurn, srv.phase \in Reading, toServer # <<>>, UNCHANGED toClient,
           \/ srv'.phase \in Talking \ Sends
           \/ /\ srv'.phase = srv.phase /\ srv'.size = srv.size /\ Unread(srv', splitOk')
              /\ srv'.made = srv.made
              /\ srv'.got # <<>> \/ srv.phase \in Takes2
    PROVE  (NoStandoff /\ MioPace)'
<1>1. /\ CommandsInv /\ CommandsInv' /\ server = "mio" /\ server' = "mio"
      /\ user' = user /\ BothOpen /\ BothOpen' /\ ByUnit(user.todo) /\ ByUnit(user'.todo)
      /\ Level(srv, user, toClient)
  BY TurnFactsMio
<1>2. CASE srv'.phase \in Talking \ Sends
  <2>1. (srv.phase \in Talking \ Sends)'
    BY <1>2
  <2>2. QED
    BY <1>1, <2>1, MioNext
<1>3. CASE /\ srv'.phase = srv.phase /\ srv'.size = srv.size /\ Unread(srv', splitOk')
           /\ srv'.made = srv.made
           /\ srv'.got # <<>> \/ srv.phase \in Takes2
  <2>1. Listening(srv, user, toServer, toClient, user.todo)
    BY <1>1, MioHears, MioScenes
  <2>2. user.todo # <<>> /\ toClient = <<>> /\ toClient' = <<>>
    BY <2>1 DEF Listening
  <2>3. MioScene(srv', user', toServer', toClient', user'.todo)
    BY <1>1, MioNext
  <2>4. ~Resting(srv', user', toServer', toClient', user'.todo)
    BY <1>1, <2>2 DEF Resting
  <2>5. ~Speaking(srv', user', toServer', toClient', user'.todo)
    BY <1>3, PhasesApart DEF Speaking, Answers, Talking, Counts, BulkTime, ToAccept
  <2>6. ~Spoken(srv', user', toServer', toClient', user'.todo)
    <3>1. SUFFICES ASSUME Spoken(srv', user', toServer', toClient', user'.todo) PROVE FALSE
      OBVIOUS
    <3>2. srv'.got = <<>> /\ Takes(srv.phase, srv.size, Tail(user.todo))
      BY <1>1, <1>3, <3>1 DEF Spoken
    <3>3. srv.phase \in Takes2
      BY <1>3, <3>2
    <3>4. srv.size \in Sizes
      BY <1>1, <3>3, MioFacts DEF Owned, Sized
    <3>5. Takes(srv.phase, srv.size, user.todo)
      BY <2>1, <3>3 DEF Listening, Takes2
    <3>6. Tail(user.todo) = <<>>
      <4>1. \A p \in Takes2, size \in Sizes : \A todo : Takes(p, size, todo) => Tail(todo) = <<>>
        BY TakesTwo
      <4>2. QED
        BY <3>3, <3>4, <3>5, <4>1
    <3>7. Tail(user.todo) # <<>>
      BY <3>2, <3>3, <3>4, TakesTwo
    <3>8. QED
      BY <3>6, <3>7
  <2>7. Listening(srv', user', toServer', toClient', user'.todo)
    BY <2>3, <2>4, <2>5, <2>6 DEF MioScene
  <2>8. Level(srv', user', toClient')
    <3>1. WrongFor(srv') <=> WrongFor(srv)
      BY <1>3 DEF WrongFor, TimeSize
    <3>2. At0(srv') = At0(srv)
      BY <1>3, PhasesApart DEF At0, Sends, Counts, BulkTime, Talking
    <3>3. QED
      BY <1>1, <2>2, <3>1, <3>2 DEF Level
  <2>9. Unread(srv', splitOk')
    BY <1>3
  <2>10. QED
    BY <1>1, <1>3, <2>7, <2>8, <2>9, MioNext
<1>4. QED
  BY <1>2, <1>3

-----------------------------------------------------------------------------
(* What the mio server writes.                                             *)

LEMMA Grows ==
    ASSUME CommandsInv, NEW p, NEW pos \in Nat, NEW buf \in Seq(Unit), NEW begun \in SrvState,
           NEW fin, SrvWritesFrom(p, pos, buf, begun, fin),
           NEW d, d = Len(toClient') - Len(toClient), NEW w, w = pos + d
    PROVE  /\ srv.phase = p /\ UNCHANGED <<toServer, gone, splitOk>> /\ toClient' # <<>>
           /\ d \in Nat /\ Len(toClient') = Len(toClient) + d /\ w <= Len(buf)
           /\ w = Len(buf) => srv' = fin
           /\ w # Len(buf) =>
                 /\ srv'.wpos = w /\ srv'.phase = begun.phase
                 /\ srv'.size = begun.size /\ srv'.made = begun.made
                 /\ srv'.clock = begun.clock
<1> DEFINE out == Taken(toClient, buf, pos)
<1>1. /\ srv.phase = p /\ out # <<>> /\ toClient' = toClient \o out
      /\ srv' = IF pos + Len(out) = Len(buf) THEN fin
                ELSE [begun EXCEPT !.wpos = pos + Len(out)]
      /\ UNCHANGED <<toServer, gone, splitOk>>
  BY DEF SrvWritesFrom, At
<1>2. toClient \in Seq(Unit) /\ Len(toClient) <= Cap /\ Len(toClient) \in Nat
  BY UserFacts
<1>3. pos \in 0..Len(buf)
  BY <1>1, <1>2, SaysWithin
<1>4. out \in Seq(Unit) /\ Len(out) \in Nat /\ pos + Len(out) <= Len(buf)
  BY <1>2, <1>3, TakenFacts
<1> HIDE DEF out
<1>5. Len(toClient \o out) = Len(toClient) + Len(out)
  BY <1>2, <1>4, JoinOf
<1>6. d = Len(out) /\ d \in Nat /\ w = pos + Len(out)
  BY <1>1, <1>2, <1>4, <1>5
<1>7. d # 0
  <2>1. Len(out) = 0 => out = <<>>
    BY <1>4
  <2>2. QED
    BY <1>1, <1>6, <2>1
<1>8. toClient' # <<>>
  <2>1. toClient' = <<>> => Len(toClient') = 0
    BY ArgFacts
  <2>2. QED
    BY <1>1, <1>2, <1>5, <1>6, <1>7, <2>1
<1>9. w # Len(buf) =>
         /\ srv'.wpos = w /\ srv'.phase = begun.phase /\ srv'.size = begun.size
         /\ srv'.made = begun.made /\ srv'.clock = begun.clock
  <2>1. w # Len(buf) => srv' = [begun EXCEPT !.wpos = w]
    BY <1>1, <1>6
  <2>2. QED
    BY <2>1 DEF SrvState
<1>10. QED
  BY <1>1, <1>2, <1>4, <1>5, <1>6, <1>8, <1>9

\* A line, or the report, and what comes after it.
LEMMA AnswerGoesOn ==
    ASSUME MioTurn, NEW p \in Talking \ Sends, NEW q, q \notin Sends,
           NEW pos \in Nat, NEW buf \in Seq(Unit), NEW begun \in SrvState, begun.phase = p,
           NEW fin, fin.phase = q, SrvWritesFrom(p, pos, buf, begun, fin)
    PROVE  (NoStandoff /\ MioPace)'
<1>1. CommandsInv
  BY TurnFactsMio
<1>2. srv.phase = p /\ toClient' # <<>>
  <2>1. PICK d, w : d = Len(toClient') - Len(toClient) /\ w = pos + d
    OBVIOUS
  <2>2. QED
    BY <1>1, <2>1, Grows
<1>3. srv' = fin \/ \E w : srv' = [begun EXCEPT !.wpos = w]
  BY DEF SrvWritesFrom
<1>4. srv'.phase \in {p, q}
  <2>1. ASSUME NEW w, srv' = [begun EXCEPT !.wpos = w] PROVE srv'.phase = p
    BY <2>1 DEF SrvState
  <2>2. QED
    BY <1>3, <2>1
<1>5. QED
  BY <1>2, <1>4, PlainAnswer

LEMMA LinesUnits ==
    ASSUME srv \in SrvState
    PROVE  /\ \A of \in Words : /\ Line(of, <<>>) \in Seq(Unit)
                                /\ Line(of, <<srv.time>>) \in Seq(Unit)
           /\ OK \in Seq(Unit) /\ Accept \in Seq(Unit) /\ srv.wpos \in Nat
<1>1. <<>> \in Seq(Nat) /\ <<srv.time>> \in Seq(Nat) /\ srv.wpos \in Nat
  BY StateFacts, ArgFacts
<1>2. \A of \in Words, arg \in Seq(Nat) : Line(of, arg) \in Seq(Unit)
  BY LineUnits
<1>3. QED
  BY <1>1, <1>2, OkUnits, AcceptUnits

LEMMA TalksThenListens ==
    /\ Sends \cap Reading = {}
    /\ {"GreetingSendVersion", "GreetingSendAcceptToken", "GreetingSendOk",
        "GreetingSendChunksize", "AcceptCommandSend", "GetChunksSendTime", "PongSend",
        "PingSendTime", "GetTimeSendTime", "PutSendOk", "PutSendBytes", "PutSendTime",
        "PutNoResultSendOk", "PutNoResultSendTime", "PutTimeResultSendOk",
        "PutTimeResultSendTimeResult"} \subseteq Talking \ Sends
    /\ {"RMBT", "ACCEPT TOKEN", "CHUNKSIZE", "TIME", "PONG", "TIME BYTES", "TIMERESULT"}
       \subseteq Words
BY DEF Sends, Counts, BulkTime, Reading, SpinsOnEof, Talking, Words

LEMMA MioSaysLines ==
    ASSUME MioTurn,
           \/ handle_greeting_send_version \/ handle_greeting_send_accept_token
           \/ handle_greeting_send_ok \/ handle_greeting_send_chunksize
           \/ handle_main_command_send \/ handle_ping_send_time \/ handle_put_send_bytes
           \/ handle_put_send_time \/ handle_put_no_result_send_time
    PROVE  (NoStandoff /\ MioPace)'
<1>1. srv \in SrvState
  BY TurnFactsMio, MioFacts
<1>2. ASSUME NEW p \in Talking \ Sends, NEW q \in (Talking \cup Reading) \ Sends,
             NEW buf \in Seq(Unit), NEW fin, fin = Anew(q) \/ fin = Says(q),
             SrvWrites(p, buf, srv, fin)
      PROVE  (NoStandoff /\ MioPace)'
  <2>1. fin.phase = q
    BY <1>1, <1>2, AnewIs, SaysIs
  <2>2. SrvWritesFrom(p, srv.wpos, buf, srv, fin) /\ srv.phase = p /\ srv.wpos \in Nat
    BY <1>1, <1>2, StateFacts DEF SrvWrites, SrvWritesFrom, At
  <2>3. q \notin Sends
    OBVIOUS
  <2>4. QED
    BY <1>1, <1>2, <2>1, <2>2, <2>3, AnswerGoesOn
<1> DEFINE Goes(p, buf, q) == SrvWrites(p, buf, srv, Anew(q)) \/ SrvWrites(p, buf, srv, Says(q))
<1>3. ASSUME NEW p \in Talking \ Sends, NEW q \in (Talking \cup Reading) \ Sends,
             NEW buf \in Seq(Unit), Goes(p, buf, q)
      PROVE  (NoStandoff /\ MioPace)'
  BY <1>2, <1>3
<1> HIDE DEF Goes
<1>4. \E p \in Talking \ Sends, q \in (Talking \cup Reading) \ Sends, buf \in Seq(Unit) :
         Goes(p, buf, q)
  <2>1. {"GreetingSendAcceptToken", "GreetingReceiveToken", "GreetingSendChunksize",
         "AcceptCommandSend", "AcceptCommandReceive", "PutSendTime", "PutReceiveChunk"}
        \subseteq (Talking \cup Reading) \ Sends
    BY DEF Talking, Reading, SpinsOnEof, Sends, Counts, BulkTime
  <2>2. CASE handle_greeting_send_version
    <3>1. Goes("GreetingSendVersion", Line("RMBT", <<>>), "GreetingSendAcceptToken")
      BY <2>2 DEF Goes, handle_greeting_send_version
    <3>2. QED
      BY <1>1, <2>1, <3>1, LinesUnits, TalksThenListens
  <2>3. CASE handle_greeting_send_accept_token
    <3>1. Goes("GreetingSendAcceptToken", Line("ACCEPT TOKEN", <<>>), "GreetingReceiveToken")
      BY <2>3 DEF Goes, handle_greeting_send_accept_token
    <3>2. QED
      BY <1>1, <2>1, <3>1, LinesUnits, TalksThenListens
  <2>4. CASE handle_greeting_send_ok
    <3>1. Goes("GreetingSendOk", OK, "GreetingSendChunksize")
      BY <2>4 DEF Goes, handle_greeting_send_ok
    <3>2. QED
      BY <1>1, <2>1, <3>1, LinesUnits, TalksThenListens
  <2>5. CASE handle_greeting_send_chunksize
    <3>1. Goes("GreetingSendChunksize", Line("CHUNKSIZE", <<>>), "AcceptCommandSend")
      BY <2>5 DEF Goes, handle_greeting_send_chunksize
    <3>2. QED
      BY <1>1, <2>1, <3>1, LinesUnits, TalksThenListens
  <2>6. CASE handle_main_command_send
    <3>1. Goes("AcceptCommandSend", Accept, "AcceptCommandReceive")
      BY <2>6 DEF Goes, handle_main_command_send
    <3>2. QED
      BY <1>1, <2>1, <3>1, LinesUnits, TalksThenListens
  <2>7. CASE handle_ping_send_time
    <3>1. Goes("PingSendTime", Line("TIME", <<srv.time>>), "AcceptCommandSend")
      BY <2>7 DEF Goes, handle_ping_send_time
    <3>2. QED
      BY <1>1, <2>1, <3>1, LinesUnits, TalksThenListens
  <2>8. CASE handle_put_send_bytes
    <3>1. \/ Goes("PutSendBytes", Line("TIME BYTES", <<srv.time>>), "PutSendTime")
          \/ Goes("PutSendBytes", Line("TIME BYTES", <<srv.time>>), "PutReceiveChunk")
      BY <2>8 DEF Goes, handle_put_send_bytes
    <3>2. QED
      BY <1>1, <2>1, <3>1, LinesUnits, TalksThenListens
  <2>9. CASE handle_put_send_time
    <3>1. Goes("PutSendTime", Line("TIME", <<srv.time>>), "AcceptCommandSend")
      BY <2>9 DEF Goes, handle_put_send_time
    <3>2. QED
      BY <1>1, <2>1, <3>1, LinesUnits, TalksThenListens
  <2>10. CASE handle_put_no_result_send_time
    <3>1. Goes("PutNoResultSendTime", Line("TIME", <<srv.time>>), "AcceptCommandSend")
      BY <2>10 DEF Goes, handle_put_no_result_send_time
    <3>2. QED
      BY <1>1, <2>1, <3>1, LinesUnits, TalksThenListens
  <2>11. QED
    BY <2>2, <2>3, <2>4, <2>5, <2>6, <2>7, <2>8, <2>9, <2>10
<1>5. QED
  BY <1>3, <1>4

LEMMA MioStartsClocks ==
    ASSUME MioTurn,
           \/ handle_pong_send \/ handle_put_send_ok \/ handle_put_no_result_send_ok
           \/ handle_put_time_result_send_ok
    PROVE  (NoStandoff /\ MioPace)'
<1>1. srv \in SrvState /\ OK \in Seq(Unit) /\ srv.wpos \in Nat
  BY TurnFactsMio, MioFacts, LinesUnits
<1>2. \A cmd \in Asked \ {"QUIT"} : /\ [srv EXCEPT !.clock = Started(cmd)] \in SrvState
                                    /\ [srv EXCEPT !.clock = Started(cmd)].phase = srv.phase
  <2>1. TAKE cmd \in Asked \ {"QUIT"}
  <2>2. [srv EXCEPT !.clock = Started(cmd)] \in SrvState
    BY <1>1, StartedIs
  <2>3. QED
    BY <1>1, <2>2 DEF SrvState
<1>3. {"PING", "PUT", "PUTTIMERESULT"} \subseteq Asked \ {"QUIT"}
  BY DEF Asked
<1>4. CASE handle_pong_send
  <2> DEFINE begun == [srv EXCEPT !.clock = Started("PING")]
             fin   == [begun EXCEPT !.phase = "PingReceiveOk", !.wpos = 0]
  <2>1. SrvWritesFrom("PongSend", srv.wpos, Line("PONG", <<>>), begun, fin) /\ srv.phase = "PongSend"
    BY <1>4 DEF handle_pong_send, SrvWrites, SrvWritesFrom, At
  <2>2. begun \in SrvState /\ begun.phase = "PongSend"
    BY <1>2, <1>3, <2>1
  <2> HIDE DEF begun
  <2>3. fin.phase = "PingReceiveOk"
    BY <2>2 DEF SrvState
  <2> HIDE DEF fin
  <2>4. "PingReceiveOk" \notin Sends /\ "PongSend" \in Talking \ Sends
    BY TalksThenListens DEF Reading
  <2>5. Line("PONG", <<>>) \in Seq(Unit)
    BY <1>1, LinesUnits, TalksThenListens
  <2>6. QED
    BY <1>1, <2>1, <2>2, <2>3, <2>4, <2>5, AnswerGoesOn
<1>5. CASE handle_put_send_ok
  <2> DEFINE begun == [srv EXCEPT !.clock = Started("PUT")]
             fin   == [begun EXCEPT !.phase = "PutReceiveChunk", !.wpos = 0, !.got = <<>>]
  <2>1. SrvWritesFrom("PutSendOk", srv.wpos, OK, begun, fin) /\ srv.phase = "PutSendOk"
    BY <1>5 DEF handle_put_send_ok, SrvWrites, SrvWritesFrom, At
  <2>2. begun \in SrvState /\ begun.phase = "PutSendOk"
    BY <1>2, <1>3, <2>1
  <2> HIDE DEF begun
  <2>3. fin.phase = "PutReceiveChunk"
    BY <2>2 DEF SrvState
  <2> HIDE DEF fin
  <2>4. "PutReceiveChunk" \notin Sends /\ "PutSendOk" \in Talking \ Sends
    BY TalksThenListens DEF Reading
  <2>5. QED
    BY <1>1, <2>1, <2>2, <2>3, <2>4, AnswerGoesOn
<1>6. CASE handle_put_no_result_send_ok
  <2> DEFINE anew == Anew("PutNoResultReceiveChunk")
             fin  == [anew EXCEPT !.clock = "PUTNORESULT"]
  <2>1. SrvWritesFrom("PutNoResultSendOk", srv.wpos, OK, srv, fin) /\ srv.phase = "PutNoResultSendOk"
    BY <1>6 DEF handle_put_no_result_send_ok, SrvWrites, SrvWritesFrom, At
  <2>2. anew \in SrvState /\ anew.phase = "PutNoResultReceiveChunk"
    BY <1>1, AnewIs DEF Reading
  <2> HIDE DEF anew
  <2>3. fin.phase = "PutNoResultReceiveChunk"
    BY <2>2 DEF SrvState
  <2> HIDE DEF fin
  <2>4. "PutNoResultReceiveChunk" \notin Sends /\ "PutNoResultSendOk" \in Talking \ Sends
    BY TalksThenListens DEF Reading
  <2>5. QED
    BY <1>1, <2>1, <2>3, <2>4, AnswerGoesOn
<1>7. CASE handle_put_time_result_send_ok
  <2> DEFINE begun == [srv EXCEPT !.clock = Started("PUTTIMERESULT")]
             anew  == Anew("PutTimeResultReceiveChunk")
             fin   == [anew EXCEPT !.clock = "PUTTIMERESULT"]
             pos   == IF srv.clock = "none" THEN 0 ELSE srv.wpos
  <2>1. SrvWritesFrom("PutTimeResultSendOk", pos, OK, begun, fin) /\ srv.phase = "PutTimeResultSendOk"
    BY <1>7 DEF handle_put_time_result_send_ok, SrvWritesFrom, At
  <2>2. begun \in SrvState /\ begun.phase = "PutTimeResultSendOk" /\ pos \in Nat
    BY <1>1, <1>2, <1>3, <2>1
  <2>3. anew \in SrvState /\ anew.phase = "PutTimeResultReceiveChunk"
    BY <1>1, AnewIs DEF Reading
  <2> HIDE DEF anew, begun, pos
  <2>4. fin.phase = "PutTimeResultReceiveChunk"
    BY <2>3 DEF SrvState
  <2> HIDE DEF fin
  <2>5. "PutTimeResultReceiveChunk" \notin Sends /\ "PutTimeResultSendOk" \in Talking \ Sends
    BY TalksThenListens DEF Reading
  <2>6. QED
    BY <1>1, <2>1, <2>2, <2>4, <2>5, AnswerGoesOn
<1>8. QED
  BY <1>4, <1>5, <1>6, <1>7

LEMMA ReadsSome ==
    ASSUME CommandsInv, NEW space \in Nat, NEW data \in Pieces(toServer, space)
    PROVE  /\ data \in Seq(Unit) /\ Len(data) \in Nat /\ Len(data) >= 1 /\ Len(data) <= space
           /\ data # <<>> /\ toServer # <<>> /\ LastOf(data) \in Unit
<1>1. toServer \in Seq(Unit) /\ Len(toServer) \in Nat
  BY UserFacts
<1>2. data \in Seq(Unit) /\ Len(data) \in 1..space /\ Len(data) <= Len(toServer)
  BY <1>1, PieceFacts
<1>3. PICK n \in Nat : n = Len(data)
  BY <1>2
<1>4. data # <<>> /\ toServer # <<>>
  <2>1. (data = <<>> => Len(data) = 0) /\ (toServer = <<>> => Len(toServer) = 0)
    BY ArgFacts
  <2>2. QED
    BY <1>1, <1>2, <2>1
<1>5. n \in 1..Len(data)
  BY <1>2, <1>3
<1>6. LastOf(data) \in Unit
  BY <1>2, <1>3, <1>5 DEF LastOf
<1>7. QED
  BY <1>2, <1>4, <1>6

LEMMA MioTellsTime ==
    ASSUME MioTurn, handle_get_chunks_send_time \/ handle_get_time_send_time
    PROVE  (NoStandoff /\ MioPace)'
<1>1. PICK p \in Talking \ Sends : SendTime(p)
  BY TalksThenListens DEF handle_get_chunks_send_time, handle_get_time_send_time
<1>2. srv \in SrvState /\ toClient \in Seq(Unit) /\ Len(toClient) <= Cap
  BY TurnFactsMio, MioFacts
<1> DEFINE line == Line("TIME", <<srv.time>>)
           out  == Taken(toClient, line, 0)
<1>3. /\ srv.phase = p /\ out # <<>> /\ toClient' = toClient \o out
      /\ \/ srv' = [srv EXCEPT !.phase = "AcceptCommandSend", !.wpos = 0, !.clock = "none"]
         \/ \E done : srv' = [srv EXCEPT !.wpos = done, !.clock = "none"]
  BY <1>1 DEF SendTime, At
<1>4. srv'.phase \in {p, "AcceptCommandSend"}
  <2>1. ASSUME NEW done, srv' = [srv EXCEPT !.wpos = done, !.clock = "none"]
        PROVE  srv'.phase = p
    BY <1>2, <1>3, <2>1 DEF SrvState
  <2>2. CASE srv' = [srv EXCEPT !.phase = "AcceptCommandSend", !.wpos = 0, !.clock = "none"]
    BY <1>2, <2>2 DEF SrvState
  <2>3. QED
    BY <1>3, <2>1, <2>2
<1>5. line \in Seq(Unit) /\ Len(line) \in Nat
  <2>1. "TIME" \in Words
    BY TalksThenListens
  <2>2. line \in Seq(Unit)
    BY <1>2, <2>1, LinesUnits
  <2>3. QED
    BY <2>2
<1>6. out \in Seq(Unit)
  <2>1. PICK pos \in 0..Len(line) : pos = 0
    BY <1>5
  <2> HIDE DEF line
  <2>2. Taken(toClient, line, pos) \in Seq(Unit)
    BY <1>2, <1>5, TakenFacts
  <2>3. QED
    BY <2>1, <2>2
<1> HIDE DEF out
<1>7. toClient' # <<>>
  BY <1>2, <1>3, <1>6, JoinsSome
<1>8. QED
  BY <1>3, <1>4, <1>7, PlainAnswer, TalksThenListens

LEMMA MioReports ==
    ASSUME MioTurn, handle_put_time_result_send_time
    PROVE  (NoStandoff /\ MioPace)'
<1> DEFINE line == Line("TIMERESULT", <<srv.points>>)
           buf  == line \o SubSeq(Chunk(srv.size, TRUE), Len(line) + 1, srv.size)
           anew == Anew("AcceptCommandSend")
           fin  == [anew EXCEPT !.points = @ + 1]
<1>1. srv.phase = "PutTimeResultSendTimeResult"
      /\ SrvWritesFrom("PutTimeResultSendTimeResult", srv.wpos, buf, srv, fin)
  BY DEF handle_put_time_result_send_time, SrvWrites, SrvWritesFrom, At
<1>2. srv \in SrvState /\ srv.wpos \in Nat /\ Owned(srv, user.cmd)
  BY TurnFactsMio, MioFacts, StateFacts
<1>3. srv.size \in Sizes
  BY <1>1, <1>2 DEF Owned, Sized
<1>4. <<srv.points>> \in Seq(Nat) /\ srv.size \in Nat /\ srv.size >= 2
  BY <1>2, <1>3, SizeFacts, StateFacts, ArgFacts
<1>5. buf \in Seq(Unit)
  BY <1>4, ReportFacts
<1>6. anew \in SrvState /\ anew.phase = "AcceptCommandSend"
  BY <1>2, AnewIs DEF Talking
<1> HIDE DEF buf, anew
<1>7. fin.phase = "AcceptCommandSend"
  BY <1>6 DEF SrvState
<1> HIDE DEF fin
<1>8. "AcceptCommandSend" \notin Sends /\ "PutTimeResultSendTimeResult" \in Talking \ Sends
  BY TalksThenListens
<1>9. QED
  BY <1>1, <1>2, <1>5, <1>7, <1>8, AnswerGoesOn

LEMMA MioUpgrades ==
    ASSUME MioTurn, handle_greeting_receive_connection_type
    PROVE  (NoStandoff /\ MioPace)'
<1>1. /\ CommandsInv' /\ server' = "mio" /\ BothOpen' /\ ByUnit(user'.todo)
      /\ CommandsInv /\ server = "mio"
  BY TurnFactsMio
<1>2. srv \in SrvState /\ toServer \in Seq(Unit) /\ srv.got \in Seq(Unit)
  BY <1>1, MioFacts, StateFacts
<1>3. PICK data \in Pieces(toServer, Cap) :
         /\ srv.phase = "GreetingReceiveConnectionType"
         /\ toServer' = Rest(toServer, data)
         /\ IF EndsLine(srv.got \o data) THEN srv' = Anew("GreetingSendVersion")
            ELSE srv' = [srv EXCEPT !.got = srv.got \o data] /\ UNCHANGED toClient
         /\ UNCHANGED <<gone, splitOk>>
  BY DEF handle_greeting_receive_connection_type, At
<1>4. CASE srv' = Anew("GreetingSendVersion")
  <2>1. "GreetingSendVersion" \in Talking \ Sends
    BY TalksThenListens
  <2>2. srv'.phase = "GreetingSendVersion"
    BY <1>2, <1>4, <2>1, AnewIs
  <2>3. (srv.phase \in Talking \ Sends)'
    BY <2>1, <2>2
  <2>4. QED
    BY <1>1, <2>3, MioNext
<1>5. CASE /\ ~EndsLine(srv.got \o data) /\ UNCHANGED toClient
           /\ srv' = [srv EXCEPT !.got = srv.got \o data]
  <2>1. data \in Seq(Unit) /\ data # <<>> /\ toServer # <<>>
    BY <1>1, Bounds, ReadsSome
  <2>2. srv.got \o data # <<>>
    BY <1>2, <2>1, JoinsSome
  <2>3. /\ srv'.got = srv.got \o data /\ srv'.phase = srv.phase /\ srv'.size = srv.size
        /\ srv'.made = srv.made
    BY <1>2, <1>5 DEF SrvState
  <2>4. Unread(srv', splitOk')
    BY <1>3, <1>5, <2>3 DEF Unread, Awaits, Uploading, Takes2
  <2>5. srv.phase \in Reading
    BY <1>3 DEF Reading
  <2>6. QED
    BY <1>5, <2>1, <2>2, <2>3, <2>4, <2>5, ReadsPart
<1>6. QED
  BY <1>3, <1>4, <1>5

-----------------------------------------------------------------------------
(* What the mio server reads.                                              *)

LEMMA JoinEnds ==
    ASSUME NEW got \in Seq(Unit), NEW data \in Seq(Unit), data # <<>>
    PROVE  LastOf(got \o data) = LastOf(data)
<1>1. PICK m \in Nat, n \in Nat : m = Len(got) /\ n = Len(data)
  OBVIOUS
<1>2. n # 0
  BY <1>1
<1>3. Len(got \o data) = m + n
  BY <1>1, JoinOf
<1>4. n \in 1..Len(data) /\ n = Len(data)
  BY <1>1, <1>2
<1>5. (got \o data)[m + n] = data[n]
  BY <1>1, <1>4, JoinOf
<1>6. QED
  BY <1>1, <1>3, <1>5 DEF LastOf

\* A piece of what the client says, at the mio server.
LEMMA MioPiece ==
    ASSUME MioTurn, srv.phase \in Reading, NEW space \in Nat, NEW data \in Pieces(toServer, space)
    PROVE  /\ srv \in SrvState /\ srv.got \in Seq(Unit) /\ data \in Seq(Unit) /\ data # <<>>
           /\ toServer # <<>> /\ LastOf(data) \in Unit
           /\ srv.got \o data # <<>> /\ LastOf(srv.got \o data) = LastOf(data)
           /\ CommandsInv /\ Unread(srv, splitOk) /\ Agenda = {user.todo}
           /\ toClient = <<>> /\ user.todo # <<>>
<1>1. CommandsInv /\ Unread(srv, splitOk) /\ server = "mio" /\ BothOpen
  BY TurnFactsMio
<1>2. srv \in SrvState /\ srv.got \in Seq(Unit)
  BY <1>1, MioFacts, StateFacts
<1>3. data \in Seq(Unit) /\ data # <<>> /\ toServer # <<>> /\ LastOf(data) \in Unit
  BY <1>1, ReadsSome
<1>4. srv.got \o data # <<>> /\ LastOf(srv.got \o data) = LastOf(data)
  BY <1>2, <1>3, JoinsSome, JoinEnds
<1>5. PICK todo \in Agenda : Listening(srv, user, toServer, toClient, todo)
  BY <1>1, <1>3, MioHears
<1>6. Agenda = {user.todo}
  BY <1>1, MioScenes
<1>7. toClient = <<>> /\ user.todo # <<>>
  BY <1>5, <1>6 DEF Listening
<1>8. QED
  BY <1>1, <1>2, <1>3, <1>4, <1>6, <1>7

\* It is kept: there is more to come.
LEMMA KeepsPart ==
    ASSUME MioTurn, srv.phase \in Reading, NEW space \in Nat, NEW data \in Pieces(toServer, space),
           UNCHANGED toClient, srv' = [srv EXCEPT !.got = srv.got \o data],
           srv.phase \in {"GreetingReceiveConnectionType", "GreetingReceiveToken"} =>
              ~EndsLine(srv.got \o data),
           srv.phase = "AcceptCommandReceive" /\ EndsLine(srv.got \o data) =>
              Unknown(srv.got \o data),
           srv.phase \in Awaits => splitOk',
           srv.phase \in Uploading => Len(srv.got \o data) < srv.size
    PROVE  (NoStandoff /\ MioPace)'
<1>1. srv \in SrvState /\ toServer # <<>> /\ srv.got \o data # <<>>
  BY MioPiece
<1> DEFINE read == srv.got \o data
<1>2. srv' = [srv EXCEPT !.got = read]
  OBVIOUS
<1>3. /\ srv.phase \in {"GreetingReceiveConnectionType", "GreetingReceiveToken"} =>
              ~EndsLine(read)
      /\ srv.phase = "AcceptCommandReceive" /\ EndsLine(read) => Unknown(read)
      /\ srv.phase \in Awaits => splitOk'
      /\ srv.phase \in Uploading => Len(read) < srv.size
      /\ read # <<>>
  BY <1>1
<1> HIDE DEF read
<1>4. /\ srv'.got = read /\ srv'.phase = srv.phase /\ srv'.size = srv.size
      /\ srv'.made = srv.made
  BY <1>1, <1>2 DEF SrvState
<1>5. Unread(srv', splitOk')
  BY <1>3, <1>4 DEF Unread
<1>6. QED
  BY <1>1, <1>3, <1>4, <1>5, ReadsPart

LEMMA MioReadsToken ==
    ASSUME MioTurn, handle_greeting_receive_token
    PROVE  (NoStandoff /\ MioPace)'
<1>1. PICK data \in Pieces(toServer, Cap) :
         /\ srv.phase = "GreetingReceiveToken" /\ UNCHANGED toClient
         /\ srv' = TokenRead(data)
  BY DEF handle_greeting_receive_token, SrvReads, At
<1>2. /\ srv.phase \in Reading /\ srv.phase \notin Awaits \cup Uploading
      /\ srv.phase # "AcceptCommandReceive" /\ Cap \in Nat
  BY <1>1, Bounds DEF Reading, SpinsOnEof, Awaits, Uploading, Takes2
<1>3. /\ srv \in SrvState /\ toServer # <<>> /\ srv.got \o data # <<>>
      /\ LastOf(srv.got \o data) = LastOf(data) /\ data # <<>>
  BY <1>2, MioPiece
<1>4. CASE EndsLine(data)
  <2>1. srv' = [srv EXCEPT !.phase = "GreetingSendOk", !.got = <<>>]
    BY <1>1, <1>4 DEF TokenRead
  <2>2. srv'.phase = "GreetingSendOk"
    BY <1>3, <2>1 DEF SrvState
  <2>3. QED
    BY <1>1, <1>2, <1>3, <2>2, ReadsPart, TalksThenListens
<1>5. CASE ~EndsLine(data)
  <2>1. srv' = [srv EXCEPT !.got = srv.got \o data]
    BY <1>1, <1>3, <1>5 DEF TokenRead, SrvState
  <2>2. ~EndsLine(srv.got \o data)
    BY <1>3, <1>5 DEF EndsLine
  <2>3. QED
    BY <1>1, <1>2, <2>1, <2>2, KeepsPart
<1>6. QED
  BY <1>4, <1>5

\* An OK that does not come whole comes in two pieces.
LEMMA OkInPieces ==
    ASSUME MioTurn, srv.phase \in Awaits, NEW data \in Pieces(toServer, Cap),
           ~splitOk, ~CutsOk(data)
    PROVE  srv.got = <<>> /\ data = OK
<1>1. srv.phase \in Reading /\ srv.phase \notin Takes2 /\ Cap \in Nat
  BY PhasesApart, Bounds DEF Awaits, Takes2
<1>2. /\ CommandsInv /\ Unread(srv, splitOk) /\ data \in Seq(Unit) /\ data # <<>>
      /\ srv.got \in Seq(Unit) /\ server = "mio"
  BY <1>1, MioPiece, TurnFactsMio
<1>3. srv.got = <<>>
  BY <1>2 DEF Unread
<1>4. srv.got \o data = data
  BY <1>2, <1>3
<1>5. PICK todo \in Agenda : /\ Heeds(todo)
                             /\ \E m \in {0, srv.size} :
                                   HasRead(todo, m, srv.got \o data, Rest(toServer, data))
  BY <1>1, <1>2, MioListens
<1>6. HasRead(todo, 0, data, Rest(toServer, data))
  BY <1>1, <1>4, <1>5 DEF HasRead
<1>7. Takes(srv.phase, srv.size, todo)
  BY <1>5 DEF Heeds, Awaits
<1>8. todo[1].say = Line("OK", <<>>) /\ OK = Line("OK", <<>>)
  BY <1>7, TakesOk DEF OK
<1>9. "OK" \in Words /\ <<>> \in Seq(Nat)
  BY ArgFacts DEF Words
<1>10. Len(data) \in {1, 2} /\ (Len(data) = 2 => data = OK)
  BY <1>6, <1>8, <1>9, LineIsRead
<1>11. Len(data) # 1
  <2>1. SUFFICES ASSUME Len(data) = 1 PROVE FALSE
    OBVIOUS
  <2>2. LastOf(data) = todo[1].say[0 + Len(data)]
    BY <1>6 DEF HasRead
  <2>3. 0 + 1 = 1
    OBVIOUS
  <2>4. LastOf(data) = OK[1]
    BY <1>8, <2>1, <2>2, <2>3
  <2>5. QED
    BY <2>4 DEF CutsOk
<1>12. QED
  BY <1>3, <1>10, <1>11

LEMMA MioReadsOk ==
    ASSUME MioTurn,
           \/ handle_get_chunks_receive_ok \/ handle_get_time_receive_ok \/ handle_ping_receive_ok
    PROVE  (NoStandoff /\ MioPace)'
<1>1. /\ srv \in SrvState /\ splitOk \in BOOLEAN /\ Cap \in Nat /\ Len(OK) = 2
      /\ \A data : CutsOk(data) \in BOOLEAN
  BY TurnFactsMio, MioFacts, Bounds, OkUnits DEF CutsOk
<1>2. ASSUME srv.phase \in Awaits, NEW data \in Pieces(toServer, Cap), UNCHANGED toClient,
             splitOk' = (splitOk \/ CutsOk(data)),
             \/ srv'.phase \in Talking \ Sends
             \/ /\ srv' = [srv EXCEPT !.got = srv.got \o data]
                /\ ~(srv.got = <<>> /\ data = OK)
      PROVE  (NoStandoff /\ MioPace)'
  <2>1. /\ srv.phase \in Reading /\ srv.phase \notin Uploading
        /\ srv.phase \notin {"GreetingReceiveConnectionType", "GreetingReceiveToken",
                             "AcceptCommandReceive"}
    BY <1>2, PhasesApart DEF Awaits, Uploading, Takes2
  <2>2. toServer # <<>>
    BY <1>1, <1>2, <2>1, MioPiece
  <2>3. CASE srv'.phase \in Talking \ Sends
    BY <1>2, <2>1, <2>2, <2>3, ReadsPart
  <2>4. CASE srv' = [srv EXCEPT !.got = srv.got \o data] /\ ~(srv.got = <<>> /\ data = OK)
    <3>1. splitOk'
      BY <1>1, <1>2, <2>4, OkInPieces
    <3>2. QED
      BY <1>1, <1>2, <2>1, <2>4, <3>1, KeepsPart
  <2>5. QED
    BY <1>2, <2>3, <2>4
<1>3. ASSUME NEW data, NEW next \in Talking, NEW time, NEW clock, srv' = OkRead(data, next, time, clock)
      PROVE  \/ srv'.phase = next
             \/ /\ srv' = [srv EXCEPT !.got = srv.got \o data]
                /\ ~(srv.got = <<>> /\ data = OK)
  <2>1. CASE srv.got = <<>> /\ data = OK
    <3>1. srv' = [srv EXCEPT !.phase = next, !.time = time, !.clock = clock]
      BY <1>3, <2>1 DEF OkRead
    <3>2. QED
      BY <1>1, <3>1 DEF SrvState
  <2>2. CASE ~(srv.got = <<>> /\ data = OK)
    BY <1>1, <1>3, <2>2 DEF OkRead, SrvState
  <2>3. QED
    BY <2>1, <2>2
<1>4. CASE handle_get_chunks_receive_ok
  <2>1. PICK time \in {0, 1}, data \in Pieces(toServer, Cap) :
           /\ srv.phase = "GetChunksReceiveOK" /\ UNCHANGED toClient
           /\ splitOk' = (splitOk \/ CutsOk(data))
           /\ srv' = OkRead(data, "GetChunksSendTime", time, srv.clock)
    BY <1>4 DEF handle_get_chunks_receive_ok, SrvReads, At
  <2>2. srv.phase \in Awaits /\ "GetChunksSendTime" \in Talking \ Sends
    BY <2>1, TalksThenListens DEF Awaits
  <2>3. QED
    BY <1>2, <1>3, <2>1, <2>2
<1>5. CASE handle_get_time_receive_ok
  <2>1. PICK time \in {0, 1}, data \in Pieces(toServer, Cap) :
           /\ srv.phase = "GetTimeReceiveOk" /\ UNCHANGED toClient
           /\ splitOk' = (splitOk \/ CutsOk(data))
           /\ srv' = OkRead(data, "GetTimeSendTime", time, srv.clock)
    BY <1>5 DEF handle_get_time_receive_ok, SrvReads, At
  <2>2. srv.phase \in Awaits /\ "GetTimeSendTime" \in Talking \ Sends
    BY <2>1, TalksThenListens DEF Awaits
  <2>3. QED
    BY <1>2, <1>3, <2>1, <2>2
<1>6. CASE handle_ping_receive_ok
  <2>1. PICK time \in {0, 1}, data \in Pieces(toServer, Cap) :
           /\ srv.phase = "PingReceiveOk" /\ UNCHANGED toClient
           /\ splitOk' = (splitOk \/ CutsOk(data))
           /\ srv' = PingOkRead(data, time, "none")
    BY <1>6 DEF handle_ping_receive_ok, SrvReads, At
  <2>2. srv.phase \in Awaits /\ "PingSendTime" \in Talking \ Sends
    BY <2>1, TalksThenListens DEF Awaits
  <2> DEFINE same == SubSeq(data, 1, Least(Len(OK), Len(data))) = OK
  <2>3. CASE same
    <3>1. srv' = [srv EXCEPT !.phase = "PingSendTime", !.time = time, !.clock = "none", !.got = <<>>]
      BY <2>1, <2>3 DEF PingOkRead
    <3>2. srv'.phase = "PingSendTime"
      BY <1>1, <3>1 DEF SrvState
    <3>3. QED
      BY <1>2, <2>1, <2>2, <3>2
  <2>4. CASE ~same
    <3>1. srv' = [srv EXCEPT !.got = srv.got \o data]
      BY <1>1, <2>1, <2>4 DEF PingOkRead, SrvState
    <3>2. data # OK
      <4>1. Least(Len(OK), Len(OK)) = 2 /\ OK \in Seq(Unit)
        BY <1>1, OkUnits DEF Least
      <4>2. SubSeq(OK, 1, 2) = OK
        BY <1>1, <4>1
      <4>3. QED
        BY <2>4, <4>1, <4>2
    <3>3. QED
      BY <1>2, <2>1, <2>2, <3>1, <3>2
  <2>5. QED
    BY <2>3, <2>4
<1>7. QED
  BY <1>4, <1>5, <1>6

-----------------------------------------------------------------------------
\* A piece of a chunk is kept, a whole one is answered or makes room for the next.
LEMMA ChunkGetsOn ==
    ASSUME MioTurn, srv.phase \in Uploading,
           NEW data \in Pieces(toServer, srv.size - Len(srv.got)), UNCHANGED toClient,
           \/ Len(srv.got \o data) < srv.size /\ srv' = [srv EXCEPT !.got = srv.got \o data]
           \/ srv'.phase \in Talking \ Sends
           \/ /\ srv.phase \in Takes2 /\ srv'.phase = srv.phase /\ srv'.size = srv.size
              /\ srv'.made = srv.made /\ srv'.got = <<>>
    PROVE  (NoStandoff /\ MioPace)'
<1>1. CommandsInv /\ server = "mio"
  BY TurnFactsMio
<1>2. srv \in SrvState /\ toServer \in Seq(Unit)
  BY <1>1, MioFacts
<1>3. /\ srv.size \in Sizes /\ srv.size \in Nat /\ srv.size >= 2 /\ srv.phase \in Reading
  BY <1>1, ChunkPiece
<1>4. PICK space \in Nat : space = srv.size - Len(srv.got)
  <2>1. Len(srv.got) \in Nat
    BY <1>2, StateFacts
  <2>2. PICK room \in Int : room = srv.size - Len(srv.got)
    BY <1>3, <2>1
  <2>3. data \in Pieces(toServer, room)
    BY <2>2
  <2>4. room \in Nat
    BY <1>2, <2>3, PieceHasRoom
  <2>5. QED
    BY <2>2, <2>4
<1>5. data \in Pieces(toServer, space)
  BY <1>4
<1>6. /\ srv.phase \notin Awaits /\ srv.phase # "AcceptCommandReceive"
      /\ srv.phase \notin {"GreetingReceiveConnectionType", "GreetingReceiveToken"}
  BY DEF Uploading, Takes2, Awaits
<1>7. toServer # <<>>
  BY <1>3, <1>5, MioPiece
<1>8. CASE Len(srv.got \o data) < srv.size /\ srv' = [srv EXCEPT !.got = srv.got \o data]
  BY <1>3, <1>5, <1>6, <1>8, KeepsPart
<1>9. CASE srv'.phase \in Talking \ Sends
  BY <1>3, <1>7, <1>9, ReadsPart
<1>10. CASE /\ srv.phase \in Takes2 /\ srv'.phase = srv.phase /\ srv'.size = srv.size
            /\ srv'.made = srv.made /\ srv'.got = <<>>
  <2>1. Len(srv'.got) = 0
    BY <1>10, ArgFacts
  <2>2. Unread(srv', splitOk')
    <3>1. Len(srv'.got) < srv'.size
      BY <1>3, <1>10, <2>1
    <3>2. QED
      BY <1>6, <1>10, <3>1 DEF Unread
  <2>3. QED
    BY <1>3, <1>7, <1>10, <2>2, ReadsPart
<1>11. QED
  BY <1>8, <1>9, <1>10

LEMMA MioReadsChunks ==
    ASSUME MioTurn,
           \/ handle_put_receive_chunk \/ handle_put_no_result_receive_chunk
           \/ handle_put_time_result_receive_chunk
    PROVE  (NoStandoff /\ MioPace)'
<1>1. srv \in SrvState /\ srv'.status = "open"
  BY TurnFactsMio, MioFacts DEF BothOpen, ServerOpen
<1>2. "PutSendBytes" \in Talking \ Sends /\ "PutNoResultSendTime" \in Talking \ Sends
      /\ "PutTimeResultSendTimeResult" \in Talking \ Sends
  BY TalksThenListens
<1>3. ASSUME NEW chunk, NEW last, NEW more, srv' = Ending(chunk, last, more),
             more = [srv EXCEPT !.got = <<>>] \/ \E k : more = [srv EXCEPT !.got = <<>>, !.points = k]
      PROVE  \/ srv' = last
             \/ /\ srv'.phase = srv.phase /\ srv'.size = srv.size
                /\ srv'.made = srv.made /\ srv'.got = <<>>
  <2>1. /\ more.phase = srv.phase /\ more.size = srv.size
        /\ more.made = srv.made /\ more.got = <<>>
    BY <1>1, <1>3 DEF SrvState
  <2>2. [more EXCEPT !.status = "refused"].status = "refused"
    <3>1. CASE more = [srv EXCEPT !.got = <<>>]
      BY <1>1, <3>1 DEF SrvState
    <3>2. ASSUME NEW k, more = [srv EXCEPT !.got = <<>>, !.points = k]
          PROVE  [more EXCEPT !.status = "refused"].status = "refused"
      BY <1>1, <3>2 DEF SrvState
    <3>3. QED
      BY <1>3, <3>1, <3>2
  <2>3. srv' = last \/ srv' = more \/ srv' = [more EXCEPT !.status = "refused"]
    BY <1>3 DEF Ending
  <2>4. srv' = last \/ srv' = more
    BY <1>1, <2>2, <2>3
  <2>5. QED
    BY <2>1, <2>4
<1>4. CASE handle_put_receive_chunk
  <2>1. PICK time \in {0, 1}, data \in Pieces(toServer, srv.size - Len(srv.got)) :
           /\ srv.phase = "PutReceiveChunk" /\ UNCHANGED toClient
           /\ srv' = IF Len(srv.got \o data) < srv.size THEN [srv EXCEPT !.got = srv.got \o data]
                     ELSE [srv EXCEPT !.phase = "PutSendBytes", !.got = srv.got \o data, !.time = time]
    BY <1>4 DEF handle_put_receive_chunk, ReceivesChunk, SrvReads, At
  <2>2. srv.phase \in Uploading
    BY <2>1 DEF Uploading
  <2>3. \A got : [srv EXCEPT !.phase = "PutSendBytes", !.got = got, !.time = time].phase
                 = "PutSendBytes"
    BY <1>1 DEF SrvState
  <2>4. QED
    BY <1>2, <2>1, <2>2, <2>3, ChunkGetsOn
<1>5. CASE handle_put_no_result_receive_chunk
  <2> DEFINE anew == Anew("PutNoResultSendTime")
  <2>1. PICK time \in {0, 1}, data \in Pieces(toServer, srv.size - Len(srv.got)) :
           /\ srv.phase = "PutNoResultReceiveChunk" /\ UNCHANGED toClient
           /\ srv' = IF Len(srv.got \o data) < srv.size THEN [srv EXCEPT !.got = srv.got \o data]
                     ELSE Ending(srv.got \o data, [anew EXCEPT !.time = time],
                                 [srv EXCEPT !.got = <<>>])
    BY <1>5 DEF handle_put_no_result_receive_chunk, ReceivesChunk, SrvReads, At
  <2>2. srv.phase \in Uploading /\ srv.phase \in Takes2
    BY <2>1 DEF Uploading, Takes2
  <2>3. anew \in SrvState /\ anew.phase = "PutNoResultSendTime"
    BY <1>1, <1>2, AnewIs
  <2> HIDE DEF anew
  <2> DEFINE last == [anew EXCEPT !.time = time]
  <2>4. last.phase = "PutNoResultSendTime"
    BY <2>3 DEF SrvState
  <2> HIDE DEF last
  <2>5. CASE Len(srv.got \o data) < srv.size
    BY <2>1, <2>2, <2>5, ChunkGetsOn
  <2>6. CASE ~(Len(srv.got \o data) < srv.size)
    <3>1. srv' = Ending(srv.got \o data, last, [srv EXCEPT !.got = <<>>])
      BY <2>1, <2>6 DEF last
    <3>2. \/ srv'.phase = "PutNoResultSendTime"
          \/ /\ srv'.phase = srv.phase /\ srv'.size = srv.size
             /\ srv'.made = srv.made /\ srv'.got = <<>>
      BY <1>3, <2>4, <3>1
    <3>3. QED
      BY <1>2, <2>1, <2>2, <3>2, ChunkGetsOn
  <2>7. QED
    BY <2>5, <2>6
<1>6. CASE handle_put_time_result_receive_chunk
  <2> DEFINE anew == Anew("PutTimeResultSendTimeResult")
             last == [anew EXCEPT !.points = @ + 1]
             more == [srv EXCEPT !.got = <<>>, !.points = @ + 1]
  <2>1. PICK data \in Pieces(toServer, srv.size - Len(srv.got)) :
           /\ srv.phase = "PutTimeResultReceiveChunk" /\ UNCHANGED toClient
           /\ srv' = IF Len(srv.got \o data) < srv.size THEN [srv EXCEPT !.got = srv.got \o data]
                     ELSE Ending(srv.got \o data, last, more)
    BY <1>6 DEF handle_put_time_result_receive_chunk, ReceivesChunk, SrvReads, At
  <2>2. srv.phase \in Uploading /\ srv.phase \in Takes2
    BY <2>1 DEF Uploading, Takes2
  <2>3. anew \in SrvState /\ anew.phase = "PutTimeResultSendTimeResult"
    BY <1>1, <1>2, AnewIs
  <2> HIDE DEF anew
  <2>4. last.phase = "PutTimeResultSendTimeResult"
    BY <2>3 DEF SrvState
  <2>5. \E k : more = [srv EXCEPT !.got = <<>>, !.points = k]
    OBVIOUS
  <2> HIDE DEF last, more
  <2>6. CASE Len(srv.got \o data) < srv.size
    BY <2>1, <2>2, <2>6, ChunkGetsOn
  <2>7. CASE ~(Len(srv.got \o data) < srv.size)
    <3>1. srv' = Ending(srv.got \o data, last, more)
      BY <2>1, <2>7
    <3>2. \/ srv'.phase = "PutTimeResultSendTimeResult"
          \/ /\ srv'.phase = srv.phase /\ srv'.size = srv.size
             /\ srv'.made = srv.made /\ srv'.got = <<>>
      BY <1>3, <2>4, <2>5, <3>1
    <3>3. QED
      BY <1>2, <2>1, <2>2, <3>2, ChunkGetsOn
  <2>8. QED
    BY <2>6, <2>7
<1>7. QED
  BY <1>4, <1>5, <1>6

-----------------------------------------------------------------------------
(* The mio server's chunks.                                                *)

LEMMA SendsOn ==
    ASSUME MioTurn, srv'.phase \in Sends,
           Level(srv', user', toClient'), Sizing(srv', user')
    PROVE  (NoStandoff /\ MioPace)'
<1>1. server' = "mio"
  BY TurnFactsMio
<1>2. srv'.phase \notin Reading
  BY PhasesApart DEF Sends, Counts, BulkTime, Talking
<1>3. NoStandoff'
  BY <1>1, <1>2 DEF NoStandoff, ServerWaits
<1>4. Unread(srv', splitOk')
  BY <1>2 DEF Unread, Uploading, Takes2, Awaits, Reading, SpinsOnEof
<1>5. QED
  BY <1>3, <1>4 DEF MioPace

LEMMA MioReadsCommand ==
    ASSUME MioTurn, handle_main_command_receive
    PROVE  (NoStandoff /\ MioPace)'
<1>1. PICK over \in BOOLEAN, data \in Pieces(toServer, Cap) :
        /\ srv.phase = "AcceptCommandReceive" /\ toServer' = Rest(toServer, data)
        /\ UNCHANGED <<toClient, gone>> /\ splitOk' = (splitOk \/ CutsOk(data))
        /\ srv' = IF EndsLine(srv.got \o data) THEN Command(srv.got \o data, over)
                  ELSE [srv EXCEPT !.got = srv.got \o data]
  BY DEF handle_main_command_receive, SrvReads, At
<1>2. /\ CommandsInv /\ server = "mio" /\ user' = user /\ Level(srv, user, toClient)
      /\ srv \in SrvState /\ Positions(srv) /\ user.cmd \in Asked \cup {"none"}
  BY TurnFactsMio, MioFacts
<1>3. /\ srv.phase \in Reading /\ srv.phase \notin Takes2 \cup Awaits \cup Uploading
      /\ srv.phase \notin {"GreetingReceiveConnectionType", "GreetingReceiveToken"}
      /\ srv.phase \notin Sends /\ srv.phase \notin BulkTime \cup {"GetTimeReceiveOk"}
      /\ Cap \in Nat
  BY <1>1, Bounds DEF Takes2, Awaits, Uploading, Reading, SpinsOnEof, Sends, Counts, BulkTime
<1> DEFINE read == srv.got \o data
<1>4. PICK todo \in Agenda : /\ todo # <<>> /\ toClient = <<>> /\ Heeds(todo)
                             /\ \E m \in {0, srv.size} : HasRead(todo, m, read, toServer')
  BY <1>1, <1>2, <1>3, MioListens
<1>5. toServer # <<>> /\ todo = user.todo /\ read # <<>>
  BY <1>3, <1>4, MioPiece
<1> HIDE DEF read
<1>6. HasRead(todo, 0, read, toServer')
  BY <1>3, <1>4 DEF HasRead
<1>7. Commanding(user.cmd, todo)
  BY <1>1, <1>4 DEF Heeds, Takes, Awaits, Takes2
<1>8. PICK cmd \in Asked : cmd = user.cmd
  BY <1>2, <1>7, CommandingIs
<1>9. PICK n \in {1, 2}, size \in Sizes : todo = Exchanges(cmd, n, size)
  BY <1>7, <1>8 DEF Commanding
<1> DEFINE arg == Args(cmd, n, size)
<1>10. arg \in Seq(Nat) /\ cmd \in Words
  BY ArgsAre DEF Asked, Words
<1>11. todo[1].say = Line(cmd, arg)
  BY <1>9, ExchangesOpen DEF Opens
<1> HIDE DEF arg
<1>12. /\ EndsLine(read) <=> Len(read) = 2
       /\ Len(read) = 2 => read = Line(cmd, arg)
  BY <1>6, <1>10, <1>11, LineIsRead
<1>13. CASE ~EndsLine(read)
  <2>1. srv' = [srv EXCEPT !.got = srv.got \o data] /\ ~EndsLine(srv.got \o data)
    BY <1>1, <1>13 DEF read
  <2>2. QED
    BY <1>1, <1>3, <2>1, KeepsPart
<1>14. CASE EndsLine(read) /\ cmd = "QUIT"
  <2>1. srv' = Command(Line(cmd, arg), over)
    BY <1>1, <1>12, <1>14 DEF read
  <2>2. srv' = [srv EXCEPT !.got = Line(cmd, arg)]
    BY <1>2, <1>14, <2>1, CommandIs DEF arg
  <2>3. srv' = [srv EXCEPT !.got = srv.got \o data]
    BY <1>12, <1>14, <2>2 DEF read
  <2>4. Unknown(read)
    <3>1. Len(read) = 2 /\ read[1].of = "QUIT" /\ read[2].of = "QUIT"
      BY <1>10, <1>12, <1>14, LineUnits
    <3>2. LinesOf("GETCHUNKS", read) = {}
      <4>1. 1..(Len(read) - 1) = {1}
        BY <3>1
      <4>2. 1 + 1 = 2
        OBVIOUS
      <4>3. QED
        BY <3>1, <4>1, <4>2 DEF LinesOf
    <3>3. QED
      BY <3>1, <3>2 DEF Unknown
  <2>5. Unknown(srv.got \o data)
    BY <2>4 DEF read
  <2>6. QED
    BY <1>1, <1>3, <2>3, <2>5, KeepsPart
<1>15. CASE EndsLine(read) /\ cmd # "QUIT"
  <2>1. srv' = Command(Line(cmd, arg), over)
    BY <1>1, <1>12, <1>15 DEF read
  <2>2. /\ srv'.phase = FirstPhase(cmd) /\ srv'.wpos = srv.wpos
        /\ srv'.size = IF cmd = "PING" THEN srv.size ELSE size
    BY <1>2, <1>15, <2>1, CommandIs DEF arg
  <2>3. FirstPhase(cmd) \in Talking
    BY <1>15 DEF FirstPhase, Talking
  <2>4. CASE srv'.phase \notin Sends
    BY <1>1, <1>3, <1>5, <2>2, <2>3, <2>4, ReadsPart
  <2>5. CASE srv'.phase \in Sends
    <3>1. cmd \in {"GETCHUNKS", "GETTIME"}
      BY <1>15, <2>2, <2>5 DEF FirstPhase, Sends, Counts, BulkTime
    <3>2. user'.todo[1].each = size /\ srv'.size = size
      BY <1>2, <1>5, <1>9, <2>2, <3>1, FirstEach
    <3>3. srv.wpos = 0 /\ srv'.wpos = 0
      BY <1>2, <1>3, <2>2 DEF Positions
    <3>4. Sizing(srv', user')
      BY <3>2, <3>3 DEF Sizing
    <3>5. Level(srv', user', toClient')
      <4>1. ~WrongFor(srv) /\ At0(srv) = 0 /\ At0(srv') = 0
        BY <1>3, <3>3 DEF WrongFor, At0
      <4>2. QED
        BY <1>1, <1>2, <4>1 DEF Level
    <3>6. QED
      BY <2>5, <3>4, <3>5, SendsOn
  <2>6. QED
    BY <2>4, <2>5
<1>16. QED
  BY <1>13, <1>14, <1>15

-----------------------------------------------------------------------------
LEMMA SendingFacts ==
    ASSUME MioTurn, srv.phase \in Sends
    PROVE  /\ CommandsInv /\ server = "mio" /\ user' = user /\ user'.todo = user.todo
           /\ srv \in SrvState /\ srv.wpos \in Nat
           /\ user.heard \in Nat /\ Len(toClient) \in Nat
           /\ user.todo # <<>> /\ user.todo[1].each = srv.size
           /\ srv.size \in Sizes /\ srv.size \in Nat /\ srv.size >= 2
           /\ WrongFor(srv) \/ Whole(user.heard + Len(toClient), srv.wpos, srv.size)
           /\ srv.phase = "GetChunkSendChunk" /\ srv.clock = "none" => srv.wpos = 0
<1>1. /\ CommandsInv /\ server = "mio" /\ user' = user /\ BothOpen
      /\ Level(srv, user, toClient) /\ Sizing(srv, user)
  BY TurnFactsMio
<1>2. srv \in SrvState /\ srv.wpos \in Nat /\ user.heard \in Nat /\ Len(toClient) \in Nat
  BY <1>1, MioScenes, StateFacts
<1>3. srv.phase \in Talking
  BY DEF Sends, Counts, BulkTime, Talking
<1>4. PICK todo \in Agenda : Speaking(srv, user, toServer, toClient, todo)
  BY <1>1, <1>3, MioTalks
<1>5. srv.size \in Sizes
  BY <1>1, <1>4, SendsFacts
<1>6. user.todo # <<>>
  BY <1>1, <1>4, MioScenes DEF Speaking
<1>7. srv.size \in Nat /\ srv.size >= 2
  BY <1>5, SizeFacts
<1>8. /\ user.todo[1].each = srv.size
      /\ srv.phase = "GetChunkSendChunk" /\ srv.clock = "none" => srv.wpos = 0
  BY <1>1, <1>6 DEF Sizing
<1>9. WrongFor(srv) \/ Whole(user.heard + Len(toClient), srv.wpos, srv.size)
  BY <1>1, <1>6, <1>8 DEF Level, At0
<1>10. QED
  BY <1>1, <1>2, <1>5, <1>6, <1>7, <1>8, <1>9

\* d units of a chunk of `len` are written.
LEMMA LevelOn ==
    ASSUME MioTurn, srv.phase \in Sends, NEW d \in Nat, NEW len \in Nat,
           NEW w \in Nat, w = srv.wpos + d, Len(toClient') = Len(toClient) + d, w <= len,
           len = IF srv.phase \in Counts THEN srv.size ELSE TimeSize(srv),
           At0(srv') = IF w = len THEN 0 ELSE w,
           srv.phase \in BulkTime =>
              /\ srv'.phase \in BulkTime \cup {"GetTimeReceiveOk"} /\ srv'.size = srv.size
              /\ TimeSize(srv') = TimeSize(srv)
    PROVE  Level(srv', user', toClient')
<1>1. /\ user' = user /\ srv.wpos \in Nat
      /\ user.heard \in Nat /\ Len(toClient) \in Nat
      /\ user.todo # <<>> /\ user.todo[1].each = srv.size
      /\ srv.size \in Nat \ {0}
      /\ WrongFor(srv) \/ Whole(user.heard + Len(toClient), srv.wpos, srv.size)
  BY SendingFacts
<1>2. Counts \cap (BulkTime \cup {"GetTimeReceiveOk"}) = {}
  BY DEF Counts, BulkTime
<1>3. CASE WrongFor(srv)
  <2>1. srv.phase \in BulkTime /\ TimeSize(srv) # srv.size
    BY <1>2, <1>3 DEF WrongFor, Sends
  <2>2. WrongFor(srv')
    BY <2>1 DEF WrongFor
  <2>3. QED
    BY <2>2 DEF Level
<1>4. CASE ~WrongFor(srv)
  <2>1. len = srv.size
    BY <1>2, <1>4 DEF WrongFor, Sends
  <2>2. PICK x \in Nat, y \in Nat : x = user.heard + Len(toClient) /\ y = user.heard + Len(toClient')
    BY <1>1
  <2>3. y = x + d
    BY <1>1, <2>2
  <2>4. Whole(y, w, srv.size)
    <3>1. PICK pos \in Nat, n \in Nat \ {0} : pos = srv.wpos /\ n = srv.size
      BY <1>1
    <3>2. Whole(x, pos, n)
      BY <1>1, <1>4, <2>2, <3>1
    <3>3. Whole(x + d, pos + d, n)
      BY <3>2, WholeFacts
    <3>4. QED
      BY <2>3, <3>1, <3>3
  <2>5. Whole(y, At0(srv'), srv.size)
    <3>1. CASE w = len
      <4>1. PICK zero \in Nat : zero = 0
        OBVIOUS
      <4>2. Whole(y, zero + srv.size, srv.size)
        BY <1>1, <2>1, <2>4, <3>1, <4>1
      <4>3. Whole(y, zero, srv.size)
        BY <1>1, <4>2, WholeFacts
      <4>4. QED
        BY <3>1, <4>1, <4>3
    <3>2. CASE w # len
      BY <2>4, <3>2
    <3>3. QED
      BY <3>1, <3>2
  <2>6. QED
    BY <1>1, <2>2, <2>5 DEF Level
<1>5. QED
  BY <1>3, <1>4

LEMMA MioSendsTimeChunks ==
    ASSUME MioTurn, handle_get_time_send_chunk \/ handle_perf_send_last_chunk
    PROVE  (NoStandoff /\ MioPace)'
<1>1. /\ CommandsInv' /\ server' = "mio" /\ BothOpen' /\ ByUnit(user'.todo)
  BY TurnFactsMio
<1>2. srv.phase \in BulkTime /\ srv.phase \in Sends /\ srv.phase \notin Counts
  BY DEF handle_get_time_send_chunk, handle_perf_send_last_chunk, SrvWrites, SrvWritesFrom, At,
         BulkTime, Sends, Counts
<1>3. /\ CommandsInv /\ srv \in SrvState /\ srv.wpos \in Nat /\ user'.todo = user.todo
      /\ user.todo[1].each = srv.size /\ srv.size \in Sizes /\ srv.size \in Nat
  BY <1>2, SendingFacts
<1>4. /\ GetTimeSize = TimeSize(srv) /\ GetTimeSize \in Nat /\ GetTimeSize >= 2
      /\ Made \in {0} \cup (Sizes \ Stored)
  BY <1>3, MadeFacts
<1>5. PICK len \in Nat : len = GetTimeSize
  BY <1>4
<1>6. \A last \in BOOLEAN : Chunk(len, last) \in Seq(Unit) /\ Len(Chunk(len, last)) = len
  BY <1>4, <1>5, ChunkUnits
<1>7. CASE handle_get_time_send_chunk
  <2> DEFINE begun == [srv EXCEPT !.clock = Started("GETTIME"), !.made = Made]
             last  == [begun EXCEPT !.phase = "GetTimeSendLastChunk", !.wpos = 0, !.got = <<>>]
             again == [begun EXCEPT !.wpos = 0]
             fin   == IF srv.over THEN last ELSE again
             buf   == Chunk(len, FALSE)
  <2>1. SrvWritesFrom("GetTimeSendChunk", srv.wpos, buf, begun, fin)
    BY <1>5, <1>7 DEF handle_get_time_send_chunk, SrvWrites
  <2>2. buf \in Seq(Unit) /\ Len(buf) = len
    BY <1>6
  <2> HIDE DEF buf
  <2>3. Started("GETTIME") \in Uploads \cup {"none", "GETCHUNKS", "PING", "GETTIME"}
    BY <1>3, StateFacts DEF Started
  <2>4. /\ begun \in SrvState /\ begun.phase = srv.phase /\ begun.size = srv.size
        /\ begun.made = Made
    BY <1>3, <1>4, <2>3 DEF SrvState
  <2> HIDE DEF begun
  <2>5. /\ fin.phase \in BulkTime /\ fin.size = srv.size /\ fin.made = Made /\ fin.wpos = 0
    <3>1. /\ last.phase = "GetTimeSendLastChunk" /\ last.size = srv.size /\ last.made = Made
          /\ last.wpos = 0
      BY <2>4 DEF SrvState
    <3>2. again.phase = srv.phase /\ again.size = srv.size /\ again.made = Made /\ again.wpos = 0
      BY <2>4 DEF SrvState
    <3>3. QED
      BY <1>2, <3>1, <3>2 DEF BulkTime
  <2> HIDE DEF fin, last, again
  <2>6. PICK d \in Nat, w \in Nat :
           /\ w = srv.wpos + d /\ Len(toClient') = Len(toClient) + d /\ w <= len
           /\ w = len => srv' = fin
           /\ w # len => /\ srv'.wpos = w /\ srv'.phase = begun.phase
                         /\ srv'.size = begun.size /\ srv'.made = begun.made
           /\ toClient' # <<>>
    <3>1. PICK pos \in Nat : pos = srv.wpos
      BY <1>3
    <3>2. PICK d, w : d = Len(toClient') - Len(toClient) /\ w = pos + d
      OBVIOUS
    <3>3. PICK b \in SrvState : b = begun
      BY <2>4
    <3>4. SrvWritesFrom("GetTimeSendChunk", pos, buf, b, fin) /\ CommandsInv
      BY <1>3, <2>1, <3>1, <3>3 DEF SrvWritesFrom, At
    <3>5. /\ toClient' # <<>> /\ d \in Nat /\ Len(toClient') = Len(toClient) + d /\ w <= Len(buf)
          /\ w = Len(buf) => srv' = fin
          /\ w # Len(buf) => /\ srv'.wpos = w /\ srv'.phase = b.phase
                             /\ srv'.size = b.size /\ srv'.made = b.made
      BY <2>2, <3>2, <3>4, Grows
    <3>6. w \in Nat /\ w = srv.wpos + d
      BY <3>1, <3>2, <3>5
    <3>7. QED
      BY <2>2, <3>3, <3>5, <3>6
  <2>7. /\ srv'.phase \in BulkTime /\ srv'.size = srv.size /\ srv'.made = Made
        /\ srv'.wpos = IF w = len THEN 0 ELSE w
    <3>1. CASE w = len
      BY <2>5, <2>6, <3>1
    <3>2. CASE w # len
      BY <1>2, <2>4, <2>6, <3>2
    <3>3. QED
      BY <3>1, <3>2
  <2>8. srv'.phase \in Sends /\ At0(srv') = IF w = len THEN 0 ELSE w
    BY <2>7 DEF At0, Sends
  <2>9. TimeSize(srv') = TimeSize(srv)
    BY <1>3, <1>4, <2>7, MadeKeeps
  <2>10. Level(srv', user', toClient')
    BY <1>2, <1>4, <1>5, <2>6, <2>7, <2>8, <2>9, LevelOn
  <2>11. Sizing(srv', user')
    <3>1. srv'.phase # "GetChunkSendChunk"
      BY <2>7 DEF BulkTime
    <3>2. QED
      BY <1>3, <2>7, <3>1 DEF Sizing
  <2>12. QED
    BY <2>8, <2>10, <2>11, SendsOn
<1>8. CASE handle_perf_send_last_chunk
  <2> DEFINE fin == Anew("GetTimeReceiveOk")
             buf == Chunk(len, TRUE)
  <2>1. SrvWritesFrom("GetTimeSendLastChunk", srv.wpos, buf, srv, fin)
    BY <1>5, <1>8 DEF handle_perf_send_last_chunk, SrvWrites
  <2>2. buf \in Seq(Unit) /\ Len(buf) = len
    BY <1>6
  <2> HIDE DEF buf
  <2>3. /\ fin.phase = "GetTimeReceiveOk" /\ fin.size = srv.size /\ fin.made = srv.made
        /\ fin.wpos = 0
    BY <1>3 DEF Anew, SrvState
  <2> HIDE DEF fin
  <2>4. PICK d \in Nat, w \in Nat :
           /\ w = srv.wpos + d /\ Len(toClient') = Len(toClient) + d /\ w <= len
           /\ w = len => srv' = fin
           /\ w # len => /\ srv'.wpos = w /\ srv'.phase = srv.phase
                         /\ srv'.size = srv.size /\ srv'.made = srv.made
           /\ toClient' # <<>>
    <3>1. PICK pos \in Nat : pos = srv.wpos
      BY <1>3
    <3>2. PICK d, w : d = Len(toClient') - Len(toClient) /\ w = pos + d
      OBVIOUS
    <3>3. PICK b \in SrvState : b = srv
      BY <1>3
    <3>4. SrvWritesFrom("GetTimeSendLastChunk", pos, buf, b, fin) /\ CommandsInv
      BY <1>3, <2>1, <3>1, <3>3 DEF SrvWritesFrom, At
    <3>5. /\ toClient' # <<>> /\ d \in Nat /\ Len(toClient') = Len(toClient) + d /\ w <= Len(buf)
          /\ w = Len(buf) => srv' = fin
          /\ w # Len(buf) => /\ srv'.wpos = w /\ srv'.phase = b.phase
                             /\ srv'.size = b.size /\ srv'.made = b.made
      BY <2>2, <3>2, <3>4, Grows
    <3>6. w \in Nat /\ w = srv.wpos + d
      BY <3>1, <3>2, <3>5
    <3>7. QED
      BY <2>2, <3>3, <3>5, <3>6
  <2>5. toClient' # <<>>
    BY <2>4
  <2>6. CASE w = len
    <3>1. srv' = fin
      BY <2>4, <2>6
    <3>2. /\ srv'.phase \in Reading /\ srv'.phase \notin Sends
          /\ srv'.phase \in BulkTime \cup {"GetTimeReceiveOk"}
      BY <2>3, <3>1 DEF Reading, SpinsOnEof, Sends, Counts, BulkTime
    <3>3. At0(srv') = IF w = len THEN 0 ELSE w
      BY <2>6, <3>2 DEF At0
    <3>4. TimeSize(srv') = TimeSize(srv)
      BY <2>3, <3>1 DEF TimeSize
    <3>5. Level(srv', user', toClient')
      BY <1>2, <1>4, <1>5, <2>3, <2>4, <3>1, <3>2, <3>3, <3>4, LevelOn
    <3>6. /\ (srv.phase \in Reading /\ toClient # <<>>)'
          /\ (user.todo[1].hear.of = "FF" => Level(srv, user, toClient))'
      BY <2>5, <3>2, <3>5
    <3>7. (CommandsInv /\ server = "mio" /\ BothOpen /\ ByUnit(user.todo))'
      BY <1>1
    <3>8. QED
      BY <3>6, <3>7, MioNext
  <2>7. CASE w # len
    <3>3. /\ srv'.phase = srv.phase /\ srv'.size = srv.size /\ srv'.made = srv.made
          /\ srv'.wpos = w
      BY <2>4, <2>7
    <3>4. At0(srv') = IF w = len THEN 0 ELSE w
      BY <1>2, <2>7, <3>3 DEF At0
    <3>5. TimeSize(srv') = TimeSize(srv)
      BY <3>3 DEF TimeSize
    <3>6. Level(srv', user', toClient')
      BY <1>2, <1>4, <1>5, <2>4, <3>3, <3>4, <3>5, LevelOn
    <3>7. Sizing(srv', user')
      <4>1. srv'.phase # "GetChunkSendChunk"
        BY <1>2, <3>3 DEF BulkTime
      <4>2. QED
        BY <1>3, <3>3, <4>1 DEF Sizing
    <3>8. srv'.phase \in Sends
      BY <1>2, <3>3
    <3>9. QED
      BY <3>6, <3>7, <3>8, SendsOn
  <2>8. QED
    BY <2>6, <2>7
<1>9. QED
  BY <1>7, <1>8

-----------------------------------------------------------------------------
LEMMA MioSendsLastChunk ==
    ASSUME MioTurn, handle_get_chunks_send_chunks_last
    PROVE  (NoStandoff /\ MioPace)'
<1> DEFINE fin == [srv EXCEPT !.phase = "GetChunksReceiveOK", !.wpos = 0, !.done = 0]
           buf == Chunk(srv.size, TRUE)
<1>1. (CommandsInv /\ server = "mio" /\ BothOpen /\ ByUnit(user.todo))'
  BY TurnFactsMio
<1>2. /\ SrvWritesFrom("GetChunksSendChunksLast", srv.wpos, buf, srv, fin)
      /\ srv.phase = "GetChunksSendChunksLast"
  BY DEF handle_get_chunks_send_chunks_last, SrvWrites, SrvWritesFrom, At
<1>3. srv.phase \in Sends /\ srv.phase \in Counts /\ srv.phase \notin BulkTime
  BY <1>2 DEF BulkTime, Sends, Counts
<1>4. /\ CommandsInv /\ srv \in SrvState /\ srv.wpos \in Nat /\ user'.todo = user.todo
      /\ user.todo[1].each = srv.size /\ srv.size \in Nat /\ srv.size >= 2
  BY <1>3, SendingFacts
<1>5. PICK len \in Nat : len = srv.size
  BY <1>4
<1>6. buf \in Seq(Unit) /\ Len(buf) = len
  BY <1>4, <1>5, ChunkUnits
<1> HIDE DEF buf
<1>7. fin.phase = "GetChunksReceiveOK"
  BY <1>4 DEF SrvState
<1> HIDE DEF fin
<1>8. PICK d \in Nat, w \in Nat :
         /\ w = srv.wpos + d /\ Len(toClient') = Len(toClient) + d /\ w <= len
         /\ w = len => srv' = fin
         /\ w # len => /\ srv'.wpos = w /\ srv'.phase = srv.phase /\ srv'.size = srv.size
         /\ toClient' # <<>>
  <2>1. PICK pos \in Nat : pos = srv.wpos
    BY <1>4
  <2>2. PICK d, w : d = Len(toClient') - Len(toClient) /\ w = pos + d
    OBVIOUS
  <2>3. PICK b \in SrvState : b = srv
    BY <1>4
  <2>4. SrvWritesFrom("GetChunksSendChunksLast", pos, buf, b, fin) /\ CommandsInv
    BY <1>2, <1>4, <2>1, <2>3
  <2>5. /\ toClient' # <<>> /\ d \in Nat /\ Len(toClient') = Len(toClient) + d /\ w <= Len(buf)
        /\ w = Len(buf) => srv' = fin
        /\ w # Len(buf) => /\ srv'.wpos = w /\ srv'.phase = b.phase
                           /\ srv'.size = b.size /\ srv'.made = b.made
    BY <1>6, <2>2, <2>4, Grows
  <2>6. w \in Nat /\ w = srv.wpos + d
    BY <2>1, <2>2, <2>5
  <2>7. QED
    BY <1>6, <2>3, <2>5, <2>6
<1>9. CASE w = len
  <2>1. srv'.phase \in Reading /\ srv'.phase \notin Sends
    BY <1>7, <1>8, <1>9 DEF Reading, SpinsOnEof, Sends, Counts, BulkTime
  <2>2. At0(srv') = IF w = len THEN 0 ELSE w
    BY <1>9, <2>1 DEF At0
  <2>3. Level(srv', user', toClient')
    BY <1>3, <1>5, <1>8, <2>2, LevelOn
  <2>4. /\ (srv.phase \in Reading /\ toClient # <<>>)'
        /\ (user.todo[1].hear.of = "FF" => Level(srv, user, toClient))'
    BY <1>8, <2>1, <2>3
  <2>5. QED
    BY <1>1, <2>4, MioNext
<1>10. CASE w # len
  <2>1. At0(srv') = IF w = len THEN 0 ELSE w
    BY <1>3, <1>8, <1>10 DEF At0
  <2>2. Level(srv', user', toClient')
    BY <1>3, <1>5, <1>8, <2>1, LevelOn
  <2>3. Sizing(srv', user')
    BY <1>2, <1>4, <1>8, <1>10 DEF Sizing
  <2>4. srv'.phase \in Sends
    BY <1>3, <1>8, <1>10
  <2>5. QED
    BY <2>2, <2>3, <2>4, SendsOn
<1>11. QED
  BY <1>9, <1>10

LEMMA MioSendsChunks ==
    ASSUME MioTurn, handle_get_chunks_send_chunks
    PROVE  (NoStandoff /\ MioPace)'
<1> DEFINE begun == [srv EXCEPT !.clock = Started("GETCHUNKS")]
           pos   == IF srv.clock = "none" THEN 0 ELSE srv.wpos
           out   == Taken(toClient, Chunk(srv.size, FALSE), pos)
           sent  == srv.done + 1
           next  == IF sent = srv.num - 1 THEN "GetChunksSendChunksLast" ELSE begun.phase
<1>1. /\ srv.phase = "GetChunkSendChunk"
      /\ \/ /\ srv' = [begun EXCEPT !.phase = "GetChunksSendChunksLast", !.wpos = pos]
            /\ UNCHANGED toClient
         \/ /\ out # <<>> /\ toClient' = toClient \o out
            /\ srv' = IF pos + Len(out) < srv.size THEN [begun EXCEPT !.wpos = pos + Len(out)]
                      ELSE [begun EXCEPT !.wpos = 0, !.done = sent, !.phase = next]
  BY DEF handle_get_chunks_send_chunks, At
<1>2. srv.phase \in Sends /\ srv.phase \in Counts /\ srv.phase \notin BulkTime
  BY <1>1 DEF BulkTime, Sends, Counts
<1>3. /\ CommandsInv /\ srv \in SrvState /\ srv.wpos \in Nat /\ user'.todo = user.todo
      /\ user.todo[1].each = srv.size /\ srv.size \in Nat /\ srv.size >= 2
      /\ srv.phase = "GetChunkSendChunk" /\ srv.clock = "none" => srv.wpos = 0
      /\ Len(toClient) \in Nat
  BY <1>2, SendingFacts
<1>4. pos = srv.wpos
  BY <1>1, <1>3
<1>5. begun \in SrvState /\ begun.clock # "none" /\ begun.phase = srv.phase /\ begun.size = srv.size
  <2>1. "GETCHUNKS" \in Asked \ {"QUIT"}
    BY DEF Asked
  <2>2. begun \in SrvState
    BY <1>3, <2>1, StartedIs
  <2>3. begun.clock = Started("GETCHUNKS")
    BY <1>3 DEF SrvState
  <2>4. Started("GETCHUNKS") # "none"
    BY DEF Started
  <2>5. begun.phase = srv.phase /\ begun.size = srv.size
    BY <1>3 DEF SrvState
  <2>6. QED
    BY <2>2, <2>3, <2>4, <2>5
<1>6. next \in {"GetChunkSendChunk", "GetChunksSendChunksLast"}
  BY <1>1, <1>5
<1>7. (out \in Seq(Unit) /\ pos + Len(out) <= srv.size) \/ out = <<>>
  <2> DEFINE text == Chunk(srv.size, FALSE)
  <2>1. text \in Seq(Unit) /\ Len(text) = srv.size /\ toClient \in Seq(Unit) /\ Len(toClient) <= Cap
    BY <1>3, UserFacts, ChunkUnits
  <2> HIDE DEF text
  <2>2. SUFFICES ASSUME out # <<>> PROVE out \in Seq(Unit) /\ pos + Len(out) <= srv.size
    OBVIOUS
  <2>3. PICK at \in Nat : at = pos
    BY <1>3, <1>4
  <2>4. Taken(toClient, text, at) # <<>>
    BY <2>2, <2>3 DEF text
  <2>5. at \in 0..Len(text)
    BY <2>1, <2>4, SaysWithin
  <2>6. Taken(toClient, text, at) \in Seq(Unit) /\ at + Len(Taken(toClient, text, at)) <= Len(text)
    BY <2>1, <2>5, TakenFacts
  <2>7. QED
    BY <2>1, <2>3, <2>6 DEF text
<1> HIDE DEF begun, pos, out, sent, next
<1>8. CASE srv' = [begun EXCEPT !.phase = "GetChunksSendChunksLast", !.wpos = pos] /\ UNCHANGED toClient
  <2>1. /\ srv'.phase = "GetChunksSendChunksLast" /\ srv'.wpos = srv.wpos /\ srv'.size = srv.size
    BY <1>4, <1>5, <1>8 DEF SrvState
  <2>2. srv'.phase \in Sends /\ srv'.phase \in Counts /\ ~WrongFor(srv') /\ ~WrongFor(srv)
    BY <1>1, <2>1 DEF Sends, Counts, WrongFor, BulkTime
  <2>3. At0(srv') = At0(srv)
    BY <1>2, <2>1, <2>2 DEF At0
  <2>4. Level(srv', user', toClient')
    BY <1>3, <1>8, <2>2, <2>3, TurnFactsMio DEF Level
  <2>5. Sizing(srv', user')
    BY <1>3, <2>1 DEF Sizing
  <2>6. QED
    BY <2>2, <2>4, <2>5, SendsOn
<1>9. CASE /\ out # <<>> /\ toClient' = toClient \o out
           /\ srv' = IF pos + Len(out) < srv.size THEN [begun EXCEPT !.wpos = pos + Len(out)]
                     ELSE [begun EXCEPT !.wpos = 0, !.done = sent, !.phase = next]
  <2>1. PICK d \in Nat, w \in Nat : d = Len(out) /\ w = pos + d
    <3>1. Len(out) \in Nat /\ pos \in Nat
      BY <1>3, <1>4, <1>7, <1>9
    <3>2. QED
      BY <3>1
  <2>2. w <= srv.size /\ w = srv.wpos + d
    BY <1>4, <1>7, <1>9, <2>1
  <2>3. Len(toClient') = Len(toClient) + d
    BY <1>7, <1>9, <2>1, UserFacts, <1>3, JoinOf
  <2>4. /\ srv'.phase \in {"GetChunkSendChunk", "GetChunksSendChunksLast"}
        /\ srv'.wpos = IF w = srv.size THEN 0 ELSE w
        /\ srv'.size = srv.size /\ srv'.clock # "none"
    <3>1. CASE w < srv.size
      <4>1. srv' = [begun EXCEPT !.wpos = w]
        BY <1>9, <2>1, <3>1
      <4>2. srv'.phase = srv.phase /\ srv'.wpos = w /\ srv'.size = srv.size /\ srv'.clock # "none"
        BY <1>5, <4>1 DEF SrvState
      <4>3. QED
        BY <1>1, <1>3, <3>1, <4>2
    <3>2. CASE ~(w < srv.size)
      <4>1. srv' = [begun EXCEPT !.wpos = 0, !.done = sent, !.phase = next]
        BY <1>9, <2>1, <3>2
      <4>2. srv'.phase = next /\ srv'.wpos = 0 /\ srv'.size = srv.size /\ srv'.clock # "none"
        BY <1>5, <4>1 DEF SrvState
      <4>3. w = srv.size
        BY <1>3, <2>2, <3>2
      <4>4. QED
        BY <1>6, <4>2, <4>3
    <3>3. QED
      BY <3>1, <3>2
  <2>5. srv'.phase \in Sends
    BY <2>4 DEF Sends, Counts
  <2>6. PICK len \in Nat : len = srv.size
    BY <1>3
  <2>7. At0(srv') = IF w = len THEN 0 ELSE w
    BY <2>4, <2>5, <2>6 DEF At0
  <2>8. Level(srv', user', toClient')
    BY <1>2, <2>2, <2>3, <2>6, <2>7, LevelOn
  <2>9. Sizing(srv', user')
    BY <1>3, <2>4 DEF Sizing
  <2>10. QED
    BY <2>5, <2>8, <2>9, SendsOn
<1>10. QED
  BY <1>1, <1>8, <1>9

LEMMA MioWaits ==
    ASSUME MioTurn, get_time_would_block \/ get_chunks_panics
    PROVE  (NoStandoff /\ MioPace)'
<1>1. srv \in SrvState /\ srv'.status = "open" /\ user' = user
  BY TurnFactsMio, MioFacts DEF BothOpen, ServerOpen
<1>2. ~get_chunks_panics
  <2>1. [srv EXCEPT !.status = "panic"].status = "panic"
    BY <1>1 DEF SrvState
  <2>2. QED
    BY <1>1, <2>1 DEF get_chunks_panics
<1>3. srv.phase = "GetTimeSendChunk" /\ srv' = [srv EXCEPT !.over = TRUE] /\ UNCHANGED wire
  BY <1>2 DEF get_time_would_block, At
<1>4. /\ srv'.phase = srv.phase /\ srv'.wpos = srv.wpos /\ srv'.size = srv.size
      /\ srv'.made = srv.made /\ toClient' = toClient
  BY <1>1, <1>3 DEF SrvState, wire
<1>5. srv'.phase \in Sends
  BY <1>3, <1>4 DEF Sends, BulkTime
<1>6. Level(srv, user, toClient) /\ Sizing(srv, user)
  BY TurnFactsMio
<1>7. (WrongFor(srv') <=> WrongFor(srv)) /\ At0(srv') = At0(srv)
  BY <1>4 DEF WrongFor, TimeSize, At0
<1>8. Level(srv', user', toClient')
  BY <1>1, <1>4, <1>6, <1>7 DEF Level
<1>9. Sizing(srv', user')
  BY <1>1, <1>3, <1>4, <1>6 DEF Sizing
<1>10. QED
  BY <1>5, <1>8, <1>9, SendsOn
-----------------------------------------------------------------------------
\* Only SrvEnds closes or ends anything.
LEMMA MioStaysOpen ==
    ASSUME SrvGreeting \/ SrvCommand \/ SrvDownload \/ SrvPut \/ SrvUpload
    PROVE  srv.status = "open" /\ gone' = gone
<1>1. ASSUME NEW p, NEW pos, NEW buf, NEW begun, NEW fin, SrvWritesFrom(p, pos, buf, begun, fin)
      PROVE  srv.status = "open" /\ gone' = gone
  BY <1>1 DEF SrvWritesFrom, At
<1>2. \A p, buf, begun, fin :
         SrvWrites(p, buf, begun, fin) => srv.status = "open" /\ gone' = gone
  BY <1>1 DEF SrvWrites
<1>3. CASE SrvGreeting
  <2>1. CASE handle_greeting_receive_connection_type
    BY <2>1 DEF handle_greeting_receive_connection_type, At
  <2>2. CASE handle_greeting_send_version \/ handle_greeting_send_accept_token
    BY <1>2, <2>2 DEF handle_greeting_send_version, handle_greeting_send_accept_token
  <2>3. CASE handle_greeting_receive_token
    BY <2>3 DEF handle_greeting_receive_token, SrvReads, At
  <2>4. CASE handle_greeting_send_ok \/ handle_greeting_send_chunksize
    BY <1>2, <2>4 DEF handle_greeting_send_ok, handle_greeting_send_chunksize
  <2>5. QED
    BY <1>3, <2>1, <2>2, <2>3, <2>4 DEF SrvGreeting
<1>4. CASE SrvCommand
  <2>1. CASE handle_main_command_send
    BY <1>2, <2>1 DEF handle_main_command_send
  <2>2. CASE handle_main_command_receive
    BY <2>2 DEF handle_main_command_receive, SrvReads, At
  <2>3. QED
    BY <1>4, <2>1, <2>2 DEF SrvCommand
<1>5. CASE SrvDownload
  <2>1. CASE handle_get_chunks_send_chunks
    BY <2>1 DEF handle_get_chunks_send_chunks, At
  <2>2. CASE get_chunks_panics \/ get_time_would_block
    BY <2>2 DEF get_chunks_panics, get_time_would_block, At, wire
  <2>3. CASE handle_get_chunks_send_chunks_last \/ handle_ping_send_time
    BY <1>2, <2>3 DEF handle_get_chunks_send_chunks_last, handle_ping_send_time
  <2>4. CASE handle_get_chunks_receive_ok
    BY <2>4 DEF handle_get_chunks_receive_ok, SrvReads, At
  <2>5. CASE handle_ping_receive_ok
    BY <2>5 DEF handle_ping_receive_ok, SrvReads, At
  <2>6. CASE handle_get_time_receive_ok
    BY <2>6 DEF handle_get_time_receive_ok, SrvReads, At
  <2>7. CASE handle_get_chunks_send_time \/ handle_get_time_send_time
    BY <2>7 DEF handle_get_chunks_send_time, handle_get_time_send_time, SendTime, At
  <2>8. CASE handle_pong_send
    BY <1>2, <2>8 DEF handle_pong_send
  <2>9. CASE handle_get_time_send_chunk
    BY <1>2, <2>9 DEF handle_get_time_send_chunk
  <2>10. CASE handle_perf_send_last_chunk
    BY <1>2, <2>10 DEF handle_perf_send_last_chunk
  <2>11. QED
    BY <1>5, <2>1, <2>2, <2>3, <2>4, <2>5, <2>6, <2>7, <2>8, <2>9, <2>10 DEF SrvDownload
<1>6. CASE SrvPut
  <2>1. CASE handle_put_send_ok
    BY <1>2, <2>1 DEF handle_put_send_ok
  <2>2. CASE handle_put_receive_chunk
    BY <2>2 DEF handle_put_receive_chunk, ReceivesChunk, SrvReads, At
  <2>3. CASE handle_put_send_bytes \/ handle_put_send_time
    BY <1>2, <2>3 DEF handle_put_send_bytes, handle_put_send_time
  <2>4. CASE handle_put_no_result_send_ok \/ handle_put_no_result_send_time
    BY <1>2, <2>4 DEF handle_put_no_result_send_ok, handle_put_no_result_send_time
  <2>5. CASE handle_put_no_result_receive_chunk
    BY <2>5 DEF handle_put_no_result_receive_chunk, ReceivesChunk, SrvReads, At
  <2>6. QED
    BY <1>6, <2>1, <2>2, <2>3, <2>4, <2>5 DEF SrvPut
<1>7. CASE SrvUpload
  <2>1. CASE handle_put_time_result_send_ok
    BY <1>1, <2>1 DEF handle_put_time_result_send_ok
  <2>2. CASE handle_put_time_result_receive_chunk
    BY <2>2 DEF handle_put_time_result_receive_chunk, ReceivesChunk, SrvReads, At
  <2>3. CASE handle_put_time_result_send_time
    BY <1>2, <2>3 DEF handle_put_time_result_send_time
  <2>4. QED
    BY <1>7, <2>1, <2>2, <2>3 DEF SrvUpload
<1>8. QED
  BY <1>3, <1>4, <1>5, <1>6, <1>7

\* All of the mio server.
LEMMA MioKeepsPace ==
    ASSUME CommandsInv, CommandsInv', PaceInv, MioStep \/ MioEnds
    PROVE  PaceInv'
<1>1. server = "mio" /\ UNCHANGED <<server, task, user>>
  BY DEF MioStep, MioEnds
<1>2. SUFFICES ASSUME BothOpen' PROVE PaceInv'
  BY DEF PaceInv
<1>3. ~SrvEnds
  <2>1. srv \in SrvState /\ srv'.status = "open" /\ gone' = {}
    BY <1>1, <1>2, MioFacts DEF BothOpen, ServerOpen
  <2>2. \A status : [srv EXCEPT !.status = status].status = status
    BY <2>1 DEF SrvState
  <2>3. \A s : gone \cup {s} # {}
    OBVIOUS
  <2>4. ~SrvEof
    BY <2>1, <2>2 DEF SrvEof
  <2>5. ~SrvGivesUp
    BY <2>1, <2>2 DEF SrvGivesUp
  <2>6. ~SrvCloses
    BY <2>1, <2>3 DEF SrvCloses
  <2>7. QED
    BY <2>4, <2>5, <2>6 DEF SrvEnds
<1>4. SrvGreeting \/ SrvCommand \/ SrvDownload \/ SrvPut \/ SrvUpload
  BY <1>3 DEF MioStep, MioEnds
<1>5. BothOpen
  <2>1. srv.status = "open" /\ gone' = gone
    BY <1>4, MioStaysOpen
  <2>2. QED
    BY <1>1, <1>2, <2>1 DEF BothOpen, ServerOpen
<1>6. MioTurn
  BY <1>1, <1>2, <1>5 DEF MioTurn
<1>7. (NoStandoff /\ MioPace)'
  <2>1. CASE SrvGreeting
    BY <1>6, <2>1, MioUpgrades, MioSaysLines, MioReadsToken DEF SrvGreeting
  <2>2. CASE SrvCommand
    BY <1>6, <2>2, MioSaysLines, MioReadsCommand DEF SrvCommand
  <2>3. CASE SrvDownload
    BY <1>6, <2>3, MioSendsChunks, MioWaits, MioSendsLastChunk, MioReadsOk, MioTellsTime,
       MioStartsClocks, MioSaysLines, MioSendsTimeChunks DEF SrvDownload
  <2>4. CASE SrvPut
    BY <1>6, <2>4, MioStartsClocks, MioReadsChunks, MioSaysLines DEF SrvPut
  <2>5. CASE SrvUpload
    BY <1>6, <2>5, MioStartsClocks, MioReadsChunks, MioReports DEF SrvUpload
  <2>6. QED
    BY <1>4, <2>1, <2>2, <2>3, <2>4, <2>5
<1>8. (ByUnit(user.todo) /\ (user.todo = <<>> => user.heard = 0))'
  BY <1>1, <1>5 DEF PaceInv
<1>9. QED
  BY <1>1, <1>7, <1>8 DEF PaceInv

-----------------------------------------------------------------------------
(* The tokio server, place by place.                                       *)

\* A turn that the task waits for is no download, and is said in two or more units.
LEMMA TaskTakesEach ==
    ASSUME NEW p, NEW size \in Nat, NEW cmd, NEW todo, todo # <<>>, TaskTakes(p, size, cmd, todo)
    PROVE  /\ todo[1].each = 1 /\ Len(todo[1].say) \in Nat /\ Len(todo[1].say) >= 2
           /\ p \in Counting => /\ Len(todo[1].say) \in {size, 2 * size}
                                /\ todo = <<LastTurn(Two(size))>> => Len(todo[1].say) = 2 * size
<1>1. /\ \A say : LastTurn(say).each = 1 /\ LastTurn(say).say = say
      /\ PutTurn(size).each = 1 /\ PutTurn(size).say = Chunk(size, FALSE)
      /\ Hello[2].each = 1 /\ Hello[2].say = Line("TOKEN", <<>>)
  BY DEF LastTurn, PutTurn, Turn, Hello
<1>2. Len(Line("TOKEN", <<>>)) = 2 /\ Len(OK) = 2
  BY DEF Line, OK
<1> HIDE DEF Hello
<1>3. \A a, b : <<a>>[1] = a /\ <<a, b>>[1] = a
  OBVIOUS
<1>4. \/ todo = <<Hello[2]>> /\ p \notin Counting
      \/ todo = <<LastTurn(OK)>> /\ p \notin Counting
      \/ /\ p \in Counting /\ size >= 2
         /\ \/ todo = <<PutTurn(size), LastTurn(Chunk(size, TRUE))>>
            \/ todo = <<LastTurn(Chunk(size, TRUE))>> \/ todo = <<LastTurn(Two(size))>>
  BY DEF TaskTakes, Counting
<1>5. CASE todo = <<Hello[2]>> /\ p \notin Counting
  <2>1. PICK turn : turn = Hello[2]
    OBVIOUS
  <2>2. todo[1] = turn
    BY <1>3, <1>5, <2>1
  <2>3. turn.each = 1 /\ Len(turn.say) = 2
    BY <1>1, <1>2, <2>1
  <2>4. todo[1].each = 1 /\ Len(todo[1].say) = 2
    BY <2>2, <2>3
  <2>5. p \notin Counting
    BY <1>5
  <2>6. QED
    BY <2>4, <2>5
<1>6. CASE todo = <<LastTurn(OK)>> /\ p \notin Counting
  <2>1. PICK turn : turn = LastTurn(OK)
    OBVIOUS
  <2>2. todo[1] = turn
    BY <1>3, <1>6, <2>1
  <2>3. turn.each = 1 /\ Len(turn.say) = 2
    BY <1>1, <1>2, <2>1
  <2>4. todo[1].each = 1 /\ Len(todo[1].say) = 2
    BY <2>2, <2>3
  <2>5. p \notin Counting
    BY <1>6
  <2>6. QED
    BY <2>4, <2>5
<1>7. CASE /\ p \in Counting /\ size >= 2
           /\ \/ todo = <<PutTurn(size), LastTurn(Chunk(size, TRUE))>>
              \/ todo = <<LastTurn(Chunk(size, TRUE))>> \/ todo = <<LastTurn(Two(size))>>
  <2>1. \A last \in BOOLEAN : Len(Chunk(size, last)) = size
    BY <1>7, ChunkUnits
  <2>2. Len(Two(size)) = 2 * size
    BY <1>7, TwoFacts
  <2>3. PICK twice \in Nat : twice = 2 * size /\ twice >= 2
    BY <1>7
  <2>4. CASE todo = <<PutTurn(size), LastTurn(Chunk(size, TRUE))>>
    <3>1. todo[1] = PutTurn(size)
      BY <1>3, <2>4
    <3>2. Len(todo[1].say) = size /\ todo[1].each = 1
      BY <1>1, <2>1, <3>1
    <3>3. todo # <<LastTurn(Two(size))>>
      <4>1. \A a, b, c : <<a, b>> # <<c>>
        OBVIOUS
      <4>2. QED
        BY <2>4, <4>1
    <3>4. QED
      BY <1>7, <3>2, <3>3
  <2>5. CASE todo = <<LastTurn(Chunk(size, TRUE))>>
    <3>1. todo[1] = LastTurn(Chunk(size, TRUE))
      BY <1>3, <2>5
    <3>2. Len(todo[1].say) = size /\ todo[1].each = 1
      BY <1>1, <2>1, <3>1
    <3>3. todo # <<LastTurn(Two(size))>>
      <4>1. SUFFICES ASSUME todo = <<LastTurn(Two(size))>> PROVE FALSE
        OBVIOUS
      <4>2. todo[1] = LastTurn(Two(size))
        BY <1>3, <4>1
      <4>3. Len(todo[1].say) = 2 * size
        BY <1>1, <2>2, <4>2
      <4>4. QED
        BY <1>7, <3>2, <4>3
    <3>4. QED
      BY <1>7, <3>2, <3>3
  <2>6. CASE todo = <<LastTurn(Two(size))>>
    <3>1. todo[1] = LastTurn(Two(size))
      BY <1>3, <2>6
    <3>2. Len(todo[1].say) = 2 * size /\ todo[1].each = 1
      BY <1>1, <2>2, <3>1
    <3>3. QED
      BY <2>3, <3>2
  <2>7. QED
    BY <1>7, <2>4, <2>5, <2>6
<1>8. QED
  BY <1>4, <1>5, <1>6, <1>7

\* With x units of a chunk received, all that the client has to say has not come.
LEMMA MoreIsToCome ==
    ASSUME NEW size \in Nat, NEW p \in Counting, NEW cmd, NEW todo, todo # <<>>,
           TaskTakes(p, size, cmd, todo), NEW m \in {0, size},
           m = 0 \/ todo = <<LastTurn(Two(size))>>, NEW x \in Nat, x < size
    PROVE  Len(todo[1].say) # m + x
<1>1. PICK n \in Nat : n = Len(todo[1].say)
  BY TaskTakesEach
<1>2. /\ n \in {size, 2 * size} /\ size >= 2
      /\ todo = <<LastTurn(Two(size))>> => n = 2 * size
  BY <1>1, TaskTakesEach DEF TaskTakes
<1>3. QED
  BY <1>1, <1>2

\* A task that listens, with nothing on the way to it, has not been told all.
LEMMA TaskExpects ==
    ASSUME CommandsInv, server = "tokio", BothOpen, task.at \in Counting => task.got < task.size,
           NEW tc, TaskListens(task, user, <<>>, tc, user.todo)
    PROVE  user.said # Len(user.todo[1].say)
<1>1. task.size \in Nat /\ task.got \in Nat /\ "client" \notin gone /\ user.said \in Nat
  BY TaskFacts, UserFacts DEF BothOpen
<1>2. PICK m \in {0, task.size} :
         /\ FromOn(<<>>, user.todo[1].say, m + task.got, user.said)
         /\ m = 0 \/ (task.at \in Counting /\ user.todo = <<LastTurn(Two(task.size))>>)
  BY DEF TaskListens
<1>3. user.said = m + task.got
  <2>1. PICK x \in Nat : x = m + task.got
    BY <1>1
  <2>2. Len(<<>>) = user.said - x
    BY <1>2, <2>1 DEF FromOn
  <2>3. Len(<<>>) = 0
    BY ArgFacts
  <2>4. QED
    BY <1>1, <2>1, <2>2, <2>3
<1>4. user.todo # <<>>
  BY DEF TaskListens
<1>5. CASE task.at \in Counting
  <2>1. TaskTakes(task.at, task.size, user.cmd, user.todo)
    BY <1>5 DEF TaskListens, Counting
  <2>2. QED
    BY <1>1, <1>2, <1>3, <1>4, <1>5, <2>1, MoreIsToCome
<1>6. CASE task.at \notin Counting
  <2>1. task.got = 0
    BY <1>1, <1>6, TaskFacts DEF TaskInv, Deserted
  <2>2. user.said = 0
    BY <1>2, <1>3, <1>6, <2>1
  <2>3. IsALine(user.todo[1].say)
    BY <1>4, <1>6, TurnIsALine DEF TaskListens
  <2>4. \A of, arg : Len(Line(of, arg)) = 2
    BY DEF Line
  <2>5. Len(user.todo[1].say) = 2
    BY <2>3, <2>4 DEF IsALine
  <2>6. QED
    BY <2>2, <2>5
<1>7. QED
  BY <1>5, <1>6

LEMMA TaskScenes ==
    ASSUME CommandsInv, server = "tokio", BothOpen, ~splitOk
    PROVE  /\ Agenda = {user.todo} /\ TaskScene(task, user, toServer, Unheard, user.todo)
           /\ task.at \notin Counting => task.got = 0
           /\ user.heard \in Nat /\ Unheard \in Seq(Unit) /\ Len(Unheard) \in Nat
           /\ user.todo # <<>> => user.todo[1].each \in Nat \ {0}
<1>1. "client" \notin gone
  BY DEF BothOpen
<1>2. Agenda = {user.todo} /\ ~Deserted
  BY <1>1 DEF Agenda, Deserted
<1>3. /\ TaskScene(task, user, toServer, Unheard, user.todo)
      /\ task.at \notin Counting => task.got = 0
  BY <1>2, TaskFacts DEF TaskInv
<1>4. Unheard \in Seq(Unit) /\ Len(Unheard) \in Nat
  BY TaskFacts DEF Unheard
<1>5. QED
  BY <1>2, <1>3, <1>4, UserFacts

\* All that is left is an answer of which nothing is on the way.
LEMMA TaskStandsOff ==
    ASSUME CommandsInv, server = "tokio", BothOpen, ~splitOk,
           task.at \in Counting => task.got < task.size,
           ~TaskHasSaid(task, user, <<>>, <<>>, user.todo)
    PROVE  NoStandoff
<1>1. SUFFICES ASSUME UserWaits, ServerWaits, toServer = <<>>, toClient = <<>> PROVE FALSE
  BY DEF NoStandoff
<1>2. user.todo # <<>> /\ user.said = Len(user.todo[1].say)
  BY <1>1 DEF UserWaits
<1>3. task.out = <<>> /\ task.at \in TaskReading
  BY <1>1 DEF ServerWaits
<1>4. Unheard = <<>>
  <2>1. Unheard = toClient \o <<>>
    BY <1>3 DEF Unheard
  <2>2. \A s \in Seq(Unit) : s \o <<>> = s
    OBVIOUS
  <2>3. QED
    BY <1>1, <2>1, <2>2, TaskFacts
<1>5. TaskScene(task, user, <<>>, <<>>, user.todo)
  BY <1>1, <1>4, TaskScenes
<1>6. ~TaskListens(task, user, <<>>, <<>>, user.todo)
  BY <1>2, TaskExpects
<1>7. ~TaskRests(task, user, <<>>, <<>>, user.todo) /\ ~TaskSends(task, user, <<>>, <<>>, user.todo)
  BY <1>2, <1>3 DEF TaskRests, TaskSends, TaskReading
<1>8. QED
  BY <1>5, <1>6, <1>7 DEF TaskScene

-----------------------------------------------------------------------------
\* A step of the task while both sides are there and no line was cut in two.
TaskTurn ==
    /\ CommandsInv /\ CommandsInv' /\ server = "tokio" /\ UNCHANGED <<server, srv, user>>
    /\ BothOpen /\ BothOpen' /\ ~splitOk /\ ~splitOk'
    /\ TaskPace /\ ByUnit(user.todo)

LEMMA TaskThen ==
    (CommandsInv /\ server = "tokio")' =>
        (task \in TaskState)' /\ (Unheard \in Seq(Unit))' /\ (Len(Unheard) \in Nat)'
<1>1. CommandsInv /\ server = "tokio" =>
         task \in TaskState /\ Unheard \in Seq(Unit) /\ Len(Unheard) \in Nat
  BY TaskFacts DEF Unheard
<1>2. QED
  BY <1>1, PTL

LEMMA TurnFactsTask ==
    ASSUME TaskTurn
    PROVE  /\ CommandsInv /\ server = "tokio" /\ user' = user /\ BothOpen /\ ~splitOk
           /\ (CommandsInv /\ server = "tokio" /\ BothOpen /\ ~splitOk)'
           /\ "client" \notin gone /\ Agenda = {user.todo} /\ ByUnit(user.todo) /\ TaskPace
           /\ task \in TaskState /\ task' \in TaskState /\ task.size \in Nat /\ task.got \in Nat
           /\ task.at \notin Counting => task.got = 0
           /\ user.heard \in Nat /\ toClient \in Seq(Unit)
           /\ Unheard \in Seq(Unit) /\ Len(Unheard) \in Nat
           /\ Unheard' \in Seq(Unit) /\ Len(Unheard') \in Nat
           /\ user.todo # <<>> => user.todo[1].each \in Nat \ {0}
<1>1. /\ CommandsInv /\ server = "tokio" /\ user' = user /\ BothOpen /\ ~splitOk
      /\ (CommandsInv /\ server = "tokio" /\ BothOpen /\ ~splitOk)'
      /\ "client" \notin gone /\ ByUnit(user.todo) /\ TaskPace
  BY DEF TaskTurn, BothOpen
<1>2. task' \in TaskState /\ Unheard' \in Seq(Unit) /\ Len(Unheard') \in Nat
  BY <1>1, TaskThen
<1>3. QED
  BY <1>1, <1>2, TaskFacts, TaskScenes

\* The same of the state that a step leads to.
LEMMA TaskNext ==
    /\ (CommandsInv /\ server = "tokio" /\ BothOpen /\ ~splitOk)'
    /\ (task.at \in Counting => task.got < task.size)'
    /\ (~TaskHasSaid(task, user, <<>>, <<>>, user.todo))'
    => NoStandoff'
<1>1. /\ (CommandsInv /\ server = "tokio" /\ BothOpen /\ ~splitOk)
      /\ (task.at \in Counting => task.got < task.size)
      /\ (~TaskHasSaid(task, user, <<>>, <<>>, user.todo))
      => NoStandoff
  BY TaskStandsOff
<1>2. QED
  BY <1>1, PTL

\* What is added to an answer of chunks is whole chunks.
LEMMA TaskSaysMore ==
    ASSUME TaskTurn, NEW k \in Nat,
           Len(Unheard') = Len(Unheard) + k * user.todo[1].each \/ Unheard' = Unheard,
           user.todo # <<>>
    PROVE  Whole(user.heard + Len(Unheard'), 0, user.todo[1].each)
<1>1. PICK each \in Nat \ {0} : each = user.todo[1].each
  BY TurnFactsTask
<1>2. PICK x \in Nat : x = user.heard + Len(Unheard)
  BY TurnFactsTask
<1>3. Whole(x, 0, each)
  BY <1>1, <1>2, TurnFactsTask DEF TaskPace
<1>4. PICK j \in Int : x = 0 + j * each
  BY <1>3 DEF Whole
<1>5. CASE Unheard' = Unheard
  BY <1>1, <1>2, <1>3, <1>5
<1>6. CASE Len(Unheard') = Len(Unheard) + k * each
  <2>1. PICK a \in Int, b \in Nat : a = j * each /\ b = k * each
    OBVIOUS
  <2>2. user.heard + Len(Unheard') = x + b
    BY <1>2, <1>6, <2>1, TurnFactsTask
  <2>3. a + b = (j + k) * each /\ j + k \in Int
    BY <2>1
  <2>4. user.heard + Len(Unheard') = 0 + (j + k) * each
    BY <1>4, <2>1, <2>2, <2>3
  <2>5. Whole(user.heard + Len(Unheard'), 0, each)
    BY <2>3, <2>4 DEF Whole
  <2>6. QED
    BY <1>1, <2>5
<1>7. QED
  BY <1>1, <1>5, <1>6

\* The task goes on to answer, in a turn that is no download.
LEMMA TaskAnswersOn ==
    ASSUME TaskTurn, user.todo # <<>> => user.todo[1].each = 1, task'.at # "get_time",
           task'.at \in Counting => task'.got < task'.size
    PROVE  /\ TaskPace'
           /\ task'.out # <<>> \/ task'.at \notin TaskReading => NoStandoff'
<1>1. /\ user' = user /\ user.heard \in Nat /\ Len(Unheard') \in Nat
  BY TurnFactsTask
<1>2. user.todo # <<>> => Whole(user.heard + Len(Unheard'), 0, user.todo[1].each)
  <2>1. PICK x \in Nat : x = user.heard + Len(Unheard')
    BY <1>1
  <2>2. Whole(x, 0, 1)
    <3>1. PICK zero \in Nat : zero = 0
      OBVIOUS
    <3>2. Whole(x, zero, 1)
      BY WholeFacts
    <3>3. QED
      BY <3>1, <3>2
  <2>3. QED
    BY <2>1, <2>2
<1>3. TaskPace'
  BY <1>1, <1>2 DEF TaskPace
<1>4. task'.out # <<>> \/ task'.at \notin TaskReading => ~ServerWaits'
  BY TurnFactsTask DEF ServerWaits
<1>5. QED
  BY <1>3, <1>4 DEF NoStandoff

\* What is said is nothing new.
LEMMA TaskWritesOn ==
    ASSUME TaskTurn, write_all
    PROVE  (NoStandoff /\ TaskPace)'
<1>1. CommandsInv /\ server = "tokio" /\ user' = user /\ TaskPace
  BY TurnFactsTask
<1>2. /\ toClient' # <<>> /\ Unheard' = Unheard
      /\ task'.at = task.at /\ task'.size = task.size /\ task'.got = task.got
  BY <1>1, WritesOut
<1>3. PICK k \in Nat : k = 0
  OBVIOUS
<1>4. user.todo # <<>> => Whole(user.heard + Len(Unheard'), 0, user.todo[1].each)
  BY <1>2, <1>3, TaskSaysMore
<1>5. TaskPace'
  BY <1>1, <1>2, <1>4 DEF TaskPace
<1>6. NoStandoff'
  BY <1>2 DEF NoStandoff
<1>7. QED
  BY <1>5, <1>6

-----------------------------------------------------------------------------
\* The only lines that open a download are those that the command loop reads.
LEMMA HeardEach ==
    ASSUME TaskTurn, NEW data, TaskHeard(data, user.todo), task.at # "command"
    PROVE  user.todo[1].each = 1
<1>1. task.size \in Nat /\ user.todo # <<>>
  BY TurnFactsTask DEF TaskHeard
<1>2. CASE TaskTakes(task.at, task.size, user.cmd, user.todo)
  BY <1>1, <1>2, TaskTakesEach
<1>3. CASE task.at = "define_stream" /\ user.todo = Hello
  BY <1>3, HelloEach
<1>4. QED
  BY <1>2, <1>3 DEF TaskHeard

\* Of a line that was not cut in two, and is no command, the task makes an answer.
LEMMA TaskRepliesOn ==
    ASSUME TaskTurn, task.out = <<>>, task.at \notin Counting \cup {"command"},
           NEW data \in Pieces(toServer, Cap), splitOk' = (splitOk \/ CutsLine(data)),
           NEW out \in Seq(Unit), out # <<>>, NEW p \in Places, p \notin Counting \cup {"get_time"},
           task' = TaskSays(out, p)
    PROVE  (NoStandoff /\ TaskPace)'
<1>1. task.at \notin Counting /\ task.at # "command"
  OBVIOUS
<1>2. /\ CommandsInv /\ server = "tokio" /\ ~splitOk /\ ~CutsLine(data)
      /\ task \in TaskState /\ Agenda = {user.todo}
  BY TurnFactsTask DEF TaskTurn
<1>3. \E todo \in Agenda : TaskHeard(data, todo)
  BY <1>1, <1>2, TaskHearsLine
<1>4. user.todo[1].each = 1
  BY <1>1, <1>2, <1>3, HeardEach
<1>5. task'.out = out /\ task'.at = p
  BY <1>2, TaskSaysIs
<1>6. task'.out # <<>> /\ task'.at # "get_time" /\ task'.at \notin Counting
  BY <1>5
<1>7. QED
  BY <1>4, <1>6, TaskAnswersOn

LEMMA TaskGreetsOn ==
    ASSUME TaskTurn, define_stream \/ handle_token
    PROVE  (NoStandoff /\ TaskPace)'
<1>1. task'.status = "open" /\ task \in TaskState
  BY TurnFactsTask DEF BothOpen, ServerOpen
<1>2. /\ Greeting \in Seq(Unit) /\ Greeting # <<>>
      /\ Line("UPGRADE", <<>>) \o Greeting \in Seq(Unit)
      /\ Line("UPGRADE", <<>>) \o Greeting # <<>>
  <2>1. PICK hear \in Unit : hear.of = "ACCEPT TOKEN" /\ hear.at = 2
    <3>1. [of |-> "ACCEPT TOKEN", at |-> 2, arg |-> <<>>] \in Unit
      BY ArgFacts DEF Unit, Words
    <3>2. QED
      BY <3>1
  <2>2. QED
    BY <2>1, GreetingEnds, EndsTyped DEF Ends
<1>3. "handle_token" \in Places /\ "command" \in Places
  BY DEF Places, TaskReading
<1>4. CASE define_stream
  <2>1. PICK data \in Pieces(toServer, Cap) :
           /\ TaskAt("define_stream") /\ splitOk' = (splitOk \/ CutsLine(data))
           /\ task' \in {TaskSays(Line("UPGRADE", <<>>) \o Greeting, "handle_token"),
                         TaskSays(Greeting, "handle_token"), TaskEnded}
    BY <1>4 DEF define_stream, TaskReads
  <2>2. task' # TaskEnded
    BY <1>1 DEF TaskEnded, TaskState
  <2>3. PICK out \in Seq(Unit) : out # <<>> /\ task' = TaskSays(out, "handle_token")
    BY <1>2, <2>1, <2>2
  <2>4. task.out = <<>> /\ task.at \notin Counting \cup {"command"}
    BY <2>1 DEF TaskAt, Counting
  <2>5. "handle_token" \notin Counting \cup {"get_time"}
    BY DEF Counting
  <2>6. QED
    BY <1>3, <2>1, <2>3, <2>4, <2>5, TaskRepliesOn
<1>5. CASE handle_token
  <2> DEFINE out == OK \o Line("CHUNKSIZE", <<>>) \o Accept
  <2>1. PICK data \in Pieces(toServer, Cap) :
           /\ TaskAt("handle_token") /\ splitOk' = (splitOk \/ CutsLine(data))
           /\ task' = TaskSays(out, "command")
    BY <1>5 DEF handle_token, TaskReads
  <2>2. out \in Seq(Unit) /\ out # <<>>
    <3>1. Line("CHUNKSIZE", <<>>) \in Seq(Unit)
      <4>1. "CHUNKSIZE" \in Words
        BY DEF Words
      <4>2. QED
        BY <4>1, ArgFacts, LineUnits
    <3>2. out = OK \o (Line("CHUNKSIZE", <<>>) \o Accept)
      BY <3>1, OkUnits, AcceptUnits, JoinThree
    <3>3. Accepting(Accept[2])
      BY AcceptUnits DEF Accepting
    <3> HIDE DEF out
    <3>4. Ends(out, Accept[2])
      BY <3>2, <3>3, AcceptEnds
    <3>5. QED
      BY <3>4, EndsTyped DEF Ends
  <2> HIDE DEF out
  <2>3. task.out = <<>> /\ task.at \notin Counting \cup {"command"}
    BY <2>1 DEF TaskAt, Counting
  <2>4. "command" \notin Counting \cup {"get_time"}
    BY DEF Counting
  <2>5. QED
    BY <1>3, <2>1, <2>2, <2>3, <2>4, TaskRepliesOn
<1>6. QED
  BY <1>4, <1>5

LEMMA TaskAwaitsOn ==
    ASSUME TaskTurn, NEW p \in {"get_chunks_ok", "ping_ok", "get_time_ok"}, AwaitsOk(p)
    PROVE  (NoStandoff /\ TaskPace)'
<1>1. task'.status = "open" /\ task \in TaskState
  BY TurnFactsTask DEF BothOpen, ServerOpen
<1>2. PICK data \in Pieces(toServer, Cap) :
        /\ TaskAt(p) /\ splitOk' = (splitOk \/ CutsLine(data))
        /\ task' \in {TaskSays(Time \o Accept, "command"), TaskEnded}
  BY DEF AwaitsOk, TaskReads
<1>3. task' = TaskSays(Time \o Accept, "command")
  BY <1>1, <1>2 DEF TaskEnded, TaskState
<1>4. Time \o Accept \in Seq(Unit) /\ Time \o Accept # <<>>
  <2>1. Accepting(Accept[2])
    BY AcceptUnits DEF Accepting
  <2>2. Ends(Time \o Accept, Accept[2])
    BY <2>1, AcceptEnds
  <2>3. QED
    BY <2>2, EndsTyped DEF Ends
<1>5. task.out = <<>> /\ task.at \notin Counting \cup {"command"}
  BY <1>2 DEF TaskAt, Counting
<1>6. "command" \in Places /\ "command" \notin Counting \cup {"get_time"}
  BY DEF Counting, Places, TaskReading
<1>7. PICK out \in Seq(Unit) : out = Time \o Accept
  BY <1>4
<1>8. QED
  BY <1>2, <1>3, <1>4, <1>5, <1>6, <1>7, TaskRepliesOn

-----------------------------------------------------------------------------
LEMMA NotEmpty == \A s : Len(s) = 2 => s # <<>>
<1>1. \A s : s = <<>> => Len(s) = 0
  BY ArgFacts
<1>2. QED
  BY <1>1

\* What a command is answered with fits what the client counts.
LEMMA TaskObeysOn ==
    ASSUME TaskTurn, task.out = <<>>, task.at = "command",
           NEW cmd \in Asked, NEW n \in {1, 2}, NEW size \in Sizes, user.todo # <<>>,
           user.todo[1].each = IF cmd \in {"GETCHUNKS", "GETTIME"} THEN size ELSE 1,
           UNCHANGED toClient, task' = TaskCommand(cmd, Args(cmd, n, size))
    PROVE  (NoStandoff /\ TaskPace)'
<1> DEFINE arg == Args(cmd, n, size)
<1>1. /\ task \in TaskState /\ arg \in Seq(Nat) /\ toClient \in Seq(Unit)
      /\ task.got = 0 /\ user' = user /\ user.heard \in Nat
  BY TurnFactsTask, ArgsAre DEF Counting
<1>2. Unheard = toClient
  BY <1>1 DEF Unheard
<1>3. /\ task' = TaskCommand(cmd, arg)
      /\ cmd \notin {"PING", "QUIT"} =>
            /\ InRange(size)
            /\ cmd # "GETCHUNKS" => TaskSize(arg, 1) = size
            /\ cmd = "GETCHUNKS" => /\ arg # <<>> /\ arg[1] = n /\ arg[1] > 0
                                    /\ TaskSize(arg, 2) = size
  BY ArgsSize
<1>4. size \in Nat /\ size >= 2
  BY SizeFacts
<1> HIDE DEF arg
<1>5. ASSUME NEW of \in Words, NEW p \in Places, p \notin Counting \cup {"get_time"},
             user.todo[1].each = 1, task' = TaskSays(Line(of, <<>>), p)
      PROVE  (NoStandoff /\ TaskPace)'
  <2>1. Line(of, <<>>) \in Seq(Unit) /\ Len(Line(of, <<>>)) = 2
    BY ArgFacts, LineUnits
  <2>2. task'.out = Line(of, <<>>) /\ task'.at = p
    BY <1>1, <1>5, <2>1, TaskSaysIs
  <2>3. task'.out # <<>>
    BY <2>1, <2>2, NotEmpty, Zenon
  <2>4. task'.at # "get_time" /\ task'.at \notin Counting
    BY <1>5, <2>2
  <2>5. QED
    BY <1>5, <2>3, <2>4, TaskAnswersOn
<1>6. CASE cmd = "PING"
  <2>1. /\ task' = TaskSays(Line("PONG", <<>>), "ping_ok")
        /\ "PONG" \in Words /\ "ping_ok" \in Places /\ "ping_ok" \notin Counting \cup {"get_time"}
    BY <1>3, <1>6 DEF TaskCommand, Words, Places, TaskReading, Counting
  <2>2. QED
    BY <1>5, <1>6, <2>1
<1>7. CASE cmd = "QUIT"
  <2>1. /\ task' = TaskSays(Line("BYE", <<>>), "end")
        /\ "BYE" \in Words /\ "end" \in Places /\ "end" \notin Counting \cup {"get_time"}
    BY <1>3, <1>7 DEF TaskCommand, Words, Places, Counting
  <2>2. QED
    BY <1>5, <1>7, <2>1
<1>8. CASE cmd = "GETCHUNKS"
  <2>1. task' = TaskGetChunks(arg)
    BY <1>3, <1>8 DEF TaskCommand
  <2>2. task'.out = AllChunks(n, size) /\ task'.at = "get_chunks_ok"
    BY <1>1, <1>3, <1>8, <2>1, TaskGetChunksIs
  <2>3. Len(AllChunks(n, size)) = n * size /\ AllChunks(n, size) \in Seq(Unit)
    <3>1. PICK m \in Nat : m = n
      OBVIOUS
    <3>2. Len(AllChunks(m, size)) = m * size /\ AllChunks(m, size) \in Seq(Unit)
      BY <1>3, <1>8, AllChunksFacts DEF Proper, InRange
    <3>3. QED
      BY <3>1, <3>2
  <2>4. n * size \in Nat /\ n * size # 0
    BY <1>4
  <2>5. PICK out \in Seq(Unit) : out = AllChunks(n, size)
    BY <2>3
  <2>6. Len(Unheard') = Len(Unheard) + n * size
    BY <1>1, <1>2, <2>2, <2>3, <2>5, JoinOf DEF Unheard
  <2>7. Whole(user.heard + Len(Unheard'), 0, user.todo[1].each)
    BY <1>8, <2>6, TaskSaysMore
  <2>8. task'.out # <<>>
    <3>1. out = <<>> => Len(out) = 0
      BY ArgFacts
    <3>2. QED
      BY <2>2, <2>3, <2>4, <2>5, <3>1
  <2>9. ~ServerWaits'
    BY <2>8, TurnFactsTask DEF ServerWaits
  <2>10. TaskPace'
    BY <1>1, <2>2, <2>7 DEF TaskPace, Counting
  <2>11. QED
    BY <2>9, <2>10 DEF NoStandoff
<1>9. CASE cmd = "GETTIME"
  <2>1. task' = TaskGetTime(arg)
    BY <1>3, <1>9 DEF TaskCommand
  <2>2. task'.out = <<>> /\ task'.at = "get_time" /\ task'.size = size
    BY <1>1, <1>3, <1>9, <2>1, TaskGetTimeIs
  <2>3. Unheard' = Unheard
    BY <1>2, <2>2, <1>1 DEF Unheard
  <2>4. PICK k \in Nat : k = 0
    OBVIOUS
  <2>5. Whole(user.heard + Len(Unheard'), 0, user.todo[1].each)
    BY <2>3, <2>4, TaskSaysMore
  <2>6. ~ServerWaits'
    BY <2>2, TurnFactsTask DEF ServerWaits, TaskReading
  <2>7. TaskPace'
    BY <1>1, <1>9, <2>2, <2>5 DEF TaskPace, Counting
  <2>8. QED
    BY <2>6, <2>7 DEF NoStandoff
<1>10. CASE cmd \in {"PUT", "PUTNORESULT", "PUTTIMERESULT"}
  <2>1. PICK p \in Counting : task' = TaskPut(arg, p)
    BY <1>3, <1>10 DEF TaskCommand, Counting
  <2>2. task'.out = OK /\ task'.at = p /\ task'.size = size /\ task'.got = 0
    BY <1>1, <1>3, <1>10, <2>1, TaskPutIs
  <2>3. task'.out # <<>> /\ task'.at # "get_time"
    <3>1. OK # <<>>
      BY OkUnits, NotEmpty, Zenon
    <3>2. QED
      BY <2>2, <3>1 DEF Counting
  <2>4. task'.got < task'.size
    BY <1>4, <2>2
  <2>5. QED
    BY <1>10, <2>3, <2>4, TaskAnswersOn
<1>11. QED
  BY <1>6, <1>7, <1>8, <1>9, <1>10 DEF Asked

LEMMA TaskCommandsOn ==
    ASSUME TaskTurn, handle_command
    PROVE  (NoStandoff /\ TaskPace)'
<1>1. PICK data \in Pieces(toServer, Cap) :
        /\ TaskAt("command")
        /\ splitOk' = (splitOk \/ CutsLine(data)) /\ UNCHANGED toClient
        /\ Len(data) > 1 /\ data[2].at = 2 => task' = TaskCommand(data[1].of, data[1].arg)
  BY DEF handle_command, TaskReads
<1>2. /\ task.out = <<>> /\ task.at = "command" /\ task.at \notin Counting
  BY <1>1 DEF TaskAt, Counting
<1>3. /\ CommandsInv /\ server = "tokio" /\ ~splitOk /\ ~CutsLine(data)
      /\ Agenda = {user.todo}
  BY <1>1, TurnFactsTask DEF TaskTurn
<1>4. TaskHeard(data, user.todo)
  BY <1>2, <1>3, TaskHearsLine
<1>5. Commanding(user.cmd, user.todo) /\ user.todo # <<>>
  BY <1>2, <1>4 DEF TaskHeard, TaskTakes, Counting
<1>6. PICK cmd \in Asked : cmd = user.cmd
  BY <1>3, <1>5, CommandingIs, UserFacts
<1>7. PICK n \in {1, 2}, size \in Sizes : user.todo = Exchanges(cmd, n, size)
  BY <1>5, <1>6 DEF Commanding
<1>8. user.todo[1].each = IF cmd \in {"GETCHUNKS", "GETTIME"} THEN size ELSE 1
  BY <1>7, FirstEach
<1>9. Opens(user.todo, cmd, n, size)
  BY <1>7, ExchangesOpen
<1> DEFINE arg == Args(cmd, n, size)
<1>10. cmd \in Words /\ arg \in Seq(Nat)
  BY ArgsAre DEF Asked, Words
<1>11. data = Line(cmd, arg)
  BY <1>4, <1>9 DEF TaskHeard, Opens
<1> HIDE DEF arg
<1>12. Len(data) = 2 /\ data[1].of = cmd /\ data[1].arg = arg /\ data[2].at = 2
  BY <1>10, <1>11, LineUnits
<1>13. task' = TaskCommand(cmd, arg)
  <2>1. Len(data) > 1
    BY <1>12
  <2>2. QED
    BY <1>1, <1>12, <2>1
<1>14. QED
  BY <1>1, <1>2, <1>5, <1>8, <1>13, TaskObeysOn DEF arg

LEMMA TaskSendsOn ==
    ASSUME TaskTurn, handle_get_time
    PROVE  (NoStandoff /\ TaskPace)'
<1>1. CASE AwaitsOk("get_time_ok")
  BY <1>1, TaskAwaitsOn
<1>2. CASE /\ TaskAt("get_time") /\ UNCHANGED wire
           /\ task' = TaskSays(Chunk(task.size, task.over),
                               IF task.over THEN "get_time_ok" ELSE "get_time")
  <2> DEFINE out == Chunk(task.size, task.over)
             p   == IF task.over THEN "get_time_ok" ELSE "get_time"
  <2>1. task.out = <<>> /\ task.at = "get_time" /\ UNCHANGED toClient
    BY <1>2 DEF TaskAt, wire
  <2>2. /\ CommandsInv /\ server = "tokio" /\ BothOpen /\ ~splitOk /\ task \in TaskState
        /\ task.size \in Nat /\ toClient \in Seq(Unit) /\ user' = user /\ TaskPace
        /\ task.over \in BOOLEAN
    BY TurnFactsTask, TaskFacts
  <2>3. TaskSends(task, user, toServer, Unheard, user.todo)
    BY <2>1, <2>2, TaskScenes DEF TaskScene, TaskRests, TaskListens, TaskHasSaid, TaskTakes, Counting
  <2>4. user.todo # <<>> /\ task.size >= 2 /\ user.todo[1].each = task.size
    BY <2>1, <2>2, <2>3 DEF TaskSends, TaskPace
  <2>5. out \in Seq(Unit) /\ Len(out) = task.size
    BY <2>2, <2>4, ChunkUnits
  <2>6. p \in Places /\ p \notin Counting
    BY DEF Places, TaskReading, Counting
  <2> HIDE DEF out, p
  <2>7. task'.out = out /\ task'.at = p /\ task'.size = task.size
    <3>1. task' = TaskSays(out, p)
      BY <1>2 DEF out, p
    <3>2. QED
      BY <2>2, <2>5, <2>6, <3>1, TaskSaysIs
  <2>8. PICK k \in Nat : k = 1
    OBVIOUS
  <2>9. Len(Unheard') = Len(Unheard) + k * user.todo[1].each
    <3>1. Unheard = toClient /\ Unheard' = toClient \o out
      BY <2>1, <2>2, <2>7 DEF Unheard
    <3>2. Len(Unheard') = Len(Unheard) + task.size
      BY <2>2, <2>5, <3>1, JoinOf
    <3>3. k * task.size = task.size
      BY <2>2, <2>8
    <3>4. QED
      BY <2>4, <3>2, <3>3
  <2>10. Whole(user.heard + Len(Unheard'), 0, user.todo[1].each)
    BY <2>4, <2>9, TaskSaysMore
  <2>11. task'.out # <<>>
    <3>1. out = <<>> => Len(out) = 0
      BY ArgFacts
    <3>2. QED
      BY <2>4, <2>5, <2>7, <3>1
  <2>12. ~ServerWaits'
    BY <2>11, TurnFactsTask DEF ServerWaits
  <2>13. TaskPace'
    BY <2>2, <2>4, <2>6, <2>7, <2>10 DEF TaskPace
  <2>14. QED
    BY <2>12, <2>13 DEF NoStandoff
<1>3. QED
  BY <1>1, <1>2 DEF handle_get_time

LEMMA TaskTimeGoesOn ==
    ASSUME TaskTurn, time_passes
    PROVE  (NoStandoff /\ TaskPace)'
<1>1. /\ task.at = "get_time" /\ task' = [task EXCEPT !.over = TRUE] /\ UNCHANGED toClient
  BY DEF time_passes, wire
<1>2. task \in TaskState /\ user' = user /\ TaskPace
  BY TurnFactsTask
<1>3. /\ task'.at = task.at /\ task'.size = task.size /\ task'.got = task.got
      /\ task'.out = task.out
  BY <1>1, <1>2 DEF TaskState
<1>4. Unheard' = Unheard
  BY <1>1, <1>3 DEF Unheard
<1>5. ~ServerWaits'
  BY <1>1, <1>3, TurnFactsTask DEF ServerWaits, TaskReading
<1>6. TaskPace'
  BY <1>2, <1>3, <1>4 DEF TaskPace
<1>7. QED
  BY <1>5, <1>6 DEF NoStandoff

-----------------------------------------------------------------------------
LEMMA TaskReceivesOn ==
    ASSUME TaskTurn, NEW p \in Counting, ReceivesChunks(p)
    PROVE  (NoStandoff /\ TaskPace)'
<1>1. PICK data \in Pieces(toServer, task.size - task.got) :
        /\ TaskAt(p)
        /\ task' \in IF task.got + Len(data) < task.size THEN {[task EXCEPT !.got = @ + Len(data)]}
                     ELSE {AfterChunk(p, terminator) : terminator \in Terminators(LastOf(data))}
  BY DEF ReceivesChunks, TaskReads
<1>2. /\ CommandsInv /\ server = "tokio" /\ ~splitOk /\ task \in TaskState /\ task.out = <<>>
      /\ task.at = p /\ task.size \in Nat /\ task.got \in Nat /\ task.got <= task.size
      /\ Agenda = {user.todo} /\ user' = user
      /\ toServer \in Seq(Unit)
  BY <1>1, TurnFactsTask, TaskFacts DEF TaskAt
<1>3. TaskTakes(p, task.size, user.cmd, user.todo) /\ user.todo # <<>>
  <2>1. PICK todo \in Agenda, m \in Nat : TaskCounts(p, m, todo)
    BY <1>2, ChunkRead
  <2>2. QED
    BY <1>2, <2>1 DEF TaskCounts
<1>4. user.todo[1].each = 1 /\ task.size >= 2
  <2>1. user.todo[1].each = 1
    BY <1>2, <1>3, TaskTakesEach
  <2>2. QED
    BY <1>3, <2>1 DEF TaskTakes
<1>5. p # "get_time" /\ "command" \notin Counting \cup {"get_time"}
  BY DEF Counting
<1>6. CASE task.got + Len(data) < task.size
  <2>1. PICK space \in Nat : space = task.size - task.got
    BY <1>2
  <2>2. Len(data) \in 1..space
    BY <1>2, <2>1, PieceFacts
  <2>3. PICK got \in Nat : got = task.got + Len(data) /\ got # 0
    BY <1>2, <2>2
  <2>4. task' = [task EXCEPT !.got = got]
    BY <1>1, <1>6, <2>3
  <2>5. task'.at = p /\ task'.got = got /\ task'.size = task.size
    BY <1>2, <2>4 DEF TaskState
  <2>6. (~TaskHasSaid(task, user, <<>>, <<>>, user.todo))'
    BY <2>3, <2>5 DEF TaskHasSaid
  <2>7. task'.got < task'.size
    BY <1>6, <2>3, <2>5
  <2>8. NoStandoff'
    BY <2>6, <2>7, TaskNext, TurnFactsTask
  <2>9. QED
    BY <1>4, <1>5, <2>5, <2>7, <2>8, TaskAnswersOn
<1>7. CASE ~(task.got + Len(data) < task.size)
  <2>1. PICK terminator : task' = AfterChunk(p, terminator)
    BY <1>1, <1>7
  <2>2. IsAfter(task', p, terminator)
    BY <1>2, <2>1, AfterChunkIs
  <2>3. task'.got < task'.size /\ task'.at # "get_time"
    BY <1>2, <1>4, <1>5, <2>2 DEF IsAfter
  <2>4. Accepting(Accept[2])
    BY AcceptUnits DEF Accepting
  <2>5. CASE terminator # "00"
    <3>1. Ends(Bytes(p) \o Time \o Accept, Accept[2])
      BY <2>4, BytesFacts
    <3>2. task'.out # <<>>
      BY <2>2, <2>5, <3>1 DEF IsAfter, Ends
    <3>3. QED
      BY <1>4, <2>3, <3>2, TaskAnswersOn
  <2>6. CASE terminator = "00" /\ p = "put"
    <3>1. Len(Line("TIME BYTES", <<>>)) = 2
      BY DEF Line
    <3>2. task'.out = Line("TIME BYTES", <<>>)
      BY <2>2, <2>6 DEF IsAfter, Bytes
    <3>3. task'.out # <<>>
      BY <3>1, <3>2, NotEmpty, Zenon
    <3>4. QED
      BY <1>4, <2>3, <3>3, TaskAnswersOn
  <2>7. CASE terminator = "00" /\ p = "put_no_result"
    <3>1. user.todo = <<LastTurn(Two(task.size))>>
      BY <1>3, <2>7 DEF TaskTakes, Counting
    <3>2. Tail(user.todo) = <<>>
      <4>1. \A a : Tail(<<a>>) = <<>>
        OBVIOUS
      <4>2. QED
        BY <3>1, <4>1
    <3>3. \A a, b : <<a>> # <<>> /\ <<a, b>> # <<>>
      OBVIOUS
    <3>4. task'.at = "put_no_result"
      BY <2>2, <2>7 DEF IsAfter
    <3>5. ~TaskTakes("put_no_result", task'.size, user.cmd, <<>>)
      BY <3>3 DEF TaskTakes, Counting
    <3>6. (~TaskHasSaid(task, user, <<>>, <<>>, user.todo))'
      BY <1>2, <3>2, <3>4, <3>5 DEF TaskHasSaid
    <3>7. NoStandoff'
      BY <2>3, <3>6, TaskNext, TurnFactsTask
    <3>8. QED
      BY <1>4, <2>3, <3>7, TaskAnswersOn
  <2>8. QED
    BY <2>5, <2>6, <2>7 DEF Counting
<1>8. QED
  BY <1>6, <1>7

\* All of the tokio server.
LEMMA TaskKeepsPace ==
    ASSUME CommandsInv, CommandsInv', PaceInv, TokioStep \/ TokioTime \/ TokioEnds
    PROVE  PaceInv'
<1>1. server = "tokio" /\ UNCHANGED <<server, srv, user>>
  BY DEF TokioStep, TokioTime, TokioEnds
<1>2. SUFFICES ASSUME BothOpen' PROVE PaceInv'
  BY DEF PaceInv
<1>3. task'.status = "open" /\ gone' = {} /\ task \in TaskState
  BY <1>1, <1>2, TaskFacts DEF BothOpen, ServerOpen
<1>4. ~TaskEnds /\ ~TaskCloses
  <2>1. TaskEnded.status = "ended"
    BY <1>3 DEF TaskEnded, TaskState
  <2>2. \A s : gone \cup {s} # {}
    OBVIOUS
  <2>3. QED
    BY <1>3, <2>1, <2>2 DEF TaskEnds, TaskCloses
<1>5. TokioStep \/ TokioTime => task.status = "open" /\ gone' = gone /\ (splitOk => splitOk')
  <2>1. ASSUME NEW p, TaskAt(p) PROVE task.status = "open"
    BY <2>1 DEF TaskAt
  <2>2. ASSUME NEW p, AwaitsOk(p)
        PROVE  task.status = "open" /\ gone' = gone /\ (splitOk => splitOk')
    BY <2>1, <2>2 DEF AwaitsOk, TaskReads
  <2>3. ASSUME NEW p, ReceivesChunks(p)
        PROVE  task.status = "open" /\ gone' = gone /\ (splitOk => splitOk')
    BY <2>1, <2>3 DEF ReceivesChunks, TaskReads
  <2>4. CASE write_all
    BY <2>4 DEF write_all
  <2>5. CASE define_stream
    BY <2>1, <2>5 DEF define_stream, TaskReads
  <2>6. CASE handle_token
    BY <2>1, <2>6 DEF handle_token, TaskReads
  <2>7. CASE handle_command
    BY <2>1, <2>7 DEF handle_command, TaskReads
  <2>8. CASE handle_get_chunks \/ handle_ping
    BY <2>2, <2>8 DEF handle_get_chunks, handle_ping
  <2>9. CASE handle_get_time
    BY <2>1, <2>2, <2>9 DEF handle_get_time, wire
  <2>10. CASE handle_put \/ handle_put_no_result
    BY <2>3, <2>10 DEF handle_put, handle_put_no_result
  <2>11. CASE TokioTime
    BY <2>11 DEF TokioTime, time_passes, wire
  <2>12. QED
    BY <1>4, <2>4, <2>5, <2>6, <2>7, <2>8, <2>9, <2>10, <2>11 DEF TokioStep, TaskStep
<1>6. TokioStep \/ TokioTime
  <2>1. ~TokioEnds
    <3>1. TaskLeaves => gone' = gone \/ TaskCloses
      BY DEF TaskLeaves, TaskEof, TaskWriteFails, wire
    <3>2. TaskLeaves => "client" \in gone \/ TaskCloses
      BY DEF TaskLeaves, TaskEof, TaskWriteFails
    <3>3. QED
      BY <1>3, <1>4, <3>1, <3>2 DEF TokioEnds
  <2>2. QED
    BY <2>1
<1>7. BothOpen
  BY <1>1, <1>3, <1>5, <1>6 DEF BothOpen, ServerOpen
<1>8. (user.todo = <<>> => user.heard = 0)' /\ (splitOk \/ ByUnit(user.todo))
  BY <1>1, <1>7 DEF PaceInv
<1>9. CASE splitOk'
  <2>1. NoStandoff'
    BY <1>9 DEF NoStandoff
  <2>2. QED
    BY <1>1, <1>8, <1>9, <2>1 DEF PaceInv
<1>10. CASE ~splitOk'
  <2>1. TaskTurn
    BY <1>1, <1>2, <1>5, <1>6, <1>7, <1>10 DEF TaskTurn, PaceInv
  <2>2. (NoStandoff /\ TaskPace)'
    <3>1. CASE TokioTime
      BY <2>1, <3>1, TaskTimeGoesOn DEF TokioTime
    <3>2. CASE write_all \/ define_stream \/ handle_token \/ handle_command
      BY <2>1, <3>2, TaskWritesOn, TaskGreetsOn, TaskCommandsOn
    <3>3. CASE handle_get_chunks \/ handle_ping \/ handle_get_time
      BY <2>1, <3>3, TaskAwaitsOn, TaskSendsOn DEF handle_get_chunks, handle_ping
    <3>4. CASE handle_put \/ handle_put_no_result
      BY <2>1, <3>4, TaskReceivesOn DEF handle_put, handle_put_no_result, Counting
    <3>5. QED
      BY <1>4, <1>6, <3>1, <3>2, <3>3, <3>4 DEF TokioStep, TaskStep
  <2>3. ByUnit(user'.todo)
    BY <1>1, <2>1 DEF TaskTurn
  <2>4. QED
    BY <1>1, <1>8, <2>2, <2>3 DEF PaceInv
<1>11. QED
  BY <1>9, <1>10

-----------------------------------------------------------------------------
(* The client.                                                             *)

\* Between two commands.
LEMMA AtRest ==
    ASSUME CommandsInv, BothOpen, user.todo = <<>>
    PROVE  /\ server = "mio" => /\ srv.phase = "AcceptCommandReceive" /\ user.said = 0
                                /\ toClient = <<>>
           /\ server = "tokio" /\ ~splitOk =>
                 /\ task.at \in {"command", "end"} /\ user.said = 0 /\ Unheard = <<>>
<1>1. CASE server = "mio"
  <2>1. MioScene(srv, user, toServer, toClient, user.todo)
    BY <1>1, MioScenes
  <2>2. Resting(srv, user, toServer, toClient, user.todo)
    BY <2>1 DEF MioScene, Listening, Speaking, Spoken
  <2>3. QED
    BY <1>1, <2>2 DEF Resting
<1>2. ASSUME server = "tokio", ~splitOk
      PROVE  task.at \in {"command", "end"} /\ user.said = 0 /\ Unheard = <<>>
  <2>1. TaskScene(task, user, toServer, Unheard, user.todo)
    BY <1>2, TaskScenes
  <2>2. TaskRests(task, user, toServer, Unheard, user.todo)
    BY <2>1 DEF TaskScene, TaskListens, TaskSends, TaskHasSaid
  <2>3. QED
    BY <2>2 DEF TaskRests
<1>3. QED
  BY <1>1, <1>2, UserFacts DEF Wired

\* The next command asks for chunks of the size by which the client will count.
LEMMA UserBeginsOn ==
    ASSUME CommandsInv, PaceInv, Begins
    PROVE  PaceInv'
<1>1. SUFFICES ASSUME BothOpen' PROVE PaceInv'
  BY DEF PaceInv
<1>2. PICK cmd \in Offered, n \in {1, 2}, size \in Sizes :
         user' = [user EXCEPT !.cmd = cmd, !.last = user.cmd, !.count = @ + 1,
                              !.todo = Exchanges(cmd, n, size)]
  BY DEF Begins
<1>3. /\ user.todo = <<>>
      /\ UNCHANGED <<toServer, toClient, gone, splitOk, server, srv, task>>
  BY DEF Begins, wire, sessions
<1>4. BothOpen
  BY <1>1, <1>3 DEF BothOpen, ServerOpen
<1>5. cmd \in Asked
  BY DEF Offered, Asked
<1> DEFINE todo == Exchanges(cmd, n, size)
<1>6. Opens(todo, cmd, n, size)
  BY <1>5, ExchangesOpen
<1>7. todo[1].each = IF cmd \in {"GETCHUNKS", "GETTIME"} THEN size ELSE 1
  BY <1>5, FirstEach
<1>8. user'.todo = todo /\ user'.said = user.said /\ user'.heard = user.heard
  BY <1>2, UserFacts DEF UserState
<1> HIDE DEF todo
<1>9. Len(todo[1].say) = 2 /\ todo # <<>> /\ todo[1].hear.of = Reply(cmd)
  <2>1. todo[1].say = Line(cmd, Args(cmd, n, size)) /\ todo # <<>> /\ todo[1].hear.of = Reply(cmd)
    BY <1>6 DEF Opens
  <2>2. QED
    BY <2>1 DEF Line
<1>10. ByUnit(user'.todo)
  <2>1. Reply(cmd) # "FF" => cmd \notin {"GETCHUNKS", "GETTIME"}
    BY DEF Reply
  <2>2. QED
    BY <1>7, <1>8, <1>9, <2>1 DEF ByUnit
<1>11. todo[1].each \in Nat \ {0}
  <2>1. size \in Nat /\ size >= 2
    BY SizeFacts
  <2>2. QED
    BY <1>7, <2>1
<1>12. user.heard = 0
  BY <1>3, <1>4 DEF PaceInv
<1>13. Len(<<>>) = 0
  BY ArgFacts
<1>14. Whole(0 + 0, 0, todo[1].each)
  <2>1. PICK none \in Nat : none = 0 + 0 /\ none = 0
    OBVIOUS
  <2>2. Whole(none, none, todo[1].each)
    BY <1>11, WholeFacts
  <2>3. QED
    BY <2>1, <2>2
<1>15. user'.todo # <<>> /\ (user.said = 0 => NoStandoff')
  <2>1. user.said = 0 => user'.said # Len(user'.todo[1].say)
    BY <1>8, <1>9
  <2>2. QED
    BY <1>8, <1>9, <2>1 DEF NoStandoff, UserWaits
<1>16. CASE server = "mio"
  <2>1. srv.phase = "AcceptCommandReceive" /\ user.said = 0 /\ toClient = <<>>
    BY <1>3, <1>4, <1>16, AtRest
  <2>2. srv.phase \notin Sends
    BY <2>1 DEF Sends, Counts, BulkTime
  <2>3. Unread(srv', splitOk')
    BY <1>3, <1>4, <1>16 DEF PaceInv, MioPace
  <2>4. At0(srv') = 0
    BY <1>3, <2>2 DEF At0
  <2>5. Level(srv', user', toClient')
    BY <1>3, <1>8, <1>12, <1>13, <1>14, <2>1, <2>4 DEF Level
  <2>6. Sizing(srv', user')
    BY <1>3, <2>2 DEF Sizing
  <2>7. MioPace'
    BY <2>3, <2>5, <2>6 DEF MioPace
  <2>8. QED
    BY <1>3, <1>10, <1>15, <1>16, <2>1, <2>7 DEF PaceInv
<1>17. CASE server = "tokio" /\ splitOk
  <2>1. NoStandoff'
    BY <1>3, <1>17 DEF NoStandoff
  <2>2. QED
    BY <1>3, <1>15, <1>17, <2>1 DEF PaceInv
<1>18. CASE server = "tokio" /\ ~splitOk
  <2>1. task.at \in {"command", "end"} /\ user.said = 0 /\ Unheard = <<>>
    BY <1>3, <1>4, <1>18, AtRest
  <2>2. Unheard' = <<>>
    BY <1>3, <2>1 DEF Unheard
  <2>3. TaskPace'
    BY <1>3, <1>8, <1>12, <1>13, <1>14, <2>1, <2>2 DEF TaskPace, Counting
  <2>4. QED
    BY <1>3, <1>10, <1>15, <1>18, <2>1, <2>3 DEF PaceInv
<1>19. QED
  BY <1>16, <1>17, <1>18, UserFacts DEF Wired

\* What is said is on the way.
LEMMA UserSaysOn ==
    ASSUME CommandsInv, PaceInv, UserSays
    PROVE  PaceInv'
<1>1. SUFFICES ASSUME BothOpen' PROVE PaceInv'
  BY DEF PaceInv
<1> DEFINE text == user.todo[1].say
           out  == Taken(toServer, text, user.said)
<1>2. /\ user.todo # <<>> /\ out # <<>> /\ toServer' = toServer \o out
      /\ user' = [user EXCEPT !.said = @ + Len(out)]
      /\ UNCHANGED <<toClient, gone, splitOk, server, srv, task>>
  BY DEF UserSays, sessions
<1>3. /\ text \in Seq(Unit) /\ user.said \in Nat /\ user \in UserState
      /\ toServer \in Seq(Unit) /\ Len(toServer) <= Cap
  BY <1>2, UserFacts
<1> HIDE DEF text
<1>4. out \in Seq(Unit)
  <2>1. PICK n \in 0..Len(text) : n = user.said
    BY <1>2, <1>3, SaysWithin
  <2>2. Taken(toServer, text, n) \in Seq(Unit)
    BY <1>3, TakenFacts
  <2>3. QED
    BY <2>1, <2>2
<1> HIDE DEF out
<1>5. toServer' # <<>>
  BY <1>2, <1>3, <1>4, JoinsSome
<1>6. user'.todo = user.todo /\ user'.heard = user.heard
  BY <1>2, <1>3 DEF UserState
<1>7. NoStandoff'
  BY <1>5 DEF NoStandoff
<1>8. BothOpen
  BY <1>1, <1>2 DEF BothOpen, ServerOpen
<1>9. MioPace => MioPace'
  BY <1>2, <1>6 DEF MioPace, Level, Sizing
<1>10. TaskPace => TaskPace'
  <2>1. Unheard' = Unheard
    BY <1>2 DEF Unheard
  <2>2. QED
    BY <1>2, <1>6, <2>1 DEF TaskPace
<1>11. QED
  BY <1>2, <1>6, <1>7, <1>8, <1>9, <1>10 DEF PaceInv

LEMMA UserLeavesOn ==
    ASSUME Leaves
    PROVE  PaceInv'
<1>1. gone' # {}
  BY DEF Leaves
<1>2. QED
  BY <1>1 DEF PaceInv, BothOpen

-----------------------------------------------------------------------------
\* A piece that the client hears moves its count on, or ends the turn with the count at 0.
Heard(data, d, heard) ==
    /\ data \in Seq(Unit) /\ toClient' = Rest(toClient, data) /\ toClient' \in Seq(Unit)
    /\ d = Len(data) /\ Len(toClient) = d + Len(toClient') /\ Len(toClient') \in Nat
    /\ heard = (user.heard + d) % user.todo[1].each
    /\ \/ /\ SameUnit(LastOf(data), user.todo[1].hear) /\ heard = 0
          /\ user'.todo = Tail(user.todo) /\ user'.said = 0 /\ user'.heard = 0
       \/ /\ ~SameUnit(LastOf(data), user.todo[1].hear) \/ heard # 0
          /\ user'.todo = user.todo /\ user'.said = user.said /\ user'.heard = heard

LEMMA HearsFrom ==
    ASSUME CommandsInv, UserHears
    PROVE  /\ user.todo # <<>> /\ UNCHANGED <<toServer, gone, splitOk, server, srv, task>>
           /\ user.todo[1].each \in Nat \ {0} /\ user'.cmd = user.cmd
           /\ \E data \in Pieces(toClient, Cap), d \in Nat, heard \in Nat : Heard(data, d, heard)
<1> DEFINE turn == user.todo[1]
<1>1. PICK data \in Pieces(toClient, Cap) :
         /\ toClient' = Rest(toClient, data)
         /\ user' = IF /\ SameUnit(LastOf(data), turn.hear)
                       /\ (user.heard + Len(data)) % turn.each = 0
                    THEN [user EXCEPT !.todo = Tail(@), !.said = 0, !.heard = 0]
                    ELSE [user EXCEPT !.heard = (user.heard + Len(data)) % turn.each]
  BY DEF UserHears
<1>2. /\ user.todo # <<>> /\ UNCHANGED <<toServer, gone, splitOk, server, srv, task>>
      /\ user'.cmd = user.cmd
  BY HearsFacts DEF sessions
<1>3. user \in UserState /\ user.heard \in Nat /\ turn.each \in Nat \ {0}
  BY <1>2, UserFacts
<1> HIDE DEF turn
<1>4. /\ data \in Seq(Unit) /\ Len(data) \in Nat /\ toClient' \in Seq(Unit)
      /\ Len(toClient) = Len(data) + Len(toClient') /\ Len(toClient') \in Nat
  <2>1. toClient \in Seq(Unit) /\ Cap \in Nat
    BY UserFacts, Bounds
  <2>2. /\ data \in Seq(Unit) /\ toClient' \in Seq(Unit)
        /\ Len(toClient') = Len(toClient) - Len(data)
    BY <1>1, <2>1, PieceFacts
  <2>3. PICK l \in Nat, m \in Nat, k \in Nat :
           l = Len(toClient) /\ m = Len(data) /\ k = Len(toClient')
    BY <2>1, <2>2
  <2>4. QED
    BY <2>2, <2>3
<1>5. PICK d \in Nat : d = Len(data)
  BY <1>4
<1>6. PICK x \in Nat : x = user.heard + d
  BY <1>3
<1>7. PICK heard \in Nat : heard = x % turn.each
  BY <1>3, Division
<1>8. user' = IF SameUnit(LastOf(data), turn.hear) /\ heard = 0
              THEN [user EXCEPT !.todo = Tail(@), !.said = 0, !.heard = 0]
              ELSE [user EXCEPT !.heard = heard]
  BY <1>1, <1>5, <1>6, <1>7
<1>9. \/ /\ SameUnit(LastOf(data), turn.hear) /\ heard = 0
         /\ user'.todo = Tail(user.todo) /\ user'.said = 0 /\ user'.heard = 0
      \/ /\ ~SameUnit(LastOf(data), turn.hear) \/ heard # 0
         /\ user'.todo = user.todo /\ user'.said = user.said /\ user'.heard = heard
  BY <1>3, <1>8 DEF UserState
<1>10. Heard(data, d, heard)
  BY <1>1, <1>4, <1>5, <1>6, <1>7, <1>9 DEF Heard, turn
<1>11. QED
  BY <1>2, <1>3, <1>10 DEF turn

\* The last piece of an answer that is counted from 0 to 0 ends the turn.
LEMMA HeardToTheEnd ==
    ASSUME CommandsInv, UserHears, NEW more \in Seq(Unit), toClient' \o more = <<>>,
           EndsOnly(toClient \o more, user.todo[1].hear),
           NEW data \in Pieces(toClient, Cap), toClient' = Rest(toClient, data)
    PROVE  SameUnit(LastOf(data), user.todo[1].hear)
<1>1. toClient \in Seq(Unit) /\ Cap \in Nat /\ user.todo # <<>>
  BY UserFacts, Bounds, HearsFacts
<1>2. data \in Seq(Unit) /\ toClient' \in Seq(Unit) /\ data \o toClient' = toClient
  BY <1>1, PieceFacts
<1>3. toClient' = <<>> /\ more = <<>>
  BY <1>2, JoinsSome
<1>4. toClient \o more = toClient /\ toClient = data /\ toClient # <<>>
  <2>1. \A s \in Seq(Unit) : s \o <<>> = s
    OBVIOUS
  <2>2. toClient \o more = toClient /\ toClient = data
    BY <1>1, <1>2, <1>3, <2>1
  <2>3. QED
    BY <2>2, HearsFacts
<1>5. QED
  BY <1>4 DEF EndsOnly

\* What is left to say after a turn is more than nothing.
LEMMA TakesSome ==
    ASSUME CommandsInv, server = "mio", srv.phase \in Reading, NEW todo, todo # <<>>,
           Takes(srv.phase, srv.size, todo)
    PROVE  todo[1].each = 1 /\ Len(todo[1].say) # 0
<1>1. todo[1].each = 1
  BY TakesEach
<1>2. srv.phase \in Uploading => srv.size \in Sizes
  BY MioFacts DEF Owned, Sized, Uploading, Takes2
<1>3. CASE srv.phase = "GreetingReceiveToken"
  <2>1. todo[1].say = Line("TOKEN", <<>>)
    BY <1>3, TakesToken
  <2>2. Len(Line("TOKEN", <<>>)) = 2
    BY DEF Line
  <2>3. QED
    BY <1>1, <2>1, <2>2
<1>4. CASE srv.phase \in Awaits
  <2>1. todo[1].say = OK
    BY <1>4, TakesOk
  <2>2. Len(OK) = 2
    BY DEF OK, Line
  <2>3. QED
    BY <1>1, <2>1, <2>2
<1>5. CASE srv.phase = "PutReceiveChunk"
  <2>1. srv.size \in Sizes /\ srv.size \in Nat /\ srv.size >= 2
    BY <1>2, <1>5, SizeFacts DEF Uploading
  <2>2. PICK last \in BOOLEAN : todo[1].say = Chunk(srv.size, last)
    BY <1>5, <2>1, TakesPut
  <2>3. Len(todo[1].say) = srv.size
    BY <2>1, <2>2, ChunkUnits
  <2>4. QED
    BY <1>1, <2>1, <2>3
<1>6. CASE srv.phase \in Takes2
  <2>1. srv.size \in Sizes /\ srv.size \in Nat /\ srv.size >= 2
    BY <1>2, <1>6, SizeFacts DEF Uploading
  <2>2. todo[1].say = Two(srv.size)
    <3>1. \A p \in Takes2, size \in Sizes : \A t : Takes(p, size, t) => t[1].say = Two(size)
      BY TakesTwo
    <3>2. QED
      BY <1>6, <2>1, <3>1
  <2>3. Len(todo[1].say) = 2 * srv.size
    BY <2>1, <2>2, TwoFacts
  <2>4. QED
    BY <1>1, <2>1, <2>3
<1>7. QED
  BY <1>3, <1>4, <1>5, <1>6 DEF Takes

\* Hearing the mio server.
LEMMA MioHeardOn ==
    ASSUME CommandsInv, CommandsInv', PaceInv, UserHears, server = "mio", BothOpen
    PROVE  (NoStandoff /\ MioPace /\ ByUnit(user.todo) /\ (user.todo = <<>> => user.heard = 0))'
<1>1. /\ user.todo # <<>> /\ UNCHANGED <<toServer, gone, splitOk, server, srv, task>>
      /\ user.todo[1].each \in Nat \ {0} /\ user'.cmd = user.cmd
  BY HearsFrom
<1>2. PICK data \in Pieces(toClient, Cap), d \in Nat, heard \in Nat : Heard(data, d, heard)
  BY HearsFrom
<1>3. /\ ByUnit(user.todo) /\ Unread(srv, splitOk) /\ Level(srv, user, toClient)
      /\ Sizing(srv, user)
  BY DEF PaceInv, MioPace
<1>4. /\ MioScene(srv, user, toServer, toClient, user.todo) /\ user.heard \in Nat
      /\ toClient \in Seq(Unit) /\ toClient # <<>> /\ srv \in SrvState
      /\ srv.phase \in Talking \cup Reading
  BY MioScenes, HearsFacts
<1>5. Unread(srv', splitOk')
  BY <1>1, <1>3
<1>6. PICK rest \in Nat : rest = Len(toClient') /\ Len(toClient) = d + rest
  BY <1>2 DEF Heard
<1>7. CASE /\ SameUnit(LastOf(data), user.todo[1].hear) /\ heard = 0
           /\ user'.todo = Tail(user.todo) /\ user'.said = 0 /\ user'.heard = 0
  <2>1. Spoken(srv, user, toServer, toClient, user.todo)
    <3>1. PICK none \in Seq(Unit) : none = <<>>
      BY Zenon, EmptyUnits
    <3>2. toClient \o none = toClient
      BY <1>4, <3>1
    <3>3. ~Silent(toClient, user.todo[1].hear)
      <4>1. PICK hear : hear = user.todo[1].hear
        OBVIOUS
      <4>2. Silent(toClient \o none, hear) => ~SameUnit(LastOf(data), hear)
        BY <1>4, <3>1, HearsOn
      <4>3. QED
        BY <1>7, <3>2, <4>1, <4>2
    <3>4. QED
      BY <1>1, <1>4, <3>3 DEF MioScene, Resting, Listening, Speaking
  <2>2. srv.phase \in Reading /\ Takes(srv.phase, srv.size, Tail(user.todo))
    BY <2>1 DEF Spoken
  <2>3. srv.phase \notin Sends
    BY <2>2, PhasesApart DEF Sends, Counts, BulkTime, Talking
  <2>4. ASSUME user'.todo # <<>> PROVE user'.todo[1].each = 1 /\ Len(user'.todo[1].say) # 0
    BY <1>7, <2>2, <2>4, TakesSome
  <2>5. NoStandoff'
    BY <1>7, <2>4 DEF NoStandoff, UserWaits
  <2>6. ByUnit(user'.todo)
    BY <2>4 DEF ByUnit
  <2>7. Level(srv', user', toClient')
    <3>1. 0 + rest \in Nat
      OBVIOUS
    <3>2. ASSUME user'.todo # <<>> PROVE Whole(0 + rest, 0, user'.todo[1].each)
      BY <2>4, <3>1, <3>2, WholeFacts
    <3>3. At0(srv') = 0
      BY <1>1, <2>3 DEF At0
    <3>4. QED
      BY <1>6, <1>7, <3>2, <3>3 DEF Level
  <2>8. Sizing(srv', user')
    BY <1>1, <2>3 DEF Sizing
  <2>9. QED
    BY <1>5, <1>7, <2>5, <2>6, <2>7, <2>8 DEF MioPace
<1>8. CASE /\ ~SameUnit(LastOf(data), user.todo[1].hear) \/ heard # 0
           /\ user'.todo = user.todo /\ user'.said = user.said /\ user'.heard = heard
  <2>1. At0(srv) \in Nat
    BY <1>4, StateFacts DEF At0
  <2>2. ASSUME ~WrongFor(srv)
        PROVE  /\ Whole(heard + rest, At0(srv), user.todo[1].each)
               /\ rest = 0 /\ At0(srv) = 0 => heard = 0
    <3> DEFINE n == user.todo[1].each
               pos == At0(srv)
               old == user.heard
    <3>1. Whole(old + (d + rest), pos, n)
      BY <1>1, <1>3, <1>6, <2>2 DEF Level
    <3>2. heard = (old + d) % n
      BY <1>2 DEF Heard
    <3>3. n \in Nat \ {0} /\ pos \in Nat /\ old \in Nat
      BY <1>1, <1>4, <2>1
    <3> HIDE DEF n, pos, old
    <3>4. QED
      <4>1. Whole(((old + d) % n) + rest, pos, n) /\ (rest = 0 /\ pos = 0 => (old + d) % n = 0)
        BY <3>1, <3>3, HeardFacts
      <4>2. Whole(heard + rest, pos, n) /\ (rest = 0 /\ pos = 0 => heard = 0)
        BY <3>2, <4>1
      <4>3. QED
        BY <4>2 DEF n, pos
  <2>3. Level(srv', user', toClient')
    <3>1. WrongFor(srv) => WrongFor(srv')
      BY <1>1
    <3>2. At0(srv') = At0(srv)
      BY <1>1
    <3>3. QED
      BY <1>6, <1>8, <2>2, <3>1, <3>2 DEF Level
  <2>4. Sizing(srv', user')
    BY <1>1, <1>3, <1>8 DEF Sizing
  <2>5. ByUnit(user'.todo) /\ user'.todo # <<>>
    BY <1>1, <1>3, <1>8
  <2>6. NoStandoff'
    <3>1. SUFFICES ASSUME (ServerWaits /\ toClient = <<>> /\ ~WrongSize)' PROVE FALSE
      BY DEF NoStandoff
    <3>2. srv.phase \in Reading /\ srv.phase \notin Sends
      BY <1>1, <3>1, PhasesApart DEF ServerWaits, Sends, Counts, BulkTime, Talking
    <3>3. Spoken(srv, user, toServer, toClient, user.todo)
      <4>1. srv.phase \notin Talking
        BY <3>2, PhasesApart
      <4>2. ~Speaking(srv, user, toServer, toClient, user.todo)
        BY <4>1 DEF Speaking, Answers, Talking, Counts, BulkTime, ToAccept
      <4>3. QED
        BY <1>1, <1>4, <4>2 DEF MioScene, Resting, Listening
    <3>4. PICK none \in Seq(Unit) : none = <<>>
      BY Zenon, EmptyUnits
    <3>5. toClient \o none = toClient /\ toClient' \o none = <<>>
      BY <1>4, <3>1, <3>4
    <3>6. EndsOnly(toClient \o none, user.todo[1].hear)
      BY <3>3, <3>5 DEF Spoken
    <3>7. SameUnit(LastOf(data), user.todo[1].hear)
      BY <1>2, <3>5, <3>6, HeardToTheEnd DEF Heard
    <3>8. ~WrongFor(srv)
      <4>1. GetTimeSize' = TimeSize(srv)
        BY <1>1 DEF GetTimeSize, Made, TimeSize
      <4>2. QED
        BY <1>1, <3>1, <4>1 DEF WrongFor, WrongSize, BulkTime
    <3>9. rest = 0 /\ At0(srv) = 0
      BY <1>6, <3>1, <3>2, ArgFacts DEF At0
    <3>10. QED
      BY <1>8, <2>2, <3>7, <3>8, <3>9
  <2>7. QED
    BY <1>5, <2>3, <2>4, <2>5, <2>6 DEF MioPace
<1>9. QED
  BY <1>2, <1>7, <1>8 DEF Heard

-----------------------------------------------------------------------------
\* Hearing the tokio server.
LEMMA TaskHeardOn ==
    ASSUME CommandsInv, PaceInv, UserHears, server = "tokio", BothOpen, ~splitOk
    PROVE  (NoStandoff /\ TaskPace /\ ByUnit(user.todo) /\ (user.todo = <<>> => user.heard = 0))'
<1>1. /\ user.todo # <<>> /\ UNCHANGED <<toServer, gone, splitOk, server, srv, task>>
      /\ user.todo[1].each \in Nat \ {0} /\ user.said = Len(user.todo[1].say)
  BY HearsFrom, HearsFacts
<1>2. PICK data \in Pieces(toClient, Cap), d \in Nat, heard \in Nat : Heard(data, d, heard)
  BY HearsFrom
<1>3. ByUnit(user.todo) /\ TaskPace
  BY DEF PaceInv
<1>4. /\ TaskScene(task, user, toServer, Unheard, user.todo) /\ user.heard \in Nat
      /\ Unheard = toClient \o task.out /\ Unheard' = toClient' \o task.out
  BY <1>1, TaskScenes DEF Unheard
<1>5. /\ toClient \in Seq(Unit) /\ toClient' \in Seq(Unit) /\ task.out \in Seq(Unit)
      /\ task.size \in Nat
  BY <1>2, TaskFacts DEF Heard
<1>6. PICK rest \in Nat : rest = Len(Unheard') /\ Len(Unheard) = d + rest
  <2>1. PICK k \in Nat, l \in Nat, m \in Nat :
           k = Len(toClient) /\ l = Len(toClient') /\ m = Len(task.out)
    BY <1>5
  <2>2. Len(Unheard) = k + m /\ Len(Unheard') = l + m /\ k = d + l
    BY <1>2, <1>4, <1>5, <2>1, JoinOf DEF Heard
  <2>3. l + m \in Nat /\ k + m = d + (l + m)
    BY <2>2
  <2>4. QED
    BY <2>2, <2>3
<1>7. CASE /\ SameUnit(LastOf(data), user.todo[1].hear) /\ heard = 0
           /\ user'.todo = Tail(user.todo) /\ user'.said = 0 /\ user'.heard = 0
  <2>1. TaskHasSaid(task, user, toServer, Unheard, user.todo)
    <3>1. ~Silent(Unheard, user.todo[1].hear)
      <4>1. PICK hear : hear = user.todo[1].hear
        OBVIOUS
      <4>2. Silent(toClient \o task.out, hear) => ~SameUnit(LastOf(data), hear)
        BY <1>5, HearsOn
      <4>3. QED
        BY <1>4, <1>7, <4>1, <4>2
    <3>2. QED
      BY <1>1, <1>4, <3>1 DEF TaskScene, TaskRests, TaskListens, TaskSends
  <2>2. TaskTakes(task.at, task.size, user.cmd, Tail(user.todo)) /\ task.got = 0
    BY <2>1 DEF TaskHasSaid
  <2>3. ASSUME user'.todo # <<>> PROVE user'.todo[1].each = 1 /\ Len(user'.todo[1].say) # 0
    <3>1. /\ user'.todo[1].each = 1 /\ Len(user'.todo[1].say) \in Nat
          /\ Len(user'.todo[1].say) >= 2
      <4> DEFINE todo == user'.todo
      <4>1. todo # <<>> /\ TaskTakes(task.at, task.size, user.cmd, todo)
        BY <1>7, <2>2, <2>3
      <4> HIDE DEF todo
      <4>2. todo[1].each = 1 /\ Len(todo[1].say) \in Nat /\ Len(todo[1].say) >= 2
        BY <1>5, <4>1, TaskTakesEach
      <4>3. QED
        BY <4>2 DEF todo
    <3>2. QED
      BY <3>1
  <2>4. NoStandoff'
    BY <1>7, <2>3 DEF NoStandoff, UserWaits
  <2>5. ByUnit(user'.todo)
    BY <2>3 DEF ByUnit
  <2>6. task.at # "get_time"
    BY <2>2 DEF TaskTakes, Counting
  <2>7. task.at \in Counting => task.got < task.size
    BY <1>5, <2>2 DEF TaskTakes
  <2>8. ASSUME user'.todo # <<>> PROVE Whole(0 + rest, 0, user'.todo[1].each)
    <3>1. 0 + rest \in Nat
      OBVIOUS
    <3>2. QED
      BY <2>3, <2>8, <3>1, WholeFacts
  <2>9. TaskPace'
    BY <1>1, <1>6, <1>7, <2>6, <2>7, <2>8 DEF TaskPace
  <2>10. QED
    BY <1>7, <2>4, <2>5, <2>9
<1>8. CASE /\ ~SameUnit(LastOf(data), user.todo[1].hear) \/ heard # 0
           /\ user'.todo = user.todo /\ user'.said = user.said /\ user'.heard = heard
  <2>1. /\ Whole(heard + rest, 0, user.todo[1].each)
        /\ rest = 0 => heard = 0
    <3> DEFINE n == user.todo[1].each
               old == user.heard
    <3>1. Whole(old + (d + rest), 0, n)
      BY <1>1, <1>3, <1>6 DEF TaskPace
    <3>2. heard = (old + d) % n
      BY <1>2 DEF Heard
    <3>3. n \in Nat \ {0} /\ old \in Nat
      BY <1>1, <1>4
    <3> HIDE DEF n, old
    <3>4. PICK pos \in Nat : pos = 0
      OBVIOUS
    <3>5. Whole(((old + d) % n) + rest, pos, n) /\ (rest = 0 /\ pos = 0 => (old + d) % n = 0)
      BY <3>1, <3>3, <3>4, HeardFacts
    <3>6. Whole(heard + rest, 0, n) /\ (rest = 0 => heard = 0)
      BY <3>2, <3>4, <3>5
    <3>7. QED
      BY <3>6 DEF n
  <2>2. TaskPace'
    BY <1>1, <1>3, <1>6, <1>8, <2>1 DEF TaskPace
  <2>3. ByUnit(user'.todo) /\ user'.todo # <<>>
    BY <1>1, <1>3, <1>8
  <2>4. NoStandoff'
    <3>1. SUFFICES ASSUME (ServerWaits /\ toClient = <<>> /\ toServer = <<>>)' PROVE FALSE
      BY DEF NoStandoff
    <3>2. task.out = <<>> /\ task.at \in TaskReading /\ toServer = <<>> /\ toClient' = <<>>
      BY <1>1, <3>1 DEF ServerWaits
    <3>3. toClient' \o task.out = <<>>
      <4>1. \A s \in Seq(Unit) : s \o <<>> = s
        OBVIOUS
      <4>2. QED
        BY <1>5, <3>2, <4>1
    <3>4. ~TaskListens(task, user, <<>>, Unheard, user.todo)
      BY <1>1, <1>3, TaskExpects DEF TaskPace
    <3>5. TaskHasSaid(task, user, toServer, Unheard, user.todo)
      BY <1>1, <1>4, <3>2, <3>4 DEF TaskScene, TaskRests, TaskSends, TaskReading
    <3>6. EndsOnly(toClient \o task.out, user.todo[1].hear)
      BY <1>4, <3>5 DEF TaskHasSaid
    <3>7. SameUnit(LastOf(data), user.todo[1].hear)
      BY <1>2, <1>5, <3>3, <3>6, HeardToTheEnd DEF Heard
    <3>8. rest = 0
      BY <1>4, <1>6, <3>3, ArgFacts
    <3>9. QED
      BY <1>8, <2>1, <3>7, <3>8
  <2>5. QED
    BY <2>2, <2>3, <2>4
<1>9. QED
  BY <1>2, <1>7, <1>8 DEF Heard

LEMMA UserHearsOn ==
    ASSUME CommandsInv, CommandsInv', PaceInv, UserHears
    PROVE  PaceInv'
<1>1. SUFFICES ASSUME BothOpen' PROVE PaceInv'
  BY DEF PaceInv
<1>2. UNCHANGED <<toServer, gone, splitOk, server, srv, task>>
  BY HearsFrom
<1>3. BothOpen
  BY <1>1, <1>2 DEF BothOpen, ServerOpen
<1>4. CASE server = "mio"
  <2>1. (NoStandoff /\ MioPace /\ ByUnit(user.todo) /\ (user.todo = <<>> => user.heard = 0))'
    BY <1>3, <1>4, MioHeardOn
  <2>2. QED
    BY <1>2, <1>4, <2>1 DEF PaceInv
<1>5. CASE server = "tokio" /\ ~splitOk
  <2>1. (NoStandoff /\ TaskPace /\ ByUnit(user.todo) /\ (user.todo = <<>> => user.heard = 0))'
    BY <1>3, <1>5, TaskHeardOn
  <2>2. QED
    BY <1>2, <1>5, <2>1 DEF PaceInv
<1>6. CASE server = "tokio" /\ splitOk
  <2>1. NoStandoff'
    BY <1>2, <1>6 DEF NoStandoff
  <2>2. user'.todo = <<>> => user'.heard = 0
    BY HearsFrom DEF Heard
  <2>3. QED
    BY <1>2, <1>6, <2>1, <2>2 DEF PaceInv
<1>7. QED
  BY <1>4, <1>5, <1>6, UserFacts DEF Wired

\* At the start the client says hello, and the server waits for it.
LEMMA PaceStarts ==
    ASSUME Init
    PROVE  PaceInv
<1>1. /\ toServer = <<>> /\ toClient = <<>> /\ gone = {} /\ splitOk = FALSE
      /\ server \in {"mio", "tokio"} /\ SrvInit /\ TaskInit
      /\ user.todo = Hello /\ user.said = 0 /\ user.heard = 0
  BY CommandsAssumption DEF Init
<1>2. srv.phase = "GreetingReceiveConnectionType" /\ srv.got = <<>>
  BY <1>1 DEF SrvInit
<1>3. task.at = "define_stream" /\ task.out = <<>>
  BY <1>1 DEF TaskInit
<1>4. Hello # <<>> /\ Hello[1].each = 1 /\ Len(Hello[1].say) = 2
  <2>1. Len(Line("GET /rmbt", <<>>)) = 2
    BY DEF Line
  <2>2. QED
    BY <2>1, HelloFacts, HelloEach
<1>5. ByUnit(user.todo) /\ NoStandoff
  BY <1>1, <1>4 DEF ByUnit, NoStandoff, UserWaits
<1>6. Len(<<>>) = 0 /\ <<>> \o <<>> = <<>>
  <2>1. <<>> \in Seq(Unit)
    BY Zenon, EmptyUnits
  <2>2. \A s \in Seq(Unit) : s \o <<>> = s
    OBVIOUS
  <2>3. QED
    BY <2>1, <2>2, ArgFacts
<1>7. Whole(0 + 0, 0, 1)
  <2>1. PICK none \in Nat : none = 0 + 0 /\ none = 0
    OBVIOUS
  <2>2. Whole(none, none, 1)
    BY <2>1, WholeFacts
  <2>3. QED
    BY <2>1, <2>2
<1>8. MioPace
  <2>1. /\ srv.phase \notin Sends /\ srv.phase \notin Awaits /\ srv.phase \notin Uploading
        /\ srv.phase # "AcceptCommandReceive" /\ ~EndsLine(srv.got)
    BY <1>2 DEF Sends, Counts, BulkTime, Awaits, Uploading, Takes2, EndsLine
  <2>2. Unread(srv, splitOk) /\ Sizing(srv, user) /\ At0(srv) = 0
    BY <2>1 DEF Unread, Sizing, At0
  <2>3. Level(srv, user, toClient)
    BY <1>1, <1>4, <1>6, <1>7, <2>2 DEF Level
  <2>4. QED
    BY <2>2, <2>3 DEF MioPace
<1>9. TaskPace
  BY <1>1, <1>3, <1>4, <1>6, <1>7 DEF TaskPace, Counting, Unheard
<1>10. QED
  BY <1>1, <1>4, <1>5, <1>8, <1>9 DEF PaceInv

LEMMA PaceGoesOn ==
    ASSUME CommandsInv, CommandsInv', PaceInv, [Next]_vars
    PROVE  PaceInv'
<1>1. CASE UNCHANGED vars
  <2>1. UNCHANGED <<toServer, toClient, gone, splitOk, server, srv, task, user>>
    BY <1>1 DEF vars, wire, sessions
  <2>2. /\ BothOpen' = BothOpen /\ NoStandoff' = NoStandoff
        /\ MioPace' = MioPace /\ TaskPace' = TaskPace
    BY <2>1 DEF BothOpen, ServerOpen, NoStandoff, UserWaits, ServerWaits, WrongSize, GetTimeSize,
                Made, MioPace, TaskPace, Unheard
  <2>3. QED
    BY <2>1, <2>2 DEF PaceInv
<1>2. CASE Next
  BY <1>2, UserBeginsOn, UserSaysOn, UserHearsOn, UserLeavesOn, MioKeepsPace, TaskKeepsPace
     DEF Next, UserStep
<1>3. QED
  BY <1>1, <1>2

\* The invariant: neither is ahead of the other by part of a text or of a chunk.
THEOREM PaceInvHolds == Spec => []PaceInv
<1>1. Init => PaceInv
  BY PaceStarts
<1>2. CommandsInv /\ CommandsInv' /\ PaceInv /\ [Next]_vars => PaceInv'
  BY PaceGoesOn
<1>3. QED
  BY <1>1, <1>2, CommandsInvHolds, PTL DEF Spec

\* The client and the server never wait for each other with nothing on the way.
THEOREM NoStandoffHolds == Spec => []NoStandoff
<1>1. PaceInv => NoStandoff
  BY DEF PaceInv, NoStandoff
<1>2. QED
  BY <1>1, PaceInvHolds, PTL
=============================================================================
