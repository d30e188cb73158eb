------------------------------ MODULE Streams -------------------------------
(***************************************************************************)
(* The Stream enum of stream/stream.rs: a measuring client and a server    *)
(* that talk over TCP, TLS, WebSocket or WebSocket over TLS on non-blocking*)
(* sockets.  They take turns: a part of the Script is one buffer that a    *)
(* handler writes, calling write() until it was told that all is taken,    *)
(* and that the other side reads, but for WebSocket into a buffer of any   *)
(* size up to that of what is missing.                                     *)
(*                                                                         *)
(* The libraries are modelled by what they buffer: rustls what it could not*)
(* put into the socket, tungstenite its frames, either of them what came in*)
(* beyond the bytes asked for.  A byte stands for itself in plaintext and  *)
(* on the wire.  A write() takes a step each time it turns to the socket,  *)
(* and the peer may read in between; a read() is one step, as what comes in*)
(* while it lasts comes in before or after it.                             *)
(*                                                                         *)
(* Handshakes are over, and neither side closes the connection.            *)
(***************************************************************************)
EXTENDS Naturals, Sequences

CONSTANTS Kinds,    \* of stream: "tcp", "tls", "ws" and "wss"
          Script,   \* the parts of the dialogue: who writes it, its size
          Rooms,    \* bytes that a direction of the socket may hold
          Limit     \* bytes that rustls takes before it is emptied

Sides   == {"client", "server"}
Peer(e) == IF e = "client" THEN "server" ELSE "client"

ASSUME StreamsAssumption ==
    /\ Kinds \subseteq {"tcp", "tls", "ws", "wss"}
    /\ Script \in Seq([by : Sides, size : Nat \ {0, 1}])
    /\ Rooms \subseteq Nat \ {0}
    /\ Limit \in Nat \ {0, 1}

VARIABLES
    kind,    \* the kind of stream
    room,    \* bytes that a direction of its socket holds
    part,    \* part[e]: the part that side e is at
    left,    \* left[e]: bytes of it that e has still to write or to read
    told,    \* told[e]: bytes that write() told e are taken
    heard,   \* heard[e]: the bytes that read() gave e
    awake,   \* awake[e]: e goes on calling; otherwise it waits in poll()
    call,    \* call[e]: where a write() of e stands, or "none"
    total,   \* total[e]: total_written of the rustls write() that e is in
    conn,    \* conn[e]: bytes in rustls that are not in the socket yet
    held,    \* held[e]: ~finished, of the last byte in conn e was not told
    out,     \* out[e]: bytes of a frame that tungstenite has to send yet
    flushed, \* flushed[e]: the last frame of e was sent, and e was told so
    ends,    \* ends[e]: the bytes that end a frame of e
    temp,    \* temp[e]: bytes taken from the socket and not given to e yet
    net,     \* net[e]: bytes on the way to e
    reset    \* a call returned Ok(0): e takes the connection for closed

setup     == <<kind, room>>
turnVars  == <<part, left, told>>
frameVars == <<out, flushed, ends>>
readVars  == <<heard, temp>>
vars == <<setup, turnVars, awake, call, total, conn, held, frameVars, readVars, net, reset>>

Run(a, b)   == [i \in 1..(b - a) |-> a + i]
Least(a, b) == IF a < b THEN a ELSE b
Front(s, n) == SubSeq(s, 1, n)
After(s, n) == SubSeq(s, n + 1, Len(s))

By(k)     == IF k \in DOMAIN Script THEN Script[k].by ELSE "nobody"
Size(k)   == IF k \in DOMAIN Script THEN Script[k].size ELSE 0
Writes(e) == By(part[e]) = e
Reads(e)  == By(part[e]) = Peer(e)
Space(e)  == room - Len(net[Peer(e)])
\* What a handler writes: its buffer from the write position on.
Buf(e)    == Run(told[e], told[e] + left[e])

Init ==
    /\ kind \in Kinds
    /\ room \in Rooms
    /\ part = [e \in Sides |-> 1]
    /\ left = [e \in Sides |-> Size(1)]
    /\ told = [e \in Sides |-> 0]
    /\ heard = [e \in Sides |-> <<>>]
    /\ awake = [e \in Sides |-> By(1) = e]
    /\ call = [e \in Sides |-> "none"]
    /\ total = [e \in Sides |-> 0]
    /\ conn = [e \in Sides |-> <<>>]
    /\ held = [e \in Sides |-> FALSE]
    /\ out = [e \in Sides |-> <<>>]
    /\ flushed = [e \in Sides |-> TRUE]
    /\ ends = [e \in Sides |-> {}]
    /\ temp = [e \in Sides |-> <<>>]
    /\ net = [e \in Sides |-> <<>>]
    /\ reset = FALSE
-----------------------------------------------------------------------------
(* The handlers: what they do with the result of a call.                   *)

\* n more bytes of the part are done; after the last one, the next part.
GoOn(e, n) ==
    /\ part' = [part EXCEPT ![e] = IF n < left[e] THEN @ ELSE @ + 1]
    /\ left' = [left EXCEPT ![e] = IF n < left[e] THEN @ - n ELSE Size(part[e] + 1)]

\* The socket takes `data`, whose arrival wakes a peer that waits to read.
Send(e, data, goesOn) ==
    /\ net' = [net EXCEPT ![Peer(e)] = @ \o data]
    /\ awake' = [awake EXCEPT ![e] = goesOn, ![Peer(e)] = @ \/ (data # <<>> /\ Reads(Peer(e)))]

\* Mutant: a handler that turns to reading does not reregister.
WroteNoReregister(e, n, data) ==
    /\ told' = [told EXCEPT ![e] = @ + n]
    /\ GoOn(e, n)
    /\ Send(e, data, n < left[e] \/ By(part[e] + 1) = e)
    /\ call' = [call EXCEPT ![e] = "none"]
    /\ reset' = (n = 0)

\* write() returned Ok(n): the handler loops until the part is through.  One that turns
\* to reading reregisters, and gets an event if there is something already.  Handlers take
\* n = 0 for the end of the connection.
Wrote(e, n, data) ==
    /\ told' = [told EXCEPT ![e] = @ + n]
    /\ GoOn(e, n)
    /\ Send(e, data, n < left[e] \/ By(part[e] + 1) = e \/ net[e] # <<>>)
    /\ call' = [call EXCEPT ![e] = "none"]
    /\ reset' = (n = 0)

\* write() returned WouldBlock.
WriteBlocked(e) ==
    /\ Send(e, <<>>, FALSE)
    /\ call' = [call EXCEPT ![e] = "none"]
    /\ UNCHANGED <<turnVars, reset>>

\* read() takes n bytes from the socket, which wakes a peer that waits for room.  The
\* handler loops unless the read blocked.
Take(e, n, goesOn) ==
    /\ net' = [net EXCEPT ![e] = After(@, n)]
    /\ awake' = [awake EXCEPT ![e] = goesOn, ![Peer(e)] = @ \/ (n > 0 /\ Writes(Peer(e)))]

\* read() gave `data`.
Got(e, data) ==
    /\ heard' = [heard EXCEPT ![e] = @ \o data]
    /\ GoOn(e, Len(data))

ReadBlocked == UNCHANGED <<part, left, heard>>
-----------------------------------------------------------------------------
(* TCP.                                                                    *)

TcpWrite(e) ==
    /\ kind = "tcp"
    /\ LET n == Least(Space(e), left[e]) IN
       \/ n > 0 /\ Wrote(e, n, Front(Buf(e), n))
       \/ n = 0 /\ WriteBlocked(e)
    /\ UNCHANGED <<setup, total, conn, held, frameVars, readVars>>

TcpRead(e) ==
    /\ kind = "tcp"
    /\ \/ \E n \in 1..Least(left[e], Len(net[e])) :
             Got(e, Front(net[e], n)) /\ Take(e, n, TRUE)
       \/ net[e] = <<>> /\ ReadBlocked /\ Take(e, 0, FALSE)
    /\ UNCHANGED <<setup, told, call, total, conn, held, frameVars, temp, reset>>
-----------------------------------------------------------------------------
(* rustls, on either side: write() empties rustls' buffer, then hands over *)
(* pieces of at most Limit and empties the buffer after each.  When the    *)
(* socket is full it keeps quiet about the last byte it handed over, so    *)
(* that the caller comes back for it, and takes it as written then.        *)

\* The buffer that rustls is given, by a handler or by tungstenite.
Given(e) == IF kind = "wss" THEN out[e] ELSE Buf(e)

TlsBegin(e) ==
    /\ kind = "tls"
    /\ call[e] = "none"
    /\ call' = [call EXCEPT ![e] = "empty"]
    /\ UNCHANGED <<setup, turnVars, awake, total, conn, held, frameVars, readVars, net, reset>>

\* write_tls, in either of the loops: the socket takes what it has room for.
TlsPut(e) ==
    /\ call[e] \in {"empty", "hand"}
    /\ conn[e] # <<>>
    /\ LET n == Least(Space(e), Len(conn[e])) IN
       /\ n > 0
       /\ conn' = [conn EXCEPT ![e] = After(@, n)]
       /\ Send(e, Front(conn[e], n), awake[e])
    /\ UNCHANGED <<setup, turnVars, call, total, held, frameVars, readVars, reset>>

\* Old bytes do not leave: WouldBlock.
TlsStuck(e) ==
    /\ call[e] = "empty"
    /\ conn[e] # <<>>
    /\ Space(e) = 0
    /\ WriteBlocked(e)
    /\ UNCHANGED <<setup, total, conn, held, frameVars, readVars>>

\* Mutant: the byte that was held back is handed over again.
TlsEmptiedFromZero(e) ==
    /\ call[e] = "empty"
    /\ conn[e] = <<>>
    /\ call' = [call EXCEPT ![e] = "hand"]
    /\ total' = [total EXCEPT ![e] = 0]
    /\ held' = [held EXCEPT ![e] = FALSE]
    /\ UNCHANGED <<setup, turnVars, awake, conn, frameVars, readVars, net, reset>>

TlsEmptied(e) ==
    /\ call[e] = "empty"
    /\ conn[e] = <<>>
    /\ call' = [call EXCEPT ![e] = "hand"]
    /\ total' = [total EXCEPT ![e] = IF held[e] THEN 1 ELSE 0]
    /\ held' = [held EXCEPT ![e] = FALSE]
    /\ UNCHANGED <<setup, turnVars, awake, conn, frameVars, readVars, net, reset>>

\* Mutant: bytes are handed over one by one.
TlsHandOne(e) ==
    /\ call[e] = "hand"
    /\ conn[e] = <<>>
    /\ total[e] < Len(Given(e))
    /\ conn' = [conn EXCEPT ![e] = <<Given(e)[total[e] + 1]>>]
    /\ total' = [total EXCEPT ![e] = @ + 1]
    /\ UNCHANGED <<setup, turnVars, awake, call, held, frameVars, readVars, net, reset>>

TlsHand(e) ==
    /\ call[e] = "hand"
    /\ conn[e] = <<>>
    /\ total[e] < Len(Given(e))
    /\ LET n == Least(Limit, Len(Given(e)) - total[e]) IN
       /\ conn' = [conn EXCEPT ![e] = SubSeq(Given(e), total[e] + 1, total[e] + n)]
       /\ total' = [total EXCEPT ![e] = @ + n]
    /\ UNCHANGED <<setup, turnVars, awake, call, held, frameVars, readVars, net, reset>>

\* tungstenite drops what it was told and calls again, until nothing is left.  It takes
\* Ok(0) for a reset.
FrameWrote(e, n) ==
    /\ out' = [out EXCEPT ![e] = After(@, n)]
    /\ \/ /\ n \in 1..(Len(out[e]) - 1)
          /\ call' = [call EXCEPT ![e] = "empty"]
          /\ UNCHANGED <<turnVars, awake, flushed, net, reset>>
       \/ /\ n \in {0, Len(out[e])}
          /\ flushed' = [flushed EXCEPT ![e] = n > 0]
          /\ Wrote(e, IF n > 0 THEN left[e] ELSE 0, <<>>)
    /\ UNCHANGED ends

\* rustls' write() returned Ok(n).
Told(e, n) ==
    \/ kind = "tls" /\ Wrote(e, n, <<>>) /\ UNCHANGED frameVars
    \/ kind = "wss" /\ FrameWrote(e, n)

\* Mutant: the caller is told of all that was handed over.
TlsHoldNothing(e) ==
    /\ call[e] = "hand"
    /\ conn[e] # <<>>
    /\ Space(e) = 0
    /\ Told(e, total[e])
    /\ UNCHANGED <<setup, total, conn, held, readVars>>

\* New bytes do not all leave.
TlsHold(e) ==
    /\ call[e] = "hand"
    /\ conn[e] # <<>>
    /\ Space(e) = 0
    /\ held' = [held EXCEPT ![e] = TRUE]
    /\ Told(e, total[e] - 1)
    /\ UNCHANGED <<setup, total, conn, readVars>>

TlsDone(e) ==
    /\ call[e] = "hand"
    /\ conn[e] = <<>>
    /\ total[e] = Len(Given(e))
    /\ Told(e, total[e])
    /\ UNCHANGED <<setup, total, conn, held, readVars>>

TlsWrite(e) ==
    TlsPut(e) \/ TlsStuck(e) \/ TlsEmptied(e) \/ TlsHand(e) \/ TlsHold(e) \/ TlsDone(e)

\* What is left over in temp_buf fills the buffer, of size b.
TlsReadKept(e, b) ==
    /\ Len(temp[e]) > b
    /\ Got(e, Front(temp[e], b))
    /\ temp' = [temp EXCEPT ![e] = After(@, b)]
    /\ Take(e, 0, TRUE)
    /\ UNCHANGED conn

\* Something comes in: all of it goes through temp_buf.
TlsReadNew(e, b) ==
    /\ Len(temp[e]) <= b
    /\ \E n \in 1..Len(net[e]) :
          LET all == temp[e] \o Front(net[e], n)
              k   == Least(b, Len(all))
          IN  /\ Got(e, Front(all, k))
              /\ temp' = [temp EXCEPT ![e] = After(all, k)]
              /\ Take(e, n, TRUE)
    /\ UNCHANGED conn

\* Mutant: a read that would block leaves temp_buf alone.
TlsReadDryKeeping(e, b) ==
    /\ Len(temp[e]) <= b
    /\ net[e] = <<>>
    /\ LET n == Least(Space(e), Len(conn[e])) IN
       /\ conn' = [conn EXCEPT ![e] = After(@, n)]
       /\ ReadBlocked
       /\ UNCHANGED temp
       /\ Send(e, Front(conn[e], n), FALSE)

\* Nothing comes in: rustls is made to write what it still has, which may block in turn,
\* and then what is in temp_buf is all there is.
TlsReadDry(e, b) ==
    /\ Len(temp[e]) <= b
    /\ net[e] = <<>>
    /\ LET n == Least(Space(e), Len(conn[e])) IN
       /\ conn' = [conn EXCEPT ![e] = After(@, n)]
       /\ IF temp[e] # <<>> /\ (n > 0 \/ conn[e] = <<>>)
          THEN /\ Got(e, temp[e])
               /\ temp' = [temp EXCEPT ![e] = <<>>]
               /\ Send(e, Front(conn[e], n), TRUE)
          ELSE /\ ReadBlocked
               /\ UNCHANGED temp
               /\ Send(e, Front(conn[e], n), FALSE)

\* The buffer is that of a chunk, or a line buffer that is smaller than what is to come.
TlsRead(e) ==
    /\ \E b \in 1..left[e] : TlsReadKept(e, b) \/ TlsReadNew(e, b) \/ TlsReadDry(e, b)
    /\ UNCHANGED <<setup, told, call, total, held, frameVars, reset>>

RustlsWrite(e)       == kind = "tls" /\ e = "client" /\ (TlsBegin(e) \/ TlsWrite(e))
RustlsRead(e)        == kind = "tls" /\ e = "client" /\ TlsRead(e)
RustlsServerWrite(e) == kind = "tls" /\ e = "server" /\ (TlsBegin(e) \/ TlsWrite(e))
RustlsServerRead(e)  == kind = "tls" /\ e = "server" /\ TlsRead(e)
-----------------------------------------------------------------------------
(* WebSocket: a buffer becomes one frame.  A frame that could not be sent  *)
(* is sent by the calls that follow, whatever they are given.              *)

\* Mutant: a call that is made again queues its buffer again.
FrameAgain(e, step) ==
    /\ call[e] = "none"
    /\ call' = [call EXCEPT ![e] = step]
    /\ flushed' = [flushed EXCEPT ![e] = FALSE]
    /\ out' = [out EXCEPT ![e] = @ \o Buf(e)]
    /\ ends' = [ends EXCEPT ![e] = @ \cup {told[e] + left[e]}]
    /\ UNCHANGED <<setup, turnVars, awake, total, conn, held, readVars, net, reset>>

Frame(e, step) ==
    /\ call[e] = "none"
    /\ call' = [call EXCEPT ![e] = step]
    /\ \/ /\ flushed[e]
          /\ flushed' = [flushed EXCEPT ![e] = FALSE]
          /\ out' = [out EXCEPT ![e] = @ \o Buf(e)]
          /\ ends' = [ends EXCEPT ![e] = @ \cup {told[e] + left[e]}]
       \/ /\ ~flushed[e]
          /\ UNCHANGED frameVars
    /\ UNCHANGED <<setup, turnVars, awake, total, conn, held, readVars, net, reset>>

\* Mutant: a flush takes no notice of the room.
FramePutBlind(e) ==
    /\ call[e] = "flush"
    /\ out[e] # <<>>
    /\ out' = [out EXCEPT ![e] = <<>>]
    /\ Send(e, out[e], awake[e])
    /\ UNCHANGED <<setup, turnVars, call, total, conn, held, flushed, ends, readVars, reset>>

\* flush() over TCP, and over OpenSSL, which takes what there is room for as TCP does.
FramePut(e) ==
    /\ call[e] = "flush"
    /\ out[e] # <<>>
    /\ LET n == Least(Space(e), Len(out[e])) IN
       \/ /\ n > 0
          /\ out' = [out EXCEPT ![e] = After(@, n)]
          /\ Send(e, Front(out[e], n), awake[e])
          /\ UNCHANGED <<turnVars, call, reset>>
       \/ /\ n = 0
          /\ WriteBlocked(e)
          /\ UNCHANGED out
    /\ UNCHANGED <<setup, total, conn, held, flushed, ends, readVars>>

FrameDone(e) ==
    /\ call[e] = "flush"
    /\ out[e] = <<>>
    /\ flushed' = [flushed EXCEPT ![e] = TRUE]
    /\ Wrote(e, left[e], <<>>)
    /\ UNCHANGED <<setup, total, conn, held, out, ends, readVars>>

WsWrite(e) == Frame(e, "flush") \/ FramePut(e) \/ FrameDone(e)

\* Frames that are whole, by the index of their last byte.
Whole(e, s) == {i \in 1..Len(s) : s[i] \in ends[Peer(e)]}

\* tungstenite reads until a frame is whole; of a frame that is longer than the buffer
\* the rest is lost.
WsRead(e) ==
    /\ \E n \in 0..Len(net[e]) :
          LET all == temp[e] \o Front(net[e], n) IN
          /\ n > 0 => Whole(e, temp[e]) = {}
          /\ \/ \E f \in Whole(e, all) :
                   /\ \A i \in Whole(e, all) : f <= i
                   /\ Got(e, Front(all, Least(f, left[e])))
                   /\ temp' = [temp EXCEPT ![e] = After(all, f)]
                   /\ Take(e, n, TRUE)
             \/ /\ Whole(e, all) = {}
                /\ n = Len(net[e])
                /\ ReadBlocked
                /\ temp' = [temp EXCEPT ![e] = all]
                /\ Take(e, n, FALSE)
    /\ UNCHANGED <<setup, told, call, total, conn, held, frameVars, reset>>

WebSocketWrite(e)             == kind = "ws" /\ WsWrite(e)
WebSocketRead(e)              == kind = "ws" /\ WsRead(e)
WebSocketTlsWrite(e)          == kind = "wss" /\ e = "client" /\ WsWrite(e)
WebSocketTlsRead(e)           == kind = "wss" /\ e = "client" /\ WsRead(e)
WebSocketRustlsServerWrite(e) ==
    kind = "wss" /\ e = "server" /\ (Frame(e, "empty") \/ TlsWrite(e))
\* The loop over binary frames ends with the first one, which fills the buffer.
WebSocketRustlsServerRead(e)  == kind = "wss" /\ e = "server" /\ WsRead(e)
-----------------------------------------------------------------------------
Write(e) ==
    /\ Writes(e) /\ awake[e] /\ ~reset
    /\ \/ TcpWrite(e) \/ RustlsWrite(e) \/ RustlsServerWrite(e)
       \/ WebSocketWrite(e) \/ WebSocketTlsWrite(e) \/ WebSocketRustlsServerWrite(e)

Read(e) ==
    /\ Reads(e) /\ awake[e] /\ ~reset
    /\ \/ TcpRead(e) \/ RustlsRead(e) \/ RustlsServerRead(e)
       \/ WebSocketRead(e) \/ WebSocketTlsRead(e) \/ WebSocketRustlsServerRead(e)

Next == \E e \in Sides : Write(e) \/ Read(e)

Spec == Init /\ [][Next]_vars
\* A side that is awake goes on: a worker and a client thread handle every event.
FairSpec == Spec /\ \A e \in Sides : WF_vars(Write(e)) /\ WF_vars(Read(e))
-----------------------------------------------------------------------------
(* Properties                                                              *)

\* Every variable keeps its type, and nothing is sent beyond the room.
TypeOK ==
    /\ kind \in Kinds
    /\ room \in Rooms
    /\ part \in [Sides -> 1..(Len(Script) + 1)]
    /\ left \in [Sides -> Nat]
    /\ told \in [Sides -> Nat]
    /\ heard \in [Sides -> Seq(Nat)]
    /\ awake \in [Sides -> BOOLEAN]
    /\ call \in [Sides -> {"none", "empty", "hand", "flush"}]
    /\ total \in [Sides -> Nat]
    /\ conn \in [Sides -> Seq(Nat)]
    /\ held \in [Sides -> BOOLEAN]
    /\ out \in [Sides -> Seq(Nat)]
    /\ flushed \in [Sides -> BOOLEAN]
    /\ ends \in [Sides -> SUBSET Nat]
    /\ temp \in [Sides -> Seq(Nat)]
    /\ net \in [Sides -> Seq(Nat)]
    /\ \A e \in Sides : Len(net[e]) <= room
    /\ reset \in BOOLEAN

\* Nothing is lost, doubled or swapped in the buffers of the libraries, though rustls'
\* write() leaves out a byte when it is called again: what a side reads is what its peer
\* wrote, from the start, and but for a call that lasts never more than the peer was told
\* is taken.
InOrder ==
    \A e \in Sides :
        /\ heard[e] = Run(0, Len(heard[e]))
        /\ call[Peer(e)] = "none" => Len(heard[e]) <= told[Peer(e)]

\* A handler that was told all of its part turns to other things, so nothing of it may be
\* left in a library: the next write would take it for its own, or leave out a byte of
\* its own, and flush(), which the GETTIME handlers unwrap, would block.  What a library
\* still has ends with a byte of the part at hand that the handler was not told of.
ToldIsSent ==
    \A e \in Sides : call[e] = "none" =>
        /\ held[e] = (conn[e] # <<>>)
        /\ flushed[e] = (out[e] = <<>>)
        /\ \A s \in {conn[e], out[e]} : s # <<>> =>
              Writes(e) /\ s[Len(s)] \in (told[e] + 1)..(told[e] + left[e])

\* The byte that rustls' write() keeps quiet about is never the only one: a write that
\* took something does not return Ok(0), which handlers take for a closed connection.
NeverReset == ~reset

\* A side that waits for its socket has read all that came in: no byte lies in temp_buf,
\* and no whole frame in tungstenite, for which no event will wake it.
NothingKept ==
    \A e \in Sides :
        Reads(e) /\ ~awake[e] =>
            \/ temp[e] = <<>>
            \/ kind \in {"ws", "wss"} /\ Whole(e, temp[e]) = {}

\* The handlers get the reliable ordered streams they rely on.
Bytes == INSTANCE ByteStream WITH said <- told, busy <- [e \in Sides |-> call[e] # "none"]

BytesInOrder == Bytes!Spec

\* The dialogue comes to its end: no side waits for an event that has passed, or for room
\* that only its own library could make.
DialogueEnds == <>(\A e \in Sides : part[e] > Len(Script))
=============================================================================
