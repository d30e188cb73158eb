-------------------------------- MODULE Wire --------------------------------
(***************************************************************************)
(* The connection between a measuring client and a server, as the two meet *)
(* it through Stream::read and Stream::write: a byte stream each way, of   *)
(* bounded room.                                                           *)
(*                                                                         *)
(* The buffers that lines are read into are larger than what is ever on    *)
(* the way, so their space is given as Cap.                                *)
(*                                                                         *)
(* A control line stands for two units, a head and the tail that ends with *)
(* the newline; a chunk of size n is n units, the last of which is 0x00 or *)
(* 0xFF.  A write takes as much as there is room for, a read returns any   *)
(* non-empty part of what is on the way: TCP keeps no message boundaries.  *)
(***************************************************************************)
EXTENDS Naturals, Sequences

CONSTANTS Cap,                \* units a direction holds: the socket buffers
          MinChunk, MaxChunk  \* MIN_CHUNK_SIZE and MAX_CHUNK_SIZE in units

ASSUME WireAssumption ==
    /\ Cap \in Nat \ {0, 1}
    /\ MinChunk \in Nat \ {0, 1}
    /\ MaxChunk \in Nat
    /\ MinChunk <= MaxChunk

VARIABLES toServer, toClient,   \* what is on the way
          gone,                 \* sides that have closed the connection
          splitOk               \* history: a read has cut in two a line that its reader takes
                                \* for whole: an awaited OK, at the tokio server any

wire == <<toServer, toClient, gone, splitOk>>

Line(of, arg)     == <<[of |-> of, at |-> 1, arg |-> arg], [of |-> of, at |-> 2, arg |-> arg]>>
Chunk(size, last) ==
    [i \in 1..size |-> [of |-> IF i < size THEN "body" ELSE IF last THEN "FF" ELSE "00",
                        at |-> 1, arg |-> <<>>]]
\* The sizes that CHUNK_STORAGE has a chunk of: the smallest, and twice any other, up to
\* the largest.
Doubled(S) == MinChunk \in S /\ \A s \in S : 2 * s <= MaxChunk => 2 * s \in S
Stored == {s \in MinChunk..MaxChunk :
              \A S \in SUBSET (MinChunk..MaxChunk) : Doubled(S) => s \in S}

OK == Line("OK", <<>>)
Accept == Line("ACCEPT GETCHUNKS", <<>>)

Least(a, b)     == IF a < b THEN a ELSE b
LastOf(s)       == s[Len(s)]
EndsLine(s)     == s # <<>> /\ LastOf(s).at = 2
EndsWith(s, t)  == Len(s) >= Len(t) /\ SubSeq(s, Len(s) - Len(t) + 1, Len(s)) = t
Contains(s, t)  == \E i \in 0..(Len(s) - Len(t)) : SubSeq(s, i + 1, i + Len(t)) = t
LinesOf(of, s)  == {i \in 1..(Len(s) - 1) : s[i].of = of /\ s[i].at = 1 /\ s[i + 1].at = 2}

\* What one read() into a buffer with `space` left may return.
Pieces(ch, space) == {SubSeq(ch, 1, n) : n \in 1..Least(Len(ch), space)}
Rest(ch, data)    == SubSeq(ch, Len(data) + 1, Len(ch))
CutsOk(data)      == LastOf(data) = OK[1]
CutsLine(data)    == LastOf(data).at = 1 /\ LastOf(data).of \notin {"body", "00", "FF"}

\* What one write() of buf from position pos on takes; empty: it would block.
Taken(ch, buf, pos) == SubSeq(buf, pos + 1, pos + Least(Cap - Len(ch), Len(buf) - pos))
=============================================================================
