---------------------------- MODULE Streams_proofs ----------------------------
(***************************************************************************)
(* What holds of the streams for every script of parts of two bytes or     *)
(* more, every room of the socket and every limit of rustls.               *)
(*                                                                         *)
(* StreamInv follows the bytes from the writer's buffer to its peer: in    *)
(* rustls, in the socket and in the peer's libraries they are consecutive  *)
(* runs, and rustls owes its caller at most one byte, of the part at hand. *)
(* Both sides stand at places of the Script that fit each other, which is  *)
(* why a frame of a WebSocket is what its reader asks for, and why nothing *)
(* is left in the reader's libraries when it turns to write.               *)
(***************************************************************************)
EXTENDS Streams, SequenceTheorems, WellFoundedInduction, TLAPS

(* The data: runs of consecutive bytes, and the place in the dialogue at   *)
(* which each part of the Script begins.                                   *)

\* A set that starts at 0 and goes on from each of its elements below K has them all.
LEMMA Ascending ==
    ASSUME NEW K \in Nat, NEW S, 0 \in S,
           \A n \in 0..(K - 1) : n \in S => n + 1 \in S
    PROVE  0..K \subseteq S
<1> DEFINE T == {n \in 0..K : n \notin S}
<1>1. SUFFICES ASSUME T # {}
               PROVE  FALSE
  OBVIOUS
<1>2. T \subseteq Nat
  OBVIOUS
<1>3. \E x \in T : \A y \in T : ~ (<<y, x>> \in OpToRel(<, Nat))
  BY <1>1, <1>2, NatLessThanWellFounded, WFMin
<1>4. PICK x \in T : \A y \in T : ~ (<<y, x>> \in OpToRel(<, Nat))
  BY <1>3
<1>5. \A y \in T : ~(y < x)
  BY <1>2, <1>4 DEF OpToRel
<1>6. x \in 1..K /\ x - 1 \in 0..(K - 1)
  OBVIOUS
<1>7. x - 1 \notin T
  BY <1>5, <1>6
<1>8. QED
  BY <1>6, <1>7

\* The sums of a row of numbers.
IsSum(f, g, K) ==
    /\ f \in [0..K -> Nat]
    /\ f[0] = 0
    /\ \A k \in 1..K : f[k] = f[k - 1] + g[k]

LEMMA SumExists ==
    ASSUME NEW K \in Nat, NEW g \in [1..K -> Nat]
    PROVE  \E f : IsSum(f, g, K)
<1> DEFINE S == {n \in 0..K : \E f : IsSum(f, g, n)}
<1>1. 0 \in S
  <2>1. IsSum([k \in 0..0 |-> 0], g, 0)
    BY DEF IsSum
  <2>2. QED
    BY <2>1
<1>2. ASSUME NEW n \in 0..(K - 1), n \in S
      PROVE  n + 1 \in S
  <2>1. PICK f : IsSum(f, g, n)
    BY <1>2
  <2> DEFINE h == [k \in 0..(n + 1) |-> IF k = n + 1 THEN f[n] + g[n + 1] ELSE f[k]]
  <2>2. IsSum(h, g, n + 1)
    BY <2>1 DEF IsSum
  <2>3. QED
    BY <2>2
<1>3. 0..K \subseteq S
  <2> HIDE DEF S
  <2>1. QED
    BY <1>1, <1>2, Ascending
<1>4. QED
  BY <1>3

LEMMA SumGrows ==
    ASSUME NEW K \in Nat, NEW g \in [1..K -> Nat], NEW f, IsSum(f, g, K),
           NEW j \in 0..K, NEW k \in j..K
    PROVE  f[j] <= f[k]
<1> DEFINE S == {n \in 0..(K - j) : f[j] <= f[j + n]}
<1>1. 0 \in S
  BY DEF IsSum
<1>2. ASSUME NEW n \in 0..(K - j - 1), n \in S
      PROVE  n + 1 \in S
  <2>1. /\ f[j + n + 1] = f[j + n] + g[j + n + 1] /\ g[j + n + 1] \in Nat
        /\ f[j] \in Nat /\ f[j + n] \in Nat
    BY DEF IsSum
  <2>2. QED
    BY <1>2, <2>1
<1>3. 0..(K - j) \subseteq S
  <2>1. K - j \in Nat
    OBVIOUS
  <2> HIDE DEF S
  <2>2. QED
    BY <1>1, <1>2, <2>1, Ascending
<1>4. k - j \in S
  BY <1>3
<1>5. QED
  BY <1>4
-----------------------------------------------------------------------------
(* Runs of bytes.                                                          *)

LEMMA RunIsSeq ==
    ASSUME NEW a \in Nat, NEW b \in Nat, a <= b
    PROVE  Run(a, b) \in Seq(Nat) /\ Len(Run(a, b)) = b - a
<1>1. b - a \in Nat
  OBVIOUS
<1>2. QED
  BY <1>1 DEF Run

LEMMA RunBytes ==
    ASSUME NEW a \in Nat, NEW b \in Nat, a <= b
    PROVE  \A i \in 1..(b - a) : Run(a, b)[i] = a + i
BY DEF Run

LEMMA RunEmpty ==
    ASSUME NEW a \in Nat, NEW b \in Nat, a <= b
    PROVE  Run(a, b) = <<>> <=> a = b
<1>1. Run(a, b) \in Seq(Nat) /\ Len(Run(a, b)) = b - a
  BY RunIsSeq
<1>2. Run(a, b) = <<>> <=> Len(Run(a, b)) = 0
  BY <1>1, EmptySeq
<1>3. QED
  BY <1>1, <1>2

LEMMA RunConcat ==
    ASSUME NEW a \in Nat, NEW b \in Nat, NEW c \in Nat, a <= b, b <= c
    PROVE  Run(a, b) \o Run(b, c) = Run(a, c)
<1>1. Run(a, b) \in Seq(Nat) /\ Len(Run(a, b)) = b - a
  BY RunIsSeq
<1>2. Run(b, c) \in Seq(Nat) /\ Len(Run(b, c)) = c - b
  BY RunIsSeq
<1>3. a <= c
  OBVIOUS
<1>4. Run(a, c) \in Seq(Nat) /\ Len(Run(a, c)) = c - a
  BY <1>3, RunIsSeq
<1>5. /\ Run(a, b) \o Run(b, c) \in Seq(Nat)
      /\ Len(Run(a, b) \o Run(b, c)) = c - a
      /\ \A i \in 1..(c - a) : (Run(a, b) \o Run(b, c))[i]
                                  = IF i <= b - a THEN Run(a, b)[i] ELSE Run(b, c)[i - (b - a)]
  <2> DEFINE r == Run(a, b)
             s == Run(b, c)
  <2>1. r \in Seq(Nat) /\ s \in Seq(Nat) /\ Len(r) = b - a /\ Len(s) = c - b
    BY <1>1, <1>2
  <2> HIDE DEF r, s
  <2>2. /\ r \o s \in Seq(Nat)
        /\ Len(r \o s) = Len(r) + Len(s)
        /\ \A i \in 1..(Len(r) + Len(s)) :
              (r \o s)[i] = IF i <= Len(r) THEN r[i] ELSE s[i - Len(r)]
    BY <2>1, ConcatProperties
  <2>3. Len(r) + Len(s) = c - a
    BY <2>1
  <2>4. QED
    BY <2>1, <2>2, <2>3 DEF r, s
<1>6. ASSUME NEW i \in 1..(c - a)
      PROVE  (Run(a, b) \o Run(b, c))[i] = Run(a, c)[i]
  <2>1. Run(a, c)[i] = a + i
    BY DEF Run
  <2>2. CASE i <= b - a
    <3>1. Run(a, b)[i] = a + i
      BY <2>2 DEF Run
    <3>2. QED
      BY <1>5, <2>1, <2>2, <3>1
  <2>3. CASE ~(i <= b - a)
    <3>1. Run(b, c)[i - (b - a)] = a + i
      BY <2>3 DEF Run
    <3>2. QED
      BY <1>5, <2>1, <2>3, <3>1
  <2>4. QED
    BY <2>2, <2>3
<1>7. QED
  BY <1>4, <1>5, <1>6, SeqEqual

LEMMA RunSubSeq ==
    ASSUME NEW a \in Nat, NEW b \in Nat, NEW i \in Nat \ {0}, NEW j \in Nat,
           i <= j + 1, j <= b - a
    PROVE  SubSeq(Run(a, b), i, j) = Run(a + i - 1, a + j)
<1> DEFINE r == SubSeq(Run(a, b), i, j)
           s == Run(a + i - 1, a + j)
<1>1. \A n \in i..j : Run(a, b)[n] = a + n /\ Run(a, b)[n] \in Nat
  BY DEF Run
<1>2. /\ r \in Seq(Nat)
      /\ Len(r) = j - i + 1
      /\ \A n \in 1..(j - i + 1) : r[n] = Run(a, b)[i + n - 1]
  <2>1. i \in Int /\ j \in Int
    OBVIOUS
  <2>2. /\ r \in Seq(Nat)
        /\ Len(r) = IF i <= j THEN j - i + 1 ELSE 0
        /\ \A n \in 1..(j - i + 1) : r[n] = Run(a, b)[i + n - 1]
    BY <1>1, <2>1, SubSeqProperties
  <2>3. QED
    BY <2>2
<1>3. s \in Seq(Nat) /\ Len(s) = j - i + 1
  <2>1. /\ a + i - 1 \in Nat /\ a + j \in Nat /\ a + i - 1 <= a + j
        /\ (a + j) - (a + i - 1) = j - i + 1
    OBVIOUS
  <2>2. QED
    BY <2>1, RunIsSeq
<1>4. ASSUME NEW n \in 1..(j - i + 1)
      PROVE  r[n] = s[n]
  <2>1. s[n] = a + i - 1 + n
    BY DEF Run
  <2>2. Run(a, b)[i + n - 1] = a + (i + n - 1)
    BY <1>1
  <2> HIDE DEF r, s
  <2>3. QED
    BY <1>2, <2>1, <2>2
<1> HIDE DEF r, s
<1>5. r = s
  BY <1>2, <1>3, <1>4, SeqEqual
<1>6. QED
  BY <1>5 DEF r, s

LEMMA RunParts ==
    ASSUME NEW a \in Nat, NEW b \in Nat, NEW n \in Nat, n <= b - a
    PROVE  /\ Front(Run(a, b), n) = Run(a, a + n)
           /\ After(Run(a, b), n) = Run(a + n, b)
<1>1. a <= b /\ b - a \in Nat /\ a + 1 - 1 = a /\ a + (n + 1) - 1 = a + n /\ a + (b - a) = b
  OBVIOUS
<1>2. Len(Run(a, b)) = b - a
  BY <1>1, RunIsSeq
<1>3. SubSeq(Run(a, b), 1, n) = Run(a + 1 - 1, a + n)
  <2>1. 1 \in Nat \ {0} /\ 1 <= n + 1
    OBVIOUS
  <2>2. QED
    BY <2>1, RunSubSeq
<1>4. SubSeq(Run(a, b), n + 1, b - a) = Run(a + (n + 1) - 1, a + (b - a))
  <2>1. n + 1 \in Nat \ {0} /\ b - a \in Nat /\ n + 1 <= (b - a) + 1 /\ b - a <= b - a
    BY <1>1
  <2>2. ASSUME NEW i \in Nat \ {0}, NEW j \in Nat, i <= j + 1, j <= b - a
        PROVE  SubSeq(Run(a, b), i, j) = Run(a + i - 1, a + j)
    BY <2>2, RunSubSeq, ZenonT(30)
  <2>3. QED
    BY <2>1, <2>2
<1>5. Front(Run(a, b), n) = Run(a, a + n)
  BY <1>1, <1>3 DEF Front
<1>6. After(Run(a, b), n) = Run(a + n, b)
  BY <1>1, <1>2, <1>4 DEF After
<1>7. QED
  BY <1>5, <1>6
-----------------------------------------------------------------------------
(* The Script.                                                             *)

Parts == Len(Script)

Own(e) == [k \in 1..Parts |-> IF By(k) = e THEN Size(k) ELSE 0]

\* Upto[e][k]: the bytes that e writes in the first k parts.
Upto == CHOOSE u : \A e \in Sides : IsSum(u[e], Own(e), Parts)

LEMMA ScriptFacts ==
    /\ Parts \in Nat
    /\ \A k \in 1..Parts : By(k) \in Sides /\ Size(k) \in Nat /\ Size(k) >= 2
    /\ By(Parts + 1) = "nobody" /\ Size(Parts + 1) = 0 /\ "nobody" \notin Sides
<1>1. Script \in Seq([by : Sides, size : Nat \ {0, 1}])
  BY StreamsAssumption DEF StreamsAssumption
<1>2. Parts \in Nat /\ DOMAIN Script = 1..Parts
  BY <1>1, LenProperties DEF Parts
<1>3. \A k \in 1..Parts : Script[k] \in [by : Sides, size : Nat \ {0, 1}]
  BY <1>1, ElementOfSeq DEF Parts
<1>4. QED
  BY <1>2, <1>3 DEF By, Size, Sides

LEMMA UptoIsSum == \A e \in Sides : IsSum(Upto[e], Own(e), Parts)
<1>1. \A e \in Sides : Own(e) \in [1..Parts -> Nat]
  BY ScriptFacts DEF Own
<1>2. \A e \in Sides : \E f : IsSum(f, Own(e), Parts)
  BY <1>1, ScriptFacts, SumExists
<1>3. PICK f : IsSum(f, Own("client"), Parts)
  BY <1>2 DEF Sides
<1>4. PICK g : IsSum(g, Own("server"), Parts)
  BY <1>2 DEF Sides
<1> DEFINE u == [e \in Sides |-> IF e = "client" THEN f ELSE g]
<1>5. \A e \in Sides : IsSum(u[e], Own(e), Parts)
  BY <1>3, <1>4 DEF Sides
<1> HIDE DEF u
<1>6. QED
  BY <1>5 DEF Upto

LEMMA UptoNext ==
    ASSUME NEW e \in Sides, NEW k \in 1..Parts
    PROVE  /\ Upto[e][k] \in Nat /\ Upto[e][k - 1] \in Nat
           /\ By(k) = e => Upto[e][k] = Upto[e][k - 1] + Size(k)
           /\ By(k) # e => Upto[e][k] = Upto[e][k - 1]
<1>1. IsSum(Upto[e], Own(e), Parts) /\ Parts \in Nat
  BY UptoIsSum, ScriptFacts
<1>2. k \in 0..Parts /\ k - 1 \in 0..Parts
  BY <1>1
<1>3. Upto[e] \in [0..Parts -> Nat] /\ Upto[e][k] = Upto[e][k - 1] + Own(e)[k]
  BY <1>1 DEF IsSum
<1>4. Own(e)[k] = IF By(k) = e THEN Size(k) ELSE 0
  BY DEF Own
<1>5. Upto[e][k] \in Nat /\ Upto[e][k - 1] \in Nat
  BY <1>2, <1>3
<1>6. QED
  BY <1>3, <1>4, <1>5

LEMMA UptoGrows ==
    ASSUME NEW e \in Sides, NEW k \in 0..Parts, NEW j \in 0..k
    PROVE  Upto[e][j] <= Upto[e][k] /\ Upto[e][j] \in Nat /\ Upto[e][k] \in Nat
<1>1. IsSum(Upto[e], Own(e), Parts) /\ Own(e) \in [1..Parts -> Nat] /\ Parts \in Nat
  BY UptoIsSum, ScriptFacts DEF Own
<1>2. k \in j..Parts /\ j \in 0..Parts
  BY <1>1
<1>3. Upto[e][j] <= Upto[e][k]
  BY <1>1, <1>2, SumGrows
<1>4. QED
  BY <1>1, <1>2, <1>3 DEF IsSum

LEMMA UptoBefore ==
    ASSUME NEW e \in Sides, NEW k \in 1..Parts, By(k) = e, NEW j \in 0..(k - 1)
    PROVE  Upto[e][j] + 2 <= Upto[e][k]
<1>1. k - 1 \in 0..Parts /\ Parts \in Nat
  BY ScriptFacts
<1>2. Upto[e][j] <= Upto[e][k - 1] /\ Upto[e][j] \in Nat
  BY <1>1, UptoGrows
<1>3. Upto[e][k] = Upto[e][k - 1] + Size(k) /\ Upto[e][k - 1] \in Nat
  BY UptoNext
<1>4. Size(k) \in Nat /\ Size(k) >= 2
  BY ScriptFacts
<1>5. QED
  BY <1>2, <1>3, <1>4
-----------------------------------------------------------------------------
(* The bytes on their way, and the two sides of the dialogue.              *)

\* The positions in the stream of bytes that w writes: up to H its peer has read them,
\* up to A they are in the peer's libraries, up to B on the way, up to C in w's rustls.
H(w) == Len(heard[Peer(w)])
A(w) == H(w) + Len(temp[Peer(w)])
B(w) == A(w) + Len(net[Peer(w)])
C(w) == B(w) + Len(conn[w])

\* What rustls or the socket is to get next begins after G and ends with Z.
G(w) == IF flushed[w] THEN told[w] ELSE told[w] + left[w] - Len(out[w])
Z(w) == told[w] + left[w]

Webs      == kind \in {"ws", "wss"}
Rustls(w) == kind = "tls" \/ (kind = "wss" /\ w = "server")

\* No byte is lost, doubled or swapped on its way.
Chain(w) ==
    /\ heard[Peer(w)] = Run(0, H(w))
    /\ temp[Peer(w)] = Run(H(w), A(w))
    /\ net[Peer(w)] = Run(A(w), B(w))
    /\ conn[w] = Run(B(w), C(w))

\* The frame that tungstenite has yet to send.
FrameLeft(w) ==
    IF flushed[w] THEN out[w] = <<>>
    ELSE /\ Webs /\ Writes(w)
         /\ Len(out[w]) <= left[w]
         /\ out[w] = Run(G(w), Z(w))
         /\ call[w] = "none" \/ Rustls(w) => out[w] # <<>>

\* In the loop that hands over, total counts what was handed over, one byte of it
\* perhaps by an earlier call; otherwise rustls owes its caller at most one byte.
Handing(w) ==
    /\ ~held[w]
    /\ C(w) = G(w) + total[w]
    /\ total[w] <= Z(w) - G(w)
    /\ conn[w] # <<>> => total[w] >= 2
    /\ total[w] = 0 => Z(w) - G(w) >= 2

Owing(w) ==
    /\ C(w) = G(w) + (IF held[w] THEN 1 ELSE 0)
    /\ held[w] => Writes(w) /\ G(w) < Z(w) /\ (call[w] = "none" => conn[w] # <<>>)
    /\ ~held[w] => conn[w] = <<>>
    /\ Rustls(w) /\ Writes(w) => held[w] \/ Z(w) - G(w) >= 2

Sender(w) ==
    /\ FrameLeft(w)
    /\ IF Rustls(w) THEN call[w] \in {"none", "empty", "hand"}
       ELSE ~held[w] /\ call[w] \in {"none", "flush"} /\ (call[w] = "flush" => Webs)
    /\ call[w] # "none" => Writes(w) /\ (Webs => ~flushed[w])
    /\ IF call[w] = "hand" THEN Handing(w) ELSE Owing(w)

\* Where e stands in its part, and the bytes of the parts before.
Place(e) ==
    /\ IF Writes(e) THEN Z(e) = Upto[e][part[e]] ELSE told[e] = Upto[e][part[e] - 1]
    /\ IF Reads(e) THEN H(Peer(e)) + left[e] = Upto[Peer(e)][part[e]]
       ELSE H(Peer(e)) = Upto[Peer(e)][part[e] - 1]
    /\ part[e] <= Parts => left[e] >= 1 /\ left[e] <= Size(part[e])
    /\ Webs => left[e] = Size(part[e])

\* A frame is a part.
Framing(w) ==
    Webs => ends[w] = {Upto[w][k] : k \in {j \in 1..Parts :
                          /\ By(j) = w
                          /\ j < part[w] \/ (j = part[w] /\ ~flushed[w])}}

Quiet(e) ==
    /\ ~Reads(e) \/ kind = "tcp" => temp[e] = <<>>
    /\ Reads(e) /\ ~awake[e] => temp[e] = <<>> \/ (Webs /\ Whole(e, temp[e]) = {})

SideInv(e) == Chain(e) /\ Sender(e) /\ Place(e) /\ Framing(e) /\ Quiet(e)

StreamInv == TypeOK /\ NeverReset /\ \A e \in Sides : SideInv(e)
-----------------------------------------------------------------------------
(* Sides and positions.                                                    *)

LEMMA Peers ==
    ASSUME NEW e \in Sides
    PROVE  /\ Peer(e) \in Sides /\ Peer(e) # e /\ Peer(Peer(e)) = e
           /\ \A f \in Sides : f = e \/ f = Peer(e)
BY DEF Sides, Peer

LEMMA Positions ==
    ASSUME TypeOK, NEW w \in Sides
    PROVE  /\ H(w) \in Nat /\ A(w) \in Nat /\ B(w) \in Nat /\ C(w) \in Nat
           /\ H(w) <= A(w) /\ A(w) <= B(w) /\ B(w) <= C(w)
           /\ Len(heard[Peer(w)]) = H(w) /\ Len(temp[Peer(w)]) = A(w) - H(w)
           /\ Len(net[Peer(w)]) = B(w) - A(w) /\ Len(conn[w]) = C(w) - B(w)
           /\ told[w] \in Nat /\ left[w] \in Nat /\ Z(w) \in Nat
<1>1. /\ heard[Peer(w)] \in Seq(Nat) /\ temp[Peer(w)] \in Seq(Nat)
      /\ net[Peer(w)] \in Seq(Nat) /\ conn[w] \in Seq(Nat)
      /\ told[w] \in Nat /\ left[w] \in Nat
  BY Peers DEF TypeOK
<1>2. /\ Len(heard[Peer(w)]) \in Nat /\ Len(temp[Peer(w)]) \in Nat
      /\ Len(net[Peer(w)]) \in Nat /\ Len(conn[w]) \in Nat
  BY <1>1, LenProperties
<1> DEFINE p == Len(heard[Peer(w)])
           q == Len(temp[Peer(w)])
           r == Len(net[Peer(w)])
           s == Len(conn[w])
<1>3. H(w) = p /\ A(w) = p + q /\ B(w) = p + q + r /\ C(w) = p + q + r + s
  BY DEF H, A, B, C
<1>4. p \in Nat /\ q \in Nat /\ r \in Nat /\ s \in Nat
  BY <1>2
<1> HIDE DEF p, q, r, s
<1>5. /\ H(w) \in Nat /\ A(w) \in Nat /\ B(w) \in Nat /\ C(w) \in Nat
      /\ H(w) <= A(w) /\ A(w) <= B(w) /\ B(w) <= C(w)
      /\ p = H(w) /\ q = A(w) - H(w) /\ r = B(w) - A(w) /\ s = C(w) - B(w)
  BY <1>3, <1>4
<1>6. QED
  BY <1>1, <1>5 DEF p, q, r, s, Z

\* Four runs that follow each other are the chain of the next state.
LEMMA ChainNext ==
    ASSUME NEW w \in Sides,
           NEW h \in Nat, NEW a \in Nat, NEW b \in Nat, NEW c \in Nat,
           h <= a, a <= b, b <= c,
           heard'[Peer(w)] = Run(0, h), temp'[Peer(w)] = Run(h, a),
           net'[Peer(w)] = Run(a, b), conn'[w] = Run(b, c)
    PROVE  /\ Chain(w)'
           /\ H(w)' = h /\ A(w)' = a /\ B(w)' = b /\ C(w)' = c
<1>1. Run(0, h) \in Seq(Nat) /\ Len(Run(0, h)) = h
  <2>1. 0 \in Nat /\ 0 <= h /\ h - 0 = h
    OBVIOUS
  <2>2. QED
    BY <2>1, RunIsSeq
<1>2. Run(h, a) \in Seq(Nat) /\ Len(Run(h, a)) = a - h
  BY RunIsSeq
<1>3. Run(a, b) \in Seq(Nat) /\ Len(Run(a, b)) = b - a
  BY RunIsSeq
<1>4. Run(b, c) \in Seq(Nat) /\ Len(Run(b, c)) = c - b
  BY RunIsSeq
<1>5. H(w)' = h
  BY <1>1 DEF H
<1>6. A(w)' = a
  BY <1>2, <1>5 DEF A
<1>7. B(w)' = b
  BY <1>3, <1>6 DEF B
<1>8. C(w)' = c
  BY <1>4, <1>7 DEF C
<1>9. QED
  BY <1>1, <1>2, <1>3, <1>4, <1>5, <1>6, <1>7, <1>8 DEF Chain
-----------------------------------------------------------------------------
(* What a step of one side leaves alone.                                   *)

\* The sender's state of f.
Still(f) ==
    /\ part'[f] = part[f] /\ left'[f] = left[f] /\ told'[f] = told[f]
    /\ call'[f] = call[f] /\ total'[f] = total[f] /\ conn'[f] = conn[f] /\ held'[f] = held[f]
    /\ out'[f] = out[f] /\ flushed'[f] = flushed[f] /\ ends'[f] = ends[f]

LEMMA WriterReadsNot ==
    ASSUME NEW e \in Sides
    PROVE  ~(Writes(e) /\ Reads(e))
BY Peers DEF Writes, Reads

LEMMA StillSide ==
    ASSUME NEW f \in Sides, UNCHANGED setup, Still(f), heard' = heard,
           temp' = temp, net'[Peer(f)] = net[Peer(f)]
    PROVE  /\ Chain(f) => Chain(f)'
           /\ Sender(f) => Sender(f)'
           /\ Place(f) => Place(f)'
           /\ Framing(f) => Framing(f)'
<1>1. H(f)' = H(f) /\ A(f)' = A(f) /\ B(f)' = B(f) /\ C(f)' = C(f) /\ G(f)' = G(f) /\ Z(f)' = Z(f)
      /\ (Writes(f))' = Writes(f) /\ (Reads(f))' = Reads(f) /\ Webs' = Webs /\ (Rustls(f))' = Rustls(f)
      /\ H(Peer(f))' = H(Peer(f))
  BY DEF Still, H, A, B, C, G, Z, Writes, Reads, Webs, Rustls, setup
<1>2. Chain(f) => Chain(f)'
  BY <1>1 DEF Chain, Still
<1>3. Sender(f) => Sender(f)'
  BY <1>1 DEF Sender, FrameLeft, Handing, Owing, Still
<1>4. Place(f) => Place(f)'
  BY <1>1 DEF Place, Still
<1>5. Framing(f) => Framing(f)'
  BY <1>1 DEF Framing, Still
<1>6. QED
  BY <1>2, <1>3, <1>4, <1>5

\* A step of the writing side.
LEMMA WriteKeeps ==
    ASSUME StreamInv, NEW e \in Sides, Writes(e), UNCHANGED <<setup, readVars>>,
           Still(Peer(e)), net'[e] = net[e], awake[Peer(e)] => awake'[Peer(e)],
           \A x \in ends'[e] : x \in ends[e] \/ x > A(e),
           TypeOK', NeverReset', Chain(e)', Sender(e)', Place(e)', Framing(e)'
    PROVE  StreamInv'
<1>1. Peer(e) \in Sides /\ Peer(Peer(e)) = e /\ \A f \in Sides : f = e \/ f = Peer(e)
  BY Peers
<1>2. SideInv(e) /\ SideInv(Peer(e))
  BY <1>1 DEF StreamInv
<1>3. heard' = heard /\ temp' = temp /\ kind' = kind
  BY DEF readVars, setup
<1>4. Chain(Peer(e))' /\ Sender(Peer(e))' /\ Place(Peer(e))' /\ Framing(Peer(e))'
  BY <1>1, <1>2, <1>3, StillSide DEF SideInv
<1>5. Quiet(e)'
  <2>1. temp[e] = <<>>
    BY <1>2, WriterReadsNot DEF SideInv, Quiet
  <2>2. QED
    BY <1>3, <2>1 DEF Quiet
<1>6. Quiet(Peer(e))'
  <2>1. Whole(Peer(e), temp[Peer(e)]) = {} => (Whole(Peer(e), temp[Peer(e)]))' = {}
    <3>1. SUFFICES ASSUME Whole(Peer(e), temp[Peer(e)]) = {},
                          NEW i \in 1..Len(temp[Peer(e)]), temp[Peer(e)][i] \in ends'[e]
                   PROVE  FALSE
      BY <1>1, <1>3 DEF Whole
    <3>2. temp[Peer(e)][i] \notin ends[e]
      BY <1>1, <3>1 DEF Whole
    <3>3. temp[Peer(e)] = Run(H(e), A(e)) /\ H(e) \in Nat /\ A(e) \in Nat
          /\ i \in 1..(A(e) - H(e))
      BY <1>2, Positions DEF SideInv, Chain, StreamInv
    <3>4. temp[Peer(e)][i] = H(e) + i
      BY <3>3 DEF Run
    <3>5. QED
      BY <3>1, <3>2, <3>3, <3>4
  <2>2. (Reads(Peer(e)))' = Reads(Peer(e))
    BY DEF Still, Reads
  <2>3. QED
    BY <1>2, <1>3, <2>1, <2>2 DEF SideInv, Quiet, Webs
<1>7. QED
  BY <1>1, <1>4, <1>5, <1>6 DEF StreamInv, SideInv
-----------------------------------------------------------------------------
(* Going on in a part, or to the next.                                     *)

LEMMA Types ==
    ASSUME StreamInv
    PROVE  /\ part \in [Sides -> 1..(Parts + 1)] /\ left \in [Sides -> Nat]
           /\ told \in [Sides -> Nat] /\ total \in [Sides -> Nat]
           /\ awake \in [Sides -> BOOLEAN] /\ held \in [Sides -> BOOLEAN]
           /\ flushed \in [Sides -> BOOLEAN]
           /\ call \in [Sides -> {"none", "empty", "hand", "flush"}]
           /\ heard \in [Sides -> Seq(Nat)] /\ temp \in [Sides -> Seq(Nat)]
           /\ net \in [Sides -> Seq(Nat)] /\ conn \in [Sides -> Seq(Nat)]
           /\ out \in [Sides -> Seq(Nat)] /\ ends \in [Sides -> SUBSET Nat]
BY DEF StreamInv, TypeOK, Parts

LEMMA PlaceFacts ==
    ASSUME StreamInv, NEW e \in Sides
    PROVE  /\ part[e] \in 1..(Parts + 1) /\ left[e] \in Nat /\ told[e] \in Nat
           /\ Writes(e) \/ Reads(e) <=> part[e] <= Parts
           /\ part[e] <= Parts => left[e] >= 1 /\ left[e] <= Size(part[e])
           /\ Webs => left[e] = Size(part[e])
<1>1. part[e] \in 1..(Parts + 1) /\ left[e] \in Nat /\ told[e] \in Nat
  BY DEF StreamInv, TypeOK, Parts
<1>2. Writes(e) \/ Reads(e) <=> part[e] <= Parts
  <2>1. CASE part[e] = Parts + 1
    <3>1. By(part[e]) = "nobody" /\ Parts \in Nat
      BY <2>1, ScriptFacts
    <3>2. ~Writes(e) /\ ~Reads(e)
      BY <3>1, Peers, ScriptFacts DEF Writes, Reads
    <3>3. QED
      BY <2>1, <3>1, <3>2
  <2>2. CASE part[e] # Parts + 1
    <3>1. part[e] \in 1..Parts
      BY <1>1, <2>2, ScriptFacts
    <3>2. By(part[e]) \in Sides
      BY <3>1, ScriptFacts
    <3>3. QED
      BY <3>1, <3>2, Peers DEF Writes, Reads
  <2>3. QED
    BY <2>1, <2>2
<1>3. QED
  BY <1>1, <1>2 DEF StreamInv, SideInv, Place

LEMMA GoOnFacts ==
    ASSUME StreamInv, NEW e \in Sides, part[e] <= Parts, NEW n \in 1..left[e], GoOn(e, n)
    PROVE  /\ part' \in [Sides -> 1..(Parts + 1)] /\ left' \in [Sides -> Nat]
           /\ part'[Peer(e)] = part[Peer(e)] /\ left'[Peer(e)] = left[Peer(e)]
           /\ n < left[e] => part'[e] = part[e] /\ left'[e] = left[e] - n /\ left'[e] >= 1
           /\ n = left[e] => part'[e] = part[e] + 1 /\ left'[e] = Size(part[e] + 1)
<1>1. /\ part \in [Sides -> 1..(Parts + 1)] /\ left \in [Sides -> Nat]
      /\ part[e] \in 1..Parts /\ left[e] \in Nat /\ Parts \in Nat
      /\ Peer(e) \in Sides /\ Peer(e) # e
  <2>1. part \in [Sides -> 1..(Parts + 1)] /\ left \in [Sides -> Nat]
    BY Types
  <2>2. Parts \in Nat /\ Peer(e) \in Sides /\ Peer(e) # e
    BY ScriptFacts, Peers
  <2>3. part[e] \in 1..(Parts + 1) /\ left[e] \in Nat
    BY <2>1
  <2>4. part[e] \in 1..Parts
    BY <2>2, <2>3
  <2>5. QED
    BY <2>1, <2>2, <2>3, <2>4
<1>2. part[e] + 1 \in 1..(Parts + 1) /\ Size(part[e] + 1) \in Nat
  <2>1. part[e] + 1 \in 1..(Parts + 1)
    BY <1>1
  <2>2. CASE part[e] + 1 \in 1..Parts
    BY <2>1, <2>2, ScriptFacts
  <2>3. CASE part[e] + 1 = Parts + 1
    BY <2>1, <2>3, ScriptFacts
  <2>4. QED
    BY <1>1, <2>1, <2>2, <2>3
<1>3. CASE n < left[e]
  <2>1. part' = [part EXCEPT ![e] = part[e]] /\ left' = [left EXCEPT ![e] = left[e] - n]
    BY <1>3 DEF GoOn
  <2>2. left[e] - n \in Nat /\ left[e] - n >= 1
    BY <1>1, <1>3
  <2>3. QED
    BY <1>1, <1>3, <2>1, <2>2
<1>4. CASE n = left[e]
  <2>1. part' = [part EXCEPT ![e] = part[e] + 1]
        /\ left' = [left EXCEPT ![e] = Size(part[e] + 1)]
    <3>1. ~(n < left[e])
      BY <1>1, <1>4
    <3>2. QED
      BY <3>1 DEF GoOn
  <2>2. QED
    BY <1>1, <1>2, <1>4, <2>1
<1>5. QED
  BY <1>1, <1>3, <1>4

\* A writer that was told of n bytes, by a kind of stream that takes them one by one or
\* all at once.
LEMMA WrotePlace ==
    ASSUME StreamInv, NEW e \in Sides, Writes(e), NEW n \in 1..left[e], GoOn(e, n),
           Webs => n = left[e],
           told' = [told EXCEPT ![e] = told[e] + n], heard' = heard, UNCHANGED setup
    PROVE  /\ Place(e)'
           /\ told' \in [Sides -> Nat] /\ told'[e] = told[e] + n
           /\ told'[Peer(e)] = told[Peer(e)]
           /\ Z(e)' >= Z(e)
           /\ n < left[e] => Z(e)' = Z(e) /\ (Writes(e))'
           /\ (Writes(e))' => left'[e] >= 1 /\ (n = left[e] => left'[e] >= 2)
<1>1. /\ part[e] \in 1..Parts /\ By(part[e]) = e /\ Parts \in Nat
      /\ told[e] \in Nat /\ left[e] \in Nat /\ told \in [Sides -> Nat]
      /\ Peer(e) \in Sides /\ Peer(e) # e /\ Peer(Peer(e)) = e
  <2>1. part[e] \in 1..Parts /\ By(part[e]) = e /\ Parts \in Nat
    BY PlaceFacts, ScriptFacts DEF Writes
  <2>2. QED
    BY <2>1, Types, Peers
<1>2. /\ n < left[e] => part'[e] = part[e] /\ left'[e] = left[e] - n /\ left'[e] >= 1
      /\ n = left[e] => part'[e] = part[e] + 1 /\ left'[e] = Size(part[e] + 1)
  BY <1>1, GoOnFacts
<1>3. told'[e] = told[e] + n /\ told'[Peer(e)] = told[Peer(e)] /\ told' \in [Sides -> Nat]
  BY <1>1
<1>4. /\ Z(e) = Upto[e][part[e]] /\ H(Peer(e)) = Upto[Peer(e)][part[e] - 1]
      /\ Size(part[e]) >= left[e]
  BY <1>1, WriterReadsNot DEF StreamInv, SideInv, Place
<1>5. H(Peer(e))' = H(Peer(e)) /\ Webs' = Webs
  BY DEF H, Webs, setup
<1>6. CASE n < left[e]
  <2>1. part'[e] = part[e] /\ left'[e] = left[e] - n /\ left'[e] >= 1 /\ ~Webs
    BY <1>2, <1>6
  <2>2. Z(e)' = Z(e)
    BY <1>1, <1>3, <2>1 DEF Z
  <2>3. (Writes(e))' /\ ~(Reads(e))'
    BY <1>1, <2>1 DEF Writes, Reads
  <2>4. Place(e)'
    <3>1. Z(e)' = Upto[e][part'[e]] /\ H(Peer(e))' = Upto[Peer(e)][part'[e] - 1]
      BY <1>4, <1>5, <2>1, <2>2
    <3>2. left'[e] <= Size(part'[e])
      BY <1>1, <1>4, <2>1, ScriptFacts
    <3>3. QED
      BY <1>5, <2>1, <2>3, <3>1, <3>2 DEF Place
  <2>5. QED
    <3>1. Z(e)' >= Z(e)
      BY <1>1, <2>2 DEF Z
    <3>2. QED
      BY <1>1, <1>3, <1>6, <2>1, <2>2, <2>3, <2>4, <3>1
<1>7. CASE n = left[e]
  <2>1. part'[e] = part[e] + 1 /\ left'[e] = Size(part[e] + 1) /\ part'[e] - 1 = part[e]
    BY <1>1, <1>2, <1>7
  <2>2. told'[e] = Upto[e][part[e]]
    BY <1>3, <1>4, <1>7 DEF Z
  <2>3. H(Peer(e)) = Upto[Peer(e)][part[e]] /\ H(Peer(e)) \in Nat
    <3>1. Upto[Peer(e)][part[e]] = Upto[Peer(e)][part[e] - 1]
      BY <1>1, UptoNext
    <3>2. H(Peer(e)) \in Nat
      BY <1>1, Positions DEF StreamInv
    <3>3. QED
      BY <1>4, <3>1, <3>2
  <2>4. CASE part'[e] \in 1..Parts
    <3>1. /\ By(part'[e]) = e => Upto[e][part'[e]] = Upto[e][part[e]] + Size(part'[e])
          /\ By(part'[e]) = Peer(e) =>
                Upto[Peer(e)][part'[e]] = Upto[Peer(e)][part[e]] + Size(part'[e])
          /\ Size(part'[e]) \in Nat /\ Size(part'[e]) >= 2
      BY <1>1, <2>1, <2>4, UptoNext, ScriptFacts
    <3>2. Place(e)'
      BY <1>1, <1>3, <1>5, <2>1, <2>2, <2>3, <3>1 DEF Place, Writes, Reads, Z
    <3>3. Z(e)' >= Z(e)
      BY <1>1, <1>3, <1>7, <2>1, <3>1 DEF Z
    <3>4. QED
      BY <1>3, <1>7, <2>1, <3>1, <3>2, <3>3
  <2>5. CASE part'[e] = Parts + 1
    <3>1. By(part'[e]) = "nobody" /\ Size(part'[e]) = 0
      BY <2>5, ScriptFacts
    <3>2. ~(Writes(e))' /\ ~(Reads(e))'
      BY <1>1, <3>1, ScriptFacts DEF Writes, Reads
    <3>3. Place(e)'
      BY <1>1, <1>5, <2>1, <2>2, <2>3, <2>5, <3>1, <3>2 DEF Place
    <3>4. Z(e)' >= Z(e)
      BY <1>1, <1>3, <1>7, <2>1, <3>1 DEF Z
    <3>5. QED
      BY <1>3, <1>7, <3>2, <3>3, <3>4
  <2>6. QED
    BY <1>1, <2>1, <2>4, <2>5
<1>8. QED
  BY <1>1, <1>6, <1>7
-----------------------------------------------------------------------------
(* The socket.                                                             *)

LEMMA SpaceIsNat ==
    ASSUME StreamInv, NEW e \in Sides
    PROVE  Space(e) \in Nat
<1>1. /\ Len(net[Peer(e)]) \in Nat /\ Len(net[Peer(e)]) <= room
  BY Types, Peers, LenProperties DEF StreamInv, TypeOK
<1>2. room \in Nat
  BY StreamsAssumption DEF StreamsAssumption, StreamInv, TypeOK
<1>3. QED
  BY <1>1, <1>2 DEF Space

\* The bytes up to b are put on the way to the peer of e.
LEMMA NetTakes ==
    ASSUME StreamInv, NEW e \in Sides, NEW b \in Nat, B(e) <= b, b - B(e) <= Space(e),
           net' = [net EXCEPT ![Peer(e)] = net[Peer(e)] \o Run(B(e), b)], room' = room
    PROVE  /\ net' \in [Sides -> Seq(Nat)]
           /\ net'[Peer(e)] = Run(A(e), b)
           /\ net'[e] = net[e]
           /\ \A f \in Sides : Len(net'[f]) <= room'
<1>1. /\ A(e) \in Nat /\ B(e) \in Nat /\ A(e) <= B(e) /\ Len(net[Peer(e)]) = B(e) - A(e)
      /\ Peer(e) \in Sides /\ Peer(e) # e /\ \A f \in Sides : f = e \/ f = Peer(e)
  BY Positions, Peers DEF StreamInv
<1>2. net[Peer(e)] = Run(A(e), B(e))
  BY DEF StreamInv, SideInv, Chain
<1>3. net[Peer(e)] \o Run(B(e), b) = Run(A(e), b)
  BY <1>1, <1>2, RunConcat
<1>4. A(e) <= b
  BY <1>1
<1>5. Run(A(e), b) \in Seq(Nat) /\ Len(Run(A(e), b)) = b - A(e)
  BY <1>1, <1>4, RunIsSeq
<1>6. net \in [Sides -> Seq(Nat)] /\ \A f \in Sides : Len(net[f]) <= room
  BY Types DEF StreamInv, TypeOK
<1>7. b - A(e) <= room
  <2>1. room \in Nat
    BY StreamsAssumption DEF StreamsAssumption, StreamInv, TypeOK
  <2>2. QED
    BY <1>1, <2>1 DEF Space
<1>8. net'[Peer(e)] = Run(A(e), b) /\ net'[e] = net[e] /\ net' \in [Sides -> Seq(Nat)]
  BY <1>1, <1>3, <1>5, <1>6
<1>9. \A f \in Sides : Len(net'[f]) <= room'
  BY <1>1, <1>5, <1>6, <1>7, <1>8
<1>10. QED
  BY <1>8, <1>9

\* Nothing is sent.
LEMMA NetStays ==
    ASSUME StreamInv, NEW e \in Sides, net' = [net EXCEPT ![Peer(e)] = net[Peer(e)] \o <<>>]
    PROVE  net' = net
<1>1. net \in [Sides -> Seq(Nat)] /\ Peer(e) \in Sides
  BY Types, Peers
<1>2. net[Peer(e)] \o <<>> = net[Peer(e)]
  BY <1>1, ConcatEmptySeq
<1>3. QED
  BY <1>1, <1>2

\* The wake-ups of a step that sends.
LEMMA AwakeFacts ==
    ASSUME StreamInv, NEW e \in Sides, NEW data, NEW goesOn \in BOOLEAN, Send(e, data, goesOn)
    PROVE  awake' \in [Sides -> BOOLEAN] /\ (awake[Peer(e)] => awake'[Peer(e)])
<1> DEFINE woken == awake[Peer(e)] \/ (data # <<>> /\ Reads(Peer(e)))
<1>1. awake \in [Sides -> BOOLEAN] /\ Peer(e) \in Sides /\ Peer(e) # e
  BY Types, Peers
<1>2. awake' = [[awake EXCEPT ![e] = goesOn] EXCEPT ![Peer(e)] = woken]
  BY <1>1 DEF Send
<1>3. woken \in BOOLEAN /\ (awake[Peer(e)] => woken)
  OBVIOUS
<1> HIDE DEF woken
<1>4. QED
  BY <1>1, <1>2, <1>3

\* Nothing changes of where a side stands.
LEMMA PlaceStays ==
    ASSUME NEW e \in Sides, Place(e), part'[e] = part[e], left'[e] = left[e], told'[e] = told[e],
           heard' = heard, kind' = kind
    PROVE  Place(e)'
BY DEF Place, Writes, Reads, Z, H, Webs

\* A frame that is sent belongs to the parts before.
LEMMA FramingWrote ==
    ASSUME StreamInv, NEW e \in Sides, Writes(e), Webs => ~flushed[e] /\ part'[e] = part[e] + 1,
           flushed'[e], ends' = ends, kind' = kind
    PROVE  Framing(e)'
<1>1. Webs' = Webs
  BY DEF Webs
<1>2. CASE Webs
  <2>1. part[e] \in Nat /\ Framing(e)
    <3>1. part[e] \in 1..(Parts + 1) /\ Parts \in Nat
      BY PlaceFacts, ScriptFacts
    <3>2. Framing(e)
      BY DEF StreamInv, SideInv
    <3>3. QED
      BY <3>1, <3>2
  <2>2. \A j \in 1..Parts : (j < part[e] \/ (j = part[e] /\ ~flushed[e]))
                              <=> (j < part'[e] \/ (j = part'[e] /\ ~flushed'[e]))
    BY <1>2, <2>1, ScriptFacts
  <2>3. {j \in 1..Parts : By(j) = e /\ (j < part[e] \/ (j = part[e] /\ ~flushed[e]))}
           = {j \in 1..Parts : By(j) = e /\ (j < part'[e] \/ (j = part'[e] /\ ~flushed'[e]))}
    BY <2>2
  <2>4. QED
    BY <1>1, <1>2, <2>1, <2>3 DEF Framing
<1>3. QED
  BY <1>1, <1>2 DEF Framing

\* write() returned Ok(n).
LEMMA WroteKeeps ==
    ASSUME StreamInv, NEW e \in Sides, Writes(e), NEW n \in 1..left[e], NEW data,
           Wrote(e, n, data), Webs => n = left[e] /\ ~flushed[e],
           UNCHANGED <<setup, total, ends, readVars>>,
           conn' \in [Sides -> Seq(Nat)], conn'[Peer(e)] = conn[Peer(e)],
           held' \in [Sides -> BOOLEAN], held'[Peer(e)] = held[Peer(e)],
           out' \in [Sides -> Seq(Nat)], out'[Peer(e)] = out[Peer(e)],
           flushed' \in [Sides -> BOOLEAN], flushed'[Peer(e)] = flushed[Peer(e)],
           net' \in [Sides -> Seq(Nat)], net'[e] = net[e], \A f \in Sides : Len(net'[f]) <= room',
           Chain(e)', flushed'[e], out'[e] = <<>>,
           C(e)' = told[e] + n + (IF held'[e] THEN 1 ELSE 0),
           IF held'[e] THEN n < left[e] /\ conn'[e] # <<>> ELSE conn'[e] = <<>>,
           IF Rustls(e) THEN held'[e] \/ n = left[e] ELSE ~held'[e]
    PROVE  StreamInv'
<1>1. /\ Peer(e) \in Sides /\ Peer(e) # e /\ Peer(Peer(e)) = e
      /\ part[e] <= Parts /\ left[e] \in Nat /\ told[e] \in Nat /\ SideInv(e)
      /\ kind' = kind /\ heard' = heard
  BY Peers, PlaceFacts DEF setup, readVars, StreamInv
<1>2. /\ GoOn(e, n) /\ told' = [told EXCEPT ![e] = told[e] + n]
      /\ call' = [call EXCEPT ![e] = "none"] /\ reset' = (n = 0)
  BY DEF Wrote
<1>3. awake' \in [Sides -> BOOLEAN] /\ (awake[Peer(e)] => awake'[Peer(e)])
  BY AwakeFacts DEF Wrote
<1>4. /\ part' \in [Sides -> 1..(Parts + 1)] /\ left' \in [Sides -> Nat]
      /\ part'[Peer(e)] = part[Peer(e)] /\ left'[Peer(e)] = left[Peer(e)]
      /\ n = left[e] => part'[e] = part[e] + 1
  BY <1>1, <1>2, GoOnFacts
<1>5. /\ Place(e)' /\ told' \in [Sides -> Nat] /\ told'[e] = told[e] + n
      /\ told'[Peer(e)] = told[Peer(e)]
      /\ n < left[e] => Z(e)' = Z(e) /\ (Writes(e))'
      /\ (Writes(e))' => left'[e] >= 1 /\ (n = left[e] => left'[e] >= 2)
  BY <1>1, <1>2, WrotePlace
<1>6. call' \in [Sides -> {"none", "empty", "hand", "flush"}] /\ call'[e] = "none"
      /\ call'[Peer(e)] = call[Peer(e)]
  BY <1>1, <1>2, Types
<1>7. NeverReset' /\ reset' \in BOOLEAN
  <2>1. n # 0
    OBVIOUS
  <2>2. reset' = FALSE
    BY <1>2, <2>1, Zenon
  <2>3. QED
    BY <2>2, Zenon DEF NeverReset
<1>8. Sender(e)'
  <2>1. G(e)' = told[e] + n /\ (Rustls(e))' = Rustls(e)
    BY <1>1, <1>5 DEF G, Rustls
  <2>2. held'[e] => (Writes(e))' /\ G(e)' < Z(e)'
    <3>1. CASE held'[e]
      <4>1. n < left[e] /\ n \in Nat /\ told[e] \in Nat /\ left[e] \in Nat
        BY <1>1, <3>1
      <4>2. (Writes(e))' /\ Z(e)' = told[e] + left[e]
        BY <1>5, <4>1 DEF Z
      <4>3. G(e)' = told[e] + n
        BY <2>1
      <4>4. QED
        BY <4>1, <4>2, <4>3
    <3>2. QED
      BY <3>1
  <2>3. Z(e)' = told[e] + n + left'[e] /\ left'[e] \in Nat
    BY <1>1, <1>4, <1>5 DEF Z
  <2>4. (Rustls(e))' /\ (Writes(e))' => held'[e] \/ Z(e)' - G(e)' >= 2
    BY <1>1, <1>5, <2>1, <2>3
  <2>5. Owing(e)'
    BY <2>1, <2>2, <2>4 DEF Owing
  <2>6. QED
    BY <1>6, <2>1, <2>5 DEF Sender, FrameLeft
<1>9. Framing(e)'
  BY <1>1, <1>4, FramingWrote
<1>10. TypeOK'
  <2>1. /\ kind' \in Kinds /\ room' \in Rooms /\ reset' \in BOOLEAN
        /\ ends' \in [Sides -> SUBSET Nat] /\ total' \in [Sides -> Nat]
        /\ heard' \in [Sides -> Seq(Nat)] /\ temp' \in [Sides -> Seq(Nat)]
    BY <1>7, Types DEF setup, readVars, StreamInv, TypeOK
  <2>2. QED
    BY <1>3, <1>4, <1>5, <1>6, <2>1 DEF TypeOK, Parts
<1>11. Still(Peer(e))
  BY <1>4, <1>5, <1>6 DEF Still
<1>12. \A x \in ends'[e] : x \in ends[e] \/ x > A(e)
  OBVIOUS
<1>13. QED
  BY <1>3, <1>5, <1>7, <1>8, <1>9, <1>10, <1>11, <1>12, WriteKeeps DEF setup, readVars
-----------------------------------------------------------------------------
(* The steps of a write().                                                 *)

LEMMA SenderFacts ==
    ASSUME StreamInv, NEW e \in Sides, Writes(e)
    PROVE  /\ SideInv(e) /\ Peer(e) \in Sides /\ Peer(e) # e /\ Peer(Peer(e)) = e
           /\ told[e] \in Nat /\ left[e] \in Nat /\ left[e] >= 1 /\ (Webs => left[e] >= 2)
           /\ part[e] \in 1..Parts /\ Z(e) = told[e] + left[e] /\ Z(e) \in Nat
           /\ G(e) \in Nat /\ G(e) <= Z(e) /\ told[e] <= G(e)
           /\ flushed[e] => out[e] = <<>> /\ G(e) = told[e]
           /\ ~flushed[e] => /\ Webs /\ out[e] = Run(G(e), Z(e)) /\ Len(out[e]) = Z(e) - G(e)
                             /\ Len(out[e]) <= left[e]
           /\ total[e] \in Nat
<1>1. /\ SideInv(e) /\ Peer(e) \in Sides /\ Peer(e) # e /\ Peer(Peer(e)) = e
      /\ told[e] \in Nat /\ left[e] \in Nat /\ total[e] \in Nat /\ out[e] \in Seq(Nat)
      /\ Z(e) = told[e] + left[e] /\ Z(e) \in Nat
  <2>1. Peer(e) \in Sides /\ Peer(e) # e /\ Peer(Peer(e)) = e
    BY Peers
  <2>2. told[e] \in Nat /\ left[e] \in Nat /\ total[e] \in Nat /\ out[e] \in Seq(Nat)
    BY Types
  <2>3. SideInv(e)
    BY DEF StreamInv
  <2>4. Z(e) = told[e] + left[e] /\ Z(e) \in Nat
    BY <2>2 DEF Z
  <2>5. QED
    BY <2>1, <2>2, <2>3, <2>4
<1>2. part[e] \in 1..Parts /\ left[e] >= 1 /\ (Webs => left[e] >= 2)
  BY PlaceFacts, ScriptFacts
<1>3. CASE flushed[e]
  BY <1>1, <1>2, <1>3 DEF SideInv, Sender, FrameLeft, G
<1>4. CASE ~flushed[e]
  <2>1. Webs /\ out[e] = Run(G(e), Z(e)) /\ Len(out[e]) <= left[e]
    BY <1>1, <1>4 DEF SideInv, Sender, FrameLeft
  <2>2. Len(out[e]) \in Nat /\ G(e) = Z(e) - Len(out[e])
    BY <1>1, <1>4, LenProperties DEF G, Z
  <2>3. /\ G(e) \in Nat /\ G(e) <= Z(e) /\ told[e] <= G(e)
        /\ Len(out[e]) = Z(e) - G(e) /\ Len(out[e]) <= left[e]
    <3> DEFINE n == Len(out[e])
    <3>1. n \in Nat /\ n <= left[e] /\ G(e) = Z(e) - n
      BY <2>1, <2>2
    <3> HIDE DEF n
    <3>2. told[e] \in Nat /\ left[e] \in Nat /\ Z(e) = told[e] + left[e]
      BY <1>1
    <3>3. G(e) \in Nat /\ G(e) <= Z(e) /\ told[e] <= G(e) /\ n = Z(e) - G(e)
      BY <3>1, <3>2
    <3>4. QED
      BY <3>1, <3>3 DEF n
  <2>4. QED
    BY <1>1, <1>2, <1>4, <2>1, <2>3
<1>5. QED
  BY <1>3, <1>4

\* A step of a write() that goes on, or that blocks.
LEMMA CallKeeps ==
    ASSUME StreamInv, NEW e \in Sides, Writes(e),
           UNCHANGED <<setup, turnVars, readVars, reset>>,
           awake' \in [Sides -> BOOLEAN], awake[Peer(e)] => awake'[Peer(e)],
           call' \in [Sides -> {"none", "empty", "hand", "flush"}], call'[Peer(e)] = call[Peer(e)],
           total' \in [Sides -> Nat], total'[Peer(e)] = total[Peer(e)],
           conn' \in [Sides -> Seq(Nat)], conn'[Peer(e)] = conn[Peer(e)],
           held' \in [Sides -> BOOLEAN], held'[Peer(e)] = held[Peer(e)],
           out' \in [Sides -> Seq(Nat)], out'[Peer(e)] = out[Peer(e)],
           flushed' \in [Sides -> BOOLEAN], flushed'[Peer(e)] = flushed[Peer(e)],
           ends' \in [Sides -> SUBSET Nat], ends'[Peer(e)] = ends[Peer(e)],
           net' \in [Sides -> Seq(Nat)], net'[e] = net[e], \A f \in Sides : Len(net'[f]) <= room',
           \A x \in ends'[e] : x \in ends[e] \/ x > A(e),
           Chain(e)', Sender(e)', Framing(e)'
    PROVE  StreamInv'
<1>1. SideInv(e) /\ part' = part /\ left' = left /\ told' = told /\ reset' = reset
      /\ heard' = heard /\ temp' = temp /\ kind' = kind /\ room' = room
  BY DEF StreamInv, turnVars, readVars, setup
<1>2. Place(e)'
  BY <1>1, PlaceStays DEF SideInv
<1>3. TypeOK'
  BY <1>1 DEF StreamInv, TypeOK
<1>4. NeverReset'
  <2>1. reset = FALSE
    BY Zenon DEF StreamInv, TypeOK, NeverReset
  <2>2. reset' = FALSE
    BY <1>1, <2>1
  <2>3. QED
    BY <2>2, Zenon DEF NeverReset
<1>5. Still(Peer(e))
  BY <1>1 DEF Still
<1>6. QED
  BY <1>2, <1>3, <1>4, <1>5, WriteKeeps

LEMMA FramingStays ==
    ASSUME NEW e \in Sides, Framing(e), part' = part, flushed' = flushed, ends' = ends, kind' = kind
    PROVE  Framing(e)' /\ (\A x \in ends'[e] : x \in ends[e] \/ x > A(e))
BY DEF Framing, Webs

\* What stays where it is when the sender's buffers do.
LEMMA PositionsStay ==
    ASSUME NEW e \in Sides, heard' = heard, temp' = temp, net' = net, conn' = conn
    PROVE  H(e)' = H(e) /\ A(e)' = A(e) /\ B(e)' = B(e) /\ C(e)' = C(e) /\ (Chain(e) => Chain(e)')
BY DEF H, A, B, C, Chain

LEMMA SenderStays ==
    ASSUME NEW e \in Sides, UNCHANGED <<kind, turnVars, out, flushed>>
    PROVE  G(e)' = G(e) /\ Z(e)' = Z(e) /\ Writes(e)' = Writes(e) /\ Webs' = Webs
           /\ Rustls(e)' = Rustls(e)
BY DEF G, Z, Writes, Webs, Rustls, turnVars

\* A step that moves no byte.
LEMMA CallMoves ==
    ASSUME StreamInv, NEW e \in Sides, Writes(e),
           UNCHANGED <<setup, turnVars, readVars, reset, conn, frameVars, net>>,
           awake' \in [Sides -> BOOLEAN], awake[Peer(e)] => awake'[Peer(e)],
           NEW c \in {"none", "empty", "hand", "flush"}, call' = [call EXCEPT ![e] = c],
           NEW t \in Nat, total' = [total EXCEPT ![e] = t],
           NEW d \in BOOLEAN, held' = [held EXCEPT ![e] = d],
           Sender(e)'
    PROVE  StreamInv'
<1>1. SideInv(e) /\ Peer(e) \in Sides /\ Peer(e) # e
  BY Peers DEF StreamInv
<1>2. /\ call' \in [Sides -> {"none", "empty", "hand", "flush"}] /\ call'[Peer(e)] = call[Peer(e)]
      /\ total' \in [Sides -> Nat] /\ total'[Peer(e)] = total[Peer(e)]
      /\ held' \in [Sides -> BOOLEAN] /\ held'[Peer(e)] = held[Peer(e)]
  BY <1>1, Types
<1>3. /\ conn' \in [Sides -> Seq(Nat)] /\ out' \in [Sides -> Seq(Nat)]
      /\ flushed' \in [Sides -> BOOLEAN] /\ ends' \in [Sides -> SUBSET Nat]
      /\ net' \in [Sides -> Seq(Nat)] /\ \A f \in Sides : Len(net'[f]) <= room'
      /\ conn' = conn /\ out' = out /\ flushed' = flushed /\ ends' = ends /\ net' = net
      /\ heard' = heard /\ temp' = temp /\ part' = part /\ kind' = kind
  BY Types DEF StreamInv, TypeOK, frameVars, setup, readVars, turnVars
<1>4. Chain(e)'
  BY <1>1, <1>3, PositionsStay DEF SideInv
<1>5. Framing(e)' /\ (\A x \in ends'[e] : x \in ends[e] \/ x > A(e))
  BY <1>1, <1>3, FramingStays DEF SideInv
<1>6. QED
  BY <1>1, <1>2, <1>3, <1>4, <1>5, CallKeeps

LEMMA BlockedKeeps ==
    ASSUME StreamInv, NEW e \in Sides, Writes(e), WriteBlocked(e),
           UNCHANGED <<setup, total, conn, held, frameVars, readVars>>,
           call[e] \in {"none", "empty", "flush"}, Webs /\ ~flushed[e] => out[e] # <<>>,
           held[e] => conn[e] # <<>>
    PROVE  StreamInv'
<1>1. /\ net' = net /\ awake' \in [Sides -> BOOLEAN] /\ (awake[Peer(e)] => awake'[Peer(e)])
  BY NetStays, AwakeFacts DEF WriteBlocked, Send
<1>2. /\ call' = [call EXCEPT ![e] = "none"] /\ call'[e] = "none"
      /\ UNCHANGED <<turnVars, reset>>
  BY Types DEF WriteBlocked
<1>3. /\ total' = [total EXCEPT ![e] = total[e]] /\ total[e] \in Nat
      /\ held' = [held EXCEPT ![e] = held[e]] /\ held[e] \in BOOLEAN
  BY Types
<1>4. /\ heard' = heard /\ temp' = temp /\ conn' = conn /\ held' = held /\ total' = total
      /\ out' = out /\ flushed' = flushed /\ kind' = kind
  BY DEF readVars, frameVars, setup
<1>5. /\ C(e)' = C(e) /\ G(e)' = G(e) /\ Z(e)' = Z(e) /\ Writes(e)' = Writes(e)
      /\ Webs' = Webs /\ Rustls(e)' = Rustls(e)
  BY <1>1, <1>2, <1>4, PositionsStay, SenderStays
<1>6. Sender(e)'
  <2>1. Sender(e)
    BY DEF StreamInv, SideInv
  <2>2. FrameLeft(e)'
    BY <1>2, <1>4, <1>5, <2>1 DEF Sender, FrameLeft, turnVars
  <2>3. Owing(e)'
    BY <1>2, <1>4, <1>5, <2>1 DEF Sender, Owing
  <2>4. IF Rustls(e)' THEN call'[e] \in {"none", "empty", "hand"}
        ELSE ~held'[e] /\ call'[e] \in {"none", "flush"} /\ (call'[e] = "flush" => Webs')
    BY <1>2, <1>4, <1>5, <2>1 DEF Sender
  <2>5. QED
    BY <1>2, <2>2, <2>3, <2>4 DEF Sender
<1>7. QED
  BY <1>1, <1>2, <1>3, <1>4, <1>6, CallMoves DEF frameVars

LEMMA TcpWriteKeeps ==
    ASSUME StreamInv, NEW e \in Sides, Writes(e), TcpWrite(e)
    PROVE  StreamInv'
<1> DEFINE n == Least(Space(e), left[e])
<1>1. /\ kind = "tcp" /\ UNCHANGED <<setup, total, conn, held, frameVars, readVars>>
      /\ Peer(e) \in Sides /\ Peer(e) # e /\ Peer(Peer(e)) = e
      /\ part[e] <= Parts /\ left[e] \in Nat /\ left[e] >= 1 /\ told[e] \in Nat
  BY Peers, PlaceFacts DEF TcpWrite
<1>2. /\ SideInv(e) /\ ~Webs /\ ~Rustls(e) /\ flushed[e] /\ ~held[e] /\ call[e] = "none"
      /\ conn[e] = <<>> /\ C(e) = told[e] /\ out[e] = <<>>
  <2>1. SideInv(e)
    BY DEF StreamInv
  <2>2. ~Webs /\ ~Rustls(e)
    BY <1>1 DEF Webs, Rustls
  <2>3. flushed[e] /\ out[e] = <<>>
    BY <2>1, <2>2 DEF SideInv, Sender, FrameLeft
  <2>4. ~held[e] /\ call[e] = "none" /\ Owing(e)
    BY <2>1, <2>2 DEF SideInv, Sender
  <2>5. conn[e] = <<>> /\ C(e) = told[e] + 0
    BY <2>3, <2>4 DEF Owing, G
  <2>6. QED
    BY <1>1, <2>1, <2>2, <2>3, <2>4, <2>5
<1>3. B(e) = told[e] /\ H(e) \in Nat /\ A(e) \in Nat /\ B(e) \in Nat /\ H(e) <= A(e) /\ A(e) <= B(e)
  BY <1>2, Positions, EmptySeq DEF StreamInv, C
<1>4. CASE n = 0 /\ WriteBlocked(e)
  BY <1>1, <1>2, <1>4, BlockedKeeps
<1>5. CASE n > 0 /\ Wrote(e, n, Front(Buf(e), n))
  <2> DEFINE b == told[e] + n
  <2>1. n \in 1..left[e] /\ n <= Space(e)
    BY <1>1, <1>5, SpaceIsNat DEF Least
  <2>2. Front(Buf(e), n) = Run(told[e], b)
    <3>1. n <= (told[e] + left[e]) - told[e] /\ n \in Nat /\ told[e] + left[e] \in Nat
      BY <1>1, <2>1
    <3> HIDE DEF n
    <3>2. QED
      BY <1>1, <3>1, RunParts DEF Buf
  <2>3. net' = [net EXCEPT ![Peer(e)] = net[Peer(e)] \o Run(B(e), b)] /\ room' = room
    BY <1>1, <1>3, <1>5, <2>2 DEF Wrote, Send, setup
  <2>4. b \in Nat /\ B(e) <= b /\ b - B(e) <= Space(e)
    BY <1>1, <1>3, <2>1, SpaceIsNat
  <2> HIDE DEF n, b
  <2>5. /\ net' \in [Sides -> Seq(Nat)] /\ net'[Peer(e)] = Run(A(e), b) /\ net'[e] = net[e]
        /\ \A f \in Sides : Len(net'[f]) <= room'
    BY <2>3, <2>4, NetTakes
  <2>6. /\ Chain(e)' /\ C(e)' = b
    <3>1. /\ heard'[Peer(e)] = Run(0, H(e)) /\ temp'[Peer(e)] = Run(H(e), A(e))
          /\ net'[Peer(e)] = Run(A(e), b) /\ conn'[e] = Run(b, b)
      BY <1>1, <1>2, <2>4, <2>5, RunEmpty DEF SideInv, Chain, readVars
    <3>2. A(e) <= b /\ b <= b
      BY <1>3, <2>4
    <3>3. QED
      BY <1>3, <2>4, <3>1, <3>2, ChainNext
  <2>7. b = told[e] + n /\ b = told[e] + n + 0 /\ ends' = ends
    BY <1>1, <2>1 DEF b, frameVars
  <2>8. /\ conn' \in [Sides -> Seq(Nat)] /\ conn'[Peer(e)] = conn[Peer(e)] /\ conn'[e] = <<>>
        /\ held' \in [Sides -> BOOLEAN] /\ held'[Peer(e)] = held[Peer(e)] /\ ~held'[e]
        /\ out' \in [Sides -> Seq(Nat)] /\ out'[Peer(e)] = out[Peer(e)] /\ out'[e] = <<>>
        /\ flushed' \in [Sides -> BOOLEAN] /\ flushed'[Peer(e)] = flushed[Peer(e)] /\ flushed'[e]
    BY <1>1, <1>2, Types DEF frameVars
  <2>9. Wrote(e, n, Front(Buf(e), n))
    BY <1>5 DEF n
  <2>10. QED
    BY <1>1, <1>2, <2>1, <2>5, <2>6, <2>7, <2>8, <2>9, WroteKeeps
<1>6. QED
  BY <1>4, <1>5 DEF TcpWrite

\* A call of rustls' write(), by a handler or for tungstenite.
LEMMA RustlsCall ==
    ASSUME StreamInv, NEW e \in Sides, Writes(e), call[e] \in {"empty", "hand"}
    PROVE  /\ Rustls(e) /\ (kind = "tls" \/ (kind = "wss" /\ ~flushed[e]))
           /\ (kind = "tls" => flushed[e] /\ ~Webs)
           /\ Given(e) = Run(G(e), Z(e)) /\ Len(Given(e)) = Z(e) - G(e)
           /\ IF call[e] = "hand" THEN Handing(e) ELSE Owing(e)
<1>1. Sender(e) /\ StreamInv
  BY DEF StreamInv, SideInv
<1>2. Rustls(e) /\ (kind = "tls" \/ kind = "wss") /\ (Webs => ~flushed[e])
      /\ (IF call[e] = "hand" THEN Handing(e) ELSE Owing(e))
  BY <1>1 DEF Sender, Rustls
<1>3. kind = "tls" => flushed[e] /\ ~Webs
  BY <1>1, SenderFacts DEF Webs
<1>4. /\ G(e) \in Nat /\ Z(e) \in Nat /\ G(e) <= Z(e) /\ Z(e) = told[e] + left[e]
      /\ (flushed[e] => G(e) = told[e])
      /\ (~flushed[e] => out[e] = Run(G(e), Z(e)))
  BY SenderFacts
<1>5. Given(e) = Run(G(e), Z(e))
  <2>1. CASE kind = "tls"
    BY <1>3, <1>4, <2>1 DEF Given, Buf
  <2>2. CASE kind = "wss"
    BY <1>2, <1>4, <2>2 DEF Given, Webs
  <2>3. QED
    BY <1>2, <2>1, <2>2
<1>6. Len(Given(e)) = Z(e) - G(e)
  BY <1>4, <1>5, RunIsSeq
<1>7. kind = "tls" \/ (kind = "wss" /\ ~flushed[e])
  BY <1>2 DEF Webs
<1>8. QED
  BY <1>2, <1>3, <1>5, <1>6, <1>7

LEMMA TlsBeginKeeps ==
    ASSUME StreamInv, NEW e \in Sides, Writes(e), TlsBegin(e)
    PROVE  StreamInv'
<1>1. /\ kind = "tls" /\ Rustls(e) /\ ~Webs /\ call[e] = "none"
      /\ call' = [call EXCEPT ![e] = "empty"] /\ call'[e] = "empty"
      /\ UNCHANGED <<setup, turnVars, awake, total, conn, held, frameVars, readVars, net, reset>>
  BY Types DEF TlsBegin, Rustls, Webs
<1>2. /\ total' = [total EXCEPT ![e] = total[e]] /\ total[e] \in Nat
      /\ held' = [held EXCEPT ![e] = held[e]] /\ held[e] \in BOOLEAN
      /\ awake' \in [Sides -> BOOLEAN] /\ awake' = awake
  BY <1>1, Types
<1>3. /\ heard' = heard /\ temp' = temp /\ conn' = conn /\ held' = held /\ total' = total
      /\ net' = net /\ out' = out /\ flushed' = flushed /\ kind' = kind
  BY <1>1 DEF readVars, frameVars, setup
<1>4. /\ C(e)' = C(e) /\ G(e)' = G(e) /\ Z(e)' = Z(e) /\ Writes(e)' = Writes(e)
      /\ Webs' = Webs /\ Rustls(e)' = Rustls(e)
  BY <1>1, <1>3, PositionsStay, SenderStays
<1>5. Sender(e)'
  <2>1. Sender(e)
    BY DEF StreamInv, SideInv
  <2>2. FrameLeft(e)'
    BY <1>1, <1>3, <2>1 DEF Sender, FrameLeft
  <2>3. Owing(e)'
    BY <1>1, <1>3, <1>4, <2>1 DEF Sender, Owing
  <2>4. QED
    BY <1>1, <1>4, <2>2, <2>3 DEF Sender
<1>6. QED
  BY <1>1, <1>2, <1>3, <1>5, CallMoves

LEMMA TlsStuckKeeps ==
    ASSUME StreamInv, NEW e \in Sides, Writes(e), TlsStuck(e)
    PROVE  StreamInv'
<1>1. /\ Rustls(e) /\ call[e] = "empty" /\ conn[e] # <<>>
  BY RustlsCall DEF TlsStuck
<1>2. Sender(e)
  BY DEF StreamInv, SideInv
<1>3. Webs /\ ~flushed[e] => out[e] # <<>>
  BY <1>1, <1>2 DEF Sender, FrameLeft
<1>4. QED
  BY <1>1, <1>3, BlockedKeeps DEF TlsStuck

LEMMA TlsEmptiedKeeps ==
    ASSUME StreamInv, NEW e \in Sides, Writes(e), TlsEmptied(e)
    PROVE  StreamInv'
<1> DEFINE t == IF held[e] THEN 1 ELSE 0
<1>1. /\ Rustls(e) /\ Owing(e) /\ call[e] = "empty" /\ conn[e] = <<>>
      /\ call' = [call EXCEPT ![e] = "hand"] /\ call'[e] = "hand"
      /\ total' = [total EXCEPT ![e] = t] /\ total'[e] = t /\ t \in Nat
      /\ held' = [held EXCEPT ![e] = FALSE] /\ ~held'[e] /\ FALSE \in BOOLEAN
      /\ UNCHANGED <<setup, turnVars, awake, conn, frameVars, readVars, net, reset>>
  BY Types, RustlsCall DEF TlsEmptied
<1>2. /\ heard' = heard /\ temp' = temp /\ conn' = conn /\ net' = net /\ out' = out
      /\ flushed' = flushed /\ kind' = kind /\ awake' \in [Sides -> BOOLEAN] /\ awake' = awake
  BY <1>1, Types DEF readVars, frameVars, setup
<1>3. /\ C(e)' = C(e) /\ G(e)' = G(e) /\ Z(e)' = Z(e) /\ Writes(e)' = Writes(e)
      /\ Webs' = Webs /\ Rustls(e)' = Rustls(e)
  BY <1>1, <1>2, PositionsStay, SenderStays
<1>4. G(e) \in Nat /\ Z(e) \in Nat /\ G(e) <= Z(e)
  BY SenderFacts
<1>5. Handing(e)'
  <2>1. C(e) = G(e) + t /\ t <= Z(e) - G(e) /\ (t = 0 => Z(e) - G(e) >= 2)
    BY <1>1, <1>4 DEF Owing
  <2>2. QED
    BY <1>1, <1>2, <1>3, <2>1 DEF Handing
<1>6. Sender(e)'
  <2>1. Sender(e)
    BY DEF StreamInv, SideInv
  <2>2. FrameLeft(e)'
    BY <1>1, <1>2, <1>3, <2>1 DEF Sender, FrameLeft, turnVars
  <2>3. QED
    BY <1>1, <1>2, <1>3, <1>5, <2>1, <2>2 DEF Sender
<1>7. QED
  BY <1>1, <1>2, <1>6, CallMoves DEF TlsEmptied

LEMMA LeastFacts ==
    ASSUME NEW a \in Nat, NEW b \in Nat
    PROVE  Least(a, b) \in Nat /\ Least(a, b) <= a /\ Least(a, b) <= b
           /\ Least(a, b) \in {a, b}
BY DEF Least

LEMMA TlsPutKeeps ==
    ASSUME StreamInv, NEW e \in Sides, Writes(e), TlsPut(e)
    PROVE  StreamInv'
<1> DEFINE n == Least(Space(e), Len(conn[e]))
           b == B(e) + n
<1>1. /\ Rustls(e) /\ call[e] \in {"empty", "hand"} /\ conn[e] # <<>> /\ n > 0
      /\ (IF call[e] = "hand" THEN Handing(e) ELSE Owing(e))
      /\ conn' = [conn EXCEPT ![e] = After(conn[e], n)]
      /\ Send(e, Front(conn[e], n), awake[e])
      /\ UNCHANGED <<setup, turnVars, call, total, held, frameVars, readVars, reset>>
  BY RustlsCall, Types DEF TlsPut
<1>2. /\ H(e) \in Nat /\ A(e) \in Nat /\ B(e) \in Nat /\ C(e) \in Nat
      /\ H(e) <= A(e) /\ A(e) <= B(e) /\ B(e) <= C(e) /\ Len(conn[e]) = C(e) - B(e)
      /\ SideInv(e) /\ Peer(e) \in Sides /\ Peer(e) # e
  BY Positions, Peers DEF StreamInv
<1>3. n \in Nat /\ n <= Space(e) /\ n <= C(e) - B(e) /\ Space(e) \in Nat
  <2>1. Space(e) \in Nat
    BY SpaceIsNat
  <2>2. Len(conn[e]) \in Nat /\ Len(conn[e]) = C(e) - B(e)
    BY <1>2
  <2>3. QED
    BY <2>1, <2>2, LeastFacts
<1>4. conn[e] = Run(B(e), C(e))
  BY <1>2 DEF SideInv, Chain
<1> HIDE DEF n
<1>5. Front(conn[e], n) = Run(B(e), b) /\ After(conn[e], n) = Run(b, C(e))
  BY <1>2, <1>3, <1>4, RunParts
<1>6. b \in Nat /\ B(e) <= b /\ b <= C(e) /\ b - B(e) <= Space(e) /\ A(e) <= b
  BY <1>2, <1>3
<1> HIDE DEF b
<1>7. net' = [net EXCEPT ![Peer(e)] = net[Peer(e)] \o Run(B(e), b)] /\ room' = room
  BY <1>1, <1>5 DEF Send, setup
<1>8. /\ net' \in [Sides -> Seq(Nat)] /\ net'[Peer(e)] = Run(A(e), b) /\ net'[e] = net[e]
      /\ \A f \in Sides : Len(net'[f]) <= room'
  BY <1>6, <1>7, NetTakes
<1>9. Run(b, C(e)) \in Seq(Nat)
  BY <1>2, <1>6, RunIsSeq
<1>10. conn' \in [Sides -> Seq(Nat)] /\ conn'[e] = Run(b, C(e)) /\ conn'[Peer(e)] = conn[Peer(e)]
  BY <1>1, <1>2, <1>5, <1>9, Types
<1>11. Chain(e)' /\ C(e)' = C(e)
  <2>1. heard'[Peer(e)] = Run(0, H(e)) /\ temp'[Peer(e)] = Run(H(e), A(e))
    BY <1>1, <1>2 DEF SideInv, Chain, readVars
  <2>2. QED
    BY <1>2, <1>6, <1>8, <1>10, <2>1, ChainNext
<1>12. /\ call' = call /\ total' = total /\ held' = held /\ out' = out /\ flushed' = flushed
       /\ kind' = kind /\ ends' = ends /\ part' = part
  BY <1>1 DEF frameVars, setup, turnVars
<1>13. /\ G(e)' = G(e) /\ Z(e)' = Z(e) /\ Writes(e)' = Writes(e)
       /\ Webs' = Webs /\ Rustls(e)' = Rustls(e)
  BY <1>1, <1>12, SenderStays
<1>14. Sender(e)'
  <2>1. Sender(e)
    BY <1>2 DEF SideInv
  <2>2. FrameLeft(e)'
    BY <1>1, <1>12, <1>13, <2>1 DEF Sender, FrameLeft, turnVars
  <2>3. CASE call[e] = "hand"
    <3>1. Handing(e)'
      BY <1>1, <1>11, <1>12, <1>13, <2>3 DEF Handing
    <3>2. QED
      BY <1>1, <1>12, <1>13, <2>1, <2>2, <2>3, <3>1 DEF Sender
  <2>4. CASE call[e] = "empty"
    <3>1. held[e] /\ Owing(e)
      BY <1>1, <2>4 DEF Owing
    <3>2. Owing(e)'
      BY <1>1, <1>11, <1>12, <1>13, <2>4, <3>1 DEF Owing
    <3>3. QED
      BY <1>1, <1>12, <1>13, <2>1, <2>2, <2>4, <3>2 DEF Sender
  <2>5. QED
    BY <1>1, <2>3, <2>4
<1>15. awake' \in [Sides -> BOOLEAN] /\ (awake[Peer(e)] => awake'[Peer(e)])
  <2>1. awake[e] \in BOOLEAN
    BY Types
  <2>2. QED
    BY <1>1, <2>1, AwakeFacts
<1>16. Framing(e)' /\ (\A x \in ends'[e] : x \in ends[e] \/ x > A(e))
  BY <1>2, <1>12, FramingStays DEF SideInv
<1>17. /\ call' \in [Sides -> {"none", "empty", "hand", "flush"}] /\ total' \in [Sides -> Nat]
       /\ held' \in [Sides -> BOOLEAN] /\ out' \in [Sides -> Seq(Nat)]
       /\ flushed' \in [Sides -> BOOLEAN] /\ ends' \in [Sides -> SUBSET Nat]
  BY <1>12, Types
<1>18. QED
  BY <1>1, <1>8, <1>10, <1>11, <1>12, <1>14, <1>15, <1>16, <1>17, CallKeeps

LEMMA TlsHandKeeps ==
    ASSUME StreamInv, NEW e \in Sides, Writes(e), TlsHand(e)
    PROVE  StreamInv'
<1> DEFINE n == Least(Limit, Len(Given(e)) - total[e])
           c == C(e) + n
<1>1. /\ Rustls(e) /\ Handing(e) /\ call[e] = "hand" /\ conn[e] = <<>>
      /\ Given(e) = Run(G(e), Z(e)) /\ Len(Given(e)) = Z(e) - G(e) /\ total[e] < Len(Given(e))
      /\ conn' = [conn EXCEPT ![e] = SubSeq(Given(e), total[e] + 1, total[e] + n)]
      /\ total' = [total EXCEPT ![e] = total[e] + n]
      /\ UNCHANGED <<setup, turnVars, awake, call, held, frameVars, readVars, net, reset>>
  BY RustlsCall, Types DEF TlsHand
<1>2. /\ H(e) \in Nat /\ A(e) \in Nat /\ B(e) \in Nat /\ C(e) \in Nat
      /\ H(e) <= A(e) /\ A(e) <= B(e) /\ B(e) <= C(e) /\ Len(conn[e]) = C(e) - B(e)
      /\ SideInv(e) /\ Peer(e) \in Sides /\ Peer(e) # e
  BY Positions, Peers DEF StreamInv
<1>3. G(e) \in Nat /\ Z(e) \in Nat /\ G(e) <= Z(e) /\ total[e] \in Nat
  BY SenderFacts
<1>4. Limit \in Nat /\ Limit >= 2
  BY StreamsAssumption DEF StreamsAssumption
<1>5. n \in Nat /\ n <= (Z(e) - G(e)) - total[e] /\ n >= 1 /\ (total[e] = 0 => n >= 2)
  <2>1. Z(e) - G(e) - total[e] \in Nat /\ Z(e) - G(e) - total[e] >= 1
        /\ (total[e] = 0 => Z(e) - G(e) - total[e] >= 2)
    BY <1>1, <1>3 DEF Handing
  <2>2. n = Least(Limit, Z(e) - G(e) - total[e])
    BY <1>1
  <2> HIDE DEF n
  <2>3. n \in Nat /\ n <= Z(e) - G(e) - total[e] /\ n \in {Limit, Z(e) - G(e) - total[e]}
    BY <1>4, <2>1, <2>2, LeastFacts
  <2>4. QED
    BY <1>3, <1>4, <2>1, <2>3
<1> HIDE DEF n
<1>6. B(e) = C(e) /\ C(e) = G(e) + total[e]
  <2>1. Len(conn[e]) = 0
    BY <1>1, EmptySeq
  <2>2. QED
    BY <1>1, <1>2, <2>1 DEF Handing
<1>7. SubSeq(Given(e), total[e] + 1, total[e] + n) = Run(C(e), c)
  <2>1. /\ total[e] + 1 \in Nat \ {0} /\ total[e] + n \in Nat /\ total[e] + 1 <= (total[e] + n) + 1
        /\ total[e] + n <= Z(e) - G(e)
        /\ G(e) + (total[e] + 1) - 1 = C(e) /\ G(e) + (total[e] + n) = c
    BY <1>3, <1>5, <1>6
  <2> DEFINE i == total[e] + 1
             j == total[e] + n
  <2>2. i \in Nat \ {0} /\ j \in Nat /\ i <= j + 1 /\ j <= Z(e) - G(e)
        /\ G(e) + i - 1 = C(e) /\ G(e) + j = c
    BY <2>1
  <2> HIDE DEF i, j, c
  <2>3. SubSeq(Run(G(e), Z(e)), i, j) = Run(C(e), c)
    <3>1. G(e) \in Nat /\ Z(e) \in Nat
      BY <1>3
    <3>2. SubSeq(Run(G(e), Z(e)), i, j) = Run(G(e) + i - 1, G(e) + j)
      BY <2>2, <3>1, RunSubSeq
    <3>3. QED
      BY <2>2, <3>2
  <2>4. QED
    BY <1>1, <2>3 DEF i, j
<1>8. c \in Nat /\ C(e) <= c /\ B(e) <= c /\ c = G(e) + (total[e] + n) /\ total[e] + n \in Nat
      /\ total[e] + n >= 2 /\ total[e] + n <= Z(e) - G(e)
  <2>1. total[e] + n >= 2
    <3>1. CASE total[e] = 0
      BY <1>5, <3>1
    <3>2. CASE total[e] >= 1
      BY <1>3, <1>5, <3>2
    <3>3. QED
      BY <1>3, <3>1, <3>2
  <2>2. total[e] + n \in Nat /\ total[e] + n <= Z(e) - G(e)
    BY <1>3, <1>5
  <2>3. c \in Nat /\ C(e) <= c
    BY <1>2, <1>5
  <2>4. c = G(e) + (total[e] + n)
    BY <1>3, <1>5, <1>6
  <2> HIDE DEF c
  <2>5. QED
    BY <1>6, <2>1, <2>2, <2>3, <2>4
<1> HIDE DEF c
<1>9. Run(C(e), c) \in Seq(Nat)
  BY <1>2, <1>8, RunIsSeq
<1>10. /\ conn' \in [Sides -> Seq(Nat)] /\ conn'[e] = Run(B(e), c) /\ conn'[Peer(e)] = conn[Peer(e)]
       /\ total' \in [Sides -> Nat] /\ total'[e] = total[e] + n /\ total'[Peer(e)] = total[Peer(e)]
  BY <1>1, <1>2, <1>6, <1>7, <1>8, <1>9, Types
<1>11. Chain(e)' /\ C(e)' = c
  <2>1. heard'[Peer(e)] = Run(0, H(e)) /\ temp'[Peer(e)] = Run(H(e), A(e))
        /\ net'[Peer(e)] = Run(A(e), B(e))
    BY <1>1, <1>2 DEF SideInv, Chain, readVars
  <2>2. H(e) \in Nat /\ A(e) \in Nat /\ B(e) \in Nat /\ c \in Nat
        /\ H(e) <= A(e) /\ A(e) <= B(e) /\ B(e) <= c
    BY <1>2, <1>8
  <2>3. conn'[e] = Run(B(e), c)
    BY <1>10
  <2>4. QED
    BY <2>1, <2>2, <2>3, ChainNext
<1>12. /\ call' = call /\ held' = held /\ out' = out /\ flushed' = flushed
       /\ kind' = kind /\ ends' = ends /\ part' = part /\ net' = net /\ awake' = awake
       /\ room' = room
  BY <1>1 DEF frameVars, setup, turnVars
<1>13. /\ G(e)' = G(e) /\ Z(e)' = Z(e) /\ Writes(e)' = Writes(e)
       /\ Webs' = Webs /\ Rustls(e)' = Rustls(e)
  BY <1>1, <1>12, SenderStays
<1>14. Sender(e)'
  <2>1. Sender(e)
    BY <1>2 DEF SideInv
  <2>2. FrameLeft(e)'
    BY <1>1, <1>12, <1>13, <2>1 DEF Sender, FrameLeft, turnVars
  <2>3. Handing(e)'
    BY <1>1, <1>3, <1>5, <1>8, <1>10, <1>11, <1>12, <1>13 DEF Handing
  <2>4. QED
    BY <1>1, <1>12, <1>13, <2>1, <2>2, <2>3 DEF Sender
<1>15. Framing(e)' /\ (\A x \in ends'[e] : x \in ends[e] \/ x > A(e))
  BY <1>2, <1>12, FramingStays DEF SideInv
<1>16. /\ call' \in [Sides -> {"none", "empty", "hand", "flush"}]
       /\ held' \in [Sides -> BOOLEAN] /\ out' \in [Sides -> Seq(Nat)]
       /\ flushed' \in [Sides -> BOOLEAN] /\ ends' \in [Sides -> SUBSET Nat]
       /\ net' \in [Sides -> Seq(Nat)] /\ awake' \in [Sides -> BOOLEAN]
       /\ \A f \in Sides : Len(net'[f]) <= room'
  BY <1>12, Types DEF StreamInv, TypeOK
<1>17. QED
  BY <1>1, <1>10, <1>11, <1>12, <1>14, <1>15, <1>16, CallKeeps

\* rustls' write() returns all but one of the bytes that it handed over, or all of them.
LEMMA TlsHoldKeeps ==
    ASSUME StreamInv, NEW e \in Sides, Writes(e), TlsHold(e)
    PROVE  StreamInv'
<1> DEFINE n == total[e] - 1
<1>1. /\ Rustls(e) /\ Handing(e) /\ call[e] = "hand" /\ conn[e] # <<>>
      /\ held' = [held EXCEPT ![e] = TRUE] /\ Told(e, n)
      /\ UNCHANGED <<setup, total, conn, readVars>>
      /\ kind = "tls" \/ (kind = "wss" /\ ~flushed[e])
      /\ kind = "tls" => flushed[e] /\ ~Webs
  BY RustlsCall DEF TlsHold
<1>2. /\ SideInv(e) /\ Peer(e) \in Sides /\ Peer(e) # e
      /\ told[e] \in Nat /\ left[e] \in Nat /\ Z(e) = told[e] + left[e]
      /\ G(e) \in Nat /\ G(e) <= Z(e) /\ total[e] \in Nat /\ Z(e) \in Nat
      /\ part[e] \in 1..Parts
  BY SenderFacts
<1>3. total[e] >= 2 /\ total[e] <= Z(e) - G(e) /\ C(e) = G(e) + total[e]
  BY <1>1 DEF Handing
<1>4. n \in Nat /\ n >= 1 /\ n < Z(e) - G(e) /\ C(e) = G(e) + n + 1
  BY <1>2, <1>3
<1>5. held' \in [Sides -> BOOLEAN] /\ held'[e] /\ held'[Peer(e)] = held[Peer(e)]
  BY <1>1, <1>2, Types
<1>6. /\ conn' = conn /\ conn' \in [Sides -> Seq(Nat)] /\ conn'[e] # <<>>
      /\ heard' = heard /\ temp' = temp /\ kind' = kind /\ room' = room /\ total' = total
      /\ total' \in [Sides -> Nat]
  BY <1>1, Types DEF readVars, setup
<1> HIDE DEF n
<1>7. CASE kind = "tls"
  <2>1. Wrote(e, n, <<>>) /\ UNCHANGED frameVars /\ flushed[e] /\ ~Webs
    BY <1>1, <1>7 DEF Told
  <2>2. G(e) = told[e] /\ out[e] = <<>>
    BY <2>1, SenderFacts
  <2>3. n \in 1..left[e] /\ n < left[e]
    BY <1>2, <1>4, <2>2
  <2>4. net' = net /\ net' \in [Sides -> Seq(Nat)] /\ \A f \in Sides : Len(net'[f]) <= room'
    BY <1>6, <2>1, NetStays, Types DEF Wrote, Send, StreamInv, TypeOK
  <2>5. Chain(e)' /\ C(e)' = C(e)
    BY <1>2, <1>6, <2>4, PositionsStay DEF SideInv
  <2>6. C(e)' = told[e] + n + 1
    BY <1>4, <2>2, <2>5
  <2>7. /\ out' = out /\ flushed' = flushed /\ ends' = ends /\ out' \in [Sides -> Seq(Nat)]
        /\ flushed' \in [Sides -> BOOLEAN]
    BY <2>1, Types DEF frameVars
  <2>8. QED
    BY <1>1, <1>5, <1>6, <2>1, <2>2, <2>3, <2>4, <2>5, <2>6, <2>7, WroteKeeps
<1>8. CASE kind = "wss"
  <2>1. FrameWrote(e, n) /\ ~flushed[e] /\ out[e] = Run(G(e), Z(e)) /\ Len(out[e]) = Z(e) - G(e)
        /\ Webs /\ G(e) = Z(e) - Len(out[e]) /\ Len(out[e]) \in Nat /\ Len(out[e]) <= left[e]
    BY <1>1, <1>2, <1>8, SenderFacts DEF Told
  <2>2. n \in 1..(Len(out[e]) - 1) /\ ~(n \in {0, Len(out[e])})
    <3> DEFINE m == Len(out[e])
    <3>1. m \in Nat /\ m = Z(e) - G(e)
      BY <2>1
    <3> HIDE DEF m
    <3>2. n \in 1..(m - 1) /\ ~(n \in {0, m})
      BY <1>2, <1>4, <3>1
    <3>3. QED
      BY <3>2 DEF m
  <2>3. /\ out' = [out EXCEPT ![e] = After(out[e], n)]
        /\ call' = [call EXCEPT ![e] = "empty"]
        /\ UNCHANGED <<turnVars, awake, flushed, net, reset, ends>>
    BY <2>1, <2>2 DEF FrameWrote
  <2>4. After(out[e], n) = Run(G(e) + n, Z(e))
    BY <1>2, <1>4, <2>1, RunParts
  <2>5. G(e) + n \in Nat /\ G(e) + n <= Z(e) /\ G(e) + n < Z(e)
    BY <1>2, <1>4
  <2>6. Run(G(e) + n, Z(e)) \in Seq(Nat) /\ Run(G(e) + n, Z(e)) # <<>>
        /\ Len(Run(G(e) + n, Z(e))) = Z(e) - (G(e) + n)
    <3> DEFINE g == G(e) + n
    <3>1. g \in Nat /\ g <= Z(e) /\ g < Z(e) /\ ~(g = Z(e)) /\ Z(e) \in Nat
      BY <1>2, <1>4, <2>5
    <3> HIDE DEF g
    <3>2. Run(g, Z(e)) \in Seq(Nat) /\ Len(Run(g, Z(e))) = Z(e) - g
      BY <3>1, RunIsSeq
    <3>3. Run(g, Z(e)) # <<>>
      BY <3>1, RunEmpty
    <3>4. QED
      BY <3>2, <3>3 DEF g
  <2>7. /\ out' \in [Sides -> Seq(Nat)] /\ out'[e] = Run(G(e) + n, Z(e)) /\ out'[Peer(e)] = out[Peer(e)]
        /\ call' \in [Sides -> {"none", "empty", "hand", "flush"}] /\ call'[e] = "empty"
        /\ call'[Peer(e)] = call[Peer(e)]
    BY <1>2, <2>3, <2>4, <2>6, Types
  <2>8. /\ flushed' = flushed /\ ends' = ends /\ net' = net /\ awake' = awake /\ reset' = reset
        /\ part' = part /\ left' = left /\ told' = told
        /\ flushed' \in [Sides -> BOOLEAN] /\ ends' \in [Sides -> SUBSET Nat]
        /\ net' \in [Sides -> Seq(Nat)] /\ awake' \in [Sides -> BOOLEAN]
        /\ \A f \in Sides : Len(net'[f]) <= room'
    BY <1>6, <2>3, Types DEF turnVars, StreamInv, TypeOK
  <2>9. Chain(e)' /\ C(e)' = C(e)
    BY <1>2, <1>6, <2>8, PositionsStay DEF SideInv
  <2>10. /\ G(e)' = G(e) + n /\ Z(e)' = Z(e)
    <3>1. Z(e)' = Z(e)
      BY <2>8 DEF Z
    <3>2. Len(out'[e]) = Z(e) - (G(e) + n) /\ ~flushed'[e]
      BY <2>1, <2>6, <2>7, <2>8
    <3>3. G(e)' = told[e] + left[e] - (Z(e) - (G(e) + n))
      BY <2>8, <3>2 DEF G
    <3>4. QED
      BY <1>2, <1>4, <3>1, <3>3
  <2>11. Writes(e)' /\ Webs' /\ Rustls(e)'
    BY <1>1, <1>6, <2>1, <2>8 DEF Writes, Webs, Rustls
  <2>12. FrameLeft(e)'
    <3>1. Len(out'[e]) <= left'[e]
      <4>1. Len(out'[e]) = Z(e) - (G(e) + n)
        BY <2>6, <2>7
      <4>2. Z(e) - G(e) <= left[e]
        BY <2>1
      <4>3. Z(e) - (G(e) + n) <= left[e]
        BY <1>2, <1>4, <4>2
      <4>4. QED
        BY <2>8, <4>1, <4>3
    <3>2. QED
      BY <2>1, <2>6, <2>7, <2>8, <2>10, <2>11, <3>1 DEF FrameLeft
  <2>13. Owing(e)'
    <3>1. C(e)' = G(e)' + 1 /\ G(e)' < Z(e)'
      BY <1>2, <1>4, <2>5, <2>9, <2>10
    <3>2. QED
      BY <1>5, <2>7, <2>11, <3>1 DEF Owing
  <2>14. Sender(e)'
    BY <2>1, <2>7, <2>8, <2>11, <2>12, <2>13 DEF Sender
  <2>15. Framing(e)' /\ (\A x \in ends'[e] : x \in ends[e] \/ x > A(e))
    BY <1>2, <1>6, <2>8, FramingStays DEF SideInv
  <2>16. UNCHANGED <<setup, turnVars, readVars, reset>>
    BY <1>1, <2>3
  <2>17. /\ awake[Peer(e)] => awake'[Peer(e)]
         /\ total'[Peer(e)] = total[Peer(e)] /\ conn'[Peer(e)] = conn[Peer(e)]
         /\ flushed'[Peer(e)] = flushed[Peer(e)] /\ ends'[Peer(e)] = ends[Peer(e)]
         /\ net'[e] = net[e]
    BY <1>6, <2>8
  <2>18. QED
    BY <1>5, <1>6, <2>7, <2>8, <2>9, <2>14, <2>15, <2>16, <2>17, CallKeeps
<1>9. QED
  BY <1>1, <1>7, <1>8

LEMMA TlsDoneKeeps ==
    ASSUME StreamInv, NEW e \in Sides, Writes(e), TlsDone(e)
    PROVE  StreamInv'
<1> DEFINE n == total[e]
<1>1. /\ Rustls(e) /\ Handing(e) /\ call[e] = "hand" /\ conn[e] = <<>>
      /\ n = Len(Given(e)) /\ Len(Given(e)) = Z(e) - G(e) /\ Told(e, n)
      /\ UNCHANGED <<setup, total, conn, held, readVars>>
      /\ kind = "tls" \/ (kind = "wss" /\ ~flushed[e])
      /\ kind = "tls" => flushed[e] /\ ~Webs
  BY RustlsCall DEF TlsDone
<1>2. /\ SideInv(e) /\ Peer(e) \in Sides /\ Peer(e) # e
      /\ told[e] \in Nat /\ left[e] \in Nat /\ left[e] >= 1 /\ Z(e) = told[e] + left[e]
      /\ G(e) \in Nat /\ G(e) <= Z(e) /\ n \in Nat /\ Z(e) \in Nat
      /\ part[e] \in 1..Parts
  BY SenderFacts
<1>3. C(e) = G(e) + n /\ ~held[e] /\ (n = 0 => Z(e) - G(e) >= 2)
  BY <1>1 DEF Handing
<1>4. n = Z(e) - G(e) /\ n >= 1 /\ C(e) = Z(e)
  BY <1>1, <1>2, <1>3
<1>5. /\ held' \in [Sides -> BOOLEAN] /\ ~held'[e] /\ held' = held
      /\ conn' = conn /\ conn' \in [Sides -> Seq(Nat)] /\ conn'[e] = <<>>
      /\ heard' = heard /\ temp' = temp /\ kind' = kind /\ room' = room /\ total' = total
  BY <1>1, <1>3, Types DEF readVars, setup
<1> HIDE DEF n
<1>6. /\ left[e] \in 1..left[e]
      /\ Wrote(e, left[e], <<>>) /\ (Webs => ~flushed[e]) /\ ends' = ends
      /\ out' \in [Sides -> Seq(Nat)] /\ out'[Peer(e)] = out[Peer(e)] /\ out'[e] = <<>>
      /\ flushed' \in [Sides -> BOOLEAN] /\ flushed'[Peer(e)] = flushed[Peer(e)] /\ flushed'[e]
  <2>1. CASE kind = "tls"
    <3>1. Wrote(e, n, <<>>) /\ UNCHANGED frameVars /\ flushed[e] /\ ~Webs
      BY <1>1, <2>1 DEF Told
    <3>2. G(e) = told[e] /\ out[e] = <<>>
      BY <3>1, SenderFacts
    <3>3. n = left[e]
      BY <1>2, <1>4, <3>2
    <3>4. Wrote(e, left[e], <<>>)
      BY <3>1, <3>3
    <3>5. out' = out /\ flushed' = flushed /\ ends' = ends
      BY <3>1 DEF frameVars
    <3>6. out' \in [Sides -> Seq(Nat)] /\ flushed' \in [Sides -> BOOLEAN] /\ flushed'[e]
      BY <3>1, <3>5, Types
    <3>7. QED
      BY <1>2, <3>1, <3>2, <3>4, <3>5, <3>6
  <2>2. CASE kind = "wss"
    <3>1. FrameWrote(e, n) /\ ~flushed[e] /\ out[e] = Run(G(e), Z(e)) /\ Len(out[e]) = n
      BY <1>1, <1>4, <2>2, SenderFacts DEF Told
    <3>2. ~(n \in 1..(Len(out[e]) - 1)) /\ n > 0
      BY <1>2, <1>4, <3>1
    <3>3. /\ out' = [out EXCEPT ![e] = After(out[e], n)]
          /\ flushed' = [flushed EXCEPT ![e] = n > 0]
          /\ Wrote(e, left[e], <<>>) /\ ends' = ends
      BY <3>1, <3>2 DEF FrameWrote
    <3>4. After(out[e], n) = <<>>
      <4>1. After(out[e], n) = Run(G(e) + n, Z(e)) /\ G(e) + n = Z(e)
        BY <1>2, <1>4, <3>1, RunParts
      <4>2. QED
        BY <1>2, <4>1, RunEmpty
    <3>5. flushed' = [flushed EXCEPT ![e] = TRUE]
      <4>1. (n > 0) = TRUE
        BY <3>2
      <4>2. QED
        BY <3>3, <4>1
    <3>6. /\ out' \in [Sides -> Seq(Nat)] /\ out'[Peer(e)] = out[Peer(e)] /\ out'[e] = <<>>
          /\ flushed' \in [Sides -> BOOLEAN] /\ flushed'[Peer(e)] = flushed[Peer(e)] /\ flushed'[e]
      <4>1. out' = [out EXCEPT ![e] = <<>>] /\ out \in [Sides -> Seq(Nat)] /\ <<>> \in Seq(Nat)
        BY <3>3, <3>4, EmptySeq, Types
      <4>2. flushed \in [Sides -> BOOLEAN]
        BY Types
      <4>3. out' \in [Sides -> Seq(Nat)] /\ out'[Peer(e)] = out[Peer(e)] /\ out'[e] = <<>>
        BY <1>2, <4>1
      <4>4. flushed' \in [Sides -> BOOLEAN] /\ flushed'[Peer(e)] = flushed[Peer(e)] /\ flushed'[e]
        BY <1>2, <3>5, <4>2
      <4>5. QED
        BY <4>3, <4>4
    <3>7. QED
      BY <1>2, <3>1, <3>3, <3>6
  <2>3. QED
    BY <1>1, <2>1, <2>2
<1>7. net' = net /\ net' \in [Sides -> Seq(Nat)] /\ \A f \in Sides : Len(net'[f]) <= room'
  BY <1>5, <1>6, NetStays, Types DEF Wrote, Send, StreamInv, TypeOK
<1>8. Chain(e)' /\ C(e)' = C(e)
  BY <1>2, <1>5, <1>7, PositionsStay DEF SideInv
<1>9. C(e)' = told[e] + left[e] + 0
  BY <1>2, <1>4, <1>8
<1>10. QED
  BY <1>1, <1>5, <1>6, <1>7, <1>8, <1>9, WroteKeeps

LEMMA FrameKeeps ==
    ASSUME StreamInv, NEW e \in Sides, Writes(e), Webs,
           Frame(e, IF Rustls(e) THEN "empty" ELSE "flush")
    PROVE  StreamInv'
<1> DEFINE step == IF Rustls(e) THEN "empty" ELSE "flush"
<1>1. /\ call[e] = "none" /\ call' = [call EXCEPT ![e] = step]
      /\ step \in {"none", "empty", "hand", "flush"} /\ step # "none" /\ step # "hand"
      /\ UNCHANGED <<setup, turnVars, awake, total, conn, held, readVars, net, reset>>
  BY DEF Frame
<1>2. /\ SideInv(e) /\ Peer(e) \in Sides /\ Peer(e) # e
      /\ told[e] \in Nat /\ left[e] \in Nat /\ left[e] >= 2 /\ Z(e) = told[e] + left[e]
      /\ G(e) \in Nat /\ G(e) <= Z(e) /\ Z(e) \in Nat /\ part[e] \in 1..Parts
  BY SenderFacts
<1>3. Sender(e) /\ Owing(e) /\ Framing(e)
  BY <1>1, <1>2 DEF SideInv, Sender
<1>4. /\ call' \in [Sides -> {"none", "empty", "hand", "flush"}] /\ call'[e] = step
      /\ call'[Peer(e)] = call[Peer(e)]
  BY <1>1, <1>2, Types
<1>5. /\ heard' = heard /\ temp' = temp /\ conn' = conn /\ held' = held /\ total' = total
      /\ net' = net /\ kind' = kind /\ room' = room /\ part' = part /\ left' = left /\ told' = told
      /\ awake' = awake /\ reset' = reset
  BY <1>1 DEF readVars, setup, turnVars
<1>6. Chain(e)' /\ C(e)' = C(e)
  BY <1>2, <1>5, PositionsStay DEF SideInv
<1>7. /\ Z(e)' = Z(e) /\ Writes(e)' /\ Webs' /\ Rustls(e)' = Rustls(e)
  BY <1>5 DEF Z, Writes, Webs, Rustls
<1>8. /\ total' \in [Sides -> Nat] /\ conn' \in [Sides -> Seq(Nat)]
      /\ held' \in [Sides -> BOOLEAN] /\ net' \in [Sides -> Seq(Nat)]
      /\ awake' \in [Sides -> BOOLEAN] /\ \A f \in Sides : Len(net'[f]) <= room'
  BY <1>5, Types DEF StreamInv, TypeOK
<1>9. CASE ~flushed[e]
  <2>1. out' = out /\ flushed' = flushed /\ ends' = ends
    BY <1>9 DEF Frame, frameVars
  <2>2. /\ out' \in [Sides -> Seq(Nat)] /\ flushed' \in [Sides -> BOOLEAN]
        /\ ends' \in [Sides -> SUBSET Nat]
    BY <2>1, Types
  <2>3. G(e)' = G(e)
    BY <1>5, <2>1 DEF G
  <2>4. FrameLeft(e)'
    BY <1>1, <1>3, <1>4, <1>5, <1>7, <1>9, <2>1, <2>3 DEF Sender, FrameLeft
  <2>5. Owing(e)'
    BY <1>1, <1>3, <1>4, <1>5, <1>6, <1>7, <2>3 DEF Owing
  <2>6. Sender(e)'
    BY <1>1, <1>3, <1>4, <1>5, <1>7, <1>9, <2>1, <2>4, <2>5 DEF Sender
  <2>7. Framing(e)' /\ (\A x \in ends'[e] : x \in ends[e] \/ x > A(e))
    BY <1>3, <1>5, <2>1, FramingStays
  <2>8. QED
    BY <1>1, <1>4, <1>5, <1>6, <1>8, <2>1, <2>2, <2>6, <2>7, CallKeeps
<1>10. CASE flushed[e]
  <2>1. out[e] = <<>> /\ G(e) = told[e] /\ Buf(e) = Run(told[e], Z(e))
    BY <1>2, <1>10, SenderFacts DEF Buf
  <2>2. Run(told[e], Z(e)) \in Seq(Nat) /\ Run(told[e], Z(e)) # <<>>
        /\ Len(Run(told[e], Z(e))) = left[e]
    <3>1. told[e] <= Z(e) /\ ~(told[e] = Z(e)) /\ Z(e) - told[e] = left[e]
      BY <1>2
    <3>2. Run(told[e], Z(e)) \in Seq(Nat) /\ Len(Run(told[e], Z(e))) = Z(e) - told[e]
      BY <1>2, <3>1, RunIsSeq
    <3>3. Run(told[e], Z(e)) # <<>>
      BY <1>2, <3>1, RunEmpty
    <3>4. QED
      BY <3>1, <3>2, <3>3
  <2>3. /\ flushed' = [flushed EXCEPT ![e] = FALSE]
        /\ out' = [out EXCEPT ![e] = out[e] \o Buf(e)]
        /\ ends' = [ends EXCEPT ![e] = ends[e] \cup {Z(e)}]
    BY <1>10 DEF Frame, Z
  <2>4. out[e] \o Buf(e) = Run(told[e], Z(e))
    BY <2>1, <2>2, ConcatEmptySeq
  <2>5. /\ out' \in [Sides -> Seq(Nat)] /\ out'[e] = Run(told[e], Z(e))
        /\ out'[Peer(e)] = out[Peer(e)]
    BY <1>2, <2>2, <2>3, <2>4, Types
  <2>6. flushed' \in [Sides -> BOOLEAN] /\ ~flushed'[e] /\ flushed'[Peer(e)] = flushed[Peer(e)]
    BY <1>2, <2>3, Types
  <2>7. /\ ends' \in [Sides -> SUBSET Nat] /\ ends'[e] = ends[e] \cup {Z(e)}
        /\ ends'[Peer(e)] = ends[Peer(e)]
    BY <1>2, <2>3, Types
  <2>8. G(e)' = G(e)
    <3>1. Len(out'[e]) = left[e]
      BY <2>2, <2>5
    <3>2. G(e)' = told[e] + left[e] - left[e]
      BY <1>5, <2>6, <3>1 DEF G
    <3>3. QED
      BY <1>2, <2>1, <3>2
  <2>9. FrameLeft(e)'
    <3>1. Len(out'[e]) <= left'[e]
      BY <1>2, <1>5, <2>2, <2>5
    <3>2. QED
      BY <1>7, <2>1, <2>2, <2>5, <2>6, <2>8, <3>1 DEF FrameLeft
  <2>10. Owing(e)'
    BY <1>1, <1>3, <1>4, <1>5, <1>6, <1>7, <2>8 DEF Owing
  <2>11. Sender(e)'
    BY <1>1, <1>3, <1>4, <1>5, <1>7, <2>6, <2>9, <2>10 DEF Sender
  <2>12. Framing(e)'
    <3> DEFINE Old == {j \in 1..Parts : By(j) = e /\ (j < part[e] \/ (j = part[e] /\ ~flushed[e]))}
               New == {j \in 1..Parts : By(j) = e /\ (j < part'[e] \/ (j = part'[e] /\ ~flushed'[e]))}
    <3>1. New = Old \cup {part[e]}
      <4>1. By(part[e]) = e
        BY DEF Writes
      <4>2. \A j \in 1..Parts : (j < part'[e] \/ (j = part'[e] /\ ~flushed'[e]))
                                 <=> (j < part[e] \/ j = part[e])
        BY <1>5, <2>6
      <4>3. \A j \in 1..Parts : ~(j = part[e] /\ ~flushed[e])
        BY <1>10
      <4>4. New = {j \in 1..Parts : By(j) = e /\ (j < part[e] \/ j = part[e])}
        BY <4>2
      <4>5. Old = {j \in 1..Parts : By(j) = e /\ j < part[e]}
        BY <4>3
      <4> HIDE DEF Old, New
      <4>6. QED
        BY <1>2, <4>1, <4>4, <4>5
    <3>2. ends[e] = {Upto[e][k] : k \in Old}
      BY <1>3 DEF Framing
    <3>3. Z(e) = Upto[e][part[e]]
      BY <1>2 DEF SideInv, Place
    <3> HIDE DEF Old, New
    <3>4. ends'[e] = {Upto[e][k] : k \in New}
      BY <2>7, <3>1, <3>2, <3>3
    <3>5. QED
      BY <3>4 DEF Framing, New
  <2>13. Z(e) > A(e)
    <3>1. C(e) = G(e) + (IF held[e] THEN 1 ELSE 0)
      BY <1>3 DEF Owing
    <3>2. /\ A(e) \in Nat /\ B(e) \in Nat /\ C(e) \in Nat /\ A(e) <= B(e) /\ B(e) <= C(e)
      BY Positions DEF StreamInv
    <3>3. C(e) <= G(e) + 1
      BY <1>2, <3>1
    <3>4. QED
      BY <1>2, <2>1, <3>2, <3>3
  <2>14. \A x \in ends'[e] : x \in ends[e] \/ x > A(e)
    BY <2>7, <2>13
  <2>15. QED
    BY <1>1, <1>4, <1>5, <1>6, <1>8, <2>5, <2>6, <2>7, <2>11, <2>12, <2>14, CallKeeps
<1>11. QED
  BY <1>9, <1>10

LEMMA FramePutKeeps ==
    ASSUME StreamInv, NEW e \in Sides, Writes(e), FramePut(e)
    PROVE  StreamInv'
<1> DEFINE n == Least(Space(e), Len(out[e]))
           b == B(e) + n
<1>1. /\ call[e] = "flush" /\ out[e] # <<>>
      /\ UNCHANGED <<setup, total, conn, held, flushed, ends, readVars>>
  BY DEF FramePut
<1>2. /\ SideInv(e) /\ Peer(e) \in Sides /\ Peer(e) # e
      /\ told[e] \in Nat /\ left[e] \in Nat /\ Z(e) = told[e] + left[e]
      /\ G(e) \in Nat /\ G(e) <= Z(e) /\ Z(e) \in Nat
  BY SenderFacts
<1>3. /\ Sender(e) /\ ~Rustls(e) /\ ~held[e] /\ Webs /\ ~flushed[e] /\ Owing(e)
  BY <1>1, <1>2 DEF SideInv, Sender
<1>4. /\ H(e) \in Nat /\ A(e) \in Nat /\ B(e) \in Nat /\ C(e) \in Nat
      /\ H(e) <= A(e) /\ A(e) <= B(e) /\ B(e) <= C(e) /\ Len(conn[e]) = C(e) - B(e)
  BY Positions DEF StreamInv
<1>5. conn[e] = <<>> /\ C(e) = G(e) /\ B(e) = G(e)
  <2>1. conn[e] = <<>> /\ C(e) = G(e) + 0
    BY <1>3 DEF Owing
  <2>2. Len(conn[e]) = 0
    BY <2>1, EmptySeq
  <2>3. QED
    BY <1>2, <1>4, <2>1, <2>2
<1>6. out[e] = Run(G(e), Z(e)) /\ Len(out[e]) = Z(e) - G(e) /\ Len(out[e]) <= left[e]
  BY <1>3, SenderFacts
<1>7. CASE n = 0
  <2>1. WriteBlocked(e) /\ UNCHANGED frameVars
    BY <1>7 DEF FramePut, frameVars
  <2>2. QED
    BY <1>1, <1>3, <2>1, BlockedKeeps
<1>8. CASE n > 0
  <2>1. /\ out' = [out EXCEPT ![e] = After(out[e], n)]
        /\ Send(e, Front(out[e], n), awake[e])
        /\ UNCHANGED <<turnVars, call, reset>>
    BY <1>8 DEF FramePut
  <2>2. n \in Nat /\ n <= Space(e) /\ n <= Z(e) - G(e) /\ Space(e) \in Nat
    BY <1>2, <1>6, SpaceIsNat, LeastFacts
  <2> HIDE DEF n
  <2>3. b \in Nat /\ B(e) <= b /\ b <= Z(e) /\ b - B(e) <= Space(e) /\ A(e) <= b /\ b = G(e) + n
    BY SMTT(30), <1>2, <1>4, <1>5, <2>2
  <2> HIDE DEF b
  <2>4. Front(out[e], n) = Run(B(e), b) /\ After(out[e], n) = Run(b, Z(e))
    BY <1>2, <1>5, <1>6, <2>2, <2>3, RunParts
  <2>5. net' = [net EXCEPT ![Peer(e)] = net[Peer(e)] \o Run(B(e), b)] /\ room' = room
    BY <1>1, <2>1, <2>4 DEF Send, setup
  <2>6. /\ net' \in [Sides -> Seq(Nat)] /\ net'[Peer(e)] = Run(A(e), b) /\ net'[e] = net[e]
        /\ \A f \in Sides : Len(net'[f]) <= room'
    BY <2>3, <2>5, NetTakes
  <2>7. Run(b, Z(e)) \in Seq(Nat) /\ Len(Run(b, Z(e))) = Z(e) - b
    BY <1>2, <2>3, RunIsSeq
  <2>8. out' \in [Sides -> Seq(Nat)] /\ out'[e] = Run(b, Z(e)) /\ out'[Peer(e)] = out[Peer(e)]
    BY <1>2, <2>1, <2>4, <2>7, Types
  <2>9. /\ call' = call /\ total' = total /\ held' = held /\ flushed' = flushed /\ conn' = conn
        /\ kind' = kind /\ ends' = ends /\ part' = part /\ left' = left /\ told' = told
        /\ heard' = heard /\ temp' = temp
    BY <1>1, <2>1 DEF setup, turnVars, readVars
  <2>10. Chain(e)' /\ C(e)' = b
    <3>1. /\ heard'[Peer(e)] = Run(0, H(e)) /\ temp'[Peer(e)] = Run(H(e), A(e))
          /\ conn'[e] = Run(b, b)
      BY <1>2, <1>5, <2>3, <2>9, RunEmpty DEF SideInv, Chain
    <3>2. b <= b
      BY <2>3
    <3>3. QED
      BY <1>4, <2>3, <2>6, <3>1, <3>2, ChainNext
  <2>11. G(e)' = b /\ Z(e)' = Z(e) /\ Writes(e)' /\ Webs' /\ ~Rustls(e)'
    <3>1. Z(e)' = Z(e) /\ Writes(e)' /\ Webs' /\ ~Rustls(e)'
      BY <1>3, <2>9 DEF Z, Writes, Webs, Rustls
    <3>2. G(e)' = told[e] + left[e] - Len(out'[e])
      BY <1>3, <2>9 DEF G
    <3>3. Len(out'[e]) = Z(e) - b
      BY <2>7, <2>8
    <3>4. told[e] + left[e] - (Z(e) - b) = b
      BY <1>2, <2>3
    <3>5. QED
      BY <3>1, <3>2, <3>3, <3>4
  <2>12. Sender(e)'
    <3>1. Len(out'[e]) <= left'[e]
      <4>1. Len(out'[e]) = Z(e) - b
        BY <2>7, <2>8
      <4>2. Z(e) - G(e) <= left[e]
        BY <1>6
      <4>3. Z(e) - b <= left[e]
        BY <1>2, <2>2, <2>3, <4>2
      <4>4. QED
        BY <2>9, <4>1, <4>3
    <3>2. FrameLeft(e)'
      BY <1>1, <1>3, <2>8, <2>9, <2>11, <3>1 DEF FrameLeft
    <3>3. C(e)' = G(e)' + 0
      BY <2>3, <2>10, <2>11
    <3>4. Owing(e)'
      BY <1>3, <1>5, <2>9, <2>11, <3>3 DEF Owing
    <3>5. QED
      BY <1>1, <1>3, <2>9, <2>11, <3>2, <3>4 DEF Sender
  <2>13. awake' \in [Sides -> BOOLEAN] /\ (awake[Peer(e)] => awake'[Peer(e)])
    <3>1. awake[e] \in BOOLEAN
      BY Types
    <3>2. QED
      BY <2>1, <3>1, AwakeFacts
  <2>14. Framing(e)' /\ (\A x \in ends'[e] : x \in ends[e] \/ x > A(e))
    BY <1>2, <2>9, FramingStays DEF SideInv
  <2>15. /\ call' \in [Sides -> {"none", "empty", "hand", "flush"}] /\ total' \in [Sides -> Nat]
         /\ held' \in [Sides -> BOOLEAN] /\ conn' \in [Sides -> Seq(Nat)]
         /\ flushed' \in [Sides -> BOOLEAN] /\ ends' \in [Sides -> SUBSET Nat]
    BY <2>9, Types
  <2>16. QED
    BY <1>1, <2>1, <2>6, <2>8, <2>9, <2>10, <2>12, <2>13, <2>14, <2>15, CallKeeps
<1>9. QED
  <2>1. n \in Nat
    BY <1>2, <1>6, SpaceIsNat, LeastFacts
  <2>2. QED
    BY <1>7, <1>8, <2>1

LEMMA FrameDoneKeeps ==
    ASSUME StreamInv, NEW e \in Sides, Writes(e), FrameDone(e)
    PROVE  StreamInv'
<1>1. /\ call[e] = "flush" /\ out[e] = <<>> /\ Wrote(e, left[e], <<>>)
      /\ flushed' = [flushed EXCEPT ![e] = TRUE]
      /\ UNCHANGED <<setup, total, conn, held, out, ends, readVars>>
  BY DEF FrameDone
<1>2. /\ SideInv(e) /\ Peer(e) \in Sides /\ Peer(e) # e
      /\ told[e] \in Nat /\ left[e] \in Nat /\ left[e] >= 1 /\ Z(e) = told[e] + left[e]
      /\ G(e) \in Nat /\ Z(e) \in Nat
  BY SenderFacts
<1>3. /\ Sender(e) /\ ~Rustls(e) /\ ~held[e] /\ Webs /\ ~flushed[e] /\ Owing(e)
  BY <1>1, <1>2 DEF SideInv, Sender
<1>4. conn[e] = <<>> /\ C(e) = G(e) + 0
  BY <1>3 DEF Owing
<1>5. G(e) = Z(e)
  <2>1. Len(out[e]) = Z(e) - G(e)
    BY <1>3, SenderFacts
  <2>2. Len(out[e]) = 0
    BY <1>1, EmptySeq
  <2>3. QED
    BY <1>2, <2>1, <2>2
<1>6. /\ heard' = heard /\ temp' = temp /\ conn' = conn /\ out' = out /\ held' = held
      /\ ends' = ends /\ room' = room /\ total' = total
  BY <1>1 DEF readVars, setup
<1>7. net' = net /\ net' \in [Sides -> Seq(Nat)] /\ \A f \in Sides : Len(net'[f]) <= room'
  BY <1>1, <1>6, NetStays, Types DEF Wrote, Send, StreamInv, TypeOK
<1>8. Chain(e)' /\ C(e)' = C(e)
  BY <1>2, <1>6, <1>7, PositionsStay DEF SideInv
<1>9. C(e)' = told[e] + left[e] + 0
  BY <1>2, <1>4, <1>5, <1>8
<1>10. /\ conn' \in [Sides -> Seq(Nat)] /\ held' \in [Sides -> BOOLEAN] /\ out' \in [Sides -> Seq(Nat)]
       /\ flushed' \in [Sides -> BOOLEAN] /\ flushed'[Peer(e)] = flushed[Peer(e)] /\ flushed'[e]
  BY <1>1, <1>2, <1>6, Types
<1>11. left[e] \in 1..left[e]
  BY <1>2
<1>12. QED
  BY <1>1, <1>3, <1>4, <1>6, <1>7, <1>8, <1>9, <1>10, <1>11, WroteKeeps

LEMMA WriteStep ==
    ASSUME StreamInv, NEW e \in Sides, Write(e)
    PROVE  StreamInv'
<1>1. Writes(e)
  BY DEF Write
<1>2. CASE TlsWrite(e)
  BY <1>1, <1>2, TlsPutKeeps, TlsStuckKeeps, TlsEmptiedKeeps, TlsHandKeeps, TlsHoldKeeps, TlsDoneKeeps
     DEF TlsWrite
<1>3. CASE Webs /\ ~Rustls(e) /\ WsWrite(e)
  <2>1. (IF Rustls(e) THEN "empty" ELSE "flush") = "flush"
    BY <1>3
  <2>2. QED
    BY <1>1, <1>3, <2>1, FrameKeeps, FramePutKeeps, FrameDoneKeeps DEF WsWrite
<1>4. CASE Webs /\ Rustls(e) /\ Frame(e, "empty")
  <2>1. (IF Rustls(e) THEN "empty" ELSE "flush") = "empty"
    BY <1>4
  <2>2. QED
    BY <1>1, <1>4, <2>1, FrameKeeps
<1>5. CASE TcpWrite(e)
  BY <1>1, <1>5, TcpWriteKeeps
<1>6. CASE TlsBegin(e)
  BY <1>1, <1>6, TlsBeginKeeps
<1>7. WebSocketWrite(e) => Webs /\ ~Rustls(e) /\ WsWrite(e)
  BY DEF WebSocketWrite, Webs, Rustls
<1>8. WebSocketTlsWrite(e) => Webs /\ ~Rustls(e) /\ WsWrite(e)
  BY DEF WebSocketTlsWrite, Webs, Rustls
<1>9. WebSocketRustlsServerWrite(e) => Webs /\ Rustls(e) /\ (Frame(e, "empty") \/ TlsWrite(e))
  BY DEF WebSocketRustlsServerWrite, Webs, Rustls
<1>10. RustlsWrite(e) \/ RustlsServerWrite(e) => TlsBegin(e) \/ TlsWrite(e)
  BY DEF RustlsWrite, RustlsServerWrite
<1>11. QED
  BY <1>2, <1>3, <1>4, <1>5, <1>6, <1>7, <1>8, <1>9, <1>10 DEF Write
-----------------------------------------------------------------------------
(* The steps of a read().                                                  *)

LEMMA ReaderFacts ==
    ASSUME StreamInv, NEW e \in Sides, Reads(e)
    PROVE  /\ SideInv(e) /\ SideInv(Peer(e))
           /\ Peer(e) \in Sides /\ Peer(e) # e /\ Peer(Peer(e)) = e
           /\ part[e] \in 1..Parts /\ By(part[e]) = Peer(e)
           /\ told[e] \in Nat /\ left[e] \in Nat /\ left[e] >= 1 /\ left[e] <= Size(part[e])
           /\ H(Peer(e)) \in Nat /\ H(Peer(e)) + left[e] = Upto[Peer(e)][part[e]]
           /\ call[e] = "none" /\ flushed[e] /\ ~held[e] /\ conn[e] = <<>> /\ out[e] = <<>>
           /\ G(e) = told[e] /\ C(e) = told[e] /\ told[e] = Upto[e][part[e] - 1]
<1>1. /\ SideInv(e) /\ SideInv(Peer(e))
      /\ Peer(e) \in Sides /\ Peer(e) # e /\ Peer(Peer(e)) = e
  BY Peers DEF StreamInv
<1>2. ~Writes(e) /\ By(part[e]) = Peer(e)
  BY WriterReadsNot DEF Reads
<1>3. /\ part[e] \in 1..Parts /\ told[e] \in Nat /\ left[e] \in Nat
      /\ left[e] >= 1 /\ left[e] <= Size(part[e])
  BY PlaceFacts, ScriptFacts
<1>4. H(Peer(e)) \in Nat /\ H(Peer(e)) + left[e] = Upto[Peer(e)][part[e]]
  BY <1>1, Positions DEF SideInv, Place, StreamInv
<1>5. call[e] = "none" /\ flushed[e] /\ out[e] = <<>>
  BY <1>1, <1>2 DEF SideInv, Sender, FrameLeft
<1>6. ~held[e] /\ conn[e] = <<>> /\ C(e) = G(e) + 0
  BY <1>1, <1>2, <1>5 DEF SideInv, Sender, Owing
<1>7. G(e) = told[e] /\ told[e] = Upto[e][part[e] - 1]
  BY <1>1, <1>2, <1>5 DEF G, SideInv, Place
<1>8. C(e) = told[e]
  BY <1>3, <1>6, <1>7
<1>9. QED
  BY <1>1, <1>2, <1>3, <1>4, <1>5, <1>6, <1>7, <1>8

\* What a side has put on its way does not reach beyond the part it is at.
LEMMA SenderBound ==
    ASSUME StreamInv, NEW w \in Sides
    PROVE  /\ C(w) \in Nat
           /\ Writes(w) => C(w) <= Upto[w][part[w]]
           /\ ~Writes(w) => C(w) = Upto[w][part[w] - 1]
<1>1. SideInv(w) /\ C(w) \in Nat /\ told[w] \in Nat
  BY Positions DEF StreamInv
<1>2. CASE Writes(w)
  <2>1. Z(w) = Upto[w][part[w]]
    BY <1>1, <1>2 DEF SideInv, Place
  <2>2. G(w) \in Nat /\ Z(w) \in Nat /\ G(w) <= Z(w) /\ total[w] \in Nat
    BY <1>2, SenderFacts
  <2>3. CASE call[w] = "hand"
    <3>1. C(w) = G(w) + total[w] /\ total[w] <= Z(w) - G(w)
      BY <1>1, <2>3 DEF SideInv, Sender, Handing
    <3>2. C(w) <= Z(w)
      BY <2>2, <3>1
    <3>3. QED
      BY <1>1, <1>2, <2>1, <3>2
  <2>4. CASE call[w] # "hand"
    <3>1. C(w) = G(w) + (IF held[w] THEN 1 ELSE 0) /\ (held[w] => G(w) < Z(w))
      BY <1>1, <2>4 DEF SideInv, Sender, Owing
    <3>2. C(w) <= Z(w)
      BY <2>2, <3>1
    <3>3. QED
      BY <1>1, <1>2, <2>1, <3>2
  <2>5. QED
    BY <2>3, <2>4
<1>3. CASE ~Writes(w)
  <2>1. call[w] = "none" /\ flushed[w]
    BY <1>1, <1>3 DEF SideInv, Sender, FrameLeft
  <2>2. ~held[w] /\ C(w) = G(w) + 0
    BY <1>1, <1>3, <2>1 DEF SideInv, Sender, Owing
  <2>3. G(w) = told[w] /\ told[w] = Upto[w][part[w] - 1]
    BY <1>1, <1>3, <2>1 DEF G, SideInv, Place
  <2>4. QED
    BY <1>1, <1>3, <2>2, <2>3
<1>4. QED
  BY <1>2, <1>3

\* The last part before a turn: its writer has put nothing more on the way.
LEMMA Drained ==
    ASSUME StreamInv, NEW e \in Sides, Reads(e), By(part[e] + 1) # Peer(e)
    PROVE  C(Peer(e)) <= Upto[Peer(e)][part[e]]
<1> DEFINE w == Peer(e)
           p == part[e]
           q == part[w]
<1>1. /\ w \in Sides /\ w # e /\ Peer(w) = e /\ p \in 1..Parts /\ By(p) = w /\ Parts \in Nat
      /\ SideInv(w) /\ C(e) = Upto[e][p - 1]
  BY ReaderFacts, ScriptFacts
<1>2. q \in 1..(Parts + 1)
  BY <1>1, PlaceFacts
<1>3. /\ C(w) \in Nat
      /\ Writes(w) => C(w) <= Upto[w][q]
      /\ ~Writes(w) => C(w) = Upto[w][q - 1]
  BY <1>1, SenderBound
<1>4. CASE q <= p
  <2>1. q \in 0..p /\ q - 1 \in 0..p /\ p \in 0..Parts
    BY <1>1, <1>2, <1>4
  <2>2. /\ Upto[w][q] <= Upto[w][p] /\ Upto[w][q - 1] <= Upto[w][p]
        /\ Upto[w][q] \in Nat /\ Upto[w][p] \in Nat
    BY <1>1, <2>1, UptoGrows
  <2>3. QED
    BY <1>3, <2>2
<1>5. CASE q = p + 1
  <2>1. ~Writes(w)
    BY <1>5 DEF Writes
  <2>2. q - 1 = p /\ C(w) = Upto[w][p]
    BY <1>1, <1>3, <1>5, <2>1
  <2>3. QED
    BY <1>3, <2>2
<1>6. CASE q >= p + 2
  <2>1. p + 1 \in 1..Parts /\ (p + 1) - 1 = p
    BY <1>1, <1>2, <1>6
  <2>2. By(p + 1) = e
    BY <1>1, <2>1, ScriptFacts, Peers
  <2>3. Upto[e][p - 1] + 2 <= Upto[e][p + 1] /\ Upto[e][p - 1] \in Nat /\ Upto[e][p + 1] \in Nat
    <3>1. p - 1 \in 0..((p + 1) - 1) /\ p - 1 \in 0..p /\ p \in 0..Parts
          /\ p + 1 \in 0..Parts /\ p - 1 \in 0..(p + 1)
      BY <1>1, <2>1
    <3>2. Upto[e][p - 1] + 2 <= Upto[e][p + 1]
      BY <2>1, <2>2, <3>1, UptoBefore
    <3>3. QED
      BY <3>1, <3>2, UptoGrows
  <2>4. Upto[e][p + 1] <= Upto[e][q - 1] /\ Upto[e][q - 1] \in Nat
    <3>1. q - 1 \in 0..Parts /\ p + 1 \in 0..(q - 1)
      BY <1>1, <1>2, <1>6
    <3>2. QED
      BY <3>1, UptoGrows
  <2>5. H(e) \in Nat /\ H(e) <= C(e) /\ C(e) \in Nat
    BY Positions DEF StreamInv
  <2>6. H(e) >= Upto[e][q - 1]
    <3>1. CASE Reads(w)
      <4>1. /\ q \in 1..Parts /\ By(q) = e /\ left[w] \in Nat /\ left[w] <= Size(q)
            /\ H(e) + left[w] = Upto[e][q]
        BY <1>1, <3>1, ReaderFacts
      <4>2. Upto[e][q] = Upto[e][q - 1] + Size(q) /\ Size(q) \in Nat /\ Upto[e][q] \in Nat
        BY <4>1, UptoNext, ScriptFacts
      <4>3. QED
        BY <2>4, <2>5, <4>1, <4>2
    <3>2. CASE ~Reads(w)
      BY <1>1, <2>5, <3>2 DEF SideInv, Place
    <3>3. QED
      BY <3>1, <3>2
  <2>7. QED
    BY <1>1, <2>3, <2>4, <2>5, <2>6
<1>7. QED
  BY <1>1, <1>2, <1>4, <1>5, <1>6

\* A reader that got n bytes.
LEMMA ReadPlace ==
    ASSUME StreamInv, NEW e \in Sides, Reads(e), NEW n \in 1..left[e], GoOn(e, n),
           Webs => n = left[e], told' = told, UNCHANGED setup,
           H(Peer(e))' = H(Peer(e)) + n
    PROVE  /\ Place(e)'
           /\ (Reads(e))' \/ H(Peer(e))' >= C(Peer(e))
           /\ (Writes(e))' => Z(e)' >= told[e] + 2
           /\ n < left[e] => part'[e] = part[e] /\ (Reads(e))'
           /\ n = left[e] => part'[e] = part[e] + 1
<1> DEFINE w == Peer(e)
           p == part[e]
<1>1. /\ w \in Sides /\ w # e /\ p \in 1..Parts /\ By(p) = w /\ Parts \in Nat
      /\ told[e] \in Nat /\ left[e] \in Nat /\ H(w) \in Nat
      /\ H(w) + left[e] = Upto[w][p] /\ told[e] = Upto[e][p - 1] /\ left[e] <= Size(p)
  BY ReaderFacts, ScriptFacts
<1>2. /\ n < left[e] => part'[e] = p /\ left'[e] = left[e] - n /\ left'[e] >= 1
      /\ n = left[e] => part'[e] = p + 1 /\ left'[e] = Size(p + 1)
  BY <1>1, GoOnFacts
<1>3. Webs' = Webs /\ told'[e] = told[e] /\ H(w)' = H(w) + n
  BY DEF Webs, setup
<1>4. CASE n < left[e]
  <2>1. part'[e] = p /\ left'[e] = left[e] - n /\ left'[e] >= 1 /\ ~Webs
    BY <1>2, <1>4
  <2>2. (Reads(e))' /\ ~(Writes(e))'
    BY <1>1, <2>1 DEF Writes, Reads
  <2>3. H(w)' + left'[e] = Upto[w][p] /\ left'[e] <= Size(p)
    BY <1>1, <1>3, <2>1, ScriptFacts
  <2>4. Place(e)'
    BY <1>1, <1>3, <2>1, <2>2, <2>3 DEF Place
  <2>5. QED
    BY <1>1, <1>4, <2>1, <2>2, <2>4
<1>5. CASE n = left[e]
  <2>1. part'[e] = p + 1 /\ left'[e] = Size(p + 1) /\ (p + 1) - 1 = p
    BY <1>1, <1>2, <1>5
  <2>2. H(w)' = Upto[w][p] /\ H(w)' \in Nat
    BY <1>1, <1>3, <1>5
  <2>3. told'[e] = Upto[e][p]
    BY <1>1, <1>3, UptoNext
  <2>4. (Reads(e))' \/ H(w)' >= C(w)
    <3>1. CASE By(p + 1) = w
      BY <2>1, <3>1 DEF Reads
    <3>2. CASE By(p + 1) # w
      <4>1. C(w) <= Upto[w][p] /\ C(w) \in Nat
        BY <1>1, <3>2, Drained, SenderBound
      <4>2. QED
        BY <2>2, <4>1
    <3>3. QED
      BY <3>1, <3>2
  <2>5. CASE p + 1 \in 1..Parts
    <3>1. /\ By(p + 1) = e => Upto[e][p + 1] = Upto[e][p] + Size(p + 1)
          /\ By(p + 1) = w => Upto[w][p + 1] = Upto[w][p] + Size(p + 1)
          /\ Size(p + 1) \in Nat /\ Size(p + 1) >= 2
      BY <1>1, <2>1, <2>5, UptoNext, ScriptFacts
    <3>2. Place(e)'
      BY <1>1, <1>3, <2>1, <2>2, <2>3, <3>1 DEF Place, Writes, Reads, Z
    <3>3. Z(e)' >= told[e] + 2
      BY <1>1, <1>3, <2>1, <3>1 DEF Z
    <3>4. QED
      BY <1>5, <2>1, <2>4, <3>2, <3>3
  <2>6. CASE p + 1 = Parts + 1
    <3>1. By(part'[e]) = "nobody" /\ Size(part'[e]) = 0 /\ "nobody" \notin Sides
      BY <2>1, <2>6, ScriptFacts
    <3>2. ~(Writes(e))' /\ ~(Reads(e))'
      BY <1>1, <3>1 DEF Writes, Reads
    <3>3. Place(e)'
      BY <1>1, <2>1, <2>2, <2>3, <2>6, <3>1, <3>2 DEF Place
    <3>4. QED
      BY <1>5, <2>1, <2>4, <3>2, <3>3
  <2>7. QED
    BY <1>1, <2>5, <2>6
<1>6. QED
  BY <1>1, <1>4, <1>5

\* A step of the reading side: the bytes up to h are read, those up to a taken in.
LEMMA ReadKeeps ==
    ASSUME StreamInv, NEW e \in Sides, Reads(e),
           UNCHANGED <<setup, told, call, total, conn, held, frameVars, reset>>,
           NEW h \in Nat, NEW a \in Nat,
           H(Peer(e)) <= h, h <= a, A(Peer(e)) <= a, a <= B(Peer(e)),
           heard' = [heard EXCEPT ![e] = Run(0, h)],
           temp' = [temp EXCEPT ![e] = Run(h, a)],
           net' = [net EXCEPT ![e] = Run(a, B(Peer(e)))],
           awake' \in [Sides -> BOOLEAN], awake[Peer(e)] => awake'[Peer(e)],
           kind = "tcp" => h = a,
           \/ h = H(Peer(e)) /\ UNCHANGED <<part, left>>
           \/ \E n \in 1..left[e] : h = H(Peer(e)) + n /\ GoOn(e, n) /\ (Webs => n = left[e]),
           awake'[e] \/ h = a \/ (Webs /\ (Whole(e, temp[e]))' = {})
    PROVE  StreamInv'
<1> DEFINE w == Peer(e)
<1>1. /\ w \in Sides /\ w # e /\ Peer(w) = e /\ \A f \in Sides : f = e \/ f = w
      /\ SideInv(e) /\ SideInv(w) /\ part[e] <= Parts /\ Parts \in Nat
      /\ call[e] = "none" /\ flushed[e] /\ ~held[e] /\ conn[e] = <<>> /\ out[e] = <<>>
      /\ G(e) = told[e] /\ C(e) = told[e] /\ told[e] \in Nat
  BY ReaderFacts, ScriptFacts, Peers
<1>2. /\ H(w) \in Nat /\ B(w) \in Nat /\ C(w) \in Nat /\ B(w) <= C(w) /\ A(w) \in Nat
      /\ A(w) <= B(w) /\ H(w) <= A(w)
  BY <1>1, Positions DEF StreamInv
<1>3. /\ kind' = kind /\ room' = room /\ told' = told /\ call' = call /\ total' = total
      /\ conn' = conn /\ held' = held /\ out' = out /\ flushed' = flushed /\ ends' = ends
      /\ reset' = reset
  BY DEF setup, frameVars
<1>4. 0 <= h
  OBVIOUS
<1>5. /\ Run(0, h) \in Seq(Nat) /\ Run(h, a) \in Seq(Nat) /\ Run(a, B(w)) \in Seq(Nat)
      /\ Len(Run(a, B(w))) = B(w) - a
  BY <1>2, <1>4, RunIsSeq
<1>6. /\ heard' \in [Sides -> Seq(Nat)] /\ heard'[e] = Run(0, h) /\ heard'[w] = heard[w]
      /\ temp' \in [Sides -> Seq(Nat)] /\ temp'[e] = Run(h, a) /\ temp'[w] = temp[w]
      /\ net' \in [Sides -> Seq(Nat)] /\ net'[e] = Run(a, B(w)) /\ net'[w] = net[w]
  BY <1>1, <1>5, Types
<1>7. Chain(w)' /\ H(w)' = h /\ A(w)' = a /\ C(w)' = C(w)
  <2>1. conn'[w] = Run(B(w), C(w))
    BY <1>1, <1>3 DEF SideInv, Chain
  <2>2. QED
    BY <1>1, <1>2, <1>6, <2>1, ChainNext
<1>8. /\ part' \in [Sides -> 1..(Parts + 1)] /\ left' \in [Sides -> Nat]
      /\ part'[w] = part[w] /\ left'[w] = left[w] /\ part'[e] \in {part[e], part[e] + 1}
      /\ Place(e)' /\ ((Reads(e))' \/ h >= C(w)) /\ ((Writes(e))' => Z(e)' >= told[e] + 2)
  <2>1. CASE h = H(w) /\ UNCHANGED <<part, left>>
    <3>1. part' = part /\ left' = left /\ H(w)' = H(w)
      BY <1>7, <2>1
    <3>2. (Reads(e))' /\ ~(Writes(e))'
      BY <3>1, WriterReadsNot DEF Reads, Writes
    <3>3. Place(e)'
      BY <1>1, <1>3, <3>1, <3>2, WriterReadsNot DEF SideInv, Place, Z, Webs
    <3>4. part' \in [Sides -> 1..(Parts + 1)] /\ left' \in [Sides -> Nat]
      BY <3>1, Types
    <3>5. QED
      BY <1>1, <3>1, <3>2, <3>3, <3>4
  <2>2. CASE \E n \in 1..left[e] : h = H(w) + n /\ GoOn(e, n) /\ (Webs => n = left[e])
    <3>1. PICK n \in 1..left[e] : h = H(w) + n /\ GoOn(e, n) /\ (Webs => n = left[e])
      BY <2>2
    <3>2. H(w)' = H(w) + n
      BY <1>7, <3>1
    <3>3. /\ Place(e)' /\ ((Reads(e))' \/ H(w)' >= C(w)) /\ ((Writes(e))' => Z(e)' >= told[e] + 2)
          /\ (n < left[e] => part'[e] = part[e]) /\ (n = left[e] => part'[e] = part[e] + 1)
      BY <1>3, <3>1, <3>2, ReadPlace
    <3>4. /\ part' \in [Sides -> 1..(Parts + 1)] /\ left' \in [Sides -> Nat]
          /\ part'[w] = part[w] /\ left'[w] = left[w]
      BY <1>1, <3>1, GoOnFacts
    <3>5. n < left[e] \/ n = left[e]
      BY Types
    <3>6. QED
      BY <1>7, <3>3, <3>4, <3>5
  <2>3. QED
    BY <2>1, <2>2
<1>9. /\ Webs' = Webs /\ (Rustls(e))' = Rustls(e) /\ (Rustls(w))' = Rustls(w)
      /\ (Writes(w))' = Writes(w) /\ (Reads(w))' = Reads(w) /\ G(e)' = told[e]
  BY <1>1, <1>3, <1>8 DEF Webs, Rustls, Writes, Reads, G
<1>10. H(e)' = H(e) /\ A(e)' = A(e) /\ B(e)' = B(e) /\ C(e)' = C(e) /\ Chain(e)'
  <2>1. H(e)' = H(e) /\ A(e)' = A(e) /\ B(e)' = B(e) /\ C(e)' = C(e)
    BY <1>3, <1>6 DEF H, A, B, C
  <2>2. QED
    BY <1>1, <1>3, <1>6, <2>1 DEF SideInv, Chain
<1>11. Sender(e)'
  <2>1. FrameLeft(e)'
    BY <1>1, <1>3 DEF FrameLeft
  <2>2. (Writes(e))' => Z(e)' - G(e)' >= 2
    <3>1. Z(e)' \in Nat
      BY <1>1, <1>3, <1>8 DEF Z
    <3>2. QED
      BY <1>1, <1>8, <1>9, <3>1
  <2>3. C(e)' = G(e)' + 0
    BY <1>1, <1>9, <1>10
  <2>4. Owing(e)'
    BY <1>1, <1>3, <1>9, <2>2, <2>3 DEF Owing
  <2>5. QED
    BY <1>1, <1>3, <2>1, <2>4 DEF Sender
<1>12. Framing(e)'
  <2>1. CASE Webs
    <3>1. \A j \in 1..Parts : By(j) = e =>
             ((j < part[e] \/ (j = part[e] /\ ~flushed[e]))
                <=> (j < part'[e] \/ (j = part'[e] /\ ~flushed'[e])))
      <4>1. By(part[e]) # e /\ part[e] \in 1..Parts
        BY <1>1, ReaderFacts
      <4>2. QED
        BY <1>1, <1>3, <1>8, <4>1
    <3>2. {j \in 1..Parts : By(j) = e /\ (j < part[e] \/ (j = part[e] /\ ~flushed[e]))}
             = {j \in 1..Parts : By(j) = e /\ (j < part'[e] \/ (j = part'[e] /\ ~flushed'[e]))}
      BY <3>1
    <3>3. QED
      BY <1>1, <1>3, <2>1, <3>2 DEF SideInv, Framing
  <2>2. QED
    BY <1>9, <2>1 DEF Framing
<1>13. Quiet(e)'
  <2>1. h = a => temp'[e] = <<>>
    BY <1>6, RunEmpty
  <2>2. h >= C(w) => h = a
    BY <1>2
  <2>3. QED
    BY <1>3, <1>8, <1>9, <2>1, <2>2 DEF Quiet
<1>14. Sender(w)'
  <2>1. G(w)' = G(w) /\ Z(w)' = Z(w) /\ C(w)' = C(w)
    BY <1>3, <1>7, <1>8 DEF G, Z
  <2>2. Sender(w)
    BY <1>1 DEF SideInv
  <2>3. QED
    BY <1>3, <1>8, <1>9, <2>1, <2>2 DEF Sender, FrameLeft, Handing, Owing
<1>15. Place(w)'
  BY <1>1, <1>3, <1>8, <1>9, <1>10 DEF SideInv, Place, Z
<1>16. Framing(w)'
  BY <1>1, <1>3, <1>8, <1>9 DEF SideInv, Framing
<1>17. Quiet(w)'
  <2>1. (Whole(w, temp[w]))' = Whole(w, temp[w])
    BY <1>3, <1>6 DEF Whole
  <2>2. QED
    BY <1>1, <1>3, <1>6, <1>9, <2>1 DEF SideInv, Quiet
<1>18. TypeOK'
  <2>1. /\ kind' \in Kinds /\ room' \in Rooms /\ reset' \in BOOLEAN /\ told' \in [Sides -> Nat]
        /\ call' \in [Sides -> {"none", "empty", "hand", "flush"}] /\ total' \in [Sides -> Nat]
        /\ conn' \in [Sides -> Seq(Nat)] /\ held' \in [Sides -> BOOLEAN]
        /\ out' \in [Sides -> Seq(Nat)] /\ flushed' \in [Sides -> BOOLEAN]
        /\ ends' \in [Sides -> SUBSET Nat] /\ room \in Nat
    BY <1>3, StreamsAssumption DEF StreamInv, TypeOK, StreamsAssumption
  <2>2. Len(net'[e]) <= room' /\ Len(net'[w]) <= room'
    <3>1. Len(net[e]) <= room /\ Len(net[w]) <= room /\ Len(net[e]) = B(w) - A(w)
      BY <1>1, Positions DEF StreamInv, TypeOK
    <3>2. A(w) <= a
      OBVIOUS
    <3>3. Len(net'[e]) = B(w) - a
      BY <1>5, <1>6
    <3>4. QED
      BY <1>2, <1>3, <1>6, <2>1, <3>1, <3>2, <3>3
  <2>3. \A f \in Sides : Len(net'[f]) <= room'
    BY <1>1, <2>2
  <2>4. QED
    BY <1>6, <1>8, <2>1, <2>3 DEF TypeOK, Parts
<1>19. NeverReset'
  <2>1. reset = FALSE
    BY Zenon DEF StreamInv, TypeOK, NeverReset
  <2>2. reset' = FALSE
    BY <1>3, <2>1
  <2>3. QED
    BY <2>2, Zenon DEF NeverReset
<1>20. SideInv(e)' /\ SideInv(w)'
  BY <1>7, <1>8, <1>10, <1>11, <1>12, <1>13, <1>14, <1>15, <1>16, <1>17 DEF SideInv
<1>21. QED
  BY <1>1, <1>18, <1>19, <1>20 DEF StreamInv

\* The reader's end of the chain.
LEMMA ReaderChain ==
    ASSUME StreamInv, NEW e \in Sides, Reads(e)
    PROVE  LET w == Peer(e) IN
           /\ heard[e] = Run(0, H(w)) /\ temp[e] = Run(H(w), A(w)) /\ net[e] = Run(A(w), B(w))
           /\ H(w) \in Nat /\ A(w) \in Nat /\ B(w) \in Nat /\ H(w) <= A(w) /\ A(w) <= B(w)
           /\ Len(temp[e]) = A(w) - H(w) /\ Len(net[e]) = B(w) - A(w)
           /\ left[e] \in Nat /\ left[e] >= 1
<1>1. Peer(e) \in Sides /\ Peer(Peer(e)) = e /\ SideInv(Peer(e)) /\ left[e] \in Nat /\ left[e] >= 1
  BY ReaderFacts
<1>2. QED
  BY <1>1, Positions DEF SideInv, Chain, StreamInv

LEMMA TakeFacts ==
    ASSUME StreamInv, NEW e \in Sides, NEW n, NEW goesOn \in BOOLEAN, Take(e, n, goesOn)
    PROVE  /\ awake' \in [Sides -> BOOLEAN] /\ awake'[e] = goesOn
           /\ awake[Peer(e)] => awake'[Peer(e)]
<1> DEFINE woken == awake[Peer(e)] \/ (n > 0 /\ Writes(Peer(e)))
<1>1. awake \in [Sides -> BOOLEAN] /\ Peer(e) \in Sides /\ Peer(e) # e
  BY Types, Peers
<1>2. awake' = [[awake EXCEPT ![e] = goesOn] EXCEPT ![Peer(e)] = woken]
  BY <1>1 DEF Take
<1>3. woken \in BOOLEAN /\ (awake[Peer(e)] => woken)
  OBVIOUS
<1> HIDE DEF woken
<1>4. QED
  BY <1>1, <1>2, <1>3

\* A read() that takes the bytes up to a from the socket and gives those up to h.
LEMMA GotKeeps ==
    ASSUME StreamInv, NEW e \in Sides, Reads(e),
           UNCHANGED <<setup, told, call, total, conn, held, frameVars, reset>>,
           NEW h \in Nat, NEW a \in Nat,
           H(Peer(e)) + 1 <= h, h <= H(Peer(e)) + left[e], h <= a,
           A(Peer(e)) <= a, a <= B(Peer(e)),
           Got(e, Run(H(Peer(e)), h)),
           temp' = [temp EXCEPT ![e] = Run(h, a)],
           net' = [net EXCEPT ![e] = Run(a, B(Peer(e)))],
           awake' \in [Sides -> BOOLEAN], awake[Peer(e)] => awake'[Peer(e)],
           kind = "tcp" => h = a, Webs => h = H(Peer(e)) + left[e],
           awake'[e] \/ h = a
    PROVE  StreamInv'
<1>1. /\ heard[e] = Run(0, H(Peer(e))) /\ H(Peer(e)) \in Nat /\ left[e] \in Nat
  BY ReaderChain
<1> DEFINE n == h - H(Peer(e))
<1>2. n \in 1..left[e] /\ h = H(Peer(e)) + n /\ H(Peer(e)) <= h /\ (Webs => n = left[e])
  BY <1>1
<1>3. Len(Run(H(Peer(e)), h)) = n
  BY <1>1, <1>2, RunIsSeq
<1>4. Run(0, H(Peer(e))) \o Run(H(Peer(e)), h) = Run(0, h)
  <2>1. 0 \in Nat /\ 0 <= H(Peer(e))
    BY <1>1
  <2>2. QED
    BY <1>1, <1>2, <2>1, RunConcat
<1>5. heard' = [heard EXCEPT ![e] = Run(0, h)]
  BY <1>1, <1>4 DEF Got
<1>6. GoOn(e, n)
  BY <1>3 DEF Got
<1> HIDE DEF n
<1>7. QED
  BY <1>1, <1>2, <1>5, <1>6, ReadKeeps

\* A read() that blocked, with what came in up to a.
LEMMA BlockedReadKeeps ==
    ASSUME StreamInv, NEW e \in Sides, Reads(e),
           UNCHANGED <<setup, told, call, total, conn, held, frameVars, reset>>,
           ReadBlocked, NEW a \in Nat, A(Peer(e)) <= a, a <= B(Peer(e)),
           temp' = [temp EXCEPT ![e] = Run(H(Peer(e)), a)],
           net' = [net EXCEPT ![e] = Run(a, B(Peer(e)))],
           awake' \in [Sides -> BOOLEAN], awake[Peer(e)] => awake'[Peer(e)],
           a = H(Peer(e)) \/ (Webs /\ (Whole(e, temp[e]))' = {})
    PROVE  StreamInv'
<1>1. /\ heard[e] = Run(0, H(Peer(e))) /\ H(Peer(e)) \in Nat
      /\ A(Peer(e)) \in Nat /\ H(Peer(e)) <= A(Peer(e))
  BY ReaderChain
<1>2. H(Peer(e)) <= H(Peer(e)) /\ H(Peer(e)) <= a
  BY <1>1
<1>3. heard' = [heard EXCEPT ![e] = Run(0, H(Peer(e)))] /\ UNCHANGED <<part, left>>
  BY <1>1, Types DEF ReadBlocked
<1>4. kind = "tcp" => H(Peer(e)) = a
  BY DEF Webs
<1>5. QED
  BY <1>1, <1>2, <1>3, <1>4, ReadKeeps

LEMMA TcpReadKeeps ==
    ASSUME StreamInv, NEW e \in Sides, Reads(e), TcpRead(e)
    PROVE  StreamInv'
<1> DEFINE w == Peer(e)
<1>1. /\ kind = "tcp"
      /\ UNCHANGED <<setup, told, call, total, conn, held, frameVars, temp, reset>>
  BY DEF TcpRead
<1>2. temp[e] = <<>>
  BY <1>1 DEF StreamInv, SideInv, Quiet
<1>3. /\ H(w) \in Nat /\ A(w) = H(w) /\ B(w) \in Nat /\ A(w) <= B(w) /\ net[e] = Run(H(w), B(w))
      /\ Len(net[e]) = B(w) - H(w) /\ left[e] \in Nat
  BY <1>2, ReaderChain, EmptySeq
<1>4. ~Webs
  BY <1>1 DEF Webs
<1>5. \A h \in Nat : temp' = [temp EXCEPT ![e] = Run(h, h)]
  <2>1. \A h \in Nat : Run(h, h) = <<>>
    BY RunEmpty
  <2>2. QED
    BY <1>1, <1>2, <2>1, Types
<1>6. ASSUME NEW n \in 1..Least(left[e], Len(net[e])),
             Got(e, Front(net[e], n)), Take(e, n, TRUE)
      PROVE  StreamInv'
  <2> DEFINE h == H(w) + n
  <2>1. n \in Nat /\ n >= 1 /\ n <= left[e] /\ n <= B(w) - H(w)
    <3>1. B(w) - H(w) \in Nat
      BY <1>3
    <3>2. Least(left[e], Len(net[e])) \in Nat /\ Least(left[e], Len(net[e])) <= left[e]
          /\ Least(left[e], Len(net[e])) <= B(w) - H(w)
      BY <1>3, <3>1, LeastFacts
    <3>3. QED
      BY <1>3, <3>1, <3>2
  <2>2. Front(net[e], n) = Run(H(w), h) /\ After(net[e], n) = Run(h, B(w))
    BY <1>3, <2>1, RunParts
  <2>3. h \in Nat /\ H(w) + 1 <= h /\ h <= H(w) + left[e] /\ h <= h /\ A(w) <= h /\ h <= B(w)
    BY <1>3, <2>1
  <2> HIDE DEF h
  <2>4. net' = [net EXCEPT ![e] = Run(h, B(w))] /\ Got(e, Run(H(w), h))
    BY <1>6, <2>2 DEF Take
  <2>5. /\ awake' \in [Sides -> BOOLEAN] /\ awake'[e] = TRUE /\ (awake[w] => awake'[w])
    BY <1>6, TakeFacts
  <2>6. QED
    BY <1>1, <1>4, <1>5, <2>3, <2>4, <2>5, GotKeeps
<1>7. CASE net[e] = <<>> /\ ReadBlocked /\ Take(e, 0, FALSE)
  <2>1. H(w) = B(w)
    BY <1>3, <1>7, EmptySeq
  <2>2. After(net[e], 0) = Run(H(w), B(w))
    <3>1. 0 \in Nat /\ 0 <= B(w) - H(w) /\ H(w) + 0 = H(w)
      BY <1>3
    <3>2. After(Run(H(w), B(w)), 0) = Run(H(w) + 0, B(w))
      BY <1>3, <3>1, RunParts
    <3>3. QED
      BY <1>3, <3>1, <3>2
  <2>3. net' = [net EXCEPT ![e] = Run(H(w), B(w))]
    BY <1>7, <2>2 DEF Take
  <2>4. awake' \in [Sides -> BOOLEAN] /\ (awake[w] => awake'[w])
    BY <1>7, TakeFacts
  <2>5. A(w) <= H(w) /\ H(w) <= B(w)
    BY <1>3
  <2>6. QED
    BY <1>1, <1>3, <1>5, <1>7, <2>3, <2>4, <2>5, BlockedReadKeeps
<1>8. QED
  BY <1>6, <1>7 DEF TcpRead

LEMMA TlsReadKeeps ==
    ASSUME StreamInv, NEW e \in Sides, Reads(e), kind = "tls", TlsRead(e)
    PROVE  StreamInv'
<1> DEFINE w == Peer(e)
<1>1. /\ H(w) \in Nat /\ A(w) \in Nat /\ B(w) \in Nat /\ H(w) <= A(w) /\ A(w) <= B(w)
      /\ temp[e] = Run(H(w), A(w)) /\ net[e] = Run(A(w), B(w))
      /\ Len(temp[e]) = A(w) - H(w) /\ Len(net[e]) = B(w) - A(w)
      /\ left[e] \in Nat /\ ~Webs /\ conn[e] = <<>> /\ Peer(e) \in Sides
  BY ReaderChain, ReaderFacts DEF Webs
<1>2. PICK b \in 1..left[e] : TlsReadKept(e, b) \/ TlsReadNew(e, b) \/ TlsReadDry(e, b)
  BY DEF TlsRead
<1>3. UNCHANGED <<setup, told, call, total, held, frameVars, reset>>
  BY DEF TlsRead
<1>4. b \in Nat /\ b >= 1 /\ b <= left[e]
  BY <1>1, <1>2
<1>5. CASE TlsReadKept(e, b)
  <2> DEFINE h == H(w) + b
  <2>1. /\ Len(temp[e]) > b /\ Got(e, Front(temp[e], b)) /\ Take(e, 0, TRUE) /\ conn' = conn
        /\ temp' = [temp EXCEPT ![e] = After(temp[e], b)]
    BY <1>5 DEF TlsReadKept
  <2>2. b <= A(w) - H(w)
    BY <1>1, <1>4, <2>1
  <2>3. Front(temp[e], b) = Run(H(w), h) /\ After(temp[e], b) = Run(h, A(w))
    <3>1. Front(Run(H(w), A(w)), b) = Run(H(w), H(w) + b)
          /\ After(Run(H(w), A(w)), b) = Run(H(w) + b, A(w))
      <4>1. H(w) \in Nat /\ A(w) \in Nat
        BY <1>1
      <4>2. QED
        BY <1>4, <2>2, <4>1, RunParts
    <3>2. QED
      BY <1>1, <3>1
  <2>4. h \in Nat /\ H(w) + 1 <= h /\ h <= H(w) + left[e] /\ h <= A(w) /\ A(w) <= A(w)
    BY <1>1, <1>4, <2>2
  <2>5. After(net[e], 0) = net[e]
    <3>1. 0 \in Nat /\ 0 <= B(w) - A(w) /\ A(w) + 0 = A(w)
      BY <1>1
    <3>2. After(Run(A(w), B(w)), 0) = Run(A(w) + 0, B(w))
      BY <1>1, <3>1, RunParts
    <3>3. QED
      BY <1>1, <3>1, <3>2
  <2>6. net' = [net EXCEPT ![e] = Run(A(w), B(w))]
    BY <1>1, <2>1, <2>5 DEF Take
  <2>7. /\ awake' \in [Sides -> BOOLEAN] /\ awake'[e] = TRUE /\ (awake[w] => awake'[w])
    BY <2>1, TakeFacts
  <2> HIDE DEF h
  <2>8. QED
    BY <1>1, <1>3, <2>1, <2>3, <2>4, <2>6, <2>7, GotKeeps
<1>6. CASE TlsReadNew(e, b)
  <2>1. PICK n \in 1..Len(net[e]) :
          LET all == temp[e] \o Front(net[e], n)
              k   == Least(b, Len(all))
          IN  /\ Got(e, Front(all, k))
              /\ temp' = [temp EXCEPT ![e] = After(all, k)]
              /\ Take(e, n, TRUE)
    BY <1>6 DEF TlsReadNew
  <2> DEFINE a == A(w) + n
             all == temp[e] \o Front(net[e], n)
             k == Least(b, Len(all))
             h == H(w) + k
  <2>2. n \in Nat /\ n >= 1 /\ n <= B(w) - A(w)
    BY <1>1, <2>1
  <2>3. Front(net[e], n) = Run(A(w), a) /\ After(net[e], n) = Run(a, B(w))
    <3>1. Front(Run(A(w), B(w)), n) = Run(A(w), A(w) + n)
          /\ After(Run(A(w), B(w)), n) = Run(A(w) + n, B(w))
      <4>1. A(w) \in Nat /\ B(w) \in Nat
        BY <1>1
      <4>2. QED
        BY <2>2, <4>1, RunParts
    <3>2. QED
      BY <1>1, <3>1
  <2>4. a \in Nat /\ A(w) <= a /\ a <= B(w) /\ H(w) <= a /\ a - H(w) >= 1
    BY <1>1, <2>2
  <2>5. /\ Got(e, Front(all, k)) /\ temp' = [temp EXCEPT ![e] = After(all, k)]
        /\ Take(e, n, TRUE) /\ conn' = conn
    BY <1>6, <2>1 DEF TlsReadNew
  <2>6. net' = [net EXCEPT ![e] = Run(a, B(w))]
    BY <2>3, <2>5 DEF Take
  <2> HIDE DEF a
  <2>7. all = Run(H(w), a)
    <3>1. Run(H(w), A(w)) \o Run(A(w), a) = Run(H(w), a)
      <4>1. H(w) \in Nat /\ A(w) \in Nat /\ H(w) <= A(w)
        BY <1>1
      <4>2. QED
        BY <2>4, <4>1, RunConcat
    <3>2. QED
      BY <1>1, <2>3, <3>1
  <2>8. Len(all) = a - H(w)
    BY <1>1, <2>4, <2>7, RunIsSeq
  <2>9. k \in Nat /\ k >= 1 /\ k <= left[e] /\ k <= a - H(w)
    <3>1. a - H(w) \in Nat
      BY <1>1, <2>4
    <3>2. k \in Nat /\ k <= b /\ k <= a - H(w) /\ k \in {b, a - H(w)}
      BY <1>4, <2>8, <3>1, LeastFacts
    <3> HIDE DEF k
    <3>3. QED
      BY <1>1, <1>4, <2>4, <3>1, <3>2
  <2> HIDE DEF k, all
  <2>10. Front(all, k) = Run(H(w), h) /\ After(all, k) = Run(h, a)
    <3>1. Front(Run(H(w), a), k) = Run(H(w), H(w) + k)
          /\ After(Run(H(w), a), k) = Run(H(w) + k, a)
      <4>1. H(w) \in Nat
        BY <1>1
      <4>2. QED
        BY <2>4, <2>9, <4>1, RunParts
    <3>2. QED
      BY <2>7, <3>1
  <2>11. h \in Nat /\ H(w) + 1 <= h /\ h <= H(w) + left[e] /\ h <= a
    <3>1. H(w) \in Nat /\ left[e] \in Nat /\ a \in Nat
      BY <1>1, <2>4
    <3>2. QED
      BY <2>9, <3>1
  <2> HIDE DEF h
  <2>12. Got(e, Run(H(w), h)) /\ temp' = [temp EXCEPT ![e] = Run(h, a)]
    BY <2>5, <2>10
  <2>13. /\ awake' \in [Sides -> BOOLEAN] /\ awake'[e] = TRUE /\ (awake[w] => awake'[w])
    BY <2>5, TakeFacts
  <2>14. QED
    BY <1>1, <1>3, <2>4, <2>5, <2>6, <2>11, <2>12, <2>13, GotKeeps
<1>7. CASE TlsReadDry(e, b)
  <2> DEFINE n == Least(Space(e), Len(conn[e]))
  <2>1. n = 0
    BY <1>1, EmptySeq, SpaceIsNat DEF Least
  <2>2. /\ Front(conn[e], n) = <<>> /\ After(conn[e], n) = <<>>
    <3>1. 0 \in Nat /\ 0 <= 0 /\ 0 - 0 = 0 /\ 0 + 0 = 0
      OBVIOUS
    <3>2. Run(0, 0) = <<>>
      BY <3>1, RunEmpty
    <3>3. Front(Run(0, 0), 0) = Run(0, 0 + 0) /\ After(Run(0, 0), 0) = Run(0 + 0, 0)
      BY <3>1, RunParts
    <3>4. QED
      BY <1>1, <2>1, <3>1, <3>2, <3>3
  <2>3. /\ Len(temp[e]) <= b /\ net[e] = <<>>
        /\ conn' = [conn EXCEPT ![e] = After(conn[e], n)]
        /\ IF temp[e] # <<>> /\ (n > 0 \/ conn[e] = <<>>)
           THEN /\ Got(e, temp[e])
                /\ temp' = [temp EXCEPT ![e] = <<>>]
                /\ Send(e, Front(conn[e], n), TRUE)
           ELSE /\ ReadBlocked
                /\ UNCHANGED temp
                /\ Send(e, Front(conn[e], n), FALSE)
    BY <1>7 DEF TlsReadDry
  <2> HIDE DEF n
  <2>4. conn' = conn
    BY <1>1, <2>2, <2>3, Types
  <2>5. A(w) = B(w)
    BY <1>1, <2>3, EmptySeq
  <2>6. ASSUME NEW goesOn \in BOOLEAN, Send(e, Front(conn[e], n), goesOn)
        PROVE  /\ net' = [net EXCEPT ![e] = Run(A(w), B(w))]
               /\ awake' \in [Sides -> BOOLEAN] /\ (awake[w] => awake'[w])
    <3>1. net' = net
      BY <2>2, <2>6, NetStays DEF Send
    <3>2. QED
      BY <1>1, <2>6, <3>1, AwakeFacts, Types
  <2>7. A(w) <= A(w)
    BY <1>1
  <2>8. CASE temp[e] # <<>>
    <3>1. /\ Got(e, temp[e]) /\ temp' = [temp EXCEPT ![e] = <<>>]
          /\ Send(e, Front(conn[e], n), TRUE)
      BY <1>1, <2>3, <2>8
    <3>2. H(w) + 1 <= A(w) /\ A(w) <= H(w) + left[e]
      <4>1. H(w) # A(w)
        BY <1>1, <2>8, RunEmpty
      <4>2. A(w) - H(w) <= left[e]
        BY <1>1, <1>4, <2>3
      <4>3. QED
        BY <1>1, <4>1, <4>2
    <3>3. temp' = [temp EXCEPT ![e] = Run(A(w), A(w))] /\ Got(e, Run(H(w), A(w)))
      <4>1. Run(A(w), A(w)) = <<>>
        BY <1>1, RunEmpty
      <4>2. QED
        BY <1>1, <3>1, <4>1
    <3>4. /\ net' = [net EXCEPT ![e] = Run(A(w), B(w))]
          /\ awake' \in [Sides -> BOOLEAN] /\ (awake[w] => awake'[w])
      BY <2>6, <3>1
    <3>5. QED
      BY <1>1, <1>3, <2>4, <2>7, <3>2, <3>3, <3>4, GotKeeps
  <2>9. CASE temp[e] = <<>>
    <3>1. /\ ReadBlocked /\ temp' = temp /\ Send(e, Front(conn[e], n), FALSE)
      BY <2>3, <2>9
    <3>2. H(w) = A(w)
      BY <1>1, <2>9, RunEmpty
    <3>3. temp' = [temp EXCEPT ![e] = Run(H(w), A(w))]
      BY <1>1, <3>1, Types
    <3>4. /\ net' = [net EXCEPT ![e] = Run(A(w), B(w))]
          /\ awake' \in [Sides -> BOOLEAN] /\ (awake[w] => awake'[w])
      BY <2>6, <3>1
    <3>5. QED
      BY <1>1, <1>3, <2>4, <2>7, <3>1, <3>2, <3>3, <3>4, BlockedReadKeeps
  <2>10. QED
    BY <2>8, <2>9
<1>8. QED
  BY <1>2, <1>5, <1>6, <1>7

\* A frame that is whole is what is left of the part that is read.
LEMMA FrameIsPart ==
    ASSUME StreamInv, NEW e \in Sides, Reads(e), Webs, NEW a \in Nat, H(Peer(e)) <= a,
           NEW f \in Whole(e, Run(H(Peer(e)), a)),
           \A i \in Whole(e, Run(H(Peer(e)), a)) : f <= i
    PROVE  f = left[e] /\ f \in Nat /\ f <= a - H(Peer(e))
<1> DEFINE w == Peer(e)
           p == part[e]
           s == Run(H(w), a)
<1>1. /\ w \in Sides /\ p \in 1..Parts /\ By(p) = w /\ left[e] \in Nat /\ left[e] >= 1
      /\ H(w) \in Nat /\ H(w) + left[e] = Upto[w][p] /\ left[e] = Size(p)
      /\ Framing(w) /\ Parts \in Nat
  BY ReaderFacts, PlaceFacts, ScriptFacts DEF SideInv
<1>2. Len(s) = a - H(w) /\ \A i \in 1..(a - H(w)) : s[i] = H(w) + i
  BY <1>1, RunIsSeq, RunBytes
<1>3. f \in 1..(a - H(w)) /\ H(w) + f \in ends[w]
  BY <1>2 DEF Whole
<1>4. H(w) = Upto[w][p - 1]
  BY <1>1, UptoNext
<1>5. PICK k \in 1..Parts : /\ By(k) = w /\ H(w) + f = Upto[w][k]
                            /\ k < part[w] \/ (k = part[w] /\ ~flushed[w])
  BY <1>1, <1>3 DEF Framing
<1>6. k >= p
  <2>1. SUFFICES ASSUME k < p
                 PROVE  FALSE
    BY <1>1, <1>5
  <2>2. p - 1 \in 0..Parts /\ k \in 0..(p - 1)
    BY <1>1, <1>5, <2>1
  <2>3. Upto[w][k] <= Upto[w][p - 1]
    BY <1>1, <2>2, UptoGrows
  <2>4. QED
    BY <1>1, <1>3, <1>4, <1>5, <2>3
<1>7. CASE k = p
  BY <1>1, <1>3, <1>5, <1>7
<1>8. CASE k > p
  <2>1. p < part[w]
    <3>1. part[w] \in Nat
      BY <1>1, PlaceFacts
    <3>2. QED
      BY <1>1, <1>5, <1>8, <3>1
  <2>2. H(w) + left[e] \in ends[w]
    BY <1>1, <2>1 DEF Framing
  <2>3. Upto[w][p] <= Upto[w][k]
    <3>1. k \in 0..Parts /\ p \in 0..k
      BY <1>1, <1>5, <1>8
    <3>2. QED
      BY <1>1, <3>1, UptoGrows
  <2>4. left[e] <= f
    BY <1>1, <1>3, <1>5, <2>3
  <2>5. left[e] \in 1..(a - H(w))
    BY <1>1, <1>3, <2>4
  <2>6. left[e] \in Whole(e, s)
    BY <1>2, <2>2, <2>5 DEF Whole
  <2>7. f <= left[e]
    BY <2>6
  <2>8. QED
    BY <1>1, <1>3, <2>4, <2>7
<1>9. QED
  BY <1>1, <1>5, <1>6, <1>7, <1>8

LEMMA WsReadKeeps ==
    ASSUME StreamInv, NEW e \in Sides, Reads(e), Webs, WsRead(e)
    PROVE  StreamInv'
<1> DEFINE w == Peer(e)
<1>1. /\ H(w) \in Nat /\ A(w) \in Nat /\ B(w) \in Nat /\ H(w) <= A(w) /\ A(w) <= B(w)
      /\ temp[e] = Run(H(w), A(w)) /\ net[e] = Run(A(w), B(w))
      /\ Len(net[e]) = B(w) - A(w) /\ left[e] \in Nat /\ left[e] >= 1
      /\ kind # "tcp"
  BY ReaderChain DEF Webs
<1>2. UNCHANGED <<setup, told, call, total, conn, held, frameVars, reset>>
  BY DEF WsRead
<1>3. PICK n \in 0..Len(net[e]) :
         LET all == temp[e] \o Front(net[e], n) IN
         \/ \E f \in Whole(e, all) :
               /\ \A i \in Whole(e, all) : f <= i
               /\ Got(e, Front(all, Least(f, left[e])))
               /\ temp' = [temp EXCEPT ![e] = After(all, f)]
               /\ Take(e, n, TRUE)
         \/ /\ Whole(e, all) = {}
            /\ n = Len(net[e])
            /\ ReadBlocked
            /\ temp' = [temp EXCEPT ![e] = all]
            /\ Take(e, n, FALSE)
  BY DEF WsRead
<1> DEFINE a == A(w) + n
           all == temp[e] \o Front(net[e], n)
<1>4. n \in Nat /\ n <= B(w) - A(w)
  BY <1>1, <1>3
<1>5. Front(net[e], n) = Run(A(w), a) /\ After(net[e], n) = Run(a, B(w))
  <2>1. Front(Run(A(w), B(w)), n) = Run(A(w), A(w) + n)
        /\ After(Run(A(w), B(w)), n) = Run(A(w) + n, B(w))
    <3>1. A(w) \in Nat /\ B(w) \in Nat
      BY <1>1
    <3>2. QED
      BY <1>4, <3>1, RunParts
  <2>2. QED
    BY <1>1, <2>1
<1>6. a \in Nat /\ A(w) <= a /\ a <= B(w) /\ H(w) <= a
  BY <1>1, <1>4
<1>7. \A goesOn \in BOOLEAN : Take(e, n, goesOn) =>
         /\ net' = [net EXCEPT ![e] = Run(a, B(w))]
         /\ awake' \in [Sides -> BOOLEAN] /\ awake'[e] = goesOn /\ (awake[w] => awake'[w])
  <2>1. SUFFICES ASSUME NEW goesOn \in BOOLEAN, Take(e, n, goesOn)
                 PROVE  /\ net' = [net EXCEPT ![e] = Run(a, B(w))]
                        /\ awake' \in [Sides -> BOOLEAN] /\ awake'[e] = goesOn
                        /\ (awake[w] => awake'[w])
    OBVIOUS
  <2>2. net' = [net EXCEPT ![e] = Run(a, B(w))]
    BY <1>5, <2>1 DEF Take
  <2>3. QED
    BY <2>1, <2>2, TakeFacts
<1> HIDE DEF a
<1>8. all = Run(H(w), a)
  <2>1. Run(H(w), A(w)) \o Run(A(w), a) = Run(H(w), a)
    <3>1. H(w) \in Nat /\ A(w) \in Nat /\ H(w) <= A(w)
      BY <1>1
    <3>2. QED
      BY <1>6, <3>1, RunConcat
  <2>2. QED
    BY <1>1, <1>5, <2>1
<1>9. ASSUME NEW f \in Whole(e, all), \A i \in Whole(e, all) : f <= i,
             Got(e, Front(all, Least(f, left[e]))),
             temp' = [temp EXCEPT ![e] = After(all, f)], Take(e, n, TRUE)
      PROVE  StreamInv'
  <2> HIDE DEF all
  <2>1. f = left[e] /\ f \in Nat /\ f <= a - H(w)
    BY <1>6, <1>8, <1>9, FrameIsPart
  <2> DEFINE h == H(w) + f
  <2>2. Least(f, left[e]) = f
    BY <2>1 DEF Least
  <2>3. Front(all, f) = Run(H(w), h) /\ After(all, f) = Run(h, a)
    <3>1. H(w) \in Nat
      BY <1>1
    <3>2. Front(Run(H(w), a), f) = Run(H(w), h) /\ After(Run(H(w), a), f) = Run(h, a)
      BY <1>6, <2>1, <3>1, RunParts
    <3>3. QED
      BY <1>8, <3>2
  <2>4. /\ h \in Nat /\ H(w) + 1 <= h /\ h <= H(w) + left[e] /\ h <= a /\ h = H(w) + left[e]
    BY <1>1, <1>6, <2>1
  <2> HIDE DEF h
  <2>5. Got(e, Run(H(w), h)) /\ temp' = [temp EXCEPT ![e] = Run(h, a)]
    BY <1>9, <2>2, <2>3
  <2>6. /\ net' = [net EXCEPT ![e] = Run(a, B(w))]
        /\ awake' \in [Sides -> BOOLEAN] /\ awake'[e] = TRUE /\ (awake[w] => awake'[w])
    BY <1>7, <1>9
  <2>7. QED
    BY <1>1, <1>2, <1>6, <2>4, <2>5, <2>6, GotKeeps
<1>10. CASE /\ Whole(e, all) = {} /\ ReadBlocked
            /\ temp' = [temp EXCEPT ![e] = all] /\ Take(e, n, FALSE)
  <2>1. temp' = [temp EXCEPT ![e] = Run(H(w), a)] /\ Whole(e, Run(H(w), a)) = {}
    BY <1>8, <1>10
  <2>2. (Whole(e, temp[e]))' = {}
    <3>1. temp'[e] = Run(H(w), a) /\ ends' = ends
      BY <1>2, <2>1, Types DEF frameVars
    <3>2. QED
      BY <2>1, <3>1 DEF Whole
  <2>3. /\ net' = [net EXCEPT ![e] = Run(a, B(w))]
        /\ awake' \in [Sides -> BOOLEAN] /\ (awake[w] => awake'[w])
    BY <1>7, <1>10
  <2>4. QED
    BY <1>2, <1>6, <1>10, <2>1, <2>2, <2>3, BlockedReadKeeps
<1>11. QED
  BY <1>3, <1>9, <1>10

LEMMA ReadStep ==
    ASSUME StreamInv, NEW e \in Sides, Read(e)
    PROVE  StreamInv'
<1>1. Reads(e)
  BY DEF Read
<1>2. \/ TcpRead(e)
      \/ kind = "tls" /\ TlsRead(e)
      \/ Webs /\ WsRead(e)
  BY DEF Read, RustlsRead, RustlsServerRead, WebSocketRead, WebSocketTlsRead,
         WebSocketRustlsServerRead, Webs
<1>3. QED
  BY <1>1, <1>2, TcpReadKeeps, TlsReadKeeps, WsReadKeeps
-----------------------------------------------------------------------------
(* The invariant, and what follows from it.                                *)

LEMMA InitHolds == Init => StreamInv
<1> SUFFICES ASSUME Init
             PROVE  StreamInv
  OBVIOUS
<1>1. /\ Size(1) \in Nat /\ 1 \in 1..(Parts + 1) /\ Parts \in Nat
      /\ By(1) \in Sides => 1 \in 1..Parts /\ Size(1) >= 2
      /\ 1 <= Parts => By(1) \in Sides
  BY ScriptFacts
<1>2. /\ kind \in Kinds /\ room \in Rooms /\ reset = FALSE
      /\ part = [e \in Sides |-> 1] /\ left = [e \in Sides |-> Size(1)]
      /\ told = [e \in Sides |-> 0] /\ heard = [e \in Sides |-> <<>>]
      /\ awake = [e \in Sides |-> By(1) = e] /\ call = [e \in Sides |-> "none"]
      /\ total = [e \in Sides |-> 0] /\ conn = [e \in Sides |-> <<>>]
      /\ held = [e \in Sides |-> FALSE] /\ out = [e \in Sides |-> <<>>]
      /\ flushed = [e \in Sides |-> TRUE] /\ ends = [e \in Sides |-> {}]
      /\ temp = [e \in Sides |-> <<>>] /\ net = [e \in Sides |-> <<>>]
  BY DEF Init
<1>3. <<>> \in Seq(Nat) /\ Len(<<>>) = 0 /\ Run(0, 0) = <<>> /\ 0 \in Nat
  <2>1. 0 \in Nat /\ 0 <= 0
    OBVIOUS
  <2>2. Run(0, 0) = <<>>
    BY <2>1, RunEmpty
  <2>3. QED
    BY <2>2, EmptySeq
<1>4. TypeOK
  <2>1. room \in Nat
    BY <1>2, StreamsAssumption DEF StreamsAssumption
  <2>2. \A e \in Sides : (By(1) = e) \in BOOLEAN
    OBVIOUS
  <2>3. awake \in [Sides -> BOOLEAN]
    BY <1>2, <2>2
  <2>4. \A e \in Sides : Len(net[e]) <= room
    BY <1>2, <1>3, <2>1
  <2>5. reset \in BOOLEAN
    BY <1>2, Zenon
  <2>6. QED
    BY <1>1, <1>2, <1>3, <2>3, <2>4, <2>5 DEF TypeOK, Parts
<1>5. NeverReset
  BY <1>2, Zenon DEF NeverReset
<1>6. ASSUME NEW e \in Sides
      PROVE  SideInv(e)
  <2>1. Peer(e) \in Sides /\ Peer(e) # e
    BY Peers
  <2>2. /\ part[e] = 1 /\ left[e] = Size(1) /\ told[e] = 0 /\ call[e] = "none" /\ ~held[e]
        /\ conn[e] = <<>> /\ out[e] = <<>> /\ flushed[e] /\ ends[e] = {} /\ temp[e] = <<>>
        /\ heard[Peer(e)] = <<>> /\ temp[Peer(e)] = <<>> /\ net[Peer(e)] = <<>>
        /\ heard[e] = <<>>
    BY <1>2, <2>1
  <2>3. awake[e] <=> By(1) = e
    BY <1>2
  <2>4. H(e) = 0 /\ A(e) = 0 /\ B(e) = 0 /\ C(e) = 0 /\ G(e) = 0
    <3>1. H(e) = 0 /\ G(e) = 0
      BY <1>3, <2>2 DEF H, G
    <3>2. A(e) = 0
      BY <1>3, <2>2, <3>1 DEF A
    <3>3. B(e) = 0
      BY <1>3, <2>2, <3>2 DEF B
    <3>4. C(e) = 0
      BY <1>3, <2>2, <3>3 DEF C
    <3>5. QED
      BY <3>1, <3>2, <3>3, <3>4
  <2>5. H(Peer(e)) = 0
    BY <1>3, <2>1, <2>2, Peers DEF H
  <2>6. Chain(e)
    BY <1>3, <2>2, <2>4 DEF Chain
  <2>7. Z(e) = Size(1)
    BY <1>1, <2>2 DEF Z
  <2>8. Sender(e)
    <3>1. Writes(e) => Size(1) >= 2
      BY <1>1, <2>2 DEF Writes
    <3>2. Rustls(e) /\ Writes(e) => Z(e) - G(e) >= 2
      BY <1>1, <2>4, <2>7, <3>1
    <3>3. Owing(e)
      BY <2>2, <2>4, <3>2 DEF Owing
    <3>4. QED
      BY <2>2, <3>3 DEF Sender, FrameLeft
  <2>9. Place(e)
    <3>1. \A f \in Sides : Upto[f][0] = 0 /\ Upto[f][part[e] - 1] = 0
      <4>1. part[e] - 1 = 0
        BY <2>2
      <4>2. QED
        BY <4>1, UptoIsSum DEF IsSum
    <3>2. CASE 1 \in 1..Parts
      <4>1. \A f \in Sides : /\ By(1) = f => Upto[f][1] = Size(1)
                             /\ By(1) # f => Upto[f][1] = 0
        <5>1. 1 - 1 = 0
          OBVIOUS
        <5>2. \A f \in Sides : /\ By(1) = f => Upto[f][1] = Upto[f][0] + Size(1)
                               /\ By(1) # f => Upto[f][1] = Upto[f][0]
          BY <3>2, <5>1, UptoNext
        <5>3. QED
          BY <1>1, <3>1, <5>2
      <4>2. By(1) \in Sides /\ Size(1) >= 2
        BY <3>2, ScriptFacts
      <4>3. left[e] >= 1 /\ left[e] <= Size(part[e]) /\ left[e] = Size(part[e])
        BY <1>1, <2>2, <4>2
      <4>4. IF Writes(e) THEN Z(e) = Upto[e][part[e]] ELSE told[e] = Upto[e][part[e] - 1]
        BY <2>2, <2>7, <3>1, <4>1 DEF Writes
      <4>5. IF Reads(e) THEN H(Peer(e)) + left[e] = Upto[Peer(e)][part[e]]
            ELSE H(Peer(e)) = Upto[Peer(e)][part[e] - 1]
        <5>1. Upto[Peer(e)][part[e] - 1] = 0
          BY <2>1, <3>1
        <5>2. Reads(e) => Upto[Peer(e)][part[e]] = Size(1)
          BY <2>1, <2>2, <4>1 DEF Reads
        <5>3. H(Peer(e)) + left[e] = Size(1)
          BY <1>1, <2>2, <2>5
        <5>4. QED
          BY <2>5, <5>1, <5>2, <5>3
      <4>6. QED
        BY <4>3, <4>4, <4>5 DEF Place
    <3>3. CASE 1 \notin 1..Parts
      <4>1. ~Writes(e) /\ ~Reads(e) /\ ~(1 <= Parts)
        BY <1>1, <2>1, <2>2, <3>3 DEF Writes, Reads
      <4>2. told[e] = Upto[e][part[e] - 1] /\ H(Peer(e)) = Upto[Peer(e)][part[e] - 1]
        BY <2>1, <2>2, <2>5, <3>1
      <4>3. ~(part[e] <= Parts) /\ left[e] = Size(part[e])
        BY <2>2, <4>1
      <4>4. QED
        BY <4>1, <4>2, <4>3 DEF Place
    <3>4. QED
      BY <3>2, <3>3
  <2>10. Framing(e)
    <3>1. {j \in 1..Parts : By(j) = e /\ (j < part[e] \/ (j = part[e] /\ ~flushed[e]))} = {}
      BY <1>1, <2>2
    <3>2. QED
      BY <2>2, <3>1 DEF Framing
  <2>11. Quiet(e)
    BY <2>2 DEF Quiet
  <2>12. QED
    BY <2>6, <2>8, <2>9, <2>10, <2>11 DEF SideInv
<1>7. QED
  BY <1>4, <1>5, <1>6 DEF StreamInv

LEMMA StutterKeeps == StreamInv /\ UNCHANGED vars => StreamInv'
<1> SUFFICES ASSUME StreamInv, UNCHANGED vars
             PROVE  StreamInv'
  OBVIOUS
<1>1. /\ UNCHANGED <<kind, room, part, left, told, heard, awake, call, total>>
      /\ UNCHANGED <<conn, held, out, flushed, ends, temp, net, reset>>
  BY DEF vars, setup, turnVars, frameVars, readVars
<1>2. TypeOK'
  BY <1>1 DEF StreamInv, TypeOK
<1>3. NeverReset'
  <2>1. reset = FALSE
    BY Zenon DEF StreamInv, TypeOK, NeverReset
  <2>2. reset' = FALSE
    BY <1>1, <2>1
  <2>3. QED
    BY <2>2, Zenon DEF NeverReset
<1>4. ASSUME NEW e \in Sides
      PROVE  SideInv(e)'
  <2>1. SideInv(e)
    BY DEF StreamInv
  <2>2. Still(e)
    BY <1>1 DEF Still
  <2>3. Chain(e)' /\ Sender(e)' /\ Place(e)' /\ Framing(e)'
    BY <1>1, <2>1, <2>2, StillSide DEF SideInv, setup
  <2>4. Quiet(e)'
    BY <1>1, <2>1 DEF SideInv, Quiet, Whole, Webs, Reads
  <2>5. QED
    BY <2>3, <2>4 DEF SideInv
<1>5. QED
  BY <1>2, <1>3, <1>4 DEF StreamInv

\* The inductive invariant holds: every step of a write() and of a read() keeps it.
THEOREM StreamInvHolds == Spec => []StreamInv
<1>1. Init => StreamInv
  BY InitHolds
<1>2. StreamInv /\ [Next]_vars => StreamInv'
  BY WriteStep, ReadStep, StutterKeeps DEF Next
<1>3. QED
  BY <1>1, <1>2, PTL DEF Spec

\* What a reader has read of its peer is a number of whole parts, but for what it reads
\* at the moment; over a WebSocket it is always whole parts.
LEMMA HeardParts ==
    ASSUME StreamInv, NEW e \in Sides, Webs
    PROVE  H(Peer(e)) = Upto[Peer(e)][part[e] - 1]
<1>1. Place(e) /\ Peer(e) \in Sides
  BY Peers DEF StreamInv, SideInv
<1>2. CASE Reads(e)
  <2>1. /\ part[e] \in 1..Parts /\ By(part[e]) = Peer(e) /\ H(Peer(e)) \in Nat
        /\ H(Peer(e)) + left[e] = Upto[Peer(e)][part[e]] /\ left[e] = Size(part[e])
        /\ left[e] \in Nat
    BY <1>2, ReaderFacts, PlaceFacts
  <2>2. /\ Upto[Peer(e)][part[e]] = Upto[Peer(e)][part[e] - 1] + Size(part[e])
        /\ Upto[Peer(e)][part[e] - 1] \in Nat
    BY <1>1, <2>1, UptoNext
  <2>3. QED
    BY <2>1, <2>2
<1>3. CASE ~Reads(e)
  BY <1>1, <1>3 DEF Place
<1>4. QED
  BY <1>2, <1>3

LEMMA HeardIsTold ==
    ASSUME StreamInv, NEW w \in Sides, call[w] = "none"
    PROVE  H(w) <= told[w]
<1>1. /\ H(w) \in Nat /\ B(w) \in Nat /\ C(w) \in Nat /\ A(w) \in Nat /\ told[w] \in Nat
      /\ H(w) <= A(w) /\ A(w) <= B(w) /\ B(w) <= C(w) /\ Len(conn[w]) = C(w) - B(w)
      /\ left[w] \in Nat /\ Peer(w) \in Sides /\ Peer(Peer(w)) = w
  BY Positions, Peers DEF StreamInv
<1>2. /\ FrameLeft(w) /\ Owing(w) /\ Place(w)
  BY DEF StreamInv, SideInv, Sender
<1>3. B(w) <= G(w) \/ ~(G(w) \in Nat)
  <2>1. SUFFICES ASSUME G(w) \in Nat
                 PROVE  B(w) <= G(w)
    OBVIOUS
  <2>2. CASE held[w]
    <3>1. C(w) = G(w) + 1 /\ conn[w] # <<>>
      BY <1>2, <2>2 DEF Owing
    <3>2. C(w) # B(w)
      <4>1. Len(conn[w]) # 0
        BY <3>1, EmptySeq, Types
      <4>2. QED
        BY <1>1, <4>1
    <3>3. QED
      BY <1>1, <2>1, <3>1, <3>2
  <2>3. CASE ~held[w]
    <3>1. C(w) = G(w) + 0
      BY <1>2, <2>3 DEF Owing
    <3>2. QED
      BY <1>1, <2>1, <3>1
  <2>4. QED
    BY <2>2, <2>3
<1>4. CASE flushed[w]
  <2>1. G(w) = told[w]
    BY <1>4 DEF G
  <2>2. QED
    BY <1>1, <1>3, <2>1
<1>5. CASE ~flushed[w]
  <2>1. /\ Writes(w) /\ Webs /\ out[w] # <<>> /\ out[w] = Run(G(w), Z(w))
    BY <1>2, <1>5 DEF FrameLeft
  <2>2. /\ G(w) \in Nat /\ Z(w) \in Nat /\ G(w) <= Z(w) /\ part[w] \in 1..Parts
        /\ Z(w) = told[w] + left[w]
    BY <2>1, SenderFacts
  <2>3. G(w) < Z(w)
    <3>1. G(w) # Z(w)
      BY <2>1, <2>2, RunEmpty
    <3>2. QED
      BY <2>2, <3>1
  <2> DEFINE q == part[w]
             p == part[Peer(w)]
  <2>4. /\ H(w) = Upto[w][p - 1] /\ p \in 1..(Parts + 1)
    BY <1>1, <2>1, HeardParts, PlaceFacts
  <2>5. Z(w) = Upto[w][q] /\ left[w] = Size(q) /\ By(q) = w
    BY <1>2, <2>1 DEF Place, Writes
  <2>6. told[w] = Upto[w][q - 1]
    <3>1. Upto[w][q] = Upto[w][q - 1] + Size(q) /\ Upto[w][q - 1] \in Nat
      BY <2>2, <2>5, UptoNext
    <3>2. QED
      BY <1>1, <2>2, <2>5, <3>1
  <2>7. p <= q
    <3>1. SUFFICES ASSUME p > q
                   PROVE  FALSE
      BY <2>2, <2>4
    <3>2. p - 1 \in 0..Parts /\ q \in 0..(p - 1)
      BY <2>2, <2>4, <3>1, ScriptFacts
    <3>3. Upto[w][q] <= Upto[w][p - 1]
      BY <3>2, UptoGrows
    <3>4. QED
      <4>1. H(w) >= Z(w)
        BY <2>4, <2>5, <3>3
      <4>2. H(w) <= G(w)
        BY <1>1, <1>3, <2>2
      <4>3. QED
        BY <1>1, <2>2, <2>3, <4>1, <4>2
  <2>8. p - 1 \in 0..(q - 1) /\ q - 1 \in 0..Parts
    BY <2>2, <2>4, <2>7, ScriptFacts
  <2>9. Upto[w][p - 1] <= Upto[w][q - 1]
    BY <2>8, UptoGrows
  <2>10. QED
    BY <2>4, <2>6, <2>9
<1>6. QED
  BY <1>4, <1>5

LEMMA OrderFollows == StreamInv => InOrder
<1> SUFFICES ASSUME StreamInv, NEW e \in Sides
             PROVE  /\ heard[e] = Run(0, Len(heard[e]))
                    /\ call[Peer(e)] = "none" => Len(heard[e]) <= told[Peer(e)]
  BY DEF InOrder
<1>1. Peer(e) \in Sides /\ Peer(Peer(e)) = e
  BY Peers
<1>2. H(Peer(e)) = Len(heard[e])
  BY <1>1 DEF H
<1>3. heard[e] = Run(0, H(Peer(e)))
  BY <1>1 DEF StreamInv, SideInv, Chain
<1>4. QED
  BY <1>1, <1>2, <1>3, HeardIsTold

LEMMA SentFollows == StreamInv => ToldIsSent
<1> SUFFICES ASSUME StreamInv, NEW e \in Sides, call[e] = "none"
             PROVE  /\ held[e] = (conn[e] # <<>>)
                    /\ flushed[e] = (out[e] = <<>>)
                    /\ \A s \in {conn[e], out[e]} : s # <<>> =>
                          Writes(e) /\ s[Len(s)] \in (told[e] + 1)..(told[e] + left[e])
  BY DEF ToldIsSent
<1>1. FrameLeft(e) /\ Owing(e) /\ Chain(e)
  BY DEF StreamInv, SideInv, Sender
<1>2. held[e] \in BOOLEAN /\ flushed[e] \in BOOLEAN
  BY Types
<1>3. held[e] = (conn[e] # <<>>)
  <2>1. CASE held[e]
    <3>1. conn[e] # <<>>
      BY <1>1, <2>1 DEF Owing
    <3>2. QED
      BY <1>2, <2>1, <3>1
  <2>2. CASE ~held[e]
    <3>1. conn[e] = <<>>
      BY <1>1, <2>2 DEF Owing
    <3>2. QED
      BY <1>2, <2>2, <3>1
  <2>3. QED
    BY <2>1, <2>2
<1>4. flushed[e] = (out[e] = <<>>)
  <2>1. CASE flushed[e]
    <3>1. out[e] = <<>>
      BY <1>1, <2>1 DEF FrameLeft
    <3>2. QED
      BY <1>2, <2>1, <3>1
  <2>2. CASE ~flushed[e]
    <3>1. out[e] # <<>>
      BY <1>1, <2>2 DEF FrameLeft
    <3>2. QED
      BY <1>2, <2>2, <3>1
  <2>3. QED
    BY <2>1, <2>2
<1>5. conn[e] # <<>> =>
         Writes(e) /\ conn[e][Len(conn[e])] \in (told[e] + 1)..(told[e] + left[e])
  <2>1. SUFFICES ASSUME conn[e] # <<>>
                 PROVE  Writes(e) /\ conn[e][Len(conn[e])] \in (told[e] + 1)..(told[e] + left[e])
    OBVIOUS
  <2>2. held[e] /\ Writes(e) /\ G(e) < Z(e) /\ C(e) = G(e) + 1
    BY <1>1, <2>1 DEF Owing
  <2>3. /\ G(e) \in Nat /\ Z(e) \in Nat /\ told[e] <= G(e) /\ Z(e) = told[e] + left[e]
        /\ told[e] \in Nat /\ left[e] \in Nat
    BY <2>2, SenderFacts
  <2>4. /\ B(e) \in Nat /\ C(e) \in Nat /\ B(e) <= C(e) /\ Len(conn[e]) = C(e) - B(e)
        /\ conn[e] = Run(B(e), C(e))
    BY <1>1, Positions DEF StreamInv, Chain
  <2>5. B(e) # C(e)
    BY <2>1, <2>4, RunEmpty
  <2>6. conn[e][C(e) - B(e)] = C(e)
    <3>1. C(e) - B(e) \in 1..(C(e) - B(e)) /\ B(e) + (C(e) - B(e)) = C(e)
      BY <2>4, <2>5
    <3>2. QED
      BY <2>4, <3>1, RunBytes
  <2>7. C(e) \in (told[e] + 1)..(told[e] + left[e])
    BY <2>2, <2>3
  <2>8. QED
    BY <2>2, <2>4, <2>6, <2>7
<1>6. out[e] # <<>> =>
         Writes(e) /\ out[e][Len(out[e])] \in (told[e] + 1)..(told[e] + left[e])
  <2>1. SUFFICES ASSUME out[e] # <<>>
                 PROVE  Writes(e) /\ out[e][Len(out[e])] \in (told[e] + 1)..(told[e] + left[e])
    OBVIOUS
  <2>2. ~flushed[e] /\ Writes(e)
    BY <1>1, <2>1 DEF FrameLeft
  <2>3. /\ G(e) \in Nat /\ Z(e) \in Nat /\ G(e) <= Z(e) /\ Z(e) = told[e] + left[e]
        /\ told[e] \in Nat /\ left[e] \in Nat /\ left[e] >= 1
        /\ out[e] = Run(G(e), Z(e)) /\ Len(out[e]) = Z(e) - G(e)
    BY <2>2, SenderFacts
  <2>4. G(e) # Z(e)
    BY <2>1, <2>3, RunEmpty
  <2>5. out[e][Z(e) - G(e)] = Z(e)
    <3>1. Z(e) - G(e) \in 1..(Z(e) - G(e)) /\ G(e) + (Z(e) - G(e)) = Z(e)
      BY <2>3, <2>4
    <3>2. QED
      BY <2>3, <3>1, RunBytes
  <2>6. Z(e) \in (told[e] + 1)..(told[e] + left[e])
    BY <2>3
  <2>7. QED
    BY <2>2, <2>3, <2>5, <2>6
<1>7. QED
  BY <1>3, <1>4, <1>5, <1>6

LEMMA KeptFollows == StreamInv => NothingKept
<1> SUFFICES ASSUME StreamInv, NEW e \in Sides, Reads(e), ~awake[e]
             PROVE  \/ temp[e] = <<>>
                    \/ kind \in {"ws", "wss"} /\ Whole(e, temp[e]) = {}
  BY DEF NothingKept
<1>1. QED
  BY DEF StreamInv, SideInv, Quiet, Webs

\* Every variable keeps its type, and the socket never holds more than its room.
THEOREM TypesHold == Spec => []TypeOK
<1>1. StreamInv => TypeOK
  BY DEF StreamInv
<1>2. QED
  BY <1>1, StreamInvHolds, PTL

\* What a side reads is what its peer wrote, from the first byte on, and never more than
\* the peer was told is taken, over each of the four kinds of stream.
THEOREM BytesKeepTheirOrder == Spec => []InOrder
<1>1. QED
  BY OrderFollows, StreamInvHolds, PTL

\* A handler that was told that all of its part is written leaves nothing of it in rustls
\* or in tungstenite: only what belongs to the part that it still writes is kept there.
THEOREM WhatIsToldIsSent == Spec => []ToldIsSent
<1>1. QED
  BY SentFollows, StreamInvHolds, PTL

\* A write() that took something never returns Ok(0), which the handlers take for a
\* closed connection, though rustls' write() keeps quiet about a byte.
THEOREM WritesNeverReset == Spec => []NeverReset
<1>1. StreamInv => NeverReset
  BY DEF StreamInv
<1>2. QED
  BY <1>1, StreamInvHolds, PTL

\* A side that waits for its socket has been given every byte, or every whole frame, that
\* came in: what temp_buf or tungstenite keeps wakes nobody.
THEOREM WaitersHaveReadAll == Spec => []NothingKept
<1>1. QED
  BY KeptFollows, StreamInvHolds, PTL
-----------------------------------------------------------------------------
(* Streams implements ByteStream.                                          *)

\* A step that only changes what e was told and the call that e is in.
Telling(e) ==
    /\ heard' = heard
    /\ told' = [told EXCEPT ![e] = told'[e]]
    /\ told'[e] \in Nat /\ told'[e] >= told[e]
    /\ call'[Peer(e)] = call[Peer(e)]
    /\ call'[e] # "none" => told' = told

LEMMA WroteTells ==
    ASSUME StreamInv, NEW e \in Sides, NEW n \in Nat, NEW data, Wrote(e, n, data), heard' = heard
    PROVE  Telling(e)
<1>1. /\ told \in [Sides -> Nat] /\ Peer(e) \in Sides /\ Peer(e) # e
      /\ call \in [Sides -> {"none", "empty", "hand", "flush"}]
  BY Types, Peers
<1>2. told' = [told EXCEPT ![e] = told[e] + n] /\ call' = [call EXCEPT ![e] = "none"]
  BY DEF Wrote
<1>3. told'[e] = told[e] + n /\ told[e] \in Nat
  BY <1>1, <1>2
<1>4. QED
  BY <1>1, <1>2, <1>3 DEF Telling

LEMMA CallTells ==
    ASSUME StreamInv, NEW e \in Sides, NEW c, call' = [call EXCEPT ![e] = c], told' = told,
           heard' = heard
    PROVE  Telling(e)
<1>1. /\ told \in [Sides -> Nat] /\ Peer(e) \in Sides /\ Peer(e) # e
      /\ call \in [Sides -> {"none", "empty", "hand", "flush"}]
  BY Types, Peers
<1>2. told'[e] = told[e] /\ told[e] \in Nat /\ told' = [told EXCEPT ![e] = told'[e]]
  BY <1>1
<1>3. QED
  BY <1>1, <1>2 DEF Telling

LEMMA ToldTells ==
    ASSUME StreamInv, NEW e \in Sides, Writes(e), NEW n \in Nat, Told(e, n), heard' = heard
    PROVE  Telling(e)
<1>1. CASE Wrote(e, n, <<>>)
  BY <1>1, WroteTells
<1>2. CASE FrameWrote(e, n)
  <2>1. CASE call' = [call EXCEPT ![e] = "empty"] /\ UNCHANGED turnVars
    BY <2>1, CallTells DEF turnVars
  <2>2. CASE Wrote(e, IF n > 0 THEN left[e] ELSE 0, <<>>)
    <3>1. (IF n > 0 THEN left[e] ELSE 0) \in Nat
      BY Types
    <3>2. QED
      BY <2>2, <3>1, WroteTells
  <2>3. QED
    BY <1>2, <2>1, <2>2 DEF FrameWrote
<1>3. QED
  BY <1>1, <1>2 DEF Told

LEMMA WriteTells ==
    ASSUME StreamInv, NEW e \in Sides, Write(e)
    PROVE  Telling(e)
<1>1. Writes(e) /\ call = [call EXCEPT ![e] = call[e]] /\ left[e] \in Nat /\ total[e] \in Nat
  BY Types DEF Write
<1>2. ASSUME UNCHANGED <<told, call, heard>>
      PROVE  Telling(e)
  BY <1>1, <1>2, CallTells
<1>3. ASSUME WriteBlocked(e), heard' = heard
      PROVE  Telling(e)
  BY <1>3, CallTells DEF WriteBlocked, turnVars
<1>4. CASE TcpWrite(e)
  <2>1. heard' = heard /\ Least(Space(e), left[e]) \in Nat
    BY <1>1, <1>4, SpaceIsNat, LeastFacts DEF TcpWrite, readVars
  <2>2. CASE WriteBlocked(e)
    BY <1>3, <2>1, <2>2
  <2>3. CASE Wrote(e, Least(Space(e), left[e]), Front(Buf(e), Least(Space(e), left[e])))
    BY <2>1, <2>3, WroteTells
  <2>4. QED
    BY <1>4, <2>2, <2>3 DEF TcpWrite
<1>5. CASE TlsBegin(e)
  BY <1>5, CallTells DEF TlsBegin, turnVars, readVars
<1>6. CASE TlsPut(e)
  BY <1>2, <1>6 DEF TlsPut, turnVars, readVars
<1>7. CASE TlsStuck(e)
  BY <1>3, <1>7 DEF TlsStuck, readVars
<1>8. CASE TlsEmptied(e)
  BY <1>8, CallTells DEF TlsEmptied, turnVars, readVars
<1>9. CASE TlsHand(e)
  BY <1>2, <1>9 DEF TlsHand, turnVars, readVars
<1>10. CASE TlsHold(e)
  <2>1. /\ call[e] = "hand" /\ conn[e] # <<>> /\ Told(e, total[e] - 1) /\ heard' = heard
    BY <1>10 DEF TlsHold, readVars
  <2>2. total[e] >= 2
    BY <1>1, <2>1, RustlsCall DEF Handing
  <2>3. total[e] - 1 \in Nat
    BY <1>1, <2>2
  <2>4. QED
    BY <1>1, <2>1, <2>3, ToldTells
<1>11. CASE TlsDone(e)
  BY <1>1, <1>11, ToldTells DEF TlsDone, readVars
<1>12. CASE Frame(e, "flush") \/ Frame(e, "empty")
  BY <1>12, CallTells DEF Frame, turnVars, readVars
<1>13. CASE FramePut(e)
  <2>1. heard' = heard
    BY <1>13 DEF FramePut, readVars
  <2>2. CASE WriteBlocked(e)
    BY <1>3, <2>1, <2>2
  <2>3. CASE UNCHANGED <<turnVars, call, reset>>
    BY <1>2, <2>1, <2>3 DEF turnVars
  <2>4. QED
    BY <1>13, <2>2, <2>3 DEF FramePut
<1>14. CASE FrameDone(e)
  BY <1>1, <1>14, WroteTells DEF FrameDone, readVars
<1>15. QED
  BY <1>4, <1>5, <1>6, <1>7, <1>8, <1>9, <1>10, <1>11, <1>12, <1>13, <1>14
     DEF Write, RustlsWrite, RustlsServerWrite, TlsWrite, WebSocketWrite, WebSocketTlsWrite,
         WebSocketRustlsServerWrite, WsWrite

Busy == [f \in Sides |-> call[f] # "none"]

LEMMA WriteRefines ==
    ASSUME StreamInv, StreamInv', NEW e \in Sides, Write(e)
    PROVE  Bytes!Next \/ UNCHANGED Bytes!bvars
<1>1. Telling(e)
  BY WriteTells
<1>2. /\ \A f \in Sides : f = e \/ f = Peer(e)
      /\ Peer(e) \in Sides /\ Peer(e) # e /\ Peer(Peer(e)) = e
  BY Peers
<1>3. Busy' = [Busy EXCEPT ![e] = (call'[e] # "none")]
  <2>1. \A f \in Sides : (call'[f] # "none") =
           (IF f = e THEN (call'[e] # "none") ELSE (call[f] # "none"))
    BY <1>1, <1>2 DEF Telling
  <2>2. QED
    BY <2>1 DEF Busy
<1>4. CASE call'[e] = "none"
  <2>1. Busy' = [Busy EXCEPT ![e] = FALSE]
    BY <1>3, <1>4
  <2>2. \A f \in Sides \ {e} : Len(heard[f]) <= told'[e]
    <3>1. Len(heard'[Peer(e)]) <= told'[e]
      <4>1. InOrder'
        BY OrderFollows, PTL
      <4>2. QED
        BY <1>2, <1>4, <4>1 DEF InOrder
    <3>2. QED
      BY <1>1, <1>2, <3>1 DEF Telling
  <2>3. Bytes!Return(e)
    BY <1>1, <2>1, <2>2 DEF Telling, Bytes!Return, Busy
  <2>4. QED
    BY <2>3 DEF Bytes!Next
<1>5. CASE call'[e] # "none" /\ call[e] = "none"
  <2>1. Busy' = [Busy EXCEPT ![e] = TRUE] /\ ~Busy[e]
    BY <1>3, <1>5 DEF Busy
  <2>2. Bytes!Call(e)
    BY <1>1, <1>5, <2>1 DEF Telling, Bytes!Call, Busy
  <2>3. QED
    BY <2>2 DEF Bytes!Next
<1>6. CASE call'[e] # "none" /\ call[e] # "none"
  <2>1. Busy' = Busy
    <3>1. \A f \in Sides : (call'[f] # "none") = (call[f] # "none")
      BY <1>1, <1>2, <1>6 DEF Telling
    <3>2. QED
      BY <3>1 DEF Busy
  <2>2. QED
    BY <1>1, <1>6, <2>1 DEF Telling, Busy, Bytes!bvars
<1>7. QED
  BY <1>4, <1>5, <1>6

\* A step in which e hears something, or nothing at all.
Hearing(e) ==
    /\ told' = told /\ call' = call
    /\ \E data \in Seq(Nat) : heard' = [heard EXCEPT ![e] = heard[e] \o data]

LEMMA FrontIsSeq ==
    ASSUME NEW s \in Seq(Nat), NEW n \in Nat, n <= Len(s)
    PROVE  Front(s, n) \in Seq(Nat)
<1>1. \A i \in 1..n : s[i] \in Nat
  <2>1. Len(s) \in Nat
    BY LenProperties
  <2>2. \A i \in 1..n : i \in 1..Len(s)
    BY <2>1
  <2>3. QED
    BY <2>2, ElementOfSeq
<1>2. 1 \in Int /\ n \in Int
  OBVIOUS
<1>3. QED
  BY <1>1, <1>2, SubSeqProperties DEF Front

LEMMA GotHears ==
    ASSUME NEW e \in Sides, NEW data \in Seq(Nat), Got(e, data), told' = told, call' = call
    PROVE  Hearing(e)
BY DEF Got, Hearing

LEMMA BlockedHears ==
    ASSUME StreamInv, NEW e \in Sides, ReadBlocked, told' = told, call' = call
    PROVE  Hearing(e)
<1>1. heard \in [Sides -> Seq(Nat)] /\ <<>> \in Seq(Nat) /\ heard' = heard
  BY Types, EmptySeq DEF ReadBlocked
<1>2. heard[e] \o <<>> = heard[e]
  BY <1>1, ConcatEmptySeq
<1>3. heard' = [heard EXCEPT ![e] = heard[e] \o <<>>]
  BY <1>1, <1>2
<1>4. QED
  BY <1>1, <1>3 DEF Hearing

LEMMA ReadHears ==
    ASSUME StreamInv, NEW e \in Sides, Read(e)
    PROVE  Hearing(e)
<1>1. /\ temp[e] \in Seq(Nat) /\ net[e] \in Seq(Nat) /\ left[e] \in Nat
      /\ Len(temp[e]) \in Nat /\ Len(net[e]) \in Nat
  BY Types, LenProperties
<1>2. \A n \in 0..Len(net[e]) : temp[e] \o Front(net[e], n) \in Seq(Nat)
  <2>1. \A n \in 0..Len(net[e]) : Front(net[e], n) \in Seq(Nat)
    BY <1>1, FrontIsSeq
  <2>2. QED
    BY <1>1, <2>1, ConcatProperties
<1>3. CASE TcpRead(e)
  <2>1. told' = told /\ call' = call
    BY <1>3 DEF TcpRead
  <2>2. ASSUME NEW n \in 1..Least(left[e], Len(net[e])), Got(e, Front(net[e], n))
        PROVE  Hearing(e)
    <3>1. n \in Nat /\ n <= Len(net[e])
      <4>1. Least(left[e], Len(net[e])) \in Nat /\ Least(left[e], Len(net[e])) <= Len(net[e])
        BY <1>1, LeastFacts
      <4>2. QED
        BY <1>1, <4>1
    <3>2. QED
      BY <1>1, <2>1, <2>2, <3>1, FrontIsSeq, GotHears
  <2>3. QED
    BY <1>3, <2>1, <2>2, BlockedHears DEF TcpRead
<1>4. CASE TlsRead(e)
  <2>1. told' = told /\ call' = call
    BY <1>4 DEF TlsRead
  <2>2. PICK b \in 1..left[e] : TlsReadKept(e, b) \/ TlsReadNew(e, b) \/ TlsReadDry(e, b)
    BY <1>4 DEF TlsRead
  <2>3. CASE TlsReadKept(e, b)
    <3>1. b \in Nat /\ b <= Len(temp[e]) /\ Got(e, Front(temp[e], b))
      BY <1>1, <2>3 DEF TlsReadKept
    <3>2. QED
      BY <1>1, <2>1, <3>1, FrontIsSeq, GotHears
  <2>4. CASE TlsReadNew(e, b)
    <3>1. PICK n \in 1..Len(net[e]) :
             Got(e, Front(temp[e] \o Front(net[e], n), Least(b, Len(temp[e] \o Front(net[e], n)))))
      BY <2>4 DEF TlsReadNew
    <3> DEFINE all == temp[e] \o Front(net[e], n)
    <3>2. all \in Seq(Nat)
      BY <1>1, <1>2
    <3> HIDE DEF all
    <3>3. Least(b, Len(all)) \in Nat /\ Least(b, Len(all)) <= Len(all)
      <4>1. b \in Nat /\ Len(all) \in Nat
        BY <1>1, <3>2, LenProperties
      <4>2. QED
        BY <4>1, LeastFacts
    <3>4. Front(all, Least(b, Len(all))) \in Seq(Nat)
      BY <3>2, <3>3, FrontIsSeq
    <3>5. Got(e, Front(all, Least(b, Len(all))))
      BY <3>1 DEF all
    <3>6. QED
      BY <2>1, <3>4, <3>5, GotHears
  <2>5. CASE TlsReadDry(e, b)
    <3>1. Got(e, temp[e]) \/ ReadBlocked
      BY <2>5 DEF TlsReadDry
    <3>2. QED
      BY <1>1, <2>1, <3>1, GotHears, BlockedHears
  <2>6. QED
    BY <2>2, <2>3, <2>4, <2>5
<1>5. CASE WsRead(e)
  <2>1. told' = told /\ call' = call
    BY <1>5 DEF WsRead
  <2>2. PICK n \in 0..Len(net[e]) :
           \/ ReadBlocked
           \/ \E f \in Whole(e, temp[e] \o Front(net[e], n)) :
                 Got(e, Front(temp[e] \o Front(net[e], n), Least(f, left[e])))
    BY <1>5 DEF WsRead
  <2> DEFINE all == temp[e] \o Front(net[e], n)
  <2>3. all \in Seq(Nat) /\ Len(all) \in Nat
    <3>1. all \in Seq(Nat)
      BY <1>2
    <3> HIDE DEF all
    <3>2. QED
      BY <3>1, LenProperties
  <2>4. ReadBlocked \/ \E f \in Whole(e, all) : Got(e, Front(all, Least(f, left[e])))
    BY <2>2
  <2> HIDE DEF all
  <2>5. ASSUME NEW f \in Whole(e, all), Got(e, Front(all, Least(f, left[e])))
        PROVE  Hearing(e)
    <3>1. f \in 1..Len(all)
      BY DEF Whole
    <3>2. f \in Nat /\ f <= Len(all)
      BY <2>3, <3>1
    <3>3. Least(f, left[e]) \in Nat /\ Least(f, left[e]) <= f
      BY <1>1, <3>2, LeastFacts
    <3>4. Least(f, left[e]) <= Len(all)
      BY <2>3, <3>2, <3>3
    <3>5. Front(all, Least(f, left[e])) \in Seq(Nat)
      BY <2>3, <3>3, <3>4, FrontIsSeq
    <3>6. QED
      BY <2>1, <2>5, <3>5, GotHears
  <2>6. QED
    BY <2>1, <2>4, <2>5, BlockedHears
<1>6. QED
  BY <1>3, <1>4, <1>5 DEF Read, RustlsRead, RustlsServerRead, WebSocketRead, WebSocketTlsRead,
     WebSocketRustlsServerRead

LEMMA ReadRefines ==
    ASSUME StreamInv, StreamInv', NEW e \in Sides, Hearing(e)
    PROVE  Bytes!Next \/ UNCHANGED Bytes!bvars
<1>1. told' = told /\ call' = call /\ Busy' = Busy
  BY DEF Hearing, Busy
<1>2. CASE heard' = heard
  BY <1>1, <1>2 DEF Busy, Bytes!bvars
<1>3. CASE heard' # heard
  <2>1. PICK data \in Seq(Nat) : heard' = [heard EXCEPT ![e] = heard[e] \o data]
    BY DEF Hearing
  <2>2. /\ heard \in [Sides -> Seq(Nat)] /\ heard'[e] = heard[e] \o data
        /\ heard' = [heard EXCEPT ![e] = heard'[e]]
    BY <2>1, Types
  <2>3. Len(heard'[e]) > Len(heard[e])
    <3>1. heard[e] \in Seq(Nat) /\ Len(heard[e]) \in Nat /\ Len(data) \in Nat
      BY <2>1, <2>2, LenProperties
    <3>2. Len(heard[e] \o data) = Len(heard[e]) + Len(data)
      BY <2>1, <3>1, ConcatProperties
    <3>3. Len(data) # 0
      <4>1. SUFFICES ASSUME data = <<>>
                     PROVE  FALSE
        BY <2>1, EmptySeq
      <4>2. heard[e] \o <<>> = heard[e]
        BY <3>1, ConcatEmptySeq
      <4>3. QED
        BY <1>3, <2>1, <2>2, <4>1, <4>2
    <3>4. QED
      BY <2>1, <2>2, <3>1, <3>2, <3>3
  <2>4. InOrder'
    BY OrderFollows, PTL
  <2>5. heard'[e] = Bytes!Run(0, Len(heard'[e]))
    BY <2>4 DEF InOrder, Run, Bytes!Run
  <2>6. \E f \in Sides \ {e} : Busy[f] \/ Len(heard'[e]) <= told[f]
    <3>1. Peer(e) \in Sides \ {e}
      BY Peers
    <3>2. call'[Peer(e)] = "none" => Len(heard'[e]) <= told'[Peer(e)]
      BY <2>4 DEF InOrder
    <3>3. Busy[Peer(e)] \/ Len(heard'[e]) <= told[Peer(e)]
      BY <1>1, <3>1, <3>2 DEF Busy
    <3>4. QED
      BY <3>1, <3>3
  <2>7. Bytes!Hear(e)
    BY <1>1, <2>2, <2>3, <2>5, <2>6 DEF Bytes!Hear, Busy
  <2>8. QED
    BY <2>7 DEF Bytes!Next
<1>4. QED
  BY <1>2, <1>3

\* The handlers get what they rely on: each kind of stream implements ByteStream.
THEOREM StreamsAreByteStreams == Spec => BytesInOrder
<1>1. ASSUME Init
      PROVE  Bytes!Init
  BY <1>1 DEF Init, Bytes!Init
<1>2. StreamInv /\ StreamInv' /\ [Next]_vars => [Bytes!Next]_(Bytes!bvars)
  <2>1. SUFFICES ASSUME StreamInv, StreamInv', [Next]_vars
                 PROVE  Bytes!Next \/ UNCHANGED Bytes!bvars
    OBVIOUS
  <2>2. CASE UNCHANGED vars
    <3>1. told' = told /\ call' = call /\ heard' = heard
      BY <2>2 DEF vars, turnVars, readVars
    <3>2. QED
      BY <3>1 DEF Bytes!bvars
  <2>3. QED
    BY <2>1, <2>2, WriteRefines, ReadHears, ReadRefines DEF Next
<1>3. QED
  BY <1>1, <1>2, StreamInvHolds, PTL DEF Spec, BytesInOrder, Bytes!Spec
=============================================================================
