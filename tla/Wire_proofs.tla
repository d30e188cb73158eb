------------------------------ MODULE Wire_proofs ------------------------------
(***************************************************************************)
(* Facts about lines and chunks on the byte streams of Wire: what one      *)
(* read() or write() does to a text that is said on one side and heard on  *)
(* the other, wherever the stream cuts it.                                 *)
(***************************************************************************)
EXTENDS Wire, SequenceTheorems, TLAPS

\* What a unit may be part of.
Words == {"body", "00", "FF", "GET /rmbt", "UPGRADE", "RMBT", "ACCEPT TOKEN", "TOKEN", "OK",
          "CHUNKSIZE", "ACCEPT GETCHUNKS", "GETCHUNKS", "PING", "PONG", "GETTIME", "TIME",
          "PUT", "PUTNORESULT", "PUTTIMERESULT", "TIME BYTES", "TIMERESULT", "QUIT", "BYE",
          "ERR"}

Unit == [of : Words, at : {1, 2}, arg : Seq(Nat)]

LEMMA Bounds ==
    /\ Cap \in Nat /\ Cap >= 2
    /\ MinChunk \in Nat /\ MinChunk >= 2
    /\ MaxChunk \in Nat /\ MaxChunk >= MinChunk
BY WireAssumption

\* CHUNK_STORAGE has the smallest size, and twice every other that is not the largest.
LEMMA StoredFacts ==
    /\ MinChunk \in Stored
    /\ \A s \in Stored : /\ s \in Nat /\ MinChunk <= s /\ s <= MaxChunk
                         /\ 2 * s <= MaxChunk => 2 * s \in Stored
<1>1. MinChunk \in Stored
  BY Bounds DEF Stored, Doubled
<1>2. \A s \in Stored : s \in Nat /\ MinChunk <= s /\ s <= MaxChunk
  BY Bounds DEF Stored
<1>3. ASSUME NEW s \in Stored, 2 * s <= MaxChunk
      PROVE  2 * s \in Stored
  <2>1. 2 * s \in MinChunk..MaxChunk
    BY <1>2, <1>3, Bounds
  <2>2. ASSUME NEW S \in SUBSET (MinChunk..MaxChunk), Doubled(S)
        PROVE  2 * s \in S
    <3>1. s \in S
      BY <2>2 DEF Stored
    <3>2. QED
      BY <1>3, <2>2, <3>1 DEF Doubled
  <2>3. QED
    BY <2>1, <2>2 DEF Stored
<1>4. QED
  BY <1>1, <1>2, <1>3

LEMMA PartOf ==
    ASSUME NEW s \in Seq(Unit), NEW m \in Nat, NEW n \in Nat, m + n <= Len(s)
    PROVE  /\ SubSeq(s, m + 1, m + n) \in Seq(Unit) /\ Len(SubSeq(s, m + 1, m + n)) = n
           /\ \A i \in 1..n : SubSeq(s, m + 1, m + n)[i] = s[m + i]
<1>1. Len(s) \in Nat
  OBVIOUS
<1>2. \A i \in (m + 1)..(m + n) : s[i] \in Unit
  BY <1>1
<1>3. m + 1 \in Int /\ m + n \in Int
  OBVIOUS
<1>4. /\ SubSeq(s, m + 1, m + n) \in Seq(Unit)
      /\ Len(SubSeq(s, m + 1, m + n)) = IF m + 1 <= m + n THEN (m + n) - (m + 1) + 1 ELSE 0
      /\ \A i \in 1..((m + n) - (m + 1) + 1) :
            SubSeq(s, m + 1, m + n)[i] = s[(m + 1) + i - 1]
  BY <1>2, <1>3, SubSeqProperties
<1>5. (m + n) - (m + 1) + 1 = n /\ \A i \in Nat : (m + 1) + i - 1 = m + i
  OBVIOUS
<1>6. Len(SubSeq(s, m + 1, m + n)) = n
  BY <1>4
<1>7. \A i \in 1..n : SubSeq(s, m + 1, m + n)[i] = s[m + i]
  <2>1. ASSUME NEW i \in 1..n
        PROVE  SubSeq(s, m + 1, m + n)[i] = s[m + i]
    <3>1. SubSeq(s, m + 1, m + n)[i] = s[(m + 1) + i - 1]
      BY <1>4, <1>5
    <3>2. (m + 1) + i - 1 = m + i
      OBVIOUS
    <3>3. QED
      BY <3>1, <3>2
  <2>2. QED
    BY <2>1
<1>8. QED
  BY <1>4, <1>6, <1>7

LEMMA JoinOf ==
    ASSUME NEW s \in Seq(Unit), NEW t \in Seq(Unit)
    PROVE  /\ s \o t \in Seq(Unit) /\ Len(s \o t) = Len(s) + Len(t)
           /\ Len(s) \in Nat /\ Len(t) \in Nat
           /\ \A i \in 1..Len(s) : (s \o t)[i] = s[i]
           /\ \A i \in 1..Len(t) : (s \o t)[Len(s) + i] = t[i]
<1>1. /\ s \o t \in Seq(Unit) /\ Len(s \o t) = Len(s) + Len(t)
      /\ Len(s) \in Nat /\ Len(t) \in Nat
      /\ \A i \in 1..(Len(s) + Len(t)) :
            (s \o t)[i] = IF i <= Len(s) THEN s[i] ELSE t[i - Len(s)]
  BY ConcatProperties
<1>2. ASSUME NEW i \in 1..Len(t) PROVE (s \o t)[Len(s) + i] = t[i]
  <2>1. Len(s) + i \in 1..(Len(s) + Len(t)) /\ ~(Len(s) + i <= Len(s)) /\ Len(s) + i - Len(s) = i
    BY <1>1
  <2>2. QED
    BY <1>1, <2>1
<1>3. QED
  BY <1>1, <1>2

\* Two parts that cover a sequence, joined, are the sequence.
LEMMA JoinParts ==
    ASSUME NEW s \in Seq(Unit), NEW a \in Seq(Unit), NEW b \in Seq(Unit),
           Len(s) = Len(a) + Len(b),
           \A i \in 1..Len(a) : a[i] = s[i],
           \A i \in 1..Len(b) : b[i] = s[Len(a) + i]
    PROVE  a \o b = s
<1> DEFINE t == a \o b
<1>1. /\ t \in Seq(Unit) /\ Len(t) = Len(s)
      /\ Len(a) \in Nat /\ Len(b) \in Nat
      /\ \A i \in 1..Len(a) : t[i] = a[i]
      /\ \A i \in 1..Len(b) : t[Len(a) + i] = b[i]
  BY JoinOf
<1> HIDE DEF t
<1>2. ASSUME NEW i \in 1..Len(t) PROVE t[i] = s[i]
  <2>1. CASE i <= Len(a)
    BY <1>1, <2>1
  <2>2. CASE ~(i <= Len(a))
    <3>1. i - Len(a) \in 1..Len(b) /\ Len(a) + (i - Len(a)) = i
      BY <1>1, <2>2
    <3>2. QED
      BY <1>1, <3>1
  <2>3. QED
    BY <2>1, <2>2
<1>3. t = s
  BY <1>1, <1>2, SeqEqual
<1>4. QED
  BY <1>3 DEF t

LEMMA JoinThree ==
    ASSUME NEW a \in Seq(Unit), NEW b \in Seq(Unit), NEW c \in Seq(Unit)
    PROVE  (a \o b) \o c = a \o (b \o c)
BY ConcatAssociative

LEMMA LineFacts ==
    ASSUME NEW of \in Words, NEW arg \in Seq(Nat)
    PROVE  /\ Line(of, arg) \in Seq(Unit) /\ Len(Line(of, arg)) = 2
           /\ Line(of, arg)[1] = [of |-> of, at |-> 1, arg |-> arg]
           /\ Line(of, arg)[2] = [of |-> of, at |-> 2, arg |-> arg]
BY DEF Line, Unit

LEMMA ChunkFacts ==
    ASSUME NEW size \in Nat, NEW last \in BOOLEAN
    PROVE  /\ Chunk(size, last) \in Seq(Unit) /\ Len(Chunk(size, last)) = size
           /\ \A i \in 1..(size - 1) : Chunk(size, last)[i].of = "body"
           /\ size > 0 => Chunk(size, last)[size].of = IF last THEN "FF" ELSE "00"
<1>1. <<>> \in Seq(Nat)
  OBVIOUS
<1>2. Chunk(size, last) \in [1..size -> Unit]
  <2>1. ASSUME NEW of \in Words PROVE [of |-> of, at |-> 1, arg |-> <<>>] \in Unit
    BY <1>1 DEF Unit
  <2>3. ASSUME NEW i \in 1..size
        PROVE  (IF i < size THEN "body" ELSE IF last THEN "FF" ELSE "00") \in Words
    BY DEF Words
  <2>4. QED
    BY <2>1, <2>3 DEF Chunk
<1>3. Chunk(size, last) \in Seq(Unit) /\ Len(Chunk(size, last)) = size
  BY <1>2
<1>4. QED
  BY <1>3 DEF Chunk
-----------------------------------------------------------------------------
(* One write(), one read().                                                *)

LEMMA TakenFacts ==
    ASSUME NEW ch \in Seq(Unit), Len(ch) <= Cap, NEW buf \in Seq(Unit), NEW pos \in 0..Len(buf)
    PROVE  LET out == Taken(ch, buf, pos)
           IN  /\ out \in Seq(Unit)
               /\ Len(out) \in Nat /\ pos + Len(out) <= Len(buf)
               /\ Len(out) = Least(Cap - Len(ch), Len(buf) - pos)
               /\ \A i \in 1..Len(out) : out[i] = buf[pos + i]
               /\ ch \o out \in Seq(Unit) /\ Len(ch \o out) = Len(ch) + Len(out)
               /\ Len(ch \o out) <= Cap
<1> DEFINE n == Least(Cap - Len(ch), Len(buf) - pos)
           out == Taken(ch, buf, pos)
<1>1. n \in Nat /\ n <= Len(buf) - pos /\ n <= Cap - Len(ch) /\ Len(buf) \in Nat
  BY Bounds DEF Least
<1>2. pos \in Nat /\ pos + n <= Len(buf)
  BY <1>1
<1>3. out = SubSeq(buf, pos + 1, pos + n)
  BY DEF Taken
<1>4. out \in Seq(Unit) /\ Len(out) = n /\ \A i \in 1..n : out[i] = buf[pos + i]
  <2> HIDE DEF n, out
  <2>1. QED
    BY <1>1, <1>2, <1>3, PartOf
<1>5. ch \o out \in Seq(Unit) /\ Len(ch \o out) = Len(ch) + Len(out)
  BY <1>4, JoinOf
<1> HIDE DEF n, out
<1>6. QED
  BY <1>1, <1>4, <1>5, Bounds DEF n, out

\* There is always room for a line when nothing is on the way.
LEMMA LineIsTaken ==
    ASSUME NEW line \in Seq(Unit), Len(line) = 2
    PROVE  Taken(<<>>, line, 0) = line
<1> DEFINE out == Taken(<<>>, line, 0)
<1>1. <<>> \in Seq(Unit) /\ Len(<<>>) = 0 /\ 0 \in 0..Len(line) /\ Len(<<>>) <= Cap
  BY Bounds
<1>2. /\ out \in Seq(Unit) /\ Len(out) = Least(Cap - Len(<<>>), Len(line) - 0)
      /\ \A i \in 1..Len(out) : out[i] = line[0 + i]
  BY <1>1, TakenFacts, Bounds
<1>3. Len(out) = 2
  BY <1>1, <1>2, Bounds DEF Least
<1>4. \A i \in 1..Len(out) : out[i] = line[i]
  BY <1>2, <1>3
<1> HIDE DEF out
<1>5. out = line
  BY <1>2, <1>3, <1>4, SeqEqual
<1>6. QED
  BY <1>5 DEF out

LEMMA PieceFacts ==
    ASSUME NEW ch \in Seq(Unit), NEW space \in Nat, NEW data \in Pieces(ch, space)
    PROVE  /\ data \in Seq(Unit) /\ Len(data) \in 1..space /\ Len(data) <= Len(ch)
           /\ \A i \in 1..Len(data) : data[i] = ch[i]
           /\ Rest(ch, data) \in Seq(Unit) /\ Len(Rest(ch, data)) = Len(ch) - Len(data)
           /\ \A i \in 1..Len(Rest(ch, data)) : Rest(ch, data)[i] = ch[Len(data) + i]
           /\ data \o Rest(ch, data) = ch
<1>1. PICK n \in 1..Least(Len(ch), space) : data = SubSeq(ch, 1, n)
  BY DEF Pieces
<1>2. n \in Nat /\ n >= 1 /\ n <= Len(ch) /\ n <= space /\ Len(ch) \in Nat
  BY <1>1 DEF Least
<1>3. data \in Seq(Unit) /\ Len(data) = n /\ \A i \in 1..n : data[i] = ch[i]
  <2>1. data = SubSeq(ch, 0 + 1, 0 + n) /\ 0 + n <= Len(ch)
    BY <1>1, <1>2
  <2>2. /\ SubSeq(ch, 0 + 1, 0 + n) \in Seq(Unit) /\ Len(SubSeq(ch, 0 + 1, 0 + n)) = n
        /\ \A i \in 1..n : SubSeq(ch, 0 + 1, 0 + n)[i] = ch[0 + i]
    BY <1>2, <2>1, PartOf
  <2>3. QED
    BY <2>1, <2>2
<1> DEFINE k == Len(ch) - n
           rest == SubSeq(ch, n + 1, n + k)
<1>4. k \in Nat /\ n + k = Len(ch)
  BY <1>2
<1>5. Rest(ch, data) = rest
  BY <1>3, <1>4 DEF Rest
<1> HIDE DEF k
<1>6. rest \in Seq(Unit) /\ Len(rest) = k /\ \A i \in 1..k : rest[i] = ch[n + i]
  BY <1>2, <1>4, PartOf
<1> HIDE DEF rest
<1>7. data \o rest = ch
  BY <1>2, <1>3, <1>4, <1>6, JoinParts
<1>8. Len(rest) = Len(ch) - Len(data)
  BY <1>2, <1>3, <1>4, <1>6
<1>9. QED
  BY <1>2, <1>3, <1>5, <1>6, <1>7, <1>8

\* A read that keeps its bytes leaves the text as it is.
LEMMA ReadKeeps ==
    ASSUME NEW got \in Seq(Unit), NEW ch \in Seq(Unit), NEW space \in Nat,
           NEW data \in Pieces(ch, space)
    PROVE  /\ got \o data \in Seq(Unit) /\ Len(got \o data) = Len(got) + Len(data)
           /\ LastOf(got \o data) = LastOf(data) /\ got \o data # <<>>
           /\ LastOf(got \o data) = (got \o ch)[Len(got \o data)]
           /\ (got \o data) \o Rest(ch, data) = got \o ch
           /\ \A i \in 1..Len(got \o data) : (got \o data)[i] = (got \o ch)[i]
           /\ Len(got \o data) <= Len(got \o ch)
           /\ Rest(ch, data) = <<>> <=> Len(got \o data) = Len(got \o ch)
<1> DEFINE rest == Rest(ch, data)
           text == got \o ch
           read == got \o data
<1>1. /\ data \in Seq(Unit) /\ Len(data) \in 1..space /\ Len(data) <= Len(ch)
      /\ rest \in Seq(Unit) /\ Len(rest) = Len(ch) - Len(data)
      /\ data \o rest = ch
  BY PieceFacts
<1>2. Len(data) \in Nat /\ Len(data) >= 1 /\ Len(got) \in Nat /\ Len(ch) \in Nat
  BY <1>1
<1>3. /\ read \in Seq(Unit) /\ Len(read) = Len(got) + Len(data)
      /\ \A i \in 1..Len(data) : read[Len(got) + i] = data[i]
  BY <1>1, JoinOf
<1>4. text \in Seq(Unit) /\ Len(text) = Len(got) + Len(ch)
  BY JoinOf
<1> HIDE DEF rest, read
<1>5. read \o rest = text
  <2>1. (got \o data) \o rest = got \o (data \o rest)
    BY <1>1, JoinThree
  <2>2. QED
    BY <1>1, <2>1 DEF read
<1> HIDE DEF text
<1>6. \A i \in 1..Len(read) : read[i] = text[i]
  <2>1. \A i \in 1..Len(read) : (read \o rest)[i] = read[i]
    BY <1>1, <1>3, JoinOf
  <2>2. QED
    BY <1>5, <2>1
<1>7. Len(read) \in 1..Len(read) /\ read # <<>>
  BY <1>2, <1>3
<1>8. LastOf(read) = LastOf(data) /\ LastOf(read) = text[Len(read)]
  BY <1>2, <1>3, <1>6, <1>7 DEF LastOf
<1>9. Len(read) <= Len(text) /\ (Len(read) = Len(text) <=> Len(rest) = 0)
  <2>1. /\ Len(read) = Len(got) + Len(data) /\ Len(text) = Len(got) + Len(ch)
        /\ Len(rest) = Len(ch) - Len(data) /\ Len(data) <= Len(ch)
    BY <1>1, <1>3, <1>4
  <2>2. Len(got) + Len(data) <= Len(got) + Len(ch)
    BY <1>2, <2>1
  <2>3. Len(got) + Len(data) = Len(got) + Len(ch) <=> Len(ch) - Len(data) = 0
    BY <1>2
  <2>4. QED
    BY <2>1, <2>2, <2>3
<1>10. Len(rest) = 0 <=> rest = <<>>
  BY <1>1
<1>11. QED
  BY <1>3, <1>5, <1>6, <1>7, <1>8, <1>9, <1>10 DEF rest, read, text
-----------------------------------------------------------------------------
(* Lines.                                                                  *)

\* X is the first n units of text.
StartOf(X, text, n) == Len(X) = n /\ \A i \in 1..n : X[i] = text[i]

\* Writing the line that is next in the text, from its first or its second unit on.
LEMMA SayingLine ==
    ASSUME NEW text \in Seq(Unit), NEW line \in Seq(Unit), Len(line) = 2,
           NEW n \in Nat, n + 2 <= Len(text), text[n + 1] = line[1], text[n + 2] = line[2],
           NEW got \in Seq(Unit), NEW ch \in Seq(Unit), Len(ch) <= Cap,
           NEW w \in {0, 1}, StartOf(got \o ch, text, n + w)
    PROVE  LET out == Taken(ch, line, w)
           IN  /\ ch \o out \in Seq(Unit) /\ Len(ch \o out) <= Cap
               /\ Len(out) \in Nat /\ w + Len(out) <= 2
               /\ StartOf(got \o (ch \o out), text, n + w + Len(out))
<1> DEFINE out == Taken(ch, line, w)
           X == got \o ch
           Y == X \o out
<1>0. w \in 0..Len(line)
  OBVIOUS
<1>1. /\ out \in Seq(Unit) /\ Len(out) \in Nat /\ w + Len(out) <= 2
      /\ \A i \in 1..Len(out) : out[i] = line[w + i]
      /\ ch \o out \in Seq(Unit) /\ Len(ch \o out) <= Cap
  <2>1. /\ out \in Seq(Unit) /\ Len(out) \in Nat /\ w + Len(out) <= Len(line)
        /\ ch \o out \in Seq(Unit) /\ Len(ch \o out) <= Cap
    BY <1>0, TakenFacts
  <2>2. \A i \in 1..Len(out) : out[i] = line[w + i]
    BY <1>0, TakenFacts
  <2>3. QED
    BY <2>1, <2>2
<1> HIDE DEF out
<1>2. X \in Seq(Unit)
  BY JoinOf
<1>3. Y = got \o (ch \o out)
  BY <1>1, JoinThree
<1> HIDE DEF X
<1>4. Len(X) = n + w /\ \A i \in 1..(n + w) : X[i] = text[i]
  BY DEF StartOf, X
<1>5. /\ Len(Y) = Len(X) + Len(out)
      /\ \A i \in 1..Len(X) : Y[i] = X[i]
      /\ \A i \in 1..Len(out) : Y[Len(X) + i] = out[i]
  BY <1>1, <1>2, JoinOf
<1> HIDE DEF Y
<1>6. ASSUME NEW i \in 1..Len(out) PROVE out[i] = text[n + w + i]
  <2>1. w + i \in {1, 2} /\ n + w + i \in {n + 1, n + 2} /\ (w + i = 1 <=> n + w + i = n + 1)
    BY <1>1
  <2>2. QED
    BY <1>1, <2>1
<1>7. ASSUME NEW i \in 1..(n + w + Len(out)) PROVE Y[i] = text[i]
  <2>1. CASE i <= n + w
    BY <1>4, <1>5, <2>1
  <2>2. CASE ~(i <= n + w)
    <3>1. i - (n + w) \in 1..Len(out) /\ n + w + (i - (n + w)) = i
      BY <1>1, <2>2
    <3>2. QED
      BY ZenonT(30), <1>4, <1>5, <1>6, <3>1
  <2>3. QED
    BY <2>1, <2>2
<1>8. StartOf(Y, text, n + w + Len(out))
  BY <1>4, <1>5, <1>7 DEF StartOf
<1>9. QED
  BY <1>1, <1>3, <1>8 DEF out

\* Reading on in a text of which m units are said.
LEMMA HearingText ==
    ASSUME NEW text \in Seq(Unit), NEW m \in Nat, m <= Len(text),
           NEW got \in Seq(Unit), NEW ch \in Seq(Unit), StartOf(got \o ch, text, m),
           NEW space \in Nat, NEW data \in Pieces(ch, space)
    PROVE  LET read == got \o data
           IN  /\ read \in Seq(Unit) /\ Len(read) \in 1..m
               /\ StartOf(read, text, Len(read))
               /\ StartOf(read \o Rest(ch, data), text, m)
               /\ Len(read) = Len(text) => Rest(ch, data) = <<>> /\ m = Len(text)
<1> DEFINE read == got \o data
<1>1. /\ read \in Seq(Unit) /\ read # <<>>
      /\ Len(read) <= Len(got \o ch)
      /\ read \o Rest(ch, data) = got \o ch
  <2>1. read \in Seq(Unit)
    BY ReadKeeps
  <2>2. read # <<>>
    BY ReadKeeps
  <2>3. Len(read) <= Len(got \o ch)
    BY ReadKeeps
  <2>4. read \o Rest(ch, data) = got \o ch
    BY ReadKeeps
  <2>5. QED
    BY <2>1, <2>2, <2>3, <2>4
<1>2. \A i \in 1..Len(read) : read[i] = (got \o ch)[i]
  BY ReadKeeps
<1>3. Rest(ch, data) = <<>> <=> Len(read) = Len(got \o ch)
  BY ReadKeeps
<1> HIDE DEF read
<1>4. Len(got \o ch) = m /\ \A i \in 1..m : (got \o ch)[i] = text[i]
  BY DEF StartOf
<1>5. Len(read) \in 1..m
  BY <1>1, <1>4, EmptySeq
<1>6. StartOf(read, text, Len(read))
  <2>1. \A i \in 1..Len(read) : i \in 1..m
    BY <1>5
  <2>2. QED
    BY <1>2, <1>4, <2>1 DEF StartOf
<1>7. StartOf(read \o Rest(ch, data), text, m)
  BY <1>1
<1>8. Len(read) = Len(text) => Rest(ch, data) = <<>> /\ m = Len(text)
  BY <1>3, <1>4, <1>5
<1>9. QED
  BY <1>1, <1>5, <1>6, <1>7, <1>8 DEF read

\* A reader that looks for the last line of a text finds it when it has all of it.
LEMMA LastLineFound ==
    ASSUME NEW text \in Seq(Unit), NEW line \in Seq(Unit), Len(line) = 2, Len(text) >= 2,
           text[Len(text) - 1] = line[1], text[Len(text)] = line[2],
           \A i \in 1..(Len(text) - 1) : text[i] # line[2],
           NEW read \in Seq(Unit), Len(read) \in 1..Len(text), StartOf(read, text, Len(read))
    PROVE  /\ EndsWith(read, line) <=> Len(read) = Len(text)
           /\ Contains(read, line) <=> Len(read) = Len(text)
<1>1. Len(read) \in Nat /\ Len(text) \in Nat /\ \A i \in 1..Len(read) : read[i] = text[i]
  BY DEF StartOf
<1>2. ASSUME NEW m \in Nat, m + 2 <= Len(read)
      PROVE  SubSeq(read, m + 1, m + 2) = line <=> read[m + 1] = line[1] /\ read[m + 2] = line[2]
  <2> DEFINE part == SubSeq(read, m + 1, m + 2)
  <2>1. part \in Seq(Unit) /\ Len(part) = 2 /\ \A i \in 1..2 : part[i] = read[m + i]
    BY <1>2, PartOf
  <2> HIDE DEF part
  <2>2. part = line <=> part[1] = line[1] /\ part[2] = line[2]
    <3>1. ASSUME part[1] = line[1], part[2] = line[2] PROVE part = line
      <4>1. \A i \in 1..Len(part) : part[i] = line[i]
        BY <2>1, <3>1
      <4>2. QED
        BY <2>1, <4>1, SeqEqual
    <3>2. QED
      BY <3>1
  <2>3. part[1] = read[m + 1] /\ part[2] = read[m + 2]
    BY <2>1
  <2>4. QED
    BY <2>2, <2>3 DEF part
<1>3. ASSUME NEW m \in Nat, m + 2 <= Len(read), SubSeq(read, m + 1, m + 2) = line
      PROVE  m + 2 = Len(text)
  <2>1. text[m + 2] = line[2] /\ m + 2 \in 1..Len(text)
    BY <1>1, <1>2, <1>3
  <2>2. QED
    BY <1>1, <2>1
<1>4. ASSUME Len(read) = Len(text)
      PROVE  /\ Len(read) - 2 \in Nat /\ (Len(read) - 2) + 2 <= Len(read)
             /\ SubSeq(read, (Len(read) - 2) + 1, (Len(read) - 2) + 2) = line
  <2>1. Len(read) - 2 \in Nat /\ (Len(read) - 2) + 2 <= Len(read)
        /\ (Len(read) - 2) + 1 = Len(text) - 1 /\ (Len(read) - 2) + 2 = Len(text)
        /\ Len(text) - 1 \in 1..Len(read) /\ Len(text) \in 1..Len(read)
    BY <1>1, <1>4
  <2>2. QED
    BY <1>1, <1>2, <2>1
<1>5. Contains(read, line) <=> Len(read) = Len(text)
  <2>1. ASSUME Contains(read, line) PROVE Len(read) = Len(text)
    <3>1. PICK m \in 0..(Len(read) - 2) : SubSeq(read, m + 1, m + 2) = line
      BY <2>1 DEF Contains
    <3>2. m \in Nat /\ m + 2 <= Len(read)
      BY <1>1
    <3>3. QED
      BY <1>1, <1>3, <3>1, <3>2
  <2>2. ASSUME Len(read) = Len(text) PROVE Contains(read, line)
    <3>1. Len(read) - 2 \in 0..(Len(read) - 2)
      BY <1>4, <2>2
    <3>2. QED
      BY <1>4, <2>2, <3>1 DEF Contains
  <2>3. QED
    BY <2>1, <2>2
<1>6. EndsWith(read, line) <=> Len(read) = Len(text)
  <2>1. ASSUME Len(read) >= 2
        PROVE  /\ Len(read) - 2 \in Nat /\ (Len(read) - 2) + 2 = Len(read)
               /\ Len(read) - Len(line) + 1 = (Len(read) - 2) + 1
    BY <1>1, <2>1
  <2>2. ASSUME EndsWith(read, line) PROVE Len(read) = Len(text)
    <3>1. Len(read) >= 2 /\ SubSeq(read, Len(read) - Len(line) + 1, Len(read)) = line
      BY <2>2 DEF EndsWith
    <3>2. SubSeq(read, (Len(read) - 2) + 1, (Len(read) - 2) + 2) = line
      BY <2>1, <3>1
    <3>3. Len(read) - 2 \in Nat /\ (Len(read) - 2) + 2 = Len(read)
      BY <2>1, <3>1
    <3>4. (Len(read) - 2) + 2 = Len(text)
      BY <1>1, <1>3, <3>2, <3>3
    <3>5. QED
      BY <3>3, <3>4
  <2>3. ASSUME Len(read) = Len(text) PROVE EndsWith(read, line)
    BY <1>4, <2>1, <2>3 DEF EndsWith
  <2>4. QED
    BY <2>2, <2>3
<1>7. QED
  BY <1>5, <1>6

\* What the facts about lines need of one.
IsLine(line, of) ==
    /\ line \in Seq(Unit) /\ Len(line) = 2
    /\ line[1].of = of /\ line[1].at = 1 /\ line[2].of = of /\ line[2].at = 2

\* A line that is read in one piece or in two: with `data` all of it is read, or its
\* first half.
WholeLine(line, got, data, rest) ==
    /\ rest = <<>> /\ got \o data = line
    /\ EndsLine(got \o data) /\ EndsLine(data) /\ LastOf(data) = line[2]
HalfLine(line, got, data, rest) ==
    /\ rest # <<>> /\ got = <<>> /\ Len(data) = 1 /\ data # line
    /\ (got \o data) \o rest = line
    /\ ~EndsLine(got \o data) /\ ~EndsLine(data) /\ LastOf(data) = line[1]

LEMMA HearingLine ==
    ASSUME NEW line \in Seq(Unit), NEW word, IsLine(line, word),
           NEW got \in Seq(Unit), NEW ch \in Seq(Unit), got \o ch = line,
           NEW space \in Nat, NEW data \in Pieces(ch, space)
    PROVE  \/ WholeLine(line, got, data, Rest(ch, data))
           \/ HalfLine(line, got, data, Rest(ch, data))
<1> DEFINE read == got \o data
<1>0. /\ line \in Seq(Unit) /\ Len(line) = 2 /\ line[1].at = 1 /\ line[2].at = 2
      /\ Len(got \o ch) = 2
  BY DEF IsLine
<1>1. /\ read \in Seq(Unit) /\ Len(read) = Len(got) + Len(data) /\ read # <<>>
      /\ LastOf(read) = LastOf(data) /\ LastOf(read) = line[Len(read)]
      /\ read \o Rest(ch, data) = line
      /\ \A i \in 1..Len(read) : read[i] = line[i]
      /\ Len(read) <= 2
      /\ Len(read) = 2 <=> Rest(ch, data) = <<>>
  <2>1. /\ read \in Seq(Unit) /\ Len(read) = Len(got) + Len(data) /\ read # <<>>
        /\ LastOf(read) = LastOf(data) /\ LastOf(read) = (got \o ch)[Len(read)]
    BY ReadKeeps
  <2>2. Len(read) <= Len(got \o ch) /\ read \o Rest(ch, data) = got \o ch
    BY ReadKeeps
  <2>3. \A i \in 1..Len(read) : read[i] = (got \o ch)[i]
    BY ReadKeeps
  <2>4. Rest(ch, data) = <<>> <=> Len(read) = Len(got \o ch)
    BY ReadKeeps
  <2> HIDE DEF read
  <2>5. QED
    BY <1>0, <2>1, <2>2, <2>3, <2>4
<1>2. data \in Seq(Unit) /\ Len(data) \in 1..space
  BY PieceFacts
<1> HIDE DEF read
<1>3. Len(got) \in Nat /\ Len(data) \in Nat /\ Len(data) >= 1 /\ data # <<>>
  BY <1>2
<1>4. CASE Len(read) = 2
  <2>1. read = line
    BY <1>0, <1>1, <1>4, SeqEqual
  <2>2. LastOf(data).at = 2 /\ LastOf(read).at = 2 /\ LastOf(data) = line[2]
    BY <1>0, <1>1, <1>4
  <2>3. QED
    BY <1>1, <1>3, <1>4, <2>1, <2>2 DEF EndsLine, read, WholeLine
<1>5. CASE Len(read) # 2
  <2>1. Len(got) = 0 /\ Len(data) = 1 /\ Len(read) = 1
    <3>1. Len(read) = Len(got) + Len(data) /\ Len(read) <= 2
      BY <1>1
    <3>2. ASSUME NEW g \in Nat, NEW d \in Nat, d >= 1, g + d <= 2, g + d # 2
          PROVE  g = 0 /\ d = 1
      BY <3>2
    <3>3. Len(got) = 0 /\ Len(data) = 1
      BY <1>3, <1>5, <3>1, <3>2
    <3>4. QED
      BY <3>1, <3>3
  <2>2. got = <<>>
    BY <2>1
  <2>3. LastOf(data).at = 1 /\ LastOf(read).at = 1 /\ LastOf(data) = line[1]
    BY <1>0, <1>1, <2>1
  <2>4. data # line
    BY <1>0, <2>1
  <2>5. QED
    BY <1>1, <1>5, <2>1, <2>2, <2>3, <2>4 DEF EndsLine, read, HalfLine
<1>6. QED
  BY <1>4, <1>5
-----------------------------------------------------------------------------
(* Chunks.                                                                 *)

IsMark(u) == u.of \in {"00", "FF"}

\* X is a stream of chunks of `size` units, of the last of which w units are there; the
\* one that ends with 0xFF is there when `ended`, and nothing follows it.
Chunked(X, size, w, ended) ==
    /\ w \in 0..(size - 1)
    /\ \A i \in 1..Len(X) : X[i].of \in {"body", "00", "FF"}
    /\ \A i \in 0..Len(X) : (i = 0 \/ IsMark(X[i])) =>
          IF i + size <= Len(X)
          THEN IsMark(X[i + size]) /\ \A j \in (i + 1)..(i + size - 1) : ~IsMark(X[j])
          ELSE Len(X) = i + w /\ \A j \in (i + 1)..Len(X) : ~IsMark(X[j])
    /\ \A i \in 1..Len(X) : X[i].of = "FF" => i = Len(X) /\ ended
    /\ ended => w = 0 /\ Len(X) > 0 /\ X[Len(X)].of = "FF"

LEMMA NoChunkYet ==
    ASSUME NEW size \in Nat, size > 0
    PROVE  Chunked(<<>>, size, 0, FALSE)
BY DEF Chunked

\* Writing more of a chunk.
LEMMA SayingChunk ==
    ASSUME NEW size \in Nat, NEW last \in BOOLEAN, NEW X \in Seq(Unit), NEW w \in Nat,
           Chunked(X, size, w, FALSE),
           NEW out \in Seq(Unit), Len(out) >= 1, w + Len(out) <= size,
           \A i \in 1..Len(out) : out[i] = Chunk(size, last)[w + i]
    PROVE  IF w + Len(out) = size THEN Chunked(X \o out, size, 0, last)
           ELSE Chunked(X \o out, size, w + Len(out), FALSE)
<1> DEFINE k == Len(out)
           n == Len(X)
           Y == X \o out
           v == IF w + k = size THEN 0 ELSE w + k
           e == last /\ w + k = size
<1>1. /\ Y \in Seq(Unit) /\ Len(Y) = n + k /\ n \in Nat /\ k \in Nat
      /\ \A i \in 1..n : Y[i] = X[i]
      /\ \A i \in 1..k : Y[n + i] = out[i]
  BY JoinOf
<1>2. k >= 1 /\ w + k <= size
  OBVIOUS
<1>3. ASSUME NEW j \in 1..k
      PROVE  /\ w + j <= size
             /\ Y[n + j].of = IF w + j < size THEN "body" ELSE IF last THEN "FF" ELSE "00"
  <2>1. out[j] = Chunk(size, last)[w + j] /\ Y[n + j] = out[j]
    BY <1>1
  <2>2. w + j \in 1..size
    BY <1>2
  <2>3. QED
    BY <2>1, <2>2 DEF Chunk
<1>4. w < size /\ size > 0
  BY DEF Chunked
<1>a. /\ \A i \in 1..n : X[i].of \in {"body", "00", "FF"} /\ X[i].of # "FF"
      /\ \A i \in 0..n : (i = 0 \/ IsMark(X[i])) =>
          IF i + size <= n
          THEN IsMark(X[i + size]) /\ \A j \in (i + 1)..(i + size - 1) : ~IsMark(X[j])
          ELSE n = i + w /\ \A j \in (i + 1)..n : ~IsMark(X[j])
  BY DEF Chunked
<1>b. (w + k = size <=> v = 0) /\ (w + k # size => v = w + k) /\ v \in 0..(size - 1)
  <2>1. k \in Nat /\ w + k >= 1
    BY <1>1, <1>2
  <2>2. (w + k = size <=> v = 0) /\ (w + k # size => v = w + k)
    BY <2>1
  <2>3. v \in 0..(size - 1)
    BY <1>2, <1>4, <2>1
  <2>4. QED
    BY <2>2, <2>3
<1>c. e <=> last /\ w + k = size
  OBVIOUS
<1> HIDE DEF k, n, Y, v, e
<1>5. ASSUME NEW i \in 1..(n + k), ~(i <= n)
      PROVE  \E j \in 1..k : i = n + j
  <2>1. i - n \in 1..k /\ i = n + (i - n)
    BY <1>1, <1>5
  <2>2. QED
    BY <2>1
<1>6. ASSUME NEW i \in 1..(n + k) PROVE Y[i].of \in {"body", "00", "FF"}
  <2>1. CASE i <= n
    BY <1>1, <1>a, <2>1
  <2>2. CASE ~(i <= n)
    BY <1>3, <1>5, <2>2
  <2>3. QED
    BY <2>1, <2>2
<1>7. ASSUME NEW i \in 1..(n + k), Y[i].of = "FF" PROVE i = n + k /\ e
  <2>1. ~(i <= n)
    BY <1>1, <1>7, <1>a
  <2>2. PICK j \in 1..k : i = n + j
    BY <1>5, <2>1
  <2>3. ~(w + j < size) /\ w + j <= size /\ last
    BY <1>3, <1>7, <2>2
  <2>4. j = k /\ w + k = size
    BY <1>1, <1>2, <2>3
  <2>5. QED
    BY <1>c, <2>2, <2>3, <2>4
<1>8. ASSUME e PROVE n + k > 0 /\ Y[n + k].of = "FF"
  <2>1. k \in 1..k /\ n + k > 0 /\ ~(w + k < size) /\ last
    BY <1>1, <1>2, <1>8, <1>c
  <2>2. QED
    BY <1>3, <2>1
<1>9. ASSUME NEW i \in 0..(n + k), i = 0 \/ IsMark(Y[i])
      PROVE  IF i + size <= n + k
             THEN IsMark(Y[i + size]) /\ \A j \in (i + 1)..(i + size - 1) : ~IsMark(Y[j])
             ELSE n + k = i + v /\ \A j \in (i + 1)..(n + k) : ~IsMark(Y[j])
  <2>1. CASE i <= n /\ i + size <= n
    <3>1. i \in 0..n /\ (i = 0 \/ IsMark(X[i]))
      BY <1>1, <1>9, <2>1
    <3>2. IsMark(X[i + size]) /\ \A j \in (i + 1)..(i + size - 1) : ~IsMark(X[j])
      BY <2>1, <3>1, <1>a
    <3>3. i + size \in 1..n /\ \A j \in (i + 1)..(i + size - 1) : j \in 1..n
      BY <1>1, <1>4, <2>1
    <3>4. i + size <= n + k
      BY <1>1, <2>1
    <3>5. QED
      BY <1>1, <3>2, <3>3, <3>4
  <2>2. CASE i <= n /\ ~(i + size <= n)
    <3>1. i \in 0..n /\ (i = 0 \/ IsMark(X[i]))
      BY <1>1, <1>9, <2>2
    <3>2. n = i + w /\ \A j \in (i + 1)..n : ~IsMark(X[j])
      BY <2>2, <3>1, <1>a
    <3>3. ASSUME NEW j \in (i + 1)..(n + k), j < i + size PROVE ~IsMark(Y[j])
      <4>1. CASE j <= n
        <5>1. j \in 1..n /\ j \in (i + 1)..n
          BY <1>1, <4>1
        <5>2. QED
          BY <1>1, <3>2, <5>1
      <4>2. CASE ~(j <= n)
        <5>1. j \in 1..(n + k)
          BY <1>1
        <5>2. PICK l \in 1..k : j = n + l
          BY <1>5, <4>2, <5>1
        <5>3. w + l < size
          BY <3>2, <3>3, <1>1, <5>2
        <5>4. Y[j].of = "body"
          BY <1>3, <5>2, <5>3
        <5>5. QED
          BY <5>4 DEF IsMark
      <4>3. QED
        BY <4>1, <4>2
    <3>4. CASE w + k = size
      <4>1. i + size = n + k /\ k \in 1..k
        BY <1>1, <1>2, <3>2, <3>4
      <4>2. IsMark(Y[i + size])
        <5>1. Y[n + k].of = IF last THEN "FF" ELSE "00"
          BY <1>3, <3>4, <4>1
        <5>2. QED
          BY <4>1, <5>1 DEF IsMark
      <4>3. \A j \in (i + 1)..(i + size - 1) : j \in (i + 1)..(n + k) /\ j < i + size
        BY <1>1, <4>1
      <4>4. QED
        BY <3>3, <4>1, <4>2, <4>3
    <3>5. CASE w + k # size
      <4>1. n + k = i + v /\ n + k < i + size
        BY <1>1, <1>2, <1>b, <3>2, <3>5
      <4>2. \A j \in (i + 1)..(n + k) : j < i + size
        BY <1>1, <4>1
      <4>3. ~(i + size <= n + k)
        BY <1>1, <4>1
      <4>4. QED
        BY <3>3, <4>1, <4>2, <4>3
    <3>6. QED
      BY <3>4, <3>5
  <2>3. CASE ~(i <= n)
    <3>1. i \in 1..(n + k) /\ IsMark(Y[i])
      BY <1>1, <1>9, <2>3
    <3>2. PICK j \in 1..k : i = n + j
      BY <1>5, <2>3, <3>1
    <3>3. ~(w + j < size) /\ w + j <= size
      BY <1>3, <3>1, <3>2 DEF IsMark
    <3>4. i = n + k /\ w + k = size
      BY <1>1, <1>2, <3>2, <3>3
    <3>5. QED
      BY <1>1, <1>4, <1>b, <3>4
  <2>4. QED
    BY <2>1, <2>2, <2>3
<1>10. Chunked(Y, size, v, e)
  <2>1. e => v = 0
    BY <1>b, <1>c
  <2>2. QED
    BY <1>1, <1>6, <1>7, <1>8, <1>9, <1>b, <2>1 DEF Chunked
<1>11. w + k = size => v = 0 /\ (e <=> last)
  BY <1>b, <1>c
<1>12. w + k # size => v = w + k /\ ~e
  BY <1>b, <1>c
<1>13. (e = last \/ ~(w + k = size)) /\ (e = FALSE \/ w + k = size)
  BY <1>11, <1>12 DEF e
<1>14. QED
  BY <1>10, <1>11, <1>12, <1>13 DEF Y, k

\* Taking the first chunk off.
LEMMA HearingChunk ==
    ASSUME NEW size \in Nat, NEW X \in Seq(Unit), NEW w \in Nat, NEW ended \in BOOLEAN,
           Chunked(X, size, w, ended), size <= Len(X),
           NEW R \in Seq(Unit), Len(R) = Len(X) - size,
           \A i \in 1..Len(R) : R[i] = X[size + i]
    PROVE  /\ X[size].of \in {"00", "FF"}
           /\ X[size].of = "FF" => ended /\ Len(X) = size /\ w = 0
           /\ X[size].of = "00" => Chunked(R, size, w, ended)
<1>1. Len(X) \in Nat /\ size > 0 /\ size \in 1..Len(X) /\ Len(R) \in Nat
  BY DEF Chunked
<1>2. IsMark(X[size])
  <2>1. 0 \in 0..Len(X) /\ 0 + size = size
    BY <1>1
  <2>2. QED
    BY <2>1 DEF Chunked
<1>3. X[size].of = "FF" => ended /\ Len(X) = size /\ w = 0
  BY <1>1 DEF Chunked
<1>4. ASSUME X[size].of = "00" PROVE Chunked(R, size, w, ended)
  <2>1. \A i \in 1..Len(R) : size + i \in 1..Len(X)
    BY <1>1
  <2>2. \A i \in 1..Len(R) : R[i].of \in {"body", "00", "FF"}
    BY <2>1 DEF Chunked
  <2>3. ASSUME NEW i \in 1..Len(R), R[i].of = "FF" PROVE i = Len(R) /\ ended
    <3>1. size + i = Len(X) /\ ended
      BY <2>1, <2>3 DEF Chunked
    <3>2. ASSUME NEW n \in Nat, NEW r \in Nat, r = n - size, size + i = n
          PROVE  i = r
      BY <3>2
    <3>3. QED
      BY <1>1, <3>1, <3>2
  <2>4. ASSUME ended PROVE w = 0 /\ Len(R) > 0 /\ R[Len(R)].of = "FF"
    <3>1. w = 0 /\ Len(X) > 0 /\ X[Len(X)].of = "FF"
      BY <2>4 DEF Chunked
    <3>2. Len(X) # size
      BY <1>4, <3>1
    <3>3. Len(R) \in 1..Len(R) /\ size + Len(R) = Len(X)
      BY <1>1, <3>2
    <3>4. QED
      BY <1>1, <3>1, <3>3
  <2>5. ASSUME NEW i \in 0..Len(R), i = 0 \/ IsMark(R[i])
        PROVE  IF i + size <= Len(R)
               THEN IsMark(R[i + size]) /\ \A j \in (i + 1)..(i + size - 1) : ~IsMark(R[j])
               ELSE Len(R) = i + w /\ \A j \in (i + 1)..Len(R) : ~IsMark(R[j])
    <3> DEFINE m == size + i
    <3>1. m \in 0..Len(X) /\ IsMark(X[m])
      <4>1. CASE i = 0
        BY <1>1, <1>2, <4>1
      <4>2. CASE i # 0
        BY <1>1, <2>1, <2>5, <4>2
      <4>3. QED
        BY <4>1, <4>2
    <3>2. /\ m + size <= Len(X) <=> i + size <= Len(R)
          /\ Len(X) = m + w <=> Len(R) = i + w
      BY <1>1
    <3>3. CASE i + size <= Len(R)
      <4>1. IsMark(X[m + size]) /\ \A j \in (m + 1)..(m + size - 1) : ~IsMark(X[j])
        <5> HIDE DEF m
        <5>1. QED
          BY <3>1, <3>2, <3>3 DEF Chunked
      <4>2. i + size \in 1..Len(R) /\ m + size = size + (i + size)
        BY <1>1, <3>3
      <4>3. \A j \in (i + 1)..(i + size - 1) :
               j \in 1..Len(R) /\ size + j \in (m + 1)..(m + size - 1)
        BY <1>1, <3>3
      <4>4. QED
        BY <3>3, <4>1, <4>2, <4>3
    <3>4. CASE ~(i + size <= Len(R))
      <4>1. Len(X) = m + w /\ \A j \in (m + 1)..Len(X) : ~IsMark(X[j])
        <5> HIDE DEF m
        <5>1. QED
          BY <3>1, <3>2, <3>4 DEF Chunked
      <4>2. \A j \in (i + 1)..Len(R) : j \in 1..Len(R) /\ size + j \in (m + 1)..Len(X)
        BY <1>1
      <4>3. QED
        BY <3>2, <3>4, <4>1, <4>2
    <3>5. QED
      BY <3>3, <3>4
  <2>6. w \in 0..(size - 1)
    BY DEF Chunked
  <2>7. QED
    BY <2>2, <2>3, <2>4, <2>5, <2>6 DEF Chunked
<1>5. QED
  BY <1>2, <1>3, <1>4 DEF IsMark

\* While a stream of chunks has ended, there is a whole chunk of it.
LEMMA EndIsWhole ==
    ASSUME NEW size \in Nat, NEW X \in Seq(Unit), NEW w, Chunked(X, size, w, TRUE)
    PROVE  size <= Len(X)
<1>1. Len(X) \in Nat /\ w = 0 /\ Len(X) > 0
  BY DEF Chunked
<1>2. 0 \in 0..Len(X) /\ 0 + size = size
  BY <1>1
<1>3. ~(size <= Len(X)) => Len(X) = 0
  BY <1>1, <1>2 DEF Chunked
<1>4. QED
  BY <1>1, <1>3
=============================================================================
