------------------------- MODULE MessagePathProofs -------------------------
(***************************************************************************)
(* Theorems about MessagePath, for messages of any length, in any number   *)
(* of chunks, cut anywhere and read in any segmentation.                   *)
(***************************************************************************)
EXTENDS MessagePath, DataInduction

\* Concatenation element by element.
IsConcat(r, p, q) ==
  /\ Len(r) = Len(p) + Len(q) /\ Len(p) \in Nat /\ Len(q) \in Nat
  /\ \A i \in 1..Len(p) : r[i] = p[i]
  /\ \A i \in 1..Len(q) : r[Len(p) + i] = q[i]

LEMMA Concatenated ==
  ASSUME NEW S, NEW p \in Seq(S), NEW q \in Seq(S)
  PROVE  p \o q \in Seq(S) /\ IsConcat(p \o q, p, q)
BY DEF IsConcat

\* A part of a sequence: n elements after the first f.
IsPart(q, s, f, n) == Len(q) = n /\ \A i \in 1..n : q[i] = s[f + i]

LEMMA PartOf ==
  ASSUME NEW S, NEW s \in Seq(S), NEW f \in Nat, NEW l \in f..Len(s)
  PROVE  SubSeq(s, f + 1, l) \in Seq(S) /\ IsPart(SubSeq(s, f + 1, l), s, f, l - f)
<1>1. PICK q : q = SubSeq(s, f + 1, l)
  OBVIOUS
<1>2. Len(s) \in Nat /\ \A i \in 1..Len(s) : s[i] \in S
  OBVIOUS
<1>3. f + 1 \in Int /\ l \in Int /\ \A i \in (f + 1)..l : s[i] \in S
  BY <1>2
<1>4. q \in Seq(S) /\ Len(q) = (IF f + 1 <= l THEN l - (f + 1) + 1 ELSE 0)
      /\ \A i \in 1..(l - (f + 1) + 1) : q[i] = s[(f + 1) + i - 1]
  BY <1>1, <1>3, SubSeqProperties
<1>5. Len(q) = l - f
  BY <1>2, <1>4
<1>6. \A i \in 1..(l - f) : (f + 1) + i - 1 = f + i /\ i \in 1..(l - (f + 1) + 1)
  BY <1>2
<1>7. \A i \in 1..(l - f) : q[i] = s[f + i]
  BY <1>4, <1>6
<1> QED
  BY <1>1, <1>4, <1>5, <1>7 DEF IsPart
----------------------------------------------------------------------------
(* The wire of a message.                                                  *)

LEMMA MessageFacts ==
  ASSUME NEW m \in Messages
  PROVE  /\ m.body \in Seq(Unit) /\ m.extra \in Seq(Unit)
         /\ Len(m.chunks) \in Nat /\ DOMAIN m.chunks = 1..Len(m.chunks)
         /\ \A i \in 1..Len(m.chunks) :
              /\ m.chunks[i].size \in Unit /\ m.chunks[i].data \in Seq(Unit)
              /\ Len(m.chunks[i].data) \in Nat /\ Len(m.chunks[i].data) > 0
              /\ ChunkUnits(m.chunks[i]) \in Seq(Unit)
<1>1. m.chunks \in Seq([size : Unit, data : Seq(Unit)])
  BY ReaderAssumption
<1>2. Len(m.chunks) \in Nat /\ DOMAIN m.chunks = 1..Len(m.chunks)
  BY <1>1
<1>3. ASSUME NEW i \in 1..Len(m.chunks)
      PROVE  /\ m.chunks[i].size \in Unit /\ m.chunks[i].data \in Seq(Unit)
             /\ m.chunks[i].data # <<>>
  <2>1. m.chunks[i] \in [size : Unit, data : Seq(Unit)]
    <3>1. ASSUME NEW R, NEW q \in Seq(R), NEW j \in 1..Len(q) PROVE q[j] \in R
      OBVIOUS
    <3> QED
      BY <1>1, <3>1
  <2>2. m.chunks[i].data # <<>>
    BY <1>2, ReaderAssumption
  <2> QED
    BY <2>1, <2>2
<1>4. ASSUME NEW i \in 1..Len(m.chunks)
      PROVE  /\ Len(m.chunks[i].data) \in Nat /\ Len(m.chunks[i].data) > 0
             /\ ChunkUnits(m.chunks[i]) \in Seq(Unit)
  <2>1. PICK s \in Unit, d \in Seq(Unit) :
          s = m.chunks[i].size /\ d = m.chunks[i].data /\ d # <<>>
    BY <1>3
  <2>2. Len(d) \in Nat /\ Len(d) > 0
    BY <2>1, EmptySeq
  <2>3. <<s, "\n">> \in Seq(Unit) /\ <<"\r", "\n">> \in Seq(Unit)
    BY <2>1, ReaderAssumption
  <2>4. <<s, "\n">> \o d \o <<"\r", "\n">> \in Seq(Unit)
    BY <2>1, <2>3, ConcatProperties
  <2> QED
    BY <2>1, <2>2, <2>4 DEF ChunkUnits
<1> QED
  BY <1>2, <1>3, <1>4, ReaderAssumption

LEMMA ChunkLists ==
  ASSUME NEW m \in Messages
  PROVE  /\ Units(m) \in Seq(Seq(Unit)) /\ Len(Units(m)) = Len(m.chunks)
         /\ Data(m) \in Seq(Seq(Unit)) /\ Len(Data(m)) = Len(m.chunks)
         /\ \A i \in 1..Len(m.chunks) : /\ Units(m)[i] = ChunkUnits(m.chunks[i])
                                        /\ Data(m)[i] = m.chunks[i].data
<1> DEFINE n == Len(m.chunks)
           T == Seq(Unit)
<1>1. n \in Nat /\ DOMAIN m.chunks = 1..n
  BY MessageFacts
<1>2. \A i \in 1..n : m.chunks[i].data \in T /\ ChunkUnits(m.chunks[i]) \in T
  BY MessageFacts
<1> HIDE DEF n, T
<1>3. Units(m) = [i \in 1..n |-> ChunkUnits(m.chunks[i])]
  BY <1>1 DEF Units
<1>4. Data(m) = [i \in 1..n |-> m.chunks[i].data]
  BY <1>1 DEF Data
<1>5. Units(m) \in Seq(T) /\ Len(Units(m)) = n
  BY <1>1, <1>2, <1>3
<1>6. Data(m) \in Seq(T) /\ Len(Data(m)) = n
  BY <1>1, <1>2, <1>4
<1> QED
  BY <1>3, <1>4, <1>5, <1>6 DEF n, T

LEMMA PayloadType ==
  ASSUME NEW m \in Messages
  PROVE  /\ Payload(m) \in Seq(Unit) /\ Wire(m) \in Seq(Unit)
         /\ FlattenSeq(Units(m)) \in Seq(Unit) /\ FlattenSeq(Data(m)) \in Seq(Unit)
<1>0. /\ m.body \in Seq(Unit) /\ m.extra \in Seq(Unit)
      /\ Units(m) \in Seq(Seq(Unit)) /\ Data(m) \in Seq(Seq(Unit))
  BY MessageFacts, ChunkLists
<1>1. FlattenSeq(Units(m)) \in Seq(Unit) /\ FlattenSeq(Data(m)) \in Seq(Unit)
  <2>1. <<>> \in Seq(Unit)
    BY EmptySeq
  <2> QED
    BY <1>0, <2>1, FlattenAppend
<1>2. LastChunk \in Seq(Unit) /\ HeadUnits \in Seq(Unit) /\ <<>> \in Seq(Unit)
  BY EmptySeq, ReaderAssumption DEF LastChunk, HeadUnits
<1>3. FlattenSeq(Units(m)) \o LastChunk \in Seq(Unit)
  BY <1>1, <1>2, ConcatProperties
<1>4. Payload(m) \in Seq(Unit)
  BY <1>0, <1>2, <1>3 DEF Payload
<1>5. HeadUnits \o Payload(m) \in Seq(Unit)
  BY <1>2, <1>4, ConcatProperties
<1>6. Wire(m) \in Seq(Unit)
  BY <1>0, <1>5, ConcatProperties DEF Wire
<1> QED
  BY <1>1, <1>4, <1>6

\* The head, what is sent, and what follows.
LEMMA WireParts ==
  ASSUME NEW m \in Messages
  PROVE  /\ Len(Wire(m)) = HeadLen + Len(Payload(m)) + Len(m.extra)
         /\ Len(Payload(m)) \in Nat /\ Len(m.extra) \in Nat
         /\ Wire(m)[1] = "SL" /\ Wire(m)[2] = "FR" /\ Wire(m)[3] = "HE"
         /\ \A i \in 1..Len(Payload(m)) : Wire(m)[HeadLen + i] = Payload(m)[i]
         /\ \A i \in 1..Len(m.extra) : Wire(m)[HeadLen + Len(Payload(m)) + i] = m.extra[i]
<1>1. PICK p \in Seq(Unit), x \in Seq(Unit) : p = Payload(m) /\ x = m.extra
  BY PayloadType, MessageFacts
<1>2. PICK h : h = HeadUnits
  OBVIOUS
<1>3. h \in Seq(Unit) /\ Len(h) = 3 /\ h[1] = "SL" /\ h[2] = "FR" /\ h[3] = "HE"
  BY <1>2, ReaderAssumption DEF HeadUnits
<1>4. PICK q : q = h \o p
  OBVIOUS
<1>40. q \in Seq(Unit) /\ IsConcat(q, h, p)
  BY <1>3, <1>4, Concatenated
<1>5. PICK w : w = q \o x
  OBVIOUS
<1>50. w \in Seq(Unit) /\ IsConcat(w, q, x)
  BY <1>40, <1>5, Concatenated
<1> USE DEF IsConcat
<1>6. w = Wire(m)
  BY <1>1, <1>2, <1>4, <1>5 DEF Wire
<1>7. Len(p) \in Nat /\ Len(x) \in Nat
  OBVIOUS
<1>8. w[1] = "SL" /\ w[2] = "FR" /\ w[3] = "HE"
  <2>1. 1 \in 1..3 /\ 2 \in 1..3 /\ 3 \in 1..3 /\ 1 \in 1..Len(q) /\ 2 \in 1..Len(q)
        /\ 3 \in 1..Len(q)
    BY <1>3, <1>40, <1>7, <1>7
  <2> QED
    BY <1>3, <1>40, <1>50, <2>1
<1>9. \A i \in 1..Len(p) : w[3 + i] = p[i]
  <2>1. \A i \in 1..Len(p) : 3 + i \in 1..Len(q)
    BY <1>3, <1>40, <1>7, <1>7
  <2> QED
    BY <1>3, <1>40, <1>50, <2>1
<1>10. \A i \in 1..Len(x) : w[3 + Len(p) + i] = x[i]
  BY <1>3, <1>40, <1>50
<1> QED
  BY <1>1, <1>3, <1>40, <1>50, <1>6, <1>7, <1>8, <1>9, <1>10 DEF HeadLen

LEMMA ChunkParts ==
  ASSUME NEW c, c.size \in Unit, c.data \in Seq(Unit), NEW u, u = ChunkUnits(c)
  PROVE  /\ u \in Seq(Unit) /\ Len(u) = 4 + Len(c.data) /\ Len(c.data) \in Nat
         /\ u[1] = c.size /\ u[2] = "\n"
         /\ \A i \in 1..Len(c.data) : u[2 + i] = c.data[i]
<1>1. PICK s \in Unit, d \in Seq(Unit) : s = c.size /\ d = c.data
  OBVIOUS
<1>2. PICK h : h = <<s, "\n">>
  OBVIOUS
<1>3. h \in Seq(Unit) /\ Len(h) = 2 /\ h[1] = s /\ h[2] = "\n"
  BY <1>2, ReaderAssumption
<1>4. PICK e : e = <<"\r", "\n">>
  OBVIOUS
<1>5. e \in Seq(Unit) /\ Len(e) = 2
  BY <1>4, ReaderAssumption
<1>6. PICK q : q = h \o d
  OBVIOUS
<1>7. q \in Seq(Unit) /\ IsConcat(q, h, d)
  BY <1>3, <1>6, Concatenated
<1>8. u = q \o e
  BY <1>1, <1>2, <1>4, <1>6 DEF ChunkUnits
<1>9. u \in Seq(Unit) /\ IsConcat(u, q, e)
  BY <1>5, <1>7, <1>8, Concatenated
<1>10. Len(d) \in Nat
  OBVIOUS
<1> USE DEF IsConcat
<1>11. \A i \in 1..Len(d) : 2 + i \in 1..Len(q)
  BY <1>3, <1>7, <1>10
<1>12. 1 \in 1..2 /\ 2 \in 1..2 /\ 1 \in 1..Len(q) /\ 2 \in 1..Len(q)
  BY <1>3, <1>7, <1>10
<1>13. \A i \in 1..Len(d) : u[2 + i] = d[i]
  BY <1>3, <1>7, <1>9, <1>11
<1>14. u[1] = s /\ u[2] = "\n"
  BY <1>3, <1>7, <1>9, <1>12
<1>15. Len(u) = 4 + Len(d)
  BY <1>3, <1>5, <1>7, <1>9, <1>10
<1> QED
  BY <1>1, <1>9, <1>10, <1>13, <1>14, <1>15

\* Chunk k + 1 begins after this unit of the wire.
Start(m, k) == HeadLen + Len(JoinOf(Units(m), k))

ChunkAfter(m, k, c) ==
  /\ Wire(m)[Start(m, k) + 1] = c.size /\ Wire(m)[Start(m, k) + 2] = "\n"
  /\ \A i \in 1..Len(c.data) : Wire(m)[Start(m, k) + 2 + i] = c.data[i]
  /\ Start(m, k + 1) = Start(m, k) + 4 + Len(c.data)
EndAfter(m, k) == /\ Wire(m)[Start(m, k) + 1] = "0" /\ Wire(m)[Start(m, k) + 2] = "\n"

LEMMA ChunkOnWire ==
  ASSUME NEW m \in Messages, InChunks(m), NEW k \in 0..Len(m.chunks)
  PROVE  /\ Start(m, k) \in Nat /\ Start(m, k) + 4 <= HeadLen + Len(Payload(m))
         /\ k = 0 => Start(m, k) = HeadLen
         /\ k < Len(m.chunks) => ChunkAfter(m, k, m.chunks[k + 1])
         /\ k = Len(m.chunks) => EndAfter(m, k)
<1> DEFINE n == Len(m.chunks)
<1>1. n \in Nat /\ Len(Units(m)) = n /\ Units(m) \in Seq(Seq(Unit)) /\ k \in Nat
  BY MessageFacts, ChunkLists
<1>2. PICK w \in Seq(Unit), p \in Seq(Unit), f \in Seq(Unit) :
        w = Wire(m) /\ p = Payload(m) /\ f = FlattenSeq(Units(m))
  BY PayloadType
<1>3. PICK e : e = LastChunk
  OBVIOUS
<1>4. e \in Seq(Unit) /\ Len(e) = 4 /\ e[1] = "0" /\ e[2] = "\n"
  BY <1>3, ReaderAssumption DEF LastChunk
<1>5. p = f \o e
  BY <1>2, <1>3 DEF Payload, InChunks
<1>6. IsConcat(p, f, e)
  BY <1>4, <1>5, Concatenated
<1>7. \A i \in 1..Len(p) : w[3 + i] = p[i]
  BY <1>2, WireParts DEF HeadLen
<1>8. PICK j \in Seq(Unit) : j = JoinOf(Units(m), k)
  BY <1>1, JoinOfSteps
<1>9. Begins(j, f) /\ (k = n => j = f)
  <2>1. n \in k..Len(Units(m)) /\ k \in 0..Len(Units(m)) /\ n \in 0..Len(Units(m))
    BY <1>1
  <2>2. Begins(JoinOf(Units(m), k), JoinOf(Units(m), n))
    BY <1>1, <2>1, JoinOfBegins
  <2>3. JoinOf(Units(m), n) = f
    BY <1>1, <1>2, <2>1, JoinOfSteps
  <2> QED
    BY <1>8, <2>2, <2>3
<1>10. Start(m, k) = 3 + Len(j) /\ Len(j) \in Nat /\ Len(f) \in Nat
  BY <1>8 DEF Start, HeadLen
<1>11. Start(m, k) + 4 <= HeadLen + Len(p)
  BY <1>4, <1>6, <1>9, <1>10 DEF IsConcat, Begins, HeadLen
<1>12. k = 0 => Start(m, k) = HeadLen
  <2>1. ASSUME k = 0 PROVE j = <<>>
    BY <1>1, <1>8, <2>1, JoinOfSteps
  <2> QED
    BY <2>1, <1>10 DEF HeadLen
<1>13. ASSUME k < n PROVE ChunkAfter(m, k, m.chunks[k + 1])
  <2>1. k + 1 \in 1..n
    BY <1>1, <1>13
  <2>2. PICK c : c = m.chunks[k + 1]
    OBVIOUS
  <2>3. c.size \in Unit /\ c.data \in Seq(Unit)
    BY <2>1, <2>2, MessageFacts
  <2>4. PICK u : u = ChunkUnits(c)
    OBVIOUS
  <2> DEFINE d == c.data
  <2>5. /\ u \in Seq(Unit) /\ Len(u) = 4 + Len(d) /\ Len(d) \in Nat
        /\ u[1] = c.size /\ u[2] = "\n"
        /\ \A i \in 1..Len(d) : u[2 + i] = d[i]
    BY <2>3, <2>4, ChunkParts
  <2> HIDE DEF d
  <2>6. PICK g : g = j \o u
    OBVIOUS
  <2>7. g \in Seq(Unit) /\ IsConcat(g, j, u)
    BY <2>5, <2>6, Concatenated
  <2>8. g = JoinOf(Units(m), k + 1)
    <3>1. k < Len(Units(m)) /\ k \in 0..Len(Units(m)) /\ Units(m)[k + 1] = u
      BY <1>1, <1>13, <2>1, <2>2, <2>4, ChunkLists
    <3> QED
      BY <1>1, <1>8, <2>6, <3>1, JoinOfSteps
  <2>9. Begins(g, f)
    <3>1. n \in (k + 1)..Len(Units(m)) /\ k + 1 \in 0..Len(Units(m))
          /\ n \in 0..Len(Units(m))
      BY <1>1, <2>1
    <3>2. Begins(JoinOf(Units(m), k + 1), JoinOf(Units(m), n))
      BY <1>1, <3>1, JoinOfBegins
    <3>3. JoinOf(Units(m), n) = f
      BY <1>1, <1>2, <3>1, JoinOfSteps
    <3> QED
      BY <2>8, <3>2, <3>3
  <2>10. Len(u) \in Nat /\ Len(e) \in Nat
    BY <2>5, <1>4
  <2>11. ASSUME NEW i \in 1..Len(u) PROVE w[Start(m, k) + i] = u[i]
    <3>1. Len(j) + i \in 1..Len(g) /\ g[Len(j) + i] = u[i]
      BY <1>10, <2>7, <2>10 DEF IsConcat
    <3>2. Len(j) + i \in 1..Len(f) /\ f[Len(j) + i] = u[i]
      BY <1>10, <2>7, <2>9, <2>10, <3>1 DEF Begins, IsConcat
    <3>3. Len(j) + i \in 1..Len(p) /\ p[Len(j) + i] = u[i]
      BY <1>6, <1>10, <2>10, <3>2 DEF IsConcat
    <3>4. Start(m, k) + i = 3 + (Len(j) + i)
      BY <1>10
    <3> QED
      BY <1>7, <3>3, <3>4
  <2>12. Start(m, k + 1) = Start(m, k) + 4 + Len(d)
    <3>1. Start(m, k + 1) = 3 + Len(g)
      BY <2>8 DEF Start, HeadLen
    <3> QED
      BY <1>10, <2>5, <2>7, <3>1 DEF IsConcat
  <2>13. w[Start(m, k) + 1] = c.size /\ w[Start(m, k) + 2] = "\n"
    <3>1. 1 \in 1..Len(u) /\ 2 \in 1..Len(u)
      BY <2>5
    <3> QED
      BY <2>5, <2>11, <3>1
  <2>14. ASSUME NEW i \in 1..Len(d) PROVE w[Start(m, k) + 2 + i] = d[i]
    <3>1. 2 + i \in 1..Len(u) /\ Start(m, k) + 2 + i = Start(m, k) + (2 + i)
      BY <1>10, <2>5
    <3> QED
      BY <2>5, <2>11, <3>1
  <2> QED
    BY <1>2, <2>2, <2>12, <2>13, <2>14 DEF ChunkAfter, d
<1>14. ASSUME k = n PROVE EndAfter(m, k)
  <2>1. \A i \in 1..4 : /\ Start(m, k) + i = 3 + (Len(f) + i) /\ Len(f) + i \in 1..Len(p)
                        /\ p[Len(f) + i] = e[i]
    BY <1>4, <1>6, <1>9, <1>10, <1>14 DEF IsConcat
  <2>2. \A i \in 1..4 : w[Start(m, k) + i] = e[i]
    BY <1>7, <2>1
  <2> QED
    BY <1>2, <1>4, <2>2 DEF EndAfter
<1> QED
  BY <1>2, <1>10, <1>11, <1>12, <1>13, <1>14

\* The body of a message in chunks, chunk by chunk.
LEMMA BodyInChunks ==
  ASSUME NEW m \in Messages, InChunks(m), NEW k \in 0..Len(m.chunks)
  PROVE  /\ JoinOf(Data(m), k) \in Seq(Unit)
         /\ Begins(JoinOf(Data(m), k), m.body)
         /\ k = 0 => JoinOf(Data(m), k) = <<>>
         /\ k = Len(m.chunks) => JoinOf(Data(m), k) = m.body
         /\ k < Len(m.chunks) => JoinOf(Data(m), k + 1) = JoinOf(Data(m), k) \o m.chunks[k + 1].data
<1> DEFINE n == Len(m.chunks)
<1>1. n \in Nat /\ Len(Data(m)) = n /\ Data(m) \in Seq(Seq(Unit)) /\ k \in 0..Len(Data(m))
  BY MessageFacts, ChunkLists
<1>2. m.body = FlattenSeq(Data(m))
  BY ReaderAssumption
<1>3. n \in k..Len(Data(m)) /\ n \in 0..Len(Data(m)) /\ n = Len(Data(m))
  BY <1>1
<1>4. JoinOf(Data(m), n) = m.body
  BY <1>1, <1>2, <1>3, JoinOfSteps
<1>5. Begins(JoinOf(Data(m), k), JoinOf(Data(m), n))
  BY <1>1, <1>3, JoinOfBegins
<1>6. ASSUME k < n PROVE Data(m)[k + 1] = m.chunks[k + 1].data
  <2>1. k + 1 \in 1..n
    BY <1>1, <1>6
  <2> QED
    BY <2>1, ChunkLists
<1>7. /\ JoinOf(Data(m), k) \in Seq(Unit)
      /\ k = 0 => JoinOf(Data(m), k) = <<>>
      /\ k < Len(Data(m)) => JoinOf(Data(m), k + 1) = JoinOf(Data(m), k) \o Data(m)[k + 1]
  BY <1>1, JoinOfSteps
<1> QED
  BY <1>1, <1>4, <1>5, <1>6, <1>7
----------------------------------------------------------------------------
(* What a reader has and what is still to come, b and r, are the wire after*)
(* its first a units.                                                      *)

From(m, b, r, a) ==
  /\ a \in 0..m.cut /\ b \in Seq(Unit) /\ r \in Seq(Unit)
  /\ Len(b) + Len(r) = m.cut - a
  /\ \A i \in 1..Len(b) : b[i] = Wire(m)[a + i]
  /\ \A i \in 1..Len(r) : r[i] = Wire(m)[a + Len(b) + i]

LEMMA CutFacts ==
  ASSUME NEW m \in Messages
  PROVE  m.cut \in Nat /\ m.cut <= Len(Wire(m)) /\ Len(Wire(m)) \in Nat
<1>1. m.cut \in 0..Len(Wire(m)) /\ Len(Wire(m)) \in Nat
  BY ReaderAssumption, PayloadType
<1> QED
  BY <1>1

LEMMA FromStart ==
  ASSUME NEW m \in Messages
  PROVE  From(m, <<>>, SubSeq(Wire(m), 1, m.cut), 0)
<1>1. PICK w \in Seq(Unit), c \in Nat : w = Wire(m) /\ c = m.cut /\ c <= Len(w)
  BY CutFacts, PayloadType
<1>2. PICK r : r = SubSeq(w, 1, c)
  OBVIOUS
<1>3. r \in Seq(Unit) /\ IsPart(r, w, 0, c)
  <2>1. c \in 0..Len(w) /\ 0 + 1 = 1 /\ c - 0 = c /\ 0 \in Nat
    BY <1>1
  <2> QED
    BY <1>1, <1>2, <2>1, PartOf
<1>4. <<>> \in Seq(Unit) /\ Len(<<>>) = 0
  BY EmptySeq
<1>5. \A i \in 1..c : r[i] = w[0 + 0 + i]
  BY <1>1, <1>3 DEF IsPart
<1>6. Len(r) = c /\ 0 \in 0..c /\ 0 + c = c - 0
  BY <1>1, <1>3 DEF IsPart
<1>7. \A i \in 1..0 : <<>>[i] = w[0 + i]
  OBVIOUS
<1>8. PICK b : b = <<>>
  OBVIOUS
<1>9. From(m, b, r, 0)
  BY <1>1, <1>3, <1>4, <1>5, <1>6, <1>7, <1>8 DEF From
<1> QED
  BY <1>1, <1>2, <1>8, <1>9

LEMMA FromRead ==
  ASSUME NEW m \in Messages, NEW b, NEW r, NEW a, From(m, b, r, a), NEW n \in 1..Len(r)
  PROVE  From(m, b \o SubSeq(r, 1, n), SubSeq(r, n + 1, Len(r)), a)
<1>1. /\ b \in Seq(Unit) /\ r \in Seq(Unit) /\ a \in 0..m.cut /\ m.cut \in Nat /\ a \in Nat
      /\ Len(b) \in Nat /\ Len(r) \in Nat /\ Len(b) + Len(r) = m.cut - a
  BY CutFacts DEF From
<1>2. PICK p, q : p = SubSeq(r, 1, n) /\ q = SubSeq(r, n + 1, Len(r))
  OBVIOUS
<1>3. p \in Seq(Unit) /\ Len(p) = n /\ \A i \in 1..n : p[i] = r[i]
  <2>1. 0 \in Nat /\ n \in 0..Len(r) /\ 0 + 1 = 1 /\ n - 0 = n
        /\ \A i \in 1..n : 0 + i = i
    BY <1>1
  <2>2. p \in Seq(Unit) /\ IsPart(p, r, 0, n)
    BY <1>1, <1>2, <2>1, PartOf
  <2> QED
    BY <2>1, <2>2 DEF IsPart
<1>4. q \in Seq(Unit) /\ Len(q) = Len(r) - n /\ \A i \in 1..(Len(r) - n) : q[i] = r[n + i]
  <2>1. n \in Nat /\ Len(r) \in n..Len(r)
    BY <1>1
  <2>2. q \in Seq(Unit) /\ IsPart(q, r, n, Len(r) - n)
    BY <1>1, <1>2, <2>1, PartOf
  <2> QED
    BY <2>2 DEF IsPart
<1>5. PICK c : c = b \o p
  OBVIOUS
<1>6. c \in Seq(Unit) /\ IsConcat(c, b, p)
  BY <1>1, <1>3, <1>5, Concatenated
<1>7. Len(c) = Len(b) + n
  BY <1>3, <1>6 DEF IsConcat
<1>8. ASSUME NEW i \in 1..Len(c) PROVE c[i] = Wire(m)[a + i]
  <2>1. CASE i <= Len(b)
    <3>1. i \in 1..Len(b)
      BY <1>1, <1>7, <2>1
    <3> QED
      BY <1>6, <3>1 DEF From, IsConcat
  <2>2. CASE i > Len(b)
    <3>1. PICK j \in 1..n : i = Len(b) + j
      <4>1. i - Len(b) \in 1..n /\ i = Len(b) + (i - Len(b))
        BY <1>1, <1>7, <2>2
      <4> QED
        BY <4>1
    <3>2. c[Len(b) + j] = r[j] /\ j \in 1..Len(r)
      BY <1>1, <1>3, <1>6 DEF IsConcat
    <3>3. a + Len(b) + j = a + i
      BY <1>1, <3>1
    <3> QED
      BY <3>1, <3>2, <3>3 DEF From
  <2> QED
    BY <1>1, <1>7, <2>1, <2>2
<1>9. ASSUME NEW i \in 1..Len(q) PROVE q[i] = Wire(m)[a + Len(c) + i]
  <2>1. q[i] = r[n + i] /\ n + i \in 1..Len(r) /\ a + Len(b) + (n + i) = a + Len(c) + i
    <3>1. Len(q) = Len(r) - n /\ i \in 1..(Len(r) - n)
      BY <1>1, <1>4
    <3>2. n + i \in 1..Len(r) /\ a + Len(b) + (n + i) = a + Len(c) + i
      BY <1>1, <1>7, <3>1
    <3> QED
      BY <1>4, <3>1, <3>2
  <2> QED
    BY <2>1 DEF From
<1>10. Len(c) + Len(q) = m.cut - a
  BY <1>1, <1>4, <1>7
<1> QED
  BY <1>1, <1>2, <1>4, <1>5, <1>6, <1>8, <1>9, <1>10 DEF From

LEMMA FromDrop ==
  ASSUME NEW m \in Messages, NEW b, NEW r, NEW a, From(m, b, r, a), NEW n \in 0..Len(b)
  PROVE  From(m, SubSeq(b, n + 1, Len(b)), r, a + n)
<1>1. /\ b \in Seq(Unit) /\ r \in Seq(Unit) /\ a \in 0..m.cut /\ m.cut \in Nat /\ a \in Nat
      /\ Len(b) \in Nat /\ Len(r) \in Nat /\ Len(b) + Len(r) = m.cut - a
  BY CutFacts DEF From
<1>2. PICK q : q = SubSeq(b, n + 1, Len(b))
  OBVIOUS
<1>3. q \in Seq(Unit) /\ Len(q) = Len(b) - n /\ \A i \in 1..(Len(b) - n) : q[i] = b[n + i]
  <2>1. n \in Nat /\ Len(b) \in n..Len(b)
    BY <1>1
  <2>2. q \in Seq(Unit) /\ IsPart(q, b, n, Len(b) - n)
    BY <1>1, <1>2, <2>1, PartOf
  <2> QED
    BY <2>2 DEF IsPart
<1>4. ASSUME NEW i \in 1..Len(q) PROVE q[i] = Wire(m)[(a + n) + i]
  <2>1. q[i] = b[n + i] /\ n + i \in 1..Len(b) /\ a + (n + i) = (a + n) + i
    <3>1. Len(q) = Len(b) - n /\ i \in 1..(Len(b) - n)
      BY <1>1, <1>3
    <3>2. n + i \in 1..Len(b) /\ a + (n + i) = (a + n) + i
      BY <1>1, <3>1
    <3> QED
      BY <1>3, <3>1, <3>2
  <2> QED
    BY <2>1 DEF From
<1>5. ASSUME NEW i \in 1..Len(r) PROVE r[i] = Wire(m)[(a + n) + Len(q) + i]
  <2>1. (a + n) + Len(q) + i = a + Len(b) + i
    BY <1>1, <1>3
  <2> QED
    BY <2>1 DEF From
<1>6. a + n \in 0..m.cut /\ Len(q) + Len(r) = m.cut - (a + n)
  <2>1. PICK c \in Nat, x \in Nat, y \in Nat : c = m.cut /\ x = Len(b) /\ y = Len(r)
    BY <1>1
  <2>2. n \in 0..x /\ a \in 0..c /\ x + y = c - a /\ Len(q) = x - n
    BY <1>1, <1>3, <2>1
  <2>3. a + n \in 0..c /\ (x - n) + y = c - (a + n)
    BY <2>2
  <2> QED
    BY <2>1, <2>2, <2>3
<1> QED
  BY <1>1, <1>2, <1>3, <1>4, <1>5, <1>6 DEF From

Lies(m, p, a) == \A i \in 1..Len(p) : Wire(m)[a + i] = p[i]

LEMMA FromTake ==
  ASSUME NEW m \in Messages, NEW b, NEW r, NEW a, From(m, b, r, a), NEW p \in Seq(Unit),
         Len(p) <= Len(b), Lies(m, p, a)
  PROVE  SubSeq(b, 1, Len(p)) = p
<1>1. b \in Seq(Unit) /\ Len(b) \in Nat /\ Len(p) \in Nat
  BY DEF From
<1>2. PICK n \in Nat : n = Len(p) /\ n <= Len(b)
  BY <1>1
<1>3. PICK q : q = SubSeq(b, 1, n)
  OBVIOUS
<1>4. q \in Seq(Unit) /\ Len(q) = n /\ \A i \in 1..n : q[i] = b[i]
  <2>1. 0 \in Nat /\ n \in 0..Len(b) /\ 0 + 1 = 1 /\ n - 0 = n
        /\ \A i \in 1..n : 0 + i = i
    BY <1>1, <1>2
  <2>2. q \in Seq(Unit) /\ IsPart(q, b, 0, n)
    BY <1>1, <1>3, <2>1, PartOf
  <2> QED
    BY <2>1, <2>2 DEF IsPart
<1>5. \A i \in 1..n : b[i] = Wire(m)[a + i]
  BY <1>1, <1>2 DEF From
<1>6. \A i \in 1..n : q[i] = p[i]
  BY <1>2, <1>4, <1>5 DEF Lies
<1>7. q = p
  BY <1>2, <1>4, <1>6, SeqEqual
<1> QED
  BY <1>2, <1>3, <1>7
----------------------------------------------------------------------------
(* The reader: at each pc, where on the wire it is and what it has read.   *)

LEMMA BeginsPrefix ==
  ASSUME NEW S, NEW s \in Seq(S), NEW t \in Seq(S), Begins(s, t)
  PROVE  IsPrefix(s, t) /\ (Len(s) = Len(t) => s = t)
<1>1. Len(s) \in Nat /\ Len(t) \in Nat /\ Len(s) <= Len(t)
      /\ \A i \in 1..Len(s) : t[i] = s[i]
  BY DEF Begins
<1>2. PICK p, q : p = SubSeq(s, 1, Len(s)) /\ q = SubSeq(t, 1, Len(s))
  OBVIOUS
<1>3. 0 \in Nat /\ 0 + 1 = 1 /\ Len(s) \in 0..Len(s) /\ Len(s) \in 0..Len(t)
      /\ Len(s) - 0 = Len(s) /\ \A i \in 1..Len(s) : 0 + i = i
  BY <1>1
<1>4. p \in Seq(S) /\ IsPart(p, s, 0, Len(s))
  BY <1>2, <1>3, PartOf
<1>5. q \in Seq(S) /\ IsPart(q, t, 0, Len(s))
  BY <1>2, <1>3, PartOf
<1>6. Len(p) = Len(q) /\ \A i \in 1..Len(p) : p[i] = q[i]
  BY <1>1, <1>3, <1>4, <1>5 DEF IsPart
<1>7. p = q
  BY <1>4, <1>5, <1>6, SeqEqual
<1>8. IsPrefix(s, t)
  BY <1>1, <1>2, <1>7 DEF IsPrefix
<1>9. Len(s) = Len(t) => s = t
  <2>1. ASSUME Len(s) = Len(t) PROVE \A i \in 1..Len(s) : s[i] = t[i]
    BY <1>1
  <2> QED
    BY <2>1, SeqEqual
<1> QED
  BY <1>8, <1>9

Exact(m, body) ==
  /\ Complete(m) /\ Delimited(m) => body = BodyOf(m)
  /\ Delimited(m) => IsPrefix(body, BodyOf(m))
  /\ ~Delimited(m) => IsPrefix(body, BodyOf(m) \o m.extra)
  /\ ~Delimited(m) /\ m.cut = Len(Wire(m)) => body = BodyOf(m) \o m.extra
Overflows(m) == \E i \in DOMAIN m.chunks : SizeOf(m.chunks[i].size) >= Word - 2
Breaks(m) == \/ m.end = "reset" /\ ~(Complete(m) /\ Delimited(m))
             \/ \E i \in DOMAIN m.chunks : SizeOf(m.chunks[i].size) = -1

Readers == [pc : {"head", "size", "data", "exact", "close", "ok", "error", "panicked"},
            buf : Seq(Unit), body : Seq(Unit), need : 0..(Word - 1), head : 0..HeadLen]

HeadCut(m, d, r) == m.cut < HeadLen /\ d.buf = <<>> /\ r = <<>> /\ d.body = <<>>
BeforeChunk(m, d, r, k) == From(m, d.buf, r, Start(m, k)) /\ d.body = JoinOf(Data(m), k)
Needs(m, k, need) ==
  \/ need = Len(m.chunks[k + 1].data) + 2
  \/ need \in {0, 1} /\ SizeOf(m.chunks[k + 1].size) >= Word - 2
InChunk(m, d, r, k) ==
  From(m, d.buf, r, Start(m, k) + 2) /\ d.body = JoinOf(Data(m), k) /\ Needs(m, k, d.need)

ReaderAt(m, d, r) ==
  /\ d \in Readers /\ r \in Seq(Unit)
  /\ d.pc = "head" => From(m, d.buf, r, 0) /\ d.body = <<>>
  /\ d.pc = "size" =>
       InChunks(m) /\ (HeadCut(m, d, r) \/ \E k \in 0..Len(m.chunks) : BeforeChunk(m, d, r, k))
  /\ d.pc = "data" =>
       InChunks(m) /\ \E k \in 0..(Len(m.chunks) - 1) : InChunk(m, d, r, k)
  /\ d.pc = "exact" =>
       /\ m.status = "ok" /\ m.framing = "length" /\ d.need = Len(m.body) /\ d.body = <<>>
       /\ HeadCut(m, d, r) \/ From(m, d.buf, r, HeadLen)
  /\ d.pc = "close" =>
       /\ d.body = <<>>
       /\ HeadCut(m, d, r) \/ (~Delimited(m) /\ From(m, d.buf, r, HeadLen))
  /\ d.pc = "ok" => Exact(m, d.body)
  /\ d.pc = "panicked" => Overflows(m)
  /\ d.pc = "error" => Breaks(m)

\* Nothing read is exact of a message cut in its head or without a body.
LEMMA ExactEmpty ==
  ASSUME NEW m \in Messages, m.cut < HeadLen \/ m.status = "nobody"
  PROVE  Exact(m, <<>>)
<1>1. ASSUME NEW t \in Seq(Unit) PROVE IsPrefix(<<>>, t)
  <2>1. PICK e \in Seq(Unit) : e = <<>> /\ Len(e) = 0
    BY EmptySeq
  <2>2. Begins(e, t)
    BY <2>1 DEF Begins
  <2> QED
    BY <2>1, <2>2, BeginsPrefix
<1>2. BodyOf(m) \in Seq(Unit) /\ m.extra \in Seq(Unit)
  BY EmptySeq, MessageFacts DEF BodyOf
<1>3. BodyOf(m) \o m.extra \in Seq(Unit)
  BY <1>2, ConcatProperties
<1>4. IsPrefix(<<>>, BodyOf(m)) /\ IsPrefix(<<>>, BodyOf(m) \o m.extra)
  BY <1>1, <1>2, <1>3
<1>5. CASE m.status = "nobody"
  BY <1>4, <1>5 DEF Exact, BodyOf, Delimited
<1>6. CASE m.cut < HeadLen
  <2>1. m.cut \in Nat /\ Len(Payload(m)) \in Nat
    BY CutFacts, WireParts
  <2>2. ~Complete(m)
    BY <1>6, <2>1 DEF Complete, HeadLen
  <2> QED
    <3>1. m.cut # Len(Wire(m))
      <4>1. PICK c \in Nat, l \in Nat, x \in Nat :
              /\ c = m.cut /\ l = Len(Payload(m)) /\ x = Len(m.extra)
              /\ Len(Wire(m)) = 3 + l + x
        BY <2>1, WireParts, Zenon DEF HeadLen
      <4>2. c < 3
        BY <1>6, <4>1 DEF HeadLen
      <4>3. c # 3 + l + x
        BY <4>2
      <4> QED
        BY <4>1, <4>3
    <3> QED
      BY <1>4, <2>2, <3>1 DEF Exact
<1> QED
  BY <1>5, <1>6

\* read_http_body picks the reader; the head is whole, or there is nothing else.
LEMMA SplitFollows ==
  ASSUME NEW m \in Messages, m = msg, NEW n \in 0..HeadLen, Split(n),
         NEW t \in Seq(Unit), t = SubSeq(read.buf, n + 1, Len(read.buf)),
         \/ n = HeadLen /\ From(m, t, rest, HeadLen)
         \/ n < HeadLen /\ m.cut < HeadLen /\ t = <<>> /\ rest = <<>>,
         rest \in Seq(Unit)
  PROVE  ReaderAt(m, read', rest)
<1> DEFINE d(pc, need, body) == [pc |-> pc, buf |-> t, body |-> body, need |-> need,
                                 head |-> n]
<1>0. <<>> \in Seq(Unit)
  BY EmptySeq
<1>1. Word \in Nat /\ Word > 11 /\ 0 \in 0..(Word - 1)
  BY ReaderAssumption
<1>2. m.body \in Seq(Unit) /\ Len(m.body) \in 0..(Word - 1) /\ Len(m.body) # -1
  <2>1. m.body \in Seq(Unit) /\ Len(m.body) < Word
    BY ReaderAssumption
  <2> QED
    BY <1>1, <2>1
<1>3. m.framing \in Framings /\ m.status \in {"ok", "nobody"}
  BY ReaderAssumption
<1>4. CASE NoBodyStatus(n)
  <2>0. n # 0
    BY <1>4 DEF NoBodyStatus, HeadLen
  <2>1. read' = d("ok", 0, <<>>)
    BY <1>4, <2>0 DEF Split
  <2>2. Exact(m, <<>>)
    BY <1>4, ExactEmpty DEF NoBodyStatus
  <2> QED
    BY <1>0, <1>1, <2>1, <2>2 DEF ReaderAt, Readers
<1>5. CASE n = 0
  <2>1. ~NoBodyStatus(n) /\ m.cut < HeadLen /\ t = <<>>
    BY <1>5 DEF NoBodyStatus, HeadLen
  <2>2. read' = d("ok", 0, t)
    BY <1>5, <2>1 DEF Split
  <2>3. Exact(m, <<>>)
    BY <2>1, ExactEmpty
  <2> QED
    BY <1>0, <1>1, <2>1, <2>2, <2>3 DEF ReaderAt, Readers
<1>6. CASE n > 0 /\ ~NoBodyStatus(n) /\ Chunked(n)
  <2>1. read' = d("size", 0, <<>>)
    BY <1>6 DEF Split
  <2>2. InChunks(m)
    BY <1>6 DEF Chunked, NoBodyStatus, InChunks
  <2>3. 0 \in 0..Len(m.chunks) /\ Start(m, 0) = HeadLen /\ JoinOf(Data(m), 0) = <<>>
    <3>1. Len(m.chunks) \in Nat
      BY MessageFacts
    <3>2. 0 \in 0..Len(m.chunks)
      BY <3>1
    <3> QED
      BY <2>2, <3>2, ChunkOnWire, BodyInChunks
  <2>4. HeadCut(m, read', rest) \/ BeforeChunk(m, read', rest, 0)
    BY <2>1, <2>3 DEF HeadCut, BeforeChunk
  <2> QED
    BY <1>0, <1>1, <2>1, <2>2, <2>3, <2>4 DEF ReaderAt, Readers
<1>7. CASE n > 0 /\ ~NoBodyStatus(n) /\ ~Chunked(n) /\ ContentLength(n) # -1
  <2>1. n >= 2 /\ m.framing = "length" /\ m.status = "ok" /\ ContentLength(n) = Len(m.body)
    BY <1>3, <1>7 DEF ContentLength, Chunked, NoBodyStatus
  <2>2. read' = d("exact", Len(m.body), <<>>)
    BY <1>7, <2>1 DEF Split
  <2>3. HeadCut(m, read', rest) \/ From(m, read'.buf, rest, HeadLen)
    BY <2>2 DEF HeadCut
  <2> QED
    BY <1>0, <1>2, <2>1, <2>2, <2>3 DEF ReaderAt, Readers
<1>8. CASE n > 0 /\ ~NoBodyStatus(n) /\ ~Chunked(n) /\ ContentLength(n) = -1
  <2>1. read' = d("close", 0, <<>>)
    BY <1>8 DEF Split
  <2>2. n = HeadLen => ~Delimited(m)
    BY <1>2, <1>3, <1>8 DEF ContentLength, Chunked, NoBodyStatus, Delimited, HeadLen, Framings
  <2>3. HeadCut(m, read', rest) \/ (~Delimited(m) /\ From(m, read'.buf, rest, HeadLen))
    BY <2>1, <2>2 DEF HeadCut
  <2> QED
    BY <1>0, <1>1, <2>1, <2>3 DEF ReaderAt, Readers
<1> QED
  BY <1>4, <1>5, <1>6, <1>7, <1>8 DEF HeadLen

\* What is read comes in the order of the wire.
LEMMA ReadSomeKeeps ==
  ASSUME NEW m \in Messages, m = msg, ReaderAt(m, read, rest), ReadSome
  PROVE  ReaderAt(m, read', rest')
<1>1. read \in Readers /\ rest \in Seq(Unit) /\ read.buf \in Seq(Unit)
  BY DEF ReaderAt, Readers
<1>2. PICK n \in 1..BufSize : /\ n <= Len(rest)
                              /\ read' = [read EXCEPT !.buf = @ \o SubSeq(rest, 1, n)]
                              /\ rest' = SubSeq(rest, n + 1, Len(rest))
  BY DEF ReadSome
<1>3. n \in 1..Len(rest) /\ n \in Nat /\ Len(rest) \in Nat
  BY <1>1, <1>2, ReaderAssumption
<1>4. PICK b : b = read.buf \o SubSeq(rest, 1, n)
  OBVIOUS
<1>5. PICK d, r : d = read' /\ r = rest'
  OBVIOUS
<1>6. \A a : From(m, read.buf, rest, a) => From(m, b, r, a)
  BY <1>2, <1>3, <1>4, <1>5, FromRead
<1>7. b \in Seq(Unit) /\ r \in Seq(Unit)
  <2>1. 0 \in Nat /\ n \in 0..Len(rest) /\ 0 + 1 = 1 /\ n \in Nat /\ Len(rest) \in n..Len(rest)
    BY <1>3
  <2>2. SubSeq(rest, 1, n) \in Seq(Unit) /\ SubSeq(rest, n + 1, Len(rest)) \in Seq(Unit)
    BY <1>1, <2>1, PartOf
  <2> QED
    BY <1>1, <1>2, <1>4, <1>5, <2>2, ConcatProperties
<1>8. d = [read EXCEPT !.buf = b]
  BY <1>2, <1>4, <1>5
<1>9. d \in Readers /\ d.pc = read.pc /\ d.body = read.body /\ d.need = read.need /\ d.buf = b
  BY <1>1, <1>7, <1>8 DEF Readers
<1>10. rest # <<>> /\ read.pc \in {"head", "size", "data", "exact", "close"}
  BY DEF ReadSome, Wants
<1>11. ~HeadCut(m, read, rest)
  BY <1>10 DEF HeadCut
<1>12. \A k : BeforeChunk(m, read, rest, k) => BeforeChunk(m, d, r, k)
  BY <1>6, <1>9 DEF BeforeChunk
<1>13. \A k : InChunk(m, read, rest, k) => InChunk(m, d, r, k)
  BY <1>6, <1>9 DEF InChunk
<1>14. ReaderAt(m, d, r)
  BY <1>6, <1>7, <1>9, <1>10, <1>11, <1>12, <1>13 DEF ReaderAt
<1> QED
  BY <1>5, <1>14

LEMMA HeadEndsKeeps ==
  ASSUME NEW m \in Messages, m = msg, ReaderAt(m, read, rest), HeadEnds
  PROVE  ReaderAt(m, read', rest')
<1>1. From(m, read.buf, rest, 0) /\ rest \in Seq(Unit)
  BY DEF ReaderAt, HeadEnds
<1>2. PICK i \in DOMAIN read.buf : read.buf[i] = "HE"
  BY DEF HeadEnds, Has
<1>3. read.buf \in Seq(Unit) /\ Len(read.buf) \in Nat /\ i \in 1..Len(read.buf)
  BY <1>1, <1>2 DEF From
<1>4. 0 + i = i
  BY <1>3
<1>5. Wire(m)[i] = "HE"
  BY <1>1, <1>2, <1>3, <1>4 DEF From
<1>6. i # 1 /\ i # 2
  BY <1>5, WireParts
<1>7. HeadLen \in 0..Len(read.buf) /\ HeadLen \in Nat /\ 0 + HeadLen = HeadLen
  BY <1>3, <1>6 DEF HeadLen
<1>8. From(m, SubSeq(read.buf, HeadLen + 1, Len(read.buf)), rest, HeadLen)
  BY <1>1, <1>7, FromDrop
<1>9. PICK t : t = SubSeq(read.buf, HeadLen + 1, Len(read.buf))
  OBVIOUS
<1>10. t \in Seq(Unit) /\ From(m, t, rest, HeadLen)
  BY <1>8, <1>9 DEF From
<1>11. Split(HeadLen) /\ rest' = rest /\ HeadLen \in 0..HeadLen
  BY DEF HeadEnds, HeadLen
<1>12. ReaderAt(m, read', rest)
  BY <1>1, <1>9, <1>10, <1>11, SplitFollows
<1> QED
  BY <1>11, <1>12

\* What waits for more at the end of what was sent has not all of a message that says
\* itself where it ends.
LEMMA WantsMore ==
  ASSUME NEW m \in Messages, m = msg, ReaderAt(m, read, rest), Wants, rest = <<>>
  PROVE  ~(Complete(m) /\ Delimited(m))
<1> DEFINE n == Len(m.chunks)
           All == HeadLen + Len(Payload(m))
<1>1. read \in Readers
  BY DEF ReaderAt
<1>2. PICK b \in Seq(Unit) : b = read.buf
  BY <1>1 DEF Readers
<1>3. /\ m.cut \in Nat /\ Len(Payload(m)) \in Nat /\ Len(b) \in Nat /\ n \in Nat
      /\ Len(rest) = 0
  BY CutFacts, WireParts, MessageFacts, EmptySeq
<1>4. All \in Nat /\ (m.cut < All => ~Complete(m))
  BY <1>3 DEF Complete, HeadLen
<1>5. CASE HeadCut(m, read, rest)
  BY <1>3, <1>4, <1>5 DEF HeadCut, HeadLen
<1>6. CASE read.pc = "head"
  <2>1. From(m, b, rest, 0) /\ ~Has("HE")
    BY <1>2, <1>6 DEF ReaderAt, Wants
  <2>2. Len(b) + Len(rest) = m.cut - 0
    BY <2>1 DEF From
  <2>3. ASSUME m.cut >= 3 PROVE FALSE
    <3>1. 3 \in 1..Len(b) /\ 3 \in DOMAIN b /\ 0 + 3 = 3
      BY <1>3, <2>2, <2>3
    <3>2. b[3] = "HE"
      BY <2>1, <3>1, WireParts DEF From
    <3> QED
      BY <1>2, <2>1, <3>1, <3>2 DEF Has
  <2> QED
    BY <1>3, <1>4, <2>3 DEF HeadLen
<1>7. ASSUME read.pc = "size", InChunks(m), NEW k \in 0..n, BeforeChunk(m, read, rest, k)
      PROVE  ~Complete(m)
  <2>1. From(m, b, rest, Start(m, k)) /\ ~Has("\n")
    BY <1>2, <1>7 DEF BeforeChunk, Wants
  <2>2. /\ Start(m, k) \in Nat /\ Start(m, k) + 4 <= HeadLen + Len(Payload(m))
        /\ Wire(m)[Start(m, k) + 2] = "\n"
    BY <1>3, <1>7, ChunkOnWire DEF ChunkAfter, EndAfter
  <2>3. ASSUME m.cut >= All PROVE FALSE
    <3>1. Len(b) + Len(rest) = m.cut - Start(m, k)
      BY <2>1 DEF From
    <3>2. 2 \in 1..Len(b) /\ 2 \in DOMAIN b
      BY <1>3, <2>2, <2>3, <3>1 DEF HeadLen
    <3>3. b[2] = "\n"
      BY <2>1, <2>2, <3>2 DEF From
    <3> QED
      BY <1>2, <2>1, <3>2, <3>3 DEF Has
  <2> QED
    BY <1>3, <1>4, <2>3
<1>8. ASSUME read.pc = "data", InChunks(m), NEW k \in 0..(n - 1), InChunk(m, read, rest, k)
      PROVE  ~Complete(m)
  <2>1. From(m, b, rest, Start(m, k) + 2) /\ Needs(m, k, read.need)
    BY <1>2, <1>8 DEF InChunk
  <2>2. k \in 0..n /\ k < n /\ k + 1 \in 0..n /\ k + 1 \in 1..n
    BY <1>3
  <2>3. PICK l \in Nat : l = Len(m.chunks[k + 1].data)
    BY <2>2, MessageFacts
  <2>4. /\ Start(m, k) \in Nat /\ Start(m, k + 1) = Start(m, k) + 4 + l
        /\ Start(m, k + 1) + 4 <= All
    BY <1>8, <2>2, <2>3, ChunkOnWire DEF ChunkAfter
  <2>5. Len(b) < read.need /\ read.need \in Nat
    BY <1>1, <1>2, <1>8, ReaderAssumption DEF Wants, Readers
  <2>6. read.need <= l + 2
    BY <2>1, <2>3 DEF Needs
  <2>7. Len(b) + Len(rest) = m.cut - (Start(m, k) + 2)
    BY <2>1 DEF From
  <2>8. PICK a \in Nat, c \in Nat, y \in Nat, z \in Nat, q \in Nat :
          a = Start(m, k) /\ c = m.cut /\ y = Len(b) /\ z = read.need /\ q = All
    BY <1>3, <1>4, <2>4, <2>5, Zenon
  <2>9. (a + 4 + l) + 4 <= q /\ y < z /\ z <= l + 2 /\ y + 0 = c - (a + 2)
    BY <1>3, <2>4, <2>5, <2>6, <2>7, <2>8
  <2>10. c < q
    BY <2>9
  <2> QED
    BY <1>4, <2>8, <2>10
<1>9. CASE read.pc = "exact" /\ ~HeadCut(m, read, rest)
  <2>1. From(m, b, rest, HeadLen) /\ Len(b) < Len(m.body) /\ Payload(m) = m.body
    BY <1>2, <1>9 DEF ReaderAt, Wants, Payload, InChunks
  <2>2. Len(b) + Len(rest) = m.cut - HeadLen
    BY <2>1 DEF From
  <2>3. m.cut < All
    BY <1>3, <2>1, <2>2 DEF HeadLen
  <2> QED
    BY <1>4, <2>3
<1>10. CASE read.pc = "close" /\ ~HeadCut(m, read, rest)
  BY <1>10 DEF ReaderAt
<1> QED
  BY <1>5, <1>6, <1>7, <1>8, <1>9, <1>10 DEF ReaderAt, Wants

LEMMA ResetKeeps ==
  ASSUME NEW m \in Messages, m = msg, ReaderAt(m, read, rest), Reset
  PROVE  ReaderAt(m, read', rest')
<1>1. read \in Readers /\ rest \in Seq(Unit)
  BY DEF ReaderAt
<1>2. PICK d : d = [read EXCEPT !.pc = "error"]
  OBVIOUS
<1>3. d \in Readers /\ d.pc = "error"
  BY <1>1, <1>2 DEF Readers
<1>4. Breaks(m)
  BY WantsMore DEF Reset, Breaks
<1>5. ReaderAt(m, d, rest)
  BY <1>1, <1>3, <1>4 DEF ReaderAt
<1> QED
  BY <1>2, <1>5 DEF Reset

\* The reader is done.
LEMMA ReaderEnds ==
  ASSUME NEW m, NEW d \in Readers, NEW r \in Seq(Unit), NEW b \in Seq(Unit), Exact(m, b),
         NEW e, e = [d EXCEPT !.pc = "ok", !.body = b]
  PROVE  ReaderAt(m, e, r)
<1>1. e \in Readers /\ e.pc = "ok" /\ e.body = b
  BY DEF Readers
<1> QED
  BY <1>1 DEF ReaderAt

LEMMA ExactEndsKeeps ==
  ASSUME NEW m \in Messages, m = msg, ReaderAt(m, read, rest), ExactEnds
  PROVE  ReaderAt(m, read', rest')
<1>1. /\ read \in Readers /\ rest \in Seq(Unit) /\ read.need = Len(m.body)
      /\ m.status = "ok" /\ m.framing = "length"
      /\ HeadCut(m, read, rest) \/ From(m, read.buf, rest, HeadLen)
  BY DEF ReaderAt, ExactEnds
<1>2. read.buf \in Seq(Unit) /\ Len(read.buf) \in Nat /\ Len(m.body) \in Nat
      /\ m.body \in Seq(Unit)
  BY <1>1, MessageFacts DEF Readers
<1>3. PICK b : b = SubSeq(read.buf, 1, read.need)
  OBVIOUS
<1>4. read' = [read EXCEPT !.pc = "ok", !.body = b] /\ rest' = rest
  BY <1>3 DEF ExactEnds
<1>5. b \in Seq(Unit) /\ Exact(m, b)
  <2>1. CASE HeadCut(m, read, rest)
    <3>1. read.buf = <<>> /\ Len(m.body) <= Len(read.buf)
      BY <1>1, <2>1 DEF HeadCut, ExactEnds
    <3>2. read.need = 0
      BY <1>1, <1>2, <3>1
    <3>3. b = <<>>
      BY <1>3, <3>2, SubSeqEmpty
    <3>4. Exact(m, <<>>)
      BY <2>1, ExactEmpty DEF HeadCut
    <3> QED
      BY <3>3, <3>4, EmptySeq
  <2>2. CASE From(m, read.buf, rest, HeadLen)
    <3>1. Len(m.body) <= Len(read.buf)
      BY <1>1 DEF ExactEnds
    <3>2. Payload(m) = m.body
      BY <1>1 DEF Payload, InChunks
    <3>3. Lies(m, m.body, HeadLen)
      BY <3>2, WireParts DEF Lies
    <3>4. SubSeq(read.buf, 1, Len(m.body)) = m.body
      BY <1>2, <2>2, <3>1, <3>3, FromTake
    <3>5. b = m.body
      BY <1>1, <1>3, <3>4
    <3>6. Delimited(m) /\ BodyOf(m) = m.body
      BY <1>1 DEF Delimited, BodyOf
    <3>7. IsPrefix(m.body, m.body)
      BY <1>2 DEF IsPrefix
    <3> QED
      BY <1>2, <3>5, <3>6, <3>7 DEF Exact
  <2> QED
    BY <1>1, <2>1, <2>2
<1>6. ReaderAt(m, read', rest)
  BY <1>1, <1>4, <1>5, ReaderEnds
<1> QED
  BY <1>4, <1>6

LEMMA TakeChunkKeeps ==
  ASSUME NEW m \in Messages, m = msg, ReaderAt(m, read, rest), TakeChunk
  PROVE  ReaderAt(m, read', rest')
<1> DEFINE n == Len(m.chunks)
<1>1. read \in Readers /\ rest \in Seq(Unit) /\ InChunks(m) /\ rest' = rest
  BY DEF ReaderAt, TakeChunk
<1>2. PICK k \in 0..(n - 1) : InChunk(m, read, rest, k)
  BY DEF ReaderAt, TakeChunk
<1>3. n \in Nat /\ k \in 0..n /\ k < n /\ k + 1 \in 0..n /\ k + 1 \in 1..n /\ k \in Nat
  BY MessageFacts
<1>4. PICK c : c = m.chunks[k + 1]
  OBVIOUS
<1>5. PICK s \in Seq(Unit) : s = c.data /\ Len(s) \in Nat
  BY <1>3, <1>4, MessageFacts
<1>6. PICK b \in Seq(Unit), need \in Nat : b = read.buf /\ need = read.need /\ need <= Len(b)
  BY <1>1, ReaderAssumption DEF Readers, TakeChunk
<1>7. From(m, b, rest, Start(m, k) + 2) /\ read.body = JoinOf(Data(m), k) /\ Needs(m, k, need)
  BY <1>2, <1>6 DEF InChunk
<1>8. CASE need < 2
  <2>1. Overflows(m)
    <3>1. need # Len(s) + 2
      BY <1>5, <1>8
    <3>2. SizeOf(m.chunks[k + 1].size) >= Word - 2
      BY <1>4, <1>5, <1>7, <3>1 DEF Needs
    <3>3. k + 1 \in DOMAIN m.chunks
      BY <1>3, MessageFacts
    <3> QED
      BY <3>2, <3>3 DEF Overflows
  <2>2. PICK d : d = [read EXCEPT !.pc = "panicked"]
    OBVIOUS
  <2>3. d \in Readers /\ d.pc = "panicked"
    BY <1>1, <2>2 DEF Readers
  <2>4. read' = d
    BY <1>6, <1>8, <2>2 DEF TakeChunk
  <2>5. ReaderAt(m, d, rest)
    BY <1>1, <2>1, <2>3 DEF ReaderAt
  <2> QED
    BY <1>1, <2>4, <2>5
<1>9. CASE need >= 2
  <2>1. need = Len(s) + 2 /\ need - 2 = Len(s)
    <3>1. need \notin {0, 1}
      BY <1>9
    <3> QED
      BY <1>4, <1>5, <1>7, <3>1 DEF Needs
  <2>2. ChunkAfter(m, k, c)
    BY <1>1, <1>3, <1>4, ChunkOnWire
  <2>3. SubSeq(b, 1, Len(s)) = s
    <3>1. Lies(m, s, Start(m, k) + 2)
      BY <1>5, <2>2 DEF ChunkAfter, Lies
    <3>2. Len(s) <= Len(b)
      BY <1>5, <1>6, <2>1
    <3> QED
      BY <1>7, <3>1, <3>2, FromTake
  <2>4. PICK t : t = SubSeq(b, need + 1, Len(b))
    OBVIOUS
  <2>5. From(m, t, rest, Start(m, k + 1))
    <3>1. need \in 0..Len(b)
      BY <1>6
    <3>2. From(m, t, rest, (Start(m, k) + 2) + need)
      BY <1>7, <2>4, <3>1, FromDrop
    <3>3. Start(m, k + 1) = Start(m, k) + 4 + Len(s) /\ Start(m, k) \in Nat
      BY <1>1, <1>3, <1>5, <2>2, ChunkOnWire DEF ChunkAfter
    <3>4. (Start(m, k) + 2) + need = Start(m, k + 1)
      <4>1. \A a \in Nat, l \in Nat : (a + 2) + (l + 2) = a + 4 + l
        OBVIOUS
      <4> QED
        BY <1>5, <2>1, <3>3, <4>1
    <3> QED
      BY <3>2, <3>4
  <2>6. PICK x : x = read.body \o s
    OBVIOUS
  <2>7. x = JoinOf(Data(m), k + 1)
    BY <1>1, <1>3, <1>4, <1>5, <1>7, <2>6, BodyInChunks
  <2>8. x \in Seq(Unit)
    BY <1>1, <1>3, <2>7, BodyInChunks
  <2>9. t \in Seq(Unit)
    BY <2>5 DEF From
  <2>10. PICK d : d = [read EXCEPT !.pc = "size", !.body = x, !.buf = t]
    OBVIOUS
  <2>11. read' = d
    <3>1. ~(need < 2)
      BY <1>9
    <3> QED
      BY <1>6, <2>1, <2>3, <2>4, <2>6, <2>10, <3>1 DEF TakeChunk
  <2>12. d \in Readers /\ d.pc = "size" /\ d.body = x /\ d.buf = t
    BY <1>1, <2>8, <2>9, <2>10 DEF Readers
  <2>13. BeforeChunk(m, d, rest, k + 1)
    BY <2>5, <2>7, <2>12 DEF BeforeChunk
  <2>14. ReaderAt(m, d, rest)
    BY <1>1, <1>3, <2>12, <2>13 DEF ReaderAt
  <2> QED
    BY <1>1, <2>11, <2>14
<1> QED
  BY <1>6, <1>8, <1>9

\* What a size line may say.
LEMMA Sizes ==
  /\ SizeOf("0") = 0
  /\ \A m \in Messages : \A i \in 1..Len(m.chunks) :
       /\ SizeOf(m.chunks[i].size) \in -1..(Word - 1) /\ SizeOf(m.chunks[i].size) # 0
       /\ SizeOf(m.chunks[i].size) \in {Len(m.chunks[i].data), -1, Word - 2, Word - 1}
<1>1. SizeOf("0") = 0
  <2>1. "0" \in ToSet(Digits)
    <3>1. Digits[1] = "0" /\ 1 \in DOMAIN Digits
      BY DEF Digits
    <3> QED
      BY <3>1 DEF ToSet
  <2>2. \A i \in DOMAIN Digits : Digits[i] = "0" <=> i = 1
    BY DEF Digits
  <2>3. 1 \in DOMAIN Digits
    BY DEF Digits
  <2>4. (CHOOSE i \in DOMAIN Digits : Digits[i] = "0") = 1
    BY <2>2, <2>3
  <2> QED
    BY <2>1, <2>4 DEF SizeOf
<1>2. ASSUME NEW m \in Messages, NEW i \in 1..Len(m.chunks)
      PROVE  /\ SizeOf(m.chunks[i].size) \in -1..(Word - 1) /\ SizeOf(m.chunks[i].size) # 0
             /\ SizeOf(m.chunks[i].size) \in {Len(m.chunks[i].data), -1, Word - 2, Word - 1}
  <2>1. PICK s, l : s = SizeOf(m.chunks[i].size) /\ l = Len(m.chunks[i].data)
    OBVIOUS
  <2>2. l \in Nat /\ l > 0
    BY <2>1, MessageFacts
  <2>3. s \in {l, -1, Word - 2, Word - 1}
    <3>1. i \in DOMAIN m.chunks
      BY MessageFacts
    <3> QED
      BY <2>1, <3>1, ReaderAssumption
  <2>4. Word \in Nat /\ Word > 11
    BY ReaderAssumption
  <2>5. s # 0
    BY <2>2, <2>3, <2>4
  <2>6. s \in -1..(Word - 1)
    <3>1. PICK u : u = m.chunks[i].size
      OBVIOUS
    <3>0. "max" \notin ToSet(Digits) /\ "max-1" \notin ToSet(Digits)
      <4>1. \A j \in DOMAIN Digits : Digits[j] # "max" /\ Digits[j] # "max-1"
        BY DEF Digits
      <4> QED
        BY <4>1 DEF ToSet
    <3>2. CASE u = "max"
      <4>1. SizeOf(u) = Word - 1
        BY <3>0, <3>2 DEF SizeOf
      <4> QED
        BY <2>1, <2>4, <3>1, <4>1
    <3>3. CASE u = "max-1"
      <4>1. SizeOf(u) = Word - 2
        BY <3>0, <3>3 DEF SizeOf
      <4> QED
        BY <2>1, <2>4, <3>1, <4>1
    <3>4. CASE u \in ToSet(Digits) /\ u \notin {"max", "max-1"}
      <4>1. \E j \in DOMAIN Digits : Digits[j] = u
        BY <3>4 DEF ToSet
      <4>2. PICK j : j = CHOOSE x \in DOMAIN Digits : Digits[x] = u
        OBVIOUS
      <4>3. j \in DOMAIN Digits /\ DOMAIN Digits = 1..10
        BY <4>1, <4>2 DEF Digits
      <4>4. s = j - 1
        BY <2>1, <3>1, <3>4, <4>2 DEF SizeOf
      <4> QED
        BY <2>4, <4>3, <4>4
    <3>5. CASE u \notin ToSet(Digits) \cup {"max", "max-1"}
      BY <2>1, <2>4, <3>1, <3>5 DEF SizeOf
    <3> QED
      BY <3>2, <3>3, <3>4, <3>5
  <2> QED
    BY <2>1, <2>3, <2>5, <2>6
<1> QED
  BY <1>1, <1>2

\* The bytes a chunk needs, if its size is not the last and parses.
LEMMA NeedFollows ==
  ASSUME NEW m \in Messages, NEW k \in 0..(Len(m.chunks) - 1), NEW s,
         s = SizeOf(m.chunks[k + 1].size), s # -1
  PROVE  /\ s \in Int /\ (s + 2) % Word \in 0..(Word - 1)
         /\ Needs(m, k, (s + 2) % Word)
         /\ s + 2 >= Word => Overflows(m)
<1>1. k + 1 \in 1..Len(m.chunks) /\ k + 1 \in DOMAIN m.chunks
  BY MessageFacts
<1>2. PICK l \in Nat : l = Len(m.chunks[k + 1].data)
  BY <1>1, MessageFacts
<1>3. Word \in Nat /\ Word > 11
  BY ReaderAssumption
<1>4. s \in {l, Word - 2, Word - 1} /\ s \in 0..(Word - 1)
  <2>1. s \in {l, -1, Word - 2, Word - 1} /\ s \in -1..(Word - 1)
    BY <1>1, <1>2, Sizes
  <2> QED
    BY <1>3, <2>1
<1>5. PICK need : need = (s + 2) % Word
  OBVIOUS
<1>6. CASE s + 2 < Word
  <2>1. \A w \in Nat, x \in Nat : x < w => x % w = x
    OBVIOUS
  <2>2. need = s + 2 /\ need \in 0..(Word - 1)
    <3>1. PICK x \in Nat : x = s + 2
      BY <1>3, <1>4
    <3>2. x % Word = x
      BY <1>3, <1>6, <2>1, <3>1
    <3> QED
      BY <1>3, <1>5, <1>6, <3>1, <3>2
  <2>3. s = l
    BY <1>3, <1>4, <1>6
  <2> QED
    <3>1. need = l + 2 /\ ~(s + 2 >= Word) /\ s \in Int
      BY <1>3, <1>4, <1>6, <2>2, <2>3
    <3> QED
      BY <1>2, <1>5, <2>2, <3>1 DEF Needs
<1>7. CASE s + 2 >= Word
  <2>1. \A w \in Nat, x \in Nat : w > 11 /\ w <= x /\ x < w + w => x % w = x - w
    OBVIOUS
  <2>2. need = (s + 2) - Word
    BY <1>3, <1>4, <1>5, <1>7, <2>1
  <2>3. need \in {0, 1} /\ s >= Word - 2 /\ need \in 0..(Word - 1)
    BY <1>3, <1>4, <1>7, <2>2
  <2>4. Overflows(m)
    BY <1>1, <2>3 DEF Overflows
  <2> QED
    BY <1>4, <1>5, <2>3, <2>4 DEF Needs
<1> QED
  BY <1>3, <1>4, <1>6, <1>7

LEMMA FeedIsNoSize ==
  SizeOf("\n") = -1
<1>1. \A j \in DOMAIN Digits : Digits[j] # "\n"
  BY DEF Digits
<1>2. "\n" \notin ToSet(Digits)
  BY <1>1 DEF ToSet
<1> QED
  BY <1>2 DEF SizeOf

FirstFeed(b) == CHOOSE i \in DOMAIN b : b[i] = "\n" /\ \A j \in 1..i - 1 : b[j] # "\n"
SizeIn(b) == IF FirstFeed(b) = 2 THEN SizeOf(b[1]) ELSE -1

\* The size line: what it parses to is the size of the next chunk, or 0 at the end.
LEMMA SizeFollows ==
  ASSUME NEW m \in Messages, InChunks(m), NEW k \in 0..Len(m.chunks), NEW b, NEW r,
         From(m, b, r, Start(m, k)), \E i \in DOMAIN b : b[i] = "\n",
         NEW nl, nl = FirstFeed(b), NEW size, size = SizeIn(b)
  PROVE  /\ nl \in 1..Len(b)
         /\ size # -1 => nl = 2
         /\ k < Len(m.chunks) => size = SizeOf(m.chunks[k + 1].size)
         /\ k = Len(m.chunks) => size = 0
<1>1. b \in Seq(Unit) /\ Len(b) \in Nat /\ DOMAIN b = 1..Len(b)
  BY DEF From
<1>2. nl \in 1..Len(b) /\ b[nl] = "\n" /\ \A j \in 1..(nl - 1) : b[j] # "\n"
  <2>1. PICK T : T = {i \in 1..Len(b) : b[i] = "\n"}
    OBVIOUS
  <2>2. T \in SUBSET Nat /\ T # {}
    BY <1>1, <2>1
  <2>3. PICK x \in T : \A y \in T : ~(y < x)
    BY <2>2, LeastNumber
  <2>4. x \in DOMAIN b /\ b[x] = "\n"
    BY <1>1, <2>1, <2>3
  <2>5. \A j \in 1..(x - 1) : b[j] # "\n"
    <3>1. ASSUME NEW j \in 1..(x - 1) PROVE j \in 1..Len(b) /\ j < x
      BY <1>1, <2>1, <2>3
    <3> QED
      BY <2>1, <2>3, <3>1
  <2> QED
    BY <1>1, <2>4, <2>5 DEF FirstFeed
<1>0. size = IF nl = 2 THEN SizeOf(b[1]) ELSE -1
  BY DEF SizeIn
<1>3. Start(m, k) \in Nat
  BY ChunkOnWire
<1>4. b[1] = Wire(m)[Start(m, k) + 1] /\ (Len(b) >= 2 => b[2] = Wire(m)[Start(m, k) + 2])
  <2>1. 1 \in 1..Len(b) /\ (Len(b) >= 2 => 2 \in 1..Len(b))
    BY <1>1, <1>2
  <2>2. \A i \in 1..Len(b) : b[i] = Wire(m)[Start(m, k) + i]
    BY DEF From
  <2> QED
    BY <2>1, <2>2
<1>5. Len(b) >= 2 => b[2] = "\n"
  BY <1>4, ChunkOnWire, MessageFacts DEF ChunkAfter, EndAfter
<1>6. nl \in {1, 2}
  <2>1. ASSUME nl > 2 PROVE FALSE
    <3>1. 2 \in 1..(nl - 1) /\ Len(b) >= 2
      BY <1>1, <1>2, <2>1
    <3> QED
      BY <1>2, <1>5, <3>1
  <2> QED
    BY <1>1, <1>2, <2>1
<1>7. ASSUME k < Len(m.chunks) PROVE size = SizeOf(m.chunks[k + 1].size)
  <2>1. b[1] = m.chunks[k + 1].size
    BY <1>4, <1>7, ChunkOnWire DEF ChunkAfter
  <2>2. CASE nl = 1
    BY <1>0, <1>2, <2>1, <2>2, FeedIsNoSize
  <2>3. CASE nl = 2
    BY <1>0, <2>1, <2>3
  <2> QED
    BY <1>6, <2>2, <2>3
<1>8. ASSUME k = Len(m.chunks) PROVE size = 0
  <2>1. b[1] = "0"
    BY <1>4, <1>8, ChunkOnWire DEF EndAfter
  <2>2. nl # 1
    BY <1>2, <2>1
  <2> QED
    BY <1>0, <1>6, <2>1, <2>2, Sizes
<1> QED
  BY <1>0, <1>2, <1>6, <1>7, <1>8

LEMMA SizeLineKeeps ==
  ASSUME NEW m \in Messages, m = msg, ReaderAt(m, read, rest), SizeLine
  PROVE  ReaderAt(m, read', rest')
<1> DEFINE n == Len(m.chunks)
<1>1. read \in Readers /\ rest \in Seq(Unit) /\ InChunks(m) /\ rest' = rest
  BY DEF ReaderAt, SizeLine
<1>2. PICK b \in Seq(Unit) : b = read.buf
  BY <1>1 DEF Readers
<1>3. \E i \in DOMAIN b : b[i] = "\n"
  BY <1>2 DEF SizeLine, Has
<1>4. PICK k \in 0..n : BeforeChunk(m, read, rest, k)
  <2>1. b # <<>>
    BY <1>3
  <2> QED
    BY <1>2, <2>1 DEF ReaderAt, SizeLine, HeadCut
<1> DEFINE nl == CHOOSE i \in DOMAIN read.buf : read.buf[i] = "\n" /\
                   \A j \in 1..i - 1 : read.buf[j] # "\n"
           size == IF nl = 2 THEN SizeOf(read.buf[1]) ELSE -1
<1>5. nl = FirstFeed(b)
  BY <1>2 DEF FirstFeed
<1>6. size = SizeIn(b)
  BY <1>2, <1>5 DEF SizeIn
<1>10. /\ size = -1 => read' = [read EXCEPT !.pc = "error"]
       /\ size = 0 => read' = [read EXCEPT !.pc = "ok"]
       /\ size \notin {-1, 0} =>
            \/ /\ size + 2 >= Word
               /\ read' = [read EXCEPT !.pc = "panicked"]
            \/ read' = [read EXCEPT !.pc = "data", !.need = (size + 2) % Word,
                                    !.buf = SubSeq(@, nl + 1, Len(@))]
  BY DEF SizeLine
<1> HIDE DEF nl, size
<1>7. From(m, b, rest, Start(m, k)) /\ read.body = JoinOf(Data(m), k)
  BY <1>2, <1>4 DEF BeforeChunk
<1>8. /\ nl \in 1..Len(b) /\ (size # -1 => nl = 2)
      /\ k < n => size = SizeOf(m.chunks[k + 1].size)
      /\ k = n => size = 0
  BY <1>1, <1>3, <1>5, <1>6, <1>7, SizeFollows
<1>9. n \in Nat /\ k \in Nat /\ (k < n \/ k = n)
  BY MessageFacts
<1>11. CASE size = -1
  <2>1. k < n
    BY <1>8, <1>9, <1>11
  <2>2. k + 1 \in DOMAIN m.chunks
    BY <1>9, <2>1, MessageFacts
  <2>3. Breaks(m)
    BY <1>8, <1>11, <2>1, <2>2 DEF Breaks
  <2>4. PICK d : d = [read EXCEPT !.pc = "error"]
    OBVIOUS
  <2>5. d \in Readers /\ d.pc = "error"
    BY <1>1, <2>4 DEF Readers
  <2>6. read' = d
    BY <1>10, <1>11, <2>4
  <2>7. ReaderAt(m, d, rest)
    BY <1>1, <2>3, <2>5 DEF ReaderAt
  <2> QED
    BY <1>1, <2>6, <2>7
<1>12. CASE size = 0
  <2>1. k = n
    <3>1. ASSUME k < n PROVE FALSE
      <4>1. k + 1 \in 1..n
        BY <1>9, <3>1
      <4> QED
        BY <1>8, <1>12, <3>1, <4>1, Sizes
    <3> QED
      BY <1>9, <3>1
  <2>2. read.body = m.body /\ m.body \in Seq(Unit)
    BY <1>1, <1>7, <2>1, BodyInChunks, MessageFacts
  <2>3. Delimited(m) /\ BodyOf(m) = m.body
    BY <1>1 DEF InChunks, Delimited, BodyOf
  <2>4. IsPrefix(m.body, m.body)
    BY <2>2 DEF IsPrefix
  <2>5. Exact(m, read.body)
    BY <2>2, <2>3, <2>4 DEF Exact
  <2>6. PICK d : d = [read EXCEPT !.pc = "ok"]
    OBVIOUS
  <2>7. d \in Readers /\ d.pc = "ok" /\ d.body = read.body
    BY <1>1, <2>6 DEF Readers
  <2>8. read' = d
    BY <1>10, <1>12, <2>6
  <2>9. ReaderAt(m, d, rest)
    BY <1>1, <2>5, <2>7 DEF ReaderAt
  <2> QED
    BY <1>1, <2>8, <2>9
<1>13. CASE size \notin {-1, 0}
  <2>1. k < n /\ k \in 0..(n - 1)
    BY <1>8, <1>9, <1>13
  <2>2. /\ size \in Int /\ (size + 2) % Word \in 0..(Word - 1)
        /\ Needs(m, k, (size + 2) % Word)
        /\ size + 2 >= Word => Overflows(m)
    BY <1>8, <1>13, <2>1, NeedFollows
  <2>3. CASE size + 2 >= Word /\ read' = [read EXCEPT !.pc = "panicked"]
    <3>1. PICK d : d = [read EXCEPT !.pc = "panicked"]
      OBVIOUS
    <3>2. d \in Readers /\ d.pc = "panicked"
      BY <1>1, <3>1 DEF Readers
    <3>3. ReaderAt(m, d, rest)
      BY <1>1, <2>2, <2>3, <3>2 DEF ReaderAt
    <3> QED
      BY <1>1, <2>3, <3>1, <3>3
  <2>4. CASE read' = [read EXCEPT !.pc = "data", !.need = (size + 2) % Word,
                                  !.buf = SubSeq(@, nl + 1, Len(@))]
    <3>1. PICK need \in 0..(Word - 1) : need = (size + 2) % Word
      BY <2>2
    <3>2. PICK t : t = SubSeq(b, 2 + 1, Len(b))
      OBVIOUS
    <3>3. nl = 2 /\ 2 \in 0..Len(b)
      BY <1>8, <1>13
    <3>4. From(m, t, rest, Start(m, k) + 2)
      BY <1>7, <3>2, <3>3, FromDrop
    <3>5. t \in Seq(Unit)
      BY <3>4 DEF From
    <3>6. PICK d : d = [read EXCEPT !.pc = "data", !.need = need, !.buf = t]
      OBVIOUS
    <3>7. d \in Readers /\ d.pc = "data" /\ d.need = need /\ d.buf = t /\ d.body = read.body
      BY <1>1, <3>1, <3>5, <3>6 DEF Readers
    <3>8. read' = d
      BY <1>2, <2>4, <3>1, <3>2, <3>3, <3>6
    <3>9. InChunk(m, d, rest, k)
      BY <1>7, <2>2, <3>1, <3>4, <3>7 DEF InChunk
    <3>10. ReaderAt(m, d, rest)
      BY <1>1, <2>1, <3>7, <3>9 DEF ReaderAt
    <3> QED
      BY <1>1, <3>8, <3>10
  <2> QED
    BY <1>10, <1>13, <2>3, <2>4
<1> QED
  BY <1>11, <1>12, <1>13

\* The body of a message that is not in chunks, and what follows it.
AfterHead(m, w) ==
  /\ w \in Seq(Unit) /\ Len(w) = Len(m.body) + Len(m.extra)
  /\ Len(m.body) \in Nat /\ Len(m.extra) \in Nat /\ Len(w) \in Nat
  /\ \A i \in 1..Len(m.body) : w[i] = m.body[i]
  /\ Len(Wire(m)) = HeadLen + Len(w)
  /\ \A i \in 1..Len(w) : Wire(m)[HeadLen + i] = w[i]

LEMMA BodyOnWire ==
  ASSUME NEW m \in Messages, m.status = "ok", ~InChunks(m)
  PROVE  AfterHead(m, m.body \o m.extra)
<1>0. PICK w : w = m.body \o m.extra
  OBVIOUS
<1>1. PICK p \in Seq(Unit), x \in Seq(Unit) : p = m.body /\ x = m.extra
  BY MessageFacts
<1>2. w \in Seq(Unit) /\ IsConcat(w, p, x)
  BY <1>0, <1>1, Concatenated
<1>3. Payload(m) = p
  BY <1>1 DEF Payload
<1>4. Len(p) \in Nat /\ Len(x) \in Nat /\ Len(w) = Len(p) + Len(x)
  BY <1>2 DEF IsConcat
<1>5. /\ Len(Wire(m)) = HeadLen + Len(p) + Len(x)
      /\ \A i \in 1..Len(p) : Wire(m)[HeadLen + i] = p[i]
      /\ \A i \in 1..Len(x) : Wire(m)[HeadLen + Len(p) + i] = x[i]
  BY <1>1, <1>3, WireParts
<1>6. ASSUME NEW i \in 1..Len(w) PROVE Wire(m)[HeadLen + i] = w[i]
  <2>1. CASE i <= Len(p)
    <3>1. i \in 1..Len(p)
      BY <1>4, <2>1
    <3> QED
      BY <1>2, <1>5, <3>1 DEF IsConcat
  <2>2. CASE i > Len(p)
    <3>1. PICK j \in 1..Len(x) : i = Len(p) + j
      <4>1. i - Len(p) \in 1..Len(x) /\ i = Len(p) + (i - Len(p))
        BY <1>4, <2>2
      <4> QED
        BY <4>1
    <3>2. HeadLen + Len(p) + j = HeadLen + i
      BY <1>4, <3>1 DEF HeadLen
    <3> QED
      BY <1>2, <1>5, <3>1, <3>2 DEF IsConcat
  <2>3. i <= Len(p) \/ i > Len(p)
    <3>1. Len(w) \in Nat
      BY <1>4
    <3>2. i \in Nat
      BY <3>1
    <3> QED
      BY <1>4, <3>2
  <2> QED
    BY <2>1, <2>2, <2>3
<1>7. Len(Wire(m)) = HeadLen + Len(w) /\ Len(w) \in Nat
  BY <1>4, <1>5 DEF HeadLen
<1> QED
  BY <1>0, <1>1, <1>2, <1>4, <1>6, <1>7 DEF IsConcat, AfterHead

\* The end of the stream: the message is not complete, unless its end is the
\* connection's, and what was taken of it is its beginning.
LEMMA EofInHead ==
  ASSUME NEW m \in Messages, m = msg, ReaderAt(m, read, rest), Eof, read.pc = "head"
  PROVE  ReaderAt(m, read', rest')
<1>1. From(m, read.buf, rest, 0) /\ rest = <<>> /\ ~Has("HE") /\ rest' = rest
      /\ Split(Len(read.buf)) /\ rest \in Seq(Unit)
  BY DEF ReaderAt, Eof, Wants
<1>2. PICK b \in Seq(Unit) : b = read.buf
  BY <1>1 DEF From
<1>3. Len(b) \in Nat /\ Len(b) = m.cut /\ m.cut \in Nat
  <2>1. Len(b) + Len(rest) = m.cut - 0 /\ Len(rest) = 0
    BY <1>1, <1>2, EmptySeq DEF From
  <2> QED
    BY <2>1, CutFacts
<1>4. Len(b) < HeadLen
  <2>1. ASSUME Len(b) >= HeadLen PROVE FALSE
    <3>1. 3 \in 1..Len(b) /\ 3 \in DOMAIN b /\ 0 + 3 = 3
      BY <1>3, <2>1 DEF HeadLen
    <3>2. b[3] = Wire(m)[0 + 3]
      BY <1>1, <1>2, <3>1 DEF From
    <3>3. b[3] = "HE"
      BY <3>1, <3>2, WireParts
    <3> QED
      BY <1>1, <1>2, <3>1, <3>3 DEF Has
  <2> QED
    BY <1>3, <2>1 DEF HeadLen
<1>5. PICK n : n = Len(read.buf)
  OBVIOUS
<1>6. n \in 0..HeadLen /\ n < HeadLen /\ m.cut < HeadLen /\ Split(n)
  <2>1. n = Len(b) /\ n \in Nat
    BY <1>2, <1>3, <1>5
  <2>2. n < HeadLen /\ m.cut < HeadLen
    BY <1>3, <1>4, <2>1
  <2>3. n \in 0..HeadLen
    BY <2>1, <2>2 DEF HeadLen
  <2>4. Split(n)
    BY <1>1, <1>5
  <2> QED
    BY <2>2, <2>3, <2>4
<1>7. PICK t : t = SubSeq(read.buf, n + 1, Len(read.buf))
  OBVIOUS
<1>8. t = <<>> /\ t \in Seq(Unit)
  <2>1. n + 1 \in Int /\ n \in Int /\ n < n + 1
    BY <1>6
  <2> QED
    BY <1>5, <1>7, <2>1, SubSeqEmpty, EmptySeq
<1>9. ReaderAt(m, read', rest)
  BY <1>1, <1>6, <1>7, <1>8, SplitFollows
<1> QED
  BY <1>1, <1>9

\* Before the size of a chunk or within a chunk, more was to come.
LEMMA ChunksCut ==
  ASSUME NEW m \in Messages, InChunks(m), NEW k \in 0..Len(m.chunks),
         m.cut < HeadLen + Len(Payload(m)), NEW b, b = JoinOf(Data(m), k)
  PROVE  b \in Seq(Unit) /\ Exact(m, b)
<1>1. b \in Seq(Unit) /\ Begins(b, m.body) /\ m.body \in Seq(Unit)
  BY BodyInChunks, MessageFacts
<1>2. IsPrefix(b, m.body)
  BY <1>1, BeginsPrefix
<1>3. Delimited(m) /\ BodyOf(m) = m.body
  BY DEF InChunks, Delimited, BodyOf
<1>4. ~Complete(m)
  BY CutFacts, WireParts DEF Complete, HeadLen
<1> QED
  BY <1>1, <1>2, <1>3, <1>4 DEF Exact

LEMMA EofInChunks ==
  ASSUME NEW m \in Messages, m = msg, ReaderAt(m, read, rest), Eof,
         read.pc \in {"size", "data"}
  PROVE  ReaderAt(m, read', rest')
<1> DEFINE n == Len(m.chunks)
<1>1. read \in Readers /\ rest \in Seq(Unit) /\ InChunks(m) /\ rest' = rest /\ rest = <<>>
  BY DEF ReaderAt, Eof
<1>2. PICK b \in Seq(Unit), x \in Seq(Unit) : b = read.buf /\ x = read.body
  BY <1>1 DEF Readers
<1>3. read' = [read EXCEPT !.pc = "ok", !.body = x]
  BY <1>2 DEF Eof
<1>4. /\ m.cut \in Nat /\ Len(Payload(m)) \in Nat /\ Len(b) \in Nat /\ n \in Nat
      /\ Len(rest) = 0
  BY <1>1, CutFacts, WireParts, MessageFacts, EmptySeq
<1>5. Exact(m, x)
  <2>1. CASE HeadCut(m, read, rest)
    BY <1>2, <2>1, ExactEmpty DEF HeadCut
  <2>2. CASE ~HeadCut(m, read, rest)
    <3>1. PICK k \in 0..n : x = JoinOf(Data(m), k)
      <4>1. CASE read.pc = "size"
        BY <1>2, <2>2, <4>1 DEF ReaderAt, BeforeChunk
      <4>2. CASE read.pc = "data"
        <5>1. PICK k \in 0..(n - 1) : x = JoinOf(Data(m), k)
          BY <1>2, <4>2 DEF ReaderAt, InChunk
        <5> QED
          BY <1>4, <5>1
      <4> QED
        BY <4>1, <4>2
    <3>2. ~(Complete(m) /\ Delimited(m))
      BY <1>1, WantsMore DEF Eof
    <3>3. m.cut < HeadLen + Len(Payload(m))
      BY <1>1, <1>4, <3>2 DEF InChunks, Delimited, Complete, HeadLen
    <3> QED
      BY <1>1, <3>1, <3>3, ChunksCut
  <2> QED
    BY <2>1, <2>2
<1>6. ReaderAt(m, read', rest)
  BY <1>1, <1>3, <1>5, ReaderEnds
<1> QED
  BY <1>1, <1>6

LEMMA EofInBody ==
  ASSUME NEW m \in Messages, m = msg, ReaderAt(m, read, rest), Eof,
         read.pc \in {"exact", "close"}
  PROVE  ReaderAt(m, read', rest')
<1>1. read \in Readers /\ rest \in Seq(Unit) /\ rest' = rest /\ rest = <<>>
  BY DEF ReaderAt, Eof
<1>2. PICK b \in Seq(Unit) : b = read.buf
  BY <1>1 DEF Readers
<1>3. read' = [read EXCEPT !.pc = "ok", !.body = b]
  BY <1>2 DEF Eof
<1>4. Exact(m, b)
  <2>1. CASE HeadCut(m, read, rest)
    BY <1>2, <2>1, ExactEmpty DEF HeadCut
  <2>2. CASE ~HeadCut(m, read, rest)
    <3>1. From(m, b, rest, HeadLen)
      BY <1>2, <2>2 DEF ReaderAt
    <3>2. m.status = "ok" /\ ~InChunks(m)
      BY <2>2, ReaderAssumption DEF ReaderAt, Delimited, InChunks
    <3>3. PICK w : w = m.body \o m.extra
      OBVIOUS
    <3>4. AfterHead(m, w)
      BY <3>2, <3>3, BodyOnWire
    <3>5. /\ m.cut \in Nat /\ m.cut <= Len(Wire(m)) /\ Len(b) \in Nat /\ Len(rest) = 0
          /\ Len(b) + Len(rest) = m.cut - HeadLen
      BY <1>1, <3>1, CutFacts, EmptySeq DEF From
    <3>6. Len(b) <= Len(w) /\ m.cut = HeadLen + Len(b)
      <4>1. PICK y \in Nat, z \in Nat, c \in Nat : y = Len(b) /\ z = Len(w) /\ c = m.cut
        BY <3>4, <3>5 DEF AfterHead
      <4>2. c <= 3 + z /\ y + 0 = c - 3
        BY <3>4, <3>5, <4>1 DEF HeadLen, AfterHead
      <4>3. y <= z /\ c = 3 + y
        BY <4>2
      <4> QED
        BY <4>1, <4>3 DEF HeadLen
    <3>7. \A i \in 1..Len(b) : b[i] = Wire(m)[HeadLen + i] /\ i \in 1..Len(w)
      <4>1. Len(w) \in Nat
        BY <3>4 DEF AfterHead
      <4>2. \A i \in 1..Len(b) : i \in 1..Len(w)
        BY <3>5, <3>6, <4>1
      <4>3. \A i \in 1..Len(b) : b[i] = Wire(m)[HeadLen + i]
        BY <3>1 DEF From
      <4> QED
        BY <4>2, <4>3
    <3>8. \A i \in 1..Len(b) : b[i] = w[i]
      BY <3>4, <3>7 DEF AfterHead
    <3>9. CASE read.pc = "close"
      <4>1. Begins(b, w)
        BY <3>6, <3>8 DEF Begins
      <4>2. ~Delimited(m) /\ BodyOf(m) = m.body
        BY <2>2, <3>2, <3>9 DEF ReaderAt, BodyOf
      <4>3. m.cut = Len(Wire(m)) => Len(b) = Len(w)
        <5>1. PICK y \in Nat, z \in Nat : y = Len(b) /\ z = Len(w)
          BY <3>4, <3>5 DEF AfterHead
        <5>2. m.cut = 3 + y /\ Len(Wire(m)) = 3 + z
          BY <3>4, <3>6, <5>1 DEF AfterHead, HeadLen
        <5>3. 3 + y = 3 + z => y = z
          OBVIOUS
        <5> QED
          BY <5>1, <5>2, <5>3
      <4> QED
        BY <3>3, <3>4, <4>1, <4>2, <4>3, BeginsPrefix DEF Exact, AfterHead
    <3>10. CASE read.pc = "exact"
      <4>1. m.framing = "length" /\ Len(b) < Len(m.body) /\ m.body \in Seq(Unit)
        BY <1>2, <3>10, MessageFacts DEF ReaderAt, Eof, Wants
      <4>2. \A i \in 1..Len(b) : i \in 1..Len(m.body)
        BY <3>4, <3>5, <4>1 DEF AfterHead
      <4>3. Begins(b, m.body)
        <5>1. Len(b) <= Len(m.body)
          BY <3>4, <3>5, <4>1 DEF AfterHead
        <5>2. \A i \in 1..Len(b) : m.body[i] = b[i]
          BY <3>4, <3>8, <4>2 DEF AfterHead
        <5> QED
          BY <5>1, <5>2 DEF Begins
      <4>4. Delimited(m) /\ BodyOf(m) = m.body
        BY <3>2, <4>1 DEF Delimited, BodyOf
      <4>5. Payload(m) = m.body
        BY <3>2 DEF Payload
      <4>6. ~Complete(m)
        BY <3>4, <3>5, <3>6, <4>1, <4>5 DEF Complete, HeadLen, AfterHead
      <4> QED
        BY <4>1, <4>3, <4>4, <4>6, BeginsPrefix DEF Exact
    <3> QED
      BY <3>9, <3>10
  <2> QED
    BY <2>1, <2>2
<1>5. ReaderAt(m, read', rest)
  BY <1>1, <1>3, <1>4, ReaderEnds
<1> QED
  BY <1>1, <1>5

LEMMA EofKeeps ==
  ASSUME NEW m \in Messages, m = msg, ReaderAt(m, read, rest), Eof
  PROVE  ReaderAt(m, read', rest')
<1>1. read.pc \in {"head", "size", "data", "exact", "close"}
  BY DEF Eof, Wants
<1> QED
  BY <1>1, EofInHead, EofInChunks, EofInBody

LEMMA ReaderKeeps ==
  ASSUME NEW m \in Messages, m = msg, ReaderAt(m, read, rest), ReaderNext
  PROVE  ReaderAt(m, read', rest')
BY ReadSomeKeeps, EofKeeps, ResetKeeps, HeadEndsKeeps, SizeLineKeeps, TakeChunkKeeps,
   ExactEndsKeeps DEF ReaderNext
----------------------------------------------------------------------------
(* The message on its way.                                                 *)

HeadOf(m, c) ==
  /\ c = [te |-> c.te, cl |-> c.cl, ce |-> c.ce, nobody |-> c.nobody, body |-> c.body,
          streaming |-> c.streaming, broken |-> c.broken]
  /\ c.te \in BOOLEAN /\ c.nobody \in BOOLEAN /\ c.streaming \in BOOLEAN /\ c.broken \in BOOLEAN
  /\ c.cl \in {None} \cup 0..Len(m.body)

Stages == {"receive", "chain", "write", "done", "dropped", "bad_gateway", "refused"}

IInv ==
  /\ msg \in Messages /\ way \in Ways /\ chain \in Chains /\ stage \in Stages
  /\ way = "upgrade_reply" => ReaderAt(msg, read, rest)
  /\ way # "upgrade_reply" => read \in Readers /\ read.pc = "head" /\ rest \in Seq(Unit)
  /\ HeadOf(msg, carried)
  /\ view.kind \in {"none", "whole", "short", "garbled"}

LEMMA NothingIsHead ==
  ASSUME NEW m
  PROVE  HeadOf(m, Nothing)
BY DEF HeadOf, Nothing

LEMMA ParsedIsHead ==
  ASSUME msg \in Messages, NEW n, NEW p, p = Parsed(n)
  PROVE  HeadOf(msg, p)
<1>1. Len(msg.body) \in 0..Len(msg.body)
  BY MessageFacts
<1>2. ContentLength(n) \in {None} \cup 0..Len(msg.body)
  BY <1>1 DEF ContentLength, None
<1>3. Chunked(n) \in BOOLEAN /\ NoBodyStatus(n) \in BOOLEAN
  BY DEF Chunked, NoBodyStatus
<1> QED
  BY <1>2, <1>3 DEF Parsed, Nothing, HeadOf

LEMMA BodyKeepsHead ==
  ASSUME NEW m, NEW h, HeadOf(m, h), NEW b, NEW x \in BOOLEAN
  PROVE  /\ HeadOf(m, [h EXCEPT !.body = b])
         /\ HeadOf(m, [h EXCEPT !.body = b, !.streaming = x])
         /\ HeadOf(m, [h EXCEPT !.body = b, !.streaming = TRUE, !.broken = x])
<1>1. HeadOf(m, [h EXCEPT !.body = b])
  BY DEF HeadOf
<1>2. HeadOf(m, [h EXCEPT !.body = b, !.streaming = x])
  <2>1. PICK g : g = [h EXCEPT !.body = b, !.streaming = x]
    OBVIOUS
  <2>2. g.te = h.te /\ g.cl = h.cl /\ g.nobody = h.nobody /\ g.broken = h.broken
    BY <2>1 DEF HeadOf
  <2>3. g.streaming = x
    BY <2>1, Zenon DEF HeadOf
  <2>4. g = [te |-> g.te, cl |-> g.cl, ce |-> g.ce, nobody |-> g.nobody, body |-> g.body,
             streaming |-> g.streaming, broken |-> g.broken]
    BY <2>1 DEF HeadOf
  <2> QED
    BY <2>1, <2>2, <2>3, <2>4 DEF HeadOf
<1>3. HeadOf(m, [h EXCEPT !.body = b, !.streaming = TRUE, !.broken = x])
  <2>1. PICK g : g = [h EXCEPT !.body = b, !.streaming = TRUE, !.broken = x]
    OBVIOUS
  <2>2. g.te = h.te /\ g.cl = h.cl /\ g.nobody = h.nobody /\ g.streaming = TRUE
    BY <2>1 DEF HeadOf
  <2>3. g.broken = x
    BY <2>1, Zenon DEF HeadOf
  <2>4. g = [te |-> g.te, cl |-> g.cl, ce |-> g.ce, nobody |-> g.nobody, body |-> g.body,
             streaming |-> g.streaming, broken |-> g.broken]
    BY <2>1 DEF HeadOf
  <2> QED
    BY <2>1, <2>2, <2>3, <2>4 DEF HeadOf
<1> QED
  BY <1>1, <1>2, <1>3

LEMMA ChainKeepsHead ==
  ASSUME msg \in Messages, HeadOf(msg, carried), NEW c \in Handled
  PROVE  HeadOf(msg, c)
<1>1. ASSUME NEW h, HeadOf(msg, h), NEW d \in DecodeMessage(h) PROVE HeadOf(msg, d)
  <2>1. PICK b : d = h \/ d = [Stripped(h) EXCEPT !.body = b, !.streaming = FALSE]
    BY <1>1 DEF DecodeMessage
  <2> QED
    BY <1>1, <2>1 DEF Stripped, HeadOf
<1>2. ASSUME NEW h, HeadOf(msg, h), NEW e, NEW d \in EncodeMessage(h, e) PROVE HeadOf(msg, d)
  <2>1. PICK b, l : d = [h EXCEPT !.body = b, !.ce = l]
    BY <1>2 DEF EncodeMessage
  <2> QED
    BY <1>2, <2>1 DEF HeadOf
<1> QED
  BY <1>1, <1>2 DEF Handled

LEMMA InitInvariant ==
  ASSUME Init
  PROVE  IInv
<1>1. msg \in Messages /\ way \in Ways /\ chain \in Chains /\ stage \in Stages
  BY DEF Init, ReaderInit, Stages
<1>2. From(msg, <<>>, rest, 0)
  BY <1>1, FromStart DEF Init, ReaderInit
<1>3. rest \in Seq(Unit) /\ <<>> \in Seq(Unit)
  BY <1>2, EmptySeq DEF From
<1>4. read \in Readers /\ read.pc = "head" /\ read.buf = <<>> /\ read.body = <<>>
  <2>1. 0 \in 0..(Word - 1) /\ 0 \in 0..HeadLen
    BY ReaderAssumption DEF HeadLen
  <2> QED
    BY <1>3, <2>1 DEF Init, ReaderInit, Readers
<1>5. ReaderAt(msg, read, rest)
  BY <1>2, <1>3, <1>4 DEF ReaderAt
<1>6. HeadOf(msg, carried)
  BY NothingIsHead DEF Init
<1> QED
  BY <1>1, <1>3, <1>4, <1>5, <1>6 DEF Init, IInv, Unseen

LEMMA StepInvariant ==
  ASSUME IInv, [Next]_vars
  PROVE  IInv'
<1> USE DEF IInv
<1>1. CASE ReadReply
  <2>1. PICK m \in Messages : m = msg
    OBVIOUS
  <2>2. ReaderAt(m, read', rest')
    BY <1>1, <2>1, ReaderKeeps DEF ReadReply
  <2>3. msg' = msg
    BY <1>1 DEF ReadReply, ReaderNext, ReadSome, Eof, Reset, HeadEnds, SizeLine, TakeChunk,
              ExactEnds
  <2>4. ReaderAt(msg', read', rest')
    BY <2>1, <2>2, <2>3
  <2> QED
    BY <1>1, <2>3, <2>4 DEF ReadReply
<1>2. CASE ParseReply
  <2>1. \A b : HeadOf(msg, [Parsed(read.head) EXCEPT !.body = b])
    BY ParsedIsHead, BodyKeepsHead
  <2>2. HeadOf(msg, carried') /\ stage' \in Stages
    BY <1>2, <2>1 DEF ParseReply, Stages
  <2> QED
    BY <1>2, <2>2 DEF ParseReply
<1>3. CASE ReceiveStream
  <2>1. \A b : \A x \in BOOLEAN :
          HeadOf(msg, [Parsed(HeadLen) EXCEPT !.body = b, !.streaming = TRUE, !.broken = x])
    BY ParsedIsHead, BodyKeepsHead
  <2>2. (IF Delimited(msg) THEN ~Complete(msg) \/ BadSize ELSE msg.end = "reset") \in BOOLEAN
    BY DEF BadSize, Complete
  <2>3. HeadOf(msg, carried') /\ stage' \in Stages
    <3>1. PICK b, x : x \in BOOLEAN /\
            (carried' = carried \/
               carried' = [Parsed(HeadLen) EXCEPT !.body = b, !.streaming = TRUE, !.broken = x])
      BY <1>3, <2>2 DEF ReceiveStream
    <3>2. HeadOf(msg, carried')
      <4>1. PICK h : h = Parsed(HeadLen)
        OBVIOUS
      <4>2. HeadOf(msg, h)
        BY <4>1, ParsedIsHead
      <4>3. HeadOf(msg, [h EXCEPT !.body = b, !.streaming = TRUE, !.broken = x])
        BY <3>1, <4>2, BodyKeepsHead
      <4> QED
        BY <3>1, <4>1, <4>3
    <3> QED
      BY <1>3, <3>2 DEF ReceiveStream, Stages
  <2> QED
    BY <1>3, <2>3 DEF ReceiveStream
<1>4. CASE HandlerAnswers
  <2>1. \A b : \A x \in BOOLEAN :
          HeadOf(msg, [Parsed(HeadLen) EXCEPT !.body = b, !.streaming = x])
    BY ParsedIsHead, BodyKeepsHead
  <2>2. HeadOf(msg, carried') /\ stage' \in Stages
    <3>1. PICK x \in BOOLEAN :
            carried' = [Parsed(HeadLen) EXCEPT !.body = BodyOf(msg), !.streaming = x]
      BY <1>4 DEF HandlerAnswers
    <3>2. HeadOf(msg, carried')
      BY <2>1, <3>1
    <3> QED
      BY <1>4, <3>2 DEF HandlerAnswers, Stages
  <2> QED
    BY <1>4, <2>2 DEF HandlerAnswers
<1>5. CASE FirstRead
  <2>1. PICK n \in 1..Len(rest) :
          LET k == IF n < HeadLen THEN n ELSE HeadLen IN
          /\ rest' = SubSeq(rest, n + 1, Len(rest))
          /\ read' = [read EXCEPT !.head = k]
          /\ \/ /\ stage' = "chain"
                /\ carried' = [Parsed(k) EXCEPT !.body = SubSeq(rest, k + 1, n)]
             \/ /\ \/ k < HeadLen /\ stage' = "refused"
                   \/ k = 1 /\ stage' = "dropped"
                /\ UNCHANGED carried
    BY <1>5 DEF FirstRead
  <2>2. way # "upgrade_reply" /\ Len(rest) \in Nat /\ n \in Nat
    BY <1>5 DEF FirstRead, Request
  <2>3. rest' \in Seq(Unit)
    <3>1. Len(rest) \in n..Len(rest)
      BY <2>2
    <3> QED
      BY <2>1, <2>2, <3>1, PartOf
  <2>4. read' \in Readers /\ read'.pc = "head"
    <3>1. (IF n < HeadLen THEN n ELSE HeadLen) \in 0..HeadLen
      BY <2>2 DEF HeadLen
    <3> QED
      BY <2>1, <2>2, <3>1 DEF Readers
  <2>6. HeadOf(msg, carried') /\ stage' \in Stages
    <3>1. PICK k, b : carried' = carried \/ carried' = [Parsed(k) EXCEPT !.body = b]
      BY <2>1
    <3>2. HeadOf(msg, carried')
      <4>1. PICK h : h = Parsed(k)
        OBVIOUS
      <4>2. HeadOf(msg, h)
        BY <4>1, ParsedIsHead
      <4>3. HeadOf(msg, [h EXCEPT !.body = b])
        BY <4>2, BodyKeepsHead
      <4> QED
        BY <3>1, <4>1, <4>3
    <3> QED
      BY <2>1, <3>2 DEF Stages
  <2> QED
    BY <1>5, <2>2, <2>3, <2>4, <2>6 DEF FirstRead
<1>6. CASE ReadNothing
  BY <1>6 DEF ReadNothing, Stages
<1>7. CASE RunChain
  <2>1. HeadOf(msg, carried') /\ stage' \in Stages
    BY <1>7, ChainKeepsHead DEF RunChain, Stages
  <2> QED
    BY <1>7, <2>1 DEF RunChain
<1>8. CASE Write
  <2>1. view'.kind \in {"none", "whole", "short", "garbled"}
    BY <1>8 DEF Write, Serialized, AsWritten, ByHyperServer, ByHyperClient, Whole, Short, Garbled
  <2> QED
    BY <1>8, <2>1 DEF Write, Stages
<1>9. CASE UNCHANGED vars
  BY <1>9 DEF vars
<1> QED
  BY <1>1, <1>2, <1>3, <1>4, <1>5, <1>6, <1>7, <1>8, <1>9 DEF Next

LEMMA Invariance == Spec => []IInv
<1>1. Init => IInv
  BY InitInvariant
<1>2. IInv /\ [Next]_vars => IInv'
  BY StepInvariant
<1> QED
  BY <1>1, <1>2, PTL DEF Spec

\* Type correctness, for messages of any length (read_full_response, handle_http).
THEOREM TypesAlways == Spec => []TypeOK
<1>1. IInv => TypeOK
  <2> SUFFICES ASSUME IInv PROVE TypeOK
    OBVIOUS
  <2>1. read \in Readers
    BY DEF IInv, ReaderAt
  <2>2. {carried.te, carried.nobody, carried.streaming, carried.broken} \subseteq BOOLEAN
        /\ carried.cl \in {None} \cup 0..Len(msg.body)
    BY DEF IInv, HeadOf
  <2> QED
    BY <2>1, <2>2 DEF TypeOK, IInv, Stages, Readers
<1> QED
  BY <1>1, Invariance, PTL

\* read_full_response is exact for any message and any segmentation of it.
THEOREM ReadsAlways == Spec => []ReadExact
<1>1. IInv => ReadExact
  BY DEF IInv, ReaderAt, ReadExact, Exact
<1> QED
  BY <1>1, Invariance, PTL

\* read_full_response fails and panics only for the reasons listed.
THEOREM ReadFailures == Spec => []ReadFailsExplained
<1>1. IInv => ReadFailsExplained
  BY DEF IInv, ReaderAt, ReadFailsExplained, Overflows, Breaks
<1> QED
  BY <1>1, Invariance, PTL
----------------------------------------------------------------------------
(* Coding a body and undoing it, layer by layer.                           *)

\* What one layer looks like: the name of its encoding around what it has within.
Wrapped(w, c, b) ==
  /\ w \in Seq(Unit) /\ Len(b) \in Nat /\ Len(w) = Len(b) + 2
  /\ w[1] = c /\ w[Len(b) + 2] = c
  /\ \A i \in 1..Len(b) : w[i + 1] = b[i]

LEMMA EncodeOneIs ==
  ASSUME NEW b \in Seq(Unit), NEW e \in Unit
  PROVE  /\ EncodeOne(b, e) \in Seq(Unit) /\ Canonical(e) \in Unit
         /\ e = "identity" => EncodeOne(b, e) = b
         /\ e # "identity" => Wrapped(EncodeOne(b, e), Canonical(e), b)
<1>1. Canonical(e) \in Unit
  BY PathAssumption DEF Canonical, Codings
<1>2. PICK c \in Unit : c = Canonical(e)
  BY <1>1
<1>3. PICK p : p = <<c>> \o b
  OBVIOUS
<1>4. <<c>> \in Seq(Unit) /\ Len(<<c>>) = 1 /\ <<c>>[1] = c
  OBVIOUS
<1>5. p \in Seq(Unit) /\ IsConcat(p, <<c>>, b)
  BY <1>3, <1>4, Concatenated
<1>6. PICK w : w = p \o <<c>>
  OBVIOUS
<1>7. w \in Seq(Unit) /\ IsConcat(w, p, <<c>>)
  BY <1>4, <1>5, <1>6, Concatenated
<1>8. Len(b) \in Nat /\ Len(p) = Len(b) + 1 /\ Len(w) = Len(b) + 2
  BY <1>4, <1>5, <1>7 DEF IsConcat
<1>9. /\ w[1] = c /\ w[Len(b) + 2] = c
      /\ \A i \in 1..Len(b) : w[i + 1] = b[i]
  <2>1. 1 \in 1..Len(p) /\ 1 \in 1..1
    BY <1>8
  <2>2. w[1] = p[1] /\ p[1] = c
    BY <1>4, <1>5, <1>7, <2>1 DEF IsConcat
  <2>3. w[Len(p) + 1] = c /\ Len(p) + 1 = Len(b) + 2
    BY <1>4, <1>7, <1>8, <2>1 DEF IsConcat
  <2>4. ASSUME NEW i \in 1..Len(b) PROVE w[i + 1] = b[i]
    <3>1. i + 1 \in 1..Len(p) /\ 1 + i = i + 1
      BY <1>8
    <3>2. w[i + 1] = p[i + 1]
      BY <1>7, <3>1 DEF IsConcat
    <3>3. p[1 + i] = b[i]
      BY <1>4, <1>5 DEF IsConcat
    <3> QED
      BY <3>1, <3>2, <3>3
  <2> QED
    BY <2>2, <2>3, <2>4
<1>10. Wrapped(w, c, b)
  BY <1>7, <1>8, <1>9 DEF Wrapped
<1>11. EncodeOne(b, e) = IF e = "identity" THEN b ELSE w
  BY <1>2, <1>3, <1>6 DEF EncodeOne
<1> QED
  BY <1>1, <1>2, <1>7, <1>10, <1>11

\* Coded is the last value of a function that takes one encoding after the other.
Codes(f, b, es) == f[0] = b /\ \A i \in 1..Len(es) : f[i] = EncodeOne(f[i - 1], es[i])
SolvesCoded(f, b, es) ==
  f = [i \in 0..Len(es) |-> IF i = 0 THEN b ELSE EncodeOne(f[i - 1], es[i])]

LEMMA SolvesCodes ==
  ASSUME NEW es \in Seq(Unit), NEW b, NEW f, SolvesCoded(f, b, es)
  PROVE  Codes(f, b, es)
<1>1. 0 \in 0..Len(es) /\ \A i \in 1..Len(es) : i \in 0..Len(es) /\ i # 0
  OBVIOUS
<1>2. ASSUME NEW i \in 0..Len(es)
      PROVE  f[i] = IF i = 0 THEN b ELSE EncodeOne(f[i - 1], es[i])
  <2> DEFINE g == [j \in 0..Len(es) |-> IF j = 0 THEN b ELSE EncodeOne(f[j - 1], es[j])]
  <2>1. f = g
    BY Zenon DEF SolvesCoded
  <2>2. g[i] = IF i = 0 THEN b ELSE EncodeOne(f[i - 1], es[i])
    BY Zenon
  <2> HIDE DEF g
  <2> QED
    BY <2>1, <2>2, Zenon
<1> QED
  BY <1>1, <1>2 DEF Codes

LEMMA CodedSteps ==
  ASSUME NEW b \in Seq(Unit), NEW lines, NEW es \in Seq(Unit), es = FlattenSeq(lines)
  PROVE  \E f \in [0..Len(es) -> Seq(Unit)] : Codes(f, b, es) /\ Coded(b, lines) = f[Len(es)]
<1> DEFINE n == Len(es)
           T == Seq(Unit)
           step == [i \in 1..n |-> [x \in T |-> EncodeOne(x, es[i])]]
<1>0. n \in Nat /\ b \in T /\ \A i \in 1..n : es[i] \in Unit
  OBVIOUS
<1>1. \A i \in 1..n : \A x \in T : EncodeOne(x, es[i]) \in T
  BY <1>0, EncodeOneIs
<1> HIDE DEF T
<1>2. step \in [1..n -> [T -> T]] /\ \A i \in 1..n : \A x \in T : step[i][x] = EncodeOne(x, es[i])
  BY <1>1
<1> HIDE DEF step
<1>3. step \in Stepping(T, n)
  BY <1>2 DEF Stepping
<1>4. PICK f \in [0..n -> T] : Recurses(f, b, n, step)
  <2> HIDE DEF n
  <2> QED
    BY <1>0, <1>3, RecursionFrom
<1>5. f[0] = b /\ \A i \in 1..n : f[i] = step[i][f[i - 1]]
  BY <1>4 DEF Recurses
<1>6. \A i \in 1..n : f[i - 1] \in T
  BY <1>0, <1>4
<1>7. \A i \in 1..n : f[i] = EncodeOne(f[i - 1], es[i])
  BY <1>2, <1>5, <1>6
<1>8. SolvesCoded(f, b, es)
  <2>1. \A i \in 0..n : f[i] = IF i = 0 THEN b ELSE EncodeOne(f[i - 1], es[i])
    BY <1>0, <1>5, <1>7
  <2> QED
    BY <1>4, <2>1, Zenon DEF SolvesCoded
<1> DEFINE c == CHOOSE g : SolvesCoded(g, b, es)
<1>9. SolvesCoded(c, b, es)
  <2> HIDE DEF SolvesCoded
  <2> QED
    BY <1>8
<1>10. Coded(b, lines) = c[n]
  BY DEF Coded, SolvesCoded
<1>11. Codes(f, b, es) /\ Codes(c, b, es)
  <2> HIDE DEF c
  <2> QED
    BY <1>8, <1>9, SolvesCodes
<1>12. c[n] = f[n]
  <2> DEFINE U == {i \in 0..n : c[i] = f[i]}
  <2> HIDE DEF c
  <2>1. 0 \in U
    BY <1>0, <1>11 DEF Codes
  <2>2. \A i \in 0..(n - 1) : i \in U => i + 1 \in U
    <3> TAKE i \in 0..(n - 1)
    <3> HAVE i \in U
    <3>1. i + 1 \in 1..n /\ (i + 1) - 1 = i /\ i + 1 \in 0..n
      BY <1>0
    <3>2. c[i + 1] = EncodeOne(c[i], es[i + 1]) /\ f[i + 1] = EncodeOne(f[i], es[i + 1])
      BY <1>11, <3>1 DEF Codes
    <3> QED
      BY <3>1, <3>2
  <2> HIDE DEF U, n
  <2>3. \A i \in 0..n : i \in U
    BY <1>0, <2>1, <2>2, InductionUpTo
  <2> QED
    BY <1>0, <2>3 DEF U
<1> QED
  BY <1>4, <1>10, <1>11, <1>12 DEF T
----------------------------------------------------------------------------
\* Where a decoder may find the end of its stream, and where it takes it.
Stops(b, c) == {j \in 2..Len(b) : b[j] = c}
StopOf(b, c) == CHOOSE j \in Stops(b, c) : \A k \in Stops(b, c) : j <= k

LEMMA StopIsFirst ==
  ASSUME NEW b \in Seq(Unit), NEW c, Stops(b, c) # {}
  PROVE  StopOf(b, c) \in Stops(b, c) /\ \A k \in Stops(b, c) : StopOf(b, c) <= k
<1>1. Stops(b, c) \in SUBSET Nat
  BY DEF Stops
<1>2. PICK j \in Stops(b, c) : \A k \in Stops(b, c) : ~(k < j)
  BY <1>1, LeastNumber
<1>3. \A k \in Stops(b, c) : j <= k
  BY <1>1, <1>2
<1> QED
  BY <1>2, <1>3 DEF StopOf

\* The ways in which a layer is undone or found wrong.
Starts(b, c) == Len(b) > 0 /\ b[1] = c
EndsWell(b, c) == Starts(b, c) /\ Stops(b, c) # {} /\ (c = "zstd" => Stops(b, c) = {Len(b)})
Empty(b, c) == Len(b) = 0 /\ c \in Lenient
Endless(b, c) == Starts(b, c) /\ Stops(b, c) = {} /\ c \in Lenient

LEMMA DecodeOneIs ==
  ASSUME NEW b \in Seq(Unit), NEW e, NEW r, r = Decoded(b), NEW c, c = Canonical(e)
  PROVE  /\ e = "identity" => DecodeOne(r, e) = r
         /\ e # "identity" /\ c \notin Codings => DecodeOne(r, e) = Failed
         /\ e # "identity" /\ c \in Codings =>
              /\ EndsWell(b, c) => DecodeOne(r, e) = Decoded(SubSeq(b, 2, StopOf(b, c) - 1))
              /\ Empty(b, c) => DecodeOne(r, e) = r
              /\ Endless(b, c) => DecodeOne(r, e) = Decoded(Tail(b))
              /\ ~EndsWell(b, c) /\ ~Empty(b, c) /\ ~Endless(b, c) => DecodeOne(r, e) = Failed
<1>1. r.ok = TRUE /\ r.body = b
  BY DEF Decoded
<1>2. e = "identity" => DecodeOne(r, e) = r
  BY DEF DecodeOne
<1>3. e # "identity" /\ c \notin Codings => DecodeOne(r, e) = Failed
  BY <1>1 DEF DecodeOne
<1>4. ASSUME e # "identity", c \in Codings
      PROVE  DecodeOne(r, e) =
               CASE EndsWell(b, c) -> Decoded(SubSeq(b, 2, StopOf(b, c) - 1))
                 [] Empty(b, c) -> r
                 [] Endless(b, c) -> Decoded(Tail(b))
                 [] OTHER -> Failed
  BY <1>1, <1>4, Zenon DEF DecodeOne, EndsWell, Empty, Endless, Starts, Stops, StopOf
<1>5. Len(b) \in Nat
  OBVIOUS
<1>6. ASSUME e # "identity", c \in Codings
      PROVE  /\ EndsWell(b, c) => DecodeOne(r, e) = Decoded(SubSeq(b, 2, StopOf(b, c) - 1))
             /\ Empty(b, c) => DecodeOne(r, e) = r
             /\ Endless(b, c) => DecodeOne(r, e) = Decoded(Tail(b))
             /\ ~EndsWell(b, c) /\ ~Empty(b, c) /\ ~Endless(b, c) => DecodeOne(r, e) = Failed
  <2>1. ~(EndsWell(b, c) /\ Empty(b, c)) /\ ~(Empty(b, c) /\ Endless(b, c))
        /\ ~(EndsWell(b, c) /\ Endless(b, c))
    BY <1>5 DEF EndsWell, Empty, Endless, Starts
  <2> QED
    BY <1>4, <1>6, <2>1
<1> QED
  BY <1>2, <1>3, <1>6

LEMMA DecodeFailed == \A e : DecodeOne(Failed, e) = Failed
BY DEF DecodeOne, Failed

Results == {Failed} \cup {Decoded(b) : b \in Seq(Unit)}

LEMMA DecodeOneType ==
  ASSUME NEW r \in Results, NEW e
  PROVE  DecodeOne(r, e) \in Results
<1>1. CASE r = Failed
  BY <1>1, DecodeFailed DEF Results
<1>2. ASSUME NEW b \in Seq(Unit), r = Decoded(b) PROVE DecodeOne(r, e) \in Results
  <2>1. PICK c : c = Canonical(e)
    OBVIOUS
  <2>2. ASSUME EndsWell(b, c) PROVE SubSeq(b, 2, StopOf(b, c) - 1) \in Seq(Unit)
    <3>1. PICK j : j = StopOf(b, c)
      OBVIOUS
    <3>2. j \in 2..Len(b)
      BY <2>2, <3>1, StopIsFirst DEF EndsWell, Stops
    <3>3. 1 \in Nat /\ j - 1 \in 1..Len(b) /\ 1 + 1 = 2
      BY <3>2
    <3>4. SubSeq(b, 1 + 1, j - 1) \in Seq(Unit)
      BY <3>3, PartOf
    <3> QED
      BY <3>1, <3>3, <3>4
  <2>3. ASSUME Endless(b, c) PROVE Tail(b) \in Seq(Unit)
    <3>1. b # <<>>
      BY <2>3, EmptySeq DEF Endless, Starts
    <3> QED
      BY <3>1, HeadTailProperties
  <2>4. \/ DecodeOne(r, e) = Failed \/ DecodeOne(r, e) = r
        \/ EndsWell(b, c) /\ DecodeOne(r, e) = Decoded(SubSeq(b, 2, StopOf(b, c) - 1))
        \/ Endless(b, c) /\ DecodeOne(r, e) = Decoded(Tail(b))
    BY <1>2, <2>1, DecodeOneIs
  <2> QED
    BY <2>2, <2>3, <2>4 DEF Results
<1> QED
  BY <1>1, <1>2 DEF Results

Decodes(g, b, es) ==
  g[0] = Decoded(b) /\ \A i \in 1..Len(es) : g[i] = DecodeOne(g[i - 1], es[i])
SolvesDecode(g, b, es) ==
  g = [i \in 0..Len(es) |-> IF i = 0 THEN Decoded(b) ELSE DecodeOne(g[i - 1], es[i])]

LEMMA SolvesDecodes ==
  ASSUME NEW es \in Seq(Unit), NEW b, NEW g, SolvesDecode(g, b, es)
  PROVE  Decodes(g, b, es)
<1>1. 0 \in 0..Len(es) /\ \A i \in 1..Len(es) : i \in 0..Len(es) /\ i # 0
  OBVIOUS
<1>2. ASSUME NEW i \in 0..Len(es)
      PROVE  g[i] = IF i = 0 THEN Decoded(b) ELSE DecodeOne(g[i - 1], es[i])
  <2> DEFINE h == [j \in 0..Len(es) |->
                     IF j = 0 THEN Decoded(b) ELSE DecodeOne(g[j - 1], es[j])]
  <2>1. g = h
    BY Zenon DEF SolvesDecode
  <2>2. h[i] = IF i = 0 THEN Decoded(b) ELSE DecodeOne(g[i - 1], es[i])
    BY Zenon
  <2> HIDE DEF h
  <2> QED
    BY <2>1, <2>2, Zenon
<1> QED
  BY <1>1, <1>2 DEF Decodes

LEMMA DecodeSteps ==
  ASSUME NEW b \in Seq(Unit), NEW lines, NEW es \in Seq(Unit), es = Encodings(lines)
  PROVE  \E g \in [0..Len(es) -> Results] : Decodes(g, b, es) /\ DecodeBody(b, lines) = g[Len(es)]
<1> DEFINE n == Len(es)
           step == [i \in 1..n |-> [x \in Results |-> DecodeOne(x, es[i])]]
<1>0. n \in Nat
  OBVIOUS
<1>1. \A i \in 1..n : \A x \in Results : DecodeOne(x, es[i]) \in Results
  BY DecodeOneType
<1>2. /\ step \in [1..n -> [Results -> Results]]
      /\ \A i \in 1..n : \A x \in Results : step[i][x] = DecodeOne(x, es[i])
  BY <1>1
<1> HIDE DEF step
<1>3. step \in Stepping(Results, n)
  BY <1>2 DEF Stepping
<1>4. PICK f \in [0..n -> Results] : Recurses(f, Decoded(b), n, step)
  <2>1. Decoded(b) \in Results
    BY DEF Results
  <2> HIDE DEF n
  <2> QED
    BY <1>0, <1>3, <2>1, RecursionFrom
<1>5. f[0] = Decoded(b) /\ \A i \in 1..n : f[i] = step[i][f[i - 1]]
  BY <1>4 DEF Recurses
<1>6. \A i \in 1..n : f[i - 1] \in Results
  BY <1>0, <1>4
<1>7. \A i \in 1..n : f[i] = DecodeOne(f[i - 1], es[i])
  BY <1>2, <1>5, <1>6
<1>8. SolvesDecode(f, b, es)
  <2>1. \A i \in 0..n : f[i] = IF i = 0 THEN Decoded(b) ELSE DecodeOne(f[i - 1], es[i])
    BY <1>0, <1>5, <1>7
  <2> QED
    BY <1>4, <2>1, Zenon DEF SolvesDecode
<1> DEFINE c == CHOOSE g : SolvesDecode(g, b, es)
<1>9. SolvesDecode(c, b, es)
  <2> HIDE DEF SolvesDecode
  <2> QED
    BY <1>8
<1>10. DecodeBody(b, lines) = c[n]
  BY DEF DecodeBody, SolvesDecode
<1>11. Decodes(f, b, es) /\ Decodes(c, b, es)
  <2> HIDE DEF c
  <2> QED
    BY <1>8, <1>9, SolvesDecodes
<1>12. c[n] = f[n]
  <2> DEFINE U == {i \in 0..n : c[i] = f[i]}
  <2> HIDE DEF c
  <2>1. 0 \in U
    BY <1>0, <1>11 DEF Decodes
  <2>2. \A i \in 0..(n - 1) : i \in U => i + 1 \in U
    <3> TAKE i \in 0..(n - 1)
    <3> HAVE i \in U
    <3>1. i + 1 \in 1..n /\ (i + 1) - 1 = i /\ i + 1 \in 0..n
      BY <1>0
    <3>2. c[i + 1] = DecodeOne(c[i], es[i + 1]) /\ f[i + 1] = DecodeOne(f[i], es[i + 1])
      BY <1>11, <3>1 DEF Decodes
    <3> QED
      BY <3>1, <3>2
  <2> HIDE DEF U, n
  <2>3. \A i \in 0..n : i \in U
    BY <1>0, <2>1, <2>2, InductionUpTo
  <2> QED
    BY <1>0, <2>3 DEF U
<1> QED
  BY <1>4, <1>10, <1>11, <1>12
----------------------------------------------------------------------------
Lacks(b, c) == \A i \in 1..Len(b) : b[i] # c

\* A whole layer is undone, whatever follows it; but zstd looks for another.
LEMMA Undone ==
  ASSUME NEW b \in Seq(Unit), NEW w \in Seq(Unit), NEW e, NEW c, c = Canonical(e),
         e # "identity", c \in Codings, Wrapped(w, c, b), Lacks(b, c), NEW x \in Seq(Unit)
  PROVE  DecodeOne(Decoded(w \o x), e) =
           IF c = "zstd" /\ Len(x) > 0 THEN Failed ELSE Decoded(b)
<1>1. PICK v : v = w \o x
  OBVIOUS
<1>2. v \in Seq(Unit) /\ IsConcat(v, w, x)
  BY <1>1, Concatenated
<1>3. PICK l \in Nat : l = Len(b)
  OBVIOUS
<1>4. PICK y \in Nat : y = Len(x)
  OBVIOUS
<1>5. /\ Len(w) = l + 2 /\ Len(v) = l + 2 + y
      /\ w[1] = c /\ w[l + 2] = c /\ \A i \in 1..l : w[i + 1] = b[i]
  BY <1>2, <1>3, <1>4 DEF Wrapped, IsConcat
<1>6. \A i \in 1..(l + 2) : v[i] = w[i]
  BY <1>2, <1>5 DEF IsConcat
<1>7. v[1] = c /\ v[l + 2] = c /\ \A i \in 1..l : v[i + 1] = b[i]
  <2>1. 1 \in 1..(l + 2) /\ l + 2 \in 1..(l + 2) /\ \A i \in 1..l : i + 1 \in 1..(l + 2)
    BY <1>3
  <2> QED
    BY <1>5, <1>6, <2>1
<1>8. ASSUME NEW i \in 2..(l + 1) PROVE v[i] # c
  <2>1. i - 1 \in 1..l /\ (i - 1) + 1 = i
    BY <1>3
  <2> QED
    BY <1>3, <1>7, <2>1 DEF Lacks
<1>9. l + 2 \in Stops(v, c) /\ \A j \in Stops(v, c) : l + 2 <= j
  <2>1. l + 2 \in 2..Len(v)
    BY <1>3, <1>4, <1>5
  <2>2. ASSUME NEW j \in 2..Len(v), v[j] = c PROVE l + 2 <= j
    <3>1. Len(v) \in Nat /\ j \in Nat /\ j >= 2
      BY <1>3, <1>4, <1>5
    <3>2. ASSUME ~(l + 2 <= j) PROVE j \in 2..(l + 1)
      BY <1>3, <3>1, <3>2
    <3> QED
      BY <1>8, <2>2, <3>2
  <2> QED
    BY <1>7, <2>1, <2>2 DEF Stops
<1>10. StopOf(v, c) = l + 2
  <2>1. StopOf(v, c) \in Stops(v, c) /\ \A k \in Stops(v, c) : StopOf(v, c) <= k
    BY <1>2, <1>9, StopIsFirst
  <2>2. StopOf(v, c) \in Nat /\ l + 2 \in Nat
    BY <1>3, <2>1 DEF Stops
  <2> QED
    BY <1>9, <2>1, <2>2
<1>11. Starts(v, c)
  BY <1>3, <1>4, <1>5, <1>7 DEF Starts
<1>12. ~Empty(v, c) /\ ~Endless(v, c)
  BY <1>3, <1>4, <1>5, <1>9 DEF Empty, Endless
<1>13. CASE c = "zstd" /\ Len(x) > 0
  <2>1. l + 2 # Len(v)
    BY <1>3, <1>4, <1>5, <1>13
  <2>2. ~EndsWell(v, c)
    BY <1>9, <1>13, <2>1 DEF EndsWell
  <2>3. DecodeOne(Decoded(v), e) = Failed
    BY <1>2, <1>12, <2>2, DecodeOneIs
  <2> QED
    BY <1>1, <1>13, <2>3
<1>14. CASE ~(c = "zstd" /\ Len(x) > 0)
  <2>1. c = "zstd" => Stops(v, c) = {Len(v)}
    <3>1. ASSUME c = "zstd" PROVE y = 0
      BY <1>4, <1>14, <3>1
    <3>2. ASSUME c = "zstd", NEW j \in Stops(v, c) PROVE j = Len(v)
      <4>1. j \in Nat /\ j <= Len(v) /\ Len(v) = l + 2
        BY <1>3, <1>5, <3>1, <3>2 DEF Stops
      <4> QED
        BY <1>3, <1>9, <4>1
    <3>3. ASSUME c = "zstd" PROVE Len(v) \in Stops(v, c)
      <4>1. Len(v) = l + 2
        BY <1>3, <1>5, <3>1, <3>3
      <4> QED
        BY <1>9, <4>1
    <3> QED
      BY <3>2, <3>3
  <2>2. EndsWell(v, c)
    BY <1>9, <1>11, <2>1 DEF EndsWell
  <2>3. DecodeOne(Decoded(v), e) = Decoded(SubSeq(v, 2, (l + 2) - 1))
    BY <1>2, <1>10, <2>2, DecodeOneIs
  <2>4. SubSeq(v, 2, (l + 2) - 1) = b
    <3>1. PICK s : s = SubSeq(v, 1 + 1, l + 1)
      OBVIOUS
    <3>2. 1 \in Nat /\ l + 1 \in 1..Len(v) /\ (l + 1) - 1 = l
      BY <1>3, <1>4, <1>5
    <3>3. s \in Seq(Unit) /\ IsPart(s, v, 1, (l + 1) - 1)
      BY <1>2, <3>1, <3>2, PartOf
    <3>4. Len(s) = l /\ \A i \in 1..l : s[i] = v[1 + i]
      BY <3>2, <3>3 DEF IsPart
    <3>5. \A i \in 1..l : s[i] = b[i]
      <4>1. \A i \in 1..l : 1 + i = i + 1
        BY <1>3
      <4> QED
        BY <1>7, <3>4, <4>1
    <3>6. s = b
      BY <1>3, <3>3, <3>4, <3>5, SeqEqual
    <3>7. 1 + 1 = 2 /\ (l + 2) - 1 = l + 1
      BY <1>3
    <3> QED
      BY <3>1, <3>6, <3>7
  <2> QED
    BY <1>1, <1>14, <2>3, <2>4
<1> QED
  BY <1>13, <1>14

\* Of a layer cut short, at most a lenient decoder makes something: a beginning.
LEMMA UndoneInPart ==
  ASSUME NEW b \in Seq(Unit), NEW w \in Seq(Unit), NEW e, NEW c, c = Canonical(e),
         e # "identity", Wrapped(w, c, b), Lacks(b, c),
         NEW p \in Seq(Unit), Begins(p, w), Len(p) < Len(w)
  PROVE  \/ DecodeOne(Decoded(p), e) = Failed
         \/ /\ c \in Lenient
            /\ \E q \in Seq(Unit) : Begins(q, b) /\ DecodeOne(Decoded(p), e) = Decoded(q)
<1>1. PICK l \in Nat, y \in Nat : l = Len(b) /\ y = Len(p)
  OBVIOUS
<1>2. y <= l + 1 /\ Len(w) = l + 2 /\ \A i \in 1..l : w[i + 1] = b[i]
  BY <1>1 DEF Wrapped
<1>3. ASSUME NEW i \in 2..y PROVE p[i] = b[i - 1] /\ i - 1 \in 1..l
  <2>1. i - 1 \in 1..l /\ (i - 1) + 1 = i /\ i \in 1..y
    BY <1>1, <1>2
  <2>2. w[i] = p[i]
    BY <1>1, <2>1 DEF Begins
  <2> QED
    BY <1>2, <2>1, <2>2
<1>4. Stops(p, c) = {}
  BY <1>1, <1>3 DEF Stops, Lacks
<1>5. ~EndsWell(p, c)
  BY <1>4 DEF EndsWell
<1>6. CASE c \notin Codings
  BY <1>6, DecodeOneIs
<1>7. CASE c \in Codings /\ Empty(p, c)
  <2>1. DecodeOne(Decoded(p), e) = Decoded(p)
    BY <1>7, DecodeOneIs
  <2>2. Begins(p, b)
    BY <1>1, <1>7 DEF Begins, Empty
  <2> QED
    BY <1>7, <2>1, <2>2 DEF Empty
<1>8. CASE c \in Codings /\ Endless(p, c)
  <2>1. DecodeOne(Decoded(p), e) = Decoded(Tail(p))
    BY <1>8, DecodeOneIs
  <2>2. p # <<>> /\ y > 0
    BY <1>1, <1>8, EmptySeq DEF Endless, Starts
  <2>3. PICK q : q = Tail(p)
    OBVIOUS
  <2>4. q \in Seq(Unit) /\ Len(q) = y - 1 /\ \A i \in 1..(y - 1) : q[i] = p[i + 1]
    BY <1>1, <2>2, <2>3, HeadTailProperties
  <2>5. ASSUME NEW i \in 1..(y - 1) PROVE b[i] = q[i]
    <3>1. i + 1 \in 2..y /\ (i + 1) - 1 = i
      BY <1>1
    <3> QED
      BY <1>3, <2>4, <3>1
  <2>6. Begins(q, b)
    BY <1>1, <1>2, <2>4, <2>5 DEF Begins
  <2> QED
    BY <1>8, <2>1, <2>3, <2>4, <2>6 DEF Endless
<1>9. CASE c \in Codings /\ ~Empty(p, c) /\ ~Endless(p, c)
  BY <1>5, <1>9, DecodeOneIs
<1> QED
  BY <1>6, <1>7, <1>8, <1>9
----------------------------------------------------------------------------
(* The layers of a message.                                                *)

LEMMA MessageLayers ==
  ASSUME NEW m \in Messages
  PROVE  /\ m.content \in Seq(Unit) /\ m.ce \in Seq(Seq(Unit))
         /\ FlattenSeq(m.ce) \in Seq(Unit)
         /\ Len(m.ce) = 0 => FlattenSeq(m.ce) = <<>>
<1>1. m.content \in Seq(Unit) /\ m.ce \in Seq(Seq(Unit) \ {<<>>})
  BY PathAssumption
<1>2. m.ce \in Seq(Seq(Unit))
  <2>1. Seq(Unit) \ {<<>>} \subseteq Seq(Unit)
    OBVIOUS
  <2> QED
    BY <1>1, <2>1, SeqMonotonic
<1>3. <<>> \in Seq(Unit)
  BY EmptySeq
<1> QED
  BY <1>1, <1>2, <1>3, FlattenAppend

\* The i-th encoding with its layer, and what is within.
LayersOf(m, es, f) ==
  /\ es \in Seq(Unit) /\ es = FlattenSeq(m.ce)
  /\ f \in [0..Len(es) -> Seq(Unit)]
  /\ Codes(f, m.content, es) /\ m.body = f[Len(es)]

LEMMA HasLayers ==
  ASSUME NEW m \in Messages
  PROVE  \E es, f : LayersOf(m, es, f)
<1>1. PICK es : es = FlattenSeq(m.ce)
  OBVIOUS
<1>2. es \in Seq(Unit) /\ m.content \in Seq(Unit)
  BY <1>1, MessageLayers
<1>3. PICK f \in [0..Len(es) -> Seq(Unit)] :
        Codes(f, m.content, es) /\ Coded(m.content, m.ce) = f[Len(es)]
  BY <1>1, <1>2, CodedSteps
<1>4. m.body = Coded(m.content, m.ce)
  BY PathAssumption
<1>5. LayersOf(m, es, f)
  BY <1>1, <1>2, <1>3, <1>4 DEF LayersOf
<1> QED
  BY <1>5

\* What is within the i-th layer is the content and the names of layers within.
Made(m, es, k, s) ==
  \A i \in 1..Len(s) :
    \/ s[i] \in ToSet(m.content)
    \/ \E j \in 1..k : es[j] # "identity" /\ s[i] = Canonical(es[j])

LEMMA WithinLayers ==
  ASSUME NEW m \in Messages, NEW es, NEW f, LayersOf(m, es, f)
  PROVE  \A k \in 0..Len(es) : Made(m, es, k, f[k])
<1> DEFINE n == Len(es)
           U == {k \in 0..n : Made(m, es, k, f[k])}
<1>1. /\ es \in Seq(Unit) /\ f \in [0..n -> Seq(Unit)] /\ Codes(f, m.content, es)
      /\ n \in Nat /\ m.content \in Seq(Unit)
  BY MessageLayers DEF LayersOf
<1>2. 0 \in U
  <2>1. f[0] = m.content /\ 0 \in 0..n
    BY <1>1 DEF Codes
  <2>2. \A i \in 1..Len(m.content) : m.content[i] \in ToSet(m.content)
    BY <1>1 DEF ToSet
  <2> QED
    BY <2>1, <2>2 DEF Made
<1>3. ASSUME NEW k \in 0..(n - 1), k \in U PROVE k + 1 \in U
  <2>1. k + 1 \in 1..n /\ (k + 1) - 1 = k /\ k + 1 \in 0..n /\ k \in Nat
    BY <1>1
  <2>2. PICK b \in Seq(Unit), e \in Unit, w \in {f[k + 1]} : b = f[k] /\ e = es[k + 1]
    BY <1>1, <2>1
  <2>3. w = EncodeOne(b, e)
    BY <1>1, <2>1, <2>2 DEF Codes
  <2>4. Made(m, es, k, b)
    BY <1>3, <2>2
  <2>5. Made(m, es, k + 1, b)
    <3>1. \A j \in 1..k : j \in 1..(k + 1)
      BY <2>1
    <3> QED
      BY <2>4, <3>1, Zenon DEF Made
  <2>6. CASE e = "identity"
    <3>1. w = b
      BY <2>2, <2>3, <2>6, EncodeOneIs
    <3> QED
      BY <2>1, <2>2, <2>5, <3>1
  <2>7. CASE e # "identity"
    <3>1. Wrapped(w, Canonical(e), b)
      BY <2>2, <2>3, <2>7, EncodeOneIs
    <3>2. ASSUME NEW i \in 1..Len(w)
          PROVE  w[i] = Canonical(e) \/ \E a \in 1..Len(b) : w[i] = b[a]
      <4>1. Len(b) \in Nat /\ Len(w) = Len(b) + 2
        BY <3>1 DEF Wrapped
      <4>2. i = 1 \/ i = Len(b) + 2 \/ (i - 1 \in 1..Len(b) /\ (i - 1) + 1 = i)
        BY <4>1
      <4> QED
        BY <3>1, <4>2 DEF Wrapped
    <3>3. k + 1 \in 1..(k + 1)
      BY <2>1
    <3>4. Made(m, es, k + 1, w)
      BY <2>2, <2>5, <2>7, <3>2, <3>3 DEF Made
    <3> QED
      BY <2>1, <2>2, <3>4
  <2> QED
    BY <2>6, <2>7
<1> HIDE DEF U, n
<1>4. \A k \in 0..n : k \in U
  <2>1. \A k \in 0..(n - 1) : k \in U => k + 1 \in U
    BY <1>3
  <2> QED
    BY <1>1, <1>2, <2>1, InductionUpTo
<1> QED
  BY <1>4 DEF U, n

\* No layer has its own name within.
LEMMA LayerLacks ==
  ASSUME NEW m \in Messages, NEW es, NEW f, LayersOf(m, es, f),
         NEW k \in 1..Len(es), es[k] # "identity"
  PROVE  /\ f[k - 1] \in Seq(Unit) /\ f[k] \in Seq(Unit)
         /\ Lacks(f[k - 1], Canonical(es[k]))
         /\ Wrapped(f[k], Canonical(es[k]), f[k - 1])
<1>1. /\ es \in Seq(Unit) /\ f \in [0..Len(es) -> Seq(Unit)] /\ Codes(f, m.content, es)
      /\ Len(es) \in Nat /\ es = FlattenSeq(m.ce)
  BY DEF LayersOf
<1>2. k - 1 \in 0..Len(es) /\ k \in 0..Len(es) /\ k \in Nat
  BY <1>1
<1>3. f[k - 1] \in Seq(Unit) /\ f[k] \in Seq(Unit) /\ es[k] \in Unit
  BY <1>1, <1>2
<1>4. Wrapped(f[k], Canonical(es[k]), f[k - 1])
  BY <1>1, <1>3, EncodeOneIs DEF Codes
<1>5. Made(m, es, k - 1, f[k - 1])
  BY <1>2, WithinLayers
<1>6. /\ \A i, j \in Layers(m) : Layer(m, i) = Layer(m, j) => i = j
      /\ \A i \in Layers(m) : Layer(m, i) \notin ToSet(m.content)
  BY PathAssumption
<1>7. \A i \in 1..Len(es) : es[i] # "identity" => i \in Layers(m) /\ Layer(m, i) = Canonical(es[i])
  BY <1>1 DEF Layers, Layer
<1>8. ASSUME NEW i \in 1..Len(f[k - 1]) PROVE f[k - 1][i] # Canonical(es[k])
  <2>1. CASE f[k - 1][i] \in ToSet(m.content)
    BY <1>6, <1>7, <2>1
  <2>2. ASSUME NEW j \in 1..(k - 1), es[j] # "identity", f[k - 1][i] = Canonical(es[j])
        PROVE  f[k - 1][i] # Canonical(es[k])
    <3>1. j \in 1..Len(es) /\ j # k
      BY <1>1, <1>2
    <3> QED
      BY <1>6, <1>7, <2>2, <3>1
  <2> QED
    BY <1>5, <2>1, <2>2 DEF Made
<1> QED
  BY <1>3, <1>4, <1>8 DEF Lacks

\* Encodings turns the header around.
Turned(rs, es) ==
  /\ rs \in Seq(Unit) /\ Len(rs) = Len(es)
  /\ \A i \in 1..Len(es) : rs[i] = es[(Len(es) - i) + 1]

LEMMA EncodingsTurned ==
  ASSUME NEW lines, NEW es \in Seq(Unit), es = FlattenSeq(lines)
  PROVE  Turned(Encodings(lines), es)
<1>1. Encodings(lines) = [i \in 1..Len(es) |-> es[(Len(es) - i) + 1]]
  BY DEF Encodings, Reverse
<1>2. \A i \in 1..Len(es) : (Len(es) - i) + 1 \in 1..Len(es)
  OBVIOUS
<1>3. Encodings(lines) \in Seq(Unit) /\ Len(Encodings(lines)) = Len(es)
  BY <1>1, <1>2
<1> QED
  BY <1>1, <1>3 DEF Turned

\* What decoding has made of a message after i of its n layers, if it had all of it
\* and x after it: the layer, unless an encoding is unknown or is zstd, which looks for
\* a frame in x.
Unknown(es) == \E j \in 1..Len(es) : es[j] # "identity" /\ Canonical(es[j]) \notin Codings
Frames(es) == \E j \in 1..Len(es) : es[j] = "zstd"
Plain(es, i) == \A j \in (Len(es) - i + 1)..Len(es) : es[j] = "identity"
WholeAt(r, es, f, x, i) ==
  \/ r = Failed /\ (Unknown(es) \/ (Len(x) > 0 /\ Frames(es)))
  \/ r = Decoded(f[Len(es) - i])
  \/ r = Decoded(f[Len(es) - i] \o x) /\ Plain(es, i)

LEMMA WholeStep ==
  ASSUME NEW m \in Messages, NEW es, NEW f, LayersOf(m, es, f), NEW x \in Seq(Unit),
         NEW i \in 0..(Len(es) - 1), NEW r, WholeAt(r, es, f, x, i),
         NEW e, e = es[Len(es) - i], NEW k, k = Len(es) - i
  PROVE  WholeAt(DecodeOne(r, e), es, f, x, i + 1)
<1>1. /\ es \in Seq(Unit) /\ f \in [0..Len(es) -> Seq(Unit)] /\ Codes(f, m.content, es)
      /\ Len(es) \in Nat
  BY DEF LayersOf
<1>2. k \in 1..Len(es) /\ k - 1 \in 0..Len(es) /\ k \in 0..Len(es) /\ Len(es) - (i + 1) = k - 1
  BY <1>1
<1>3. e \in Unit /\ e = es[k] /\ f[k] = EncodeOne(f[k - 1], e) /\ f[k - 1] \in Seq(Unit)
  <2>1. e = es[k] /\ es[k] \in Unit
    BY <1>1, <1>2
  <2>2. f[k - 1] \in Seq(Unit)
    BY <1>1, <1>2
  <2>3. f[k] = EncodeOne(f[k - 1], es[k])
    BY <1>1, <1>2 DEF Codes
  <2> QED
    BY <2>1, <2>2, <2>3
<1>4. r = Failed => DecodeOne(r, e) = r
  BY DecodeFailed
<1>5. CASE r = Failed /\ (Unknown(es) \/ (Len(x) > 0 /\ Frames(es)))
  BY <1>4, <1>5 DEF WholeAt
<1>6. CASE e = "identity" /\ r # Failed
  <2>1. DecodeOne(r, e) = r
    BY <1>6 DEF DecodeOne
  <2>2. f[k] = f[k - 1]
    BY <1>3, <1>6, EncodeOneIs
  <2>3. Plain(es, i) => Plain(es, i + 1)
    <3>1. \A j \in (Len(es) - (i + 1) + 1)..Len(es) : j = k \/ j \in (Len(es) - i + 1)..Len(es)
      BY <1>1
    <3> QED
      BY <1>3, <1>6, <3>1 DEF Plain
  <2> QED
    BY <1>2, <1>6, <2>1, <2>2, <2>3 DEF WholeAt
<1>7. CASE e # "identity" /\ r # Failed
  <2>1. PICK c : c = Canonical(e)
    OBVIOUS
  <2>2. PICK b \in Seq(Unit), w \in Seq(Unit) :
          b = f[k - 1] /\ w = f[k] /\ Lacks(b, c) /\ Wrapped(w, c, b)
    BY <1>2, <1>3, <1>7, <2>1, LayerLacks
  <2>3. r = Decoded(w) \/ r = Decoded(w \o x)
    BY <1>7, <2>2 DEF WholeAt
  <2>4. CASE c \notin Codings
    <3>1. w \o x \in Seq(Unit)
      BY <2>2, ConcatProperties
    <3>2. DecodeOne(r, e) = Failed
      <4>1. r = Decoded(w) => DecodeOne(r, e) = Failed
        BY <1>7, <2>1, <2>2, <2>4, DecodeOneIs
      <4>2. r = Decoded(w \o x) => DecodeOne(r, e) = Failed
        BY <1>7, <2>1, <2>4, <3>1, DecodeOneIs
      <4> QED
        BY <2>3, <4>1, <4>2
    <3>3. Unknown(es)
      BY <1>2, <1>3, <1>7, <2>1, <2>4 DEF Unknown
    <3> QED
      BY <3>2, <3>3 DEF WholeAt
  <2>5. ASSUME c \in Codings, NEW y \in Seq(Unit), r = Decoded(w \o y)
        PROVE  DecodeOne(r, e) = IF c = "zstd" /\ Len(y) > 0 THEN Failed ELSE Decoded(b)
    BY <1>7, <2>1, <2>2, <2>5, Undone
  <2>6. CASE c \in Codings /\ r = Decoded(w)
    <3>1. PICK y \in Seq(Unit) : y = <<>> /\ Len(y) = 0
      BY EmptySeq
    <3>2. w \o y = w
      BY <2>2, <3>1, ConcatEmptySeq
    <3>3. DecodeOne(r, e) = Decoded(b)
      <4>1. r = Decoded(w \o y) /\ ~(c = "zstd" /\ Len(y) > 0)
        BY <2>6, <3>1, <3>2
      <4> QED
        BY <2>5, <2>6, <4>1
    <3> QED
      BY <1>2, <2>2, <3>3 DEF WholeAt
  <2>7. CASE c \in Codings /\ r = Decoded(w \o x)
    <3>1. c = "zstd" => Frames(es)
      BY <1>2, <1>3, <2>1 DEF Canonical, Frames
    <3> QED
      BY <1>2, <2>2, <2>5, <2>7, <3>1 DEF WholeAt
  <2> QED
    BY <2>3, <2>4, <2>6, <2>7
<1> QED
  BY <1>5, <1>6, <1>7 DEF WholeAt, Failed, Decoded

\* The same of a beginning p of a message: only lenient decoders take it for a layer.
LenientTo(es, i) ==
  \A j \in (Len(es) - i + 1)..Len(es) : es[j] = "identity" \/ Canonical(es[j]) \in Lenient
PartAt(r, es, f, i) ==
  \/ r = Failed
  \/ r = Decoded(f[Len(es) - i])
  \/ LenientTo(es, i) /\ \E q \in Seq(Unit) : r = Decoded(q) /\ Begins(q, f[Len(es) - i])

LEMMA PartStep ==
  ASSUME NEW m \in Messages, NEW es, NEW f, LayersOf(m, es, f),
         NEW i \in 0..(Len(es) - 1), NEW r, PartAt(r, es, f, i),
         NEW e, e = es[Len(es) - i], NEW k, k = Len(es) - i
  PROVE  PartAt(DecodeOne(r, e), es, f, i + 1)
<1>1. /\ es \in Seq(Unit) /\ f \in [0..Len(es) -> Seq(Unit)] /\ Codes(f, m.content, es)
      /\ Len(es) \in Nat
  BY DEF LayersOf
<1>2. k \in 1..Len(es) /\ k - 1 \in 0..Len(es) /\ k \in 0..Len(es) /\ Len(es) - (i + 1) = k - 1
  BY <1>1
<1>3. e \in Unit /\ e = es[k] /\ f[k] = EncodeOne(f[k - 1], e) /\ f[k - 1] \in Seq(Unit)
  <2>1. e = es[k] /\ es[k] \in Unit
    BY <1>1, <1>2
  <2>2. f[k - 1] \in Seq(Unit)
    BY <1>1, <1>2
  <2>3. f[k] = EncodeOne(f[k - 1], es[k])
    BY <1>1, <1>2 DEF Codes
  <2> QED
    BY <2>1, <2>2, <2>3
<1>4. \A j \in (Len(es) - (i + 1) + 1)..Len(es) : j = k \/ j \in (Len(es) - i + 1)..Len(es)
  BY <1>1
<1>5. CASE r = Failed
  BY <1>5, DecodeFailed DEF PartAt
<1>6. CASE e = "identity" /\ r # Failed
  <2>1. DecodeOne(r, e) = r
    BY <1>6 DEF DecodeOne
  <2>2. f[k] = f[k - 1]
    BY <1>3, <1>6, EncodeOneIs
  <2>3. LenientTo(es, i) => LenientTo(es, i + 1)
    BY <1>3, <1>4, <1>6 DEF LenientTo
  <2> QED
    BY <1>2, <1>6, <2>1, <2>2, <2>3 DEF PartAt
<1>7. CASE e # "identity" /\ r # Failed
  <2>1. PICK c : c = Canonical(e)
    OBVIOUS
  <2>2. PICK b \in Seq(Unit), w \in Seq(Unit) :
          b = f[k - 1] /\ w = f[k] /\ Lacks(b, c) /\ Wrapped(w, c, b)
    BY <1>2, <1>3, <1>7, <2>1, LayerLacks
  <2>3. ASSUME r = Decoded(w) PROVE PartAt(DecodeOne(r, e), es, f, i + 1)
    <3>1. PICK y \in Seq(Unit) : y = <<>> /\ Len(y) = 0
      BY EmptySeq
    <3>2. w \o y = w
      BY <2>2, <3>1, ConcatEmptySeq
    <3>3. CASE c \in Codings
      <4>1. r = Decoded(w \o y) /\ ~(c = "zstd" /\ Len(y) > 0)
        BY <2>3, <3>1, <3>2
      <4>2. DecodeOne(Decoded(w \o y), e) = Decoded(b)
        BY <1>7, <2>1, <2>2, <3>3, <4>1, Undone
      <4>3. DecodeOne(r, e) = Decoded(b)
        BY <4>1, <4>2
      <4> QED
        BY <1>2, <2>2, <4>3 DEF PartAt
    <3>4. CASE c \notin Codings
      <4>1. DecodeOne(r, e) = Failed
        BY <1>7, <2>1, <2>2, <2>3, <3>4, DecodeOneIs
      <4> QED
        BY <4>1 DEF PartAt
    <3> QED
      BY <3>3, <3>4
  <2>4. ASSUME LenientTo(es, i), NEW q \in Seq(Unit), r = Decoded(q), Begins(q, w)
        PROVE  PartAt(DecodeOne(r, e), es, f, i + 1)
    <3>1. CASE Len(q) < Len(w)
      <4>1. CASE DecodeOne(r, e) = Failed
        BY <4>1 DEF PartAt
      <4>2. ASSUME c \in Lenient, NEW p \in Seq(Unit), Begins(p, b), DecodeOne(r, e) = Decoded(p)
            PROVE  PartAt(DecodeOne(r, e), es, f, i + 1)
        <5>1. LenientTo(es, i + 1)
          BY <1>3, <1>4, <2>1, <2>4, <4>2 DEF LenientTo
        <5> QED
          BY <1>2, <2>2, <4>2, <5>1 DEF PartAt
      <4> QED
        BY <1>7, <2>1, <2>2, <2>4, <3>1, <4>1, <4>2, UndoneInPart
    <3>2. CASE Len(q) = Len(w)
      <4>1. q = w
        BY <2>2, <2>4, <3>2, BeginsPrefix
      <4> QED
        BY <2>3, <2>4, <4>1
    <3>3. Len(q) <= Len(w) /\ Len(q) \in Nat /\ Len(w) \in Nat
      BY <2>2, <2>4 DEF Begins
    <3> QED
      BY <3>1, <3>2, <3>3
  <2> QED
    BY <1>7, <2>2, <2>3, <2>4 DEF PartAt
<1> QED
  BY <1>5, <1>6, <1>7

\* A message decoded with what follows it ...
TokensOf(m) == ToSet(FlattenSeq(m.ce))
Unfit(e) == e # "identity" /\ Canonical(e) \notin Codings
AllPlain(m) == \A e \in TokensOf(m) : e = "identity"
AllLenient(m) == \A e \in TokensOf(m) : e = "identity" \/ Canonical(e) \in Lenient

LEMMA TokensAre ==
  ASSUME NEW m \in Messages, NEW es, NEW f, LayersOf(m, es, f)
  PROVE  /\ Unknown(es) => \E e \in TokensOf(m) : Unfit(e)
         /\ Frames(es) => "zstd" \in TokensOf(m)
         /\ Plain(es, Len(es)) => AllPlain(m)
         /\ LenientTo(es, Len(es)) => AllLenient(m)
         /\ es # <<>> => es[1] \in TokensOf(m)
<1>1. es \in Seq(Unit) /\ es = FlattenSeq(m.ce) /\ Len(es) \in Nat
  BY DEF LayersOf
<1>2. TokensOf(m) = {es[i] : i \in 1..Len(es)}
  BY <1>1 DEF TokensOf, ToSet
<1>3. (Len(es) - Len(es)) + 1 = 1
  BY <1>1
<1>4. es # <<>> => 1 \in 1..Len(es)
  BY <1>1, EmptySeq
<1> QED
  BY <1>2, <1>3, <1>4 DEF Unknown, Frames, Plain, LenientTo, Unfit, AllPlain, AllLenient

WholeResult(m, d, x) ==
  \/ d = Decoded(m.content)
  \/ /\ d = Failed
     /\ (\E e \in TokensOf(m) : Unfit(e)) \/ (Len(x) > 0 /\ "zstd" \in TokensOf(m))
  \/ d = Decoded(m.content \o x) /\ AllPlain(m)

LEMMA BodyWhole ==
  ASSUME NEW m \in Messages, NEW x \in Seq(Unit), NEW d, d = DecodeBody(m.body \o x, m.ce)
  PROVE  WholeResult(m, d, x)
<1>1. PICK es, f : LayersOf(m, es, f)
  BY HasLayers
<1> DEFINE n == Len(es)
<1>2. /\ es \in Seq(Unit) /\ es = FlattenSeq(m.ce) /\ f[0] = m.content /\ m.body = f[n]
      /\ n \in Nat
  BY <1>1 DEF LayersOf, Codes
<1>3. PICK rs : rs = Encodings(m.ce)
  OBVIOUS
<1>4. Turned(rs, es)
  BY <1>2, <1>3, EncodingsTurned
<1>5. rs \in Seq(Unit) /\ Len(rs) = n /\ \A i \in 1..n : rs[i] = es[(n - i) + 1]
  BY <1>4 DEF Turned
<1>6. PICK b \in Seq(Unit) : b = m.body \o x
  BY MessageFacts, ConcatProperties
<1>0. d = DecodeBody(b, m.ce)
  BY <1>6
<1>7. PICK g : Decodes(g, b, rs) /\ d = g[n]
  BY <1>0, <1>3, <1>5, DecodeSteps
<1>8. g[0] = Decoded(b) /\ \A i \in 1..n : g[i] = DecodeOne(g[i - 1], rs[i])
  BY <1>5, <1>7 DEF Decodes
<1> DEFINE U == {i \in 0..n : WholeAt(g[i], es, f, x, i)}
<1>9. 0 \in U
  <2>1. n - 0 = n /\ Plain(es, 0) /\ 0 \in 0..n
    BY <1>2 DEF Plain
  <2> QED
    BY <1>2, <1>6, <1>8, <2>1 DEF WholeAt
<1>10. ASSUME NEW i \in 0..(n - 1), i \in U PROVE i + 1 \in U
  <2>1. i + 1 \in 1..n /\ (i + 1) - 1 = i /\ i + 1 \in 0..n /\ (n - (i + 1)) + 1 = n - i
    <3>1. ASSUME NEW N \in Nat, NEW j \in 0..(N - 1)
          PROVE  j + 1 \in 1..N /\ (j + 1) - 1 = j /\ j + 1 \in 0..N /\ (N - (j + 1)) + 1 = N - j
      OBVIOUS
    <3> HIDE DEF n, U
    <3> QED
      BY <1>2, <1>10, <3>1
  <2>2. g[i + 1] = DecodeOne(g[i], es[n - i])
    BY <1>5, <1>8, <2>1
  <2>3. WholeAt(DecodeOne(g[i], es[n - i]), es, f, x, i + 1)
    BY <1>1, <1>10, WholeStep
  <2> QED
    BY <2>1, <2>2, <2>3
<1>11. n \in U
  <2> HIDE DEF U, n
  <2>1. \A i \in 0..(n - 1) : i \in U => i + 1 \in U
    BY <1>10
  <2>2. \A i \in 0..n : i \in U
    BY <1>2, <1>9, <2>1, InductionUpTo
  <2> QED
    BY <1>2, <2>2
<1>12. WholeAt(d, es, f, x, n) /\ n - n = 0
  BY <1>2, <1>7, <1>11
<1> QED
  BY <1>1, <1>2, <1>12, TokensAre DEF WholeAt, WholeResult

\* ... a beginning of it ...
PartResult(m, d) ==
  \/ d = Failed
  \/ d = Decoded(m.content)
  \/ AllLenient(m) /\ \E q \in Seq(Unit) : d = Decoded(q)

LEMMA BodyInPart ==
  ASSUME NEW m \in Messages, NEW b \in Seq(Unit), Begins(b, m.body),
         NEW d, d = DecodeBody(b, m.ce)
  PROVE  PartResult(m, d)
<1>1. PICK es, f : LayersOf(m, es, f)
  BY HasLayers
<1> DEFINE n == Len(es)
<1>2. /\ es \in Seq(Unit) /\ es = FlattenSeq(m.ce) /\ f[0] = m.content /\ m.body = f[n]
      /\ n \in Nat
  BY <1>1 DEF LayersOf, Codes
<1>3. PICK rs : rs = Encodings(m.ce)
  OBVIOUS
<1>4. Turned(rs, es)
  BY <1>2, <1>3, EncodingsTurned
<1>5. rs \in Seq(Unit) /\ Len(rs) = n /\ \A i \in 1..n : rs[i] = es[(n - i) + 1]
  BY <1>4 DEF Turned
<1>7. PICK g : Decodes(g, b, rs) /\ d = g[n]
  BY <1>3, <1>5, DecodeSteps
<1>8. g[0] = Decoded(b) /\ \A i \in 1..n : g[i] = DecodeOne(g[i - 1], rs[i])
  BY <1>5, <1>7 DEF Decodes
<1> DEFINE U == {i \in 0..n : PartAt(g[i], es, f, i)}
<1>9. 0 \in U
  <2>1. n - 0 = n /\ LenientTo(es, 0) /\ 0 \in 0..n
    BY <1>2 DEF LenientTo
  <2> QED
    BY <1>2, <1>8, <2>1 DEF PartAt
<1>10. ASSUME NEW i \in 0..(n - 1), i \in U PROVE i + 1 \in U
  <2>1. i + 1 \in 1..n /\ (i + 1) - 1 = i /\ i + 1 \in 0..n /\ (n - (i + 1)) + 1 = n - i
    <3>1. ASSUME NEW N \in Nat, NEW j \in 0..(N - 1)
          PROVE  j + 1 \in 1..N /\ (j + 1) - 1 = j /\ j + 1 \in 0..N /\ (N - (j + 1)) + 1 = N - j
      OBVIOUS
    <3> HIDE DEF n, U
    <3> QED
      BY <1>2, <1>10, <3>1
  <2>2. g[i + 1] = DecodeOne(g[i], es[n - i])
    BY <1>5, <1>8, <2>1
  <2>3. PartAt(DecodeOne(g[i], es[n - i]), es, f, i + 1)
    BY <1>1, <1>10, PartStep
  <2> QED
    BY <2>1, <2>2, <2>3
<1>11. n \in U
  <2> HIDE DEF U, n
  <2>1. \A i \in 0..(n - 1) : i \in U => i + 1 \in U
    BY <1>10
  <2>2. \A i \in 0..n : i \in U
    BY <1>2, <1>9, <2>1, InductionUpTo
  <2> QED
    BY <1>2, <2>2
<1>12. PartAt(d, es, f, n) /\ n - n = 0
  BY <1>2, <1>7, <1>11
<1> QED
  BY <1>1, <1>2, <1>12, TokensAre DEF PartAt, PartResult

\* ... or something that is no layer at all.
LEMMA BodyWrong ==
  ASSUME NEW m \in Messages, NEW b \in Seq(Unit), Len(b) > 0, b[1] \notin Codings,
         NEW d, d = DecodeBody(b, m.ce)
  PROVE  d = Failed \/ (d = Decoded(b) /\ AllPlain(m))
<1>1. PICK es, f : LayersOf(m, es, f)
  BY HasLayers
<1> DEFINE n == Len(es)
<1>2. es \in Seq(Unit) /\ es = FlattenSeq(m.ce) /\ n \in Nat
  BY <1>1 DEF LayersOf
<1>3. PICK rs : rs = Encodings(m.ce)
  OBVIOUS
<1>4. Turned(rs, es)
  BY <1>2, <1>3, EncodingsTurned
<1>5. rs \in Seq(Unit) /\ Len(rs) = n /\ \A i \in 1..n : rs[i] = es[(n - i) + 1]
  BY <1>4 DEF Turned
<1>7. PICK g : Decodes(g, b, rs) /\ d = g[n]
  BY <1>3, <1>5, DecodeSteps
<1>8. g[0] = Decoded(b) /\ \A i \in 1..n : g[i] = DecodeOne(g[i - 1], rs[i])
  BY <1>5, <1>7 DEF Decodes
<1> DEFINE U == {i \in 0..n : g[i] = Failed \/ (g[i] = Decoded(b) /\ Plain(es, i))}
<1>9. 0 \in U
  <2>1. Plain(es, 0) /\ 0 \in 0..n
    BY <1>2 DEF Plain
  <2> QED
    BY <1>8, <2>1
<1>10. ASSUME NEW i \in 0..(n - 1), i \in U PROVE i + 1 \in U
  <2>1. i + 1 \in 1..n /\ (i + 1) - 1 = i /\ i + 1 \in 0..n /\ (n - (i + 1)) + 1 = n - i
    <3>1. ASSUME NEW N \in Nat, NEW j \in 0..(N - 1)
          PROVE  j + 1 \in 1..N /\ (j + 1) - 1 = j /\ j + 1 \in 0..N /\ (N - (j + 1)) + 1 = N - j
      OBVIOUS
    <3> HIDE DEF n, U
    <3> QED
      BY <1>2, <1>10, <3>1
  <2>2. PICK e : e = es[n - i]
    OBVIOUS
  <2>3. g[i + 1] = DecodeOne(g[i], e)
    BY <1>5, <1>8, <2>1, <2>2
  <2>4. CASE g[i] = Failed
    BY <2>1, <2>3, <2>4, DecodeFailed
  <2>5. CASE g[i] = Decoded(b) /\ Plain(es, i) /\ e = "identity"
    <3>1. DecodeOne(g[i], e) = g[i]
      BY <2>5 DEF DecodeOne
    <3>2. \A j \in (n - (i + 1) + 1)..n : j = n - i \/ j \in (n - i + 1)..n
      BY <1>2
    <3>3. Plain(es, i + 1)
      BY <2>2, <2>5, <3>2 DEF Plain
    <3> QED
      BY <2>1, <2>3, <2>5, <3>1, <3>3
  <2>6. CASE g[i] = Decoded(b) /\ e # "identity"
    <3>1. PICK c : c = Canonical(e)
      OBVIOUS
    <3>2. c \in Codings => ~EndsWell(b, c) /\ ~Empty(b, c) /\ ~Endless(b, c)
      BY DEF EndsWell, Empty, Endless, Starts
    <3>3. DecodeOne(g[i], e) = Failed
      BY <2>6, <3>1, <3>2, DecodeOneIs
    <3> QED
      BY <2>1, <2>3, <3>3
  <2> QED
    BY <1>10, <2>4, <2>5, <2>6
<1>11. n \in U
  <2> HIDE DEF U, n
  <2>1. \A i \in 0..(n - 1) : i \in U => i + 1 \in U
    BY <1>10
  <2>2. \A i \in 0..n : i \in U
    BY <1>2, <1>9, <2>1, InductionUpTo
  <2> QED
    BY <1>2, <2>2
<1>12. d = Failed \/ (d = Decoded(b) /\ Plain(es, n))
  BY <1>7, <1>11
<1> QED
  BY <1>1, <1>12, TokensAre
----------------------------------------------------------------------------
(* The chain.                                                              *)

LEMMA FirstToken ==
  ASSUME NEW m \in Messages, m.ce # <<>>
  PROVE  FlattenSeq(m.ce) \in Seq(Unit) /\ FlattenSeq(m.ce)[1] \in Unit
         /\ FlattenSeq(m.ce)[1] \in TokensOf(m)
<1>1. PICK ls : ls = m.ce
  OBVIOUS
<1>2. ls \in Seq(Seq(Unit)) /\ ls # <<>> /\ FlattenSeq(ls) \in Seq(Unit)
  BY <1>1, MessageLayers
<1>3. Len(ls) \in Nat /\ Len(ls) > 0 /\ 0 \in 0..Len(ls) /\ 1 \in 0..Len(ls) /\ 0 + 1 = 1
      /\ Len(ls) \in 1..Len(ls) /\ Len(ls) \in 0..Len(ls) /\ 1 \in 1..Len(ls)
  BY <1>2, EmptySeq
<1>4. ls[1] \in Seq(Unit) \ {<<>>}
  <2>1. ASSUME NEW R, NEW q \in Seq(R), NEW j \in 1..Len(q) PROVE q[j] \in R
    OBVIOUS
  <2> QED
    BY <1>1, <1>3, <2>1, PathAssumption
<1>5. PICK l \in Seq(Unit) : l = ls[1] /\ l # <<>>
  BY <1>4
<1>6. Len(l) \in Nat /\ Len(l) > 0 /\ l[1] \in Unit
  BY <1>5, EmptySeq
<1>7. JoinOf(ls, 0) = <<>> /\ JoinOf(ls, 0 + 1) = JoinOf(ls, 0) \o l
  BY <1>2, <1>3, <1>5, JoinOfSteps
<1>8. JoinOf(ls, 1) = l
  BY <1>3, <1>7, ConcatEmptySeq
<1>9. JoinOf(ls, Len(ls)) = FlattenSeq(ls)
  BY <1>2, <1>3, JoinOfSteps
<1>10. Begins(l, FlattenSeq(ls))
  BY <1>2, <1>3, <1>8, <1>9, JoinOfBegins
<1>11. 1 \in 1..Len(FlattenSeq(ls)) /\ FlattenSeq(ls)[1] = l[1]
  BY <1>2, <1>6, <1>10 DEF Begins
<1> QED
  BY <1>1, <1>2, <1>6, <1>11 DEF TokensOf, ToSet

\* A body is empty only if its content is.
LEMMA EmptyContent ==
  ASSUME NEW m \in Messages, m.body = <<>>
  PROVE  m.content = <<>>
<1>1. PICK es, f : LayersOf(m, es, f)
  BY HasLayers
<1> DEFINE n == Len(es)
           U == {k \in 0..n : Len(m.content) <= Len(f[k])}
<1>2. /\ es \in Seq(Unit) /\ f \in [0..n -> Seq(Unit)] /\ Codes(f, m.content, es)
      /\ n \in Nat /\ m.body = f[n] /\ m.content \in Seq(Unit) /\ Len(m.content) \in Nat
  BY <1>1, MessageLayers DEF LayersOf
<1>3. 0 \in U
  BY <1>2 DEF Codes
<1>4. ASSUME NEW k \in 0..(n - 1), k \in U PROVE k + 1 \in U
  <2>1. k + 1 \in 1..n /\ (k + 1) - 1 = k /\ k + 1 \in 0..n /\ k \in 0..n
    BY <1>2
  <2>2. PICK b \in Seq(Unit), w \in Seq(Unit), e \in Unit :
          b = f[k] /\ w = f[k + 1] /\ e = es[k + 1]
    BY <1>2, <2>1
  <2>3. w = EncodeOne(b, e)
    BY <1>2, <2>1, <2>2 DEF Codes
  <2>4. Len(b) <= Len(w)
    BY <2>2, <2>3, EncodeOneIs DEF Wrapped
  <2>5. Len(m.content) <= Len(b)
    BY <1>4, <2>2
  <2>6. Len(m.content) <= Len(w)
    BY <1>2, <2>2, <2>4, <2>5
  <2> QED
    BY <2>1, <2>2, <2>6
<1>5. n \in U
  <2> HIDE DEF U, n
  <2>1. \A k \in 0..(n - 1) : k \in U => k + 1 \in U
    BY <1>4
  <2>2. \A k \in 0..n : k \in U
    BY <1>2, <1>3, <2>1, InductionUpTo
  <2> QED
    BY <1>2, <2>2
<1>6. Len(m.content) <= Len(m.body) /\ Len(m.body) = 0
  BY <1>2, <1>5, EmptySeq
<1>7. Len(m.content) = 0
  BY <1>2, <1>6
<1> QED
  BY <1>2, <1>7, EmptySeq

LEMMA CodedOnce ==
  ASSUME NEW b \in Seq(Unit), NEW e \in Unit
  PROVE  Coded(b, <<>>) = b /\ Coded(b, <<<<e>>>>) = EncodeOne(b, e)
<1>1. PICK o \in Seq(Seq(Unit)) : o = <<>> /\ Len(o) = 0
  BY EmptySeq
<1>2. FlattenSeq(o) = <<>> /\ <<>> \in Seq(Unit) /\ Len(<<>>) = 0
  BY <1>1, FlattenAppend, EmptySeq
<1>3. Coded(b, <<>>) = b
  <2>1. PICK es \in Seq(Unit) : es = FlattenSeq(o)
    BY <1>2
  <2>2. PICK f \in [0..Len(es) -> Seq(Unit)] : Codes(f, b, es) /\ Coded(b, o) = f[Len(es)]
    BY <2>1, CodedSteps
  <2>3. Len(es) = 0
    BY <1>2, <2>1
  <2> QED
    BY <1>1, <2>2, <2>3 DEF Codes
<1>4. PICK t : t = <<e>>
  OBVIOUS
<1>5. t \in Seq(Unit) /\ Len(t) = 1 /\ t[1] = e /\ <<t>> = Append(o, t)
  BY <1>1, <1>4
<1>6. FlattenSeq(<<t>>) = t
  <2>1. FlattenSeq(Append(o, t)) = FlattenSeq(o) \o t
    BY <1>1, <1>5, FlattenAppend
  <2>2. FlattenSeq(o) \o t = t
    BY <1>2, <1>5, ConcatEmptySeq
  <2> QED
    BY <1>5, <2>1, <2>2
<1>7. Coded(b, <<t>>) = EncodeOne(b, e)
  <2>1. PICK f \in [0..Len(t) -> Seq(Unit)] : Codes(f, b, t) /\ Coded(b, <<t>>) = f[Len(t)]
    BY <1>5, <1>6, CodedSteps
  <2>2. f[0] = b /\ f[1] = EncodeOne(f[1 - 1], t[1]) /\ 1 - 1 = 0
    BY <1>5, <2>1 DEF Codes
  <2> QED
    BY <1>5, <2>1, <2>2
<1> QED
  BY <1>3, <1>4, <1>7

HandledOf(c) ==
  CASE chain = "none" -> {c}
    [] chain = "decode" \/ ~ShouldDecode(c) -> DecodeMessage(c)
    [] OTHER -> UNION {EncodeMessage(m, FlattenSeq(c.ce)[1]) : m \in DecodeMessage(c)}

\* A message as it left the chain: as it came, or decoded, and maybe coded once more.
Same(c, r) == r = c /\ (chain = "none" \/ ~ShouldDecode(c))
Remade(c, r, d) ==
  /\ chain # "none" /\ ShouldDecode(c) /\ ~c.broken /\ d.ok
  /\ r.te = c.te /\ r.nobody = c.nobody /\ r.broken = c.broken
  /\ r.cl = None /\ r.streaming = FALSE
  /\ \/ chain = "decode" /\ r.ce = <<>> /\ r.body = d.body
     \/ /\ chain = "repeat" /\ Canonical(FlattenSeq(c.ce)[1]) \in Codings
        /\ r.ce = <<<<FlattenSeq(c.ce)[1]>>>> /\ r.body = EncodeOne(d.body, FlattenSeq(c.ce)[1])

LEMMA HandledIs ==
  ASSUME chain \in Chains, NEW m, NEW c, HeadOf(m, c), NEW d, d = DecodeBody(c.body, c.ce)
  PROVE  /\ \A r \in HandledOf(c) : Same(c, r) \/ Remade(c, r, d)
         /\ HandledOf(c) = {} =>
              /\ chain # "none" /\ ShouldDecode(c)
              /\ \/ c.broken \/ ~d.ok
                 \/ chain = "repeat" /\ Canonical(FlattenSeq(c.ce)[1]) \notin Codings
<1>1. chain \in {"none", "decode", "repeat"}
  BY PathAssumption
<1>2. PICK u : u = [Stripped(c) EXCEPT !.body = d.body, !.streaming = FALSE]
  OBVIOUS
<1>3. DecodeMessage(c) = IF ~ShouldDecode(c) THEN {c} ELSE IF c.broken \/ ~d.ok THEN {} ELSE {u}
  BY <1>2 DEF DecodeMessage
<1>4. /\ u.te = c.te /\ u.nobody = c.nobody /\ u.broken = c.broken
      /\ u.cl = None /\ u.ce = <<>> /\ u.body = d.body
      /\ u = [te |-> u.te, cl |-> u.cl, ce |-> u.ce, nobody |-> u.nobody, body |-> u.body,
              streaming |-> u.streaming, broken |-> u.broken]
  BY <1>2 DEF Stripped, HeadOf
<1>5. u.streaming = FALSE
  BY <1>2, Zenon DEF Stripped, HeadOf
<1>6. PICK e : e = FlattenSeq(c.ce)[1]
  OBVIOUS
<1>7. PICK v : v = [u EXCEPT !.body = EncodeOne(d.body, e), !.ce = <<<<e>>>>]
  OBVIOUS
<1>8. /\ v.te = c.te /\ v.nobody = c.nobody /\ v.broken = c.broken /\ v.cl = None
      /\ v.ce = <<<<e>>>> /\ v.body = EncodeOne(d.body, e)
  BY <1>4, <1>7
<1>9. v.streaming = FALSE
  <2>1. v.streaming = u.streaming
    BY <1>4, <1>7
  <2> QED
    BY <1>5, <2>1, Zenon
<1>10. EncodeMessage(u, e) = IF Canonical(e) \notin Codings THEN {} ELSE {v}
  BY <1>4, <1>5, <1>7 DEF EncodeMessage
<1>11. CASE chain = "none"
  <2>1. HandledOf(c) = {c}
    <3>1. CASE ShouldDecode(c)
      BY <1>11, <3>1 DEF HandledOf
    <3>2. CASE ~ShouldDecode(c)
      BY <1>3, <1>11, <3>2 DEF HandledOf
    <3> QED
      BY <3>1, <3>2
  <2> QED
    BY <1>11, <2>1 DEF Same
<1>12. CASE chain # "none" /\ ~ShouldDecode(c)
  BY <1>3, <1>12 DEF HandledOf, Same
<1>13. CASE chain = "decode" /\ ShouldDecode(c)
  <2>1. HandledOf(c) = IF c.broken \/ ~d.ok THEN {} ELSE {u}
    BY <1>3, <1>13 DEF HandledOf
  <2>2. ~c.broken /\ d.ok => Remade(c, u, d)
    BY <1>4, <1>5, <1>13 DEF Remade
  <2> QED
    BY <1>13, <2>1, <2>2
<1>14. CASE chain = "repeat" /\ ShouldDecode(c)
  <2>1. HandledOf(c) = UNION {EncodeMessage(x, e) : x \in DecodeMessage(c)}
    BY <1>6, <1>14 DEF HandledOf
  <2>2. c.broken \/ ~d.ok => HandledOf(c) = {}
    BY <1>3, <1>14, <2>1
  <2>3. ~c.broken /\ d.ok => HandledOf(c) = EncodeMessage(u, e)
    BY <1>3, <1>14, <2>1
  <2>4. ~c.broken /\ d.ok /\ Canonical(e) \in Codings => Remade(c, v, d)
    BY <1>6, <1>8, <1>9, <1>14 DEF Remade
  <2> QED
    BY <1>6, <1>10, <1>14, <2>2, <2>3, <2>4
<1> QED
  BY <1>1, <1>11, <1>12, <1>13, <1>14
----------------------------------------------------------------------------
(* What arrived, and what became of it.                                    *)

\* The part of a stream that came, and whether it broke.
StreamBroken == IF Delimited(msg) THEN ~Complete(msg) \/ BadSize ELSE msg.end = "reset"
StreamBody ==
  IF Complete(msg) THEN BodyOf(msg)
  ELSE IF msg.framing \in {"chunked", "both"} THEN <<>>
  ELSE SubSeq(msg.body, 1, msg.cut - HeadLen)
Streams == way \in {"plain_reply", "tunnel_reply"}

\* The message as it entered the chain, or was answered.
Rec(h, b, s, k) ==
  [te |-> Chunked(h), cl |-> ContentLength(h), ce |-> IF h = HeadLen THEN msg.ce ELSE <<>>,
   nobody |-> NoBodyStatus(h), body |-> b, streaming |-> s, broken |-> k]
GotHead == IF way \in {"upgrade_reply", "plain_request"} THEN read.head ELSE HeadLen
GotBody ==
  IF way = "upgrade_reply" THEN read.body
  ELSE IF Streams THEN StreamBody
  ELSE IF way = "answer" THEN BodyOf(msg)
  ELSE SubSeq(Wire(msg), read.head + 1, Taken)
Got(s) == Rec(GotHead, GotBody, s, Streams /\ StreamBroken)

Written ==
  CASE way \in {"upgrade_reply", "answer"} -> Serialized
    [] way = "plain_reply" -> AsWritten(carried.body)
    [] way = "tunnel_reply" -> ByHyperServer
    [] OTHER -> ByHyperClient

DropCause ==
  \/ ~HadAll
  \/ chain # "none" /\ ~(Tokens \subseteq Codings \cup {"x-gzip", "identity"})
  \/ chain = "repeat" /\ FlattenSeq(msg.ce)[1] = "identity"
  \/ chain # "none" /\ msg.ce # <<>> /\ (msg.status = "nobody" \/ msg.body = <<>>)
  \/ chain # "none" /\ ChunkedRequest
  \/ chain # "none" /\ Request /\ Taken > Size(msg) /\ "zstd" \in Tokens

\* The head is known once its reader has left it.
HeadKnown(m, d) ==
  d.pc \in {"size", "data", "exact", "close", "ok"} => d.head = HeadLen \/ m.cut < HeadLen

Arrived ==
  /\ way = "upgrade_reply" => read.pc = "ok"
  /\ Streams => msg.cut >= HeadLen
  /\ Request => /\ Taken \in 1..msg.cut
                /\ read.head = IF Taken < HeadLen THEN Taken ELSE HeadLen
Outcomes == IF way = "answer" THEN {Got(s) : s \in BOOLEAN} ELSE HandledOf(Got(Streams))

PathInv ==
  /\ Suits(msg, way)
  /\ way = "upgrade_reply" => HeadKnown(msg, read)
  /\ Request /\ stage = "receive" => rest = SubSeq(Wire(msg), 1, msg.cut)
  /\ stage \in {"chain", "write", "done"} => Arrived
  /\ stage = "chain" => way # "answer" /\ carried = Got(Streams)
  /\ stage \in {"write", "done"} => carried \in Outcomes
  /\ stage = "done" => view = Written
  /\ stage # "done" => view.kind = "none"
  /\ stage \in {"dropped", "bad_gateway"} => DropCause

LEMMA HeadShort ==
  ASSUME NEW m \in Messages, m = msg, ReaderAt(m, read, rest), read.pc = "head", Wants,
         rest = <<>>
  PROVE  m.cut < HeadLen
<1>1. From(m, read.buf, rest, 0) /\ ~Has("HE")
  BY DEF ReaderAt, Wants
<1>2. PICK b \in Seq(Unit) : b = read.buf
  BY <1>1 DEF From
<1>3. Len(b) \in Nat /\ Len(b) = m.cut /\ m.cut \in Nat
  <2>1. Len(b) + Len(rest) = m.cut - 0 /\ Len(rest) = 0
    BY <1>1, <1>2, EmptySeq DEF From
  <2> QED
    BY <2>1, CutFacts
<1>4. ASSUME m.cut >= 3 PROVE FALSE
  <2>1. 3 \in 1..Len(b) /\ 3 \in DOMAIN b /\ 0 + 3 = 3
    BY <1>3, <1>4
  <2>2. b[3] = "HE"
    BY <1>1, <1>2, <2>1, WireParts DEF From
  <2> QED
    BY <1>1, <1>2, <2>1, <2>2 DEF Has
<1> QED
  BY <1>3, <1>4 DEF HeadLen

LEMMA HeadKeeps ==
  ASSUME NEW m \in Messages, m = msg, ReaderAt(m, read, rest), HeadKnown(m, read), ReaderNext
  PROVE  HeadKnown(m, read')
<1>1. read \in Readers
  BY DEF ReaderAt
<1>2. ASSUME NEW d, d.head = read.head,
             read.pc \in {"size", "data", "exact", "close", "ok"} \/ d.pc = "head"
      PROVE  HeadKnown(m, d)
  BY <1>2 DEF HeadKnown
<1>3. ASSUME NEW n, Split(n), n = HeadLen \/ m.cut < HeadLen PROVE HeadKnown(m, read')
  <2>1. read'.head = n
    BY <1>3 DEF Split
  <2> QED
    BY <1>3, <2>1 DEF HeadKnown
<1>4. CASE ReadSome
  <2>1. PICK b : read' = [read EXCEPT !.buf = b]
    BY <1>4 DEF ReadSome
  <2>2. read'.head = read.head /\ read'.pc = read.pc
    BY <1>1, <2>1 DEF Readers
  <2>3. read.pc \in {"head", "size", "data", "exact", "close"}
    BY <1>4 DEF ReadSome, Wants
  <2> QED
    BY <1>2, <2>2, <2>3
<1>5. CASE Eof /\ read.pc = "head"
  <2>1. m.cut < HeadLen /\ Split(Len(read.buf))
    BY <1>5, HeadShort DEF Eof
  <2> QED
    BY <1>3, <2>1
<1>6. CASE Eof /\ read.pc # "head"
  <2>1. PICK b : read' = [read EXCEPT !.pc = "ok", !.body = b]
    BY <1>6 DEF Eof
  <2>2. read'.head = read.head
    BY <1>1, <2>1 DEF Readers
  <2>3. read.pc \in {"size", "data", "exact", "close"}
    BY <1>6 DEF Eof, Wants
  <2> QED
    BY <1>2, <2>2, <2>3
<1>7. CASE Reset
  <2>1. read'.pc = "error"
    BY <1>1, <1>7 DEF Reset, Readers
  <2> QED
    BY <2>1 DEF HeadKnown
<1>8. CASE HeadEnds
  BY <1>3, <1>8 DEF HeadEnds
<1>9. CASE SizeLine
  <2>1. \/ \E p : read' = [read EXCEPT !.pc = p]
        \/ \E x, y : read' = [read EXCEPT !.pc = "data", !.need = x, !.buf = y]
    <3> DEFINE nl == CHOOSE i \in DOMAIN read.buf : read.buf[i] = "\n" /\
                       \A j \in 1..i - 1 : read.buf[j] # "\n"
               size == IF nl = 2 THEN SizeOf(read.buf[1]) ELSE -1
    <3>1. \/ read' = [read EXCEPT !.pc = "error"] \/ read' = [read EXCEPT !.pc = "ok"]
          \/ read' = [read EXCEPT !.pc = "panicked"]
          \/ read' = [read EXCEPT !.pc = "data", !.need = (size + 2) % Word,
                                  !.buf = SubSeq(@, nl + 1, Len(@))]
      BY <1>9 DEF SizeLine
    <3> HIDE DEF nl, size
    <3> QED
      BY <3>1
  <2>2. read'.head = read.head
    BY <1>1, <2>1 DEF Readers
  <2> QED
    BY <1>2, <1>9, <2>2 DEF SizeLine
<1>10. CASE TakeChunk
  <2>1. PICK p, x, y : read' = [read EXCEPT !.pc = p] \/
                       read' = [read EXCEPT !.pc = p, !.body = x, !.buf = y]
    BY <1>10 DEF TakeChunk
  <2>2. read'.head = read.head
    BY <1>1, <2>1 DEF Readers
  <2> QED
    BY <1>2, <1>10, <2>2 DEF TakeChunk
<1>11. CASE ExactEnds
  <2>1. PICK p, x : read' = [read EXCEPT !.pc = p, !.body = x]
    BY <1>11 DEF ExactEnds
  <2>2. read'.head = read.head
    BY <1>1, <2>1 DEF Readers
  <2> QED
    BY <1>2, <1>11, <2>2 DEF ExactEnds
<1> QED
  BY <1>4, <1>5, <1>6, <1>7, <1>8, <1>9, <1>10, <1>11 DEF ReaderNext

\* A sequence that begins with another goes on with a third.
LEMMA GoesOn ==
  ASSUME NEW b \in Seq(Unit), NEW p \in Seq(Unit), Begins(p, b)
  PROVE  \E x \in Seq(Unit) : b = p \o x /\ Len(x) = Len(b) - Len(p)
<1>1. Len(b) \in Nat /\ Len(p) \in Nat /\ Len(p) <= Len(b)
  BY DEF Begins
<1>2. PICK x : x = SubSeq(b, Len(p) + 1, Len(b))
  OBVIOUS
<1>3. x \in Seq(Unit) /\ IsPart(x, b, Len(p), Len(b) - Len(p))
  <2>1. Len(b) \in Len(p)..Len(b)
    BY <1>1
  <2> QED
    BY <1>1, <1>2, <2>1, PartOf
<1>4. PICK q : q = p \o x
  OBVIOUS
<1>5. q \in Seq(Unit) /\ IsConcat(q, p, x)
  BY <1>3, <1>4, Concatenated
<1>6. Len(x) = Len(b) - Len(p) /\ Len(q) = Len(b)
  BY <1>1, <1>3, <1>5 DEF IsPart, IsConcat
<1>7. ASSUME NEW i \in 1..Len(b) PROVE q[i] = b[i]
  <2>1. CASE i <= Len(p)
    <3>1. i \in 1..Len(p)
      BY <1>1, <2>1
    <3> QED
      BY <1>5, <3>1 DEF IsConcat, Begins
  <2>2. CASE i > Len(p)
    <3>1. i - Len(p) \in 1..Len(x) /\ Len(p) + (i - Len(p)) = i
      BY <1>1, <1>6, <2>2
    <3>2. q[Len(p) + (i - Len(p))] = x[i - Len(p)]
      BY <1>5, <3>1 DEF IsConcat
    <3>3. x[i - Len(p)] = b[Len(p) + (i - Len(p))]
      BY <1>3, <1>6, <3>1 DEF IsPart
    <3> QED
      BY <3>1, <3>2, <3>3
  <2> QED
    BY <1>1, <2>1, <2>2
<1>8. q = b
  BY <1>5, <1>6, <1>7, SeqEqual
<1> QED
  BY <1>3, <1>4, <1>6, <1>8

LEMMA GotIs ==
  ASSUME msg \in Messages, NEW s \in BOOLEAN
  PROVE  /\ HeadOf(msg, Got(s))
         /\ Got(s).te = Chunked(GotHead) /\ Got(s).nobody = NoBodyStatus(GotHead)
         /\ Got(s).cl = ContentLength(GotHead) /\ Got(s).body = GotBody
         /\ Got(s).ce = IF GotHead = HeadLen THEN msg.ce ELSE <<>>
         /\ Got(s).streaming = s /\ (Got(s).broken <=> Streams /\ StreamBroken)
<1>0. (Streams /\ StreamBroken) \in BOOLEAN
  OBVIOUS
<1>1. PICK h, b, k : h = GotHead /\ b = GotBody /\ k = (Streams /\ StreamBroken)
  OBVIOUS
<1>2. PICK r : r = Rec(h, b, s, k)
  OBVIOUS
<1>3. r = Got(s)
  BY <1>1, <1>2 DEF Got
<1>4. /\ r.te = Chunked(h) /\ r.nobody = NoBodyStatus(h) /\ r.cl = ContentLength(h)
      /\ r.body = b /\ r.ce = IF h = HeadLen THEN msg.ce ELSE <<>>
      /\ r = [te |-> r.te, cl |-> r.cl, ce |-> r.ce, nobody |-> r.nobody, body |-> r.body,
              streaming |-> r.streaming, broken |-> r.broken]
  BY <1>2 DEF Rec
<1>5. r.streaming = s /\ r.broken = k
  BY <1>2, Zenon DEF Rec
<1>6. Chunked(h) \in BOOLEAN /\ NoBodyStatus(h) \in BOOLEAN
  BY DEF Chunked, NoBodyStatus
<1>7. ContentLength(h) \in {None} \cup 0..Len(msg.body)
  <2>1. Len(msg.body) \in 0..Len(msg.body)
    BY MessageFacts
  <2> QED
    BY <2>1 DEF ContentLength, None
<1>8. HeadOf(msg, r)
  BY <1>0, <1>1, <1>4, <1>5, <1>6, <1>7 DEF HeadOf
<1> QED
  BY <1>1, <1>3, <1>4, <1>5, <1>8

LEMMA PrefixBegins ==
  ASSUME NEW S, NEW s \in Seq(S), NEW t \in Seq(S), IsPrefix(s, t)
  PROVE  Begins(s, t)
<1>1. Len(s) \in Nat /\ Len(t) \in Nat /\ Len(s) <= Len(t)
      /\ SubSeq(s, 1, Len(s)) = SubSeq(t, 1, Len(s))
  BY DEF IsPrefix
<1>2. 0 \in Nat /\ 0 + 1 = 1 /\ Len(s) \in 0..Len(s) /\ Len(s) \in 0..Len(t)
      /\ Len(s) - 0 = Len(s) /\ \A i \in 1..Len(s) : 0 + i = i
  BY <1>1
<1>3. PICK p, q : p = SubSeq(s, 1, Len(s)) /\ q = SubSeq(t, 1, Len(s))
  OBVIOUS
<1>4. IsPart(p, s, 0, Len(s)) /\ IsPart(q, t, 0, Len(s))
  BY <1>2, <1>3, PartOf
<1>5. \A i \in 1..Len(s) : p[i] = s[i] /\ q[i] = t[i]
  BY <1>2, <1>4 DEF IsPart
<1> QED
  BY <1>1, <1>3, <1>5 DEF Begins

\* A message in plain bytes arrived whole, and of a request what follows it came too,
\* or in part.
WholeShare(b) ==
  \E x \in Seq(Unit) : /\ b = msg.body \o x
                       /\ Request => Len(x) = Taken - Size(msg)
                       /\ ~Request => Len(x) = 0
PartShare(b) ==
  /\ b \in Seq(Unit) /\ Begins(b, msg.body) /\ Len(b) < Len(msg.body)
  /\ ~HadAll /\ (Streams => StreamBroken) /\ way # "answer"

LEMMA HadAllIs ==
  /\ Request /\ HadAll => HeldAll /\ ~Overread
  /\ way = "answer" /\ HadAll => ~carried.streaming
  /\ ~Request /\ way # "answer" /\ HadAll =>
       Complete(msg) /\ ~BadSize /\ (Delimited(msg) \/ msg.end = "eof")
<1>1. ASSUME Request PROVE way # "answer"
  BY <1>1 DEF Request
<1>2. ASSUME Request, HadAll PROVE HeldAll /\ ~Overread
  BY <1>1, <1>2, Zenon DEF HadAll
<1>3. ASSUME way = "answer", HadAll PROVE ~carried.streaming
  BY <1>1, <1>3, Zenon DEF HadAll
<1>4. ASSUME ~Request, way # "answer", HadAll
      PROVE  Complete(msg) /\ ~BadSize /\ (Delimited(msg) \/ msg.end = "eof")
  BY <1>4, Zenon DEF HadAll
<1> QED
  BY <1>2, <1>3, <1>4

LEMMA Shares ==
  ASSUME IInv, Suits(msg, way), Arrived, GotHead = HeadLen, msg.status = "ok",
         Delimited(msg) \/ Request, ~(Request /\ InChunks(msg))
  PROVE  WholeShare(GotBody) \/ PartShare(GotBody)
<1>1. PICK m \in Messages : m = msg
  BY DEF IInv
<1>2. /\ m.body \in Seq(Unit) /\ Len(m.body) \in Nat /\ m.cut \in Nat
      /\ Len(Payload(m)) \in Nat /\ BodyOf(m) = m.body
  BY <1>1, MessageFacts, CutFacts, WireParts DEF BodyOf
<1>3. PICK o \in Seq(Unit) : o = <<>> /\ Len(o) = 0
  BY EmptySeq
<1>4. ASSUME ~Request, NEW b, b = m.body PROVE WholeShare(b)
  <2>1. b = m.body \o o
    BY <1>2, <1>3, <1>4, ConcatEmptySeq
  <2> QED
    BY <1>1, <1>3, <1>4, <2>1 DEF WholeShare
<1>5. CASE way = "upgrade_reply"
  <2>1. ReaderAt(m, read, rest) /\ read.pc = "ok" /\ Delimited(m) /\ ~Request
    BY <1>1, <1>5 DEF IInv, Arrived, Request
  <2>2. PICK b \in Seq(Unit) : b = read.body /\ Exact(m, b)
    BY <2>1 DEF ReaderAt, Readers
  <2>3. GotBody = b
    BY <1>5, <2>2 DEF GotBody
  <2>4. CASE Complete(m)
    BY <1>2, <1>4, <2>1, <2>2, <2>3, <2>4 DEF Exact
  <2>5. CASE ~Complete(m)
    <3>1. Begins(b, m.body)
      BY <1>2, <2>1, <2>2, PrefixBegins DEF Exact
    <3>2. CASE Len(b) = Len(m.body)
      <4>1. b = m.body
        BY <1>2, <3>1, <3>2, BeginsPrefix
      <4> QED
        BY <1>4, <2>1, <2>3, <4>1
    <3>3. CASE Len(b) # Len(m.body)
      <4>1. Len(b) < Len(m.body)
        BY <1>2, <3>1, <3>3 DEF Begins
      <4>2. ~HadAll
        BY <1>1, <1>5, <2>1, <2>5 DEF HadAll
      <4> QED
        BY <1>1, <1>5, <2>3, <3>1, <4>1, <4>2 DEF PartShare, Streams
    <3> QED
      BY <3>2, <3>3
  <2> QED
    BY <2>4, <2>5
<1>6. CASE Streams
  <2>1. ~Request /\ way # "answer" /\ way # "upgrade_reply" /\ Delimited(m)
    BY <1>1, <1>6 DEF Streams, Request
  <2>2. GotBody = StreamBody
    BY <1>6, <2>1 DEF GotBody
  <2>3. CASE Complete(m)
    <3>1. StreamBody = m.body
      BY <1>1, <1>2, <2>3 DEF StreamBody
    <3> QED
      BY <1>4, <2>1, <2>2, <3>1
  <2>4. CASE ~Complete(m)
    <3>1. ~HadAll /\ StreamBroken
      BY <1>1, <2>1, <2>4 DEF HadAll, StreamBroken
    <3>2. PICK b \in Seq(Unit) : b = StreamBody /\ Begins(b, m.body)
      <4>1. CASE m.framing \in {"chunked", "both"}
        <5>1. StreamBody = o
          BY <1>1, <1>3, <2>4, <4>1 DEF StreamBody
        <5>2. Begins(o, m.body)
          BY <1>2, <1>3 DEF Begins
        <5> QED
          BY <5>1, <5>2
      <4>2. CASE m.framing \notin {"chunked", "both"}
        <5>1. Payload(m) = m.body
          BY <1>1, <4>2 DEF Payload, InChunks
        <5>2. m.cut >= HeadLen /\ m.cut < HeadLen + Len(m.body)
          BY <1>1, <1>2, <1>6, <2>4, <5>1 DEF Arrived, Complete, HeadLen
        <5>3. PICK n \in Nat : n = m.cut - HeadLen /\ n < Len(m.body)
          BY <1>2, <5>2 DEF HeadLen
        <5>4. StreamBody = SubSeq(m.body, 1, n)
          BY <1>1, <2>4, <4>2, <5>3 DEF StreamBody
        <5>5. PICK b : b = SubSeq(m.body, 1, n)
          OBVIOUS
        <5>6. 0 \in Nat /\ 0 + 1 = 1 /\ n \in 0..Len(m.body) /\ n - 0 = n
              /\ \A i \in 1..n : 0 + i = i
          BY <1>2, <5>3
        <5>7. b \in Seq(Unit) /\ IsPart(b, m.body, 0, n)
          BY <1>2, <5>5, <5>6, PartOf
        <5>8. Begins(b, m.body)
          BY <5>3, <5>6, <5>7 DEF IsPart, Begins
        <5> QED
          BY <5>4, <5>5, <5>7, <5>8
      <4> QED
        BY <4>1, <4>2
    <3>3. CASE Len(b) = Len(m.body)
      <4>1. b = m.body
        BY <1>2, <3>2, <3>3, BeginsPrefix
      <4> QED
        BY <1>4, <2>1, <2>2, <3>2, <4>1
    <3>4. CASE Len(b) # Len(m.body)
      <4>1. Len(b) < Len(m.body)
        BY <1>2, <3>2, <3>4 DEF Begins
      <4> QED
        BY <1>1, <2>1, <2>2, <3>1, <3>2, <4>1 DEF PartShare
    <3> QED
      BY <3>3, <3>4
  <2> QED
    BY <2>3, <2>4
<1>7. CASE way = "answer"
  <2>1. ~Request /\ GotBody = m.body
    BY <1>1, <1>2, <1>7 DEF GotBody, Streams, Request
  <2> QED
    BY <1>4, <2>1
<1>8. CASE Request
  <2>1. /\ way # "upgrade_reply" /\ way # "answer" /\ ~Streams /\ ~InChunks(m)
        /\ GotHead = read.head
    BY <1>1, <1>8 DEF Request, Streams, GotHead
  <2>2. PICK n \in Nat : n = Taken /\ n <= m.cut /\ n >= 3
    BY <1>1, <1>2, <1>8, <2>1 DEF Arrived, HeadLen
  <2>3. PICK w : w = m.body \o m.extra
    OBVIOUS
  <2>4. AfterHead(m, w)
    BY <1>1, <2>1, <2>3, BodyOnWire
  <2>5. PICK b : b = SubSeq(Wire(m), 3 + 1, n)
    OBVIOUS
  <2>6. GotBody = b
    BY <1>1, <1>8, <2>1, <2>2, <2>5 DEF GotBody, HeadLen
  <2>7. b \in Seq(Unit) /\ IsPart(b, Wire(m), 3, n - 3)
    <3>1. n \in 3..Len(Wire(m)) /\ 3 \in Nat /\ Wire(m) \in Seq(Unit)
      BY <1>2, <2>2, CutFacts, PayloadType
    <3> QED
      BY <2>5, <3>1, PartOf
  <2>8. Len(b) = n - 3 /\ Len(b) \in Nat /\ Len(b) <= Len(w)
    <3>1. Len(b) = n - 3
      BY <2>7 DEF IsPart
    <3>2. PICK c \in Nat, y \in Nat : c = m.cut /\ y = Len(w)
      BY <1>2, <2>4 DEF AfterHead
    <3>3. c <= 3 + y
      BY <2>4, <3>2, CutFacts DEF AfterHead, HeadLen
    <3> QED
      BY <2>2, <3>1, <3>2, <3>3
  <2>9. ASSUME NEW i \in 1..Len(b) PROVE b[i] = w[i] /\ i \in 1..Len(w)
    <3>0. Len(w) \in Nat
      BY <2>4 DEF AfterHead
    <3>1. i \in 1..(n - 3) /\ i \in 1..Len(w)
      BY <2>8, <3>0
    <3>2. b[i] = Wire(m)[3 + i]
      BY <2>7, <3>1 DEF IsPart
    <3> QED
      BY <2>4, <3>1, <3>2 DEF AfterHead, HeadLen
  <2>10. Size(m) = 3 + Len(m.body)
    BY <1>1, <2>1 DEF Size, Payload, HeadLen
  <2>11. CASE Len(b) >= Len(m.body)
    <3>1. Begins(m.body, b)
      <4>1. ASSUME NEW i \in 1..Len(m.body) PROVE b[i] = m.body[i]
        <5>1. i \in 1..Len(b)
          BY <1>2, <2>8, <2>11
        <5> QED
          BY <2>4, <2>9, <5>1 DEF AfterHead
      <4> QED
        BY <1>2, <2>8, <2>11, <4>1 DEF Begins
    <3>2. PICK x \in Seq(Unit) : b = m.body \o x /\ Len(x) = Len(b) - Len(m.body)
      BY <1>2, <2>7, <3>1, GoesOn
    <3>3. Len(x) = Taken - Size(m)
      BY <1>2, <2>2, <2>8, <2>10, <3>2
    <3> QED
      BY <1>1, <1>8, <2>6, <3>2, <3>3 DEF WholeShare
  <2>12. CASE Len(b) < Len(m.body)
    <3>1. Begins(b, m.body)
      <4>1. ASSUME NEW i \in 1..Len(b) PROVE m.body[i] = b[i]
        <5>1. i \in 1..Len(m.body)
          BY <1>2, <2>8, <2>12
        <5> QED
          BY <2>4, <2>9, <5>1 DEF AfterHead
      <4> QED
        BY <2>12, <4>1 DEF Begins
    <3>2. ~(n >= Size(m))
      BY <1>2, <2>2, <2>8, <2>10, <2>12
    <3>3. ~HadAll
      <4>1. ~HeldAll
        BY <1>1, <2>2, <3>2 DEF HeldAll
      <4> QED
        BY <1>8, <4>1, HadAllIs
    <3> QED
      BY <1>1, <2>1, <2>6, <2>7, <2>12, <3>1, <3>3 DEF PartShare
  <2> QED
    BY <1>2, <2>8, <2>11, <2>12
<1>9. way = "upgrade_reply" \/ Streams \/ way = "answer" \/ Request
  BY PathAssumption DEF IInv, Streams, Request
<1> QED
  BY <1>5, <1>6, <1>7, <1>8, <1>9
----------------------------------------------------------------------------
(* What the receiver sees.                                                 *)

IsWhole(v, c, b) == v.kind = "whole" /\ v.body = b /\ v.ce = c.ce
ShowsPlain(v, c, bytes) ==
  \/ c.cl # None /\ Len(bytes) >= c.cl /\ IsWhole(v, c, SubSeq(bytes, 1, c.cl))
  \/ c.cl # None /\ ~(Len(bytes) >= c.cl) /\ v.kind = "short"
  \/ c.cl = None /\ IsWhole(v, c, bytes)
Shows(v, c, bytes) ==
  \/ c.nobody /\ IsWhole(v, c, <<>>)
  \/ ~c.nobody /\ c.te /\ v.kind = "garbled"
  \/ ~c.nobody /\ ~c.te /\ ShowsPlain(v, c, bytes)

LEMMA WholesShort ==
  ASSUME NEW b
  PROVE  IsWhole(Whole(b), carried, b) /\ Short.kind = "short" /\ Garbled.kind = "garbled"
BY DEF Whole, Short, Garbled, IsWhole

LEMMA AsWrittenShows ==
  ASSUME NEW m, HeadOf(m, carried), NEW bytes, NEW v, v = AsWritten(bytes)
  PROVE  Shows(v, carried, bytes)
<1>1. CASE carried.nobody
  <2>1. v = Whole(<<>>)
    BY <1>1, Zenon DEF AsWritten
  <2> QED
    BY <1>1, <2>1, WholesShort DEF Shows
<1>2. CASE ~carried.nobody /\ carried.te
  <2>1. v = Garbled
    BY <1>2, Zenon DEF AsWritten
  <2> QED
    BY <1>2, <2>1, WholesShort DEF Shows
<1>3. CASE ~carried.nobody /\ ~carried.te /\ carried.cl # None
  <2>1. v = IF Len(bytes) >= carried.cl THEN Whole(SubSeq(bytes, 1, carried.cl)) ELSE Short
    BY <1>3, Zenon DEF AsWritten
  <2> QED
    BY <1>3, <2>1, WholesShort DEF Shows, ShowsPlain
<1>4. CASE ~carried.nobody /\ ~carried.te /\ carried.cl = None
  <2>1. v = Whole(bytes)
    BY <1>4, Zenon DEF AsWritten
  <2> QED
    BY <1>4, <2>1, WholesShort DEF Shows, ShowsPlain
<1> QED
  BY <1>1, <1>2, <1>3, <1>4

LEMMA ServerShows ==
  ASSUME NEW v, v = ByHyperServer
  PROVE  \/ /\ v.kind = "short"
            /\ \/ carried.broken
               \/ /\ ~carried.nobody /\ carried.cl # None
                  /\ carried.te \/ carried.cl # Len(carried.body)
         \/ ~carried.broken /\ IsWhole(v, carried, IF carried.nobody THEN <<>> ELSE carried.body)
<1> DEFINE broken == \/ carried.broken
                     \/ /\ ~carried.nobody /\ carried.cl # None
                        /\ carried.te \/ carried.cl # Len(carried.body)
<1>1. v = IF broken THEN Short ELSE Whole(IF carried.nobody THEN <<>> ELSE carried.body)
  BY DEF ByHyperServer
<1>2. broken => v.kind = "short"
  BY <1>1, WholesShort
<1>3. ~broken => IsWhole(v, carried, IF carried.nobody THEN <<>> ELSE carried.body)
  BY <1>1, WholesShort
<1> QED
  BY <1>2, <1>3

LEMMA ClientShows ==
  ASSUME NEW m, HeadOf(m, carried), NEW v, v = ByHyperClient
  PROVE  \/ carried.te /\ carried.body # <<>> /\ IsWhole(v, carried, carried.body)
         \/ ~(carried.te /\ carried.body # <<>>) /\ ShowsPlain(v, carried, carried.body)
<1> DEFINE wrapped == carried.te /\ carried.body # <<>>
<1>1. v = IF ~wrapped /\ carried.cl # None
            THEN IF Len(carried.body) >= carried.cl
                   THEN Whole(SubSeq(carried.body, 1, carried.cl)) ELSE Short
            ELSE Whole(carried.body)
  BY Zenon DEF ByHyperClient
<1> HIDE DEF wrapped
<1>2. wrapped => IsWhole(v, carried, carried.body)
  BY <1>1, WholesShort
<1>3. ~wrapped => ShowsPlain(v, carried, carried.body)
  <2>1. CASE carried.cl # None
    BY <1>1, <2>1, WholesShort DEF ShowsPlain
  <2>2. CASE carried.cl = None
    BY <1>1, <2>2, WholesShort DEF ShowsPlain
  <2> QED
    BY <2>1, <2>2
<1> QED
  BY <1>2, <1>3 DEF wrapped

\* Each way writes in its own manner.
LEMMA WrittenShows ==
  ASSUME NEW m, HeadOf(m, carried), NEW v, v = Written
  PROVE  /\ way = "upgrade_reply" \/ way = "answer" =>
              Shows(v, carried, IF carried.streaming THEN <<>> ELSE carried.body)
         /\ way = "plain_reply" => Shows(v, carried, carried.body)
         /\ way = "tunnel_reply" => v = ByHyperServer
         /\ Request => v = ByHyperClient
<1>1. CASE way = "upgrade_reply" \/ way = "answer"
  <2>1. v = Serialized
    BY <1>1 DEF Written
  <2>2. Shows(v, carried, IF carried.streaming THEN <<>> ELSE carried.body)
    BY <2>1, AsWrittenShows DEF Serialized
  <2> QED
    BY <1>1, <2>2 DEF Request
<1>2. CASE way = "plain_reply"
  <2>1. v = AsWritten(carried.body)
    BY <1>2 DEF Written
  <2> QED
    BY <1>2, <2>1, AsWrittenShows DEF Request
<1>3. CASE way = "tunnel_reply"
  BY <1>3 DEF Written, Request
<1>4. CASE Request
  BY <1>4 DEF Written, Request
<1> QED
  BY <1>1, <1>2, <1>3, <1>4
----------------------------------------------------------------------------
(* What the receiver makes of it.                                          *)

\* SilentDamageExplained lists these.
Explained ==
  \/ ~Request /\ ~Delimited(msg)
  \/ way = "upgrade_reply" /\ read.head < HeadLen
  \/ Request /\ ~HeldAll /\ read.head = 1
  \/ ChunkedRequest
  \/ Request /\ Overread
  \/ /\ way \in {"upgrade_reply", "plain_request"} /\ chain # "none" /\ ~HadAll
     /\ AllLenient(msg)

\* Readable lists these.
Unreadable ==
  \/ way \in {"upgrade_reply", "plain_reply"} /\ msg.framing \in {"chunked", "both"}
  \/ way = "tunnel_reply" /\ msg.framing = "both"

Sound ==
  /\ view.kind = "whole" => Intact \/ (Explained /\ (~HadAll \/ ChunkedRequest))
  /\ HadAll => view.kind = "whole" \/ Unreadable

LEMMA OverreadIs ==
  ASSUME Request, Overread
  PROVE  Explained /\ ~HadAll
BY HadAllIs DEF Explained

\* What has left the chain is what was got, or made of it.
LEMMA OutcomeIs ==
  ASSUME IInv, carried \in Outcomes
  PROVE  \E s \in BOOLEAN :
           /\ way # "answer" => s = Streams
           /\ \/ carried = Got(s)
              \/ way # "answer" /\ Remade(Got(s), carried, DecodeBody(Got(s).body, Got(s).ce))
<1>1. CASE way = "answer"
  BY <1>1 DEF Outcomes
<1>2. CASE way # "answer"
  <2>1. Streams \in BOOLEAN
    BY DEF Streams
  <2>2. PICK s \in BOOLEAN : s = Streams
    BY <2>1
  <2>3. PICK c : c = Got(s)
    OBVIOUS
  <2>4. HeadOf(msg, c)
    BY <2>3, GotIs DEF IInv
  <2>5. carried \in HandledOf(c)
    BY <1>2, <2>2, <2>3 DEF Outcomes
  <2>6. Same(c, carried) \/ Remade(c, carried, DecodeBody(c.body, c.ce))
    BY <2>4, <2>5, HandledIs DEF IInv
  <2> QED
    BY <1>2, <2>2, <2>3, <2>6 DEF Same
<1> QED
  BY <1>1, <1>2

\* The framing of a head that was received whole.
LEMMA FramingIs ==
  ASSUME GotHead = HeadLen, msg.status = "ok", msg \in Messages, NEW s \in BOOLEAN
  PROVE  /\ Got(s).te <=> msg.framing \in {"chunked", "both"}
         /\ ~Got(s).nobody /\ Got(s).ce = msg.ce
         /\ msg.framing \in {"length", "both"} => Got(s).cl = Len(msg.body)
         /\ msg.framing \notin {"length", "both"} => Got(s).cl = None
         /\ Len(msg.body) # None /\ Len(msg.body) \in Nat
         /\ msg.framing \in {"chunked", "both", "length", "close"}
<1>1. /\ Got(s).te = Chunked(3) /\ Got(s).nobody = NoBodyStatus(3)
      /\ Got(s).cl = ContentLength(3) /\ Got(s).ce = msg.ce
  BY GotIs DEF HeadLen
<1>2. Len(msg.body) \in Nat /\ msg.framing \in {"chunked", "both", "length", "close"}
  BY MessageFacts, ReaderAssumption DEF Framings
<1>3. Chunked(3) <=> msg.framing \in {"chunked", "both"}
  BY DEF Chunked
<1>4. ~NoBodyStatus(3)
  BY DEF NoBodyStatus
<1>5. ContentLength(3) = IF msg.framing \in {"length", "both"} THEN Len(msg.body) ELSE -1
  BY DEF ContentLength
<1> QED
  BY <1>1, <1>2, <1>3, <1>4, <1>5 DEF None

LEMMA ShareIs ==
  ASSUME msg \in Messages, NEW b, WholeShare(b)
  PROVE  /\ b \in Seq(Unit) /\ Len(b) >= Len(msg.body)
         /\ SubSeq(b, 1, Len(msg.body)) = msg.body
         /\ ~Request => b = msg.body
<1>1. PICK x \in Seq(Unit) : /\ b = msg.body \o x
                             /\ Request => Len(x) = Taken - Size(msg)
                             /\ ~Request => Len(x) = 0
  BY DEF WholeShare
<1>2. PICK p \in Seq(Unit) : p = msg.body /\ Len(p) \in Nat
  BY MessageFacts
<1>3. b \in Seq(Unit) /\ IsConcat(b, p, x)
  BY <1>1, <1>2, Concatenated
<1>4. Len(b) = Len(p) + Len(x) /\ Len(x) \in Nat
  BY <1>3 DEF IsConcat
<1>5. SubSeq(b, 1, Len(p)) = p
  <2>1. PICK q : q = SubSeq(b, 0 + 1, Len(p))
    OBVIOUS
  <2>2. 0 \in Nat /\ Len(p) \in 0..Len(b) /\ Len(p) - 0 = Len(p) /\ 0 + 1 = 1
        /\ \A i \in 1..Len(p) : 0 + i = i
    BY <1>2, <1>4
  <2>3. q \in Seq(Unit) /\ IsPart(q, b, 0, Len(p) - 0)
    BY <1>3, <2>1, <2>2, PartOf
  <2>4. Len(q) = Len(p) /\ \A i \in 1..Len(p) : q[i] = b[i]
    BY <2>2, <2>3 DEF IsPart
  <2>5. \A i \in 1..Len(p) : q[i] = p[i]
    BY <1>3, <2>4 DEF IsConcat
  <2>6. q = p
    BY <2>3, <2>4, <2>5, SeqEqual
  <2> QED
    BY <2>1, <2>2, <2>6
<1>6. ASSUME ~Request PROVE b = p
  <2>1. x = <<>>
    BY <1>1, <1>6, EmptySeq
  <2> QED
    BY <1>1, <1>2, <2>1, ConcatEmptySeq
<1> QED
  BY <1>2, <1>3, <1>4, <1>5, <1>6

\* A body that is held to its length.
LEMMA LengthHolds ==
  ASSUME msg \in Messages, NEW c, NEW b, WholeShare(b) \/ PartShare(b),
         ShowsPlain(view, c, b), c.cl = Len(msg.body), c.cl # None
  PROVE  /\ view.kind = "whole" => view.body = msg.body /\ view.ce = c.ce
         /\ WholeShare(b) => view.kind = "whole"
<1>1. Len(msg.body) \in Nat
  BY MessageFacts
<1>2. CASE WholeShare(b)
  <2>1. Len(b) >= c.cl /\ SubSeq(b, 1, c.cl) = msg.body
    BY <1>2, ShareIs
  <2> QED
    BY <2>1 DEF ShowsPlain, IsWhole
<1>3. CASE PartShare(b) /\ ~WholeShare(b)
  <2>1. ~(Len(b) >= c.cl)
    BY <1>1, <1>3 DEF PartShare
  <2> QED
    BY <1>3, <2>1 DEF ShowsPlain
<1> QED
  BY <1>2, <1>3

\* An answer's body that is a stream is left out.
LEMMA StreamLeftOut ==
  ASSUME msg \in Messages, NEW c, ShowsPlain(view, c, <<>>), c.cl = Len(msg.body), c.cl # None
  PROVE  view.kind = "whole" => view.body = msg.body /\ view.ce = c.ce
<1>1. Len(msg.body) \in Nat /\ msg.body \in Seq(Unit) /\ Len(<<>>) = 0
  BY MessageFacts
<1>2. CASE Len(msg.body) = 0
  <2>1. msg.body = <<>>
    BY <1>1, <1>2, EmptySeq
  <2>2. SubSeq(<<>>, 1, 0) = <<>>
    OBVIOUS
  <2> QED
    BY <1>2, <2>1, <2>2 DEF ShowsPlain, IsWhole
<1>3. CASE Len(msg.body) # 0
  <2>1. ~(Len(<<>>) >= c.cl)
    BY <1>1, <1>3
  <2> QED
    BY <2>1 DEF ShowsPlain
<1> QED
  BY <1>2, <1>3

\* The message is as it was sent.
Uncoded ==
  /\ view.kind = "whole" => (view.body = msg.body /\ view.ce = msg.ce) \/ (Request /\ Overread)
  /\ HadAll => view.kind = "whole" \/ Unreadable

LEMMA UncodedSound ==
  ASSUME msg \in Messages, msg.status = "ok", Uncoded
  PROVE  Sound
<1>1. msg.body = Coded(msg.content, msg.ce)
  BY PathAssumption
<1>2. view.body = msg.body /\ view.ce = msg.ce => Intact
  BY <1>1 DEF Intact
<1> QED
  BY <1>2, OverreadIs DEF Uncoded, Sound

ShareOf(b) == WholeShare(b) \/ PartShare(b)

\* The same of a message that passes the chain as it is.
LEMMA PassedSound ==
  ASSUME IInv, Suits(msg, way), GotHead = HeadLen, msg.status = "ok", ~(Request /\ InChunks(msg)),
         Delimited(msg) \/ Request \/ HadAll, ShareOf(GotBody), view = Written,
         NEW s \in BOOLEAN, way # "answer" => s = Streams, carried = Got(s)
  PROVE  Sound
<1>1. msg \in Messages /\ HeadOf(msg, carried)
  BY DEF IInv
<1> SUFFICES Uncoded
  BY <1>1, UncodedSound
<1>2. /\ carried.te <=> msg.framing \in {"chunked", "both"}
      /\ ~carried.nobody /\ carried.ce = msg.ce
      /\ msg.framing \in {"length", "both"} => carried.cl = Len(msg.body)
      /\ msg.framing \notin {"length", "both"} => carried.cl = None
      /\ Len(msg.body) # None /\ Len(msg.body) \in Nat
      /\ msg.framing \in {"chunked", "both", "length", "close"}
  BY <1>1, FramingIs
<1>3. /\ carried.body = GotBody /\ carried.streaming = s
      /\ carried.broken <=> Streams /\ StreamBroken
  BY <1>1, GotIs
<1>4. HadAll => WholeShare(GotBody)
  BY DEF PartShare, ShareOf
<1>5. Delimited(msg) <=> msg.framing # "close"
  BY DEF Delimited
<1>6. ASSUME ShowsPlain(view, carried, GotBody), msg.framing \in {"length", "close"}
      PROVE  Uncoded
  <2>1. CASE msg.framing = "length"
    BY <1>1, <1>2, <1>4, <1>6, <2>1, LengthHolds DEF Uncoded, ShareOf
  <2>2. CASE msg.framing = "close" /\ ~Request
    <3>1. WholeShare(GotBody)
      BY <1>4, <1>5, <2>2
    <3>2. GotBody = msg.body
      BY <1>1, <2>2, <3>1, ShareIs
    <3>3. IsWhole(view, carried, GotBody)
      BY <1>2, <1>6, <2>2 DEF ShowsPlain
    <3> QED
      BY <1>2, <3>2, <3>3 DEF Uncoded, IsWhole
  <2>3. CASE msg.framing = "close" /\ Request
    <3>1. IsWhole(view, carried, GotBody)
      BY <1>2, <1>6, <2>3 DEF ShowsPlain
    <3>2. msg.body = <<>>
      BY <2>3 DEF Suits, Request
    <3>3. Len(msg.body) = 0
      BY <3>2
    <3>4. WholeShare(GotBody)
      <4>1. ~PartShare(GotBody)
        <5>1. ASSUME PartShare(GotBody) PROVE FALSE
          <6>1. PICK b \in Seq(Unit) : b = GotBody /\ Len(b) < Len(msg.body)
            BY <5>1 DEF PartShare
          <6>2. Len(b) \in Nat
            OBVIOUS
          <6> QED
            BY <3>3, <6>1, <6>2
        <5> QED
          BY <5>1
      <4> QED
        BY <4>1 DEF ShareOf
    <3>5. PICK x \in Seq(Unit) : GotBody = msg.body \o x /\ Len(x) = Taken - Size(msg)
      BY <2>3, <3>4 DEF WholeShare
    <3>6. CASE Len(x) = 0
      <4>1. x = <<>>
        BY <3>6, EmptySeq
      <4>2. GotBody = msg.body
        BY <1>1, <3>5, <4>1, MessageFacts, ConcatEmptySeq
      <4> QED
        BY <1>2, <3>1, <4>2 DEF Uncoded, IsWhole
    <3>7. CASE Len(x) # 0
      <4>1. Taken > Size(msg)
        <5>1. PICK l \in Nat : l = Len(x)
          OBVIOUS
        <5>2. Size(msg) \in Nat /\ Taken \in Int
          <6>1. msg.cut \in Nat /\ Len(rest) \in Nat
            <7>1. rest \in Seq(Unit)
              BY DEF IInv, ReaderAt
            <7> QED
              BY <1>1, <7>1, CutFacts
          <6>2. Len(Payload(msg)) \in Nat
            BY <1>1, WireParts
          <6> QED
            BY <6>1, <6>2 DEF Size, Taken, HeadLen
        <5> QED
          BY <3>5, <3>7, <5>1, <5>2
      <4>2. Overread
        BY <1>5, <2>3, <4>1 DEF Overread
      <4> QED
        BY <2>3, <3>1, <4>2 DEF Uncoded, IsWhole
    <3> QED
      BY <3>6, <3>7
  <2> QED
    BY <1>6, <2>1, <2>2, <2>3
<1>7. CASE way = "answer"
  <2>1. msg.framing = "length" /\ ~Request
    BY <1>7 DEF Suits, Request
  <2>2. Shows(view, carried, IF carried.streaming THEN <<>> ELSE carried.body)
    BY <1>1, <1>7, WrittenShows
  <2>3. ShowsPlain(view, carried, IF carried.streaming THEN <<>> ELSE carried.body)
    BY <1>2, <2>1, <2>2 DEF Shows
  <2>4. CASE carried.streaming
    <3>1. ShowsPlain(view, carried, <<>>)
      BY <2>3, <2>4
    <3>2. view.kind = "whole" => view.body = msg.body /\ view.ce = msg.ce
      BY <1>1, <1>2, <2>1, <3>1, StreamLeftOut
    <3>3. ~HadAll
      BY <1>7, <2>4, HadAllIs
    <3> QED
      BY <3>2, <3>3 DEF Uncoded
  <2>5. CASE ~carried.streaming
    BY <1>3, <1>6, <2>1, <2>3, <2>5
  <2> QED
    BY <2>4, <2>5
<1>8. CASE way = "upgrade_reply"
  <2>1. ~Streams /\ ~carried.streaming
    BY <1>3, <1>8 DEF Streams
  <2>2. Shows(view, carried, GotBody)
    BY <1>1, <1>3, <1>8, <2>1, WrittenShows
  <2>3. CASE carried.te
    BY <1>2, <1>8, <2>2, <2>3 DEF Shows, Uncoded, Unreadable
  <2>4. CASE ~carried.te
    BY <1>2, <1>6, <2>2, <2>4 DEF Shows
  <2> QED
    BY <2>3, <2>4
<1>9. CASE way = "plain_reply"
  <2>1. Shows(view, carried, GotBody)
    BY <1>1, <1>3, <1>9, WrittenShows
  <2>3. CASE carried.te
    BY <1>2, <1>9, <2>1, <2>3 DEF Shows, Uncoded, Unreadable
  <2>4. CASE ~carried.te
    BY <1>2, <1>6, <2>1, <2>4 DEF Shows
  <2> QED
    BY <2>3, <2>4
<1>10. CASE way = "tunnel_reply"
  <2>1. ~Request /\ Streams /\ view = ByHyperServer
    BY <1>1, <1>10, WrittenShows DEF Request, Streams
  <2>2. \/ /\ view.kind = "short"
           /\ \/ carried.broken
              \/ carried.cl # None /\ (carried.te \/ carried.cl # Len(carried.body))
        \/ ~carried.broken /\ IsWhole(view, carried, GotBody)
    BY <1>2, <1>3, <2>1, ServerShows
  <2>3. ~carried.broken => WholeShare(GotBody)
    BY <1>3, <2>1 DEF ShareOf, PartShare
  <2>4. WholeShare(GotBody) => GotBody = msg.body
    BY <1>1, <2>1, ShareIs
  <2>5. HadAll => ~carried.broken
    <3>1. ASSUME HadAll PROVE ~StreamBroken
      <4>1. Complete(msg) /\ ~BadSize /\ (Delimited(msg) \/ msg.end = "eof")
        BY <1>10, <2>1, <3>1, HadAllIs
      <4> QED
        BY <4>1 DEF StreamBroken
    <3> QED
      BY <1>3, <3>1
  <2>6. WholeShare(GotBody) => carried.cl \in {None, Len(carried.body)}
    BY <1>2, <1>3, <2>4
  <2>7. carried.te /\ carried.cl # None => Unreadable
    BY <1>2, <1>10 DEF Unreadable
  <2> QED
    BY <1>2, <2>2, <2>3, <2>4, <2>5, <2>6, <2>7 DEF Uncoded, IsWhole
<1>11. CASE Request
  <2>1. ~carried.te /\ msg.framing \in {"length", "close"}
    BY <1>2, <1>11 DEF InChunks
  <2>2. view = ByHyperClient
    BY <1>1, <1>11, WrittenShows
  <2>3. ShowsPlain(view, carried, GotBody)
    BY <1>1, <1>3, <2>1, <2>2, ClientShows
  <2> QED
    BY <1>6, <2>1, <2>3
<1> QED
  BY <1>7, <1>8, <1>9, <1>10, <1>11, PathAssumption DEF IInv, Request

\* What is written of a message that the chain has remade: it has no length.
LEMMA RemadeShows ==
  ASSUME IInv, view = Written, NEW c, NEW d, Remade(c, carried, d), ~c.nobody, way # "answer"
  PROVE  /\ view.kind = "whole" => view.body = carried.body /\ view.ce = carried.ce
         /\ view.kind = "whole" \/ (c.te /\ way \in {"upgrade_reply", "plain_reply"})
<1>1. HeadOf(msg, carried)
  BY DEF IInv
<1>2. /\ carried.te = c.te /\ ~carried.nobody /\ ~carried.broken /\ carried.cl = None
      /\ ~carried.streaming
  BY DEF Remade
<1>3. ASSUME Shows(view, carried, carried.body), way # "tunnel_reply", ~Request
      PROVE  /\ view.kind = "whole" => view.body = carried.body /\ view.ce = carried.ce
             /\ view.kind = "whole" \/ c.te
  <2>1. CASE carried.te
    BY <1>2, <1>3, <2>1 DEF Shows
  <2>2. CASE ~carried.te
    BY <1>2, <1>3, <2>2 DEF Shows, ShowsPlain, IsWhole
  <2> QED
    BY <2>1, <2>2
<1>4. CASE way = "upgrade_reply"
  <2>1. Shows(view, carried, carried.body)
    BY <1>1, <1>2, <1>4, WrittenShows
  <2> QED
    BY <1>3, <1>4, <2>1 DEF Request
<1>5. CASE way = "plain_reply"
  <2>1. Shows(view, carried, carried.body)
    BY <1>1, <1>5, WrittenShows
  <2> QED
    BY <1>3, <1>5, <2>1 DEF Request
<1>6. CASE way = "tunnel_reply"
  <2>1. view = ByHyperServer
    BY <1>1, <1>6, WrittenShows
  <2>2. IsWhole(view, carried, carried.body)
    BY <1>2, <2>1, ServerShows
  <2> QED
    BY <1>6, <2>2 DEF IsWhole, Request
<1>7. CASE Request
  <2>1. view = ByHyperClient
    BY <1>1, <1>7, WrittenShows
  <2>2. IsWhole(view, carried, carried.body) \/ ShowsPlain(view, carried, carried.body)
    BY <1>1, <2>1, ClientShows
  <2> QED
    BY <1>2, <2>2 DEF ShowsPlain, IsWhole
<1> QED
  BY <1>4, <1>5, <1>6, <1>7, PathAssumption DEF IInv, Request

\* If the content was decoded, it is what the receiver gets.
LEMMA ContentThrough ==
  ASSUME msg \in Messages, msg.status = "ok", NEW c, NEW d, d = Decoded(msg.content),
         c.ce = msg.ce, Remade(c, carried, d),
         view.body = carried.body, view.ce = carried.ce
  PROVE  Intact
<1>1. msg.content \in Seq(Unit) /\ d.body = msg.content
  BY MessageLayers DEF Decoded
<1>2. msg.ce # <<>>
  BY DEF Remade, ShouldDecode
<1>3. PICK e \in Unit : e = FlattenSeq(c.ce)[1]
  BY <1>2, FirstToken
<1>4. Coded(msg.content, <<>>) = msg.content
      /\ Coded(msg.content, <<<<e>>>>) = EncodeOne(msg.content, e)
  BY <1>1, CodedOnce
<1>5. \/ view.ce = <<>> /\ view.body = msg.content
      \/ view.ce = <<<<e>>>> /\ view.body = EncodeOne(msg.content, e)
  BY <1>1, <1>3 DEF Remade
<1> QED
  BY <1>4, <1>5 DEF Intact

\* If all its tokens are identity, the next request is taken for its body.
LEMMA PlainOverread ==
  ASSUME msg \in Messages, msg.ce # <<>>, chain # "none", AllPlain(msg), Taken > Size(msg)
  PROVE  Overread
<1>1. FlattenSeq(msg.ce)[1] \in Tokens
  BY FirstToken DEF TokensOf, Tokens
<1>2. \A e \in Tokens : e = "identity"
  BY DEF AllPlain, TokensOf, Tokens
<1>3. Tokens = {"identity"}
  BY <1>1, <1>2
<1> QED
  BY <1>3 DEF Overread

LEMMA SizesAre ==
  ASSUME IInv
  PROVE  Size(msg) \in Nat /\ Taken \in Int /\ msg.cut \in Nat /\ Size(msg) >= HeadLen
<1>1. rest \in Seq(Unit) /\ msg \in Messages
  BY DEF IInv, ReaderAt
<1>2. msg.cut \in Nat /\ Len(rest) \in Nat /\ Len(Payload(msg)) \in Nat
  BY <1>1, CutFacts, WireParts
<1> QED
  BY <1>2 DEF Size, Taken, HeadLen

LEMMA RemadeSound ==
  ASSUME IInv, GotHead = HeadLen, msg.status = "ok", ShareOf(GotBody), view = Written,
         way # "answer", NEW d, d = DecodeBody(Got(Streams).body, Got(Streams).ce),
         Remade(Got(Streams), carried, d)
  PROVE  Sound
<1>1. msg \in Messages
  BY DEF IInv
<1>2. PICK c : c = Got(Streams)
  OBVIOUS
<1>3. /\ c.te <=> msg.framing \in {"chunked", "both"}
      /\ ~c.nobody /\ c.ce = msg.ce /\ c.body = GotBody
      /\ c.broken <=> Streams /\ StreamBroken
  <2>1. Streams \in BOOLEAN
    BY DEF Streams
  <2>2. PICK s \in BOOLEAN : s = Streams
    BY <2>1
  <2> QED
    BY <1>1, <1>2, <2>2, FramingIs, GotIs
<1>4. /\ view.kind = "whole" => view.body = carried.body /\ view.ce = carried.ce
      /\ view.kind = "whole" \/ Unreadable
  BY <1>2, <1>3, RemadeShows DEF Unreadable
<1>5. d = DecodeBody(GotBody, msg.ce) /\ d.ok /\ ~c.broken /\ chain # "none" /\ msg.ce # <<>>
  BY <1>2, <1>3 DEF Remade, ShouldDecode
<1>6. d # Failed
  BY <1>5 DEF Failed
<1>7. ASSUME d = Decoded(msg.content), view.kind = "whole" PROVE Intact
  BY <1>1, <1>2, <1>3, <1>4, <1>7, ContentThrough
<1>8. CASE WholeShare(GotBody)
  <2>1. PICK x \in Seq(Unit) : /\ GotBody = msg.body \o x
                               /\ Request => Len(x) = Taken - Size(msg)
                               /\ ~Request => Len(x) = 0
    BY <1>8 DEF WholeShare
  <2>2. WholeResult(msg, d, x)
    BY <1>1, <1>5, <2>1, BodyWhole
  <2>3. CASE d = Decoded(msg.content)
    BY <1>3, <1>4, <1>7, <2>3 DEF Sound
  <2>4. CASE d = Decoded(msg.content \o x) /\ AllPlain(msg) /\ d # Decoded(msg.content)
    <3>1. x # <<>>
      BY <1>1, <2>4, MessageLayers, ConcatEmptySeq
    <3>2. Len(x) \in Nat /\ Len(x) # 0
      BY <3>1, EmptySeq
    <3>3. Request /\ Len(x) = Taken - Size(msg)
      BY <2>1, <3>2
    <3>4. Taken > Size(msg)
      BY <3>2, <3>3, SizesAre
    <3>5. Overread
      BY <1>1, <1>5, <2>4, <3>4, PlainOverread
    <3>6. Explained /\ ~HadAll
      BY <3>3, <3>5, OverreadIs
    <3> QED
      BY <3>6 DEF Sound
  <2> QED
    BY <1>6, <2>2, <2>3, <2>4 DEF WholeResult
<1>9. CASE PartShare(GotBody)
  <2>1. PICK b \in Seq(Unit) : b = GotBody /\ Begins(b, msg.body) /\ ~HadAll
    BY <1>9 DEF PartShare
  <2>2. ~Streams
    BY <1>3, <1>5, <1>9 DEF PartShare
  <2>3. PartResult(msg, d)
    BY <1>1, <1>5, <2>1, BodyInPart
  <2>4. CASE d = Decoded(msg.content)
    BY <1>7, <2>1, <2>4 DEF Sound
  <2>5. CASE AllLenient(msg)
    <3>1. way \in {"upgrade_reply", "plain_request"}
      BY <2>2, PathAssumption DEF IInv, Streams
    <3>2. Explained
      BY <1>5, <2>1, <2>5, <3>1 DEF Explained
    <3> QED
      BY <2>1, <3>2 DEF Sound
  <2> QED
    BY <1>6, <2>3, <2>4, <2>5 DEF PartResult
<1> QED
  BY <1>8, <1>9 DEF ShareOf

\* Without a body there is nothing to change.
LEMMA NobodySound ==
  ASSUME IInv, Suits(msg, way), GotHead = HeadLen, msg.status = "nobody", view = Written,
         NEW s \in BOOLEAN, NEW c, c = Got(s), NEW d,
         carried = c \/ Remade(c, carried, d)
  PROVE  Sound
<1>1. msg \in Messages /\ HeadOf(msg, carried) /\ ~Request
  BY DEF IInv, Suits, Request
<1>2. c.nobody /\ (c.broken <=> Streams /\ StreamBroken)
  <2>1. c.nobody = NoBodyStatus(3) /\ (c.broken <=> Streams /\ StreamBroken)
    BY <1>1, GotIs DEF HeadLen
  <2>2. NoBodyStatus(3) = TRUE
    BY DEF NoBodyStatus
  <2> QED
    BY <2>1, <2>2
<1>3. carried.nobody /\ (carried.broken <=> c.broken)
  BY <1>2 DEF Remade
<1>4. ASSUME NEW b, IsWhole(view, carried, b), b = <<>> PROVE Sound
  BY <1>4 DEF Sound, Intact, IsWhole
<1>5. ASSUME NEW b, Shows(view, carried, b) PROVE Sound
  BY <1>3, <1>4, <1>5 DEF Shows
<1>6. CASE way = "tunnel_reply"
  <2>1. view = ByHyperServer
    BY <1>1, <1>6, WrittenShows
  <2>2. CASE ~carried.broken
    <3>1. IsWhole(view, carried, <<>>)
      BY <1>3, <2>1, <2>2, ServerShows
    <3> QED
      BY <1>4, <3>1
  <2>3. CASE carried.broken
    <3>1. view.kind = "short"
      BY <2>1, <2>3, ServerShows
    <3>2. StreamBroken /\ Delimited(msg)
      BY <1>2, <1>3, <2>3 DEF Delimited
    <3>3. ~HadAll
      <4>1. ~Complete(msg) \/ BadSize
        BY <3>2 DEF StreamBroken
      <4> QED
        BY <1>1, <1>6, <4>1, HadAllIs
    <3> QED
      BY <3>1, <3>3 DEF Sound
  <2> QED
    BY <2>2, <2>3
<1>7. CASE way # "tunnel_reply"
  BY <1>1, <1>5, <1>7, WrittenShows, PathAssumption DEF IInv, Request
<1> QED
  BY <1>6, <1>7

\* If only the end of the connection ends the message, all is well if the proxy had it.
LEMMA ClosedShare ==
  ASSUME IInv, Suits(msg, way), Arrived, GotHead = HeadLen, msg.status = "ok",
         ~Delimited(msg), ~Request, HadAll
  PROVE  WholeShare(GotBody)
<1>1. PICK m \in Messages : m = msg
  BY DEF IInv
<1>2. m.extra = <<>> /\ way # "answer" /\ BodyOf(m) = m.body /\ m.framing = "close"
  BY <1>1 DEF Suits, Request, Delimited, BodyOf
<1>3. PICK b \in Seq(Unit), o \in Seq(Unit) : b = m.body /\ o = <<>> /\ Len(o) = 0
  BY <1>1, MessageFacts, EmptySeq
<1>4. b \o o = b
  BY <1>3, ConcatEmptySeq
<1>5. WholeShare(b)
  BY <1>1, <1>3, <1>4 DEF WholeShare
<1>6. Complete(m)
  BY <1>1, <1>2, HadAllIs
<1>7. CASE way = "upgrade_reply"
  <2>1. ReaderAt(m, read, rest) /\ read.pc = "ok"
    BY <1>1, <1>7 DEF IInv, Arrived
  <2>2. Exact(m, read.body)
    BY <2>1 DEF ReaderAt
  <2>3. m.cut = Len(Wire(m))
    <3>1. Len(Wire(m)) = 3 + Len(Payload(m)) + Len(m.extra) /\ m.cut \in Nat
          /\ Len(Payload(m)) \in Nat
      BY WireParts, CutFacts DEF HeadLen
    <3>2. Len(m.extra) = 0 /\ m.cut <= Len(Wire(m)) /\ m.cut >= 3 + Len(Payload(m))
      BY <1>2, <1>6, CutFacts DEF Complete, HeadLen
    <3> QED
      BY <3>1, <3>2
  <2>4. read.body = b \o o
    BY <1>1, <1>2, <1>3, <2>2, <2>3 DEF Exact
  <2>5. GotBody = b
    BY <1>4, <1>7, <2>4 DEF GotBody
  <2> QED
    BY <1>5, <2>5
<1>8. CASE way # "upgrade_reply"
  <2>1. Streams
    BY <1>2, <1>8, PathAssumption DEF IInv, Request, Streams
  <2>2. GotBody = b
    BY <1>1, <1>2, <1>3, <1>6, <1>8, <2>1 DEF GotBody, StreamBody
  <2> QED
    BY <1>5, <2>2
<1> QED
  BY <1>7, <1>8

\* What the first read got of a request's body.
LEMMA RequestBody ==
  ASSUME IInv, Arrived, Request, NEW h, h = read.head
  PROVE  /\ Taken \in Nat /\ Taken >= 1 /\ h = IF Taken < 3 THEN Taken ELSE 3
         /\ GotHead = h /\ GotBody \in Seq(Unit) /\ IsPart(GotBody, Wire(msg), h, Taken - h)
<1>1. PICK m \in Messages, w \in Seq(Unit) : m = msg /\ w = Wire(m)
  BY PayloadType DEF IInv
<1>2. m.cut \in Nat /\ m.cut <= Len(w)
  BY <1>1, CutFacts
<1>3. PICK n \in Nat : n = Taken /\ n >= 1 /\ n <= m.cut
  BY <1>1, <1>2 DEF Arrived
<1>4. h = (IF n < 3 THEN n ELSE 3) /\ h \in Nat /\ n \in h..Len(w)
  BY <1>2, <1>3 DEF Arrived, HeadLen
<1>5. way # "upgrade_reply" /\ way # "answer" /\ ~Streams /\ GotHead = h
  BY DEF Request, Streams, GotHead
<1>6. PICK b : b = SubSeq(w, h + 1, n)
  OBVIOUS
<1>7. b \in Seq(Unit) /\ IsPart(b, w, h, n - h)
  BY <1>4, <1>6, PartOf
<1>8. GotBody = b
  BY <1>1, <1>3, <1>5, <1>6 DEF GotBody
<1> QED
  BY <1>1, <1>3, <1>4, <1>5, <1>7, <1>8

\* The first unit of a body in chunks is no encoding's.
LEMMA ChunkIsNoCoding ==
  ASSUME NEW m \in Messages, InChunks(m)
  PROVE  Wire(m)[4] \notin Codings /\ Len(Payload(m)) > 0
<1>1. Len(m.chunks) \in Nat /\ DOMAIN m.chunks = 1..Len(m.chunks) /\ Len(Payload(m)) \in Nat
  BY MessageFacts, WireParts
<1>2. 0 \in 0..Len(m.chunks)
  BY <1>1
<1>3. Start(m, 0) = 3 /\ 3 + 4 <= 3 + Len(Payload(m))
      /\ (0 < Len(m.chunks) => ChunkAfter(m, 0, m.chunks[0 + 1]))
      /\ (0 = Len(m.chunks) => EndAfter(m, 0))
  BY <1>2, ChunkOnWire DEF HeadLen
<1>4. CASE Len(m.chunks) = 0
  <2>1. Wire(m)[3 + 1] = "0"
    BY <1>3, <1>4 DEF EndAfter
  <2> QED
    BY <1>1, <1>3, <2>1 DEF Codings
<1>5. CASE Len(m.chunks) # 0
  <2>1. 1 \in DOMAIN m.chunks /\ 0 < Len(m.chunks) /\ 0 + 1 = 1
    BY <1>1, <1>5
  <2>2. Wire(m)[3 + 1] = m.chunks[1].size
    BY <1>3, <2>1 DEF ChunkAfter
  <2>3. m.chunks[1].size \notin Codings
    BY <2>1, PathAssumption
  <2> QED
    BY <1>1, <1>3, <2>2, <2>3
<1> QED
  BY <1>4, <1>5

LEMMA EncodedNotEmpty ==
  ASSUME NEW b \in Seq(Unit), Len(b) > 0, NEW e \in Unit
  PROVE  EncodeOne(b, e) # <<>>
<1>1. PICK w \in Seq(Unit) : w = EncodeOne(b, e)
  BY EncodeOneIs
<1>2. Len(b) \in Nat
  OBVIOUS
<1>3. CASE e = "identity"
  BY <1>1, <1>2, <1>3, EncodeOneIs, EmptySeq
<1>4. CASE e # "identity"
  <2>1. Len(w) = Len(b) + 2
    BY <1>1, <1>4, EncodeOneIs DEF Wrapped
  <2>2. Len(w) # 0
    BY <1>2, <2>1
  <2> QED
    BY <1>1, <2>2, EmptySeq
<1> QED
  BY <1>3, <1>4

\* A request in chunks is taken for another; read whole, it can be read.
LEMMA ChunkedRequestSound ==
  ASSUME IInv, Arrived, Request, InChunks(msg), GotHead = HeadLen, view = Written,
         NEW s \in BOOLEAN, NEW d, d = DecodeBody(Got(s).body, Got(s).ce),
         carried = Got(s) \/ Remade(Got(s), carried, d)
  PROVE  Sound
<1>1. PICK m \in Messages : m = msg /\ HeadOf(m, carried) /\ HeadOf(m, Got(s))
  BY GotIs DEF IInv
<1>2. msg.framing \in {"chunked", "both"} /\ way # "tunnel_reply" /\ way # "answer"
      /\ msg.status = "ok"
  BY <1>1, ReaderAssumption DEF InChunks, Request
<1>3. Got(s).te /\ ~Got(s).nobody /\ Got(s).ce = msg.ce /\ Got(s).body = GotBody
  BY <1>1, <1>2, FramingIs, GotIs
<1>4. carried.te
  BY <1>3 DEF Remade
<1>5. view = ByHyperClient
  BY <1>1, WrittenShows
<1>6. SUFFICES ASSUME carried.body = <<>> PROVE ~HeldAll
  <2>1. view.kind = "whole" \/ carried.body = <<>>
    BY <1>1, <1>4, <1>5, ClientShows DEF IsWhole
  <2>2. HadAll => HeldAll
    BY HadAllIs
  <2>3. Explained /\ ChunkedRequest
    BY DEF Explained, ChunkedRequest
  <2> QED
    BY <1>6, <2>1, <2>2, <2>3 DEF Sound
<1>7. PICK b \in Seq(Unit), n \in Nat : /\ b = GotBody /\ n = Taken /\ n >= 3
                                        /\ IsPart(b, Wire(msg), 3, n - 3)
  BY RequestBody DEF HeadLen
<1>8. Len(b) = n - 3
  BY <1>7 DEF IsPart
<1>9. CASE Len(b) = 0
  <2>1. Len(Payload(m)) \in Nat /\ Len(Payload(m)) > 0
    BY <1>1, ChunkIsNoCoding, WireParts
  <2>2. Size(msg) > n
    BY <1>1, <1>8, <1>9, <2>1 DEF Size, HeadLen
  <2>3. Size(msg) \in Int
    BY SizesAre
  <2> QED
    BY <1>7, <2>2, <2>3 DEF HeldAll
<1>10. CASE Len(b) # 0
  <2>1. Len(b) > 0 /\ 1 \in 1..(n - 3) /\ b # <<>>
    BY <1>7, <1>8, <1>10
  <2>2. b[1] = Wire(m)[3 + 1]
    BY <1>1, <1>7, <2>1 DEF IsPart
  <2>3. b[1] \notin Codings
    BY <1>1, <2>2, ChunkIsNoCoding
  <2>4. Remade(Got(s), carried, d) /\ d = DecodeBody(b, m.ce)
    BY <1>1, <1>3, <1>6, <1>7, <2>1
  <2>5. d.ok /\ d # Failed /\ m.ce # <<>>
    BY <1>1, <1>3, <2>4 DEF Remade, Failed, ShouldDecode
  <2>6. d = Decoded(b)
    BY <2>1, <2>3, <2>4, <2>5, BodyWrong
  <2>7. d.body = b
    BY <2>6 DEF Decoded
  <2>8. PICK e \in Unit : e = FlattenSeq(Got(s).ce)[1]
    BY <1>1, <1>3, <2>5, FirstToken
  <2>9. carried.body = b \/ carried.body = EncodeOne(b, e)
    BY <2>4, <2>7, <2>8 DEF Remade
  <2> QED
    BY <1>6, <2>1, <2>9, EncodedNotEmpty
<1> QED
  BY <1>9, <1>10

\* A request of which only a part of the head was read.
LEMMA CutRequestSound ==
  ASSUME IInv, Suits(msg, way), Arrived, Request, GotHead # HeadLen, view = Written,
         NEW s \in BOOLEAN, NEW d, carried = Got(s) \/ Remade(Got(s), carried, d)
  PROVE  Sound
<1>1. PICK m \in Messages : m = msg /\ HeadOf(m, carried)
  BY DEF IInv
<1>2. PICK h : h = read.head
  OBVIOUS
<1>3. /\ Taken \in Nat /\ Taken >= 1 /\ h = IF Taken < 3 THEN Taken ELSE 3
      /\ GotHead = h /\ GotBody \in Seq(Unit) /\ IsPart(GotBody, Wire(msg), h, Taken - h)
  BY <1>2, RequestBody
<1>4. Taken \in {1, 2} /\ h = Taken
  BY <1>3 DEF HeadLen
<1>5. ~HeldAll
  BY <1>4, SizesAre DEF HeldAll, HeadLen
<1>6. ~HadAll
  BY <1>5, HadAllIs
<1>7. CASE h = 1 \/ msg.framing \in {"chunked", "both"}
  <2>1. Explained
    BY <1>2, <1>5, <1>7 DEF Explained, ChunkedRequest, InChunks, Suits, Request
  <2> QED
    BY <1>6, <2>1 DEF Sound
<1>8. CASE h = 2 /\ msg.framing \notin {"chunked", "both"}
  <2>1. PICK c : c = Got(s)
    OBVIOUS
  <2>2. /\ c.te = Chunked(2) /\ c.cl = ContentLength(2) /\ c.ce = <<>> /\ c.body = GotBody
    BY <1>1, <1>3, <1>8, <2>1, GotIs DEF HeadLen
  <2>3. carried = c
    BY <2>1, <2>2 DEF Remade, ShouldDecode
  <2>4. ~c.te
    BY <1>8, <2>2 DEF Chunked
  <2>5. GotBody = <<>>
    <3>0. Taken - h = 0
      BY <1>4, <1>8
    <3>1. Len(GotBody) = 0
      BY <1>3, <3>0 DEF IsPart
    <3> QED
      BY <1>3, <3>1, EmptySeq
  <2>6. view = ByHyperClient
    BY <1>1, WrittenShows
  <2>7. ShowsPlain(view, c, <<>>)
    BY <1>1, <2>2, <2>3, <2>4, <2>5, <2>6, ClientShows
  <2>8. view.kind = "whole" => view.body = msg.body /\ msg.body = <<>> /\ view.ce = <<>>
    <3>1. Len(msg.body) \in Nat /\ msg.body \in Seq(Unit) /\ Len(<<>>) = 0 /\ Len(msg.body) # None
      BY <1>1, MessageFacts DEF None
    <3>2. msg.framing \in {"length", "close"} /\ msg.status = "ok"
      BY <1>1, <1>8, ReaderAssumption DEF Framings, Suits, Request
    <3>3. CASE msg.framing = "length"
      <4>1. c.cl = Len(msg.body)
        BY <2>2, <3>3 DEF ContentLength
      <4>2. view.kind = "whole" => view.body = msg.body /\ view.ce = <<>>
        BY <1>1, <2>2, <2>7, <3>1, <4>1, StreamLeftOut
      <4>3. view.kind = "whole" => 0 >= Len(msg.body)
        BY <2>7, <3>1, <4>1 DEF ShowsPlain
      <4>4. view.kind = "whole" => msg.body = <<>>
        BY <3>1, <4>3, EmptySeq
      <4> QED
        BY <4>2, <4>4
    <3>4. CASE msg.framing = "close"
      <4>1. msg.body = <<>> /\ c.cl = None
        BY <2>2, <3>4 DEF ContentLength, None, Suits, Request
      <4> QED
        BY <2>2, <2>7, <4>1 DEF ShowsPlain, IsWhole
    <3> QED
      BY <3>2, <3>3, <3>4
  <2>9. view.kind = "whole" => Intact
    <3>1. ASSUME view.kind = "whole" PROVE Intact
      <4>1. m.content = <<>> /\ m.content \in Seq(Unit)
        BY <1>1, <2>8, <3>1, EmptyContent, MessageLayers
      <4>2. PICK u \in Unit : u = "identity"
        BY PathAssumption
      <4>3. Coded(m.content, <<>>) = m.content
        BY <4>1, <4>2, CodedOnce
      <4> QED
        BY <1>1, <2>8, <3>1, <4>1, <4>3 DEF Intact
    <3> QED
      BY <3>1
  <2> QED
    BY <1>6, <2>9 DEF Sound
<1> QED
  BY <1>3, <1>4, <1>7, <1>8

LEMMA DoneSound ==
  ASSUME IInv, PathInv, stage = "done"
  PROVE  Sound
<1>1. /\ Suits(msg, way) /\ Arrived /\ carried \in Outcomes /\ view = Written
      /\ way = "upgrade_reply" => HeadKnown(msg, read)
  BY DEF PathInv
<1>2. msg \in Messages /\ msg.status \in {"ok", "nobody"}
  BY ReaderAssumption DEF IInv
<1>3. PICK s \in BOOLEAN :
        /\ way # "answer" => s = Streams
        /\ \/ carried = Got(s)
           \/ way # "answer" /\ Remade(Got(s), carried, DecodeBody(Got(s).body, Got(s).ce))
  BY <1>1, OutcomeIs
<1>4. PICK d : d = DecodeBody(Got(s).body, Got(s).ce)
  OBVIOUS
<1>5. carried = Got(s) \/ (way # "answer" /\ Remade(Got(s), carried, d))
  BY <1>3, <1>4
<1>6. CASE GotHead # HeadLen
  <2>1. CASE Request
    BY <1>1, <1>5, <1>6, <2>1, CutRequestSound
  <2>2. CASE way = "upgrade_reply"
    <3>1. read.pc = "ok" /\ read.head # HeadLen
      BY <1>1, <1>6, <2>2 DEF Arrived, GotHead
    <3>2. msg.cut < HeadLen
      BY <1>1, <2>2, <3>1 DEF HeadKnown
    <3>3. read.head < HeadLen
      <4>1. read.head \in 0..HeadLen
        BY <2>2 DEF IInv, ReaderAt, Readers
      <4> QED
        BY <3>1, <4>1 DEF HeadLen
    <3>4. ~Complete(msg)
      <4>1. Len(Payload(msg)) \in Nat /\ msg.cut \in Nat
        BY <1>2, WireParts, CutFacts
      <4> QED
        BY <3>2, <4>1 DEF Complete, HeadLen
    <3>5. ~HadAll
      BY <2>2, <3>4, HadAllIs DEF Request
    <3> QED
      BY <2>2, <3>3, <3>5 DEF Sound, Explained
  <2> QED
    BY <1>6, <2>1, <2>2 DEF GotHead, Request
<1>7. CASE GotHead = HeadLen /\ msg.status = "nobody"
  BY <1>1, <1>5, <1>7, NobodySound DEF IInv
<1>8. CASE GotHead = HeadLen /\ msg.status = "ok" /\ Request /\ InChunks(msg)
  BY <1>1, <1>4, <1>5, <1>8, ChunkedRequestSound
<1>9. ASSUME GotHead = HeadLen, msg.status = "ok", ~(Request /\ InChunks(msg)),
             Delimited(msg) \/ Request \/ HadAll
      PROVE  Sound
  <2>1. ShareOf(GotBody)
    BY <1>1, <1>9, Shares, ClosedShare DEF ShareOf
  <2>2. CASE carried = Got(s)
    BY <1>1, <1>3, <1>9, <2>1, <2>2, PassedSound
  <2>3. CASE way # "answer" /\ Remade(Got(s), carried, d)
    <3>1. s = Streams
      BY <1>3, <2>3
    <3> QED
      BY <1>1, <1>4, <1>9, <2>1, <2>3, <3>1, RemadeSound
  <2> QED
    BY <1>5, <2>2, <2>3
<1>10. CASE ~Delimited(msg) /\ ~Request /\ ~HadAll
  BY <1>10 DEF Sound, Explained
<1> QED
  BY <1>2, <1>6, <1>7, <1>8, <1>9, <1>10
----------------------------------------------------------------------------
(* What ends an exchange without its message.                              *)

LEMMA UnfitToken ==
  ASSUME NEW e \in Tokens, Unfit(e)
  PROVE  ~(Tokens \subseteq Codings \cup {"x-gzip", "identity"})
<1>1. e \notin Codings \cup {"x-gzip", "identity"}
  BY DEF Unfit, Canonical, Codings
<1> QED
  BY <1>1

\* A body that DecodeHandler cannot decode, or encode_body not encode.
LEMMA ChainDrops ==
  ASSUME IInv, Suits(msg, way), Arrived, way # "answer", carried = Got(Streams), Handled = {}
  PROVE  DropCause
<1>1. PICK m \in Messages : m = msg /\ m.status \in {"ok", "nobody"}
  BY ReaderAssumption DEF IInv
<1>2. Streams \in BOOLEAN
  BY DEF Streams
<1>3. PICK s \in BOOLEAN : s = Streams /\ carried = Got(s)
  BY <1>2
<1>4. PICK c, d : c = Got(s) /\ d = DecodeBody(c.body, c.ce)
  OBVIOUS
<1>5. /\ HeadOf(m, c) /\ c.body = GotBody /\ (c.broken <=> Streams /\ StreamBroken)
      /\ c.ce = IF GotHead = HeadLen THEN m.ce ELSE <<>>
  BY <1>1, <1>4, GotIs
<1>6. HandledOf(c) = {}
  BY <1>3, <1>4, Zenon DEF HandledOf, Handled
<1>7. /\ chain # "none" /\ c.ce # <<>>
      /\ \/ c.broken \/ ~d.ok
         \/ chain = "repeat" /\ Canonical(FlattenSeq(c.ce)[1]) \notin Codings
  BY <1>4, <1>5, <1>6, HandledIs DEF IInv, ShouldDecode
<1>8. GotHead = HeadLen /\ c.ce = m.ce /\ m.ce # <<>>
  BY <1>5, <1>7
<1>9. Tokens = TokensOf(m)
  BY <1>1 DEF Tokens, TokensOf
<1>10. CASE m.status = "nobody"
  BY <1>1, <1>7, <1>8, <1>10 DEF DropCause
<1>11. CASE Request /\ InChunks(m)
  BY <1>1, <1>7, <1>11 DEF DropCause, ChunkedRequest
<1>12. CASE c.broken
  <2>1. ~Request /\ StreamBroken
    BY <1>5, <1>12 DEF Streams, Request
  <2>2. ~HadAll
    BY <2>1, HadAllIs DEF StreamBroken
  <2> QED
    BY <2>2 DEF DropCause
<1>13. CASE chain = "repeat" /\ Canonical(FlattenSeq(c.ce)[1]) \notin Codings
  <2>1. PICK e \in Tokens : e = FlattenSeq(m.ce)[1]
    BY <1>8, <1>9, FirstToken
  <2>2. CASE e = "identity"
    BY <1>1, <1>13, <2>1, <2>2 DEF DropCause
  <2>3. CASE e # "identity"
    <3>1. Unfit(e)
      BY <1>8, <1>13, <2>1, <2>3 DEF Unfit
    <3> QED
      BY <1>7, <3>1, UnfitToken DEF DropCause
  <2> QED
    BY <2>2, <2>3
<1>14. ASSUME ~d.ok, m.status = "ok", ~(Request /\ InChunks(m)) PROVE DropCause
  <2>1. CASE ~HadAll
    BY <2>1 DEF DropCause
  <2>2. CASE HadAll
    <3>1. ShareOf(GotBody)
      BY <1>1, <1>8, <1>14, <2>2, Shares, ClosedShare DEF ShareOf
    <3>2. WholeShare(GotBody)
      BY <2>2, <3>1 DEF ShareOf, PartShare
    <3>3. PICK x \in Seq(Unit) : /\ GotBody = m.body \o x
                                 /\ Request => Len(x) = Taken - Size(m)
                                 /\ ~Request => Len(x) = 0
      BY <1>1, <3>2 DEF WholeShare
    <3>4. WholeResult(m, d, x)
      BY <1>4, <1>5, <1>8, <3>3, BodyWhole
    <3>5. (\E e \in TokensOf(m) : Unfit(e)) \/ (Len(x) > 0 /\ "zstd" \in TokensOf(m))
      BY <1>14, <3>4 DEF WholeResult, Decoded
    <3>6. CASE \E e \in TokensOf(m) : Unfit(e)
      BY <1>1, <1>7, <1>9, <3>6, UnfitToken DEF DropCause
    <3>7. CASE Len(x) > 0 /\ "zstd" \in TokensOf(m)
      <4>1. Len(x) \in Nat
        OBVIOUS
      <4>2. Request /\ Len(x) = Taken - Size(msg)
        BY <1>1, <3>3, <3>7, <4>1
      <4>3. Taken > Size(msg)
        BY <3>7, <4>1, <4>2, SizesAre
      <4> QED
        BY <1>7, <1>9, <3>7, <4>2, <4>3 DEF DropCause
    <3> QED
      BY <3>5, <3>6, <3>7
  <2> QED
    BY <2>1, <2>2
<1> QED
  BY <1>1, <1>7, <1>10, <1>11, <1>12, <1>13, <1>14
----------------------------------------------------------------------------
(* The journey, step by step.                                              *)

LEMMA ArrivedKeeps ==
  ASSUME UNCHANGED <<msg, rest, read, way, chain>>
  PROVE  /\ Arrived' <=> Arrived
         /\ Outcomes' = Outcomes /\ Streams' = Streams /\ (Request' <=> Request)
         /\ \A s : Got(s)' = Got(s)
<1>1. (Request' <=> Request) /\ Taken' = Taken
  BY DEF Request, Taken
<1>2. Streams' = Streams
  BY DEF Streams
<1>3. Arrived' <=> Arrived
  BY <1>1, <1>2 DEF Arrived
<1>4. StreamBroken' = StreamBroken
  BY DEF StreamBroken, BadSize
<1>5. GotHead' = GotHead /\ GotBody' = GotBody
  BY <1>1, <1>2 DEF GotHead, GotBody, StreamBody
<1>6. \A h, b, s, k : Rec(h, b, s, k)' = Rec(h, b, s, k)
  BY DEF Rec, Chunked, ContentLength, NoBodyStatus
<1>7. \A s : Got(s)' = Got(s)
  BY <1>2, <1>4, <1>5, <1>6 DEF Got
<1>8. \A c : HandledOf(c)' = HandledOf(c)
  BY DEF HandledOf
<1>9. Outcomes' = Outcomes
  BY <1>2, <1>7, <1>8 DEF Outcomes
<1> QED
  BY <1>1, <1>2, <1>3, <1>7, <1>9

LEMMA CauseKeeps ==
  ASSUME UNCHANGED <<msg, rest, read, way, chain, carried>>
  PROVE  DropCause' <=> DropCause
<1>1. (Request' <=> Request) /\ Taken' = Taken /\ Tokens' = Tokens
  BY DEF Request, Taken, Tokens
<1>2. (HeldAll' <=> HeldAll) /\ (Overread' <=> Overread)
  BY <1>1 DEF HeldAll, Overread, Size
<1>3. HadAll' <=> HadAll
  BY <1>1, <1>2, Zenon DEF HadAll, BadSize
<1> QED
  BY <1>1, <1>3 DEF DropCause, Size, ChunkedRequest, InChunks

LEMMA HandledSame == Handled = HandledOf(carried)
BY Zenon DEF Handled, HandledOf

\* What a step records is what was got.
Filled(p, b) == [p EXCEPT !.body = b]
Answered(p, b, s) == [p EXCEPT !.body = b, !.streaming = s]
Flowing(p, b, s, k) == [p EXCEPT !.body = b, !.streaming = s, !.broken = k]

LEMMA ParsedIs ==
  ASSUME NEW h, NEW p, p = Parsed(h), NEW b, NEW s \in BOOLEAN, NEW k \in BOOLEAN
  PROVE  /\ Filled(p, b) = Rec(h, b, FALSE, FALSE)
         /\ Answered(p, b, s) = Rec(h, b, s, FALSE)
         /\ Flowing(p, b, s, k) = Rec(h, b, s, k)
<1> DEFINE Fields(r, x, y) ==
             /\ r = [te |-> r.te, cl |-> r.cl, ce |-> r.ce, nobody |-> r.nobody,
                     body |-> r.body, streaming |-> r.streaming, broken |-> r.broken]
             /\ r.te = Chunked(h) /\ r.cl = ContentLength(h) /\ r.nobody = NoBodyStatus(h)
             /\ r.ce = (IF h = HeadLen THEN msg.ce ELSE <<>>) /\ r.body = b
             /\ r.streaming = x /\ r.broken = y
<1>1. ASSUME NEW q, NEW r, NEW x, NEW y, Fields(q, x, y), Fields(r, x, y) PROVE q = r
  BY <1>1
<1>2. ASSUME NEW x, NEW y, NEW r, r = Rec(h, b, x, y) PROVE Fields(r, x, y)
  <2>1. r.streaming = x /\ r.broken = y
    BY <1>2, Zenon DEF Rec
  <2> QED
    BY <1>2, <2>1 DEF Rec
<1>3. /\ p = [te |-> p.te, cl |-> p.cl, ce |-> p.ce, nobody |-> p.nobody,
             body |-> p.body, streaming |-> p.streaming, broken |-> p.broken]
      /\ p.te = Chunked(h) /\ p.cl = ContentLength(h) /\ p.nobody = NoBodyStatus(h)
      /\ p.ce = (IF h = HeadLen THEN msg.ce ELSE <<>>)
      /\ p.streaming = FALSE /\ p.broken = FALSE
  BY DEF Parsed, Nothing
<1>4. ASSUME NEW r, r = [p EXCEPT !.body = b] PROVE Fields(r, FALSE, FALSE)
  BY <1>3, <1>4
<1>5. ASSUME NEW r, r = [p EXCEPT !.body = b, !.streaming = s] PROVE Fields(r, s, FALSE)
  <2>1. r.streaming = s
    BY <1>3, <1>5, Zenon
  <2> QED
    BY <1>3, <1>5, <2>1
<1>6. ASSUME NEW r, r = [p EXCEPT !.body = b, !.streaming = s, !.broken = k]
      PROVE  Fields(r, s, k)
  <2>1. r.streaming = s /\ r.broken = k
    BY <1>3, <1>6, Zenon
  <2> QED
    BY <1>3, <1>6, <2>1
<1> HIDE DEF Fields
<1>7. [p EXCEPT !.body = b] = Rec(h, b, FALSE, FALSE)
  <2>1. PICK q, r : q = [p EXCEPT !.body = b] /\ r = Rec(h, b, FALSE, FALSE)
    OBVIOUS
  <2>2. Fields(q, FALSE, FALSE) /\ Fields(r, FALSE, FALSE)
    BY <1>2, <1>4, <2>1, Zenon
  <2> QED
    BY <1>1, <2>1, <2>2, Zenon
<1>8. [p EXCEPT !.body = b, !.streaming = s] = Rec(h, b, s, FALSE)
  <2>1. PICK q, r : q = [p EXCEPT !.body = b, !.streaming = s] /\ r = Rec(h, b, s, FALSE)
    OBVIOUS
  <2>2. Fields(q, s, FALSE) /\ Fields(r, s, FALSE)
    BY <1>2, <1>5, <2>1, Zenon
  <2> QED
    BY <1>1, <2>1, <2>2, Zenon
<1>9. [p EXCEPT !.body = b, !.streaming = s, !.broken = k] = Rec(h, b, s, k)
  <2>1. PICK q, r : /\ q = [p EXCEPT !.body = b, !.streaming = s, !.broken = k]
                    /\ r = Rec(h, b, s, k)
    OBVIOUS
  <2>2. Fields(q, s, k) /\ Fields(r, s, k)
    BY <1>2, <1>6, <2>1, Zenon
  <2> QED
    BY <1>1, <2>1, <2>2, Zenon
<1> QED
  BY <1>7, <1>8, <1>9, Zenon DEF Filled, Answered, Flowing

LEMMA PathInit ==
  ASSUME Init
  PROVE  PathInv
BY DEF Init, ReaderInit, PathInv, HeadKnown, Unseen

LEMMA ReadReplyPath ==
  ASSUME IInv, PathInv, ReadReply
  PROVE  PathInv'
<1>1. /\ way = "upgrade_reply" /\ stage = "receive" /\ ReaderNext /\ ~Request
      /\ UNCHANGED <<way, chain, stage, carried, view>>
  BY DEF ReadReply, Request
<1>2. msg' = msg
  BY <1>1 DEF ReaderNext, ReadSome, Eof, Reset, HeadEnds, SizeLine, TakeChunk, ExactEnds
<1>3. PICK m \in Messages : m = msg
  BY DEF IInv
<1>4. HeadKnown(m, read')
  BY <1>1, <1>3, HeadKeeps DEF IInv, PathInv
<1>5. HeadKnown(msg', read')
  BY <1>2, <1>3, <1>4
<1>6. Suits(msg', way') /\ view'.kind = "none" /\ ~Request'
  BY <1>1, <1>2 DEF PathInv, Request
<1> QED
  BY <1>1, <1>5, <1>6 DEF PathInv

\* An answer without a status, or that could not be read.
LEMMA ReplyDrops ==
  ASSUME IInv, PathInv, way = "upgrade_reply", ReaderDone, read.pc # "ok" \/ read.head = 1
  PROVE  ~HadAll
<1>1. PICK m \in Messages : m = msg /\ ReaderAt(m, read, rest) /\ HeadKnown(m, read)
  BY DEF IInv, PathInv
<1>2. HadAll => Complete(m) /\ ~BadSize /\ (Delimited(m) \/ m.end = "eof")
  BY <1>1, HadAllIs DEF Request
<1>3. Word \in Nat
  BY ReaderAssumption
<1>4. ASSUME NEW i \in DOMAIN m.chunks, SizeOf(m.chunks[i].size) \in {-1, Word - 2, Word - 1}
      PROVE  BadSize
  <2>1. SizeOf(m.chunks[i].size) \notin 0..(Word - 3)
    BY <1>3, <1>4
  <2> QED
    BY <1>1, <2>1 DEF BadSize
<1>5. CASE read.pc = "panicked"
  <2>1. PICK i \in DOMAIN m.chunks : SizeOf(m.chunks[i].size) >= Word - 2
    BY <1>1, <1>5 DEF ReaderAt, Overflows
  <2>2. BadSize
    <3>1. SizeOf(m.chunks[i].size) \notin 0..(Word - 3)
      BY <1>3, <2>1
    <3> QED
      BY <1>1, <3>1 DEF BadSize
  <2> QED
    BY <1>2, <2>2
<1>6. CASE read.pc = "error"
  <2>1. Breaks(m)
    BY <1>1, <1>6 DEF ReaderAt
  <2>2. CASE m.end = "reset" /\ ~(Complete(m) /\ Delimited(m))
    BY <1>2, <2>2
  <2>3. CASE \E i \in DOMAIN m.chunks : SizeOf(m.chunks[i].size) = -1
    BY <1>2, <1>4, <2>3
  <2> QED
    BY <2>1, <2>2, <2>3 DEF Breaks
<1>7. CASE read.pc = "ok" /\ read.head = 1
  <2>1. m.cut < HeadLen
    BY <1>1, <1>7 DEF HeadKnown, HeadLen
  <2>2. Len(Payload(m)) \in Nat /\ m.cut \in Nat
    BY WireParts, CutFacts
  <2>3. ~Complete(m)
    BY <2>1, <2>2 DEF Complete, HeadLen
  <2> QED
    BY <1>2, <2>3
<1> QED
  BY <1>5, <1>6, <1>7 DEF ReaderDone

LEMMA ParseReplyPath ==
  ASSUME IInv, PathInv, ParseReply
  PROVE  PathInv'
<1>1. /\ way = "upgrade_reply" /\ stage = "receive" /\ ReaderDone
      /\ UNCHANGED <<msg, rest, read, way, chain, view>>
  BY DEF ParseReply
<1>2. ~Request /\ ~Streams /\ ~Request'
  BY <1>1 DEF Request, Streams
<1>3. Suits(msg', way') /\ view'.kind = "none" /\ HeadKnown(msg', read')
  BY <1>1 DEF PathInv
<1>4. CASE /\ read.pc = "ok" /\ stage' = "chain"
           /\ carried' = [Parsed(read.head) EXCEPT !.body = read.body]
  <2>1. Arrived
    BY <1>1, <1>2, <1>4 DEF Arrived
  <2>2. carried' = Rec(read.head, read.body, FALSE, FALSE)
    <3>1. PICK h, b, p : h = read.head /\ b = read.body /\ p = Parsed(h)
      OBVIOUS
    <3>2. FALSE \in BOOLEAN
      OBVIOUS
    <3>3. Filled(p, b) = Rec(h, b, FALSE, FALSE)
      BY <3>1, <3>2, ParsedIs, Zenon
    <3>4. carried' = Filled(p, b)
      BY <1>4, <3>1, Zenon DEF Filled
    <3> QED
      BY <3>1, <3>3, <3>4, Zenon
  <2>3. Streams = FALSE
    BY <1>2 DEF Streams
  <2>4. (Streams /\ StreamBroken) = FALSE
    BY <1>2
  <2>5. carried' = Got(Streams)
    BY <1>1, <2>2, <2>3, <2>4 DEF Got, GotHead, GotBody
  <2>6. Arrived' /\ carried' = Got(Streams)'
    BY <1>1, <2>1, <2>5, ArrivedKeeps
  <2> QED
    BY <1>1, <1>2, <1>3, <1>4, <2>6 DEF PathInv
<1>5. CASE (read.pc # "ok" \/ read.head = 1) /\ stage' = "dropped" /\ carried' = carried
  <2>1. DropCause
    BY <1>1, <1>5, ReplyDrops DEF DropCause
  <2>2. DropCause'
    BY <1>1, <1>5, <2>1, CauseKeeps
  <2> QED
    BY <1>1, <1>2, <1>3, <1>5, <2>2 DEF PathInv
<1> QED
  BY <1>4, <1>5 DEF ParseReply

LEMMA ReceiveStreamPath ==
  ASSUME IInv, PathInv, ReceiveStream
  PROVE  PathInv'
<1>1. /\ Streams /\ stage = "receive" /\ UNCHANGED <<msg, rest, read, way, chain, view>>
      /\ way # "upgrade_reply" /\ way # "answer"
  BY DEF ReceiveStream, Streams
<1>2. ~Request /\ ~Request'
  BY <1>1 DEF Request, Streams
<1>3. Suits(msg', way') /\ view'.kind = "none"
  BY <1>1 DEF PathInv
<1>4. PICK m \in Messages : m = msg /\ m.cut \in Nat /\ Len(Payload(m)) \in Nat
  BY WireParts, CutFacts DEF IInv
<1>5. CASE msg.cut < HeadLen
  <2>1. stage' \in {"dropped", "bad_gateway"} /\ carried' = carried
    BY <1>5 DEF ReceiveStream
  <2>2. ~Complete(msg)
    BY <1>4, <1>5 DEF Complete, HeadLen
  <2>3. DropCause
    BY <1>1, <1>2, <2>2, HadAllIs DEF DropCause
  <2>4. DropCause'
    BY <1>1, <2>1, <2>3, CauseKeeps
  <2> QED
    BY <1>1, <1>2, <1>3, <2>1, <2>4 DEF PathInv
<1>6. CASE ~(msg.cut < HeadLen)
  <2>1. /\ stage' = "chain"
        /\ carried' = [Parsed(HeadLen) EXCEPT !.body = StreamBody, !.streaming = TRUE,
                                              !.broken = StreamBroken]
    BY <1>6, Zenon DEF ReceiveStream, StreamBody, StreamBroken
  <2>2. Arrived
    BY <1>1, <1>2, <1>4, <1>6 DEF Arrived, HeadLen
  <2>3. StreamBroken \in BOOLEAN /\ TRUE \in BOOLEAN
    BY DEF StreamBroken, BadSize, Complete
  <2>4. carried' = Rec(HeadLen, StreamBody, TRUE, StreamBroken)
    <3>1. PICK h, b, p : h = HeadLen /\ b = StreamBody /\ p = Parsed(h)
      OBVIOUS
    <3>2. PICK s \in BOOLEAN, k \in BOOLEAN : s = TRUE /\ k = StreamBroken
      BY <2>3
    <3>3. Flowing(p, b, s, k) = Rec(h, b, s, k)
      BY <3>1, ParsedIs, Zenon
    <3>4. carried' = Flowing(p, b, s, k)
      BY <2>1, <3>1, <3>2, Zenon DEF Flowing
    <3> QED
      BY <3>1, <3>2, <3>3, <3>4, Zenon
  <2>5. Streams = TRUE
    BY <1>1 DEF Streams
  <2>6. (Streams /\ StreamBroken) = StreamBroken
    BY <2>3, <2>5, Zenon
  <2>7. carried' = Got(Streams)
    BY <1>1, <2>4, <2>5, <2>6 DEF Got, GotHead, GotBody, Streams
  <2>8. Arrived' /\ carried' = Got(Streams)'
    BY <1>1, <2>2, <2>7, ArrivedKeeps
  <2> QED
    BY <1>1, <1>2, <1>3, <2>1, <2>8 DEF PathInv
<1> QED
  BY <1>5, <1>6

LEMMA HandlerAnswersPath ==
  ASSUME IInv, PathInv, HandlerAnswers
  PROVE  PathInv'
<1>1. /\ way = "answer" /\ stage = "receive" /\ stage' = "write"
      /\ UNCHANGED <<msg, rest, read, way, chain, view>>
  BY DEF HandlerAnswers
<1>2. ~Request /\ ~Request' /\ ~Streams /\ way # "upgrade_reply"
  BY <1>1 DEF Request, Streams
<1>3. Suits(msg', way') /\ view'.kind = "none"
  BY <1>1 DEF PathInv
<1>4. PICK s \in BOOLEAN :
        carried' = [Parsed(HeadLen) EXCEPT !.body = BodyOf(msg), !.streaming = s]
  BY DEF HandlerAnswers
<1>5. carried' = Rec(HeadLen, BodyOf(msg), s, FALSE)
  <2>1. PICK h, b, p : h = HeadLen /\ b = BodyOf(msg) /\ p = Parsed(h)
    OBVIOUS
  <2>2. FALSE \in BOOLEAN
    OBVIOUS
  <2>3. Answered(p, b, s) = Rec(h, b, s, FALSE)
    BY <2>1, <2>2, ParsedIs, Zenon
  <2>4. carried' = Answered(p, b, s)
    BY <1>4, <2>1, Zenon DEF Answered
  <2> QED
    BY <2>1, <2>3, <2>4, Zenon
<1>6. (Streams /\ StreamBroken) = FALSE
  BY <1>2
<1>7. GotHead = HeadLen /\ GotBody = BodyOf(msg)
  BY <1>1, <1>2 DEF GotHead, GotBody
<1>8. carried' = Got(s)
  BY <1>5, <1>6, <1>7 DEF Got
<1>9. carried' \in Outcomes /\ Arrived
  BY <1>1, <1>2, <1>8 DEF Outcomes, Arrived
<1>10. carried' \in Outcomes' /\ Arrived'
  BY <1>1, <1>9, ArrivedKeeps
<1> QED
  BY <1>1, <1>2, <1>3, <1>10 DEF PathInv

LEMMA ReadNothingPath ==
  ASSUME IInv, PathInv, ReadNothing
  PROVE  PathInv'
<1>1. /\ Request /\ stage = "receive" /\ rest = <<>> /\ stage' \in {"refused", "dropped"}
      /\ UNCHANGED <<msg, rest, read, way, chain, carried, view>>
  BY DEF ReadNothing
<1>2. PICK m \in Messages : m = msg /\ rest = SubSeq(Wire(m), 1, m.cut)
  BY <1>1 DEF IInv, PathInv
<1>3. From(m, <<>>, rest, 0) /\ m.cut \in Nat
  BY <1>2, FromStart, CutFacts
<1>4. Len(rest) = m.cut
  BY <1>3, EmptySeq DEF From
<1>5. Taken = 0
  BY <1>2, <1>3, <1>4 DEF Taken
<1>6. ~HeldAll
  BY <1>5, SizesAre DEF HeldAll, HeadLen
<1>7. DropCause
  BY <1>1, <1>6, HadAllIs DEF DropCause
<1>8. DropCause'
  BY <1>1, <1>7, CauseKeeps
<1>9. Suits(msg', way') /\ view'.kind = "none" /\ way' # "upgrade_reply"
  BY <1>1 DEF PathInv, Request
<1> QED
  BY <1>1, <1>8, <1>9 DEF PathInv

LEMMA FirstReadPath ==
  ASSUME IInv, PathInv, FirstRead
  PROVE  PathInv'
<1>1. /\ Request /\ stage = "receive" /\ UNCHANGED <<msg, way, chain, view>>
      /\ way # "upgrade_reply" /\ way # "answer" /\ ~Streams
  BY DEF FirstRead, Request, Streams
<1>2. Suits(msg', way') /\ view'.kind = "none" /\ way' # "answer" /\ way' # "upgrade_reply"
      /\ Request' /\ ~Streams'
  BY <1>1 DEF PathInv, Request, Streams
<1>3. PICK m \in Messages, w \in Seq(Unit) : m = msg /\ w = Wire(m) /\ rest = SubSeq(w, 1, m.cut)
  BY <1>1, PayloadType DEF IInv, PathInv
<1>4. m.cut \in Nat /\ m.cut <= Len(w) /\ Len(w) \in Nat
  BY <1>3, CutFacts
<1>5. PICK r \in Seq(Unit) : r = rest /\ Len(r) = m.cut /\ IsPart(r, w, 0, m.cut)
  <2>1. 0 \in Nat /\ 0 + 1 = 1 /\ m.cut \in 0..Len(w) /\ m.cut - 0 = m.cut
    BY <1>4
  <2>2. PICK r : r = SubSeq(w, 0 + 1, m.cut)
    OBVIOUS
  <2>3. r \in Seq(Unit) /\ IsPart(r, w, 0, m.cut - 0)
    BY <2>1, <2>2, PartOf
  <2> QED
    BY <1>3, <2>1, <2>2, <2>3 DEF IsPart
<1>6. PICK n \in 1..Len(rest) :
        LET k == IF n < HeadLen THEN n ELSE HeadLen IN
        /\ rest' = SubSeq(rest, n + 1, Len(rest))
        /\ read' = [read EXCEPT !.head = k]
        /\ \/ /\ stage' = "chain"
              /\ carried' = [Parsed(k) EXCEPT !.body = SubSeq(rest, k + 1, n)]
           \/ /\ \/ k < HeadLen /\ stage' = "refused"
                 \/ k = 1 /\ stage' = "dropped"
              /\ UNCHANGED carried
  BY DEF FirstRead
<1>7. n \in Nat /\ n >= 1 /\ n <= m.cut
  BY <1>4, <1>5, <1>6
<1>8. PICK k : k = IF n < HeadLen THEN n ELSE HeadLen
  OBVIOUS
<1>9. k \in Nat /\ k <= n /\ k + 1 \in Nat
  BY <1>7, <1>8 DEF HeadLen
<1>10. Taken' = n
  <2>1. PICK q : q = SubSeq(r, n + 1, m.cut)
    OBVIOUS
  <2>2. m.cut \in n..Len(r)
    BY <1>4, <1>5, <1>7
  <2>3. IsPart(q, r, n, m.cut - n)
    BY <1>7, <2>1, <2>2, PartOf
  <2>4. rest' = q
    BY <1>5, <1>6, <2>1
  <2>5. Taken' = m.cut - (m.cut - n)
    BY <1>1, <1>3, <2>3, <2>4 DEF Taken, IsPart
  <2> QED
    BY <1>4, <1>7, <2>5
<1>11. read'.head = k
  <2>1. read = [read EXCEPT !.head = read.head]
    BY <1>1 DEF IInv, Readers
  <2> QED
    BY <1>1, <1>6, <1>8 DEF IInv, Readers
<1>12. Arrived'
  <2>1. n \in 1..m.cut
    BY <1>4, <1>7
  <2> QED
    BY <1>1, <1>2, <1>3, <1>8, <1>10, <1>11, <2>1 DEF Arrived
<1>13. CASE stage' = "chain" /\ carried' = [Parsed(k) EXCEPT !.body = SubSeq(rest, k + 1, n)]
  <2>1. SubSeq(rest, k + 1, n) = SubSeq(w, k + 1, n)
    <3>1. PICK p, q : p = SubSeq(r, k + 1, n) /\ q = SubSeq(w, k + 1, n)
      OBVIOUS
    <3>2. n \in k..Len(r) /\ n \in k..Len(w)
      BY <1>4, <1>5, <1>7, <1>9
    <3>3. p \in Seq(Unit) /\ IsPart(p, r, k, n - k) /\ q \in Seq(Unit) /\ IsPart(q, w, k, n - k)
      BY <1>9, <3>1, <3>2, PartOf
    <3>4. ASSUME NEW i \in 1..(n - k) PROVE p[i] = q[i]
      <4>1. p[i] = r[k + i] /\ q[i] = w[k + i]
        BY <3>3, <3>4 DEF IsPart
      <4>2. k + i \in 1..m.cut /\ 0 + (k + i) = k + i
        BY <1>4, <1>7, <1>9
      <4>3. r[k + i] = w[k + i]
        BY <1>5, <4>2 DEF IsPart
      <4> QED
        BY <4>1, <4>3
    <3>5. p = q
      BY <3>3, <3>4, SeqEqual DEF IsPart
    <3> QED
      BY <1>5, <3>1, <3>5
  <2>2. PICK b : b = SubSeq(w, k + 1, n)
    OBVIOUS
  <2>3. carried' = Rec(k, b, FALSE, FALSE)
    <3>1. PICK p : p = Parsed(k)
      OBVIOUS
    <3>2. FALSE \in BOOLEAN
      OBVIOUS
    <3>3. Filled(p, b) = Rec(k, b, FALSE, FALSE)
      BY <3>1, <3>2, ParsedIs, Zenon
    <3>4. carried' = Filled(p, b)
      BY <1>13, <2>1, <2>2, <3>1, Zenon DEF Filled
    <3> QED
      BY <3>3, <3>4
  <2>4. GotHead' = k /\ GotBody' = b
    <3>1. way' \in {"plain_request"}
      BY <1>2 DEF Request
    <3>2. GotBody' = SubSeq(w, k + 1, n)
      BY <1>1, <1>2, <1>3, <1>10, <1>11, <3>1 DEF GotBody, Wire, HeadUnits, Payload, InChunks,
                                               Units, ChunkUnits, LastChunk
    <3> QED
      BY <1>11, <2>2, <3>1, <3>2 DEF GotHead
  <2>5. Streams' = FALSE
    BY <1>2 DEF Streams
  <2>6. (Streams /\ StreamBroken)' = FALSE
    BY <1>2
  <2>7. Rec(k, b, FALSE, FALSE)' = Rec(k, b, FALSE, FALSE)
    BY <1>1 DEF Rec, Chunked, ContentLength, NoBodyStatus
  <2>8. Got(Streams)' = Rec(k, b, FALSE, FALSE)
    BY <2>4, <2>5, <2>6, <2>7 DEF Got
  <2> QED
    BY <1>2, <1>12, <1>13, <2>3, <2>8 DEF PathInv
<1>14. CASE stage' = "refused"
  BY <1>2, <1>14 DEF PathInv
<1>15. CASE k = 1 /\ stage' = "dropped"
  <2>1. n = 1
    BY <1>7, <1>8, <1>15 DEF HeadLen
  <2>2. Size(msg)' = Size(msg) /\ Size(msg) >= 3 /\ Size(msg) \in Nat
    BY <1>1, SizesAre DEF Size, Payload, InChunks, Units, ChunkUnits, LastChunk, HeadLen
  <2>3. ~HeldAll'
    BY <1>10, <2>1, <2>2 DEF HeldAll
  <2>4. ~HadAll'
    BY <1>2, <2>3, Zenon DEF HadAll
  <2> QED
    BY <1>2, <1>15, <2>4 DEF PathInv, DropCause
<1> QED
  BY <1>6, <1>8, <1>13, <1>14, <1>15

LEMMA RunChainPath ==
  ASSUME IInv, PathInv, RunChain
  PROVE  PathInv'
<1>1. stage = "chain" /\ UNCHANGED <<msg, rest, read, way, chain, view>>
  BY DEF RunChain
<1>2. Suits(msg, way) /\ Arrived /\ way # "answer" /\ carried = Got(Streams) /\ view.kind = "none"
  BY <1>1 DEF PathInv
<1>3. Arrived' /\ Outcomes' = Outcomes /\ Suits(msg', way') /\ view'.kind = "none"
  BY <1>1, <1>2, ArrivedKeeps
<1>4. way' = "upgrade_reply" => HeadKnown(msg', read')
  BY <1>1 DEF PathInv
<1>5. CASE Handled = {}
  <2>1. stage' \in {"bad_gateway", "dropped"} /\ carried' = carried
    BY <1>5 DEF RunChain
  <2>2. DropCause
    BY <1>2, <1>5, ChainDrops
  <2>3. DropCause'
    BY <1>1, <2>1, <2>2, CauseKeeps
  <2> QED
    BY <1>3, <1>4, <2>1, <2>3 DEF PathInv
<1>6. CASE Handled # {}
  <2>1. stage' = "write" /\ carried' \in Handled
    BY <1>6 DEF RunChain
  <2>2. carried' \in Outcomes
    BY <1>2, <2>1, HandledSame DEF Outcomes
  <2> QED
    BY <1>3, <1>4, <2>1, <2>2 DEF PathInv
<1> QED
  BY <1>5, <1>6

LEMMA WritePath ==
  ASSUME IInv, PathInv, Write
  PROVE  PathInv'
<1>1. /\ stage = "write" /\ stage' = "done" /\ view' = Written
      /\ UNCHANGED <<msg, rest, read, way, chain, carried>>
  BY Zenon DEF Write, Written
<1>2. Suits(msg', way') /\ Arrived' /\ carried' \in Outcomes'
  BY <1>1, ArrivedKeeps DEF PathInv
<1>3. way' = "upgrade_reply" => HeadKnown(msg', read')
  BY <1>1 DEF PathInv
<1>4. Written' = Written
  <2>1. ByHyperServer' = ByHyperServer /\ ByHyperClient' = ByHyperClient
        /\ \A b : AsWritten(b)' = AsWritten(b)
    BY <1>1 DEF ByHyperServer, ByHyperClient, AsWritten, Whole, Short, Garbled
  <2>2. Serialized' = Serialized
    BY <1>1, <2>1 DEF Serialized
  <2> QED
    BY <1>1, <2>1, <2>2, Zenon DEF Written
<1> QED
  BY <1>1, <1>2, <1>3, <1>4 DEF PathInv

LEMMA PathStep ==
  ASSUME IInv, PathInv, [Next]_vars
  PROVE  PathInv'
<1>1. CASE UNCHANGED vars
  <2>1. UNCHANGED <<msg, rest, read, way, chain, stage, carried, view>>
    BY <1>1 DEF vars
  <2>2. (Arrived' <=> Arrived) /\ Outcomes' = Outcomes /\ (Request' <=> Request)
        /\ (DropCause' <=> DropCause) /\ Got(Streams)' = Got(Streams)
    BY <2>1, ArrivedKeeps, CauseKeeps
  <2>3. Written' = Written
    <3>1. ByHyperServer' = ByHyperServer /\ ByHyperClient' = ByHyperClient
          /\ \A b : AsWritten(b)' = AsWritten(b)
      BY <2>1 DEF ByHyperServer, ByHyperClient, AsWritten, Whole, Short, Garbled
    <3>2. Serialized' = Serialized
      BY <2>1, <3>1 DEF Serialized
    <3> QED
      BY <2>1, <3>1, <3>2, Zenon DEF Written
  <2>4. Wire(msg)' = Wire(msg)
    BY <2>1 DEF Wire, HeadUnits, Payload, InChunks, Units, ChunkUnits, LastChunk
  <2> QED
    BY <2>1, <2>2, <2>3, <2>4 DEF PathInv
<1> QED
  BY <1>1, ReadReplyPath, ParseReplyPath, ReceiveStreamPath, HandlerAnswersPath, FirstReadPath,
     ReadNothingPath, RunChainPath, WritePath DEF Next

LEMMA PathAlways == Spec => [](IInv /\ PathInv)
<1>1. Init => IInv /\ PathInv
  BY InitInvariant, PathInit
<1>2. IInv /\ PathInv /\ [Next]_vars => (IInv /\ PathInv)'
  BY StepInvariant, PathStep
<1> QED
  BY <1>1, <1>2, PTL DEF Spec

LEMMA WholeIsDone ==
  ASSUME PathInv, view.kind = "whole"
  PROVE  stage = "done"
BY DEF PathInv

\* A receiver that takes a whole message has the content its sender meant, for messages
\* of any length and with any encodings, however they are cut (decode_response,
\* encode_body); all but a plain request in chunks (parse_raw_request).
THEOREM ContentAlways == Spec => []ContentKept
<1>1. IInv /\ PathInv => ContentKept
  BY WholeIsDone, DoneSound DEF Sound, ContentKept
<1> QED
  BY <1>1, PathAlways, PTL

\* If it takes something else for the message, that has one of the causes listed
\* (read_full_response, handle_client, parse_raw_request, decode_body).
THEOREM DamageAlways == Spec => []SilentDamageExplained
<1>1. IInv /\ PathInv => SilentDamageExplained
  <2> SUFFICES ASSUME IInv, PathInv, view.kind = "whole", ~Intact
               PROVE  Explained
    BY DEF SilentDamageExplained, Explained, AllLenient, TokensOf, Tokens
  <2> QED
    BY WholeIsDone, DoneSound DEF Sound
<1> QED
  BY <1>1, PathAlways, PTL

\* What the proxy had whole its receiver can read (strip_encoding_headers), but for
\* the replies that Readable names (write_body_to_stream).
THEOREM ReadableAlways == Spec => []Readable
<1>1. IInv /\ PathInv => Readable
  BY DoneSound DEF Sound, Readable, Unreadable
<1> QED
  BY <1>1, PathAlways, PTL

\* An exchange ends without its message only for one of the causes listed
\* (parse_raw_response, decode_request, decode_response, encode_body).
THEOREM DropsAlways == Spec => []DropsExplained
<1>1. IInv /\ PathInv => DropsExplained
  BY DEF PathInv, DropCause, DropsExplained
<1> QED
  BY <1>1, PathAlways, PTL
============================================================================
