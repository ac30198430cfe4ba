---------------------------- MODULE DataInduction ----------------------------
(***************************************************************************)
(* Induction and recursion on the natural numbers, as facts about sets and *)
(* functions: what the proofs need wherever the model walks a sequence from*)
(* one end to the other.  Both follow from the well-foundedness of <.      *)
(***************************************************************************)
EXTENDS Integers, SequencesExt, SequenceTheorems, WellFoundedInduction, TLAPS

Below == {p \in Nat \X Nat : p[1] < p[2]}

\* A set of natural numbers that is not empty has a least element.
LEMMA LeastNumber ==
  ASSUME NEW T \in SUBSET Nat, T # {}
  PROVE  \E x \in T : \A y \in T : ~(y < x)
<1>1. IsWellFoundedOn(Below, Nat)
  BY NatLessThanWellFounded DEF OpToRel, Below
<1>2. \E x \in T : \A y \in T : ~(<<y, x>> \in Below)
  BY <1>1, WFMin
<1>3. \A x \in T, y \in T : y < x => <<y, x>> \in Below
  BY DEF Below
<1> QED
  BY <1>2, <1>3

\* Induction: a set with 0 and the successor of each of its numbers below n has all
\* of 0..n.
LEMMA InductionUpTo ==
  ASSUME NEW n \in Nat, NEW T, 0 \in T, \A i \in 0..(n - 1) : i \in T => i + 1 \in T
  PROVE  \A i \in 0..n : i \in T
<1> SUFFICES ASSUME (0..n) \ T # {} PROVE FALSE
  OBVIOUS
<1>1. PICK x \in (0..n) \ T : \A y \in (0..n) \ T : ~(y < x)
  <2>1. (0..n) \ T \in SUBSET Nat
    OBVIOUS
  <2> QED
    BY <2>1, LeastNumber
<1>2. x # 0 /\ x - 1 \in 0..(n - 1) /\ x - 1 < x /\ (x - 1) + 1 = x
  BY <1>1
<1>3. x - 1 \in T
  BY <1>1, <1>2
<1> QED
  BY <1>1, <1>2, <1>3

\* Recursion: steps on a set S determine the values from 0 to n.
LEMMA RecursionUpTo ==
  ASSUME NEW S, NEW base \in S, NEW n \in Nat, NEW step \in [1..n -> [S -> S]]
  PROVE  \E f \in [0..n -> S] : f[0] = base /\ \A i \in 1..n : f[i] = step[i][f[i - 1]]
<1> DEFINE Solves(g, m) == /\ g \in [0..m -> S] /\ g[0] = base
                           /\ \A i \in 1..m : g[i] = step[i][g[i - 1]]
           T == {m \in 0..n : \E g \in [0..m -> S] : Solves(g, m)}
<1>1. 0 \in T
  <2>1. Solves([i \in 0..0 |-> base], 0)
    OBVIOUS
  <2>2. \E g \in [0..0 -> S] : Solves(g, 0)
    BY <2>1
  <2> HIDE DEF Solves
  <2> QED
    BY <2>2
<1>2. \A m \in 0..(n - 1) : m \in T => m + 1 \in T
  <2> TAKE m \in 0..(n - 1)
  <2> HAVE m \in T
  <2>1. PICK g \in [0..m -> S] : Solves(g, m)
    OBVIOUS
  <2> DEFINE h == [i \in 0..(m + 1) |-> IF i <= m THEN g[i] ELSE step[m + 1][g[m]]]
  <2>2. g[m] \in S /\ step[m + 1] \in [S -> S]
    OBVIOUS
  <2>3. h \in [0..(m + 1) -> S]
    BY <2>2
  <2>4. \A i \in 0..m : h[i] = g[i]
    OBVIOUS
  <2>5. h[m + 1] = step[m + 1][g[m]] /\ h[m] = g[m]
    OBVIOUS
  <2>6. \A i \in 1..(m + 1) : h[i] = step[i][h[i - 1]]
    <3> TAKE i \in 1..(m + 1)
    <3>1. CASE i = m + 1
      <4>1. i - 1 = m
        BY <3>1
      <4> QED
        BY <3>1, <4>1, <2>5
    <3>2. CASE i # m + 1
      <4>1. i \in 1..m /\ i \in 0..m /\ i - 1 \in 0..m
        BY <3>2
      <4> QED
        BY <4>1, <2>1, <2>4
    <3> QED
      BY <3>1, <3>2
  <2>7. h[0] = base
    BY <2>1, <2>4
  <2>8. Solves(h, m + 1) /\ m + 1 \in 0..n
    <3>1. m + 1 \in 0..n
      OBVIOUS
    <3> HIDE DEF h, T
    <3>2. Solves(h, m + 1)
      BY <2>3, <2>6, <2>7
    <3> QED
      BY <3>1, <3>2
  <2>9. \E f \in [0..(m + 1) -> S] : Solves(f, m + 1)
    <3> HIDE DEF Solves, h
    <3> QED
      BY <2>3, <2>8
  <2> HIDE DEF Solves
  <2> QED
    BY <2>8, <2>9
<1>3. \A m \in 0..n : m \in T
  <2> HIDE DEF T
  <2> QED
    BY <1>1, <1>2, InductionUpTo
<1>4. \E f \in [0..n -> S] : Solves(f, n)
  <2> HIDE DEF Solves
  <2> QED
    BY <1>3
<1> QED
  BY <1>4

\* The same with names for its hypothesis and its conclusion.
Stepping(S, n) == [1..n -> [S -> S]]
Recurses(f, base, n, step) == f[0] = base /\ \A i \in 1..n : f[i] = step[i][f[i - 1]]

LEMMA RecursionFrom ==
  ASSUME NEW S, NEW base \in S, NEW n \in Nat, NEW step \in Stepping(S, n)
  PROVE  \E f \in [0..n -> S] : Recurses(f, base, n, step)
<1>1. \E f \in [0..n -> S] : f[0] = base /\ \A i \in 1..n : f[i] = step[i][f[i - 1]]
  <2> USE DEF Stepping
  <2> QED
    BY RecursionUpTo
<1> QED
  BY <1>1 DEF Recurses
----------------------------------------------------------------------------
(* FlattenSeq of SequencesExt, sequence by sequence.                       *)

Joins(f, s) == /\ f[0] = <<>>
               /\ \A i \in 1..Len(s) : f[i] = f[i - 1] \o s[i]

\* FlattenSeq joins the sequences one after the other.
LEMMA FlattenSteps ==
  ASSUME NEW S, NEW s \in Seq(Seq(S))
  PROVE  \E f \in [0..Len(s) -> Seq(S)] : Joins(f, s) /\ FlattenSeq(s) = f[Len(s)]
<1> DEFINE n == Len(s)
           T == Seq(S)
<1>n. n \in Nat
  OBVIOUS
<1>0. \A i \in 1..n : s[i] \in T
  OBVIOUS
<1>1. \A x, y \in T : x \o y \in T
  BY ConcatProperties
<1>2. <<>> \in T
  BY EmptySeq
<1>3. PICK f \in [0..n -> T] : Joins(f, s)
  <2> DEFINE step == [i \in 1..n |-> [x \in T |-> x \o s[i]]]
  <2> HIDE DEF T
  <2>1. step \in [1..n -> [T -> T]]
    BY <1>0, <1>1
  <2>2. \A i \in 1..n : \A x \in T : step[i][x] = x \o s[i]
    OBVIOUS
  <2> HIDE DEF step, n
  <2>3. step \in Stepping(T, n)
    BY <2>1 DEF Stepping
  <2>4. PICK f \in [0..n -> T] : Recurses(f, <<>>, n, step)
    BY <1>n, <1>2, <2>3, RecursionFrom
  <2>5. f[0] = <<>> /\ \A i \in 1..n : f[i] = step[i][f[i - 1]]
    BY <2>4 DEF Recurses
  <2>6. \A i \in 1..n : f[i - 1] \in T
    BY <1>n, <2>4
  <2>7. \A i \in 1..n : f[i] = f[i - 1] \o s[i]
    BY <2>2, <2>5, <2>6
  <2>8. Joins(f, s)
    BY <2>5, <2>7 DEF Joins, n
  <2> QED
    BY <2>4, <2>8
<1>4. f[0] = <<>> /\ \A i \in 1..n : f[i] = f[i - 1] \o s[i]
  BY <1>3 DEF Joins
<1>5. Joins(f, s)
  BY <1>3
<1>6. CASE n = 0
  <2>1. s = <<>> /\ FlattenSeq(s) = s
    BY <1>6 DEF FlattenSeq
  <2> QED
    BY <1>3, <1>4, <1>6, <2>1
<1>7. CASE n # 0
  <2> DEFINE Flattens(g) == g = [i \in 1..n |-> IF i = 1 THEN s[i] ELSE g[i - 1] \o s[i]]
             c == CHOOSE g : Flattens(g)
             d == [i \in 1..n |-> f[i]]
  <2>1. f[1] = s[1] /\ 1 \in 1..n
    <3> HIDE DEF n, T
    <3>0. 1 \in 1..n /\ 1 - 1 = 0
      BY <1>n, <1>7
    <3>2. f[1] = f[0] \o s[1]
      BY <1>4, <3>0
    <3>1. 1 \in 1..n /\ f[1] = <<>> \o s[1] /\ s[1] \in Seq(S)
      BY <1>0, <1>4, <3>0, <3>2 DEF T
    <3> QED
      BY <3>1, ConcatEmptySeq
  <2>2. Flattens(d)
    <3> SUFFICES ASSUME NEW i \in 1..n
                 PROVE  f[i] = IF i = 1 THEN s[i] ELSE d[i - 1] \o s[i]
      BY Zenon DEF Flattens, d
    <3>1. CASE i = 1
      BY <2>1, <3>1
    <3>2. CASE i # 1
      <4>1. i - 1 \in 1..n
        BY <1>n, <3>2
      <4> QED
        BY <1>4, <3>2, <4>1
    <3> QED
      BY <3>1, <3>2
  <2>3. Flattens(c)
    <3> HIDE DEF Flattens, d
    <3> QED
      BY <2>2
  <2>4. FlattenSeq(s) = c[n]
    BY <1>7 DEF FlattenSeq, Flattens
  <2>5. \A i \in 1..n : c[i] = IF i = 1 THEN s[i] ELSE c[i - 1] \o s[i]
    <3> HIDE DEF c
    <3>1. c = [i \in 1..n |-> IF i = 1 THEN s[i] ELSE c[i - 1] \o s[i]]
      BY <2>3 DEF Flattens
    <3> QED
      BY <3>1
  <2> DEFINE U == {i \in 0..n : i = 0 \/ c[i] = f[i]}
  <2>6. 0 \in U
    BY <1>n
  <2>7. ASSUME NEW i \in 0..(n - 1), i \in U PROVE i + 1 \in U
    <3> HIDE DEF c, n
    <3>0. i + 1 \in 1..n /\ (i + 1) - 1 = i /\ i \in Nat
      BY <1>n
    <3>1. CASE i = 0
      <4>1. c[1] = s[1]
        BY <2>1, <2>5
      <4>2. i + 1 = 1
        BY <3>1
      <4>3. c[i + 1] = f[i + 1]
        BY <2>1, <4>1, <4>2
      <4> QED
        BY <3>0, <4>3
    <3>2. CASE i # 0
      <4>0. i + 1 # 1
        BY <3>0, <3>2
      <4>1. c[i + 1] = c[i] \o s[i + 1]
        BY <2>5, <3>0, <4>0
      <4>2. f[i + 1] = f[i] \o s[i + 1]
        BY <1>4, <3>0
      <4>3. c[i] = f[i]
        BY <2>7, <3>2
      <4>4. c[i + 1] = f[i + 1]
        BY <4>1, <4>2, <4>3
      <4>5. i + 1 \in 0..n
        BY <1>n, <3>0
      <4> QED
        BY <4>4, <4>5
    <3> QED
      BY <3>1, <3>2
  <2>8. \A i \in 0..n : i \in U
    <3> HIDE DEF U, n
    <3> QED
      BY <1>n, <2>6, <2>7, InductionUpTo
  <2>9. c[n] = f[n]
    <3> HIDE DEF c, n
    <3> QED
      BY <1>n, <1>7, <2>8
  <2> QED
    BY <1>3, <1>5, <2>4, <2>9
<1> QED
  BY <1>6, <1>7

\* The values of such a function are determined as far as the sequences agree.
LEMMA JoinsAgree ==
  ASSUME NEW s, NEW t, Len(s) \in Nat, Len(t) \in Nat, NEW f, NEW g, Joins(f, s), Joins(g, t),
         NEW m \in 0..Len(s), m <= Len(t), \A i \in 1..m : s[i] = t[i]
  PROVE  \A i \in 0..m : f[i] = g[i]
<1> DEFINE U == {i \in 0..m : f[i] = g[i]}
<1>1. 0 \in U
  BY DEF Joins
<1>2. ASSUME NEW i \in 0..(m - 1), i \in U PROVE i + 1 \in U
  <2>1. i + 1 \in 1..m /\ (i + 1) - 1 = i /\ i + 1 \in 1..Len(s) /\ i + 1 \in 1..Len(t)
    OBVIOUS
  <2>2. f[i + 1] = f[i] \o s[i + 1] /\ g[i + 1] = g[i] \o t[i + 1]
    BY <2>1 DEF Joins
  <2>3. f[i + 1] = g[i + 1]
    BY <1>2, <2>1, <2>2
  <2> QED
    BY <2>1, <2>3
<1>3. \A i \in 0..m : i \in U
  <2> HIDE DEF U
  <2>1. m \in Nat
    OBVIOUS
  <2> QED
    BY <1>1, <1>2, <2>1, InductionUpTo
<1> QED
  BY <1>3

\* One sequence more.
Longer(s, t, e) == /\ Len(s) \in Nat /\ Len(t) = Len(s) + 1 /\ t[Len(s) + 1] = e
                   /\ \A i \in 1..Len(s) : t[i] = s[i]

LEMMA JoinsMore ==
  ASSUME NEW s, NEW t, NEW e, Longer(s, t, e), NEW f, NEW g, Joins(f, s), Joins(g, t)
  PROVE  g[Len(t)] = f[Len(s)] \o e
<1> USE DEF Longer
<1>1. f[Len(s)] = g[Len(s)]
  <2>1. Len(s) \in 0..Len(s) /\ Len(s) <= Len(t) /\ Len(t) \in Nat
    OBVIOUS
  <2> QED
    BY <2>1, JoinsAgree
<1>2. Len(t) \in 1..Len(t) /\ Len(t) - 1 = Len(s)
  OBVIOUS
<1> QED
  BY <1>1, <1>2 DEF Joins

\* What FlattenSeq makes of no sequence, and of one more.
LEMMA FlattenAppend ==
  ASSUME NEW S, NEW s \in Seq(Seq(S)), NEW e \in Seq(S)
  PROVE  /\ FlattenSeq(s) \in Seq(S)
         /\ Len(s) = 0 => FlattenSeq(s) = <<>>
         /\ FlattenSeq(Append(s, e)) = FlattenSeq(s) \o e
<1> DEFINE T == Seq(S)
           Ends(q, f) == Joins(f, q) /\ FlattenSeq(q) = f[Len(q)]
<1>1. \A q \in Seq(T) : \E f \in [0..Len(q) -> T] : Ends(q, f)
  BY FlattenSteps
<1>2. s \in Seq(T) /\ e \in T
  OBVIOUS
<1> SUFFICES ASSUME NEW r, NEW d, r \in Seq(T), d \in T
             PROVE  /\ FlattenSeq(r) \in T
                    /\ Len(r) = 0 => FlattenSeq(r) = <<>>
                    /\ FlattenSeq(Append(r, d)) = FlattenSeq(r) \o d
  BY <1>2
<1> HIDE <1>2
<1> HIDE DEF T
<1>3. PICK t \in Seq(T) : t = Append(r, d)
  BY AppendProperties
<1>4. /\ Len(r) \in Nat /\ Len(t) = Len(r) + 1 /\ t[Len(r) + 1] = d
      /\ \A i \in 1..Len(r) : t[i] = r[i]
  BY <1>3, AppendProperties, LenProperties
<1>5. PICK f \in [0..Len(r) -> T] : Ends(r, f)
  BY <1>1
<1>6. PICK g \in [0..Len(t) -> T] : Ends(t, g)
  BY <1>1
<1>7. g[Len(t)] = f[Len(r)] \o d
  <2>1. Joins(f, r) /\ Joins(g, t)
    BY <1>5, <1>6
  <2>2. Longer(r, t, d)
    BY <1>4 DEF Longer
  <2> HIDE DEF Ends
  <2> QED
    BY <2>1, <2>2, JoinsMore
<1>8. FlattenSeq(r) \in T
  <2>1. FlattenSeq(r) = f[Len(r)] /\ Len(r) \in 0..Len(r)
    BY <1>4, <1>5
  <2> QED
    BY <2>1
<1>9. Len(r) = 0 => FlattenSeq(r) = <<>>
  BY <1>5 DEF Joins
<1> QED
  BY <1>3, <1>5, <1>6, <1>7, <1>8, <1>9

\* The first k of the sequences joined: from none to all of them, each with one more.
JoinOf(s, k) == FlattenSeq(SubSeq(s, 1, k))

LEMMA JoinOfSteps ==
  ASSUME NEW S, NEW s \in Seq(Seq(S)), NEW k \in 0..Len(s)
  PROVE  /\ JoinOf(s, k) \in Seq(S)
         /\ k = 0 => JoinOf(s, k) = <<>>
         /\ k = Len(s) => JoinOf(s, k) = FlattenSeq(s)
         /\ k < Len(s) => JoinOf(s, k + 1) = JoinOf(s, k) \o s[k + 1]
<1> DEFINE T == Seq(S)
<1>1. Len(s) \in Nat /\ k \in Nat /\ \A i \in 1..Len(s) : s[i] \in T
  OBVIOUS
<1>2. PICK p : p = SubSeq(s, 1, k)
  OBVIOUS
<1>3. p \in Seq(T) /\ Len(p) = k
  <2> HIDE DEF T
  <2>1. \A i \in 1..k : s[i] \in T
    BY <1>1
  <2> QED
    BY <1>1, <1>2, <2>1, SubSeqProperties
<1>4. FlattenSeq(p) \in Seq(S) /\ (k = 0 => FlattenSeq(p) = <<>>)
  <2>1. p \in Seq(Seq(S))
    BY <1>3
  <2>2. <<>> \in Seq(S)
    BY EmptySeq
  <2> QED
    BY <1>3, <2>1, <2>2, FlattenAppend
<1>5. k = Len(s) => p = s
  BY <1>2, SubSeqFull
<1>6. ASSUME k < Len(s) PROVE JoinOf(s, k + 1) = FlattenSeq(p) \o s[k + 1]
  <2>1. k + 1 \in 1..Len(s) /\ s[k + 1] \in T /\ s \in Seq(T)
    BY <1>1, <1>6
  <2>2. SubSeq(s, 1, k + 1) = Append(p, s[k + 1])
    <3> HIDE DEF T
    <3>1. SubSeq(s, 1, k + 1) = SubSeq(s, 1, (k + 1) - 1) \o <<s[k + 1]>>
      BY <1>1, <2>1, SubSeqRecursiveSecond
    <3>2. (k + 1) - 1 = k
      BY <1>1
    <3>3. Append(p, s[k + 1]) = p \o <<s[k + 1]>>
      BY <1>3, <2>1, AppendIsConcat
    <3> QED
      BY <1>2, <3>1, <3>2, <3>3
  <2>3. p \in Seq(Seq(S)) /\ s[k + 1] \in Seq(S)
    BY <1>3, <2>1
  <2>4. FlattenSeq(Append(p, s[k + 1])) = FlattenSeq(p) \o s[k + 1]
    BY <2>3, FlattenAppend
  <2> QED
    BY <2>2, <2>4 DEF JoinOf
<1> QED
  BY <1>2, <1>4, <1>5, <1>6 DEF JoinOf

\* What is joined first stays in its place.
Begins(p, q) == Len(p) <= Len(q) /\ \A i \in 1..Len(p) : q[i] = p[i]

LEMMA JoinOfBegins ==
  ASSUME NEW S, NEW s \in Seq(Seq(S)), NEW k \in 0..Len(s)
  PROVE  \A m \in k..Len(s) : Begins(JoinOf(s, k), JoinOf(s, m))
<1> DEFINE n == Len(s) - k
           U == {m \in 0..n : Begins(JoinOf(s, k), JoinOf(s, k + m))}
<1>1. Len(s) \in Nat /\ k \in Nat /\ n \in Nat
  OBVIOUS
<1>2. \A m \in 0..Len(s) : JoinOf(s, m) \in Seq(S)
  BY JoinOfSteps
<1>3. 0 \in U
  <2>1. Len(JoinOf(s, k)) \in Nat
    BY <1>2
  <2>2. k + 0 = k
    BY <1>1
  <2> QED
    BY <1>1, <2>1, <2>2 DEF Begins
<1>4. ASSUME NEW m \in 0..(n - 1), m \in U PROVE m + 1 \in U
  <2>1. PICK j \in Nat : j = k + m /\ j \in 0..Len(s) /\ j < Len(s) /\ j + 1 = k + (m + 1)
    BY <1>1
  <2>2. JoinOf(s, j + 1) = JoinOf(s, j) \o s[j + 1]
    BY <2>1, JoinOfSteps
  <2>3. JoinOf(s, j) \in Seq(S) /\ s[j + 1] \in Seq(S) /\ JoinOf(s, k) \in Seq(S)
    BY <1>1, <1>2, <2>1
  <2>4. Begins(JoinOf(s, k), JoinOf(s, j))
    BY <1>4, <2>1
  <2>5. Begins(JoinOf(s, k), JoinOf(s, j + 1))
    <3> SUFFICES ASSUME NEW p \in Seq(S), NEW q \in Seq(S), NEW r \in Seq(S), Begins(p, q)
                 PROVE  Begins(p, q \o r)
      BY <2>2, <2>3, <2>4
    <3>1. /\ Len(q \o r) = Len(q) + Len(r) /\ Len(p) \in Nat /\ Len(q) \in Nat
          /\ Len(r) \in Nat
          /\ \A i \in 1..Len(q) : (q \o r)[i] = q[i]
      OBVIOUS
    <3> QED
      BY <3>1 DEF Begins
  <2> QED
    BY <1>1, <2>1, <2>5
<1>5. \A m \in 0..n : m \in U
  <2> HIDE DEF U, n
  <2> QED
    BY <1>1, <1>3, <1>4, InductionUpTo
<1>6. ASSUME NEW m \in k..Len(s) PROVE Begins(JoinOf(s, k), JoinOf(s, m))
  <2>1. m - k \in 0..n /\ k + (m - k) = m
    BY <1>1
  <2> QED
    BY <1>5, <2>1
<1> QED
  BY <1>6
=============================================================================
