-------------------------- MODULE LeafCacheProofs --------------------------
(***************************************************************************)
(* Theorems about LeafCache, for any number of tasks and hosts: types, what*)
(* a call may return, how many leaves a host can cost, and when an entry   *)
(* may change.                                                             *)
(***************************************************************************)
EXTENDS LeafCache, FiniteSetTheorems, TLAPS

\* Leaf i was forged for host h.
For(i, h) == i \in Forged /\ forged[i] = h

\* The leaves of a host, and the tasks that are about to forge or to insert one.
Leaves(h) == {i \in Forged : forged[i] = h}
At(pc, h) == {t \in Task : task[t].pc = pc /\ task[t].host = h}

\* Entries, and what a task holds, belong to their host; while a call is under way
\* the current entry of its host is one it has been shown.
Owned ==
  /\ \A h \in Host : cache[h] # None => For(cache[h], h)
  /\ \A t \in Task : task[t].pc \in {"insert", "done"} => For(task[t].leaf, task[t].host)
Witnessed ==
  \A t \in Task :
    /\ task[t].pc \in {"lookup", "forge", "insert"} => cache[task[t].host] \in shown[t]
    /\ task[t].pc = "done" => task[t].leaf \in shown[t]

\* As long as a host has no entry, whoever forged for it is about to insert; a task
\* about to forge has not forged for that host yet, and after an entry is there
\* nobody starts to.
Bounded ==
  \A h \in Host :
    /\ cache[h] = None => Cardinality(Leaves(h)) <= Cardinality(At("insert", h))
    /\ Cardinality(Leaves(h)) <= Cardinality(Task \ At("forge", h))

IInv == TypeOK /\ Owned /\ Witnessed /\ Bounded
----------------------------------------------------------------------------
\* The leaves are numbered 1..n, so they can be counted.
LEMMA Numbered ==
  ASSUME TypeOK
  PROVE  /\ IsFiniteSet(Forged)
         /\ Cardinality(Forged) \in Nat
         /\ Forged = 1..Cardinality(Forged)
         /\ forged \in [Forged -> Host]
<1>1. PICK n \in 0..MaxForge : forged \in [1..n -> Host]
  BY DEF TypeOK
<1>2. Forged = 1..n /\ n \in Nat
  BY <1>1, LeafAssumption DEF Forged, LeafAssumption
<1>3. IsFiniteSet(1..n) /\ Cardinality(1..n) = n
  BY <1>2, FS_Interval
<1> QED
  BY <1>1, <1>2, <1>3

\* Sets of tasks, and the leaves of a host, are finite.
LEMMA Finite ==
  ASSUME TypeOK, NEW h, NEW T \in SUBSET Task
  PROVE  /\ IsFiniteSet(T) /\ Cardinality(T) \in Nat
         /\ Cardinality(T) <= Cardinality(Task)
         /\ IsFiniteSet(Leaves(h)) /\ Cardinality(Leaves(h)) \in Nat
<1>1. IsFiniteSet(Task)
  BY LeafAssumption DEF LeafAssumption
<1>2. IsFiniteSet(T) /\ Cardinality(T) <= Cardinality(Task)
  BY <1>1, FS_Subset
<1>3. Leaves(h) \in SUBSET Forged
  BY DEF Leaves
<1>4. IsFiniteSet(Leaves(h))
  BY <1>3, Numbered, FS_Subset
<1> QED
  BY <1>2, <1>4, FS_CardinalityType

LEMMA InitInvariant == Init => IInv
<1> SUFFICES ASSUME Init PROVE IInv
  OBVIOUS
<1>1. TypeOK
  <2>1. forged \in [1..0 -> Host] /\ 0 \in 0..MaxForge
    BY LeafAssumption DEF Init, LeafAssumption
  <2> QED
    BY <2>1 DEF Init, TypeOK, None
<1>2. Owned /\ Witnessed
  BY DEF Init, Owned, Witnessed, None
<1>3. Bounded
  <2> SUFFICES ASSUME NEW h \in Host
               PROVE  /\ Cardinality(Leaves(h)) <= Cardinality(At("insert", h))
                      /\ Cardinality(Leaves(h)) <= Cardinality(Task \ At("forge", h))
    BY DEF Bounded
  <2>1. Leaves(h) = {}
    BY DEF Init, Leaves, Forged
  <2>2. Cardinality(Leaves(h)) = 0
    BY <2>1, FS_EmptySet
  <2>3. At("insert", h) \in SUBSET Task /\ Task \ At("forge", h) \in SUBSET Task
    BY DEF At
  <2>4. Cardinality(At("insert", h)) \in Nat
    BY <1>1, <2>3, Finite
  <2>5. Cardinality(Task \ At("forge", h)) \in Nat
    BY <1>1, <2>3, Finite
  <2> QED
    BY <2>2, <2>4, <2>5
<1> QED
  BY <1>1, <1>2, <1>3 DEF IInv
----------------------------------------------------------------------------
\* The four invariants, step by step.

LEMMA CallStep ==
  ASSUME IInv, NEW t \in Task, NEW h \in Host, Call(t, h)
  PROVE  IInv'
<1> USE DEF IInv
<1>1. TypeOK'
  BY DEF TypeOK, Call, None
<1>2. Owned'
  BY DEF TypeOK, Owned, For, Forged, Call
<1>3. Witnessed'
  BY DEF TypeOK, Witnessed, Call
<1>4. Bounded'
  <2>1. \A g \in Host : /\ Leaves(g)' = Leaves(g)
                        /\ At("insert", g)' = At("insert", g)
                        /\ At("forge", g)' = At("forge", g)
    BY DEF TypeOK, Leaves, Forged, At, Call
  <2> QED
    BY <2>1 DEF Bounded, Call
<1> QED
  BY <1>1, <1>2, <1>3, <1>4

LEMMA LookupStep ==
  ASSUME IInv, NEW t \in Task, Lookup(t)
  PROVE  IInv'
<1> USE DEF IInv
<1>1. PICK h \in Host : h = task[t].host /\ cache[h] \in Nat
  BY DEF TypeOK
<1>2. TypeOK'
  BY <1>1 DEF TypeOK, Lookup
<1>3. Owned'
  BY <1>1 DEF TypeOK, Owned, For, Forged, Lookup
<1>4. Witnessed'
  BY <1>1 DEF TypeOK, Witnessed, Lookup
<1>5. Bounded'
  <2>1. ASSUME NEW g \in Host
        PROVE  /\ Leaves(g)' = Leaves(g)
               /\ At("insert", g)' = At("insert", g)
               /\ g # h \/ cache[h] # None => At("forge", g)' = At("forge", g)
               /\ cache[g]' = cache[g]
    BY DEF TypeOK, Leaves, Forged, At, Lookup
  <2>2. ASSUME cache[h] = None
        PROVE  Cardinality(Leaves(h)) <= Cardinality(Task \ At("forge", h)')
    <3>1. At("insert", h) \subseteq Task \ At("forge", h)'
      BY <1>1, <2>1 DEF At
    <3>2. IsFiniteSet(Task \ At("forge", h)')
      BY Finite
    <3>3. Cardinality(At("insert", h)) <= Cardinality(Task \ At("forge", h)')
      BY <3>1, <3>2, FS_Subset
    <3>4. Cardinality(Leaves(h)) <= Cardinality(At("insert", h))
      BY <1>1, <2>2 DEF Bounded
    <3>5. /\ Cardinality(Leaves(h)) \in Nat
          /\ Cardinality(At("insert", h)) \in Nat
      BY Finite DEF At
    <3>6. Cardinality(Task \ At("forge", h)') \in Nat
      BY Finite
    <3> QED
      BY <3>3, <3>4, <3>5, <3>6
  <2> QED
    BY <1>1, <2>1, <2>2 DEF Bounded
<1> QED
  BY <1>2, <1>3, <1>4, <1>5

LEMMA ForgeStep ==
  ASSUME IInv, NEW t \in Task, Forge(t)
  PROVE  IInv'
<1> USE DEF IInv
<1>0. PICK h \in Host, n \in Nat \ {0} :
        h = task[t].host /\ n = Cardinality(Forged) + 1
  <2>1. task[t].host \in Host
    BY DEF TypeOK
  <2>2. Cardinality(Forged) \in Nat
    BY Numbered
  <2>3. Cardinality(Forged) + 1 \in Nat \ {0}
    BY <2>2
  <2> QED
    BY <2>1, <2>3
<1>1. /\ n \notin Forged
      /\ Forged = 1..(n - 1)
      /\ IsFiniteSet(Forged) /\ forged \in [Forged -> Host]
  BY <1>0, Numbered
<1>2. /\ Forged' = Forged \cup {n}
      /\ forged' \in [1..n -> Host]
      /\ forged'[n] = h
      /\ \A i \in Forged : forged'[i] = forged[i]
  <2>1. forged' = [i \in 1..n |-> IF i = n THEN h ELSE forged[i]]
    BY <1>0 DEF Forge
  <2>2. 1..n = 1..(n - 1) \cup {n} /\ n \in 1..n
    BY <1>1
  <2>3. Forged' = 1..n
    BY <2>1 DEF Forged
  <2> QED
    BY <1>1, <2>1, <2>2, <2>3
<1>3. /\ task' = [task EXCEPT ![t].pc = "insert", ![t].leaf = n]
      /\ task[t].pc = "forge" /\ n \in 0..MaxForge
      /\ cache' = cache /\ shown' = shown
  BY <1>0, LeafAssumption DEF Forge, LeafAssumption
<1>4. TypeOK'
  BY <1>1, <1>2, <1>3 DEF TypeOK
<1>5. Owned'
  <2>1. \A i, g : For(i, g) => For(i, g)'
    BY <1>2 DEF For
  <2>2. For(n, h)'
    BY <1>2 DEF For
  <2>3. ASSUME NEW u \in Task, task'[u].pc \in {"insert", "done"}
        PROVE  For(task[u].leaf, task[u].host)'
    <3>1. CASE u = t
      <4>1. task'[u].leaf = n /\ task'[u].host = h
        BY <1>0, <1>3, <3>1 DEF TypeOK
      <4> QED
        BY <4>1, <2>2 DEF For
    <3>2. CASE u # t
      <4>1. task'[u] = task[u]
        BY <1>3, <3>2 DEF TypeOK
      <4>2. For(task[u].leaf, task[u].host)
        BY <4>1, <2>3 DEF Owned
      <4> QED
        BY <4>1, <4>2, <2>1 DEF For
    <3> QED
      BY <3>1, <3>2
  <2>4. ASSUME NEW g \in Host, cache'[g] # None PROVE For(cache[g], g)'
    BY <1>3, <2>1, <2>4 DEF Owned, For
  <2> QED
    BY <2>3, <2>4 DEF Owned
<1>6. Witnessed'
  BY <1>3 DEF TypeOK, Witnessed
<1>7. Bounded'
  <2>1. ASSUME NEW g \in Host, g # h
        PROVE  /\ Leaves(g)' = Leaves(g)
               /\ At("insert", g)' = At("insert", g)
               /\ At("forge", g)' = At("forge", g)
    <3>1. Leaves(g)' = Leaves(g)
      BY <1>1, <1>2, <2>1 DEF Leaves
    <3> QED
      BY <1>0, <1>3, <2>1, <3>1 DEF At, TypeOK
  <2>2. /\ Leaves(h)' = Leaves(h) \cup {n} /\ n \notin Leaves(h)
        /\ At("insert", h)' = At("insert", h) \cup {t} /\ t \notin At("insert", h)
        /\ Task \ At("forge", h)' = (Task \ At("forge", h)) \cup {t}
        /\ t \notin Task \ At("forge", h)
    <3>1. Leaves(h)' = Leaves(h) \cup {n} /\ n \notin Leaves(h)
      BY <1>1, <1>2 DEF Leaves
    <3>2. \A u \in Task : u # t => task'[u] = task[u]
      BY <1>3 DEF TypeOK
    <3>3. task'[t].pc = "insert" /\ task'[t].host = h /\ task[t].host = h
      BY <1>0, <1>3 DEF TypeOK
    <3> QED
      BY <1>3, <3>1, <3>2, <3>3 DEF At
  <2>3. /\ IsFiniteSet(Leaves(h)) /\ Cardinality(Leaves(h)) \in Nat
        /\ IsFiniteSet(At("insert", h)) /\ Cardinality(At("insert", h)) \in Nat
    BY Finite DEF At
  <2>4. /\ IsFiniteSet(Task \ At("forge", h))
        /\ Cardinality(Task \ At("forge", h)) \in Nat
    BY Finite
  <2>5. Cardinality(Leaves(h)') = Cardinality(Leaves(h)) + 1
    BY <2>2, <2>3, FS_AddElement
  <2>6. Cardinality(At("insert", h)') = Cardinality(At("insert", h)) + 1
    BY <2>2, <2>3, FS_AddElement
  <2>7. Cardinality(Task \ At("forge", h)') = Cardinality(Task \ At("forge", h)) + 1
    BY <2>2, <2>4, FS_AddElement
  <2>8. /\ cache[h] = None => Cardinality(Leaves(h)') <= Cardinality(At("insert", h)')
        /\ Cardinality(Leaves(h)') <= Cardinality(Task \ At("forge", h)')
    BY <1>1, <2>3, <2>4, <2>5, <2>6, <2>7 DEF Bounded
  <2> QED
    BY <1>3, <2>1, <2>8 DEF Bounded
<1> QED
  BY <1>4, <1>5, <1>6, <1>7

\* A forging that panics leaves one task less about to forge.
LEMMA PanicStep ==
  ASSUME IInv, NEW t \in Task, ForgePanics(t)
  PROVE  IInv'
<1> USE DEF IInv
<1>1. TypeOK'
  BY DEF TypeOK, ForgePanics
<1>2. Owned'
  BY DEF TypeOK, Owned, For, Forged, ForgePanics
<1>3. Witnessed'
  BY DEF TypeOK, Witnessed, ForgePanics
<1>4. Bounded'
  <2> SUFFICES ASSUME NEW h \in Host
               PROVE  /\ cache'[h] = None =>
                           Cardinality(Leaves(h)') <= Cardinality(At("insert", h)')
                      /\ Cardinality(Leaves(h)') <= Cardinality(Task \ At("forge", h)')
    BY DEF Bounded
  <2>1. /\ Leaves(h)' = Leaves(h) /\ cache' = cache
        /\ At("insert", h)' = At("insert", h)
        /\ Task \ At("forge", h) \subseteq Task \ At("forge", h)'
    BY DEF TypeOK, Leaves, Forged, At, ForgePanics
  <2>2. IsFiniteSet(Task \ At("forge", h)') /\ Cardinality(Task \ At("forge", h)') \in Nat
    BY Finite
  <2>3. Cardinality(Task \ At("forge", h)) <= Cardinality(Task \ At("forge", h)')
    BY <2>1, <2>2, FS_Subset
  <2>4. Cardinality(Leaves(h)) \in Nat /\ Cardinality(Task \ At("forge", h)) \in Nat
    BY Finite
  <2> QED
    BY <2>1, <2>2, <2>3, <2>4 DEF Bounded
<1> QED
  BY <1>1, <1>2, <1>3, <1>4

LEMMA InsertStep ==
  ASSUME IInv, NEW t \in Task, Insert(t)
  PROVE  IInv'
<1> USE DEF IInv
<1>0. PICK h \in Host, leaf \in Nat : h = task[t].host /\ leaf = task[t].leaf
  BY DEF TypeOK
<1>1. /\ task[t].pc = "insert" /\ For(leaf, h)
      /\ cache' = [cache EXCEPT ![h] = leaf]
      /\ task' = [task EXCEPT ![t].pc = "done"]
      /\ shown' = [u \in Task |-> IF task[u].host = h THEN shown[u] \cup {leaf} ELSE shown[u]]
      /\ forged' = forged
  BY <1>0 DEF Owned, Insert
<1>2. leaf # None
  BY <1>1, Numbered DEF For, None
<1>3. TypeOK'
  BY <1>0, <1>1 DEF TypeOK
<1>4. Owned'
  BY <1>0, <1>1 DEF TypeOK, Owned, For, Forged
<1>5. Witnessed'
  BY <1>0, <1>1 DEF TypeOK, Witnessed
<1>6. Bounded'
  <2>1. ASSUME NEW g \in Host
        PROVE  /\ Leaves(g)' = Leaves(g)
               /\ At("forge", g)' = At("forge", g)
               /\ g # h => At("insert", g)' = At("insert", g) /\ cache'[g] = cache[g]
               /\ cache'[h] # None
    BY <1>0, <1>1, <1>2 DEF TypeOK, Leaves, Forged, At
  <2> QED
    BY <2>1 DEF Bounded
<1> QED
  BY <1>3, <1>4, <1>5, <1>6

LEMMA ReturnStep ==
  ASSUME IInv, NEW t \in Task, Return(t)
  PROVE  IInv'
<1> USE DEF IInv
<1>1. TypeOK'
  BY DEF TypeOK, Return
<1>2. Owned'
  BY DEF TypeOK, Owned, For, Forged, Return
<1>3. Witnessed'
  BY DEF TypeOK, Witnessed, Return
<1>4. Bounded'
  <2>1. \A g \in Host : /\ Leaves(g)' = Leaves(g)
                        /\ At("insert", g)' = At("insert", g)
                        /\ At("forge", g)' = At("forge", g)
    BY DEF TypeOK, Leaves, Forged, At, Return
  <2> QED
    BY <2>1 DEF Bounded, Return
<1> QED
  BY <1>1, <1>2, <1>3, <1>4

LEMMA StepInvariant == IInv /\ [Next]_vars => IInv'
<1> SUFFICES ASSUME IInv, [Next]_vars PROVE IInv'
  OBVIOUS
<1>1. CASE UNCHANGED vars
  BY <1>1 DEF IInv, vars, TypeOK, Owned, Witnessed, Bounded, For, Forged, Leaves, At
<1>2. ASSUME NEW t \in Task, Step(t) PROVE IInv'
  BY <1>2, LookupStep, ForgeStep, PanicStep, InsertStep DEF Step
<1>3. ASSUME NEW t \in Task, Return(t) PROVE IInv'
  BY <1>3, ReturnStep
<1>4. ASSUME NEW t \in Task, NEW h \in Host, Call(t, h) PROVE IInv'
  BY <1>4, CallStep
<1> QED
  BY <1>1, <1>2, <1>3, <1>4 DEF Next

LEMMA Invariance == Spec => []IInv
<1>1. Init => IInv
  BY InitInvariant
<1>2. IInv /\ [Next]_vars => IInv'
  BY StepInvariant
<1> QED
  BY <1>1, <1>2, PTL DEF Spec
----------------------------------------------------------------------------
\* The cache and the calls of forge_certificate keep their types.
THEOREM TypesAlways == Spec => []TypeOK
<1>1. IInv => TypeOK
  BY DEF IInv
<1> QED
  BY <1>1, Invariance, PTL

\* forge_certificate returns a leaf for the host it was asked for, which was the
\* cache's entry at a moment of the call.
THEOREM ServedAlways == Spec => []ServedWasCurrent
<1>1. IInv => ServedWasCurrent
  BY DEF IInv, Owned, Witnessed, For, ServedWasCurrent
<1> QED
  BY <1>1, Invariance, PTL

\* However many connections to a host miss the cache at once, and whenever, it costs
\* no more leaves than there are tasks.
THEOREM StampedeAlways == Spec => []StampedeBounded
<1>1. IInv => StampedeBounded
  <2> SUFFICES ASSUME IInv, NEW h \in Host
               PROVE  Cardinality(Leaves(h)) <= Cardinality(Task)
    BY DEF StampedeBounded, Leaves
  <2>1. Cardinality(Leaves(h)) <= Cardinality(Task \ At("forge", h))
    BY DEF IInv, Bounded
  <2>2. /\ Cardinality(Task \ At("forge", h)) <= Cardinality(Task)
        /\ Cardinality(Task \ At("forge", h)) \in Nat
        /\ Cardinality(Leaves(h)) \in Nat
    BY Finite DEF IInv
  <2>3. Cardinality(Task) \in Nat
    BY Finite DEF IInv
  <2> QED
    BY <2>1, <2>2, <2>3
<1> QED
  BY <1>1, Invariance, PTL
============================================================================
