----------------------------- MODULE LeafCache -----------------------------
(***************************************************************************)
(* CertificationAuthority::forge_certificate (ca.rs), called at once by the*)
(* tasks of all intercepted connections: look the host up under the read   *)
(* lock, forge outside any lock, insert under the write lock, and return   *)
(* what was looked up or forged.  A leaf is the number of its forging; a   *)
(* leaf and its private key are made, stored and returned together.        *)
(***************************************************************************)
EXTENDS Naturals, FiniteSets

CONSTANTS
  Task,          \* tasks that may call at the same time
  Host,          \* names asked for in CONNECT
  BadHost,       \* those that are not DNS names, on which forging panics
  MaxForge       \* bound: leaves forged in a run

ASSUME LeafAssumption == /\ BadHost \subseteq Host /\ MaxForge \in Nat
                         /\ IsFiniteSet(Task)

VARIABLES
  cache,         \* cert_cache: host -> leaf, None if there is no entry
  task,          \* per task: where it is, the host it asks for, its leaf
  forged,        \* the host each leaf was forged for, in order of forging
  shown          \* per task, the entries its host had during the call

vars == <<cache, task, forged, shown>>

None == 0
Leaf == Nat \ {None}

\* Type invariant: the cache and the local variables of every call.
TypeOK ==
  /\ cache \in [Host -> Nat]
  /\ task \in [Task -> [pc : {"idle", "lookup", "forge", "insert", "done", "panicked"},
                        host : Host, leaf : Nat]]
  /\ \E n \in 0..MaxForge : forged \in [1..n -> Host]
  /\ shown \in [Task -> SUBSET Nat]

Forged == DOMAIN forged

Init ==
  /\ cache = [h \in Host |-> None]
  /\ task \in [Task -> [pc : {"idle"}, host : Host, leaf : {None}]]
  /\ forged = [i \in {} |-> None]
  /\ shown = [t \in Task |-> {}]

\* A connection is intercepted: its task asks for a certificate.
Call(t, h) ==
  /\ task[t].pc = "idle"
  /\ task' = [task EXCEPT ![t] = [pc |-> "lookup", host |-> h, leaf |-> None]]
  /\ shown' = [shown EXCEPT ![t] = {cache[h]}]
  /\ UNCHANGED <<cache, forged>>

\* Fault: the entry of any host will do.
Lookup_AnyHost(t) ==
  /\ task[t].pc = "lookup"
  /\ \E h \in Host :
       task' = [task EXCEPT ![t] = [@ EXCEPT !.leaf = cache[h],
                  !.pc = IF cache[h] # None THEN "done" ELSE "forge"]]
  /\ UNCHANGED <<cache, forged, shown>>

Lookup(t) ==
  LET entry == cache[task[t].host] IN
  /\ task[t].pc = "lookup"
  /\ task' = [task EXCEPT ![t].leaf = entry,
                          ![t].pc = IF entry # None THEN "done" ELSE "forge"]
  /\ UNCHANGED <<cache, forged, shown>>

\* A new key pair and certificate; no lock is held.
Forge(t) ==
  LET n == Cardinality(Forged) + 1 IN
  /\ task[t].pc = "forge"
  /\ task[t].host \notin BadHost
  /\ n <= MaxForge
  /\ forged' = [i \in 1..n |-> IF i = n THEN task[t].host ELSE forged[i]]
  /\ task' = [task EXCEPT ![t].pc = "insert", ![t].leaf = n]
  /\ UNCHANGED <<cache, shown>>

\* SanType::DnsName(host.try_into().unwrap()): the task dies, the lock is free.
ForgePanics(t) ==
  /\ task[t].pc = "forge"
  /\ task[t].host \in BadHost
  /\ task' = [task EXCEPT ![t].pc = "panicked"]
  /\ UNCHANGED <<cache, forged, shown>>

\* Fault: the new leaf is returned and not kept.
Insert_Forgotten(t) ==
  /\ task[t].pc = "insert"
  /\ task' = [task EXCEPT ![t].pc = "done"]
  /\ UNCHANGED <<cache, forged, shown>>

\* Fault: key and value are taken for each other.
Insert_WrongValue(t) ==
  LET h == task[t].host IN
  /\ task[t].pc = "insert"
  /\ cache' = [cache EXCEPT ![h] = h]
  /\ task' = [task EXCEPT ![t].pc = "done"]
  /\ UNCHANGED <<forged, shown>>

\* HashMap::insert replaces what another task may have put there since.
Insert(t) ==
  LET h == task[t].host IN
  /\ task[t].pc = "insert"
  /\ cache' = [cache EXCEPT ![h] = task[t].leaf]
  /\ task' = [task EXCEPT ![t].pc = "done"]
  /\ shown' = [u \in Task |-> IF task[u].host = h THEN shown[u] \cup {task[t].leaf}
                                                  ELSE shown[u]]
  /\ UNCHANGED forged

\* The connection is over; another one takes the task's place.
Return(t) ==
  /\ task[t].pc \in {"done", "panicked"}
  /\ task' = [task EXCEPT ![t].pc = "idle"]
  /\ UNCHANGED <<cache, forged, shown>>

Step(t) == Lookup(t) \/ Forge(t) \/ ForgePanics(t) \/ Insert(t)

Next == \E t \in Task : Step(t) \/ Return(t) \/ \E h \in Host : Call(t, h)

Spec == Init /\ [][Next]_vars
----------------------------------------------------------------------------
\* A call returns a leaf for its own host that was the cache's entry at some
\* moment of the call: concurrent calls are as good as calls one at a time.
ServedWasCurrent ==
  \A t \in Task : task[t].pc = "done" =>
    /\ task[t].leaf \in Forged /\ forged[task[t].leaf] = task[t].host
    /\ task[t].leaf \in shown[t]

\* Racing misses forge more than once, but a host never costs more leaves than
\* there are tasks: after its own insert a task always finds an entry.
StampedeBounded ==
  \A h \in Host : Cardinality({i \in Forged : forged[i] = h}) <= Cardinality(Task)
============================================================================
