--------------------------- MODULE CaStoreProofs ---------------------------
(***************************************************************************)
(* For any number of processes and keys: if a process is started into an   *)
(* incomplete directory only while no other one runs (Apart), then a       *)
(* running proxy always has a matching pair and a pair once persisted is   *)
(* never replaced.  PairMatches is not inductive: it depends on what is on *)
(* disk when the pair is loaded, and that on who may be writing.  That a   *)
(* start fails only on a torn key needs no such assumption.                *)
(***************************************************************************)
EXTENDS CaStore, TLAPS

Generating == {"generate", "createCert", "writeCert", "createKey", "writeKey"}

\* Only one process runs while the directory is incomplete.
Alone == Complete \/ \A p, q \in Proc :
           p # q => proc[p].pc \in Stopped \/ proc[q].pc \in Stopped

\* What a process relies on at each pc.
Local(p) ==
  /\ proc[p].pc \in Generating => keyFile \notin Key
  /\ proc[p].pc \in Generating \ {"generate"} =>
       proc[p].key \in Key /\ proc[p].cert = proc[p].key
  /\ proc[p].pc \in {"createKey", "writeKey"} => certFile = proc[p].cert
  /\ proc[p].pc \in {"loadCert", "loadKey"} => keyFile # Absent
  /\ proc[p].pc = "loadKey" /\ keyFile \in Key => proc[p].cert = keyFile
  /\ proc[p].pc = "up" => /\ proc[p].key \in Key /\ proc[p].cert = proc[p].key
                          /\ Complete

IInv ==
  /\ TypeOK
  /\ Alone
  /\ keyFile \in Key => certFile = keyFile
  /\ \A p \in Proc : Local(p)

\* The invariant after a step that reads only: process p moves, no file changes,
\* and p, if it runs now, ran before or is alone or finds a complete pair.
LEMMA ReadKeepsInvariant ==
  ASSUME IInv, NEW p \in Proc, NEW from \in PC, NEW s, Reads(p, from, s),
         s \in [pc : PC, cert : File, key : Key \cup {Absent}],
         \/ s.pc \in Stopped
         \/ from \notin Stopped
         \/ Complete
         \/ \A q \in Proc \ {p} : proc[q].pc \in Stopped,
         Local(p)'
  PROVE  IInv'
<1> USE DEF Reads, Goes
<1>1. /\ certFile' = certFile /\ keyFile' = keyFile /\ installed' = installed
      /\ proc[p].pc = from /\ proc' = [proc EXCEPT ![p] = s]
  OBVIOUS
<1>2. proc \in [Proc -> [pc : PC, cert : File, key : Key \cup {Absent}]]
  BY DEF IInv, TypeOK
<1>3. proc'[p] = s /\ \A q \in Proc \ {p} : proc'[q] = proc[q]
  BY <1>1, <1>2
<1>4. TypeOK'
  BY <1>1, <1>2 DEF IInv, TypeOK
<1>5. Complete' <=> Complete
  BY <1>1 DEF Complete
<1>6. Alone'
  BY <1>1, <1>3, <1>5 DEF IInv, Alone
<1>7. \A q \in Proc \ {p} : Local(q)'
  BY <1>1, <1>3, <1>5 DEF IInv, Local
<1> QED
  BY <1>1, <1>4, <1>6, <1>7 DEF IInv

\* The invariant after a step that writes a file: the writer runs and the pair
\* is incomplete, so every other process is stopped.
LEMMA WriteKeepsInvariant ==
  ASSUME IInv, NEW p \in Proc, NEW s, proc[p].pc \in Generating,
         proc' = [proc EXCEPT ![p] = s],
         s \in [pc : PC, cert : File, key : Key \cup {Absent}],
         installed' = installed, certFile' \in File, keyFile' \in File,
         keyFile' \in Key => certFile' = keyFile',
         Local(p)'
  PROVE  IInv'
<1>1. proc \in [Proc -> [pc : PC, cert : File, key : Key \cup {Absent}]]
  BY DEF IInv, TypeOK
<1>2. proc'[p] = s /\ \A q \in Proc \ {p} : proc'[q] = proc[q]
  BY <1>1
<1>3. TypeOK'
  BY <1>1 DEF IInv, TypeOK
<1>4. ~Complete
  BY DEF IInv, Local, Complete
<1>5. \A q \in Proc \ {p} : proc[q].pc \in Stopped
  BY <1>4 DEF IInv, Alone, Generating, Stopped
<1>6. Alone'
  BY <1>2, <1>5 DEF Alone
<1>7. \A q \in Proc \ {p} : Local(q)'
  BY <1>2, <1>5 DEF Local, Stopped, Generating
<1> QED
  BY <1>3, <1>6, <1>7 DEF IInv

LEMMA InitInvariant == Init => IInv
  BY CaAssumption
  DEF Init, IInv, TypeOK, File, PC, Alone, Stopped, Local, Generating, Complete

LEMMA StepInvariant == Apart /\ IInv /\ [Next]_vars => IInv'
<1> SUFFICES ASSUME Apart, IInv, [Next]_vars PROVE IInv'
  OBVIOUS
<1> USE CaAssumption
<1>T. /\ TypeOK
      /\ proc \in [Proc -> [pc : PC, cert : File, key : Key \cup {Absent}]]
  BY DEF IInv, TypeOK
<1>1. ASSUME UNCHANGED vars PROVE IInv'
  BY <1>1 DEF vars, IInv, TypeOK, Alone, Local, Complete
<1>2. ASSUME Install PROVE IInv'
  BY <1>2 DEF Install, IInv, TypeOK, Alone, Local, Complete
<1>3. ASSUME NEW p \in Proc, Start(p) PROVE IInv'
  <2>1. PICK from \in Stopped :
          Reads(p, from, [pc |-> "checkCert", cert |-> Absent, key |-> Absent])
    BY <1>3 DEF Start
  <2>2. proc'[p] = [pc |-> "checkCert", cert |-> Absent, key |-> Absent]
    BY <2>1, <1>T DEF Reads, Goes
  <2>3. Local(p)'
    BY <2>2 DEF Local, Generating
  <2> QED
    BY <2>1, <2>3, <1>3, ReadKeepsInvariant DEF Start, Stopped, PC, File
<1>4. ASSUME NEW p \in Proc, CheckCert(p) PROVE IInv'
  <2> DEFINE s == At(p, IF certFile # Absent THEN "checkKey" ELSE "generate")
  <2>1. Reads(p, "checkCert", s)
    BY <1>4 DEF CheckCert
  <2>2. proc'[p] = s /\ s.pc = IF certFile # Absent THEN "checkKey" ELSE "generate"
    BY <2>1, <1>T DEF Reads, Goes, At
  <2>3. Local(p)'
    BY <2>1, <2>2 DEF Local, Generating, IInv, Reads, Goes
  <2>4. s \in [pc : PC, cert : File, key : Key \cup {Absent}]
    BY <1>T DEF At, PC
  <2> QED
    BY <2>1, <2>3, <2>4, ReadKeepsInvariant DEF Stopped, PC
<1>5. ASSUME NEW p \in Proc, CheckKey(p) PROVE IInv'
  <2> DEFINE s == At(p, IF keyFile # Absent THEN "loadCert" ELSE "generate")
  <2>1. Reads(p, "checkKey", s)
    BY <1>5 DEF CheckKey
  <2>2. proc'[p] = s /\ s.pc = IF keyFile # Absent THEN "loadCert" ELSE "generate"
    BY <2>1, <1>T DEF Reads, Goes, At
  <2>3. Local(p)'
    BY <2>1, <2>2 DEF Local, Generating, Reads, Goes
  <2>4. s \in [pc : PC, cert : File, key : Key \cup {Absent}]
    BY <1>T DEF At, PC
  <2> QED
    BY <2>1, <2>3, <2>4, ReadKeepsInvariant DEF Stopped, PC
<1>6. ASSUME NEW p \in Proc, LoadCert(p) PROVE IInv'
  <2> DEFINE s == [proc[p] EXCEPT !.pc = "loadKey", !.cert = certFile]
  <2>1. Reads(p, "loadCert", s)
    BY <1>6 DEF LoadCert
  <2>2. proc'[p] = s /\ s.pc = "loadKey" /\ s.cert = certFile
    BY <2>1, <1>T DEF Reads, Goes
  <2>3. Local(p)'
    BY <2>1, <2>2 DEF Local, Generating, IInv, Reads, Goes
  <2>4. s \in [pc : PC, cert : File, key : Key \cup {Absent}]
    BY <1>T DEF TypeOK, PC
  <2> QED
    BY <2>1, <2>3, <2>4, ReadKeepsInvariant DEF Stopped, PC
<1>7. ASSUME NEW p \in Proc, LoadKey(p) PROVE IInv'
  <2>1. CASE keyFile \in Key
    <3> DEFINE s == [proc[p] EXCEPT !.pc = "up", !.key = keyFile]
    <3>1. Reads(p, "loadKey", s)
      BY <1>7, <2>1 DEF LoadKey
    <3>2. proc'[p] = s /\ s.pc = "up" /\ s.key = keyFile /\ s.cert = proc[p].cert
      BY <3>1, <1>T DEF Reads, Goes
    <3>3. Local(p)'
      BY <2>1, <3>1, <3>2 DEF Local, Generating, IInv, Reads, Goes, Complete
    <3>4. s \in [pc : PC, cert : File, key : Key \cup {Absent}]
      BY <1>T, <2>1 DEF PC
    <3> QED
      BY <3>1, <3>3, <3>4, ReadKeepsInvariant DEF Stopped, PC
  <2>2. CASE keyFile \notin Key
    <3> DEFINE s == At(p, "failed")
    <3>1. Reads(p, "loadKey", s)
      BY <1>7, <2>2 DEF LoadKey
    <3>2. proc'[p] = s /\ s.pc = "failed"
      BY <3>1, <1>T DEF Reads, Goes, At
    <3>3. Local(p)'
      BY <3>2 DEF Local, Generating
    <3>4. s \in [pc : PC, cert : File, key : Key \cup {Absent}]
      BY <1>T DEF At, PC
    <3> QED
      BY <3>1, <3>3, <3>4, ReadKeepsInvariant DEF Stopped, PC
  <2> QED
    BY <2>1, <2>2
<1>8. ASSUME NEW p \in Proc, GenerateKey(p) PROVE IInv'
  <2>1. PICK k \in Key \ InUse :
          Reads(p, "generate", [pc |-> "createCert", cert |-> k, key |-> k])
    BY <1>8 DEF GenerateKey
  <2>2. proc'[p] = [pc |-> "createCert", cert |-> k, key |-> k]
    BY <2>1, <1>T DEF Reads, Goes
  <2>3. Local(p)'
    BY <2>1, <2>2 DEF Local, Generating, IInv, Reads, Goes
  <2> QED
    BY <2>1, <2>3, ReadKeepsInvariant DEF Stopped, PC, File
<1>9. ASSUME NEW p \in Proc, CreateCert(p) PROVE IInv'
  <2>1. proc'[p] = At(p, "writeCert") /\ At(p, "writeCert").pc = "writeCert"
    BY <1>9, <1>T DEF CreateCert, Goes, At
  <2>2. At(p, "writeCert") \in [pc : PC, cert : File, key : Key \cup {Absent}]
    BY <1>T DEF At, PC
  <2>3. proc[p].pc \in Generating /\ keyFile \notin Key /\ keyFile \in File
    BY <1>9 DEF CreateCert, Goes, Generating, IInv, Local, TypeOK
  <2>4. Local(p)'
    BY <1>9, <1>T, <2>1, <2>3 DEF CreateCert, Goes, At, Local, Generating, IInv
  <2> QED
    BY <1>9, <2>2, <2>3, <2>4, WriteKeepsInvariant DEF CreateCert, Goes, File
<1>10. ASSUME NEW p \in Proc, WriteCert(p) PROVE IInv'
  <2>1. proc'[p] = At(p, "createKey") /\ At(p, "createKey").pc = "createKey"
    BY <1>10, <1>T DEF WriteCert, Goes, At
  <2>2. At(p, "createKey") \in [pc : PC, cert : File, key : Key \cup {Absent}]
    BY <1>T DEF At, PC
  <2>3. /\ proc[p].pc \in Generating /\ keyFile \notin Key /\ keyFile \in File
        /\ proc[p].cert \in File
    BY <1>10, <1>T DEF WriteCert, Goes, Generating, IInv, Local, TypeOK
  <2>4. Local(p)'
    BY <1>10, <1>T, <2>1, <2>3 DEF WriteCert, Goes, At, Local, Generating, IInv
  <2> QED
    BY <1>10, <2>2, <2>3, <2>4, WriteKeepsInvariant DEF WriteCert, Goes
<1>11. ASSUME NEW p \in Proc, CreateKey(p) PROVE IInv'
  <2>1. proc'[p] = At(p, "writeKey") /\ At(p, "writeKey").pc = "writeKey"
    BY <1>11, <1>T DEF CreateKey, Goes, At
  <2>2. At(p, "writeKey") \in [pc : PC, cert : File, key : Key \cup {Absent}]
    BY <1>T DEF At, PC
  <2>3. proc[p].pc \in Generating /\ certFile \in File
    BY <1>11 DEF CreateKey, Goes, Generating, IInv, TypeOK
  <2>4. Local(p)'
    BY <1>11, <1>T, <2>1 DEF CreateKey, Goes, At, Local, Generating, IInv
  <2> QED
    BY <1>11, <2>2, <2>3, <2>4, WriteKeepsInvariant DEF CreateKey, Goes, File
<1>12. ASSUME NEW p \in Proc, WriteKey(p) PROVE IInv'
  <2>1. proc'[p] = At(p, "up") /\ At(p, "up").pc = "up"
    BY <1>12, <1>T DEF WriteKey, Goes, At
  <2>2. At(p, "up") \in [pc : PC, cert : File, key : Key \cup {Absent}]
    BY <1>T DEF At, PC
  <2>3. /\ proc[p].pc \in Generating /\ certFile \in File
        /\ proc[p].key \in Key /\ certFile = proc[p].key
    BY <1>12 DEF WriteKey, Goes, Generating, IInv, Local, TypeOK
  <2>4. Local(p)'
    BY <1>12, <1>T, <2>1, <2>3
    DEF WriteKey, Goes, At, Local, Generating, IInv, Complete
  <2> QED
    BY <1>12, <2>2, <2>3, <2>4, WriteKeepsInvariant DEF WriteKey, Goes, File
<1>13. ASSUME NEW p \in Proc, Stop(p) PROVE IInv'
  <2>1. PICK from \in PC \ Stopped : Reads(p, from, At(p, "down"))
    BY <1>13 DEF Stop
  <2>2. proc'[p] = At(p, "down") /\ At(p, "down").pc = "down"
    BY <2>1, <1>T DEF Reads, Goes, At
  <2>3. Local(p)'
    BY <2>2 DEF Local, Generating
  <2>4. At(p, "down") \in [pc : PC, cert : File, key : Key \cup {Absent}]
    BY <1>T DEF At, PC
  <2> QED
    BY <2>1, <2>3, <2>4, <2>2, ReadKeepsInvariant DEF Stopped, PC
<1> QED
  BY <1>1, <1>2, <1>3, <1>4, <1>5, <1>6, <1>7, <1>8, <1>9, <1>10, <1>11, <1>12,
     <1>13 DEF Next, Step

LEMMA Inductive == ASSUME Apart PROVE Spec => []IInv
<1>1. IInv /\ [Next]_vars => IInv'
  BY StepInvariant
<1> QED
  BY InitInvariant, <1>1, PTL DEF Spec

\* new_in and generate_ca: the files and the fields of every process keep their
\* types, and a running proxy signs with the key of the root it hands out.
THEOREM PairMatchesAlways == ASSUME Apart PROVE Spec => [](TypeOK /\ PairMatches)
<1>1. IInv => TypeOK /\ PairMatches
  BY DEF IInv, Local, PairMatches
<1>2. Spec => []IInv
  BY Inductive
<1> QED
  BY <1>1, <1>2, PTL

\* generate_ca is never reached with a key on disk, so a persisted pair stays.
THEOREM PairStaysForever == ASSUME Apart PROVE Spec => PairIsPermanent
<1>1. IInv /\ [Next]_vars =>
        [(keyFile \in Key) => /\ certFile = keyFile
                              /\ certFile' = certFile
                              /\ keyFile' = keyFile]_vars
  <2> SUFFICES ASSUME IInv, Next, keyFile \in Key
               PROVE  certFile = keyFile /\ certFile' = certFile /\ keyFile' = keyFile
    BY DEF vars
  <2>1. certFile = keyFile
    BY DEF IInv
  <2>2. \A p \in Proc : proc[p].pc \notin Generating
    BY DEF IInv, Local
  <2>3. ASSUME NEW p \in Proc, Start(p) \/ Step(p) \/ Stop(p)
        PROVE  certFile' = certFile /\ keyFile' = keyFile
    <3>1. ~CreateCert(p) /\ ~WriteCert(p) /\ ~CreateKey(p) /\ ~WriteKey(p)
      BY <2>2 DEF CreateCert, WriteCert, CreateKey, WriteKey, Goes, Generating
    <3> QED
      BY <2>3, <3>1 DEF Start, Stop, Step, CheckCert, CheckKey, LoadCert, LoadKey,
                        GenerateKey, Reads
  <2> QED
    BY <2>1, <2>3 DEF Next, Install
<1>2. Spec => []IInv
  BY Inductive
<1> QED
  BY <1>1, <1>2, PTL DEF Spec, PairIsPermanent

----------------------------------------------------------------------------
(* Without Apart: what holds whatever processes share the directory.       *)

\* A file that was seen is there, torn or not, and the key to be written is one.
Seen ==
  \A p \in Proc :
    /\ proc[p].pc \in {"loadCert", "loadKey"} => keyFile # Absent
    /\ proc[p].pc \in Generating \ {"generate"} => proc[p].key \in Key

LEMMA InitSeen == Init => TypeOK /\ Seen
  BY CaAssumption DEF Init, TypeOK, File, PC, Seen, Generating

\* A step of one process, whose files keep their types.
LEMMA ProcessKeepsSeen ==
  ASSUME TypeOK, Seen, NEW p \in Proc, NEW from, NEW s, Goes(p, from, s),
         s \in [pc : PC, cert : File, key : Key \cup {Absent}],
         certFile' \in File, keyFile' \in File, keyFile' # Absent \/ keyFile' = keyFile,
         s.pc \in {"loadCert", "loadKey"} => keyFile' # Absent,
         s.pc \in Generating \ {"generate"} => s.key \in Key
  PROVE  TypeOK' /\ Seen'
<1>1. proc \in [Proc -> [pc : PC, cert : File, key : Key \cup {Absent}]]
  BY DEF TypeOK
<1>2. proc' = [proc EXCEPT ![p] = s] /\ installed' = installed
  BY DEF Goes
<1>3. proc'[p] = s /\ \A q \in Proc : q # p => proc'[q] = proc[q]
  BY <1>1, <1>2
<1>4. TypeOK'
  BY <1>1, <1>2 DEF TypeOK
<1>5. Seen'
  BY <1>3 DEF Seen
<1> QED
  BY <1>4, <1>5

LEMMA StepSeen == TypeOK /\ Seen /\ [Next]_vars => (TypeOK /\ Seen)'
<1> SUFFICES ASSUME TypeOK, Seen, [Next]_vars PROVE TypeOK' /\ Seen'
  BY Zenon
<1> USE CaAssumption DEF Reads
<1>T. /\ proc \in [Proc -> [pc : PC, cert : File, key : Key \cup {Absent}]]
      /\ certFile \in File /\ keyFile \in File
  BY DEF TypeOK
<1>1. CASE UNCHANGED vars
  BY <1>1 DEF vars, TypeOK, Seen
<1>2. CASE Install
  BY <1>2 DEF Install, TypeOK, Seen
<1>3. ASSUME NEW p \in Proc, Start(p) \/ Step(p) \/ Stop(p) PROVE TypeOK' /\ Seen'
  <2> DEFINE rec == [pc : PC, cert : File, key : Key \cup {Absent}]
  <2>1. /\ \A pc \in PC : At(p, pc) \in rec /\ At(p, pc).pc = pc /\ At(p, pc).key = proc[p].key
        /\ proc[p] \in rec
    BY <1>T DEF At
  <2>2. CASE Start(p)
    <3>1. PICK from \in Stopped :
            Reads(p, from, [pc |-> "checkCert", cert |-> Absent, key |-> Absent])
      BY <2>2 DEF Start
    <3>2. [pc |-> "checkCert", cert |-> Absent, key |-> Absent] \in rec
      BY DEF PC, File
    <3> QED
      BY <1>T, <3>1, <3>2, ProcessKeepsSeen DEF Generating
  <2>3. CASE CheckCert(p)
    BY <1>T, <2>1, <2>3, ProcessKeepsSeen DEF CheckCert, Generating, PC
  <2>4. CASE CheckKey(p)
    BY <1>T, <2>1, <2>4, ProcessKeepsSeen DEF CheckKey, Generating, PC
  <2>5. CASE LoadCert(p)
    <3> DEFINE s == [proc[p] EXCEPT !.pc = "loadKey", !.cert = certFile]
    <3>1. s \in rec /\ s.pc = "loadKey"
      BY <1>T, <2>1 DEF PC
    <3>2. Goes(p, "loadCert", s) /\ UNCHANGED <<certFile, keyFile>> /\ keyFile # Absent
      BY <2>5 DEF LoadCert, Seen, Goes
    <3> HIDE DEF s
    <3> QED
      BY <1>T, <3>1, <3>2, ProcessKeepsSeen DEF Generating
  <2>6. CASE LoadKey(p)
    <3>1. CASE keyFile \in Key
      <4> DEFINE s == [proc[p] EXCEPT !.pc = "up", !.key = keyFile]
      <4>1. s \in rec /\ s.pc = "up"
        BY <1>T, <2>1, <3>1 DEF PC
      <4>2. Goes(p, "loadKey", s) /\ UNCHANGED <<certFile, keyFile>>
        BY <2>6, <3>1 DEF LoadKey
      <4> HIDE DEF s
      <4> QED
        BY <1>T, <4>1, <4>2, ProcessKeepsSeen DEF Generating
    <3>2. CASE keyFile \notin Key
      <4>1. Goes(p, "loadKey", At(p, "failed")) /\ UNCHANGED <<certFile, keyFile>>
        BY <2>6, <3>2 DEF LoadKey
      <4> QED
        BY <1>T, <2>1, <4>1, ProcessKeepsSeen DEF Generating, PC
    <3> QED
      BY <3>1, <3>2
  <2>7. CASE GenerateKey(p)
    <3>1. PICK k \in Key : Reads(p, "generate", [pc |-> "createCert", cert |-> k, key |-> k])
      BY <2>7 DEF GenerateKey
    <3>2. [pc |-> "createCert", cert |-> k, key |-> k] \in rec
      BY DEF PC, File
    <3> QED
      BY <1>T, <3>1, <3>2, ProcessKeepsSeen
  <2>8. CASE CreateCert(p) \/ WriteCert(p) \/ CreateKey(p) \/ WriteKey(p)
    <3>1. PICK from \in Generating \ {"generate"},
               pc \in {"writeCert", "createKey", "writeKey", "up"} : Goes(p, from, At(p, pc))
      BY <2>8 DEF CreateCert, WriteCert, CreateKey, WriteKey, Generating
    <3>2. proc[p].key \in Key /\ proc[p].cert \in File
      BY <1>T, <3>1 DEF Goes, Seen
    <3>3. certFile' \in File /\ keyFile' \in File /\ (keyFile' # Absent \/ keyFile' = keyFile)
      BY <1>T, <2>8, <3>2 DEF CreateCert, WriteCert, CreateKey, WriteKey, File
    <3>4. pc \in PC /\ pc \notin {"loadCert", "loadKey"}
      BY <3>1 DEF PC
    <3> QED
      BY <2>1, <3>1, <3>2, <3>3, <3>4, ProcessKeepsSeen
  <2>9. CASE Stop(p)
    <3>1. PICK from \in PC : Reads(p, from, At(p, "down"))
      BY <2>9 DEF Stop
    <3> QED
      BY <1>T, <2>1, <3>1, ProcessKeepsSeen DEF Generating, PC
  <2> QED
    BY <1>3, <2>2, <2>3, <2>4, <2>5, <2>6, <2>7, <2>8, <2>9 DEF Step
<1> QED
  BY <1>1, <1>2, <1>3 DEF Next

\* The files and the fields of every process keep their types, whoever else uses the
\* directory at the same time (new_in and generate_ca).
THEOREM TypesAlways == Spec => []TypeOK
<1>1. TypeOK /\ Seen /\ [Next]_vars => (TypeOK /\ Seen)'
  BY StepSeen
<1> QED
  BY <1>1, InitSeen, PTL DEF Spec

\* new_in panics only on a key file cut short, by a kill or by another process that is
\* writing it.
THEOREM FailuresAreTornKeys == Spec => FailuresExplained
<1>1. TypeOK /\ Seen /\ [Next]_vars =>
        [\A p \in Proc : proc[p].pc # "failed" /\ proc'[p].pc = "failed"
                           => keyFile = Torn]_vars
  <2> SUFFICES ASSUME TypeOK, Seen, Next, NEW p \in Proc,
                      proc[p].pc # "failed", proc'[p].pc = "failed"
               PROVE  keyFile = Torn
    BY DEF vars
  <2>1. proc \in [Proc -> [pc : PC, cert : File, key : Key \cup {Absent}]]
    BY DEF TypeOK
  <2>2. PICK q \in Proc : Start(q) \/ Step(q) \/ Stop(q)
    BY DEF Next, Install
  <2>3. q = p
    BY <2>1, <2>2 DEF Start, Stop, Step, CheckCert, CheckKey, LoadCert, LoadKey,
       GenerateKey, CreateCert, WriteCert, CreateKey, WriteKey, Reads, Goes
  <2>4. ~(Start(p) \/ GenerateKey(p) \/ Stop(p))
    BY <2>1 DEF Start, GenerateKey, Stop, Reads, Goes, At
  <2>5. ~(CheckCert(p) \/ CheckKey(p) \/ LoadCert(p))
    BY <2>1 DEF CheckCert, CheckKey, LoadCert, Reads, Goes, At
  <2>6. ~(CreateCert(p) \/ WriteCert(p) \/ CreateKey(p) \/ WriteKey(p))
    BY <2>1 DEF CreateCert, WriteCert, CreateKey, WriteKey, Goes, At
  <2>7. LoadKey(p)
    BY <2>2, <2>3, <2>4, <2>5, <2>6 DEF Step
  <2>8. keyFile \notin Key /\ proc[p].pc = "loadKey"
    BY <2>1, <2>7 DEF LoadKey, Reads, Goes
  <2> QED
    BY <2>8 DEF Seen, TypeOK, File
<1>2. TypeOK /\ Seen /\ [Next]_vars => (TypeOK /\ Seen)'
  BY StepSeen
<1> QED
  BY <1>1, <1>2, InitSeen, PTL DEF Spec, FailuresExplained
============================================================================
