------------------------------ MODULE CaStore ------------------------------
(***************************************************************************)
(* The root certificate of the proxy on disk: CertificationAuthority::     *)
(* new_in and generate_ca (ca.rs), run by proxy processes that share a     *)
(* directory and may be killed and started again at any step.              *)
(*                                                                         *)
(* Only the identity of a key matters: the subject and the parameters of   *)
(* the root are fixed, so a root certificate is named by the key it was    *)
(* made from, and a leaf signed with key k verifies under root r exactly if*)
(* k = r.  std::fs::write truncates the file before it writes; a kill, or a*)
(* full disk, can leave it in between.                                     *)
(***************************************************************************)

CONSTANTS
  Proc,          \* proxy processes that use the directory
  Key,           \* key pairs, and the roots made from them
  Absent,        \* no such file, no key
  Torn,          \* content of a file truncated and not written yet
  Apart          \* a process is started into an incomplete directory only
                 \* while no other one runs

ASSUME CaAssumption ==
  /\ Absent \notin Key /\ Torn \notin Key /\ Absent # Torn
  /\ Apart \in BOOLEAN

VARIABLES
  certFile, keyFile,   \* ca.pem and ca-key.pem
  proc,                \* per process: where it is, and its ca_cert_pem, ca_key
  installed            \* the root a browser was told to trust, from ca.pem

vars == <<certFile, keyFile, proc, installed>>

File == Key \cup {Absent, Torn}

\* Where a process is.  down: not running; failed: new_in panicked.
PC == {"down", "failed", "checkCert", "checkKey", "loadCert", "loadKey",
       "generate", "createCert", "writeCert", "createKey", "writeKey", "up"}
Stopped == {"down", "failed"}

\* Type invariant: the files and the fields of CertificationAuthority.
TypeOK ==
  /\ certFile \in File /\ keyFile \in File
  /\ proc \in [Proc -> [pc : PC, cert : File, key : Key \cup {Absent}]]
  /\ installed \in Key \cup {Absent}

Init ==
  /\ certFile = Absent /\ keyFile = Absent
  /\ proc = [p \in Proc |-> [pc |-> "down", cert |-> Absent, key |-> Absent]]
  /\ installed = Absent

Complete == keyFile \in Key /\ certFile = keyFile

\* A step of process p from pc `from`, after which p is as s describes.
Goes(p, from, s) ==
  /\ proc[p].pc = from
  /\ proc' = [proc EXCEPT ![p] = s]
  /\ UNCHANGED installed

At(p, pc) == [proc[p] EXCEPT !.pc = pc]

Reads(p, from, s) == Goes(p, from, s) /\ UNCHANGED <<certFile, keyFile>>

Start(p) ==
  /\ Apart => Complete \/ \A q \in Proc \ {p} : proc[q].pc \in Stopped
  /\ \E from \in Stopped :
       Reads(p, from, [pc |-> "checkCert", cert |-> Absent, key |-> Absent])

\* if cert_path.exists() && key_path.exists()
CheckCert(p) ==
  Reads(p, "checkCert", At(p, IF certFile # Absent THEN "checkKey" ELSE "generate"))

\* Fault: the pair is always made anew.
CheckKey_Regenerates(p) == Reads(p, "checkKey", At(p, "generate"))

CheckKey(p) ==
  Reads(p, "checkKey", At(p, IF keyFile # Absent THEN "loadCert" ELSE "generate"))

\* The certificate is kept as text; nothing is parsed or compared.
LoadCert(p) ==
  Reads(p, "loadCert", [proc[p] EXCEPT !.pc = "loadKey", !.cert = certFile])

\* Fault: the key is taken without parsing it.
LoadKey_Unparsed(p) ==
  Reads(p, "loadKey", [proc[p] EXCEPT !.pc = "up", !.key = keyFile])

\* The key is parsed: a torn file panics.
LoadKey(p) ==
  \/ /\ keyFile \in Key
     /\ Reads(p, "loadKey", [proc[p] EXCEPT !.pc = "up", !.key = keyFile])
  \/ /\ keyFile \notin Key
     /\ Reads(p, "loadKey", At(p, "failed"))

\* KeyPair::generate: a key that nobody has.
InUse == {certFile, keyFile, installed} \cup {proc[q].key : q \in Proc}
                                        \cup {proc[q].cert : q \in Proc}
GenerateKey(p) ==
  \E k \in Key \ InUse :
    Reads(p, "generate", [pc |-> "createCert", cert |-> k, key |-> k])

\* Fault: a certificate found on disk is kept beside the new key.
CreateCert_KeepsOld(p) ==
  Reads(p, "createCert", At(p, IF certFile = Absent THEN "writeCert" ELSE "createKey"))

\* std::fs::write of ca.pem, then of ca-key.pem, each in two steps.
CreateCert(p) ==
  /\ Goes(p, "createCert", At(p, "writeCert"))
  /\ certFile' = Torn
  /\ UNCHANGED keyFile

WriteCert(p) ==
  /\ Goes(p, "writeCert", At(p, "createKey"))
  /\ certFile' = proc[p].cert
  /\ UNCHANGED keyFile

CreateKey(p) ==
  /\ Goes(p, "createKey", At(p, "writeKey"))
  /\ keyFile' = Torn
  /\ UNCHANGED certFile

WriteKey(p) ==
  /\ Goes(p, "writeKey", At(p, "up"))
  /\ keyFile' = proc[p].key
  /\ UNCHANGED certFile

\* Fault: a process that stops cleans up its key.
Stop_RemovesKey(p) ==
  /\ \E from \in PC \ Stopped : Goes(p, from, At(p, "down"))
  /\ keyFile' = Absent
  /\ UNCHANGED certFile

\* The process is stopped or killed, or a write fails and its expect panics.
Stop(p) == \E from \in PC \ Stopped : Reads(p, from, At(p, "down"))

\* The operator follows the README and imports cert/ca.pem.
Install ==
  /\ installed = Absent
  /\ certFile \in Key
  /\ installed' = certFile
  /\ UNCHANGED <<certFile, keyFile, proc>>

Step(p) ==
  \/ CheckCert(p) \/ CheckKey(p) \/ LoadCert(p) \/ LoadKey(p) \/ GenerateKey(p)
  \/ CreateCert(p) \/ WriteCert(p) \/ CreateKey(p) \/ WriteKey(p)

Next == Install \/ \E p \in Proc : Start(p) \/ Step(p) \/ Stop(p)

Spec == Init /\ [][Next]_vars
----------------------------------------------------------------------------
\* A running proxy signs with the key of the root it hands out (new_in, both
\* ways through it): a browser that trusts ca_cert_pem accepts its leaves.
PairMatches ==
  \A p \in Proc : proc[p].pc = "up" => proc[p].cert = proc[p].key /\ proc[p].key \in Key

\* Once the key is on disk the pair is complete and is never replaced, by
\* restarts or by other processes (generate_ca runs only if a file is missing,
\* and writes the key last).
PairIsPermanent ==
  [][(keyFile \in Key) => /\ certFile = keyFile
                          /\ certFile' = certFile
                          /\ keyFile' = keyFile]_vars

\* A start fails only on a key file cut short by a kill; nothing else on disk
\* makes new_in panic, at any moment of any other process.
FailuresExplained ==
  [][\A p \in Proc : proc[p].pc # "failed" /\ proc'[p].pc = "failed" => keyFile = Torn]_vars

\* ca.rs:22-25, "Subsequent runs load the same key from disk ... the browser's
\* trust anchor survives restarts": who trusts the root found in ca.pem accepts
\* every proxy that runs later.
AnchorSurvives ==
  \A p \in Proc : proc[p].pc = "up" /\ installed # Absent => proc[p].key = installed
============================================================================
