------------------------ MODULE ProxyPipelineProofs ------------------------
(***************************************************************************)
(* For any number of connections, any length of the handler chain, any     *)
(* ports and any number of requests in a tunnel: the types, the discipline *)
(* of the handler chain, the CONNECT decision, the books kept of every     *)
(* request and the uniqueness of their ids are invariants.                 *)
(*                                                                         *)
(* The listed invariants speak of a few fields of a task's record; what    *)
(* keeps them is what the record looks like at each await.  Sound(s) says  *)
(* that of one record s, so that a step of one task is checked on its own  *)
(* record and the others are framed (lemma OneTaskMoves).                  *)
(***************************************************************************)
EXTENDS ProxyPipeline, FiniteSetTheorems, TLAPS

Undecided == {"absent", "backlog", "reading", "established", "asking"}
InChain == {"onRequest", "upstream", "onResponse"}
Serving == InChain \cup {"reply"}

\* How a connection is served, at each await.
Phase(s) ==
  /\ s.pc \in Undecided => s.mode = "none"
  /\ s.pc \in {"dialing", "tunnel"} => s.mode = "tunnel"
  /\ s.pc \in {"handshake", "idle", "wsDial"} => s.mode = "mitm"
  /\ s.pc \in Serving \cup {"relay"} => s.mode \in {"plain", "mitm"}
  /\ s.mode \in {"none", "tunnel"} \/ s.pc = "handshake" =>
       /\ s.received = 0 /\ s.asked = {} /\ s.told = {} /\ s.due = "none"
       /\ s.mode # "tunnel" => s.dialed = NoPort

\* The CONNECT decision, while it is taken and afterwards.
Decision(s) ==
  /\ s.pc \in Undecided \ {"asking"} => s.agreed = {}
  /\ s.pc = "asking" => /\ TRUE \in s.flagSeen
                        /\ s.step \in 1..(NHandlers + 1) /\ s.agreed = 1..(s.step - 1)
  /\ s.mode = "mitm" => TRUE \in s.flagSeen /\ s.agreed = Handlers
  /\ s.mode = "tunnel" => FALSE \in s.flagSeen \/ s.agreed # Handlers

\* How far the chain has got with the current request.
Chain(s) ==
  /\ s.pc = "onRequest" => /\ s.step \in 1..(NHandlers + 1)
                           /\ s.asked = 1..(s.step - 1)
                           /\ s.told = {} /\ s.dialed = NoPort
                           /\ s.mode = "plain" => s.port # NoPort
  /\ s.pc \in {"upstream", "onResponse"} => s.asked = Handlers /\ s.dialed # NoPort
  /\ s.pc = "upstream" => s.told = {}
  /\ s.pc = "onResponse" => s.step \in 1..(NHandlers + 1) /\ s.told = 1..(s.step - 1)
  /\ s.pc \in InChain => s.due = "none"
  /\ s.pc = "wsDial" => s.due = "switching"
  /\ s.due = "switching" => s.mode = "mitm" /\ s.asked = Handlers
  /\ s.due = "switching" /\ s.pc # "closed" /\ s.pc # "relay" => s.dialed = NoPort
  /\ s.due = "badRequest" => s.asked = {} /\ s.dialed = NoPort
  /\ s.received > 0 /\ s.dialed # NoPort => s.asked = Handlers
  /\ s.told # {} => s.dialed # NoPort
  /\ s.due = "upstream" => s.told = Handlers
  /\ s.due = "short" => s.dialed = NoPort /\ \E k \in Handlers : s.asked = 1..k

\* Requests, replies, upstream contacts and faults.
Books(s) ==
  /\ s.pc \in Serving => s.received = s.replied + 1
  /\ s.pc \notin Serving \cup {"closed"} => s.received = s.replied
  /\ s.pc = "closed" => s.replied <= s.received /\ s.received <= s.replied + 1
  /\ s.pc = "closed" /\ s.fault = "none" => s.received = s.replied
  /\ s.contacts <= s.received
  /\ s.pc \in Serving \cup {"wsDial"} /\ s.dialed = NoPort => s.contacts < s.received
  /\ s.pc \in Undecided \cup InChain \cup {"handshake"} => s.fault = "none"
  /\ s.pc \in {"reply", "idle"} /\ s.fault = "error" => s.due = "badGateway"
  /\ s.due = "badGateway" => s.mode = "mitm" /\ s.fault # "none"

Sound(s) == s \in ConnType /\ Phase(s) /\ Decision(s) /\ Chain(s) /\ Books(s)

\* A task at 200 Established has seen the flag as it is.
SeesFlag(s, b) == s.pc = "established" => b \in s.flagSeen

IInv ==
  /\ TypeOK
  /\ \A c \in Conn : Sound(conn[c]) /\ SeesFlag(conn[c], enabled)
----------------------------------------------------------------------------
(* Each step of a task keeps its record sound.                             *)

\* The kernel queues a client, the accept loop spawns its task.
LEMMA QueueingIsSound ==
  ASSUME NEW s, Sound(s), s.pc \in {"absent", "backlog"},
         NEW q \in {"backlog", "reading"}
  PROVE  Sound([s EXCEPT !.pc = q])
<1> DEFINE t == [s EXCEPT !.pc = q]
<1> USE PipelineAssumption
    DEF Sound, ConnType, Undecided, Serving, InChain, PC
<1>1. t \in ConnType
  OBVIOUS
<1>2. Phase(t)
  BY DEF Phase
<1>3. Decision(t)
  BY DEF Phase, Decision
<1>4. Chain(t)
  BY DEF Phase, Chain
<1>5. Books(t)
  BY DEF Phase, Books
<1> QED
  BY <1>1, <1>2, <1>3, <1>4, <1>5

\* handle_client answers a CONNECT with 200 Connection Established.
LEMMA ConnectIsSound ==
  ASSUME NEW s, Sound(s), s.pc = "reading", NEW p \in Nat, NEW b \in BOOLEAN
  PROVE  Sound([s EXCEPT !.pc = "established", !.port = p, !.flagSeen = {b}])
<1> DEFINE t == [s EXCEPT !.pc = "established", !.port = p, !.flagSeen = {b}]
<1> USE PipelineAssumption
    DEF Sound, ConnType, Undecided, Serving, InChain, PC
<1>1. t \in ConnType
  OBVIOUS
<1>2. Phase(t)
  BY DEF Phase
<1>3. Decision(t)
  BY DEF Phase, Decision
<1>4. Chain(t)
  BY DEF Phase, Chain
<1>5. Books(t)
  BY DEF Phase, Books
<1> QED
  BY <1>1, <1>2, <1>3, <1>4, <1>5

\* set_enabled is called while a task is at 200 Connection Established.
LEMMA FlagIsSound ==
  ASSUME NEW s, Sound(s), s.pc = "established", NEW b \in BOOLEAN
  PROVE  Sound([s EXCEPT !.flagSeen = @ \cup {b}])
<1> DEFINE t == [s EXCEPT !.flagSeen = @ \cup {b}]
<1> USE PipelineAssumption
    DEF Sound, ConnType, Undecided, Serving, InChain, PC
<1>1. t \in ConnType
  OBVIOUS
<1>2. Phase(t)
  BY DEF Phase
<1>3. Decision(t)
  BY DEF Phase, Decision
<1>4. Chain(t)
  BY DEF Phase, Chain
<1>5. Books(t)
  BY DEF Phase, Books
<1> QED
  BY <1>1, <1>2, <1>3, <1>4, <1>5

\* handle_http refuses a request that names no host.
LEMMA HostlessIsSound ==
  ASSUME NEW s, Sound(s), s.pc = "reading"
  PROVE  Sound([s EXCEPT !.pc = "reply", !.mode = "plain", !.received = @ + 1,
                         !.due = "badRequest"])
<1> DEFINE t == [s EXCEPT !.pc = "reply", !.mode = "plain", !.received = @ + 1,
                          !.due = "badRequest"]
<1> USE PipelineAssumption
    DEF Sound, ConnType, Undecided, Serving, InChain, PC, Mode, Reply
<1>a. /\ s.received + 1 \in Nat
      /\ s.received = 0
      /\ s.replied = 0
      /\ s.contacts = 0
      /\ s.mode = "none"
  BY DEF Phase, Books
<1>1. t \in ConnType
  BY <1>a
<1>2. Phase(t)
  BY <1>a DEF Phase
<1>3. Decision(t)
  BY <1>a DEF Phase, Decision
<1>4. Chain(t)
  BY <1>a DEF Phase, Chain
<1>5. Books(t)
  BY <1>a DEF Phase, Books
<1> QED
  BY <1>1, <1>2, <1>3, <1>4, <1>5

\* handle_http takes a plain request and gives it an id.
LEMMA HttpIsSound ==
  ASSUME NEW s, Sound(s), s.pc = "reading", NEW w \in BOOLEAN,
         NEW p \in Nat \ {0}, nextId \in Nat
  PROVE  Sound([Opened(s, w, p) EXCEPT !.mode = "plain"])
<1> DEFINE t == [Opened(s, w, p) EXCEPT !.mode = "plain"]
<1> USE PipelineAssumption
    DEF Sound, ConnType, Undecided, Serving, InChain,
        Opened, PC, Mode, Reply, Fault, NoPort
<1>a. s.received + 1 \in Nat /\ 1..(1 - 1) = {}
  OBVIOUS
<1>1. t \in ConnType
  BY <1>a
<1>2. Phase(t)
  BY DEF Phase
<1>3. Decision(t)
  BY DEF Phase, Decision
<1>4. Chain(t)
  BY <1>a DEF Phase, Chain
<1>5. Books(t)
  BY <1>a DEF Phase, Books
<1> QED
  BY <1>1, <1>2, <1>3, <1>4, <1>5

\* handle_https_request takes the next request of an intercepted tunnel.
LEMMA NextIsSound ==
  ASSUME NEW s, Sound(s), s.pc = "idle", nextId \in Nat
  PROVE  Sound(Opened(s, FALSE, s.port))
<1> DEFINE t == Opened(s, FALSE, s.port)
<1> USE PipelineAssumption
    DEF Sound, ConnType, Undecided, Serving, InChain,
        Opened, PC, Mode, Reply, Fault, NoPort
<1>a. s.received + 1 \in Nat /\ 1..(1 - 1) = {} /\ s.mode = "mitm"
  BY DEF Phase
<1>1. t \in ConnType
  BY <1>a
<1>2. Phase(t)
  BY <1>a DEF Phase
<1>3. Decision(t)
  BY <1>a DEF Phase, Decision
<1>4. Chain(t)
  BY <1>a DEF Phase, Chain
<1>5. Books(t)
  BY <1>a DEF Phase, Books
<1> QED
  BY <1>1, <1>2, <1>3, <1>4, <1>5

\* should_intercept_tls finds the flag set.
LEMMA AskingIsSound ==
  ASSUME NEW s, Sound(s), s.pc = "established", TRUE \in s.flagSeen
  PROVE  Sound([s EXCEPT !.pc = "asking", !.step = 1])
<1> DEFINE t == [s EXCEPT !.pc = "asking", !.step = 1]
<1> USE PipelineAssumption
    DEF Sound, ConnType, Undecided, Serving, InChain, PC
<1>a. 1..(1 - 1) = {} /\ 1 \in 1..(NHandlers + 1)
  OBVIOUS
<1>b. s.mode = "none" /\ s.agreed = {}
  BY DEF Phase, Decision
<1>1. t \in ConnType
  OBVIOUS
<1>2. Phase(t)
  BY DEF Phase
<1>3. Decision(t)
  BY <1>a, <1>b DEF Phase, Decision
<1>4. Chain(t)
  BY DEF Phase, Chain
<1>5. Books(t)
  BY DEF Phase, Books
<1> QED
  BY <1>1, <1>2, <1>3, <1>4, <1>5

\* should_intercept_tls finds the flag off, or a handler objects.
LEMMA PassingIsSound ==
  ASSUME NEW s, Sound(s),
         \/ s.pc = "established" /\ FALSE \in s.flagSeen
         \/ s.pc = "asking" /\ s.step \in Handlers
  PROVE  Sound([s EXCEPT !.pc = "dialing", !.mode = "tunnel"])
<1> DEFINE t == [s EXCEPT !.pc = "dialing", !.mode = "tunnel"]
<1> USE PipelineAssumption
    DEF Sound, ConnType, Undecided, Serving, InChain, PC, Mode, Handlers
<1>a. s.pc = "asking" => s.step \notin s.agreed
  BY DEF Decision
<1>b. FALSE \in s.flagSeen \/ s.agreed # Handlers
  BY <1>a
<1>c. s.received = 0
  BY DEF Phase
<1>d. s.replied = 0 /\ s.contacts = 0
  BY <1>c DEF Books
<1>1. t \in ConnType
  OBVIOUS
<1>2. Phase(t)
  BY <1>c DEF Phase
<1>3. Decision(t)
  BY <1>b DEF Phase, Decision
<1>4. Chain(t)
  BY <1>c DEF Phase, Chain
<1>5. Books(t)
  BY <1>c, <1>d DEF Phase, Books
<1> QED
  BY <1>1, <1>2, <1>3, <1>4, <1>5

\* A handler agrees to intercept.
LEMMA AgreeingIsSound ==
  ASSUME NEW s, Sound(s), s.pc = "asking", s.step \in Handlers
  PROVE  Sound([s EXCEPT !.step = @ + 1, !.agreed = @ \cup {s.step}])
<1> DEFINE t == [s EXCEPT !.step = @ + 1, !.agreed = @ \cup {s.step}]
<1> USE PipelineAssumption
    DEF Sound, ConnType, Undecided, Serving, InChain, Handlers
<1>a. s.step + 1 \in Nat
  OBVIOUS
<1>b. /\ s.step + 1 \in 1..(NHandlers + 1)
      /\ s.agreed \cup {s.step} = 1..((s.step + 1) - 1)
  BY DEF Decision
<1>1. t \in ConnType
  BY <1>a
<1>2. Phase(t)
  BY DEF Phase
<1>3. Decision(t)
  BY <1>b DEF Phase, Decision
<1>4. Chain(t)
  BY DEF Phase, Chain
<1>5. Books(t)
  BY DEF Phase, Books
<1> QED
  BY <1>1, <1>2, <1>3, <1>4, <1>5

\* Every handler has agreed: the tunnel is intercepted.
LEMMA InterceptIsSound ==
  ASSUME NEW s, Sound(s), s.pc = "asking", s.step \notin Handlers
  PROVE  Sound([s EXCEPT !.pc = "handshake", !.mode = "mitm"])
<1> DEFINE t == [s EXCEPT !.pc = "handshake", !.mode = "mitm"]
<1> USE PipelineAssumption
    DEF Sound, ConnType, Undecided, Serving, InChain, PC, Mode, Handlers
<1>a. s.step = NHandlers + 1 /\ s.step - 1 = NHandlers
  BY DEF Decision
<1>b. s.agreed = Handlers /\ TRUE \in s.flagSeen
  BY <1>a DEF Decision
<1>1. t \in ConnType
  OBVIOUS
<1>2. Phase(t)
  BY DEF Phase
<1>3. Decision(t)
  BY <1>b DEF Phase, Decision
<1>4. Chain(t)
  BY DEF Phase, Chain
<1>5. Books(t)
  BY DEF Phase, Books
<1> QED
  BY <1>1, <1>2, <1>3, <1>4, <1>5

\* The TLS handshake with the client succeeds.
LEMMA HandshakeIsSound ==
  ASSUME NEW s, Sound(s), s.pc = "handshake"
  PROVE  Sound([s EXCEPT !.pc = "idle"])
<1> DEFINE t == [s EXCEPT !.pc = "idle"]
<1> USE PipelineAssumption
    DEF Sound, ConnType, Undecided, Serving, InChain, PC
<1>a. /\ s.received = 0
      /\ s.replied = 0
      /\ s.contacts = 0
      /\ s.due = "none"
  BY DEF Phase, Books
<1>1. t \in ConnType
  OBVIOUS
<1>2. Phase(t)
  BY DEF Phase
<1>3. Decision(t)
  BY DEF Phase, Decision
<1>4. Chain(t)
  BY <1>a DEF Phase, Chain
<1>5. Books(t)
  BY <1>a DEF Phase, Books
<1> QED
  BY <1>1, <1>2, <1>3, <1>4, <1>5

\* A tunnel that is passed through is dialled.
LEMMA DialIsSound ==
  ASSUME NEW s, Sound(s), s.pc = "dialing", NEW q \in {"tunnel", "closed"}
  PROVE  Sound([s EXCEPT !.pc = q, !.dialed = s.port])
<1> DEFINE t == [s EXCEPT !.pc = q, !.dialed = s.port]
<1> USE PipelineAssumption
    DEF Sound, ConnType, Undecided, Serving, InChain, PC
<1>a. /\ s.mode = "tunnel"
      /\ s.received = 0
      /\ s.told = {}
      /\ s.due = "none"
  BY DEF Phase
<1>1. t \in ConnType
  OBVIOUS
<1>2. Phase(t)
  BY <1>a DEF Phase
<1>3. Decision(t)
  BY <1>a DEF Phase, Decision
<1>4. Chain(t)
  BY <1>a DEF Phase, Chain
<1>5. Books(t)
  BY <1>a DEF Phase, Books
<1> QED
  BY <1>1, <1>2, <1>3, <1>4, <1>5

\* handle_request of one handler forwards the request to the next.
LEMMA ContinueIsSound ==
  ASSUME NEW s, Sound(s), s.pc = "onRequest", s.step \in Handlers
  PROVE  Sound([s EXCEPT !.asked = @ \cup {s.step}, !.step = @ + 1])
<1> DEFINE t == [s EXCEPT !.asked = @ \cup {s.step}, !.step = @ + 1]
<1> USE PipelineAssumption
    DEF Sound, ConnType, Undecided, Serving, InChain, Handlers
<1>a. s.step + 1 \in Nat
  OBVIOUS
<1>b. /\ s.step + 1 \in 1..(NHandlers + 1)
      /\ s.asked \cup {s.step} = 1..((s.step + 1) - 1)
  BY DEF Chain
<1>1. t \in ConnType
  BY <1>a
<1>2. Phase(t)
  BY DEF Phase
<1>3. Decision(t)
  BY DEF Phase, Decision
<1>4. Chain(t)
  BY <1>b DEF Phase, Chain
<1>5. Books(t)
  BY DEF Phase, Books
<1> QED
  BY <1>1, <1>2, <1>3, <1>4, <1>5

\* handle_request of one handler answers by itself.
LEMMA ShortIsSound ==
  ASSUME NEW s, Sound(s), s.pc = "onRequest", s.step \in Handlers
  PROVE  Sound([s EXCEPT !.asked = @ \cup {s.step}, !.pc = "reply", !.due = "short"])
<1> DEFINE t == [s EXCEPT !.asked = @ \cup {s.step}, !.pc = "reply", !.due = "short"]
<1> USE PipelineAssumption
    DEF Sound, ConnType, Undecided, Serving, InChain, PC, Reply, Handlers
<1>a. s.asked \cup {s.step} = 1..s.step
  BY DEF Chain
<1>1. t \in ConnType
  OBVIOUS
<1>2. Phase(t)
  BY DEF Phase
<1>3. Decision(t)
  BY DEF Phase, Decision
<1>4. Chain(t)
  BY <1>a DEF Phase, Chain
<1>5. Books(t)
  BY DEF Phase, Books
<1> QED
  BY <1>1, <1>2, <1>3, <1>4, <1>5

\* handle_request of one handler fails.
LEMMA RequestErrorIsSound ==
  ASSUME NEW s, Sound(s), s.pc = "onRequest", s.step \in Handlers
  PROVE  Sound(ErrorExit([s EXCEPT !.asked = @ \cup {s.step}]))
<1> DEFINE t == ErrorExit([s EXCEPT !.asked = @ \cup {s.step}])
<1> USE PipelineAssumption
    DEF Sound, ConnType, Undecided, Serving, InChain,
        ErrorExit, PC, Reply, Fault, Handlers
<1>1. t \in ConnType
  OBVIOUS
<1>2. Phase(t)
  BY DEF Phase
<1>3. Decision(t)
  BY DEF Phase, Decision
<1>4. Chain(t)
  BY DEF Phase, Chain
<1>5. Books(t)
  BY DEF Phase, Books
<1> QED
  BY <1>1, <1>2, <1>3, <1>4, <1>5

\* The request is sent upstream.
LEMMA ForwardIsSound ==
  ASSUME NEW s, Sound(s), s.pc = "onRequest", s.step \notin Handlers
  PROVE  Sound([s EXCEPT !.pc = "upstream", !.contacts = @ + 1,
                         !.dialed = IF s.mode = "mitm" THEN TlsPort ELSE s.port])
<1> DEFINE t == [s EXCEPT !.pc = "upstream", !.contacts = @ + 1,
                          !.dialed = IF s.mode = "mitm" THEN TlsPort ELSE s.port]
<1> USE PipelineAssumption
    DEF Sound, ConnType, Undecided, Serving, InChain, PC, Handlers, NoPort
<1>a. s.contacts + 1 \in Nat
  OBVIOUS
<1>b. /\ s.step = NHandlers + 1
      /\ s.step - 1 = NHandlers
      /\ s.asked = Handlers
  BY DEF Chain
<1>c. s.mode = "mitm" \/ (s.mode = "plain" /\ s.port # NoPort)
  BY DEF Phase, Chain
<1>d. s.contacts < s.received
  BY DEF Chain, Books
<1>1. t \in ConnType
  BY <1>a
<1>2. Phase(t)
  BY DEF Phase
<1>3. Decision(t)
  BY DEF Phase, Decision
<1>4. Chain(t)
  BY <1>b, <1>c DEF Phase, Chain
<1>5. Books(t)
  BY <1>a, <1>c, <1>d DEF Phase, Books
<1> QED
  BY <1>1, <1>2, <1>3, <1>4, <1>5

\* A WebSocket upgrade inside a tunnel is accepted.
LEMMA UpgradeIsSound ==
  ASSUME NEW s, Sound(s), s.pc = "onRequest", s.step \notin Handlers,
         s.mode = "mitm"
  PROVE  Sound([s EXCEPT !.pc = "reply", !.due = "switching", !.ws = TRUE])
<1> DEFINE t == [s EXCEPT !.pc = "reply", !.due = "switching", !.ws = TRUE]
<1> USE PipelineAssumption
    DEF Sound, ConnType, Undecided, Serving, InChain, PC, Reply, Handlers
<1>a. /\ s.step = NHandlers + 1
      /\ s.step - 1 = NHandlers
      /\ s.asked = Handlers
  BY DEF Chain
<1>1. t \in ConnType
  OBVIOUS
<1>2. Phase(t)
  BY DEF Phase
<1>3. Decision(t)
  BY DEF Phase, Decision
<1>4. Chain(t)
  BY <1>a DEF Phase, Chain
<1>5. Books(t)
  BY DEF Phase, Books
<1> QED
  BY <1>1, <1>2, <1>3, <1>4, <1>5

\* The upstream's reply enters the response chain.
LEMMA AnswerIsSound ==
  ASSUME NEW s, Sound(s), s.pc = "upstream"
  PROVE  Sound([s EXCEPT !.pc = "onResponse", !.step = 1])
<1> DEFINE t == [s EXCEPT !.pc = "onResponse", !.step = 1]
<1> USE PipelineAssumption
    DEF Sound, ConnType, Undecided, Serving, InChain, PC
<1>a. 1..(1 - 1) = {} /\ 1 \in 1..(NHandlers + 1)
  OBVIOUS
<1>1. t \in ConnType
  OBVIOUS
<1>2. Phase(t)
  BY DEF Phase
<1>3. Decision(t)
  BY DEF Phase, Decision
<1>4. Chain(t)
  BY <1>a DEF Phase, Chain
<1>5. Books(t)
  BY DEF Phase, Books
<1> QED
  BY <1>1, <1>2, <1>3, <1>4, <1>5

\* The upstream call fails.
LEMMA UpstreamErrorIsSound ==
  ASSUME NEW s, Sound(s), s.pc = "upstream"
  PROVE  Sound(ErrorExit(s))
<1> DEFINE t == ErrorExit(s)
<1> USE PipelineAssumption
    DEF Sound, ConnType, Undecided, Serving, InChain,
        ErrorExit, PC, Reply, Fault
<1>1. t \in ConnType
  OBVIOUS
<1>2. Phase(t)
  BY DEF Phase
<1>3. Decision(t)
  BY DEF Phase, Decision
<1>4. Chain(t)
  BY DEF Phase, Chain
<1>5. Books(t)
  BY DEF Phase, Books
<1> QED
  BY <1>1, <1>2, <1>3, <1>4, <1>5

\* handle_response of one handler passes the reply to the next.
LEMMA ToldIsSound ==
  ASSUME NEW s, Sound(s), s.pc = "onResponse", s.step \in Handlers
  PROVE  Sound([s EXCEPT !.told = @ \cup {s.step}, !.step = @ + 1])
<1> DEFINE t == [s EXCEPT !.told = @ \cup {s.step}, !.step = @ + 1]
<1> USE PipelineAssumption
    DEF Sound, ConnType, Undecided, Serving, InChain, Handlers
<1>a. s.step + 1 \in Nat
  OBVIOUS
<1>b. /\ s.step + 1 \in 1..(NHandlers + 1)
      /\ s.told \cup {s.step} = 1..((s.step + 1) - 1)
  BY DEF Chain
<1>1. t \in ConnType
  BY <1>a
<1>2. Phase(t)
  BY DEF Phase
<1>3. Decision(t)
  BY DEF Phase, Decision
<1>4. Chain(t)
  BY <1>b DEF Phase, Chain
<1>5. Books(t)
  BY DEF Phase, Books
<1> QED
  BY <1>1, <1>2, <1>3, <1>4, <1>5

\* handle_response of one handler fails.
LEMMA ResponseErrorIsSound ==
  ASSUME NEW s, Sound(s), s.pc = "onResponse", s.step \in Handlers
  PROVE  Sound(ErrorExit([s EXCEPT !.told = @ \cup {s.step}]))
<1> DEFINE t == ErrorExit([s EXCEPT !.told = @ \cup {s.step}])
<1> USE PipelineAssumption
    DEF Sound, ConnType, Undecided, Serving, InChain,
        ErrorExit, PC, Reply, Fault, Handlers
<1>1. t \in ConnType
  OBVIOUS
<1>2. Phase(t)
  BY DEF Phase
<1>3. Decision(t)
  BY DEF Phase, Decision
<1>4. Chain(t)
  BY DEF Phase, Chain
<1>5. Books(t)
  BY DEF Phase, Books
<1> QED
  BY <1>1, <1>2, <1>3, <1>4, <1>5

\* The reply has passed every handler.
LEMMA ReadyIsSound ==
  ASSUME NEW s, Sound(s), s.pc = "onResponse", s.step \notin Handlers
  PROVE  Sound([s EXCEPT !.pc = "reply", !.due = "upstream"])
<1> DEFINE t == [s EXCEPT !.pc = "reply", !.due = "upstream"]
<1> USE PipelineAssumption
    DEF Sound, ConnType, Undecided, Serving, InChain, PC, Reply, Handlers
<1>a. /\ s.step = NHandlers + 1
      /\ s.step - 1 = NHandlers
      /\ s.told = Handlers
  BY DEF Chain
<1>1. t \in ConnType
  OBVIOUS
<1>2. Phase(t)
  BY DEF Phase
<1>3. Decision(t)
  BY DEF Phase, Decision
<1>4. Chain(t)
  BY <1>a DEF Phase, Chain
<1>5. Books(t)
  BY DEF Phase, Books
<1> QED
  BY <1>1, <1>2, <1>3, <1>4, <1>5

\* The reply is written, and the connection goes on as AfterReply says.
LEMMA WriteIsSound ==
  ASSUME NEW s, Sound(s), s.pc = "reply", NEW q \in AfterReply(s)
  PROVE  Sound([s EXCEPT !.pc = q, !.replied = @ + 1])
<1> DEFINE t == [s EXCEPT !.pc = q, !.replied = @ + 1]
<1> USE PipelineAssumption
    DEF Sound, ConnType, Undecided, Serving, InChain, AfterReply, PC
<1>a. s.replied + 1 \in Nat
  OBVIOUS
<1>b. /\ (q \in {"wsDial", "idle"} => s.mode = "mitm")
      /\ (q = "wsDial" => s.due = "switching")
  BY DEF Phase, Chain
<1>1. t \in ConnType
  BY <1>a
<1>2. Phase(t)
  BY <1>b DEF Phase
<1>3. Decision(t)
  BY <1>b DEF Phase, Decision
<1>4. Chain(t)
  BY <1>b DEF Phase, Chain
<1>5. Books(t)
  BY <1>a, <1>b DEF Phase, Books
<1> QED
  BY <1>1, <1>2, <1>3, <1>4, <1>5

\* The body of the reply breaks off.
LEMMA BreakIsSound ==
  ASSUME NEW s, Sound(s), s.pc = "reply", s.due \in {"upstream", "short"}
  PROVE  Sound([s EXCEPT !.pc = "closed", !.fault = "error", !.replied = @ + 1])
<1> DEFINE t == [s EXCEPT !.pc = "closed", !.fault = "error", !.replied = @ + 1]
<1> USE PipelineAssumption
    DEF Sound, ConnType, Undecided, Serving, InChain, PC, Fault
<1>a. s.replied + 1 \in Nat
  OBVIOUS
<1>1. t \in ConnType
  BY <1>a
<1>2. Phase(t)
  BY DEF Phase
<1>3. Decision(t)
  BY DEF Phase, Decision
<1>4. Chain(t)
  BY DEF Phase, Chain
<1>5. Books(t)
  BY <1>a DEF Phase, Books
<1> QED
  BY <1>1, <1>2, <1>3, <1>4, <1>5

\* handle_https_websocket dials the upstream of an upgraded connection.
LEMMA UpgradedIsSound ==
  ASSUME NEW s, Sound(s), s.pc = "wsDial", NEW q \in {"relay", "closed"}
  PROVE  Sound([s EXCEPT !.pc = q, !.dialed = TlsPort, !.contacts = @ + 1])
<1> DEFINE t == [s EXCEPT !.pc = q, !.dialed = TlsPort, !.contacts = @ + 1]
<1> USE PipelineAssumption
    DEF Sound, ConnType, Undecided, Serving, InChain, PC
<1>a. s.contacts + 1 \in Nat
  OBVIOUS
<1>b. s.dialed = NoPort /\ s.contacts < s.received
  BY DEF Chain, Books, NoPort
<1>1. t \in ConnType
  BY <1>a
<1>2. Phase(t)
  BY DEF Phase
<1>3. Decision(t)
  BY DEF Phase, Decision
<1>4. Chain(t)
  BY DEF Phase, Chain
<1>5. Books(t)
  BY <1>a, <1>b DEF Phase, Books
<1> QED
  BY <1>1, <1>2, <1>3, <1>4, <1>5

\* A connection closes, with a reason if a reply is due.
LEMMA CloseIsSound ==
  ASSUME NEW s, Sound(s), NEW f \in Fault,
         f = "none" => s.fault = "none" /\ s.pc \notin Serving \cup {"closed"}
  PROVE  Sound([s EXCEPT !.pc = "closed", !.fault = f])
<1> DEFINE t == [s EXCEPT !.pc = "closed", !.fault = f]
<1> USE PipelineAssumption
    DEF Sound, ConnType, Undecided, Serving, InChain, PC
<1>1. t \in ConnType
  OBVIOUS
<1>2. Phase(t)
  BY DEF Phase
<1>3. Decision(t)
  BY DEF Phase, Decision
<1>4. Chain(t)
  BY DEF Phase, Chain
<1>5. Books(t)
  BY DEF Phase, Books
<1> QED
  BY <1>1, <1>2, <1>3, <1>4, <1>5
----------------------------------------------------------------------------
(* The invariant.                                                          *)

\* The accept loop has not started: no task, whatever the switch is set to.
LEMMA InitInvariant == Init => IInv
<1> SUFFICES ASSUME Init PROVE IInv
  OBVIOUS
<1> USE PipelineAssumption DEF Init
<1>1. Fresh \in ConnType
  BY DEF Fresh, ConnType, PC, Mode, Reply, Fault, NoPort
<1>2. Phase(Fresh) /\ Decision(Fresh)
  BY DEF Fresh, Phase, Decision, Undecided, Serving, InChain, NoPort
<1>3. Chain(Fresh) /\ Books(Fresh)
  BY DEF Fresh, Chain, Books, Undecided, Serving, InChain, NoPort
<1>4. Sound(Fresh) /\ SeesFlag(Fresh, enabled)
  BY <1>1, <1>2, <1>3 DEF Sound, SeesFlag, Fresh
<1>5. TypeOK
  BY <1>1 DEF TypeOK
<1> QED
  BY <1>4, <1>5 DEF IInv

\* One task moves to a sound record, the other tasks and the switch stay.
LEMMA OneTaskMoves ==
  ASSUME IInv, NEW c \in Conn, NEW t, conn' = [conn EXCEPT ![c] = t],
         Sound(t), SeesFlag(t, enabled),
         UNCHANGED <<listener, enabled>>, nextId' \in Nat
  PROVE  IInv'
<1>1. conn'[c] = t /\ \A d \in Conn \ {c} : conn'[d] = conn[d]
  BY DEF IInv, TypeOK
<1>2. TypeOK'
  BY DEF IInv, TypeOK, Sound
<1>3. \A d \in Conn : Sound(conn'[d]) /\ SeesFlag(conn'[d], enabled)
  BY <1>1 DEF IInv
<1> QED
  BY <1>2, <1>3 DEF IInv

\* The same for a step that touches nothing shared.
LEMMA TaskMoves ==
  ASSUME IInv, NEW c \in Conn, NEW from, NEW t, Task(c, from, t),
         Sound(t), t.pc # "established" \/ enabled \in t.flagSeen
  PROVE  IInv'
  BY OneTaskMoves DEF Task, shared, SeesFlag, IInv, TypeOK

\* A connection closes, for one of the reasons CloseIsSound allows.
LEMMA Closes ==
  ASSUME IInv, NEW c \in Conn, NEW from, NEW f \in Fault,
         f = "none" => /\ conn[c].fault = "none"
                       /\ conn[c].pc \notin Serving \cup {"closed"},
         Task(c, from, [conn[c] EXCEPT !.pc = "closed", !.fault = f])
  PROVE  IInv'
<1>1. Sound([conn[c] EXCEPT !.pc = "closed", !.fault = f])
  BY CloseIsSound DEF IInv
<1>2. [conn[c] EXCEPT !.pc = "closed", !.fault = f].pc # "established"
  BY DEF IInv, TypeOK, ConnType
<1> QED
  BY <1>1, <1>2, TaskMoves

\* The same without a reason: no reply is due.
LEMMA Ends ==
  ASSUME IInv, NEW c \in Conn, NEW from,
         conn[c].pc \notin Serving \cup {"closed"},
         Task(c, from, [conn[c] EXCEPT !.pc = "closed"])
  PROVE  IInv'
<1> DEFINE s == conn[c]
<1>1. s \in ConnType /\ s.fault \in Fault
  BY DEF IInv, TypeOK, ConnType
<1>2. [s EXCEPT !.pc = "closed"] = [s EXCEPT !.pc = "closed", !.fault = s.fault]
  BY <1>1 DEF ConnType
<1> QED
  BY <1>1, <1>2, Closes

\* Every step of every task, of the accept loop and of the switch.
LEMMA StepInvariant == IInv /\ [Next]_vars => IInv'
<1> SUFFICES ASSUME IInv, [Next]_vars PROVE IInv'
  OBVIOUS
<1> USE PipelineAssumption
<1>S. /\ \A c \in Conn : Sound(conn[c]) /\ conn[c] \in ConnType
      /\ nextId \in Nat /\ enabled \in BOOLEAN
      /\ conn \in [Conn -> ConnType]
  BY DEF IInv, TypeOK, Sound
<1>1. ASSUME UNCHANGED vars PROVE IInv'
  BY <1>1 DEF vars, IInv, TypeOK
<1>2. ASSUME AcceptFails PROVE IInv'
  BY <1>2 DEF AcceptFails, IInv, TypeOK
<1>3. ASSUME NEW b \in BOOLEAN, SetEnabled(b) PROVE IInv'
  <2> DEFINE t(c) == IF conn[c].pc = "established"
                       THEN [conn[c] EXCEPT !.flagSeen = @ \cup {b}]
                       ELSE conn[c]
  <2>1. ASSUME NEW c \in Conn PROVE Sound(t(c)) /\ SeesFlag(t(c), b)
    <3>1. CASE conn[c].pc = "established"
      BY <1>S, <3>1, FlagIsSound DEF SeesFlag, ConnType
    <3>2. CASE conn[c].pc # "established"
      BY <1>S, <3>2 DEF SeesFlag
    <3> QED
      BY <3>1, <3>2
  <2>2. conn' = [c \in Conn |-> t(c)] /\ enabled' = b /\ UNCHANGED <<listener, nextId>>
    BY <1>3 DEF SetEnabled
  <2>3. \A c \in Conn : t(c) \in ConnType
    BY <2>1 DEF Sound
  <2> HIDE DEF t
  <2>4. TypeOK'
    BY <1>S, <2>2, <2>3 DEF IInv, TypeOK
  <2> QED
    BY <2>1, <2>2, <2>4 DEF IInv
<1>4. ASSUME NEW c \in Conn, Connect(c) PROVE IInv'
  <2> DEFINE t == [conn[c] EXCEPT !.pc = "backlog"]
  <2>1. Task(c, "absent", t) /\ t.pc # "established"
    BY <1>4, <1>S DEF Connect, ConnType, Task
  <2>2. Sound(t)
    BY <1>4, <1>S, QueueingIsSound DEF Connect, Task
  <2> HIDE DEF t
  <2> QED
    BY <2>1, <2>2, TaskMoves
<1>5. ASSUME NEW c \in Conn, Accept(c) PROVE IInv'
  <2> DEFINE t == [conn[c] EXCEPT !.pc = "reading"]
  <2>1. Task(c, "backlog", t) /\ t.pc # "established"
    BY <1>5, <1>S DEF Accept, ConnType, Task
  <2>2. Sound(t)
    BY <1>5, <1>S, QueueingIsSound DEF Accept, Task
  <2> HIDE DEF t
  <2> QED
    BY <2>1, <2>2, TaskMoves
<1>6. ASSUME NEW c \in Conn, ReadHostless(c) PROVE IInv'
  <2> DEFINE t == [conn[c] EXCEPT !.pc = "reply", !.mode = "plain",
                            !.received = @ + 1, !.due = "badRequest"]
  <2>1. Task(c, "reading", t) /\ t.pc # "established"
    BY <1>6, <1>S DEF ReadHostless, ConnType, Task
  <2>2. Sound(t)
    BY <1>6, <1>S, HostlessIsSound DEF ReadHostless, Task
  <2> HIDE DEF t
  <2> QED
    BY <2>1, <2>2, TaskMoves
<1>7. ASSUME NEW c \in Conn, UpgradeInside(c) PROVE IInv'
  <2> DEFINE t == [conn[c] EXCEPT !.pc = "reply", !.due = "switching", !.ws = TRUE]
  <2>1. Task(c, "onRequest", t) /\ t.pc # "established"
    BY <1>7, <1>S DEF UpgradeInside, ConnType, Task
  <2>2. Sound(t)
    BY <1>7, <1>S, UpgradeIsSound DEF UpgradeInside, Task
  <2> HIDE DEF t
  <2> QED
    BY <2>1, <2>2, TaskMoves
<1>8. ASSUME NEW c \in Conn, Intercept(c) PROVE IInv'
  <2> DEFINE t == [conn[c] EXCEPT !.pc = "handshake", !.mode = "mitm"]
  <2>1. Task(c, "asking", t) /\ t.pc # "established"
    BY <1>8, <1>S DEF Intercept, ConnType, Task
  <2>2. Sound(t)
    BY <1>8, <1>S, InterceptIsSound DEF Intercept, Task
  <2> HIDE DEF t
  <2> QED
    BY <2>1, <2>2, TaskMoves
<1>9. ASSUME NEW c \in Conn, Forward(c) PROVE IInv'
  <2> DEFINE t == [conn[c] EXCEPT !.pc = "upstream", !.contacts = @ + 1,
                            !.dialed = IF conn[c].mode = "mitm" THEN TlsPort
                            ELSE conn[c].port]
  <2>1. Task(c, "onRequest", t) /\ t.pc # "established"
    BY <1>9, <1>S DEF Forward, ConnType, Task
  <2>2. Sound(t)
    BY <1>9, <1>S, ForwardIsSound DEF Forward, Task
  <2> HIDE DEF t
  <2> QED
    BY <2>1, <2>2, TaskMoves
<1>10. ASSUME NEW c \in Conn, UpstreamAnswers(c) PROVE IInv'
  <2> DEFINE t == [conn[c] EXCEPT !.pc = "onResponse", !.step = 1]
  <2>1. Task(c, "upstream", t) /\ t.pc # "established"
    BY <1>10, <1>S DEF UpstreamAnswers, ConnType, Task
  <2>2. Sound(t)
    BY <1>10, <1>S, AnswerIsSound DEF UpstreamAnswers, Task
  <2> HIDE DEF t
  <2> QED
    BY <2>1, <2>2, TaskMoves
<1>11. ASSUME NEW c \in Conn, ResponseReady(c) PROVE IInv'
  <2> DEFINE t == [conn[c] EXCEPT !.pc = "reply", !.due = "upstream"]
  <2>1. Task(c, "onResponse", t) /\ t.pc # "established"
    BY <1>11, <1>S DEF ResponseReady, ConnType, Task
  <2>2. Sound(t)
    BY <1>11, <1>S, ReadyIsSound DEF ResponseReady, Task
  <2> HIDE DEF t
  <2> QED
    BY <2>1, <2>2, TaskMoves
<1>12. ASSUME NEW c \in Conn, BodyBreaks(c) PROVE IInv'
  <2> DEFINE t == [conn[c] EXCEPT !.pc = "closed", !.fault = "error",
                            !.replied = @ + 1]
  <2>1. Task(c, "reply", t) /\ t.pc # "established"
    BY <1>12, <1>S DEF BodyBreaks, ConnType, Task
  <2>2. Sound(t)
    BY <1>12, <1>S, BreakIsSound DEF BodyBreaks, Task
  <2> HIDE DEF t
  <2> QED
    BY <2>1, <2>2, TaskMoves
<1>13. ASSUME NEW c \in Conn, ReadFails(c) PROVE IInv'
  BY <1>13, Ends DEF ReadFails, Task, Serving, InChain
<1>14. ASSUME NEW c \in Conn, TunnelEnds(c) PROVE IInv'
  BY <1>14, Ends DEF TunnelEnds, Task, Serving, InChain
<1>15. ASSUME NEW c \in Conn, KeepAliveEnds(c) PROVE IInv'
  BY <1>15, Ends DEF KeepAliveEnds, Task, Serving, InChain
<1>16. ASSUME NEW c \in Conn, RelayEnds(c) PROVE IInv'
  BY <1>16, Ends DEF RelayEnds, Task, Serving, InChain
<1>17. ASSUME NEW c \in Conn, RewriteFails(c) PROVE IInv'
  BY <1>17, Closes DEF RewriteFails, Fault
<1>18. ASSUME NEW c \in Conn, ClientLeaves(c) PROVE IInv'
  BY <1>18, Closes DEF ClientLeaves, Fault
<1>19. ASSUME NEW c \in Conn, HandlerPanics(c) PROVE IInv'
  BY <1>19, Closes DEF HandlerPanics, Fault
<1>20. ASSUME NEW c \in Conn, NEW p \in Ports, ReadConnect(c, p) PROVE IInv'
  <2> DEFINE t == [conn[c] EXCEPT !.pc = "established", !.port = p,
                                  !.flagSeen = {enabled}]
  <2>1. Task(c, "reading", t) /\ enabled \in t.flagSeen
    BY <1>20, <1>S DEF ReadConnect, ConnType
  <2>2. Sound(t)
    BY <1>20, <1>S, ConnectIsSound DEF ReadConnect, Task
  <2> HIDE DEF t
  <2> QED
    BY <2>1, <2>2, TaskMoves
<1>21. ASSUME NEW c \in Conn, NEW w \in BOOLEAN, NEW p \in Ports,
            ReadHttp(c, w, p)
     PROVE  IInv'
  <2> DEFINE t == [Opened(conn[c], w, p) EXCEPT !.mode = "plain"]
  <2>1. Sound(t)
    BY <1>21, <1>S, HttpIsSound DEF ReadHttp
  <2>2. SeesFlag(t, enabled)
    BY <1>S DEF SeesFlag, Opened, ConnType
  <2>3. conn' = [conn EXCEPT ![c] = t] /\ UNCHANGED <<listener, enabled>>
    BY <1>21 DEF ReadHttp
  <2>4. nextId' \in Nat
    BY <1>21, <1>S DEF ReadHttp
  <2> HIDE DEF t
  <2> QED
    BY <2>1, <2>2, <2>3, <2>4, OneTaskMoves
<1>22. ASSUME NEW c \in Conn, NextRequest(c) PROVE IInv'
  <2> DEFINE t == Opened(conn[c], FALSE, conn[c].port)
  <2>1. Sound(t)
    BY <1>22, <1>S, NextIsSound DEF NextRequest
  <2>2. SeesFlag(t, enabled)
    BY <1>S DEF SeesFlag, Opened, ConnType
  <2>3. conn' = [conn EXCEPT ![c] = t] /\ UNCHANGED <<listener, enabled>>
    BY <1>22 DEF NextRequest
  <2>4. nextId' \in Nat
    BY <1>22, <1>S DEF NextRequest
  <2> HIDE DEF t
  <2> QED
    BY <2>1, <2>2, <2>3, <2>4, OneTaskMoves
<1>23. ASSUME NEW c \in Conn, LoadEnabled(c) PROVE IInv'
  <2> DEFINE ask == [conn[c] EXCEPT !.pc = "asking", !.step = 1]
             pass == [conn[c] EXCEPT !.pc = "dialing", !.mode = "tunnel"]
  <2>1. conn[c].pc = "established" /\ enabled \in conn[c].flagSeen
    BY <1>23 DEF LoadEnabled, Task, IInv, SeesFlag
  <2>2. CASE enabled
    <3>1. Task(c, "established", ask) /\ ask.pc # "established"
      BY <1>23, <1>S, <2>2 DEF LoadEnabled, ConnType
    <3>2. TRUE \in conn[c].flagSeen
      BY <1>S, <2>1, <2>2
    <3>3. Sound(ask)
      BY <1>S, <2>1, <3>2, AskingIsSound
    <3> HIDE DEF ask
    <3> QED
      BY <3>1, <3>3, TaskMoves
  <2>3. CASE ~enabled
    <3>1. Task(c, "established", pass) /\ pass.pc # "established"
      BY <1>23, <1>S, <2>3 DEF LoadEnabled, ConnType
    <3>2. FALSE \in conn[c].flagSeen
      BY <1>S, <2>1, <2>3
    <3>3. Sound(pass)
      BY <1>S, <2>1, <3>2, PassingIsSound
    <3> HIDE DEF pass
    <3> QED
      BY <3>1, <3>3, TaskMoves
  <2> QED
    BY <2>2, <2>3
<1>24. ASSUME NEW c \in Conn, AskHandler(c) PROVE IInv'
  <2> DEFINE agree == [conn[c] EXCEPT !.step = @ + 1, !.agreed = @ \cup {conn[c].step}]
             pass == [conn[c] EXCEPT !.pc = "dialing", !.mode = "tunnel"]
  <2>1. conn[c].pc = "asking" /\ conn[c].step \in Handlers
    BY <1>24 DEF AskHandler, Task
  <2>2. Sound(agree) /\ Sound(pass)
    BY <1>S, <2>1, AgreeingIsSound, PassingIsSound
  <2>3. agree.pc # "established" /\ pass.pc # "established"
    BY <1>S, <2>1 DEF ConnType
  <2>4. Task(c, "asking", agree) \/ Task(c, "asking", pass)
    BY <1>24 DEF AskHandler
  <2> HIDE DEF agree, pass
  <2> QED
    BY <2>2, <2>3, <2>4, TaskMoves
<1>25. ASSUME NEW c \in Conn, Handshake(c) PROVE IInv'
  <2>1. CASE Task(c, "handshake", [conn[c] EXCEPT !.pc = "closed"])
    BY <2>1, Ends DEF Task, Serving, InChain
  <2>2. CASE Task(c, "handshake", [conn[c] EXCEPT !.pc = "idle"])
    <3> DEFINE t == [conn[c] EXCEPT !.pc = "idle"]
    <3>1. Sound(t) /\ t.pc # "established"
      BY <2>2, <1>S, HandshakeIsSound DEF Task, ConnType
    <3> HIDE DEF t
    <3> QED
      BY <2>2, <3>1, TaskMoves DEF t
  <2> QED
    BY <1>25, <2>1, <2>2 DEF Handshake
<1>26. ASSUME NEW c \in Conn, DialTunnel(c) PROVE IInv'
  <2>1. PICK q \in {"tunnel", "closed"} :
          Task(c, "dialing", [conn[c] EXCEPT !.pc = q, !.dialed = conn[c].port])
    BY <1>26 DEF DialTunnel
  <2> DEFINE t == [conn[c] EXCEPT !.pc = q, !.dialed = conn[c].port]
  <2>2. Sound(t)
    BY <1>S, <2>1, DialIsSound DEF Task
  <2>3. t.pc # "established"
    BY <1>S, <2>1 DEF ConnType
  <2>4. Task(c, "dialing", t)
    BY <2>1
  <2> HIDE DEF t
  <2> QED
    BY <2>2, <2>3, <2>4, TaskMoves
<1>27. ASSUME NEW c \in Conn, DialWebSocket(c) PROVE IInv'
  <2>1. PICK q \in {"relay", "closed"} :
          Task(c, "wsDial", [conn[c] EXCEPT !.pc = q, !.dialed = TlsPort, !.contacts = @ + 1])
    BY <1>27 DEF DialWebSocket
  <2> DEFINE t == [conn[c] EXCEPT !.pc = q, !.dialed = TlsPort, !.contacts = @ + 1]
  <2>2. Sound(t)
    BY <1>S, <2>1, UpgradedIsSound DEF Task
  <2>3. t.pc # "established"
    BY <1>S, <2>1 DEF ConnType
  <2>4. Task(c, "wsDial", t)
    BY <2>1
  <2> HIDE DEF t
  <2> QED
    BY <2>2, <2>3, <2>4, TaskMoves
<1>28. ASSUME NEW c \in Conn, WriteReply(c) PROVE IInv'
  <2>1. PICK q \in AfterReply(conn[c]) :
          Task(c, "reply", [conn[c] EXCEPT !.pc = q, !.replied = @ + 1])
    BY <1>28 DEF WriteReply
  <2> DEFINE t == [conn[c] EXCEPT !.pc = q, !.replied = @ + 1]
  <2>2. Sound(t)
    BY <1>S, <2>1, WriteIsSound DEF Task
  <2>3. t.pc # "established"
    BY <1>S, <2>1 DEF ConnType, AfterReply
  <2>4. Task(c, "reply", t)
    BY <2>1
  <2> HIDE DEF t
  <2> QED
    BY <2>2, <2>3, <2>4, TaskMoves
<1>29. ASSUME NEW c \in Conn, UpstreamFails(c) PROVE IInv'
  <2> DEFINE t == ErrorExit(conn[c])
  <2>1. Task(c, "upstream", t) /\ t.pc # "established"
    BY <1>29, <1>S DEF UpstreamFails, ErrorExit, ConnType
  <2>2. Sound(t)
    BY <1>29, <1>S, UpstreamErrorIsSound DEF UpstreamFails, Task
  <2> HIDE DEF t
  <2> QED
    BY <2>1, <2>2, TaskMoves
<1>30. ASSUME NEW c \in Conn, RequestHook(c) PROVE IInv'
  <2> DEFINE s == [conn[c] EXCEPT !.asked = @ \cup {conn[c].step}]
             on == [conn[c] EXCEPT !.asked = @ \cup {conn[c].step}, !.step = @ + 1]
             short == [conn[c] EXCEPT !.asked = @ \cup {conn[c].step}, !.pc = "reply",
                                      !.due = "short"]
  <2>1. conn[c].pc = "onRequest" /\ conn[c].step \in Handlers
    BY <1>30 DEF RequestHook, Task
  <2>2. Sound(on) /\ Sound(short) /\ Sound(ErrorExit(s))
    BY <1>S, <2>1, ContinueIsSound, ShortIsSound, RequestErrorIsSound
  <2>3. /\ on.pc # "established" /\ short.pc # "established"
        /\ ErrorExit(s).pc # "established"
    BY <1>S, <2>1 DEF ErrorExit, ConnType
  <2>4. /\ [s EXCEPT !.step = @ + 1] = on
        /\ [s EXCEPT !.pc = "reply", !.due = "short"] = short
    BY <1>S DEF ConnType
  <2>5. \/ Task(c, "onRequest", on)
        \/ Task(c, "onRequest", short)
        \/ Task(c, "onRequest", ErrorExit(s))
    BY <1>30, <2>4 DEF RequestHook
  <2> HIDE DEF on, short, s
  <2> QED
    BY <2>2, <2>3, <2>5, TaskMoves
<1>31. ASSUME NEW c \in Conn, ResponseHook(c) PROVE IInv'
  <2> DEFINE s == [conn[c] EXCEPT !.told = @ \cup {conn[c].step}]
             on == [conn[c] EXCEPT !.told = @ \cup {conn[c].step}, !.step = @ + 1]
  <2>1. conn[c].pc = "onResponse" /\ conn[c].step \in Handlers
    BY <1>31 DEF ResponseHook, Task
  <2>2. Sound(on) /\ Sound(ErrorExit(s))
    BY <1>S, <2>1, ToldIsSound, ResponseErrorIsSound
  <2>3. on.pc # "established" /\ ErrorExit(s).pc # "established"
    BY <1>S, <2>1 DEF ErrorExit, ConnType
  <2>4. [s EXCEPT !.step = @ + 1] = on
    BY <1>S DEF ConnType
  <2>5. Task(c, "onResponse", on) \/ Task(c, "onResponse", ErrorExit(s))
    BY <1>31, <2>4 DEF ResponseHook
  <2> HIDE DEF on, s
  <2> QED
    BY <2>2, <2>3, <2>5, TaskMoves
<1> QED
  BY <1>1, <1>2, <1>3, <1>4, <1>5, <1>6, <1>7, <1>8, <1>9, <1>10, <1>11, <1>12,
     <1>13, <1>14, <1>15, <1>16, <1>17, <1>18, <1>19, <1>20, <1>21, <1>22,
     <1>23, <1>24, <1>25, <1>26, <1>27, <1>28, <1>29, <1>30, <1>31
  DEF Next, ProxyStep, WrittenStep, UpstreamStep, EnvironmentStep

LEMMA Inductive == Spec => []IInv
  BY InitInvariant, StepInvariant, PTL DEF Spec
----------------------------------------------------------------------------
(* The theorems.                                                           *)

\* Every task's record keeps its type, whatever the handlers, peers and the
\* switch do.
THEOREM TypesAlways == Spec => []TypeOK
<1>1. IInv => TypeOK
  BY DEF IInv
<1> QED
  BY <1>1, Inductive, PTL

\* HandlerStack around the upstream call: nothing goes upstream before every
\* handler has forwarded it, nothing comes back past a handler, and a
\* short-circuit is final.
THEOREM ChainAlways == Spec => []ChainDiscipline
<1>1. IInv => ChainDiscipline
  BY DEF IInv, Sound, Chain, ChainDiscipline
<1> QED
  BY <1>1, Inductive, PTL

\* EnabledWrapperHandler::should_intercept_tls against set_enabled at any moment:
\* a tunnel is decided by a value the flag had while the decision was pending.
THEOREM TunnelsAlways == Spec => []TunnelDecision
<1>1. IInv => TunnelDecision
  BY DEF IInv, Sound, Phase, Decision, TunnelDecision
<1> QED
  BY <1>1, Inductive, PTL

\* handle_http and handle_https_request: no request is lost without a fault, no
\* 502 is sent without one, and a tunnel outlives only a reported one.
THEOREM LossesAlways == Spec => []NoSilentLoss
<1>1. IInv => NoSilentLoss
  <2> SUFFICES ASSUME IInv, NEW c \in Conn,
                      Sound(conn[c])
               PROVE  LET s == conn[c] IN
                        /\ s.pc = "closed" /\ s.replied < s.received => s.fault # "none"
                        /\ s.due = "badGateway" => s.mode = "mitm" /\ s.fault # "none"
                        /\ s.pc = "idle" /\ s.fault = "error" => s.due = "badGateway"
    BY DEF IInv, NoSilentLoss
  <2> QED
    BY DEF Sound, ConnType, Books
<1> QED
  BY <1>1, Inductive, PTL

\* HandlerStack's two loops: a handler is called after all before it and no other,
\* on both ways, and only while no reply is determined.
THEOREM OrderAlways == Spec => InsertionOrder
<1> DEFINE Ordered(c, h) ==
      /\ h \in conn'[c].asked \ conn[c].asked =>
           conn[c].asked = 1..(h - 1) /\ conn[c].due = "none"
      /\ h \in conn'[c].told \ conn[c].told =>
           conn[c].told = 1..(h - 1) /\ conn[c].due = "none"
<1>1. IInv /\ [Next]_vars => [\A c \in Conn : \A h \in Handlers : Ordered(c, h)]_vars
  <2> SUFFICES ASSUME IInv, Next, NEW d \in Conn, NEW h \in Handlers
               PROVE  Ordered(d, h)
    BY DEF vars
  <2>S. /\ \A c \in Conn : Sound(conn[c]) /\ conn[c] \in ConnType
        /\ conn \in [Conn -> ConnType]
    BY DEF IInv, TypeOK
  <2>1. CASE UNCHANGED conn
    BY <2>1
  <2>2. ASSUME NEW c \in Conn, RequestHook(c) PROVE Ordered(d, h)
    <3>1. conn[c].asked = 1..(conn[c].step - 1) /\ conn[c].due = "none"
      BY <2>2, <2>S DEF RequestHook, Task, Sound, Chain, InChain
    <3> DEFINE r == [conn[c] EXCEPT !.asked = @ \cup {conn[c].step}]
    <3>2. \/ Task(c, "onRequest", [r EXCEPT !.step = @ + 1])
          \/ Task(c, "onRequest", [r EXCEPT !.pc = "reply", !.due = "short"])
          \/ Task(c, "onRequest", ErrorExit(r))
      BY <2>2 DEF RequestHook
    <3>3. /\ r \in ConnType /\ r.told = conn[c].told
          /\ r.asked = conn[c].asked \cup {conn[c].step}
      BY <2>2, <2>S DEF RequestHook, ConnType
    <3> HIDE DEF r
    <3>4. conn'[c] \in {[r EXCEPT !.step = @ + 1], ErrorExit(r),
                        [r EXCEPT !.pc = "reply", !.due = "short"]}
      BY <3>2, <2>S DEF Task
    <3>5. conn'[c].asked = r.asked /\ conn'[c].told = r.told
      BY <3>3, <3>4 DEF ErrorExit, ConnType
    <3>6. \A e \in Conn \ {c} : conn'[e] = conn[e]
      BY <2>2, <2>S DEF RequestHook, Task
    <3> QED
      BY <3>1, <3>3, <3>5, <3>6
  <2>3. ASSUME NEW c \in Conn, ResponseHook(c) PROVE Ordered(d, h)
    <3>1. conn[c].told = 1..(conn[c].step - 1) /\ conn[c].due = "none"
      BY <2>3, <2>S DEF ResponseHook, Task, Sound, Chain, InChain
    <3> DEFINE r == [conn[c] EXCEPT !.told = @ \cup {conn[c].step}]
    <3>2. \/ Task(c, "onResponse", [r EXCEPT !.step = @ + 1])
          \/ Task(c, "onResponse", ErrorExit(r))
      BY <2>3 DEF ResponseHook
    <3>3. /\ r \in ConnType /\ r.asked = conn[c].asked
          /\ r.told = conn[c].told \cup {conn[c].step}
      BY <2>3, <2>S DEF ResponseHook, ConnType
    <3> HIDE DEF r
    <3>4. conn'[c] \in {[r EXCEPT !.step = @ + 1], ErrorExit(r)}
      BY <3>2, <2>S DEF Task
    <3>5. conn'[c].asked = r.asked /\ conn'[c].told = r.told
      BY <3>3, <3>4 DEF ErrorExit, ConnType
    <3>6. \A e \in Conn \ {c} : conn'[e] = conn[e]
      BY <2>3, <2>S DEF ResponseHook, Task
    <3> QED
      BY <3>1, <3>3, <3>5, <3>6
  <2>4. ASSUME NEW c \in Conn,
               ProxyStep(c) \/ WrittenStep(c) \/ UpstreamStep(c) \/ EnvironmentStep(c),
               ~RequestHook(c), ~ResponseHook(c)
        PROVE  /\ conn'[c].asked \subseteq conn[c].asked
               /\ conn'[c].told \subseteq conn[c].told
               /\ \A e \in Conn \ {c} : conn'[e] = conn[e]
    <3>1. CASE Connect(c)
      BY <2>S, <3>1 DEF Connect, Task, ConnType
    <3>2. CASE Accept(c)
      BY <2>S, <3>2 DEF Accept, Task, ConnType
    <3>3. CASE ReadHostless(c)
      BY <2>S, <3>3 DEF ReadHostless, Task, ConnType
    <3>4. CASE ReadFails(c)
      BY <2>S, <3>4 DEF ReadFails, Task, ConnType
    <3>5. CASE LoadEnabled(c)
      BY <2>S, <3>5 DEF LoadEnabled, Task, ConnType
    <3>6. CASE AskHandler(c)
      <4> DEFINE agree == [conn[c] EXCEPT !.step = @ + 1, !.agreed = @ \cup {conn[c].step}]
                 pass == [conn[c] EXCEPT !.pc = "dialing", !.mode = "tunnel"]
      <4>1. Task(c, "asking", agree) \/ Task(c, "asking", pass)
        BY <3>6 DEF AskHandler
      <4>2. /\ agree.asked = conn[c].asked /\ agree.told = conn[c].told
            /\ pass.asked = conn[c].asked /\ pass.told = conn[c].told
        BY <2>S DEF ConnType
      <4> HIDE DEF agree, pass
      <4> QED
        BY <2>S, <4>1, <4>2 DEF Task
    <3>7. CASE Intercept(c)
      BY <2>S, <3>7 DEF Intercept, Task, ConnType
    <3>8. CASE Handshake(c)
      BY <2>S, <3>8 DEF Handshake, Task, ConnType
    <3>9. CASE DialTunnel(c)
      BY <2>S, <3>9 DEF DialTunnel, Task, ConnType
    <3>10. CASE TunnelEnds(c)
      BY <2>S, <3>10 DEF TunnelEnds, Task, ConnType
    <3>11. CASE KeepAliveEnds(c)
      BY <2>S, <3>11 DEF KeepAliveEnds, Task, ConnType
    <3>12. CASE Forward(c)
      BY <2>S, <3>12 DEF Forward, Task, ConnType
    <3>13. CASE RewriteFails(c)
      BY <2>S, <3>13 DEF RewriteFails, Task, ConnType
    <3>14. CASE UpgradeInside(c)
      BY <2>S, <3>14 DEF UpgradeInside, Task, ConnType
    <3>15. CASE UpstreamAnswers(c)
      BY <2>S, <3>15 DEF UpstreamAnswers, Task, ConnType
    <3>16. CASE UpstreamFails(c)
      BY <2>S, <3>16 DEF UpstreamFails, Task, ErrorExit, ConnType
    <3>17. CASE ResponseReady(c)
      BY <2>S, <3>17 DEF ResponseReady, Task, ConnType
    <3>18. CASE WriteReply(c)
      BY <2>S, <3>18 DEF WriteReply, Task, ConnType
    <3>19. CASE BodyBreaks(c)
      BY <2>S, <3>19 DEF BodyBreaks, Task, ConnType
    <3>20. CASE DialWebSocket(c)
      BY <2>S, <3>20 DEF DialWebSocket, Task, ConnType
    <3>21. CASE RelayEnds(c)
      BY <2>S, <3>21 DEF RelayEnds, Task, ConnType
    <3>22. CASE ClientLeaves(c)
      BY <2>S, <3>22 DEF ClientLeaves, Task, ConnType
    <3>23. CASE HandlerPanics(c)
      BY <2>S, <3>23 DEF HandlerPanics, Task, ConnType
    <3>24. CASE \E p \in Ports : ReadConnect(c, p)
      BY <2>S, <3>24 DEF ReadConnect, Task, ConnType
    <3>25. CASE \E w \in BOOLEAN, p \in Ports : ReadHttp(c, w, p)
      BY <2>S, <3>25 DEF ReadHttp, Opened, ConnType
    <3>26. CASE NextRequest(c)
      BY <2>S, <3>26 DEF NextRequest, Opened, ConnType
    <3> QED
      BY <2>4, <3>1, <3>2, <3>3, <3>4, <3>5, <3>6, <3>7, <3>8, <3>9, <3>10,
         <3>11, <3>12, <3>13, <3>14, <3>15, <3>16, <3>17, <3>18, <3>19, <3>20,
         <3>21, <3>22, <3>23, <3>24, <3>25, <3>26
      DEF ProxyStep, WrittenStep, UpstreamStep, EnvironmentStep
  <2>5. CASE \E b \in BOOLEAN : SetEnabled(b)
    <3>1. conn'[d].asked = conn[d].asked /\ conn'[d].told = conn[d].told
      BY <2>5, <2>S DEF SetEnabled, ConnType
    <3> QED
      BY <3>1
  <2> QED
    BY <2>1, <2>2, <2>3, <2>4, <2>5 DEF Next, AcceptFails
<1> QED
  BY <1>1, Inductive, PTL DEF Spec, InsertionOrder
----------------------------------------------------------------------------
(* REQUEST_ID: the counter is ahead of every id given, so the id a request *)
(* takes is in no task's set.                                              *)

Unnumbered(s) == IF s.due = "badRequest" THEN 1 ELSE 0

\* The ids of one task, while the counter stands at n; a refused request, which has
\* none, is the only one of its connection.
Counted(s, n) ==
  /\ IsFiniteSet(s.ids) /\ s.ids \subseteq 1..(n - 1)
  /\ Cardinality(s.ids) = s.received - Unnumbered(s)
  /\ s.due = "badRequest" => s.mode = "plain" /\ s.pc \in {"reply", "closed"}

Ids ==
  /\ nextId \in Nat \ {0}
  /\ \A c \in Conn : Counted(conn[c], nextId)
  /\ \A c \in Conn : \A d \in Conn \ {c} : conn[c].ids \cap conn[d].ids = {}
----------------------------------------------------------------------------
LEMMA InitIds == Init => Ids
<1> SUFFICES ASSUME Init PROVE Ids
  OBVIOUS
<1>1. \A c \in Conn : conn[c] = Fresh
  BY DEF Init
<1>2. Counted(Fresh, 1)
  BY FS_EmptySet DEF Fresh, Counted, Unnumbered
<1>3. Fresh.ids = {}
  BY DEF Fresh
<1> QED
  BY <1>1, <1>2, <1>3 DEF Init, Ids

\* The tasks other than c stay as they are.
Others(c) == \A d \in Conn \ {c} : conn'[d] = conn[d]

\* Task c, not writing a reply, goes on without a new request.
GoesOn(c) ==
  /\ conn[c].pc \notin {"reply", "closed"}
  /\ conn'[c].ids = conn[c].ids /\ conn'[c].received = conn[c].received
  /\ conn'[c].due = "badRequest" => conn[c].due = "badRequest"
  /\ Others(c) /\ nextId' = nextId

\* A step that gives no id and counts no request.
LEMMA IdsKept ==
  ASSUME IInv, Ids, NEW c \in Conn, Others(c), nextId' = nextId,
         conn'[c].ids = conn[c].ids, conn'[c].received = conn[c].received,
         conn'[c].due = "badRequest" <=> conn[c].due = "badRequest",
         conn'[c].due = "badRequest" =>
           conn'[c].mode = "plain" /\ conn'[c].pc \in {"reply", "closed"}
  PROVE  Ids'
<1>1. Counted(conn'[c], nextId)
  BY DEF Ids, Counted, Unnumbered
<1>2. \A d \in Conn : conn'[d].ids = conn[d].ids /\ Counted(conn'[d], nextId)
  BY <1>1 DEF Others, Ids
<1> QED
  BY <1>2 DEF Ids

LEMMA IdsKeptBy ==
  ASSUME IInv, Ids, NEW c \in Conn, GoesOn(c)
  PROVE  Ids'
<1>1. conn[c].due # "badRequest"
  BY DEF GoesOn, Ids, Counted
<1> QED
  BY <1>1, IdsKept DEF GoesOn

\* A request takes the next id (ReadHttp, NextRequest).
LEMMA IdTaken ==
  ASSUME IInv, Ids, NEW c \in Conn, Others(c),
         conn[c].pc \notin {"reply", "closed"}, nextId' = nextId + 1,
         conn'[c].ids = conn[c].ids \cup {nextId},
         conn'[c].received = conn[c].received + 1,
         conn'[c].due # "badRequest"
  PROVE  Ids'
<1>2. /\ nextId \in Nat \ {0} /\ nextId' \in Nat \ {0}
      /\ \A d \in Conn : Counted(conn[d], nextId)
  BY DEF Ids
<1>3. \A d \in Conn : nextId \notin conn[d].ids
  BY <1>2 DEF Counted
<1>4. Counted(conn'[c], nextId')
  <2>1. /\ conn[c].received \in Nat /\ Cardinality(conn[c].ids) = conn[c].received
        /\ IsFiniteSet(conn[c].ids)
    BY <1>2 DEF Counted, Unnumbered, IInv, TypeOK, ConnType
  <2>2. /\ IsFiniteSet(conn[c].ids \cup {nextId})
        /\ Cardinality(conn[c].ids \cup {nextId}) = Cardinality(conn[c].ids) + 1
    BY <1>3, <2>1, FS_AddElement
  <2>3. conn'[c].ids \subseteq 1..(nextId' - 1)
    BY <1>2 DEF Counted
  <2> QED
    BY <2>1, <2>2, <2>3 DEF Counted, Unnumbered
<1>5. \A d \in Conn \ {c} : Counted(conn'[d], nextId')
  <2>1. 1..(nextId - 1) \subseteq 1..(nextId' - 1)
    BY <1>2
  <2> QED
    BY <1>2, <2>1 DEF Others, Counted
<1>6. \A d \in Conn : \A e \in Conn \ {d} : conn'[d].ids \cap conn'[e].ids = {}
  BY <1>3 DEF Ids, Others
<1> QED
  BY <1>2, <1>4, <1>5, <1>6 DEF Ids

----------------------------------------------------------------------------
LEMMA StepIds == IInv /\ Ids /\ [Next]_vars => Ids'
<1> SUFFICES ASSUME IInv, Ids, [Next]_vars PROVE Ids'
  OBVIOUS
<1>T. conn \in [Conn -> ConnType] /\ \A c \in Conn : conn[c] \in ConnType
  BY DEF IInv, TypeOK
<1>1. CASE UNCHANGED vars \/ AcceptFails
  BY <1>1 DEF AcceptFails, vars, Ids
<1>2. ASSUME NEW b \in BOOLEAN, SetEnabled(b) PROVE Ids'
  <2>1. /\ nextId' = nextId
        /\ \A c \in Conn : /\ conn'[c].ids = conn[c].ids
                           /\ conn'[c].received = conn[c].received
                           /\ conn'[c].due = conn[c].due
                           /\ conn'[c].mode = conn[c].mode
                           /\ conn'[c].pc = conn[c].pc
    BY <1>T, <1>2 DEF SetEnabled, ConnType
  <2> QED
    BY <2>1 DEF Ids, Counted, Unnumbered
<1>3. ASSUME NEW c \in Conn,
             \/ Connect(c) \/ Accept(c) \/ ReadFails(c) \/ LoadEnabled(c) \/ AskHandler(c)
             \/ Intercept(c) \/ Handshake(c) \/ DialTunnel(c) \/ TunnelEnds(c)
             \/ KeepAliveEnds(c) \/ UpstreamAnswers(c) \/ DialWebSocket(c) \/ RelayEnds(c)
             \/ Forward(c) \/ RewriteFails(c) \/ HandlerPanics(c)
             \/ UpstreamFails(c) \/ RequestHook(c) \/ ResponseHook(c) \/ ResponseReady(c)
             \/ UpgradeInside(c)
      PROVE  Ids'
  <2> USE <1>T DEF Task, shared, GoesOn, Others, ConnType
  <2>1. CASE Connect(c)
    <3> GoesOn(c)
      BY <2>1 DEF Connect
    <3> QED
      BY IdsKeptBy
  <2>2. CASE Accept(c)
    <3> GoesOn(c)
      BY <2>2 DEF Accept
    <3> QED
      BY IdsKeptBy
  <2>3. CASE ReadFails(c)
    <3> GoesOn(c)
      BY <2>3 DEF ReadFails
    <3> QED
      BY IdsKeptBy
  <2>4. CASE LoadEnabled(c)
    <3> GoesOn(c)
      BY <2>4 DEF LoadEnabled
    <3> QED
      BY IdsKeptBy
  <2>5. CASE AskHandler(c)
    <3>1. ASSUME Task(c, "asking", [conn[c] EXCEPT !.step = @ + 1,
                                                   !.agreed = @ \cup {conn[c].step}])
          PROVE  GoesOn(c)
      BY <3>1
    <3>2. ASSUME Task(c, "asking", [conn[c] EXCEPT !.pc = "dialing", !.mode = "tunnel"])
          PROVE  GoesOn(c)
      BY <3>2
    <3> GoesOn(c)
      BY <2>5, <3>1, <3>2 DEF AskHandler
    <3> QED
      BY IdsKeptBy
  <2>6. CASE Intercept(c)
    <3> GoesOn(c)
      BY <2>6 DEF Intercept
    <3> QED
      BY IdsKeptBy
  <2>7. CASE Handshake(c)
    <3> GoesOn(c)
      BY <2>7 DEF Handshake
    <3> QED
      BY IdsKeptBy
  <2>8. CASE DialTunnel(c)
    <3> GoesOn(c)
      BY <2>8 DEF DialTunnel
    <3> QED
      BY IdsKeptBy
  <2>9. CASE TunnelEnds(c)
    <3> GoesOn(c)
      BY <2>9 DEF TunnelEnds
    <3> QED
      BY IdsKeptBy
  <2>10. CASE KeepAliveEnds(c)
    <3> GoesOn(c)
      BY <2>10 DEF KeepAliveEnds
    <3> QED
      BY IdsKeptBy
  <2>11. CASE UpstreamAnswers(c)
    <3> GoesOn(c)
      BY <2>11 DEF UpstreamAnswers
    <3> QED
      BY IdsKeptBy
  <2>12. CASE DialWebSocket(c)
    <3> GoesOn(c)
      BY <2>12 DEF DialWebSocket
    <3> QED
      BY IdsKeptBy
  <2>13. CASE RelayEnds(c)
    <3> GoesOn(c)
      BY <2>13 DEF RelayEnds
    <3> QED
      BY IdsKeptBy
  <2>14. CASE Forward(c)
    <3> GoesOn(c)
      BY <2>14 DEF Forward
    <3> QED
      BY IdsKeptBy
  <2>15. CASE RewriteFails(c)
    <3> GoesOn(c)
      BY <2>15 DEF RewriteFails
    <3> QED
      BY IdsKeptBy
  <2>16. CASE HandlerPanics(c)
    <3> GoesOn(c)
      BY <2>16 DEF HandlerPanics
    <3> QED
      BY IdsKeptBy
  <2>17. CASE UpstreamFails(c)
    <3> GoesOn(c)
      BY <2>17 DEF UpstreamFails, ErrorExit
    <3> QED
      BY IdsKeptBy
  <2>18. CASE RequestHook(c)
    <3> DEFINE s == [conn[c] EXCEPT !.asked = @ \cup {conn[c].step}]
    <3>1. ASSUME Task(c, "onRequest", [s EXCEPT !.step = @ + 1])
          PROVE  GoesOn(c)
      BY <3>1
    <3>2. ASSUME Task(c, "onRequest", [s EXCEPT !.pc = "reply", !.due = "short"])
          PROVE  GoesOn(c)
      BY <3>2
    <3>3. ASSUME Task(c, "onRequest", ErrorExit(s))
          PROVE  GoesOn(c)
      BY <3>3 DEF ErrorExit
    <3> GoesOn(c)
      BY <2>18, <3>1, <3>2, <3>3 DEF RequestHook
    <3> QED
      BY IdsKeptBy
  <2>19. CASE ResponseHook(c)
    <3> DEFINE s == [conn[c] EXCEPT !.told = @ \cup {conn[c].step}]
    <3>1. ASSUME Task(c, "onResponse", [s EXCEPT !.step = @ + 1])
          PROVE  GoesOn(c)
      BY <3>1
    <3>2. ASSUME Task(c, "onResponse", ErrorExit(s))
          PROVE  GoesOn(c)
      BY <3>2 DEF ErrorExit
    <3> GoesOn(c)
      BY <2>19, <3>1, <3>2 DEF ResponseHook
    <3> QED
      BY IdsKeptBy
  <2>20. CASE ResponseReady(c)
    <3> GoesOn(c)
      BY <2>20 DEF ResponseReady
    <3> QED
      BY IdsKeptBy
  <2>21. CASE UpgradeInside(c)
    <3> GoesOn(c)
      BY <2>21 DEF UpgradeInside
    <3> QED
      BY IdsKeptBy
  <2> QED
    BY <1>3, <2>1, <2>2, <2>3, <2>4, <2>5, <2>6, <2>7, <2>8, <2>9, <2>10, <2>11, <2>12,
       <2>13, <2>14, <2>15, <2>16, <2>17, <2>18, <2>19, <2>20, <2>21
<1>5. ASSUME NEW c \in Conn, NEW p \in Ports, ReadConnect(c, p) PROVE Ids'
  <2>1. GoesOn(c)
    BY <1>T, <1>5 DEF ReadConnect, Task, shared, GoesOn, Others, ConnType
  <2> QED
    BY <2>1, IdsKeptBy
<1>6. ASSUME NEW c \in Conn, NEW w \in BOOLEAN, NEW p \in Ports, ReadHttp(c, w, p)
      PROVE  Ids'
  <2>1. /\ Others(c) /\ conn[c].pc = "reading" /\ nextId' = nextId + 1
        /\ conn'[c].ids = conn[c].ids \cup {nextId}
        /\ conn'[c].received = conn[c].received + 1 /\ conn'[c].due = "none"
    BY <1>T, <1>6 DEF ReadHttp, Opened, Others, ConnType
  <2> QED
    BY <2>1, IdTaken
<1>7. ASSUME NEW c \in Conn, NextRequest(c) PROVE Ids'
  <2>1. /\ Others(c) /\ conn[c].pc = "idle" /\ nextId' = nextId + 1
        /\ conn'[c].ids = conn[c].ids \cup {nextId}
        /\ conn'[c].received = conn[c].received + 1 /\ conn'[c].due = "none"
    BY <1>T, <1>7 DEF NextRequest, Opened, Others, ConnType
  <2> QED
    BY <2>1, IdTaken
<1>8. ASSUME NEW c \in Conn, ReadHostless(c) PROVE Ids'
  <2>1. /\ Others(c) /\ conn[c].pc = "reading" /\ nextId' = nextId
        /\ conn'[c].ids = conn[c].ids
        /\ conn'[c].received = conn[c].received + 1
        /\ conn'[c].due = "badRequest" /\ conn'[c].mode = "plain" /\ conn'[c].pc = "reply"
    BY <1>T, <1>8 DEF ReadHostless, Task, shared, Others, ConnType
  <2>2. Counted(conn'[c], nextId)
    <3>1. conn[c].due # "badRequest" /\ conn[c].received \in Nat
      BY <1>T, <2>1 DEF Ids, Counted, ConnType
    <3> QED
      BY <2>1, <3>1 DEF Ids, Counted, Unnumbered
  <2>3. \A d \in Conn : conn'[d].ids = conn[d].ids /\ Counted(conn'[d], nextId)
    BY <2>1, <2>2 DEF Others, Ids
  <2> QED
    BY <2>1, <2>3 DEF Ids
<1>9. ASSUME NEW c \in Conn, WriteReply(c) \/ BodyBreaks(c) \/ ClientLeaves(c) PROVE Ids'
  <2>1. /\ Others(c) /\ nextId' = nextId
        /\ conn'[c].ids = conn[c].ids /\ conn'[c].received = conn[c].received
        /\ conn'[c].due = conn[c].due /\ conn'[c].mode = conn[c].mode
        /\ conn'[c].pc = "closed" \/ conn[c].due # "badRequest" \/ conn[c].mode # "plain"
    <3>1. CASE WriteReply(c)
      BY <1>T, <3>1 DEF WriteReply, AfterReply, Task, shared, Others, ConnType
    <3>2. CASE BodyBreaks(c)
      BY <1>T, <3>2 DEF BodyBreaks, Task, shared, Others, ConnType
    <3>3. CASE ClientLeaves(c)
      BY <1>T, <3>3 DEF ClientLeaves, Task, shared, Others, ConnType
    <3> QED
      BY <1>9, <3>1, <3>2, <3>3
  <2>2. conn'[c].due = "badRequest" =>
          conn'[c].mode = "plain" /\ conn'[c].pc \in {"reply", "closed"}
    BY <2>1 DEF Ids, Counted
  <2> QED
    BY <2>1, <2>2, IdsKept
<1> QED
  BY <1>1, <1>2, <1>3, <1>5, <1>6, <1>7, <1>8, <1>9
  DEF Next, ProxyStep, WrittenStep, UpstreamStep, EnvironmentStep

\* HttpContext::id: no two requests of the process share an id, on one connection or
\* on several, however their tasks interleave at REQUEST_ID.
THEOREM IdsAlways == Spec => []UniqueIds
<1>1. Init => IInv /\ Ids
  BY InitInvariant, InitIds
<1>2. IInv /\ Ids /\ [Next]_vars => IInv' /\ Ids'
  BY StepInvariant, StepIds
<1>3. Ids => UniqueIds
  BY DEF Ids, Counted, Unnumbered, UniqueIds
<1> QED
  BY <1>1, <1>2, <1>3, PTL DEF Spec
=============================================================================
