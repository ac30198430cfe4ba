--------------------------- MODULE ProxyPipeline ---------------------------
(***************************************************************************)
(* The path of every client connection through hexbuffer-proxy: the accept *)
(* loop and the task it spawns per connection (builder.rs), the dispatch on*)
(* the first bytes (proxy.rs), CONNECT tunnels passed through or           *)
(* intercepted (https_proxy.rs), plain HTTP (http_proxy.rs), the handler   *)
(* chain around the upstream call, and the runtime switch `enabled`.       *)
(*                                                                         *)
(* A connection is one tokio task; its steps are the stretches of code     *)
(* between two awaits.  Tasks share the `enabled` flag and REQUEST_ID.     *)
(* The handlers are user code: each call may continue, answer by itself,   *)
(* fail or panic.  No handlers, one handler and HandlerStack are the same  *)
(* chain, of length 0, 1 or more.                                          *)
(***************************************************************************)
EXTENDS Naturals, FiniteSets

CONSTANTS
  Conn,        \* client connections
  NHandlers,   \* length of the handler chain
  Ports,       \* ports a client may name in CONNECT or Host
  TlsPort,     \* the port an https:// URI without one stands for
  MaxReq       \* bound: requests sent inside one intercepted tunnel

ASSUME PipelineAssumption ==
  /\ NHandlers \in Nat
  /\ MaxReq \in Nat
  /\ Ports \subseteq Nat \ {0}
  /\ TlsPort \in Nat \ {0}

VARIABLES
  listener,    \* "accepting" until accept() fails
  enabled,     \* Proxy::enabled, an AtomicBool
  nextId,      \* REQUEST_ID
  conn         \* the task of each connection

vars == <<listener, enabled, nextId, conn>>
shared == <<listener, enabled, nextId>>

Handlers == 1..NHandlers
NoPort == 0

(***************************************************************************)
(* pc is the await the task is suspended in.  The other fields are:        *)
(*   mode     how the connection is served, once decided                   *)
(*   step     the handler the chain has reached                            *)
(*   ws       the request asks for a WebSocket                             *)
(*   port     the port the client named                                    *)
(*   due      the reply to the current request, once determined            *)
(*   fault    how the current request went wrong, if it did                *)
(* and, for the properties only:                                           *)
(*   asked, told   handlers whose handle_request, handle_response were     *)
(*            called for the current request                               *)
(*   agreed   handlers that agreed to intercept the tunnel                 *)
(*   flagSeen values `enabled` had while the task was at 200 Established   *)
(*   dialed   the upstream port contacted for the request or the tunnel    *)
(*   received, replied, contacts   requests, replies, upstream contacts    *)
(*   ids      the HttpContext ids given to the connection's requests       *)
(***************************************************************************)
PC == {"absent", "backlog", "reading", "established", "asking", "dialing",
       "tunnel", "handshake", "idle", "onRequest", "upstream", "onResponse",
       "reply", "wsDial", "relay", "closed"}
Mode == {"none", "plain", "tunnel", "mitm"}
Reply == {"none", "badRequest", "short", "upstream", "badGateway", "switching"}
Fault == {"none", "error", "abort"}

ConnType ==
  [pc : PC, mode : Mode, step : Nat, ws : BOOLEAN, port : Nat, due : Reply,
   fault : Fault, asked : SUBSET Handlers, told : SUBSET Handlers,
   agreed : SUBSET Handlers, flagSeen : SUBSET BOOLEAN, dialed : Nat,
   received : Nat, replied : Nat, contacts : Nat, ids : SUBSET Nat]

\* Type invariant: the switch, the counter and every task's record are well
\* formed (builder.rs Proxy, proxy.rs REQUEST_ID, the handle_* functions).
TypeOK ==
  /\ listener \in {"accepting", "stopped"}
  /\ enabled \in BOOLEAN
  /\ nextId \in Nat
  /\ conn \in [Conn -> ConnType]

Fresh ==
  [pc |-> "absent", mode |-> "none", step |-> 1, ws |-> FALSE, port |-> NoPort,
   due |-> "none", fault |-> "none", asked |-> {}, told |-> {}, agreed |-> {},
   flagSeen |-> {}, dialed |-> NoPort, received |-> 0, replied |-> 0,
   contacts |-> 0, ids |-> {}]

Init ==
  /\ listener = "accepting"
  /\ enabled \in BOOLEAN                   \* ProxyBuilder::with_enabled
  /\ nextId = 1
  /\ conn = [c \in Conn |-> Fresh]

\* One step of task c, suspended at `from`, that touches nothing shared.
Task(c, from, s) ==
  /\ conn[c].pc = from
  /\ conn' = [conn EXCEPT ![c] = s]
  /\ UNCHANGED shared
----------------------------------------------------------------------------
(* The accept loop and the switch.                                         *)

\* A client connects: the kernel queues it, whether or not anyone accepts.
Connect(c) == Task(c, "absent", [conn[c] EXCEPT !.pc = "backlog"])

\* accept() returns a stream and its task is spawned.
Accept(c) ==
  /\ listener = "accepting"
  /\ Task(c, "backlog", [conn[c] EXCEPT !.pc = "reading"])

\* accept() returns an error (out of descriptors, a connection reset in the
\* backlog): `?` ends start_with_listener; spawned tasks go on.
AcceptFails ==
  /\ listener = "accepting"
  /\ listener' = "stopped"
  /\ UNCHANGED <<enabled, nextId, conn>>

\* Proxy::set_enabled, or a store through enabled_flag(), at any time.
SetEnabled(b) ==
  /\ enabled' = b
  /\ conn' = [c \in Conn |-> IF conn[c].pc = "established"
                               THEN [conn[c] EXCEPT !.flagSeen = @ \cup {b}]
                               ELSE conn[c]]
  /\ UNCHANGED <<listener, nextId>>
----------------------------------------------------------------------------
(* Dispatch on the first bytes.                                            *)

\* The record of a task that has just received a request.
Opened(s, w, p) ==
  [s EXCEPT !.pc = "onRequest", !.step = 1, !.ws = w, !.port = p,
            !.due = "none", !.fault = "none", !.asked = {}, !.told = {},
            !.dialed = NoPort, !.received = @ + 1, !.ids = @ \cup {nextId}]

\* CONNECT with a target: 200 Connection Established goes out at once.
ReadConnect(c, p) ==
  Task(c, "reading", [conn[c] EXCEPT !.pc = "established", !.port = p,
                                     !.flagSeen = {enabled}])

\* Fault: the id is read but REQUEST_ID is not advanced.
ReadHttp_SharedId(c, w, p) ==
  /\ conn[c].pc = "reading"
  /\ conn' = [conn EXCEPT ![c] = [Opened(conn[c], w, p) EXCEPT !.mode = "plain"]]
  /\ UNCHANGED shared

\* Any other request that parses and names a host; it takes the next id.
ReadHttp(c, w, p) ==
  /\ conn[c].pc = "reading"
  /\ conn' = [conn EXCEPT ![c] = [Opened(conn[c], w, p) EXCEPT !.mode = "plain"]]
  /\ nextId' = nextId + 1
  /\ UNCHANGED <<listener, enabled>>

\* A request without a host is refused, before it gets an id.
ReadHostless(c) ==
  Task(c, "reading", [conn[c] EXCEPT !.pc = "reply", !.mode = "plain",
                                     !.received = @ + 1, !.due = "badRequest"])

\* A failed read, a CONNECT without a target, a head that does not parse.
ReadFails(c) == Task(c, "reading", [conn[c] EXCEPT !.pc = "closed"])
----------------------------------------------------------------------------
(* CONNECT: pass through or intercept.                                     *)

\* Fault: the flag is not consulted.
LoadEnabled_Ignored(c) ==
  Task(c, "established", [conn[c] EXCEPT !.pc = "asking", !.step = 1])

\* EnabledWrapperHandler loads the flag; only if it is set are the handlers
\* asked, one await each.
LoadEnabled(c) ==
  Task(c, "established",
       IF enabled THEN [conn[c] EXCEPT !.pc = "asking", !.step = 1]
                  ELSE [conn[c] EXCEPT !.pc = "dialing", !.mode = "tunnel"])

AskHandler(c) ==
  LET s == conn[c] IN
  /\ s.step \in Handlers
  /\ \/ Task(c, "asking", [s EXCEPT !.step = @ + 1, !.agreed = @ \cup {s.step}])
     \/ Task(c, "asking", [s EXCEPT !.pc = "dialing", !.mode = "tunnel"])

\* Every handler agreed (or there is none): forge a certificate and shake hands.
Intercept(c) ==
  /\ conn[c].step \notin Handlers
  /\ Task(c, "asking", [conn[c] EXCEPT !.pc = "handshake", !.mode = "mitm"])

Handshake(c) ==
  \E then \in {"idle", "closed"} :
    Task(c, "handshake", [conn[c] EXCEPT !.pc = then])

\* Passthrough: connect to the target the client named and copy bytes until
\* either direction ends.
DialTunnel(c) ==
  \E then \in {"tunnel", "closed"} :
    Task(c, "dialing", [conn[c] EXCEPT !.pc = then, !.dialed = conn[c].port])

TunnelEnds(c) == Task(c, "tunnel", [conn[c] EXCEPT !.pc = "closed"])
----------------------------------------------------------------------------
(* Requests: the handler chain around the upstream call.                   *)

\* Hyper reads the next request of an intercepted tunnel (keep-alive).
NextRequest(c) ==
  /\ conn[c].pc = "idle"
  /\ conn[c].received < MaxReq
  /\ conn' = [conn EXCEPT ![c] = Opened(conn[c], FALSE, conn[c].port)]
  /\ nextId' = nextId + 1
  /\ UNCHANGED <<listener, enabled>>

KeepAliveEnds(c) == Task(c, "idle", [conn[c] EXCEPT !.pc = "closed"])

\* Fault: a status the client does not expect.
ErrorExit_BadStatus(s) ==
  [s EXCEPT !.fault = "error", !.pc = "reply", !.due = "serverError"]

\* Fault: after a failure the chain starts over.
ErrorExit_Restart(s) == [s EXCEPT !.fault = "error", !.step = 1]

\* An error on the way to a reply: inside a tunnel it becomes 502; on a plain
\* connection `?` drops the connection without a reply.
ErrorExit(s) ==
  [s EXCEPT !.fault = "error",
            !.pc = IF s.mode = "mitm" THEN "reply" ELSE "closed",
            !.due = IF s.mode = "mitm" THEN "badGateway" ELSE @]

\* handle_request of the next handler: forward, short-circuit or fail.
RequestHook(c) ==
  LET s == [conn[c] EXCEPT !.asked = @ \cup {conn[c].step}] IN
  /\ conn[c].step \in Handlers
  /\ \/ Task(c, "onRequest", [s EXCEPT !.step = @ + 1])
     \/ Task(c, "onRequest", [s EXCEPT !.pc = "reply", !.due = "short"])
     \/ Task(c, "onRequest", ErrorExit(s))

\* The chain is through: the request goes upstream.  A plain request goes to
\* the port of its Host header; an inner request to https://{host}, a URI
\* built without the port of the CONNECT target.
Forward(c) ==
  /\ conn[c].step \notin Handlers
  /\ Task(c, "onRequest",
          [conn[c] EXCEPT !.pc = "upstream", !.contacts = @ + 1,
                          !.dialed = IF conn[c].mode = "mitm" THEN TlsPort
                                                              ELSE conn[c].port])

\* The absolute URI does not parse, or hyper_tungstenite refuses the upgrade:
\* the connection is dropped, in both modes.
RewriteFails(c) ==
  /\ conn[c].step \notin Handlers
  /\ Task(c, "onRequest", [conn[c] EXCEPT !.pc = "closed", !.fault = "error"])

\* Inside a tunnel a WebSocket upgrade is accepted on the spot; the upstream is
\* reached only afterwards, by a task of its own.
UpgradeInside(c) ==
  /\ conn[c].mode = "mitm"
  /\ conn[c].step \notin Handlers
  /\ Task(c, "onRequest", [conn[c] EXCEPT !.pc = "reply", !.due = "switching",
                                          !.ws = TRUE])

\* Faults: the response chain starts where the request chain stopped, or one
\* handler too late.
UpstreamAnswers_StepKept(c) ==
  Task(c, "upstream", [conn[c] EXCEPT !.pc = "onResponse"])

UpstreamAnswers_OffByOne(c) ==
  Task(c, "upstream", [conn[c] EXCEPT !.pc = "onResponse", !.step = 2])

UpstreamAnswers(c) ==
  Task(c, "upstream", [conn[c] EXCEPT !.pc = "onResponse", !.step = 1])

\* Fault: a failed upstream call is sent again.
UpstreamFails_Resend(c) ==
  Task(c, "upstream", [conn[c] EXCEPT !.pc = "onRequest"])

UpstreamFails(c) == Task(c, "upstream", ErrorExit(conn[c]))

\* handle_response of the next handler, in insertion order again.
ResponseHook(c) ==
  LET s == [conn[c] EXCEPT !.told = @ \cup {conn[c].step}] IN
  /\ conn[c].step \in Handlers
  /\ \/ Task(c, "onResponse", [s EXCEPT !.step = @ + 1])
     \/ Task(c, "onResponse", ErrorExit(s))

ResponseReady(c) ==
  /\ conn[c].step \notin Handlers
  /\ Task(c, "onResponse", [conn[c] EXCEPT !.pc = "reply", !.due = "upstream"])
----------------------------------------------------------------------------
(* Replies, upgraded connections and departures.                           *)

\* What a connection does once its reply is out: an inner request leaves the
\* tunnel open for the next one, an upgraded one goes on as a WebSocket (on
\* the plain path only if the response that is sent has status 101).
AfterReply(s) ==
  CASE s.due = "switching"               -> {"wsDial"}
    [] s.due = "upstream" /\ s.ws        -> {"relay", "closed"}
    [] s.mode = "mitm" /\ ~s.ws          -> {"idle"}
    [] OTHER                             -> {"closed"}

\* Fault: the connection moves on without the reply having been written.
WriteReply_Skipped(c) ==
  \E then \in AfterReply(conn[c]) :
    Task(c, "reply", [conn[c] EXCEPT !.pc = then])

WriteReply(c) ==
  \E then \in AfterReply(conn[c]) :
    Task(c, "reply", [conn[c] EXCEPT !.pc = then, !.replied = @ + 1])

\* A streamed body breaks off in the middle: that of an upstream, or that of a
\* handler inside a tunnel (on the plain path a handler's stream is left out).
BodyBreaks(c) ==
  /\ \/ conn[c].due = "upstream" /\ ~conn[c].ws
     \/ conn[c].due = "short" /\ conn[c].mode = "mitm"
  /\ Task(c, "reply", [conn[c] EXCEPT !.pc = "closed", !.fault = "error",
                                      !.replied = @ + 1])

\* The task spawned by handle_https_websocket connects to the upstream.
DialWebSocket(c) ==
  \E then \in {"relay", "closed"} :
    Task(c, "wsDial", [conn[c] EXCEPT !.pc = then, !.dialed = TlsPort,
                                      !.contacts = @ + 1])

RelayEnds(c) == Task(c, "relay", [conn[c] EXCEPT !.pc = "closed"])

\* The client goes away.  Inside a tunnel Hyper notices and drops the request
\* in progress at whatever await it is; a plain task notices when it writes.
ClientLeaves(c) ==
  /\ \/ conn[c].pc \in {"established", "reply", "wsDial"}
     \/ conn[c].mode = "mitm" /\ conn[c].pc \in {"onRequest", "upstream", "onResponse"}
  /\ Task(c, conn[c].pc, [conn[c] EXCEPT !.pc = "closed", !.fault = "abort"])

\* A panic in a handler unwinds the task; the stream is dropped with it.
HandlerPanics(c) ==
  /\ conn[c].pc \in {"asking", "onRequest", "onResponse"}
  /\ conn[c].step \in Handlers
  /\ Task(c, conn[c].pc, [conn[c] EXCEPT !.pc = "closed", !.fault = "abort"])
----------------------------------------------------------------------------
\* What the proxy's own scheduling drives: accepting, handler calls (taken to
\* return), forwarding.
ProxyStep(c) ==
  \/ Accept(c) \/ AskHandler(c) \/ Intercept(c)
  \/ RequestHook(c) \/ Forward(c) \/ RewriteFails(c) \/ UpgradeInside(c)
  \/ ResponseHook(c) \/ ResponseReady(c)

\* What has to wait until 200 Established, or a reply, is written: the client must
\* read, and the stream of a body must go on (write_all, write_body_to_stream).
WrittenStep(c) == LoadEnabled(c) \/ WriteReply(c)

\* What depends on the upstream.
UpstreamStep(c) ==
  \/ DialTunnel(c) \/ UpstreamAnswers(c) \/ UpstreamFails(c) \/ DialWebSocket(c)

\* What clients, peers and defects do, and nobody has to do.
EnvironmentStep(c) ==
  \/ Connect(c) \/ \E w \in BOOLEAN, p \in Ports : ReadHttp(c, w, p)
  \/ \E p \in Ports : ReadConnect(c, p)
  \/ ReadHostless(c) \/ ReadFails(c) \/ Handshake(c) \/ TunnelEnds(c)
  \/ NextRequest(c) \/ KeepAliveEnds(c) \/ BodyBreaks(c) \/ RelayEnds(c)
  \/ ClientLeaves(c) \/ HandlerPanics(c)

Next ==
  \/ AcceptFails
  \/ \E b \in BOOLEAN : SetEnabled(b)
  \/ \E c \in Conn : \/ ProxyStep(c) \/ WrittenStep(c)
                     \/ UpstreamStep(c) \/ EnvironmentStep(c)

Spec == Init /\ [][Next]_vars

\* Tokio polls every task that can go on.
FairSpec == Spec /\ \A c \in Conn : WF_vars(ProxyStep(c))
----------------------------------------------------------------------------
(* Properties.                                                             *)

\* The handler chain around the upstream call (HandlerStack, handle_http,
\* handle_https_request): a request reaches its upstream only after every
\* handler has forwarded it, responses are handled only after that, an upstream
\* reply has passed every handler, and a short-circuit by the k-th handler is
\* final: nobody after it is called and the upstream is never contacted.
ChainDiscipline ==
  \A c \in Conn : LET s == conn[c] IN
    /\ s.received > 0 /\ s.dialed # NoPort => s.asked = Handlers
    /\ s.told # {} => s.dialed # NoPort
    /\ s.due = "upstream" => s.told = Handlers
    /\ s.due = "short" => /\ s.dialed = NoPort
                          /\ \E k \in Handlers : s.asked = 1..k

\* The decision taken at CONNECT (EnabledWrapperHandler::should_intercept_tls),
\* against set_enabled called at any moment: a tunnel is intercepted only if
\* `enabled` was set at some moment while the decision was pending and every
\* handler agreed; it is passed through only if the flag was off at some such
\* moment or a handler objected; and a tunnel passed through shows nothing to
\* the handlers, whatever becomes of the flag.
TunnelDecision ==
  \A c \in Conn : LET s == conn[c] IN
    /\ s.mode = "mitm" => TRUE \in s.flagSeen /\ s.agreed = Handlers
    /\ s.mode = "tunnel" => FALSE \in s.flagSeen \/ s.agreed # Handlers
    /\ s.mode = "tunnel" => s.asked = {} /\ s.received = 0

\* Every loss is explained (the `?` exits of handle_http, the 502 arms of
\* handle_https_request): a connection closed with a request unanswered had an
\* error, a panic or a departing client; a 502 is sent only inside a tunnel,
\* for an error; and a tunnel survives an error only by having reported it.
NoSilentLoss ==
  \A c \in Conn : LET s == conn[c] IN
    /\ s.pc = "closed" /\ s.replied < s.received => s.fault # "none"
    /\ s.due = "badGateway" => s.mode = "mitm" /\ s.fault # "none"
    /\ s.pc = "idle" /\ s.fault = "error" => s.due = "badGateway"

\* HttpContext::id: no two requests of the process share an id, on one
\* connection or on several (REQUEST_ID.fetch_add in both paths).
UniqueIds ==
  \A c \in Conn :
    /\ Cardinality(conn[c].ids) = conn[c].received
         - (IF conn[c].due = "badRequest" THEN 1 ELSE 0)
    /\ \A d \in Conn \ {c} : conn[c].ids \cap conn[d].ids = {}

\* Handlers run one after the other, in insertion order on both ways, each at
\* most once, and none once a reply is determined (HandlerStack's two loops).
InsertionOrder ==
  [][\A c \in Conn : \A h \in Handlers :
       /\ h \in conn'[c].asked \ conn[c].asked =>
            conn[c].asked = 1..(h - 1) /\ conn[c].due = "none"
       /\ h \in conn'[c].told \ conn[c].told =>
            conn[c].told = 1..(h - 1) /\ conn[c].due = "none"]_vars

\* The externally visible status of a connection.
StatusOf(s) ==
  CASE s.pc = "onRequest"                   -> "open"
    [] s.pc \in {"upstream", "onResponse"}  -> "forwarded"
    [] s.pc = "reply"                       -> IF s.dialed = NoPort THEN "open"
                                                                    ELSE "forwarded"
    [] s.pc \in {"wsDial", "relay"}         -> "upgraded"
    [] s.pc = "closed"                      -> "gone"
    [] OTHER                                -> "idle"

ExchangeOf(s) == [status |-> StatusOf(s), requests |-> s.received,
                  replies |-> s.replied, contacts |-> s.contacts]

Contract == INSTANCE RequestContract
              WITH exchange <- [c \in Conn |-> ExchangeOf(conn[c])]

\* The pipeline implements RequestContract: one request at a time, at most one
\* reply and one upstream contact for each.
ImplementsContract == Contract!Spec

\* ... and so keeps its balance of requests, replies and contacts.
ExchangesBalanced == Contract!Balanced

\* A task never stalls by itself: from wherever the proxy's own code is at work
\* it gets to where it waits for a peer, or closes.
Responsive ==
  \A c \in Conn :
    (conn[c].pc \in {"asking", "onRequest", "onResponse"})
      ~> (conn[c].pc \in {"dialing", "handshake", "idle", "upstream", "reply", "closed"})

\* If the upstream answers or refuses, and what is written comes to its end (the
\* client reads, a body's stream goes on), every request is answered, or its
\* connection closed: no sequence of handler results leaves a client waiting.  The
\* code sets no timeout, so these are assumptions about the peers.
Answered ==
  \A c \in Conn :
    WF_vars(UpstreamStep(c)) /\ WF_vars(WrittenStep(c)) =>
      ((conn[c].replied < conn[c].received)
         ~> (conn[c].replied = conn[c].received \/ conn[c].pc = "closed"))
----------------------------------------------------------------------------
(* What the documentation says of the pipeline and the code does not do.   *)

\* docs/usage.md:105, "in insertion order for requests and in reverse order for
\* responses": handle_response is called from the last handler to the first.
ResponsesInReverse ==
  [][\A c \in Conn : \A h \in Handlers :
       h \in conn'[c].told \ conn[c].told =>
         conn[c].told = (h + 1)..NHandlers]_vars

\* docs/usage.md:140, set_enabled acts "across all active and new client
\* connections": while the switch is off no handler sees an inner request.
SwitchReachesActive ==
  [][\A c \in Conn : conn[c].mode = "mitm" /\ ~enabled =>
       conn'[c].asked \subseteq conn[c].asked]_vars

\* README.md:39, "Proxy connects to the real upstream server": the port dialled
\* is the one the client named.
DialsNamedPort ==
  \A c \in Conn : conn[c].dialed # NoPort => conn[c].dialed = conn[c].port
============================================================================
