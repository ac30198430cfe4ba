# A verification development for hexbuffer-proxy

hexbuffer-proxy is a Rust library (tokio, hyper, rustls) that runs a local
HTTP/HTTPS/WebSocket proxy. It accepts client connections, passes `CONNECT`
tunnels through or intercepts them with a certificate it forges, and shows
requests, responses and WebSocket frames to user-supplied handlers. This
directory models the library, and the example application built on it, in TLA+,
checks the models with TLC on small instances and proves the safety properties they
show with TLAPS for every value of the constants.

Source paths below are relative to the repository; line numbers are those of
the commit the project was written against.

1. [The system](#1-the-system): inventory of components
2. [The modules](#2-the-modules): what models what
3. [The runs](#3-the-runs): questions, bounds, results
4. [Fairness](#4-fairness)
5. [The proofs](#5-the-proofs)
6. [Where the code and its documentation part](#6-where-the-code-and-its-documentation-part)
7. [What is not modelled](#7-what-is-not-modelled)
8. [Plan](#8-plan)

To check a run: `tlc -config MCProxyPipeline_safety.cfg MCProxyPipeline`. To check
the proofs of a module: `tlapm CaStoreProofs.tla`. `PROJECT.json` lists runs,
mutants, the map from definitions to source lines, findings, hazards and theorems.

## 1. The system

| Component | Source | State | Operations | Meets |
|---|---|---|---|---|
| Accept loop | `src/builder.rs` 212-242, `src/proxy.rs` 26-86 | listener; one spawned task per connection | bind, accept, `handle_client`: one read of at most 4096 bytes, dispatch on the method | every other component, through the task |
| Runtime switch | `src/builder.rs` `EnabledWrapperHandler` | `enabled`, an `AtomicBool` | `set_enabled`, `enabled_flag`, load at CONNECT | tasks read it, users store it, at any moment |
| Handler chain | `src/builder.rs` `HandlerStack`, `src/handler.rs` | none of its own; user handlers | `should_intercept_tls`, `handle_request`, `handle_response`; `WebSocketHandler` | called by the request paths |
| Plain HTTP path | `src/http_proxy.rs`, `src/proxy.rs` 88-259 | the request in progress | parse the first read; refuse, short-circuit, forward, stream the reply, upgrade | chain, upstream client, response reader, relay |
| HTTPS path | `src/https_proxy.rs` | the tunnel: target host, keep-alive | 200 Established, passthrough or interception, one inner request after the other, 502 on errors, WebSocket upgrade | switch, chain, leaf cache, upstream client, relay |
| Request counter | `src/proxy.rs` `REQUEST_ID` | one process-wide atomic | `fetch_add` per request, on both paths | every task |
| Upstream client | `src/upstream.rs` | hyper-util's pool | `send_request`, and the body that streams after it | both request paths |
| CA persistence | `src/ca.rs` 38-121 | `ca.pem`, `ca-key.pem`; in memory, the PEM text and the key | `new_in`: load the pair, or generate and write it | several processes may share the directory |
| Leaf cache | `src/ca.rs` 132-170 | `cert_cache`, a map under an `RwLock` | `forge_certificate`: look up, forge, insert | every intercepted tunnel, concurrently |
| WebSocket relay | `src/ws_proxy.rs` | two framed streams, four socket buffers | `relay_framed`, `relay_upgraded`, `relay_raw_upgraded`, `relay_websocket` | `WebSocketHandler`, both peers |
| Passthrough tunnel | `src/https_proxy.rs` 48-65 | two byte streams | `select!` over two copies | both peers |
| Response reader | `src/proxy.rs` 272-455 | the bytes read so far | `read_full_response`: head, chunked, content-length, until close | plain WebSocket upgrade |
| Body decoder | `src/decoder.rs` | none | decode and re-encode a body by its `Content-Encoding`; `DecodeHandler` | a handler of the chain |
| Inspector | `examples/test_app/` | history, `req_start`, broadcast channel; in the page, what it shows | record exchanges and frames; serve history and event stream; clear; follow them in the page | handler of the chain; subscribers; pages |
| Errors, re-exports | `src/error.rs`, `src/lib.rs` | none | none | |
| Command-line example | `examples/proxy.rs` | none | handlers put together from options | user of the library |

How they interact. A connection is one tokio task, which runs to its next
`await` and may be overtaken there by every other. Tasks share only the switch,
the request counter, the leaf cache and the CA; handlers are shared too, and
are user code that may await, fail or panic. The CA's files are shared with other
processes. The inspector is such a handler, with state of its own that all exchanges
and all pages share.

What is hard here, and what has to be true of it:

- **Dispatch, chain and tunnels.** Every step of an exchange can fail, on two paths
  with different ways out (`?` drops a plain connection; a match arm answers 502
  inside a tunnel), while handlers short-circuit and clients leave. A reply must
  be sent at most once, no request may reach an upstream twice or past a handler,
  every loss needs a cause, and no request may be left waiting by the proxy itself.
- **Switch.** `set_enabled` can land anywhere between `200 Established` and the last
  handler's answer. A tunnel must be decided by a value the switch really had.
- **CA.** The root is two files written one after the other, by a process that can be
  killed and beside others. A running proxy must sign with the key of the
  certificate it hands out, and that pair must stay.
- **Leaf cache.** Lookup, forging and insert are three critical sections. A call must
  return a leaf for its own host that was current during the call; forging must be bounded.
- **Relays.** One serial loop serves both directions of a WebSocket with a handler, so a
  send to one side delays the other; copies run in both directions at once, and two kinds
  of them treat the end of one stream differently. Either side can close or break at any point.
  Frames must keep their order and the handler's verdict, `on_close` must come once and last,
  the end of a side must reach the other, and what is cut off must have been cut by a peer.
- **A message's way.** Bytes arrive in any segmentation and can stop anywhere. Three
  hand-written readers, two of Hyper's, five ways of writing, and a chain that may rewrite
  the body each decide separately where a message ends; head and body are rewritten separately.
  What the receiver takes for the message must be it, or the difference must have a known cause.
- **Inspector.** Exchanges record concurrently, a history is bounded, a channel drops what a slow
  subscriber has not taken, and the page asks for history and stream at once. Record and request
  must match, history and stream must agree, and a page must come to show what there is.

## 2. The modules

| Module | Role |
|---|---|
| `RequestContract` | abstract: what client and upstream can see of a connection |
| `ProxyPipeline` | accept loop, dispatch, CONNECT decision, both request paths, handler chain, switch, counter |
| `ProxyPipelineProofs` | inductive invariant, type and safety theorems of `ProxyPipeline`, and that request ids are unique |
| `ProxyPipelineRefinement` | proof that `ProxyPipeline` implements `RequestContract` |
| `CaStore`, `CaStoreProofs` | root certificate on disk; theorems about it |
| `LeafCache`, `LeafCacheProofs` | `forge_certificate` called concurrently; theorems about it |
| `Relays`, `RelaysProofs` | the five relays between a client and a server; theorems about them |
| `BodyReader` | `read_full_response` over any segmentation, against what the message is |
| `Decoder` | `decoder.rs` as operators on abstract coded bodies |
| `MessagePath`, `MessagePathProofs` | composes `BodyReader` and `Decoder`: one message from its sender to its receiver, on five ways; theorems about its types, its reader and its content |
| `Inspector`, `InspectorProofs` | the example application's recording, dashboard and page; theorems about them |
| `DataInduction` | induction and recursion over sequences, for the proofs of the relays and of a message's way |
| `MC*` | instances for TLC; they only name values for constants |

Definitions named `X_Suffix` next to a definition `X` are faulty variants of it:
each is the change a plausible bug would make, and is there to show that the
properties notice. No specification uses them.

### ProxyPipeline

`conn[c]` is the task of connection `c`; `pc` names the await in which it is
suspended. One action is the code between two awaits.

| `pc` | the task is in | code |
|---|---|---|
| `absent`, `backlog` | not connected; in the kernel's queue | |
| `reading` | the first `read` | `proxy.rs` `handle_client` |
| `established`, `asking` | writing 200; `should_intercept_tls`, handler `step` | `https_proxy.rs`, `builder.rs` |
| `dialing`, `tunnel` | connecting to the target; copying bytes | passthrough |
| `handshake`, `idle` | `TlsAcceptor::accept`; hyper waits for an inner request | interception |
| `onRequest`, `upstream`, `onResponse` | `handle_request` of handler `step`; `send_request`; `handle_response` | both paths |
| `reply` | writing the reply `due` | both paths |
| `wsDial`, `relay` | the task of `handle_https_websocket`; a relay | `ws_proxy.rs` |
| `closed` | the stream is dropped | |

No handler, one handler and a `HandlerStack` are one chain of length `NHandlers`.
Message contents are abstracted to what the dispatch tells apart: CONNECT or not,
host or none, port, upgrade or not; `MessagePath` has the rest. History fields (`asked`, `told`, `agreed`,
`flagSeen`, `dialed`, the counters, `ids`) are written and never read by guards,
with one exception: `received` implements the bound `MaxReq`. `dialed` is also used by
the externally visible status.

`SetEnabled` records the new value in `flagSeen` of every task at
`established`, so that `TunnelDecision` can say "a value the flag had while the decision
was pending".

### RequestContract and the refinement

The contract has one record per connection: a status (`idle`, `open`, `forwarded`,
`upgraded`, `gone`) and three counters (requests, replies, upstream contacts). It
knows neither handlers nor TLS, neither 400 nor 502. `ProxyPipeline!ExchangeOf` is
the refinement mapping: a connection's status is computed from `pc` and, while
a reply is written, from whether an upstream was contacted. `ImplementsContract`
is checked by TLC and proved by TLAPS. `Balanced`, an invariant of the contract, thereby holds of the code.

### CaStore

A root certificate is named by the key it was made from. `std::fs::write` is two steps,
truncate and write. `Stop` may happen between any two steps and stands for a kill and
for a failed write, whose `expect` panics. `Start` brings a process back. `Install`
is the operator who imports `ca.pem` into a browser.

`Apart` is an assumption about deployment, and it is needed: with `Apart = TRUE` a
process is started into a directory without a complete pair only while no other
process runs. With `Apart = FALSE` two first starts can interleave their writes, and
one process then runs with the root of the other and its own key. The code has no
lock and no rename that would exclude this; TLC refutes `PairMatches` for `Apart = FALSE`
in a few steps (`ca.rs:54`, in the hazards).

### LeafCache

`Lookup` (read lock), `Forge` (no lock) and `Insert` (write lock) are separate actions, as
in the code. A leaf is the number of its forging. `ForgePanics` is the `unwrap` on
a host that is not a DNS name. `shown[t]` records the values the entry of `t`'s host had
during the call.

### Relays

`kind` says which of the five relays runs: `framed`, `upgraded` and `raw_upgraded` are the
serial loops, `websocket` is `copy_bidirectional`, `passthrough` is the `select!` over two
copies. `in[s]` and `out[s]` are the buffers between side `s` and the proxy, of `Cap` frames
or pieces of a byte stream; `hand[s]` is what the relay has read and not passed on: one frame
for a loop, one piece per direction for the copies. `Close` is a WebSocket Close, or the end of a
byte stream, which closes one direction only. A loop goes through `select`, `hook`, `send`, and
at its end `closing` (`on_close`) and `finish` (`close(None)` and the drop). `Dial` comes first inside a tunnel, and
may find the upstream refusing; `ReadHead` comes first after a plain upgrade, and drops what its
last chunk holds beyond the head (`lost`). `echo` makes the server one that answers each frame
before it reads the next, like that of `tests/common/mod.rs`. Pings and pongs are frames like others;
automatic pongs belong to tungstenite.

Parts that the code does not contain (peers, kernel buffers, tungstenite's own Close) are marked external in the map.

### BodyReader, Decoder, MessagePath

A message is a record: status, framing (by chunks, by length, both, until close), the lines of its
`Content-Encoding`, content, coded body, chunks, what follows it, where its bytes are cut and how the stream ends there
(`eof`, `reset`, or `open`: the sender falls silent). `Wire` is its bytes as units: `HeadLen` units of
head, of which the first is the status line, then the body in its framing; `Unit` is what units there may be. `ReaderAssumption`
says which messages there are: the body of a message in chunks is their data, no chunk is empty, a size line names the
length of its chunk, or nothing that parses, or one of the two sizes that overflow, and a length is one `usize` holds. Each `ReadSome` takes any number of
units up to `BufSize`, so every segmentation occurs.

`BodyReader` is the loops of `read_full_response`: `HeadEnds` (the head, and the bytes beyond it), `SizeLine` and `TakeChunk`
(chunked, with `chunk_size + 2` at `Word` values, where it wraps or panics), `ExactEnds` (a length), `Eof`.
`Reset` is the `?` of a read. `ReadExact` compares the result with the message, not with another reader.

`Decoder` represents a coded body as the name of the encoding at both ends of the body, which tells apart a body
that is coded, coded in another order, cut short, or not coded. `Lenient` names the encodings whose decoder
takes a truncated stream for a whole one (flate2's `ZlibDecoder`); it is a parameter since it is a fact about a library.
A decode that fails has no result: `DecodeMessage` returns the set of possible messages.

`MessagePath` takes a message through `receive`, `chain` and `write` and says what its receiver makes of
the bytes (`view`: the whole of something, something visibly short, or garbled). The ways are the answer to a
plain upgrade (`read_full_response`, `parse_raw_response`, `serialize_response`), the answer to a plain request
(Hyper's stream, `serialize_response_head`, `write_body_to_stream`), a reply inside a tunnel (Hyper on both
sides), a handler's own answer, and a plain request (one read, `parse_raw_request`, Hyper's client). `Chains` is no
handler, `DecodeHandler`, or a handler that decodes and codes again. Hyper is modelled from how the code
uses it: it reads a message of its framing or fails; a server frames what it is given, but aborts on a head with both
framings; a client keeps the framing of the head it is given, so that a body that is still in chunks is wrapped in
chunks once more.

### Inspector

`Arrive`, `Respond`, `RecordBody` and `Fail` are the handler's two calls, split at the await of the body.
The six kinds of request are those its code tells apart: an ordinary one, the mock it answers itself, a WebSocket inside a tunnel
(no `handle_response`) and in the clear (`handle_response` before the first frame), a request of the dashboard, and one
that only its URI, not its Host, addresses to the dashboard. `log` is everything ever sent on the channel; history
and log grow in one action since `record_traffic` sends while it holds the lock. A subscriber is a position in the log; tokio's
channel makes it `Lagged` when it is more than `Capacity` behind, and `/events` ends its stream.
The page's `load` (history) and `sse` (stream) are two requests at once, whose answers come in any order;
after the stream's end it polls. `Clear` empties the history, `ClearAnswered` the page.

## 3. The runs

Twelve runs: five ask what the documentation promises and find that the code does
something else (section 6), seven show what holds.

| Run | Instance | Distinct states | Shows |
|---|---|---|---|
| `pipeline_safety` | 2 connections, 2 handlers, 2 requests per tunnel, symmetric connections | about 1.23 million | `ChainDiscipline`, `TunnelDecision`, `NoSilentLoss`, `UniqueIds`, `ExchangesBalanced`, `InsertionOrder` |
| `pipeline_liveness` | 1 connection, 3 handlers, 3 requests, 2 ports | a few thousand | `ImplementsContract`, `Responsive`, `Answered` |
| `ca_restarts` | 2 processes, 6 keys, `Apart` | about 20 thousand | `PairMatches`, `PairIsPermanent`, `FailuresExplained` |
| `leaf_calls` | 3 tasks, 1 good and 1 bad host, 4 leaves | about 63 thousand | `ServedWasCurrent`, `StampedeBounded` |
| `relay_peers` | all five relays, 1 frame per buffer, 2 frames per side, both kinds of server | about 400 thousand | `ShownInOrder`, `DeliveredAsKept`, `ClosedOnce`, `CutExplained`, `SendsEnd`, `EndsSpread` (these two, for the serial loops, with a server that reads independently of sending) |
| `message_path` | all five ways, three chains, every framing, eight headers of encodings, cut after every unit, three ends | about 633 thousand | `ReadExact`, `ReadFailsExplained`, `ContentKept`, `SilentDamageExplained`, `Readable`, `DropsExplained`, `Settles` |
| `inspector` | 2 requests of six kinds, 1 page, `Keep` 2, `Capacity` 1, 2 frames, 1 clear | about 2 million | `HistoryIsLog`, `RecordsMatch`, `LeakExplained`, `StreamContiguous`, `PollersCatchUp`, `StreamsCatchUp` |

Each module but `Inspector` also has its type invariant checked in its passing run; that of `Inspector` is the
conjunct `Types` of the invariant of `InspectorProofs`.

Why these bounds suffice.

- *Two connections.* Tasks interact only through the switch and the counter; both
  interactions are between pairs. The proofs of section 5 hold for any number.
- *Two or three handlers.* A chain has a first and a last handler and, with three,
  one between them; a short-circuit can skip nobody, one or several.
- *`MaxReq`.* Two requests show what one leaves behind for the next; three are used where one connection suffices.
- *Six keys.* Two processes hold at most two (certificate and key of one process are
  equal or one of them is on disk), the files two, the browser one: generating
  a key is never blocked.
- *`MaxForge = 4`.* More than the three leaves three tasks can forge for the one good
  host, so that `StampedeBounded` is not true for want of leaves.
- *`Cap = 1`, `MaxFrames = 2`.* Every send can find its buffer full. Two frames per side plus a Close
  can fill a buffer, the relay's hand and the peer's queue together. `relay_echo` uses four frames, which fill both
  directions of an echoing server and leave one to be sent.
- *`BufSize = 2`.* A read returns one unit or two, so that every loop sees its boundary at the end of a read, inside one,
  and one unit before. `Word = 32` leaves room for every size in the instance and for sizes one and two below the width,
  where `+ 2` wraps; the content holds a line feed, on which a reader that searches for the end of a line may stumble.
- *Encodings.* One of each kind the code tells apart: none, an alias, a stack in one line, a stack
  over two lines, the lenient one, the one whose decoder looks for a second frame (zstd), `identity`, an unknown one.
- *Inspector.* Two requests and two frames make up to four records: more than `Keep` and more than
  `Capacity`, so the history drops, a full page drops, and a subscriber lags.
  One page suffices, since pages share nothing but the served state; a clear is all one page can do to another.

Deadlock is checked in all runs but `relay_peers`, `relay_echo` (an ended relay and two departed peers stop),
`message_path` (a message arrives) and `inspector` (requests and clears are bounded).

## 4. Fairness

- `ProxyPipeline!FairSpec`: weak fairness of the proxy's own steps (`ProxyStep`). Tokio polls
  every task that is ready; handlers are taken to return. Nothing obliges clients to
  connect, send or read, or upstreams to answer: writing (`WrittenStep`) waits until the client has room
  and, for a streamed body, until its next frame has come (`http_proxy.rs:110-112`, `proxy.rs:237-242`), so it is not among them.
- `Responsive` is therefore about the proxy's own awaits only: a task that is not waiting for a peer
  comes to wait for one, or ends. `Answered` names what it assumes in addition, in the property itself: the upstream
  answers or refuses (`UpstreamStep`), and what is written comes to its end (`WrittenStep`).
  The code sets no timeout on the upstream call, the dial, the TLS accept, the first read or a write,
  so these are assumptions about the peers and not properties of the proxy.
- `Relays!FairSpec`: the relay is polled, and peers whose connection stands read what
  they are sent; an echoing server reads only when it owes no answer, and answers when its buffer has room. No peer has to send,
  close or break.
- `MessagePath!FairSpec`: weak fairness of the next step: the task is polled and the kernel hands over what has arrived. A sender may
  still fall silent (`Stalls`), which is a property of the message.
- `Inspector!FairSpec`: servers answer what they are asked, upstreams answer or fail, and a page
  handles what it gets. Nobody has to send a request, a frame or a clear.
- `CaStore` and `LeafCache` state no fairness: nothing about them is claimed to happen eventually. A start is code without
  loops or awaits, and the calls of the cache hold no lock over an await and cannot wait for each other.

## 5. The proofs

All theorems hold for every value of the constants that satisfies the named assumptions
(`PipelineAssumption`, `CaAssumption`, `LeafAssumption`, `RelayAssumption`, `InspectorAssumption`, `ReaderAssumption`,
`PathAssumption`);
`PairMatchesAlways` and `PairStaysForever` also take `Apart`. TLC evaluates the assumptions for the instances of the runs, so none
of them is empty.

**ProxyPipelineProofs** (`TypesAlways`, `ChainAlways`, `TunnelsAlways`, `LossesAlways`,
`OrderAlways`, `IdsAlways`). `ChainDiscipline`, `TunnelDecision` and `NoSilentLoss` are not inductive: they
say little about a task half-way through its chain. The inductive invariant
`IInv` says, for each await, what the record of a task suspended there looks like:
`Sound` has a part for the phase (`Phase`), for the CONNECT decision (`Decision`), for
the chain so far (`Chain`: `asked` is exactly the handlers before `step`, and so on)
and for the counters (`Books`). `SeesFlag` adds that a task at `established` has the current value of the switch in
`flagSeen`; it is the only conjunct that relates a task to shared state, and the one
`SetEnabled` could disturb. Because `Sound` speaks about one record, the proof has one
lemma per kind of record change, a frame lemma that lifts it to `conn`, and one
step per action in `StepInvariant`.

For `IdsAlways`, `Ids` says that the counter is ahead of every id in every task's set, that
the sets of two tasks are disjoint, and (`Counted`) that a task has as many ids as it has had requests,
but for one refused before it is numbered. The id a request takes is then in no set. The
proof uses `IInv` for where `due` may be a refusal, and the library's facts on cardinality.

**ProxyPipelineRefinement** (`ContractImplemented`, `BalanceAlways`). With `IInv` known
before and after, every step of the pipeline maps to one step of the contract or a
stutter: one lemma per action says which. `BalanceAlways` proves `Balanced` inductive over the
mapped state.

**CaStoreProofs** (`PairMatchesAlways`, `PairStaysForever`, `FailuresAreTornKeys`, `TypesAlways`). The
invariant has two situations. As long as the pair on disk is incomplete, `Apart` leaves
at most one process running, and what it holds in memory and has already written
is determined by its `pc`. Once the pair is complete nobody is on the way to
generating another, and nobody can be sent there. The last two theorems do without `Apart`: `Seen` says that a key file somebody
has seen is still there, perhaps torn, since no step removes a file; so two first starts at once can mismatch their files,
but neither makes the other fail except by a file cut short.

**LeafCacheProofs** (`TypesAlways`, `ServedAlways`, `StampedeAlways`). `Owned` says that a
leaf in a task's hand or in the cache was forged for that host, `Witnessed` that the current entry is among those a running call was shown.
The bound is the hard part, since the number of leaves grows while the calls that will find the entry change. `Bounded` counts against tasks:
while a host has no entry, its leaves are no more than the tasks about to insert one; always, its leaves are no more than the
tasks that are not about to forge one. Forging adds one to each side of the second; an insert makes the first void.

**RelaysProofs** (`TypesAlways`, `ClosedAlways`, `CutsExplained`, `ShownAlways`, `DeliveredAlways`). `Control` says which relay can be
at which `pc` with what in its hands; `Story` what the handler has been told at each `pc`, so that `on_close` can only come next where
no end was told before; `Ends` that a Close is the last frame of its side and that whoever has handed one on has nothing left; `Reasons`
why a relay is leaving. `CutExplained` follows from the last two: what is left in a buffer belongs to a side
that did not end, so the other one, or the handler's panic, is the reason.

The order of frames needs an invariant of its own, `Flow`: at every moment the frames a side has sent are, one after the other, those lost
with the head, those shown or passed on, the one in the relay's hand, and those in the buffer. Each part is a run of consecutive numbers,
perhaps with a Close at its end (`Run`, `UpTo`), so a step moves a number from the head of one run to the end of the one before it.
`PassedAsKept` compares what a side got with what the handler kept, where a send may have failed or one Close may have
been added (`Informing`). What the handler has been shown and has
kept is collected from its calls by a recursive function (`FramesIn`); `FramesInAppend` proves what one call adds.

**InspectorProofs** (`HistoryAlways`, `LeakAlways`, `RecordsAlways`, `ContiguousAlways`). `Newest` states `HistoryIsLog` record by record,
with the length written out, since appending and dropping are then arithmetic on indices; the theorem turns it back into an equality
of sequences. `LeakExplained` is inductive with the types. `Exchanges` has, for each request, the set of its own records in the log, empty until
it is answered and of one element after, and what the handler remembers of it between `Respond` and `RecordBody`; a record somebody else
adds is never in that set. For the page, `Wired` says that what is on the wire are the next records of the log, and
`Showing` that what the page shows ends with what it was sent since it follows the log, counted from the end, since the page drops from
the front; while no clear has happened, its list is full or holds all of it.

**MessagePathProofs** (`TypesAlways`, `ReadsAlways`, `ReadFailures`, `ContentAlways`, `DamageAlways`, `ReadableAlways`,
`DropsAlways`). `ReadExact` speaks of the result only; the invariant `ReaderAt`
says where on the wire the reader is at each `pc`: what is in the buffer and what is still to come are together the wire from a certain
position (`From`), and that position is 0 in the head, `HeadLen` for a body by length or until close, `Start(m, k)` before the size line of
chunk `k + 1`, two units later in its data; the body so far is the data of the first `k` chunks. Reads of any size move units from the
one to the other and change no position, which is why segmentation does not matter. `need` is the length of the chunk and its end, or what is
left of it after it wrapped, which is less than two: then the slice panics. `HeadCut` is the head cut short and taken as it is.
`IInv` carries this through the rest of the way, where only the head's fields matter for the types.

The other four theorems are about content. `PathAssumption` says what it is for a body to be its content, coded, and the two things
that the representation needs to be one: the layers of a header have different encodings, and no name of one of them is a unit of the
content (nor `identity` a layer, nor a chunk's size an encoding's name). Then the first end that a decoder finds is its own.

- *Decoding.* `BodyWhole`: of a whole body with x after it, `DecodeBody` makes the content, or fails on an unknown encoding or on zstd and
  an x that is not empty, or, if every encoding is `identity`, returns the content and x. `BodyInPart`: of a beginning it makes the content
  or fails, unless all decoders are lenient. `BodyWrong`: what begins with no encoding's name is refused. Each is an induction over
  the layers from the outermost to the innermost (`WholeStep`, `PartStep`): a layer lacks its own encoding's name within (`LayerLacks`),
  so a decoder stops where its layer ends (`Undone`), and finds no end in a beginning of it (`UndoneInPart`).
- *What arrived.* `PathInv` is inductive with `IInv`: in the chain, `carried` is what the way got of the message (`Got`, computed from `msg`,
  `read` and `rest`); after it, one of the outcomes of the chain for it; at the end, `view` is what was written of that; an exchange
  that was dropped had one of the causes (`DropCause`). `Shares` says that a body in plain bytes arrived whole, with what followed a
  request in its first read, or is a beginning of it, in which case the proxy did not have the message whole and a stream of it breaks.
- *What the receiver sees.* `DoneSound` puts these together: for each way of writing (`WrittenShows`), for a message that passed as it
  was (`PassedSound`) or was decoded, or coded again (`RemadeSound`), for none to decode (`NobodySound`), and for requests cut in their
  head or in chunks, which `ContentKept` leaves out (`ChunkedRequest`). Its conclusion, `Sound`, gives `ContentKept`,
  `SilentDamageExplained` and `Readable`; `ChainDrops` with the steps of receiving gives `DropsExplained`.

The proof corrected the model twice. zstd and the next request in the same read is a cause of a dropped exchange that `DropsExplained` had left out, because
no message of the instance was coded with zstd; the instance now has one. And lenient decoders are harmless unless
all layers have one, so `SilentDamageExplained` now asks that of every token.

**DataInduction** has what the proofs about relays and messages need of induction. The induction theorems of the library quantify over an operator, which the
provers do not instantiate; but a well-founded relation gives every set of numbers that is not empty a least element, and
with it induction follows for sets (`InductionUpTo`) and the existence of functions defined by recursion (`RecursionUpTo`, `RecursionFrom`).
From these come the steps of `FlattenSeq` (`FlattenSteps`, `FlattenAppend`) and that the first chunks of a message are a prefix of it (`JoinOfBegins`).

What is only model-checked, and why:

- All liveness, under fairness: `Responsive`, `Answered`, `SendsEnd`, `EndsSpread`, `Settles`, `PollersCatchUp`,
  `StreamsCatchUp` are out of the prover's reach.

Every other property of a passing run is stated by a theorem.

## 6. Where the code and its documentation part

Shown by runs:

| Run | The documentation | The code |
|---|---|---|
| `pipeline_reverse` | `docs/usage.md:105`: responses run through the handlers in reverse order | `builder.rs:316` walks them in insertion order |
| `pipeline_switch` | `docs/usage.md:140`: `set_enabled` acts on active connections too | the flag is read once per CONNECT (`builder.rs:272`) |
| `pipeline_port` | `README.md:39`: connects to the real upstream | an inner request's URI is built without the CONNECT port (`https_proxy.rs:150`) |
| `ca_anchor` | `ca.rs:25`: the trust anchor survives restarts | killed between its two writes, the proxy makes a new root (`ca.rs:113`) |
| `relay_echo` | `ws_proxy.rs:65`: a bidirectional relay | the serial loop and a server that answers before it reads block each other (`ws_proxy.rs:93`) |

`ca_anchor` is a narrow window: the operator must import the root of a first start that
never completed. `relay_echo` needs full socket buffers in both directions
towards a server like the one in `tests/common/mod.rs`, while the client keeps reading.

Met while reading and modelled, without a run of their own; the properties named
state the code's behaviour and list the divergence as an exception:

- An accept error ends the listener (`builder.rs:222`); `docs/usage.md:152` describes a
  server that goes on until it is stopped (`AcceptFails`).
- A WebSocket inside a tunnel skips `handle_response` (`handler.rs:104-105` against
  `ws_proxy.rs:128`; `UpgradeInside`). In the example application its entry of `req_start`
  therefore stays for ever (`LeakExplained`).
- If the upstream of such a WebSocket refuses, the client has had its 101 and `on_close` is not called
  (`ws_proxy.rs:243` against `handler.rs:201`; `Dial`, `ClosedOnce`).
- Frames that arrive in the chunk that completes a plain 101 are dropped (`proxy.rs:329`); `handler.rs:190` says
  that `on_frame` is called for each (`ReadHead`, `ShownInOrder`).
- Concurrent first connections to a host get different leaves (`ca.rs:131` and `ca.rs:220`
  against `ca.rs:164`); each was current during its call (`ServedWasCurrent`).
- A key file cut short by a kill makes every later start panic until somebody removes it
  (`ca.rs:116`); `FailuresExplained` says it is the only such cause.
- A plain reply that came in chunks, and the answer to a plain upgrade, is written with its `Transfer-Encoding` head and without
  chunk framing (`http_proxy.rs:109`), although `README.md:141` lists chunked transfer encoding as supported: its receiver
  cannot read it (`Readable`).
- A plain request in chunks is taken with its chunk framing as body, and Hyper wraps that in chunks once more (`proxy.rs:115`): the
  upstream has the chunk text for content (`ByHyperClient`, `SilentDamageExplained`, `ChunkedRequest`).
- A reply with both `Transfer-Encoding` and `Content-Length` keeps both inside a tunnel (`https_proxy.rs:189`), and Hyper's server
  aborts the connection (`Readable`).
- A request that does not arrive whole with the first read is cut or never completed (`proxy.rs:35`; `FirstRead`,
  `SilentDamageExplained`).
- A handler's answer on the plain path whose body is a stream loses it (`serialize_response`, `proxy.rs:180`; `HadAll`).
- `DecodeHandler` fails a reply without a body (304, or to HEAD) that names a `Content-Encoding` (`DropsExplained`).
- A plain request coded with zstd is dropped if the next one came in the same read: the decoder looks for another
  frame in it (`decoder.rs:89`; `DropsExplained`).
- The decoder of `deflate` takes a body cut short for whole, and the head's length is stripped with it
  (`decoder.rs:87`; `SilentDamageExplained`).
- Records that arrive while a page loads can be shown twice or be replaced by the older history
  (`index.html:822`; `StreamContiguous` is about what comes later).

Met while reading only:

- `decoder.rs:5-6` and `http_proxy.rs:95` speak of decompression by tower-http; `upstream.rs` has none.
- `builder.rs:284` says that responses flow in insertion order, `docs/usage.md:105` in reverse.
- `WebSocketHandler::on_upgrade` (`handler.rs:184`, `docs/usage.md:247`) is never called.
- The relay of a tunnelled WebSocket is given a context with `client_addr` 0.0.0.0:0 (`ws_proxy.rs:235`).
- `examples/proxy.rs:87` documents patterns with a leading dot; line 112 puts another dot in front.
- The id of a frame's record is a sum that other records may have (`handlers.rs:255`).
- Two of the dashboard's toggles at once may be one (`dashboard.rs:136`).

## 7. What is not modelled

- `error.rs` and `lib.rs` (type definitions and re-exports). `examples/proxy.rs`: its handlers have no shared state, and are instances of the handlers that
  `ProxyPipeline` lets do anything.
- Of `examples/test_app`: the test triggers, the mock upstream, the toggle (for the proxy, one `SetEnabled`), the CA
  download and the page's demo mode.
- Hyper, rustls, hyper-util, tungstenite and the compression libraries: external, by their results. The pool of connections
  decides only which connection a request takes.
- Bytes below a unit of `BodyReader`: a frame torn by the end of the head's chunk, the wording of a head, its
  serialization, and `serialize_request`, which writes out a plain upgrade's request (`force_connection_close_bytes` is called by tests only).
- A body coded twice with the same encoding, and content that names one: what stands for a body could not tell its layers
  apart (`PathAssumption`).
- A kernel that discards what was received when a connection is reset: in `Relays`, what a broken side had sent may still be read.
- Time: leaf validity (365 days). The code never looks at a clock, so an expired leaf could only be modelled by letting
  time pass; it is listed in the hazards, as is the absence of timeouts.
- `Apart = FALSE` is not a run: it is a deployment the documentation neither promises nor excludes.

## 8. Plan

Done: `RequestContract`, `ProxyPipeline` with its proofs, ids and refinement, `CaStore`, `LeafCache`, `Relays`, `Inspector` and `MessagePath`
with proofs of all their safety properties.

Next, in this order:

1. An abstract specification of a relay, two streams each delivered as a prefix, with `Relays` shown to implement it for the
   kinds without a handler.
2. `MessagePath` inside `ProxyPipeline`'s keep-alive: what a broken body of one inner request leaves for the next.
