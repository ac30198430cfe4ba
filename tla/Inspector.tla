----------------------------- MODULE Inspector -----------------------------
(***************************************************************************)
(* The test application of examples/test_app: a handler that records every *)
(* exchange (handlers.rs), a history and a broadcast channel, a dashboard  *)
(* that serves both (dashboard.rs), and the page that shows them           *)
(* (index.html).                                                           *)
(*                                                                         *)
(* record_traffic pushes a record and sends it while it holds the lock of  *)
(* the history, so `log`, all that was ever sent, has the order of the     *)
(* history.  A subscriber of the channel is a position in the log; one that*)
(* falls more than Capacity behind is told that it lagged, and /events ends*)
(* its stream then.  The page subscribes and asks for the history in two   *)
(* requests at once; the history replaces what it shows, a record of the   *)
(* stream is put in front.                                                 *)
(***************************************************************************)
EXTENDS Integers, Sequences, SequencesExt, FiniteSets

CONSTANTS
  Requests,      \* the requests through the proxy; also their ids, from REQUEST_ID
  Kinds,         \* their kinds, see Arrive
  Pages,         \* the pages open on the dashboard
  Keep,          \* records of the history, and of a page: 100
  Capacity,      \* records the channel holds: 200, rounded up to 256 by tokio
  MaxFrames,     \* bound: frames of a WebSocket
  MaxClears      \* bound: clears of the history

ASSUME InspectorAssumption ==
  /\ Requests \subseteq Nat \ {0} /\ IsFiniteSet(Requests)
  /\ Kinds \subseteq {"normal", "mock", "websocket", "websocket_clear", "dashboard",
                   "dashboard_uri"}
  /\ Keep \in Nat \ {0} /\ Capacity \in Nat \ {0}
  /\ MaxFrames \in Nat /\ MaxClears \in Nat

VARIABLES
  req,           \* req[r]: kind, stage, and the metadata taken from req_start
  req_start,     \* the requests whose metadata is kept for their response
  counter,       \* frames recorded, all WebSockets together
  history,       \* the records of the history, oldest first
  log,           \* every record sent on the channel
  cleared,       \* for the properties: how much of the log was sent before a clear
  clears,        \* for the bound: clears
  page           \* what each page has asked for and shows

served == <<req, req_start, counter, history, log>>
vars == <<served, cleared, clears, page>>

NoOne == 0
Record(r, id, meta) == [of |-> r, id |-> id, meta |-> meta]

Init ==
  /\ req = [r \in Requests |-> [kind |-> "none", stage |-> "new", meta |-> NoOne]]
  /\ req_start = {} /\ counter = 1
  /\ history = <<>> /\ log = <<>> /\ cleared = 0 /\ clears = 0
  /\ page = [p \in Pages |-> [sse |-> "asked", at |-> 0, wire |-> <<>>,
                              load |-> "asked", reply |-> <<>>, shown |-> <<>>,
                              since |-> -1, clearing |-> FALSE]]
----------------------------------------------------------------------------
(* handlers.rs                                                             *)

\* Fault: a full history keeps its oldest records.
LastOf_Oldest(s) == IF Len(s) > Keep THEN Front(s) ELSE s

\* A history, or a page, of at most Keep records.
LastOf(s) == IF Len(s) > Keep THEN Tail(s) ELSE s

\* record_traffic: under the lock of the history.
Recorded(rec) ==
  /\ history' = LastOf(Append(history, rec))
  /\ log' = Append(log, rec)

Step(r, stage) == req' = [req EXCEPT ![r].stage = stage]
others == <<cleared, clears, page>>

\* The kinds of request whose metadata is kept.
Noted == {"normal", "websocket", "websocket_clear"}

\* handle_request: the dashboard's own requests pass; the mock is recorded and
\* answered; of any other the metadata is kept.
Arrive(r) ==
  /\ req[r].stage = "new"
  /\ \A q \in Requests : q < r => req[q].stage # "new"
  /\ \E k \in Kinds :
       /\ req' = [req EXCEPT ![r].kind = k,
                             ![r].stage = IF k = "mock" THEN "answered" ELSE "upstream"]
       /\ req_start' = IF k \in Noted THEN req_start \cup {r} ELSE req_start
       /\ IF k = "mock" THEN Recorded(Record(r, r, r)) ELSE UNCHANGED <<history, log>>
  /\ UNCHANGED <<counter, others>>

\* Fault: the metadata is read and not taken out.
Respond_Keeps(r) ==
  /\ req[r].stage = "upstream" /\ req[r].kind # "websocket"
  /\ IF req[r].kind = "dashboard"
       THEN Step(r, "answered")
       ELSE req' = [req EXCEPT ![r].stage = "body",
                               ![r].meta = IF r \in req_start THEN r ELSE NoOne]
  /\ UNCHANGED <<req_start, counter, history, log, others>>

\* handle_response: a request of the dashboard is known by its host, not by its URI;
\* the metadata is taken out before the body is awaited.
Respond(r) ==
  /\ req[r].stage = "upstream" /\ req[r].kind # "websocket"
  /\ IF req[r].kind = "dashboard"
       THEN Step(r, "answered") /\ UNCHANGED req_start
       ELSE /\ req' = [req EXCEPT ![r].stage = "body",
                                  ![r].meta = IF r \in req_start THEN r ELSE NoOne]
            /\ req_start' = req_start \ {r}
  /\ UNCHANGED <<counter, history, log, others>>

\* Fault: a response is recorded before its body, and again with it.
RecordBody_Early(r) ==
  /\ req[r].stage \in {"upstream", "body"} /\ req[r].kind = "normal"
  /\ Recorded(Record(r, r, req[r].meta))
  /\ Step(r, IF req[r].stage = "upstream" THEN "body" ELSE "answered")
  /\ UNCHANGED <<req_start, counter, others>>

\* The body has come: the record is made.
RecordBody(r) ==
  /\ req[r].stage = "body"
  /\ Recorded(Record(r, r, req[r].meta))
  /\ Step(r, "answered")
  /\ UNCHANGED <<req_start, counter, others>>

\* The upstream or its body fails, or the client leaves: nothing is called any more.
Fail(r) ==
  /\ req[r].stage \in {"upstream", "body"}
  /\ Step(r, "failed")
  /\ UNCHANGED <<req_start, counter, history, log, others>>

\* The WebSockets open: of one inside a tunnel handle_response is not called, of one
\* in the clear it is, before the first frame.
InRelay(r) == \/ req[r].stage = "upstream" /\ req[r].kind = "websocket"
              \/ req[r].stage = "answered" /\ req[r].kind = "websocket_clear"

\* on_frame.
Frame(r) ==
  /\ InRelay(r)
  /\ counter <= MaxFrames
  /\ counter' = counter + 1
  /\ Recorded(Record(r, r + counter, NoOne))
  /\ UNCHANGED <<req, req_start, others>>

\* on_close does nothing.
CloseWebSocket(r) ==
  /\ InRelay(r)
  /\ Step(r, "closed")
  /\ UNCHANGED <<req_start, counter, history, log, others>>
----------------------------------------------------------------------------
(* dashboard.rs and index.html                                             *)

\* GET /api/history, and the page when the reply has come.
ServeHistory(p) ==
  /\ page[p].load = "asked"
  /\ page' = [page EXCEPT ![p].load = "replied", ![p].reply = history]
  /\ UNCHANGED <<served, cleared, clears>>

LoadHistory(p) ==
  /\ page[p].load = "replied"
  /\ page' = [page EXCEPT ![p].load = "loaded", ![p].shown = page[p].reply, ![p].reply = <<>>,
                          ![p].since = IF page[p].sse = "asked" THEN -1 ELSE Len(log)]
  /\ UNCHANGED <<served, cleared, clears>>

\* GET /events.
Subscribe(p) ==
  /\ page[p].sse = "asked"
  /\ page' = [page EXCEPT ![p].sse = "open", ![p].at = Len(log),
                          ![p].since = IF page[p].load = "loaded" THEN Len(log) ELSE -1]
  /\ UNCHANGED <<served, cleared, clears>>

Lagged(p) == Len(log) - page[p].at > Capacity

\* Fault: a subscriber that lagged goes on with the oldest record there is.
Receive_SkipsLag(p) ==
  /\ page[p].sse = "open" /\ page[p].at < Len(log)
  /\ LET next == IF Lagged(p) THEN Len(log) - Capacity + 1 ELSE page[p].at + 1
     IN  page' = [page EXCEPT ![p].at = next, ![p].wire = Append(@, next)]
  /\ UNCHANGED <<served, cleared, clears>>

\* recv(): the next record, or the end of the stream.
Receive(p) ==
  /\ page[p].sse = "open" /\ page[p].at < Len(log)
  /\ page' = IF Lagged(p) THEN [page EXCEPT ![p].sse = "ended"]
              ELSE [page EXCEPT ![p].at = @ + 1, ![p].wire = Append(@, page[p].at + 1)]
  /\ UNCHANGED <<served, cleared, clears>>

\* Fault: a full page takes no more records.
OnMessage_Full(p) ==
  /\ page[p].wire # <<>>
  /\ page' = [page EXCEPT ![p].shown = IF Len(@) < Keep
                                         THEN Append(@, log[Head(page[p].wire)]) ELSE @,
                          ![p].wire = Tail(@)]
  /\ UNCHANGED <<served, cleared, clears>>

\* onmessage.
OnMessage(p) ==
  /\ page[p].wire # <<>>
  /\ page' = [page EXCEPT ![p].shown = LastOf(Append(@, log[Head(page[p].wire)])),
                          ![p].wire = Tail(@)]
  /\ UNCHANGED <<served, cleared, clears>>

\* Fault: the history is asked for once more, and then no more.
OnError_Once(p) ==
  /\ page[p].sse = "ended" /\ page[p].wire = <<>> /\ page[p].load = "loaded"
  /\ page' = [page EXCEPT ![p].sse = "polling", ![p].load = "asked"]
  /\ UNCHANGED <<served, cleared, clears>>

\* onerror and pollFallback: the history is asked for again and again.
OnError(p) ==
  /\ page[p].sse \in {"ended", "polling"} /\ page[p].wire = <<>>
  /\ page[p].load = "loaded"
  /\ page' = [page EXCEPT ![p].sse = "polling", ![p].load = "asked"]
  /\ UNCHANGED <<served, cleared, clears>>

\* clearLogs: POST /api/clear, and when it is answered the page is emptied.
Clear(p) ==
  /\ clears < MaxClears /\ ~page[p].clearing
  /\ clears' = clears + 1
  /\ history' = <<>> /\ cleared' = Len(log)
  /\ page' = [page EXCEPT ![p].clearing = TRUE]
  /\ UNCHANGED <<req, req_start, counter, log>>

ClearAnswered(p) ==
  /\ page[p].clearing
  /\ page' = [page EXCEPT ![p].shown = <<>>, ![p].clearing = FALSE]
  /\ UNCHANGED <<served, cleared, clears>>

Handle(r) == Respond(r) \/ RecordBody(r) \/ Fail(r) \/ CloseWebSocket(r)
Show(p) == \/ ServeHistory(p) \/ LoadHistory(p) \/ Subscribe(p) \/ Receive(p)
           \/ OnMessage(p) \/ OnError(p) \/ ClearAnswered(p)

Next ==
  \/ \E r \in Requests : Arrive(r) \/ Handle(r) \/ Frame(r)
  \/ \E p \in Pages : Show(p) \/ Clear(p)

Spec == Init /\ [][Next]_vars

\* Servers answer what they are asked, and a page handles what it gets; upstreams
\* answer or fail.  Nobody has to send a request.
FairSpec ==
  /\ Spec
  /\ \A r \in Requests : WF_vars(Handle(r))
  /\ \A p \in Pages : /\ WF_vars(ServeHistory(p)) /\ WF_vars(LoadHistory(p))
                      /\ WF_vars(Subscribe(p)) /\ WF_vars(Receive(p))
                      /\ WF_vars(OnMessage(p)) /\ WF_vars(OnError(p))
                      /\ WF_vars(ClearAnswered(p))
----------------------------------------------------------------------------
\* The last n records of a sequence, or all.
Final(s, n) == SubSeq(s, IF Len(s) > n THEN Len(s) - n + 1 ELSE 1, Len(s))

\* The history is the end of what was broadcast since it was last cleared, in that
\* order (record_traffic pushes and sends under one lock).
HistoryIsLog == history = Final(SubSeq(log, cleared + 1, Len(log)), Keep)

\* An exchange is recorded once if it was answered, not at all if it failed or is the
\* dashboard's, and with its own request's metadata; the metadata is missing from a
\* request for the dashboard's port under another Host, which handle_request lets
\* pass and handle_response does not.
RecordsMatch ==
  \A r \in Requests :
    LET own == {i \in DOMAIN log : log[i].of = r /\ log[i].id = r} IN
      /\ Cardinality(own) = IF /\ req[r].stage \in {"answered", "closed"}
                               /\ req[r].kind \notin {"dashboard", "websocket"}
                             THEN 1 ELSE 0
      /\ \A i \in own : log[i].meta = IF req[r].kind = "dashboard_uri" THEN NoOne ELSE r

\* Metadata stays in req_start while a response is awaited, and for ever if there
\* never is one (Fail) or nobody is told of it (a WebSocket inside a tunnel).
LeakExplained ==
  \A r \in Requests :
    /\ req[r].stage = "upstream" /\ req[r].kind \in Noted => r \in req_start
    /\ r \in req_start =>
         \/ req[r].stage \in {"upstream", "failed"} /\ req[r].kind \in Noted
         \/ req[r].kind = "websocket"

\* What a page has been shown since it had loaded the history and subscribed is the
\* stream, without a gap and without a repetition, as far as it has come, unless a
\* clear cut it: a stream that lagged ends, it does not skip.  (Of what is recorded
\* while the page loads a record can appear twice, or be lost when the history
\* replaces it.)
StreamContiguous ==
  \A p \in Pages :
    LET pg == page[p]
        upto == pg.at - Len(pg.wire)
        news == SubSeq(log, pg.since + 1, upto)
        n == IF Len(news) < Len(pg.shown) THEN Len(news) ELSE Len(pg.shown)
    IN  pg.sse # "polling" /\ pg.since >= 0 =>
          /\ \A i \in DOMAIN pg.wire : pg.wire[i] = upto + i
          /\ upto >= pg.since => Final(pg.shown, n) = Final(news, n)
          /\ clears = 0 => n = IF Len(news) < Keep THEN Len(news) ELSE Keep

\* A page whose stream has ended comes to show the history, once it changes no more
\* (pollFallback).
PollersCatchUp ==
  \A p \in Pages : <>[](page[p].sse = "polling" => page[p].shown = history)

\* A page whose stream goes on comes to show the last record there is, if that was
\* made after it had loaded.
StreamsCatchUp ==
  \A p \in Pages :
    <>[]((page[p].sse = "open" /\ clears = 0 /\ page[p].since < Len(log)) =>
           /\ page[p].since >= 0 /\ page[p].shown # <<>>
           /\ Last(page[p].shown) = Last(log))
============================================================================
