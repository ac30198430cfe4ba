-------------------------- MODULE InspectorProofs --------------------------
(***************************************************************************)
(* Theorems about Inspector, for any number of requests and pages and a    *)
(* history of any length: what the history holds, what stays in req_start, *)
(* what is recorded of an exchange, and what a page is shown.              *)
(***************************************************************************)
EXTENDS Inspector, SequenceTheorems, FiniteSetTheorems, TLAPS

AllKinds == {"normal", "mock", "websocket", "websocket_clear", "dashboard", "dashboard_uri"}
Stages == {"new", "upstream", "body", "answered", "failed", "closed"}
Records == [of : Nat, id : Nat, meta : Nat]

Types ==
  /\ req \in [Requests -> [kind : AllKinds \cup {"none"}, stage : Stages, meta : Nat]]
  /\ req_start \subseteq Requests /\ counter \in Nat \ {0}
  /\ history \in Seq(Records) /\ log \in Seq(Records)
  /\ cleared \in 0..Len(log)

\* The history, record by record: it is as long as what was sent since the last
\* clear, but at most Keep, and ends with the last record sent.
Length == IF Len(log) - cleared > Keep THEN Keep ELSE Len(log) - cleared
Newest ==
  /\ Len(history) = Length
  /\ \A i \in 1..Length : history[i] = log[Len(log) - Length + i]

IInv == Types /\ Newest /\ LeakExplained

\* The records of an exchange itself, without those of its frames.
Own(r) == {i \in DOMAIN log : log[i].of = r /\ log[i].id = r}
Answered(r) == /\ req[r].stage \in {"answered", "closed"}
               /\ req[r].kind \notin {"dashboard", "websocket"}
MetaOf(r) == IF req[r].kind = "dashboard_uri" THEN NoOne ELSE r

\* An exchange has one record when it was answered and none before, and the metadata
\* it will be recorded with is its own.
Exchange(r) ==
  /\ IF Answered(r) THEN \E i \in DOMAIN log : Own(r) = {i} ELSE Own(r) = {}
  /\ \A i \in Own(r) : log[i].meta = MetaOf(r)
  /\ req[r].stage = "upstream" => req[r].kind \notin {"none", "mock"}
  /\ req[r].stage = "body" =>
       /\ req[r].kind \notin {"mock", "dashboard", "websocket"}
       /\ req[r].meta = MetaOf(r)
Exchanges == \A r \in Requests : Exchange(r)

PageStates ==
  [sse : {"asked", "open", "ended", "polling"}, at : Nat, wire : Seq(Nat),
   load : {"asked", "replied", "loaded"}, reply : Seq(Records), shown : Seq(Records),
   since : Int, clearing : BOOLEAN]
PageTypes == clears \in Nat /\ page \in [Pages -> PageStates]

\* How much of the log a page has been shown.
Upto(pg) == pg.at - Len(pg.wire)
Follows(pg) == pg.sse # "polling" /\ pg.since >= 0

\* On the wire are the next records of the log, and they are there.
Wired(pg, sent, cs) ==
  /\ pg.at <= Len(sent) /\ Upto(pg) >= 0 /\ pg.since <= Len(sent)
  /\ \A i \in 1..Len(pg.wire) : pg.wire[i] = Upto(pg) + i
  /\ pg.sse = "asked" => pg.wire = <<>>
  /\ Follows(pg) => pg.load = "loaded"
  /\ Len(pg.reply) <= Keep /\ Len(pg.shown) <= Keep
  /\ pg.clearing => cs > 0

\* What a page shows ends with what it was sent since it follows the log.
Showing(pg, sent, cs) ==
  Follows(pg) =>
    /\ \A i \in 1..(Upto(pg) - pg.since) :
         i <= Len(pg.shown) => pg.shown[Len(pg.shown) + 1 - i] = sent[Upto(pg) + 1 - i]
    /\ cs = 0 => \/ Upto(pg) - pg.since <= Len(pg.shown)
                 \/ Len(pg.shown) = Keep
PageFollows(pg, sent, cs) == Wired(pg, sent, cs) /\ Showing(pg, sent, cs)
PagesFollow == \A p \in Pages : PageFollows(page[p], log, clears)

PInv == PageTypes /\ PagesFollow
----------------------------------------------------------------------------
LEMMA InitInvariant == Init => IInv
<1> SUFFICES ASSUME Init PROVE IInv
  OBVIOUS
<1> USE InspectorAssumption DEF Init
<1>1. Types
  BY EmptySeq DEF Types, Stages, NoOne
<1>2. Newest
  BY DEF Newest, Length
<1>3. LeakExplained
  BY DEF LeakExplained
<1> QED
  BY <1>1, <1>2, <1>3 DEF IInv

\* record_traffic keeps the history the end of the log.
LEMMA RecordedKeeps ==
  ASSUME Types, Newest, NEW rec \in Records, Recorded(rec), cleared' = cleared
  PROVE  /\ history' \in Seq(Records) /\ log' \in Seq(Records) /\ cleared' \in 0..Len(log')
         /\ Newest'
<1> USE InspectorAssumption
<1>1. /\ history \in Seq(Records) /\ log \in Seq(Records)
      /\ cleared \in Nat /\ cleared <= Len(log) /\ Keep \in Nat \ {0}
      /\ Len(log) \in Nat /\ Len(history) \in Nat
  BY DEF Types
<1>2. /\ log' \in Seq(Records) /\ Len(log') = Len(log) + 1
      /\ log'[Len(log) + 1] = rec /\ \A i \in 1..Len(log) : log'[i] = log[i]
  BY <1>1 DEF Recorded
<1> DEFINE more == Append(history, rec)
<1>3. /\ more \in Seq(Records) /\ Len(more) = Len(history) + 1
      /\ more[Len(history) + 1] = rec /\ \A i \in 1..Len(history) : more[i] = history[i]
  BY <1>1
<1>4. history' = IF Len(more) > Keep THEN Tail(more) ELSE more
  BY DEF Recorded, LastOf
<1>5. Len(history) = Length /\ \A i \in 1..Length : history[i] = log[Len(log) - Length + i]
  BY DEF Newest
<1>6. \A i \in 1..(Length + 1) : more[i] = log'[Len(log) - Length + i]
  <2> SUFFICES ASSUME NEW i \in 1..(Length + 1) PROVE more[i] = log'[Len(log) - Length + i]
    OBVIOUS
  <2>1. Length \in Nat /\ Length <= Len(log)
    BY <1>1 DEF Length
  <2>2. CASE i = Length + 1
    BY <1>1, <1>2, <1>3, <1>5, <2>1, <2>2
  <2>3. CASE i \in 1..Length
    <3>1. Len(log) - Length + i \in 1..Len(log)
      BY <1>1, <2>1, <2>3
    <3>2. more[i] = history[i]
      BY <1>3, <1>5, <2>3
    <3> QED
      BY <1>2, <1>5, <2>3, <3>1, <3>2
  <2>4. i = Length + 1 \/ i \in 1..Length
    BY <2>1
  <2> QED
    BY <2>2, <2>3, <2>4
<1> HIDE DEF more
<1>7. CASE Len(more) > Keep
  <2>1. Length = Keep /\ Length' = Keep
    BY <1>1, <1>2, <1>3, <1>5, <1>7 DEF Length
  <2>2. /\ history' \in Seq(Records) /\ Len(history') = Keep
        /\ \A i \in 1..Keep : history'[i] = more[i + 1]
    BY <1>1, <1>3, <1>4, <1>5, <1>7, <2>1
  <2>3. \A i \in 1..Keep : history'[i] = log'[Len(log') - Keep + i]
    <3> SUFFICES ASSUME NEW i \in 1..Keep PROVE history'[i] = log'[Len(log') - Keep + i]
      OBVIOUS
    <3>1. i + 1 \in 1..(Length + 1) /\ Len(log) - Length + (i + 1) = Len(log') - Keep + i
      BY <1>1, <1>2, <2>1
    <3> QED
      BY <1>6, <2>2, <3>1
  <2> QED
    BY <1>1, <1>2, <2>1, <2>2, <2>3 DEF Newest
<1>8. CASE Len(more) <= Keep
  <2>1. Length' = Length + 1 /\ Length \in Nat
    BY <1>1, <1>2, <1>3, <1>5, <1>8 DEF Length
  <2>2. history' = more /\ Len(history') = Length'
    BY <1>1, <1>3, <1>4, <1>5, <1>8, <2>1
  <2>3. Len(log') - Length' = Len(log) - Length
    BY <1>1, <1>2, <2>1
  <2>4. \A i \in 1..Length' : history'[i] = log'[Len(log') - Length' + i]
    BY <1>6, <2>1, <2>2, <2>3
  <2> QED
    BY <1>1, <1>2, <1>3, <2>2, <2>4 DEF Newest
<1> QED
  BY <1>1, <1>3, <1>7, <1>8

\* A step that leaves the history and the log alone.
LEMMA Unrecorded ==
  ASSUME Newest, UNCHANGED <<history, log, cleared>>
  PROVE  Newest'
  BY DEF Newest, Length

LEMMA ArriveStep ==
  ASSUME IInv, NEW r \in Requests, Arrive(r)
  PROVE  IInv'
<1> USE InspectorAssumption DEF IInv
<1>1. PICK k \in Kinds :
        /\ req' = [req EXCEPT ![r].kind = k,
                              ![r].stage = IF k = "mock" THEN "answered" ELSE "upstream"]
        /\ req_start' = IF k \in Noted THEN req_start \cup {r} ELSE req_start
        /\ IF k = "mock" THEN Recorded(Record(r, r, r)) ELSE UNCHANGED <<history, log>>
  BY DEF Arrive
<1>2. req[r].stage = "new" /\ UNCHANGED <<counter, cleared>> /\ k \in AllKinds
  BY DEF Arrive, others, AllKinds
<1>3. /\ history' \in Seq(Records) /\ log' \in Seq(Records) /\ cleared' \in 0..Len(log')
      /\ Newest'
  <2>1. Record(r, r, r) \in Records
    BY DEF Record, Records
  <2> QED
    BY <1>1, <1>2, <2>1, RecordedKeeps, Unrecorded DEF Types
<1>4. Types'
  BY <1>1, <1>2, <1>3 DEF Types, Stages
<1>5. LeakExplained'
  BY <1>1, <1>2 DEF LeakExplained, Types, Noted
<1> QED
  BY <1>3, <1>4, <1>5

LEMMA RespondStep ==
  ASSUME IInv, NEW r \in Requests, Respond(r)
  PROVE  IInv'
<1> USE InspectorAssumption DEF IInv
<1>1. UNCHANGED <<counter, history, log, cleared>> /\ req[r].stage = "upstream"
      /\ req[r].kind # "websocket"
  BY DEF Respond, others
<1>2. CASE req[r].kind = "dashboard"
  <2>1. req' = [req EXCEPT ![r].stage = "answered"] /\ req_start' = req_start
    BY <1>2 DEF Respond, Step
  <2>2. Types'
    BY <1>1, <2>1 DEF Types, Stages
  <2>3. LeakExplained'
    BY <1>1, <1>2, <2>1 DEF LeakExplained, Types, Noted
  <2> QED
    BY <1>1, <2>2, <2>3, Unrecorded
<1>3. CASE req[r].kind # "dashboard"
  <2>1. PICK m \in Nat : req' = [req EXCEPT ![r].stage = "body", ![r].meta = m]
    BY <1>3 DEF Respond, NoOne
  <2>2. req_start' = req_start \ {r}
    BY <1>3 DEF Respond
  <2>3. Types'
    <3>1. req' \in [Requests -> [kind : AllKinds \cup {"none"}, stage : Stages, meta : Nat]]
      <4>1. req \in [Requests -> [kind : AllKinds \cup {"none"}, stage : Stages, meta : Nat]]
        BY DEF Types
      <4>2. "body" \in Stages
        BY DEF Stages
      <4> QED
        BY <2>1, <4>1, <4>2
    <3> QED
      BY <1>1, <2>2, <3>1 DEF Types
  <2>4. LeakExplained'
    BY <1>1, <2>1, <2>2 DEF LeakExplained, Types, Noted
  <2> QED
    BY <1>1, <2>3, <2>4, Unrecorded
<1> QED
  BY <1>2, <1>3

LEMMA RecordBodyStep ==
  ASSUME IInv, NEW r \in Requests, RecordBody(r)
  PROVE  IInv'
<1> USE InspectorAssumption DEF IInv
<1>1. /\ Recorded(Record(r, r, req[r].meta)) /\ req[r].stage = "body"
      /\ req' = [req EXCEPT ![r].stage = "answered"]
      /\ UNCHANGED <<req_start, counter, cleared>>
  BY DEF RecordBody, Step, others
<1>2. Record(r, r, req[r].meta) \in Records
  BY DEF Record, Records, Types
<1>3. /\ history' \in Seq(Records) /\ log' \in Seq(Records) /\ cleared' \in 0..Len(log')
      /\ Newest'
  BY <1>1, <1>2, RecordedKeeps
<1>4. Types'
  BY <1>1, <1>3 DEF Types, Stages
<1>5. LeakExplained'
  BY <1>1 DEF LeakExplained, Types
<1> QED
  BY <1>3, <1>4, <1>5

LEMMA FrameStep ==
  ASSUME IInv, NEW r \in Requests, Frame(r)
  PROVE  IInv'
<1> USE InspectorAssumption DEF IInv
<1>1. /\ Recorded(Record(r, r + counter, NoOne)) /\ counter' = counter + 1
      /\ UNCHANGED <<req, req_start, cleared>>
  BY DEF Frame, others
<1>2. Record(r, r + counter, NoOne) \in Records
  BY DEF Record, Records, Types, NoOne
<1>3. /\ history' \in Seq(Records) /\ log' \in Seq(Records) /\ cleared' \in 0..Len(log')
      /\ Newest'
  BY <1>1, <1>2, RecordedKeeps
<1>4. Types'
  BY <1>1, <1>3 DEF Types
<1>5. LeakExplained'
  BY <1>1 DEF LeakExplained
<1> QED
  BY <1>3, <1>4, <1>5

\* An exchange ends without a record.
LEMMA EndsStep ==
  ASSUME IInv, NEW r \in Requests, Fail(r) \/ CloseWebSocket(r)
  PROVE  IInv'
<1> USE InspectorAssumption DEF IInv
<1>1. UNCHANGED <<req_start, counter, history, log, cleared>>
  BY DEF Fail, CloseWebSocket, others
<1>2. /\ req' = [req EXCEPT ![r].stage = IF Fail(r) THEN "failed" ELSE "closed"]
      /\ Fail(r) => req[r].stage \in {"upstream", "body"}
      /\ ~Fail(r) => InRelay(r)
  BY DEF Fail, CloseWebSocket, Step
<1>3. Types'
  BY <1>1, <1>2 DEF Types, Stages
<1>4. LeakExplained'
  BY <1>1, <1>2 DEF LeakExplained, Types, InRelay
<1> QED
  BY <1>1, <1>3, <1>4, Unrecorded

LEMMA ClearStep ==
  ASSUME IInv, NEW p \in Pages, Clear(p)
  PROVE  IInv'
<1> USE InspectorAssumption DEF IInv
<1>1. /\ history' = <<>> /\ cleared' = Len(log)
      /\ UNCHANGED <<req, req_start, counter, log>>
  BY DEF Clear
<1>2. Types' /\ LeakExplained'
  BY <1>1, EmptySeq DEF Types, LeakExplained
<1>3. Newest'
  BY <1>1 DEF Newest, Length, Types
<1> QED
  BY <1>2, <1>3

\* What the pages do touches neither.
LEMMA ShowStep ==
  ASSUME IInv, NEW p \in Pages, Show(p)
  PROVE  IInv'
<1>1. UNCHANGED <<req, req_start, counter, history, log, cleared>>
  BY DEF Show, ServeHistory, LoadHistory, Subscribe, Receive, OnMessage, OnError,
         ClearAnswered, served
<1> QED
  BY <1>1, Unrecorded DEF IInv, Types, LeakExplained

LEMMA StepInvariant == IInv /\ [Next]_vars => IInv'
<1> SUFFICES ASSUME IInv, [Next]_vars PROVE IInv'
  OBVIOUS
<1>1. CASE UNCHANGED vars
  BY <1>1, Unrecorded DEF IInv, Types, LeakExplained, vars, served
<1>2. ASSUME NEW r \in Requests, Arrive(r) \/ Handle(r) \/ Frame(r) PROVE IInv'
  BY <1>2, ArriveStep, RespondStep, RecordBodyStep, FrameStep, EndsStep DEF Handle
<1>3. ASSUME NEW p \in Pages, Show(p) \/ Clear(p) PROVE IInv'
  BY <1>3, ShowStep, ClearStep
<1> QED
  BY <1>1, <1>2, <1>3 DEF Next

LEMMA Invariance == Spec => []IInv
<1>1. Init => IInv
  BY InitInvariant
<1>2. IInv /\ [Next]_vars => IInv'
  BY StepInvariant
<1> QED
  BY <1>1, <1>2, PTL DEF Spec
----------------------------------------------------------------------------
\* The last n records of a sequence, record by record.
LEMMA EndElements ==
  ASSUME NEW s \in Seq(Records), NEW n \in Nat, n <= Len(s)
  PROVE  /\ SubSeq(s, Len(s) - n + 1, Len(s)) \in Seq(Records)
         /\ Len(SubSeq(s, Len(s) - n + 1, Len(s))) = n
         /\ \A i \in 1..n : SubSeq(s, Len(s) - n + 1, Len(s))[i] = s[Len(s) - n + i]
<1>1. PICK l \in Nat, m \in Nat : l = Len(s) /\ m = l - n + 1
  OBVIOUS
<1>2. /\ m \in 1..(Len(s) + 1) /\ l \in (m - 1)..Len(s) /\ l - m + 1 = n
      /\ \A i \in 1..n : m + i - 1 = Len(s) - n + i
  BY <1>1
<1>3. /\ SubSeq(s, m, l) \in Seq(Records) /\ Len(SubSeq(s, m, l)) = l - m + 1
      /\ \A i \in 1..(l - m + 1) : SubSeq(s, m, l)[i] = s[m + i - 1]
  BY <1>2, SubSeqProperties
<1> QED
  BY <1>1, <1>2, <1>3

\* The history is the end of what was broadcast since the last clear, whatever
\* exchanges overlap (record_traffic).
THEOREM HistoryAlways == Spec => []HistoryIsLog
<1>1. IInv => HistoryIsLog
  <2> SUFFICES ASSUME IInv PROVE HistoryIsLog
    OBVIOUS
  <2> USE InspectorAssumption
  <2> DEFINE sent == SubSeq(log, cleared + 1, Len(log))
             last == Final(sent, Keep)
  <2>1. /\ history \in Seq(Records) /\ log \in Seq(Records)
        /\ cleared \in Nat /\ cleared <= Len(log) /\ Len(log) \in Nat /\ Keep \in Nat \ {0}
    BY DEF IInv, Types
  <2>2. /\ sent \in Seq(Records) /\ Len(sent) = Len(log) - cleared
        /\ \A i \in 1..(Len(log) - cleared) : sent[i] = log[cleared + i]
    BY <2>1
  <2>3. Length \in Nat /\ Length <= Len(log) - cleared
    BY <2>1 DEF Length
  <2> HIDE DEF sent
  <2>4. last = SubSeq(sent, Len(sent) - Length + 1, Len(sent))
    <3>1. Len(sent) \in Nat /\ Length = IF Len(sent) > Keep THEN Keep ELSE Len(sent)
      BY <2>1, <2>2 DEF Length
    <3>2. CASE Len(sent) > Keep
      BY <3>1, <3>2 DEF Final
    <3>3. CASE ~(Len(sent) > Keep)
      <4>1. Len(sent) - Length + 1 = 1
        BY <3>1, <3>3
      <4> QED
        BY <3>3, <4>1 DEF Final
    <3> QED
      BY <3>2, <3>3
  <2> HIDE DEF last
  <2>5. /\ last \in Seq(Records) /\ Len(last) = Length
        /\ \A i \in 1..Length : last[i] = sent[Len(sent) - Length + i]
    <3>1. sent \in Seq(Records) /\ Length \in Nat /\ Length <= Len(sent)
      BY <2>2, <2>3
    <3> QED
      BY <2>4, <3>1, EndElements
  <2>6. \A i \in 1..Length : last[i] = history[i]
    <3> SUFFICES ASSUME NEW i \in 1..Length PROVE last[i] = history[i]
      OBVIOUS
    <3>1. /\ Len(sent) - Length + i \in 1..(Len(log) - cleared)
          /\ cleared + (Len(sent) - Length + i) = Len(log) - Length + i
      BY <2>1, <2>2, <2>3
    <3>2. last[i] = log[Len(log) - Length + i]
      BY <2>2, <2>5, <3>1
    <3> QED
      BY <3>2 DEF IInv, Newest
  <2>7. history = last
    BY <2>1, <2>5, <2>6, SeqEqual DEF IInv, Newest
  <2> QED
    BY <2>7 DEF HistoryIsLog, last, sent
<1> QED
  BY <1>1, Invariance, PTL

\* Metadata stays in req_start only for a request whose response is still awaited,
\* never came, or that became a WebSocket inside a tunnel.
THEOREM LeakAlways == Spec => []LeakExplained
<1>1. IInv => LeakExplained
  BY DEF IInv
<1> QED
  BY <1>1, Invariance, PTL
----------------------------------------------------------------------------
(* What is recorded of an exchange.                                        *)

\* A record is its exchange's own, or no exchange's.
LEMMA OwnRecorded ==
  ASSUME Types, NEW rec \in Records, Recorded(rec), NEW r \in Requests
  PROVE  /\ Own(r)' = IF rec.of = r /\ rec.id = r THEN Own(r) \cup {Len(log) + 1} ELSE Own(r)
         /\ \A i \in DOMAIN log : i \in DOMAIN log' /\ log'[i] = log[i]
         /\ Len(log) + 1 \in DOMAIN log' /\ log'[Len(log) + 1] = rec
<1>1. log \in Seq(Records) /\ log' = Append(log, rec)
  BY DEF Types, Recorded
<1>2. /\ Len(log) \in Nat /\ DOMAIN log = 1..Len(log)
      /\ DOMAIN log' = 1..(Len(log) + 1) /\ log'[Len(log) + 1] = rec
      /\ \A i \in 1..Len(log) : log'[i] = log[i]
  BY <1>1
<1>3. DOMAIN log' = DOMAIN log \cup {Len(log) + 1} /\ Len(log) + 1 \notin DOMAIN log
  BY <1>2
<1>4. Own(r)' = {i \in DOMAIN log' : log'[i].of = r /\ log'[i].id = r}
  BY DEF Own
<1> QED
  BY <1>2, <1>3, <1>4 DEF Own

\* An exchange that a step does not record and does not move.
LEMMA SameExchange ==
  ASSUME NEW r \in Requests, Exchange(r), req'[r] = req[r], Own(r)' = Own(r),
         \A i \in DOMAIN log : i \in DOMAIN log' /\ log'[i] = log[i]
  PROVE  Exchange(r)'
<1>1. Answered(r)' = Answered(r) /\ MetaOf(r)' = MetaOf(r)
  BY DEF Answered, MetaOf
<1>2. Own(r) \subseteq DOMAIN log
  BY DEF Own
<1> QED
  BY <1>1, <1>2 DEF Exchange

\* A step of one exchange, recorded or not, leaves the others alone.
LEMMA OtherExchanges ==
  ASSUME Types, Exchanges, NEW q \in Requests, NEW r \in Requests, r # q,
         req'[r] = req[r],
         UNCHANGED log \/ \E rec \in Records : rec.of = q /\ Recorded(rec)
  PROVE  Exchange(r)'
<1>1. CASE UNCHANGED log
  BY <1>1, SameExchange DEF Exchanges, Own
<1>2. CASE \E rec \in Records : rec.of = q /\ Recorded(rec)
  <2>1. PICK rec \in Records : rec.of = q /\ Recorded(rec)
    BY <1>2
  <2>2. Own(r)' = Own(r) /\ \A i \in DOMAIN log : i \in DOMAIN log' /\ log'[i] = log[i]
    BY <2>1, OwnRecorded
  <2> QED
    BY <2>2, SameExchange DEF Exchanges
<1> QED
  BY <1>1, <1>2

\* The exchange itself is recorded, once and for all.
LEMMA ExchangeRecorded ==
  ASSUME Types, NEW r \in Requests, Exchange(r), ~Answered(r), Answered(r)',
         req'[r].stage \notin {"upstream", "body"},
         Recorded(Record(r, r, MetaOf(r)')), MetaOf(r)' \in Nat
  PROVE  Exchange(r)'
<1> DEFINE rec == Record(r, r, MetaOf(r)')
<1>1. rec \in Records /\ rec.of = r /\ rec.id = r /\ rec.meta = MetaOf(r)'
  BY InspectorAssumption DEF Record, Records
<1> HIDE DEF rec
<1>2. Recorded(rec)
  BY DEF rec
<1>3. Own(r) = {}
  BY DEF Exchange
<1>4. /\ Own(r)' = {Len(log) + 1} /\ Len(log) + 1 \in DOMAIN log'
      /\ log'[Len(log) + 1] = rec
  BY <1>1, <1>2, <1>3, OwnRecorded
<1> QED
  BY <1>1, <1>4 DEF Exchange

\* A step of the exchange without a record of it.
LEMMA ExchangeMoved ==
  ASSUME Types, NEW r \in Requests, Exchange(r), Own(r)' = Own(r),
         \A i \in DOMAIN log : i \in DOMAIN log' /\ log'[i] = log[i],
         Answered(r)' <=> Answered(r), Own(r) = {} \/ MetaOf(r)' = MetaOf(r),
         req'[r].stage = "upstream" => req'[r].kind \notin {"none", "mock"},
         req'[r].stage = "body" =>
           /\ req'[r].kind \notin {"mock", "dashboard", "websocket"}
           /\ req'[r].meta = MetaOf(r)'
  PROVE  Exchange(r)'
<1>1. Own(r) \subseteq DOMAIN log
  BY DEF Own
<1> QED
  BY <1>1 DEF Exchange

LEMMA ArriveExchange ==
  ASSUME Types, Exchanges, NEW q \in Requests, Arrive(q), NEW r \in Requests
  PROVE  Exchange(r)'
<1> USE InspectorAssumption
<1>1. PICK k \in Kinds :
        /\ req' = [req EXCEPT ![q].kind = k,
                              ![q].stage = IF k = "mock" THEN "answered" ELSE "upstream"]
        /\ IF k = "mock" THEN Recorded(Record(q, q, q)) ELSE UNCHANGED <<history, log>>
  BY DEF Arrive
<1>2. req[q].stage = "new" /\ Exchange(q) /\ ~Answered(q) /\ Own(q) = {}
  BY DEF Arrive, Exchanges, Exchange, Answered
<1>3. /\ req'[q].kind = k /\ req'[q].stage = IF k = "mock" THEN "answered" ELSE "upstream"
      /\ \A s \in Requests : s # q => req'[s] = req[s]
  BY <1>1 DEF Types
<1>4. CASE r # q
  <2>1. Record(q, q, q) \in Records /\ Record(q, q, q).of = q
    BY DEF Record, Records
  <2> QED
    BY <1>1, <1>3, <1>4, <2>1, OtherExchanges
<1>5. CASE r = q /\ k = "mock"
  <2>1. /\ Answered(q)' /\ MetaOf(q)' = q /\ q \in Nat
        /\ req'[q].stage \notin {"upstream", "body"}
    BY <1>3, <1>5 DEF Answered, MetaOf
  <2>2. Recorded(Record(q, q, MetaOf(q)'))
    BY <1>1, <1>5, <2>1
  <2>3. Exchange(q)'
    BY <1>2, <2>1, <2>2, ExchangeRecorded
  <2> QED
    BY <1>5, <2>3
<1>6. CASE r = q /\ k # "mock"
  <2>1. ~Answered(q)' /\ Own(q)' = Own(q)
    BY <1>1, <1>3, <1>6 DEF Answered, Own
  <2>2. /\ \A i \in DOMAIN log : i \in DOMAIN log' /\ log'[i] = log[i]
        /\ req'[q].stage = "upstream" /\ req'[q].kind \notin {"none", "mock"}
    BY <1>1, <1>3, <1>6
  <2>3. Exchange(q)'
    BY <1>2, <2>1, <2>2, ExchangeMoved
  <2> QED
    BY <1>6, <2>3
<1> QED
  BY <1>4, <1>5, <1>6

LEMMA RespondExchange ==
  ASSUME IInv, Exchanges, NEW q \in Requests, Respond(q), NEW r \in Requests
  PROVE  Exchange(r)'
<1> USE InspectorAssumption
<1>1. UNCHANGED log /\ req[q].stage = "upstream" /\ req[q].kind # "websocket" /\ Types
  BY DEF Respond, IInv
<1>2. Exchange(q) /\ ~Answered(q) /\ Own(q) = {} /\ Own(q)' = Own(q) /\ req[q].kind # "mock"
  BY <1>1 DEF Exchanges, Exchange, Answered, Own
<1>3. /\ req'[q].kind = req[q].kind
      /\ \A s \in Requests : s # q => req'[s] = req[s]
      /\ IF req[q].kind = "dashboard" THEN req'[q].stage = "answered"
         ELSE req'[q].stage = "body" /\ req'[q].meta = IF q \in req_start THEN q ELSE NoOne
  BY <1>1 DEF Respond, Step, Types
<1>4. CASE r # q
  BY <1>1, <1>3, <1>4, OtherExchanges
<1>5. CASE r = q
  <2>1. req[q].kind # "dashboard" => req'[q].meta = MetaOf(q)'
    <3>1. req[q].kind \in AllKinds \cup {"none"}
      BY <1>1 DEF Types
    <3>2. q \in req_start <=> req[q].kind \in Noted
      BY <1>1 DEF IInv, LeakExplained
    <3>3. req[q].kind = "none" => req[q].stage # "upstream"
      BY DEF IInv, Exchanges, Exchange
    <3>4. MetaOf(q)' = IF req[q].kind = "dashboard_uri" THEN NoOne ELSE q
      BY <1>3 DEF MetaOf
    <3>5. req[q].kind \in Noted \cup {"dashboard", "dashboard_uri"}
      BY <1>1, <1>2, <3>1, <3>3 DEF Noted, AllKinds
    <3> QED
      BY <1>3, <3>2, <3>4, <3>5 DEF Noted
  <2>2. /\ ~Answered(q)' /\ req'[q].stage # "upstream"
        /\ \A i \in DOMAIN log : i \in DOMAIN log' /\ log'[i] = log[i]
        /\ req'[q].stage = "body" => req'[q].kind \notin {"mock", "dashboard", "websocket"}
    BY <1>1, <1>2, <1>3 DEF Answered
  <2>3. req'[q].stage = "body" => req'[q].meta = MetaOf(q)'
    BY <1>3, <2>1
  <2>4. Exchange(q)'
    BY <1>1, <1>2, <2>2, <2>3, ExchangeMoved
  <2> QED
    BY <1>5, <2>4
<1> QED
  BY <1>4, <1>5

LEMMA RecordBodyExchange ==
  ASSUME Types, Exchanges, NEW q \in Requests, RecordBody(q), NEW r \in Requests
  PROVE  Exchange(r)'
<1> USE InspectorAssumption
<1>1. Recorded(Record(q, q, req[q].meta)) /\ req[q].stage = "body"
      /\ req' = [req EXCEPT ![q].stage = "answered"]
  BY DEF RecordBody, Step
<1>2. /\ req'[q].kind = req[q].kind /\ req'[q].stage = "answered"
      /\ \A s \in Requests : s # q => req'[s] = req[s]
      /\ req[q].meta \in Nat
  BY <1>1 DEF Types
<1>3. CASE r # q
  <2>1. Record(q, q, req[q].meta) \in Records /\ Record(q, q, req[q].meta).of = q
    BY <1>2 DEF Record, Records
  <2> QED
    BY <1>1, <1>2, <1>3, <2>1, OtherExchanges
<1>4. CASE r = q
  <2>1. /\ Exchange(q) /\ ~Answered(q) /\ Answered(q)'
        /\ MetaOf(q)' = req[q].meta
    BY <1>1, <1>2 DEF Exchanges, Exchange, Answered, MetaOf
  <2> QED
    BY <1>1, <1>2, <1>4, <2>1, ExchangeRecorded
<1> QED
  BY <1>3, <1>4

\* A frame has the id of its connection plus a counter that is never 0.
LEMMA FrameExchange ==
  ASSUME Types, Exchanges, NEW q \in Requests, Frame(q), NEW r \in Requests
  PROVE  Exchange(r)'
<1> USE InspectorAssumption
<1> DEFINE rec == Record(q, q + counter, NoOne)
<1>1. Recorded(rec) /\ UNCHANGED req
  BY DEF Frame, others
<1>2. q \in Nat /\ counter \in Nat \ {0}
  BY DEF Types
<1>3. rec \in Records /\ rec.of = q /\ rec.id # q
  BY <1>2 DEF Record, Records, NoOne
<1> HIDE DEF rec
<1>4. Own(r)' = Own(r) /\ \A i \in DOMAIN log : i \in DOMAIN log' /\ log'[i] = log[i]
  BY <1>1, <1>3, OwnRecorded
<1> QED
  BY <1>1, <1>4, SameExchange DEF Exchanges

LEMMA EndsExchange ==
  ASSUME Types, Exchanges, NEW q \in Requests, Fail(q) \/ CloseWebSocket(q),
         NEW r \in Requests
  PROVE  Exchange(r)'
<1>1. /\ UNCHANGED log
      /\ \/ req[q].stage \in {"upstream", "body"}
            /\ req' = [req EXCEPT ![q].stage = "failed"]
         \/ /\ InRelay(q) /\ req' = [req EXCEPT ![q].stage = "closed"]
  BY DEF Fail, CloseWebSocket, Step
<1>2. /\ \A s \in Requests : s # q => req'[s] = req[s]
      /\ req'[q].kind = req[q].kind
      /\ \/ req[q].stage \in {"upstream", "body"} /\ req'[q].stage = "failed"
         \/ InRelay(q) /\ req'[q].stage = "closed"
  BY <1>1 DEF Types
<1>3. CASE r # q
  BY <1>1, <1>2, <1>3, OtherExchanges
<1>4. CASE r = q
  <2>1. Answered(q)' <=> Answered(q)
    BY <1>2 DEF Answered, InRelay
  <2>2. MetaOf(q)' = MetaOf(q) /\ Own(q)' = Own(q)
    BY <1>1, <1>2 DEF MetaOf, Own
  <2> QED
    BY <1>1, <1>2, <1>4, <2>1, <2>2, ExchangeMoved DEF Exchanges
<1> QED
  BY <1>3, <1>4

LEMMA InitExchanges == Init => Exchanges
<1> SUFFICES ASSUME Init, NEW r \in Requests PROVE Exchange(r)
  BY DEF Exchanges
<1>1. log = <<>> /\ req[r].stage = "new"
  BY DEF Init
<1>2. Own(r) = {} /\ ~Answered(r)
  BY <1>1 DEF Own, Answered
<1> QED
  BY <1>1, <1>2 DEF Exchange

LEMMA StepExchanges == IInv /\ Exchanges /\ [Next]_vars => Exchanges'
<1> SUFFICES ASSUME IInv, Exchanges, [Next]_vars, NEW r \in Requests PROVE Exchange(r)'
  BY DEF Exchanges
<1>1. Types /\ Exchange(r)
  BY DEF IInv, Exchanges
<1>2. CASE UNCHANGED <<req, log>>
  BY <1>1, <1>2, SameExchange DEF Own
<1>3. ASSUME NEW q \in Requests, Arrive(q) \/ Handle(q) \/ Frame(q) PROVE Exchange(r)'
  BY <1>1, <1>3, ArriveExchange, RespondExchange, RecordBodyExchange, FrameExchange,
     EndsExchange DEF Handle
<1>4. ASSUME NEW p \in Pages, Show(p) \/ Clear(p) PROVE UNCHANGED <<req, log>>
  BY <1>4 DEF Show, ServeHistory, LoadHistory, Subscribe, Receive, OnMessage, OnError,
              ClearAnswered, Clear, served
<1>5. UNCHANGED vars => UNCHANGED <<req, log>>
  BY DEF vars, served
<1> QED
  BY <1>2, <1>3, <1>4, <1>5 DEF Next

\* Whatever exchanges overlap, one is recorded once if it was answered and not at all
\* if it failed or is the dashboard's, with the metadata that handle_request took for
\* it (handle_response).
THEOREM RecordsAlways == Spec => []RecordsMatch
<1>1. Exchanges => RecordsMatch
  <2> SUFFICES ASSUME Exchanges, NEW r \in Requests
               PROVE  /\ Cardinality(Own(r)) = IF Answered(r) THEN 1 ELSE 0
                      /\ \A i \in Own(r) : log[i].meta = MetaOf(r)
    BY DEF RecordsMatch, Own, Answered, MetaOf
  <2>1. Exchange(r)
    BY DEF Exchanges
  <2>2. CASE Answered(r)
    <3>1. PICK i \in DOMAIN log : Own(r) = {i}
      BY <2>1, <2>2 DEF Exchange
    <3> QED
      BY <2>1, <2>2, <3>1, FS_Singleton DEF Exchange
  <2>3. CASE ~Answered(r)
    BY <2>1, <2>3, FS_EmptySet DEF Exchange
  <2> QED
    BY <2>2, <2>3
<1>2. Init => Exchanges
  BY InitExchanges
<1>3. IInv /\ Exchanges /\ [Next]_vars => Exchanges'
  BY StepExchanges
<1> QED
  BY <1>1, <1>2, <1>3, Invariance, PTL DEF Spec
----------------------------------------------------------------------------
(* What a page is shown.                                                   *)

\* The log only grows, and what it had stays.
Extends(sent, more) ==
  Len(sent) <= Len(more) /\ \A i \in 1..Len(sent) : more[i] = sent[i]

LEMMA LogGrows ==
  ASSUME Types, UNCHANGED log \/ \E rec \in Records : Recorded(rec)
  PROVE  Extends(log, log')
<1>1. log \in Seq(Records)
  BY DEF Types
<1>2. CASE UNCHANGED log
  BY <1>1, <1>2 DEF Extends
<1>3. CASE \E rec \in Records : Recorded(rec)
  <2>1. PICK rec \in Records : log' = Append(log, rec)
    BY <1>3 DEF Recorded
  <2> QED
    BY <1>1, <2>1 DEF Extends
<1> QED
  BY <1>2, <1>3

\* A page that does nothing while the log grows.
LEMMA PageStays ==
  ASSUME NEW pg \in PageStates, NEW sent \in Seq(Records), NEW more \in Seq(Records),
         NEW c \in Nat, NEW d \in Nat, c <= d, Extends(sent, more), PageFollows(pg, sent, c)
  PROVE  PageFollows(pg, more, d)
<1> USE DEF PageFollows
<1>1. /\ Len(sent) \in Nat /\ Len(more) \in Nat /\ Len(sent) <= Len(more)
      /\ \A i \in 1..Len(sent) : more[i] = sent[i]
  BY DEF Extends
<1>2. /\ pg.at \in Nat /\ pg.since \in Int /\ pg.wire \in Seq(Nat) /\ Len(pg.wire) \in Nat
      /\ pg.shown \in Seq(Records) /\ Len(pg.shown) \in Nat
  BY DEF PageStates
<1>3. Wired(pg, more, d)
  BY <1>1, <1>2 DEF Wired
<1>4. Showing(pg, more, d)
  <2> SUFFICES ASSUME Follows(pg) PROVE Showing(pg, more, d)
    BY DEF Showing
  <2>1. /\ \A i \in 1..(Upto(pg) - pg.since) :
             i <= Len(pg.shown) => pg.shown[Len(pg.shown) + 1 - i] = sent[Upto(pg) + 1 - i]
        /\ c = 0 => \/ Upto(pg) - pg.since <= Len(pg.shown)
                    \/ Len(pg.shown) = Keep
    BY DEF Showing
  <2>2. Upto(pg) \in Nat /\ Upto(pg) <= Len(sent) /\ pg.since >= 0
    BY <1>1, <1>2 DEF Wired, Upto, Follows
  <2>3. ASSUME NEW i \in 1..(Upto(pg) - pg.since), i <= Len(pg.shown)
        PROVE  pg.shown[Len(pg.shown) + 1 - i] = more[Upto(pg) + 1 - i]
    <3>1. Upto(pg) + 1 - i \in 1..Len(sent)
      BY <1>2, <2>2, <2>3
    <3> QED
      BY <1>1, <2>1, <2>3, <3>1
  <2>4. d = 0 => c = 0
    OBVIOUS
  <2> QED
    BY <2>1, <2>3, <2>4 DEF Showing
<1> QED
  BY <1>3, <1>4

\* The log grows, and no page does anything.
LEMMA PagesStay ==
  ASSUME Types, PInv, UNCHANGED <<page, clears>>,
         UNCHANGED log \/ \E rec \in Records : Recorded(rec)
  PROVE  PInv'
<1>1. Extends(log, log') /\ log \in Seq(Records) /\ log' \in Seq(Records)
  <2>1. log \in Seq(Records)
    BY DEF Types
  <2>2. log' \in Seq(Records)
    BY <2>1 DEF Recorded
  <2> QED
    BY <2>1, <2>2, LogGrows
<1>2. ASSUME NEW p \in Pages PROVE PageFollows(page'[p], log', clears')
  <2>1. page[p] \in PageStates /\ PageFollows(page[p], log, clears) /\ clears \in Nat
    BY DEF PInv, PageTypes, PagesFollow
  <2> QED
    BY <1>1, <2>1, PageStays
<1> QED
  BY <1>2 DEF PInv, PageTypes, PagesFollow

\* A step of one page that keeps the log.
LEMMA PageSteps ==
  ASSUME Types, PInv, NEW p \in Pages, NEW new \in PageStates,
         page' = [page EXCEPT ![p] = new], UNCHANGED log,
         clears' \in Nat, clears <= clears', PageFollows(new, log, clears')
  PROVE  PInv'
<1>1. /\ page'[p] = new /\ \A q \in Pages : q # p => page'[q] = page[q]
      /\ page' \in [Pages -> PageStates]
  BY DEF PInv, PageTypes
<1>2. ASSUME NEW q \in Pages PROVE PageFollows(page'[q], log', clears')
  <2>1. CASE q = p
    BY <1>1, <2>1
  <2>2. CASE q # p
    <3>1. /\ page[q] \in PageStates /\ PageFollows(page[q], log, clears) /\ clears \in Nat
          /\ log \in Seq(Records) /\ Extends(log, log)
      BY DEF PInv, PageTypes, PagesFollow, Types, Extends
    <3> QED
      BY <1>1, <2>2, <3>1, PageStays
  <2> QED
    BY <2>1, <2>2
<1> QED
  BY <1>1, <1>2 DEF PInv, PageTypes, PagesFollow

\* What is known of a page before its step.
Known(pg) ==
  /\ pg \in PageStates /\ Wired(pg, log, clears) /\ Showing(pg, log, clears)
  /\ log \in Seq(Records) /\ history \in Seq(Records) /\ clears \in Nat
  /\ Len(log) \in Nat /\ Len(history) <= Keep
  /\ pg.at \in Nat /\ pg.wire \in Seq(Nat) /\ Len(pg.wire) \in Nat
  /\ pg.shown \in Seq(Records) /\ Len(pg.shown) \in Nat
  /\ pg.reply \in Seq(Records) /\ pg.since \in Int

LEMMA PageFacts ==
  ASSUME Types, Newest, PInv, NEW p \in Pages
  PROVE  \E pg \in PageStates : pg = page[p] /\ Known(pg)
<1>1. log \in Seq(Records) /\ history \in Seq(Records) /\ cleared \in 0..Len(log)
  BY DEF Types
<1>2. Len(history) <= Keep /\ Len(log) \in Nat
  BY <1>1, InspectorAssumption DEF Newest, Length
<1>3. /\ page[p] \in PageStates /\ PageFollows(page[p], log, clears) /\ clears \in Nat
  BY DEF PInv, PageTypes, PagesFollow
<1>4. PICK pg \in PageStates : pg = page[p]
  BY <1>3
<1>5. /\ pg.at \in Nat /\ pg.wire \in Seq(Nat) /\ Len(pg.wire) \in Nat
      /\ pg.shown \in Seq(Records) /\ Len(pg.shown) \in Nat
      /\ pg.reply \in Seq(Records) /\ pg.since \in Int
  BY <1>4 DEF PageStates
<1> QED
  BY <1>1, <1>2, <1>3, <1>4, <1>5 DEF Known, PageFollows

\* A step of a page that does not clear.
LEMMA PageActs ==
  ASSUME Types, PInv, NEW p \in Pages, NEW new \in PageStates,
         page' = [page EXCEPT ![p] = new], UNCHANGED log, clears' = clears,
         Wired(new, log, clears), Showing(new, log, clears)
  PROVE  PInv'
<1>1. clears' \in Nat /\ clears <= clears'
  BY DEF PInv, PageTypes
<1>2. PageFollows(new, log, clears')
  BY DEF PageFollows
<1> QED
  BY <1>1, <1>2, PageSteps

LEMMA ServeHistoryPage ==
  ASSUME Types, Newest, PInv, NEW p \in Pages, ServeHistory(p)
  PROVE  PInv'
<1>1. PICK pg \in PageStates : pg = page[p] /\ Known(pg)
  BY PageFacts
<1>2. PICK new : new = [pg EXCEPT !.load = "replied", !.reply = history]
  OBVIOUS
<1>3. /\ page' = [page EXCEPT ![p] = new] /\ UNCHANGED log /\ clears' = clears
      /\ pg.load = "asked"
  BY <1>1, <1>2 DEF ServeHistory, served, PInv, PageTypes
<1>4. new \in PageStates
  BY <1>1, <1>2 DEF Known, PageStates
<1>5. Wired(new, log, clears) /\ Showing(new, log, clears)
  BY <1>1, <1>2, <1>3 DEF Known, Wired, Showing, Follows, Upto, PageStates
<1> QED
  BY <1>3, <1>4, <1>5, PageActs

LEMMA LoadHistoryPage ==
  ASSUME Types, Newest, PInv, NEW p \in Pages, LoadHistory(p)
  PROVE  PInv'
<1>1. PICK pg \in PageStates : pg = page[p] /\ Known(pg)
  BY PageFacts
<1>2. PICK since : since = IF pg.sse = "asked" THEN -1 ELSE Len(log)
  OBVIOUS
<1>3. PICK new : new = [pg EXCEPT !.load = "loaded", !.shown = pg.reply, !.reply = <<>>,
                          !.since = since]
  OBVIOUS
<1>4. /\ page' = [page EXCEPT ![p] = new] /\ UNCHANGED log /\ clears' = clears
  BY <1>1, <1>2, <1>3 DEF LoadHistory, served, PInv, PageTypes
<1>5. since \in Int /\ since <= Len(log) /\ pg.at <= Len(log) /\ Upto(pg) <= Len(log)
      /\ Upto(pg) \in Int
  BY <1>1, <1>2 DEF Known, Wired, Upto
<1>6. <<>> \in Seq(Records) /\ Len(<<>>) = 0
  BY EmptySeq
<1>7. /\ new \in PageStates /\ new.at = pg.at /\ new.wire = pg.wire /\ new.sse = pg.sse
      /\ new.load = "loaded" /\ new.since = since /\ new.shown = pg.reply
      /\ new.reply = <<>> /\ new.clearing = pg.clearing
  BY <1>3, <1>5, <1>6 DEF PageStates
<1>8. Upto(new) = Upto(pg)
  BY <1>7 DEF Upto
<1>9. Wired(new, log, clears)
  BY <1>1, <1>5, <1>6, <1>7, <1>8, InspectorAssumption DEF Known, Wired, Follows
<1>10. Showing(new, log, clears)
  <2>1. Follows(new) => since = Len(log)
    BY <1>2, <1>7 DEF Follows
  <2>2. Len(new.shown) \in Nat
    BY <1>1, <1>7 DEF Known
  <2> QED
    BY <1>5, <1>7, <1>8, <2>1, <2>2 DEF Showing
<1> QED
  BY <1>4, <1>7, <1>9, <1>10, PageActs

LEMMA SubscribePage ==
  ASSUME Types, Newest, PInv, NEW p \in Pages, Subscribe(p)
  PROVE  PInv'
<1>1. PICK pg \in PageStates : pg = page[p] /\ Known(pg)
  BY PageFacts
<1>2. PICK since : since = IF pg.load = "loaded" THEN Len(log) ELSE -1
  OBVIOUS
<1>3. PICK new : new = [pg EXCEPT !.sse = "open", !.at = Len(log), !.since = since]
  OBVIOUS
<1>4. /\ page' = [page EXCEPT ![p] = new] /\ UNCHANGED log /\ clears' = clears
      /\ pg.sse = "asked"
  BY <1>1, <1>2, <1>3 DEF Subscribe, served, PInv, PageTypes
<1>5. since \in Int /\ since <= Len(log) /\ Len(log) \in Nat /\ pg.wire = <<>>
      /\ Len(pg.wire) = 0
  BY <1>1, <1>2, <1>4 DEF Known, Wired
<1>6. /\ new \in PageStates /\ new.at = Len(log) /\ new.wire = pg.wire /\ new.sse = "open"
      /\ new.load = pg.load /\ new.since = since /\ new.shown = pg.shown
      /\ new.reply = pg.reply /\ new.clearing = pg.clearing
  BY <1>3, <1>5 DEF PageStates
<1>7. Upto(new) = Len(log)
  BY <1>5, <1>6 DEF Upto
<1>8. Wired(new, log, clears)
  BY <1>1, <1>2, <1>5, <1>6, <1>7 DEF Known, Wired, Follows
<1>9. Showing(new, log, clears)
  <2>1. Follows(new) => since = Len(log)
    BY <1>2, <1>5, <1>6 DEF Follows
  <2>2. Len(new.shown) \in Nat
    BY <1>1, <1>6 DEF Known
  <2> QED
    BY <1>5, <1>6, <1>7, <2>1, <2>2 DEF Showing
<1> QED
  BY <1>4, <1>6, <1>8, <1>9, PageActs

LEMMA ReceivePage ==
  ASSUME Types, Newest, PInv, NEW p \in Pages, Receive(p)
  PROVE  PInv'
<1>1. PICK pg \in PageStates : pg = page[p] /\ Known(pg)
  BY PageFacts
<1>2. UNCHANGED log /\ clears' = clears /\ pg.sse = "open" /\ pg.at < Len(log)
  BY <1>1 DEF Receive, served
<1>3. CASE Lagged(p)
  <2>1. PICK new : new = [pg EXCEPT !.sse = "ended"]
    OBVIOUS
  <2>2. page' = [page EXCEPT ![p] = new]
    BY <1>1, <1>3, <2>1 DEF Receive, PInv, PageTypes
  <2>3. new \in PageStates
    BY <1>1, <2>1 DEF Known, PageStates
  <2>4. Wired(new, log, clears) /\ Showing(new, log, clears)
    BY <1>1, <1>2, <2>1 DEF Known, Wired, Showing, Follows, Upto, PageStates
  <2> QED
    BY <1>2, <2>2, <2>3, <2>4, PageActs
<1>4. CASE ~Lagged(p)
  <2>1. PICK wire : wire = Append(pg.wire, pg.at + 1)
    OBVIOUS
  <2>2. PICK new : new = [pg EXCEPT !.at = pg.at + 1, !.wire = wire]
    OBVIOUS
  <2>3. page' = [page EXCEPT ![p] = new]
    BY <1>1, <1>4, <2>1, <2>2 DEF Receive, PInv, PageTypes
  <2>4. pg.at \in Nat /\ pg.wire \in Seq(Nat) /\ Len(pg.wire) \in Nat /\ Len(log) \in Nat
    BY <1>1 DEF Known
  <2>5. wire \in Seq(Nat) /\ pg.at + 1 \in Nat
    BY <2>1, <2>4
  <2>6. /\ new \in PageStates /\ new.at = pg.at + 1 /\ new.wire = wire
        /\ new.sse = "open" /\ new.load = pg.load /\ new.since = pg.since
        /\ new.shown = pg.shown /\ new.reply = pg.reply /\ new.clearing = pg.clearing
    BY <1>2, <2>2, <2>5 DEF PageStates
  <2>7. Upto(new) = Upto(pg)
    <3>1. Len(wire) = Len(pg.wire) + 1
      BY <2>1, <2>4
    <3>2. new.at = pg.at + 1 /\ new.wire = wire
      BY <2>6
    <3> QED
      BY <2>4, <3>1, <3>2 DEF Upto
  <2>8. Wired(new, log, clears)
    <3>1. \A i \in 1..Len(pg.wire) : pg.wire[i] = Upto(pg) + i
      BY <1>1 DEF Known, Wired
    <3>2. \A i \in 1..Len(wire) : wire[i] = Upto(new) + i
      <4> SUFFICES ASSUME NEW i \in 1..Len(wire) PROVE wire[i] = Upto(pg) + i
        BY <2>7
      <4>1. CASE i \in 1..Len(pg.wire)
        BY <2>1, <2>4, <3>1, <4>1
      <4>2. CASE i = Len(pg.wire) + 1
        BY <2>1, <2>4, <4>2 DEF Upto
      <4> QED
        BY <2>1, <2>4, <4>1, <4>2
    <3> QED
      BY <1>1, <1>2, <2>4, <2>6, <2>7, <3>2 DEF Known, Wired, Follows
  <2>9. Showing(new, log, clears)
    BY <1>1, <1>2, <2>6, <2>7 DEF Known, Showing, Follows
  <2> QED
    BY <1>2, <2>3, <2>6, <2>8, <2>9, PageActs
<1> QED
  BY <1>3, <1>4

\* The next record is put after what the page shows, and its first one dropped.
IsPushed(shown, rec, now) ==
  /\ now \in Seq(Records) /\ Len(now) \in Nat /\ Len(now) <= Keep
  /\ Len(now) = Keep \/ Len(now) = Len(shown) + 1
  /\ now[Len(now)] = rec
  /\ \A i \in 1..Len(shown) :
       i < Len(now) => now[Len(now) - i] = shown[Len(shown) + 1 - i]

LEMMA Pushed ==
  ASSUME NEW shown \in Seq(Records), Len(shown) <= Keep, NEW rec \in Records,
         NEW now, now = LastOf(Append(shown, rec))
  PROVE  IsPushed(shown, rec, now)
<1> USE InspectorAssumption DEF IsPushed
<1>1. PICK more : more = Append(shown, rec)
  OBVIOUS
<1>2. /\ more \in Seq(Records) /\ Len(shown) \in Nat /\ Len(more) = Len(shown) + 1
      /\ more[Len(shown) + 1] = rec
      /\ \A i \in 1..Len(shown) : more[i] = shown[i]
  BY <1>1
<1>3. Keep \in Nat \ {0}
  OBVIOUS
<1>4. CASE Len(more) > Keep
  <2>1. now = Tail(more) /\ Len(shown) = Keep
    BY <1>1, <1>2, <1>3, <1>4 DEF LastOf
  <2>2. /\ now \in Seq(Records) /\ Len(now) = Keep
        /\ \A i \in 1..Keep : now[i] = more[i + 1]
    BY <1>2, <1>3, <2>1
  <2>3. now[Keep] = rec
    BY <1>2, <1>3, <2>1, <2>2
  <2>4. ASSUME NEW i \in 1..Len(shown), i < Len(now)
        PROVE  now[Len(now) - i] = shown[Len(shown) + 1 - i]
    <3>1. Len(now) - i \in 1..Keep /\ Len(now) - i + 1 = Len(shown) + 1 - i
          /\ Len(shown) + 1 - i \in 1..Len(shown)
      BY <1>2, <1>3, <2>1, <2>2, <2>4
    <3> QED
      BY <1>2, <2>2, <3>1
  <2> QED
    BY <1>3, <2>2, <2>3, <2>4
<1>5. CASE ~(Len(more) > Keep)
  <2>1. now = more
    BY <1>1, <1>5 DEF LastOf
  <2>2. ASSUME NEW i \in 1..Len(shown), i < Len(now)
        PROVE  now[Len(now) - i] = shown[Len(shown) + 1 - i]
    <3>1. Len(now) - i \in 1..Len(shown) /\ Len(now) - i = Len(shown) + 1 - i
      BY <1>2, <2>1, <2>2
    <3> QED
      BY <1>2, <2>1, <3>1
  <2> QED
    BY <1>2, <1>3, <1>5, <2>1, <2>2
<1> QED
  BY <1>4, <1>5

LEMMA OnMessagePage ==
  ASSUME Types, Newest, PInv, NEW p \in Pages, OnMessage(p)
  PROVE  PInv'
<1>1. PICK pg \in PageStates : pg = page[p] /\ Known(pg)
  BY PageFacts
<1>2. PICK rec : rec = log[Head(pg.wire)]
  OBVIOUS
<1>3. PICK now : now = LastOf(Append(pg.shown, rec))
  OBVIOUS
<1>4. PICK wire : wire = Tail(pg.wire)
  OBVIOUS
<1>5. PICK new : new = [pg EXCEPT !.shown = now, !.wire = wire]
  OBVIOUS
<1>6. /\ page' = [page EXCEPT ![p] = new] /\ UNCHANGED log /\ clears' = clears
      /\ pg.wire # <<>>
  BY <1>1, <1>2, <1>3, <1>4, <1>5 DEF OnMessage, served, PInv, PageTypes
<1>7. /\ pg.at \in Nat /\ pg.wire \in Seq(Nat) /\ Len(pg.wire) \in Nat /\ Len(log) \in Nat
      /\ pg.shown \in Seq(Records) /\ Len(pg.shown) \in Nat /\ Len(pg.shown) <= Keep
      /\ log \in Seq(Records) /\ pg.since \in Int
  BY <1>1 DEF Known, Wired
<1>8. /\ Len(pg.wire) > 0 /\ wire \in Seq(Nat) /\ Len(wire) = Len(pg.wire) - 1
      /\ Head(pg.wire) = pg.wire[1]
  BY <1>4, <1>6, <1>7
<1>9. \A i \in 1..Len(wire) : wire[i] = pg.wire[i + 1]
  BY <1>4, <1>6, <1>7
<1>10. Head(pg.wire) = Upto(pg) + 1 /\ Upto(pg) + 1 \in 1..Len(log)
       /\ Upto(pg) = pg.at - Len(pg.wire)
  <2>1. /\ \A i \in 1..Len(pg.wire) : pg.wire[i] = Upto(pg) + i
        /\ Upto(pg) >= 0 /\ pg.at <= Len(log)
    BY <1>1 DEF Known, Wired
  <2>2. Upto(pg) = pg.at - Len(pg.wire)
    BY DEF Upto
  <2>3. Head(pg.wire) = Upto(pg) + 1
    BY <1>7, <1>8, <2>1
  <2>4. pg.at \in Nat /\ Len(pg.wire) \in Nat /\ Len(pg.wire) > 0 /\ Len(log) \in Nat
    BY <1>7, <1>8
  <2>5. Upto(pg) + 1 \in 1..Len(log)
    <3>1. \A a, w, l \in Nat : w > 0 /\ a <= l /\ a - w >= 0 => a - w + 1 \in 1..l
      OBVIOUS
    <3>2. pg.at - Len(pg.wire) >= 0 /\ pg.at <= Len(log)
      BY <2>1, <2>2
    <3> QED
      BY <2>2, <2>4, <3>1, <3>2
  <2> QED
    BY <2>2, <2>3, <2>5
<1>11. rec \in Records /\ rec = log[Upto(pg) + 1]
  BY <1>2, <1>7, <1>10
<1>12. /\ now \in Seq(Records) /\ Len(now) \in Nat /\ Len(now) <= Keep
       /\ Len(now) = Keep \/ Len(now) = Len(pg.shown) + 1
       /\ now[Len(now)] = rec
       /\ \A i \in 1..Len(pg.shown) :
            i < Len(now) => now[Len(now) - i] = pg.shown[Len(pg.shown) + 1 - i]
  <2>1. pg.shown \in Seq(Records) /\ Len(pg.shown) <= Keep /\ rec \in Records
    BY <1>7, <1>11
  <2>2. IsPushed(pg.shown, rec, now)
    BY <1>3, <2>1, Pushed
  <2> QED
    BY <2>2 DEF IsPushed
<1>13. now \in Seq(Records) /\ wire \in Seq(Nat)
  BY <1>8, <1>12
<1>14. /\ new \in PageStates /\ new.at = pg.at /\ new.wire = wire
       /\ new.sse = pg.sse /\ new.load = pg.load /\ new.since = pg.since
       /\ new.shown = now /\ new.reply = pg.reply /\ new.clearing = pg.clearing
  BY <1>5, <1>13 DEF PageStates
<1>15. Upto(new) = Upto(pg) + 1
  BY <1>7, <1>8, <1>14 DEF Upto
<1>16. Wired(new, log, clears)
  <2>1. \A i \in 1..Len(pg.wire) : pg.wire[i] = Upto(pg) + i
    BY <1>1 DEF Known, Wired
  <2>2. ASSUME NEW i \in 1..Len(wire) PROVE wire[i] = Upto(new) + i
    <3>1. Len(wire) = Len(pg.wire) - 1 /\ Len(pg.wire) \in Nat /\ Upto(pg) \in Int
      BY <1>7, <1>8, <1>10
    <3>2. i + 1 \in 1..Len(pg.wire)
      BY <3>1
    <3>3. wire[i] = Upto(pg) + (i + 1)
      BY <1>9, <2>1, <3>2
    <3> QED
      BY <1>15, <3>1, <3>3
  <2>3. pg.sse # "asked"
    BY <1>1, <1>6 DEF Known, Wired
  <2>4. Upto(new) >= 0
    BY <1>10, <1>15
  <2>5. Len(new.shown) <= Keep
    BY <1>12, <1>14
  <2> QED
    BY <1>1, <1>14, <2>2, <2>3, <2>4, <2>5 DEF Known, Wired, Follows
<1>17. Showing(new, log, clears)
  <2> SUFFICES ASSUME Follows(new) PROVE Showing(new, log, clears)
    BY DEF Showing
  <2>1. Follows(pg) /\ pg.since >= 0
    BY <1>14 DEF Follows
  <2>2. /\ \A i \in 1..(Upto(pg) - pg.since) :
             i <= Len(pg.shown) => pg.shown[Len(pg.shown) + 1 - i] = log[Upto(pg) + 1 - i]
        /\ clears = 0 => \/ Upto(pg) - pg.since <= Len(pg.shown)
                         \/ Len(pg.shown) = Keep
    BY <1>1, <2>1 DEF Known, Showing
  <2>3. ASSUME NEW i \in 1..(Upto(new) - pg.since), i <= Len(now)
        PROVE  now[Len(now) + 1 - i] = log[Upto(new) + 1 - i]
    <3>1. i \in Nat \ {0} /\ Upto(pg) \in Int /\ i <= Upto(pg) + 1 - pg.since
      BY <1>7, <1>10, <1>15
    <3>2. CASE i = 1
      <4>1. Len(now) + 1 - i = Len(now) /\ Upto(new) + 1 - i = Upto(pg) + 1
        BY <1>12, <1>15, <3>1, <3>2
      <4> QED
        BY <1>11, <1>12, <4>1
    <3>3. CASE i > 1
      <4>1. PICK j \in Nat : j = i - 1
        BY <3>1, <3>3
      <4>2. /\ j \in 1..(Upto(pg) - pg.since) /\ j \in 1..Len(pg.shown) /\ j < Len(now)
            /\ Len(now) + 1 - i = Len(now) - j /\ Upto(new) + 1 - i = Upto(pg) + 1 - j
        <5>1. /\ Len(now) \in Nat /\ Len(pg.shown) \in Nat /\ Len(now) <= Keep
              /\ Len(now) = Keep \/ Len(now) = Len(pg.shown) + 1
              /\ Len(pg.shown) <= Keep
          BY <1>7, <1>12
        <5>2. pg.at \in Nat /\ pg.since \in Int
          BY <1>7
        <5>3. Len(now) <= Len(pg.shown) + 1
          BY <1>3, <1>7 DEF LastOf
        <5>4. j \in 1..(Upto(pg) - pg.since)
          BY <3>1, <3>3, <4>1, <5>2
        <5>5. j \in 1..Len(pg.shown) /\ j < Len(now) /\ Len(now) + 1 - i = Len(now) - j
          BY <2>3, <3>1, <3>3, <4>1, <5>1, <5>3
        <5>6. Upto(new) + 1 - i = Upto(pg) + 1 - j
          BY <1>15, <3>1, <4>1
        <5> QED
          BY <5>4, <5>5, <5>6
      <4>3. now[Len(now) - j] = pg.shown[Len(pg.shown) + 1 - j]
        BY <1>12, <4>2
      <4>4. pg.shown[Len(pg.shown) + 1 - j] = log[Upto(pg) + 1 - j]
        BY <2>2, <4>2
      <4> QED
        BY <4>2, <4>3, <4>4
    <3> QED
      BY <3>1, <3>2, <3>3
  <2>4. ASSUME clears = 0
        PROVE  Upto(new) - pg.since <= Len(now) \/ Len(now) = Keep
    <3>1. Upto(pg) - pg.since <= Len(pg.shown) \/ Len(pg.shown) = Keep
      BY <2>2, <2>4
    <3>2. /\ Len(now) \in Nat /\ Len(pg.shown) \in Nat /\ Len(now) <= Keep
          /\ Len(now) = Keep \/ Len(now) = Len(pg.shown) + 1
          /\ pg.since \in Int /\ pg.at \in Nat /\ Len(pg.wire) \in Nat
      BY <1>7, <1>12
    <3>3. Upto(pg) \in Int
      BY <1>10, <3>2
    <3>4. CASE Len(now) = Keep
      BY <3>4
    <3>5. CASE Len(now) = Len(pg.shown) + 1 /\ Len(now) # Keep
      <4>1. Len(pg.shown) # Keep
        BY <3>2, <3>5, InspectorAssumption
      <4> QED
        BY <1>15, <3>1, <3>2, <3>3, <3>5, <4>1
    <3> QED
      BY <3>2, <3>4, <3>5
  <2> QED
    BY <1>14, <2>3, <2>4 DEF Showing
<1> QED
  BY <1>6, <1>14, <1>16, <1>17, PageActs

LEMMA OnErrorPage ==
  ASSUME Types, Newest, PInv, NEW p \in Pages, OnError(p)
  PROVE  PInv'
<1>1. PICK pg \in PageStates : pg = page[p] /\ Known(pg)
  BY PageFacts
<1>2. PICK new : new = [pg EXCEPT !.sse = "polling", !.load = "asked"]
  OBVIOUS
<1>3. page' = [page EXCEPT ![p] = new] /\ UNCHANGED log /\ clears' = clears
  BY <1>1, <1>2 DEF OnError, served, PInv, PageTypes
<1>4. /\ new \in PageStates /\ new.at = pg.at /\ new.wire = pg.wire
      /\ new.sse = "polling" /\ new.since = pg.since
      /\ new.shown = pg.shown /\ new.reply = pg.reply /\ new.clearing = pg.clearing
  BY <1>2 DEF PageStates
<1>5. Wired(new, log, clears) /\ Showing(new, log, clears)
  BY <1>1, <1>4 DEF Known, Wired, Showing, Follows, Upto
<1> QED
  BY <1>3, <1>4, <1>5, PageActs

LEMMA ClearPage ==
  ASSUME Types, Newest, PInv, NEW p \in Pages, Clear(p)
  PROVE  PInv'
<1>1. PICK pg \in PageStates : pg = page[p] /\ Known(pg)
  BY PageFacts
<1>2. PICK new : new = [pg EXCEPT !.clearing = TRUE]
  OBVIOUS
<1>3. page' = [page EXCEPT ![p] = new] /\ UNCHANGED log /\ clears' = clears + 1
  BY <1>1, <1>2 DEF Clear, PInv, PageTypes
<1>4. clears \in Nat /\ clears' \in Nat /\ clears <= clears' /\ clears' > 0
  BY <1>3 DEF PInv, PageTypes
<1>5. /\ new \in PageStates /\ new.at = pg.at /\ new.wire = pg.wire /\ new.load = pg.load
      /\ new.sse = pg.sse /\ new.since = pg.since
      /\ new.shown = pg.shown /\ new.reply = pg.reply
  BY <1>2 DEF PageStates
<1>6. Wired(new, log, clears')
  BY <1>1, <1>4, <1>5 DEF Known, Wired, Follows, Upto
<1>7. Showing(new, log, clears')
  BY <1>1, <1>4, <1>5 DEF Known, Showing, Follows, Upto
<1> QED
  BY <1>3, <1>4, <1>5, <1>6, <1>7, PageSteps DEF PageFollows

LEMMA ClearAnsweredPage ==
  ASSUME Types, Newest, PInv, NEW p \in Pages, ClearAnswered(p)
  PROVE  PInv'
<1>1. PICK pg \in PageStates : pg = page[p] /\ Known(pg)
  BY PageFacts
<1>2. PICK new : new = [pg EXCEPT !.shown = <<>>, !.clearing = FALSE]
  OBVIOUS
<1>3. /\ page' = [page EXCEPT ![p] = new] /\ UNCHANGED log /\ clears' = clears
      /\ pg.clearing
  BY <1>1, <1>2 DEF ClearAnswered, served, PInv, PageTypes
<1>4. <<>> \in Seq(Records) /\ Len(<<>>) = 0
  BY EmptySeq
<1>5. /\ new \in PageStates /\ new.at = pg.at /\ new.wire = pg.wire /\ new.load = pg.load
      /\ new.sse = pg.sse /\ new.since = pg.since
      /\ new.shown = <<>> /\ new.reply = pg.reply /\ new.clearing = FALSE
  BY <1>2, <1>4 DEF PageStates
<1>6. clears # 0 /\ clears \in Nat
  BY <1>1, <1>3 DEF Known, Wired
<1>7. Wired(new, log, clears)
  BY <1>1, <1>4, <1>5, InspectorAssumption DEF Known, Wired, Follows, Upto
<1>8. Showing(new, log, clears)
  <2>1. Upto(new) = Upto(pg) /\ Upto(pg) \in Int /\ pg.since \in Int
    BY <1>1, <1>5 DEF Upto, Known
  <2> QED
    BY <1>4, <1>5, <1>6, <2>1 DEF Showing
<1> QED
  BY <1>3, <1>5, <1>7, <1>8, PageActs

LEMMA InitPages == Init => PInv
<1> SUFFICES ASSUME Init PROVE PInv
  OBVIOUS
<1>1. log = <<>> /\ clears = 0 /\ Len(<<>>) = 0
  BY EmptySeq DEF Init
<1>2. PICK pg : pg = [sse |-> "asked", at |-> 0, wire |-> <<>>,
                      load |-> "asked", reply |-> <<>>, shown |-> <<>>,
                      since |-> -1, clearing |-> FALSE]
  OBVIOUS
<1>3. page = [p \in Pages |-> pg]
  BY <1>2 DEF Init
<1>4. pg \in PageStates
  BY <1>2, EmptySeq DEF PageStates
<1>5. PageFollows(pg, log, clears)
  BY <1>1, <1>2, InspectorAssumption DEF PageFollows, Wired, Showing, Follows, Upto
<1> QED
  BY <1>1, <1>3, <1>4, <1>5 DEF PInv, PageTypes, PagesFollow

LEMMA StepPages == IInv /\ PInv /\ [Next]_vars => PInv'
<1> SUFFICES ASSUME IInv, PInv, [Next]_vars PROVE PInv'
  OBVIOUS
<1>1. Types /\ Newest
  BY DEF IInv
<1>2. CASE UNCHANGED vars
  BY <1>1, <1>2, PagesStay DEF vars, served
<1>3. ASSUME NEW r \in Requests, Arrive(r) \/ Handle(r) \/ Frame(r) PROVE PInv'
  <2>1. UNCHANGED <<page, clears>>
    BY <1>3 DEF Arrive, Handle, Respond, RecordBody, Fail, CloseWebSocket, Frame, others
  <2>2. UNCHANGED log \/ \E rec \in Records : Recorded(rec)
    <3>1. /\ r \in Nat /\ counter \in Nat /\ req[r].meta \in Nat /\ NoOne \in Nat
          /\ \A i, m \in Nat : Record(r, i, m) \in Records
      BY <1>1, InspectorAssumption DEF Types, NoOne, Record, Records
    <3>2. ASSUME Arrive(r) PROVE UNCHANGED log \/ Recorded(Record(r, r, r))
      BY <3>2 DEF Arrive
    <3>3. ASSUME RecordBody(r) PROVE Recorded(Record(r, r, req[r].meta))
      BY <3>3 DEF RecordBody
    <3>4. ASSUME Frame(r) PROVE Recorded(Record(r, r + counter, NoOne))
      BY <3>4 DEF Frame
    <3>5. ASSUME Respond(r) \/ Fail(r) \/ CloseWebSocket(r) PROVE UNCHANGED log
      BY <3>5 DEF Respond, Fail, CloseWebSocket
    <3>6. r + counter \in Nat
      BY <3>1
    <3> QED
      BY <1>3, <3>1, <3>2, <3>3, <3>4, <3>5, <3>6 DEF Handle
  <2> QED
    BY <1>1, <2>1, <2>2, PagesStay
<1>4. ASSUME NEW p \in Pages, Show(p) \/ Clear(p) PROVE PInv'
  BY <1>1, <1>4, ServeHistoryPage, LoadHistoryPage, SubscribePage, ReceivePage,
     OnMessagePage, OnErrorPage, ClearPage, ClearAnsweredPage DEF Show
<1> QED
  BY <1>2, <1>3, <1>4 DEF Next

\* The end of a sequence, element by element.
LEMMA FinalElements ==
  ASSUME NEW s \in Seq(Records), NEW n \in Nat, n <= Len(s)
  PROVE  /\ Final(s, n) \in Seq(Records) /\ Len(Final(s, n)) = n
         /\ \A i \in 1..n : Final(s, n)[i] = s[Len(s) - n + i]
<1>1. Len(s) \in Nat
  OBVIOUS
<1>2. Final(s, n) = SubSeq(s, Len(s) - n + 1, Len(s))
  <2>1. CASE Len(s) > n
    BY <2>1 DEF Final
  <2>2. CASE ~(Len(s) > n)
    <3>1. Len(s) - n + 1 = 1
      BY <1>1, <2>2
    <3> QED
      BY <2>2, <3>1 DEF Final
  <2> QED
    BY <2>1, <2>2
<1> QED
  BY <1>2, EndElements

\* A page that loaded the history and subscribed is shown the log from there on,
\* without a gap and without a repetition, whatever the channel drops (/events).
THEOREM ContiguousAlways == Spec => []StreamContiguous
<1>1. IInv /\ PInv => StreamContiguous
  <2> SUFFICES ASSUME IInv, PInv, NEW p \in Pages,
                      page[p].sse # "polling", page[p].since >= 0
               PROVE
      LET pg == page[p]
          upto == pg.at - Len(pg.wire)
          news == SubSeq(log, pg.since + 1, upto)
          n == IF Len(news) < Len(pg.shown) THEN Len(news) ELSE Len(pg.shown)
      IN  /\ \A i \in DOMAIN pg.wire : pg.wire[i] = upto + i
          /\ upto >= pg.since => Final(pg.shown, n) = Final(news, n)
          /\ clears = 0 => n = IF Len(news) < Keep THEN Len(news) ELSE Keep
    BY DEF StreamContiguous
  <2>1. PICK pg \in PageStates : pg = page[p] /\ Known(pg)
    BY PageFacts DEF IInv
  <2>2. PICK upto : upto = pg.at - Len(pg.wire)
    OBVIOUS
  <2>3. PICK news : news = SubSeq(log, pg.since + 1, upto)
    OBVIOUS
  <2>4. PICK n : n = IF Len(news) < Len(pg.shown) THEN Len(news) ELSE Len(pg.shown)
    OBVIOUS
  <2>5. /\ pg.at \in Nat /\ pg.wire \in Seq(Nat) /\ Len(pg.wire) \in Nat /\ Len(log) \in Nat
        /\ pg.shown \in Seq(Records) /\ Len(pg.shown) \in Nat /\ Len(pg.shown) <= Keep
        /\ log \in Seq(Records) /\ pg.since \in Nat /\ upto \in Int /\ upto <= Len(log)
        /\ Upto(pg) = upto
    BY <2>1, <2>2 DEF Known, Wired, Upto
  <2>6. \A i \in DOMAIN pg.wire : pg.wire[i] = upto + i
    <3>1. \A i \in 1..Len(pg.wire) : pg.wire[i] = Upto(pg) + i
      BY <2>1 DEF Known, Wired
    <3>2. DOMAIN pg.wire = 1..Len(pg.wire)
      BY <2>5
    <3> QED
      BY <2>5, <3>1, <3>2
  <2>7. Showing(pg, log, clears) /\ Follows(pg)
    BY <2>1 DEF Known, Follows
  <2>8. /\ news \in Seq(Records)
        /\ Len(news) = IF pg.since <= upto THEN upto - pg.since ELSE 0
    BY <2>3, <2>5
  <2>9. n \in Nat /\ n <= Len(news) /\ n <= Len(pg.shown)
    BY <2>4, <2>5, <2>8
  <2>10. ASSUME upto >= pg.since PROVE Final(pg.shown, n) = Final(news, n)
    <3>1. Len(news) = upto - pg.since
      BY <2>5, <2>8, <2>10
    <3>2. /\ Final(pg.shown, n) \in Seq(Records) /\ Len(Final(pg.shown, n)) = n
          /\ \A i \in 1..n : Final(pg.shown, n)[i] = pg.shown[Len(pg.shown) - n + i]
      BY <2>5, <2>9, FinalElements
    <3>3. /\ Final(news, n) \in Seq(Records) /\ Len(Final(news, n)) = n
          /\ \A i \in 1..n : Final(news, n)[i] = news[Len(news) - n + i]
      BY <2>8, <2>9, FinalElements
    <3>4. ASSUME NEW i \in 1..n
          PROVE  pg.shown[Len(pg.shown) - n + i] = news[Len(news) - n + i]
      <4>1. PICK j \in 1..n : j = n + 1 - i
        BY <2>9
      <4>2. /\ Len(news) - n + i \in 1..(upto - pg.since)
            /\ pg.since + (Len(news) - n + i) = upto + 1 - j
            /\ Len(pg.shown) - n + i = Len(pg.shown) + 1 - j
            /\ j \in 1..(upto - pg.since) /\ j <= Len(pg.shown)
        <5>1. /\ upto \in Int /\ pg.since \in Nat /\ Len(pg.shown) \in Nat
              /\ n \in Nat /\ n <= Len(news) /\ n <= Len(pg.shown)
          BY <2>5, <2>9
        <5>2. j \in 1..(upto - pg.since) /\ j <= Len(pg.shown)
          BY <3>1, <4>1, <5>1
        <5>3. Len(news) - n + i \in 1..(upto - pg.since)
          BY <3>1, <4>1, <5>1
        <5>4. pg.since + (Len(news) - n + i) = upto + 1 - j
          BY <3>1, <4>1, <5>1
        <5>5. Len(pg.shown) - n + i = Len(pg.shown) + 1 - j
          <6>1. \A l, m, k \in Nat : l - m + k = l + 1 - (m + 1 - k)
            OBVIOUS
          <6>2. Len(pg.shown) \in Nat /\ n \in Nat /\ i \in Nat
            BY <5>1
          <6> QED
            BY <4>1, <6>1, <6>2
        <5> QED
          BY <5>2, <5>3, <5>4, <5>5
      <4>3. news[Len(news) - n + i] = log[pg.since + (Len(news) - n + i)]
        <5>1. /\ upto \in Int /\ pg.since \in Nat /\ upto <= Len(log)
              /\ log \in Seq(Records)
          BY <2>5
        <5>2. \A k \in 1..(upto - pg.since) : news[k] = log[pg.since + k]
          BY <2>3, <2>10, <5>1
        <5> QED
          BY <4>2, <5>2
      <4>4. pg.shown[Len(pg.shown) + 1 - j] = log[upto + 1 - j]
        BY <2>5, <2>7, <4>2 DEF Showing
      <4> QED
        BY <4>2, <4>3, <4>4
    <3>5. \A i \in 1..n : Final(pg.shown, n)[i] = Final(news, n)[i]
      BY <3>2, <3>3, <3>4
    <3>6. /\ Final(pg.shown, n) \in Seq(Records) /\ Len(Final(pg.shown, n)) = n
          /\ Final(news, n) \in Seq(Records) /\ Len(Final(news, n)) = n
      BY <3>2, <3>3
    <3> QED
      BY <3>5, <3>6, SeqEqual
  <2>11. ASSUME clears = 0 PROVE n = IF Len(news) < Keep THEN Len(news) ELSE Keep
    <3>1. upto - pg.since <= Len(pg.shown) \/ Len(pg.shown) = Keep
      BY <2>5, <2>7, <2>11 DEF Showing
    <3>2. Len(news) <= Len(pg.shown) \/ Len(pg.shown) = Keep
      BY <2>5, <2>8, <3>1
    <3>3. Keep \in Nat
      BY InspectorAssumption
    <3> QED
      BY <2>4, <2>5, <2>8, <3>2, <3>3
  <2> QED
    BY <2>1, <2>2, <2>3, <2>4, <2>6, <2>10, <2>11
<1>2. Init => PInv
  BY InitPages
<1>3. IInv /\ PInv /\ [Next]_vars => PInv'
  BY StepPages
<1> QED
  BY <1>1, <1>2, <1>3, Invariance, PTL DEF Spec
=============================================================================
