------------------------------- MODULE Relays -------------------------------
(***************************************************************************)
(* The five relays between a client and a server, once the proxy has stopped*)
(* reading HTTP (ws_proxy.rs, https_proxy.rs):                             *)
(*                                                                         *)
(*   framed        relay_framed, after a plain upgrade with a handler      *)
(*   upgraded      relay_upgraded, in the task handle_https_websocket spawns*)
(*   raw_upgraded  relay_raw_upgraded, the same without a handler          *)
(*   websocket     relay_websocket: copy_bidirectional, a plain upgrade    *)
(*                 without a handler                                       *)
(*   passthrough   select! over two copies, a tunnel that is not intercepted*)
(*                                                                         *)
(* The first three are one serial loop: wait for a frame from either side, *)
(* show it to on_frame, send it on, and only then wait again; a Close or the*)
(* end of either stream leaves the loop.  The last two copy bytes in both  *)
(* directions at once.                                                     *)
(*                                                                         *)
(* After a plain upgrade the relay starts with the response just read by   *)
(* read_full_response, and what its last chunk holds beyond the head is    *)
(* gone.  Inside a tunnel the client has its 101 (its 200) before the      *)
(* upstream is dialled.                                                    *)
(*                                                                         *)
(* What a side sends is numbered in order: frames, or pieces of a byte     *)
(* stream.  Close is a WebSocket Close, or the end of a side's byte stream,*)
(* which closes only one direction.  A socket buffer holds Cap of them in  *)
(* each direction; a send into a full one waits.                           *)
(***************************************************************************)
EXTENDS Integers, Sequences

CONSTANTS
  Kinds,         \* the relays there may be
  Echoes,        \* the servers there may be: one that answers a frame before it
                 \* reads the next (TRUE), one that sends independently (FALSE)
  Cap,           \* frames a socket buffer holds
  MaxFrames      \* bound: frames a side sends before its Close

Hooked == {"framed", "upgraded"}
Serial == Hooked \cup {"raw_upgraded"}
Plain == {"framed", "websocket"}

ASSUME RelayAssumption ==
  /\ Kinds \subseteq Serial \cup {"websocket", "passthrough"}
  /\ Echoes \subseteq BOOLEAN
  /\ Cap \in Nat \ {0} /\ MaxFrames \in Nat

VARIABLES
  kind,          \* which relay this is; never changes
  echo,          \* the kind of server; never changes
  in,            \* in[s]: from side s to the proxy
  out,           \* out[s]: from the proxy to side s
  peer,          \* what each side has done
  pc,            \* where the relay is
  hand,          \* hand[s]: what it has read from s and not yet passed on
  half,          \* websocket: the sides whose end has been passed on
  lost,          \* for the properties: the last server frame dropped with the head
  calls          \* for the properties: the calls of the handler, in order

vars == <<kind, echo, in, out, peer, pc, hand, half, lost, calls>>
fixed == <<kind, echo>>
ghosts == <<lost, calls>>

Side == {"client", "server"}
Other(s) == CHOOSE o \in Side : o # s
Close == 0
Frame == {Close} \cup 1..MaxFrames

OnClose == [call |-> "on_close", from |-> "none", frame |-> Close, kept |-> FALSE]
Panic == [OnClose EXCEPT !.call = "panic"]
OnFrame(s, f, k) == [call |-> "on_frame", from |-> s, frame |-> f, kept |-> k]

\* Type invariant: the four buffers hold at most Cap frames; a serial loop holds
\* one frame, a copy one in each direction (the locals of the relays).
TypeOK ==
  /\ kind \in Kinds /\ echo \in Echoes
  /\ in \in [Side -> Seq(Frame)] /\ out \in [Side -> Seq(Frame)]
  /\ hand \in [Side -> Seq(Frame)]
  /\ \A s \in Side : Len(in[s]) <= Cap /\ Len(out[s]) <= Cap /\ Len(hand[s]) <= 1
  /\ kind \in Serial => \E s \in Side : hand[s] = <<>>
  /\ peer \in [Side -> [open : BOOLEAN, closing : BOOLEAN, sent : 0..MaxFrames,
                        owes : BOOLEAN, got : Seq(Frame)]]
  /\ pc \in {"dial", "head", "select", "hook", "send", "copy", "closing",
            "finish", "refused", "over"}
  /\ half \subseteq Side /\ lost \in Frame

Init ==
  /\ kind \in Kinds
  /\ echo \in Echoes
  /\ in = [s \in Side |-> <<>>]
  /\ out = [s \in Side |-> <<>>]
  /\ peer = [s \in Side |-> [open |-> TRUE, closing |-> FALSE, sent |-> 0,
                             owes |-> FALSE, got |-> <<>>]]
  /\ pc = IF kind \in Plain THEN "head" ELSE "dial"
  /\ hand = [s \in Side |-> <<>>]
  /\ half = {} /\ lost = 0 /\ calls = <<>>

Over == pc \in {"refused", "over"}
Running == IF kind \in Serial THEN "select" ELSE "copy"
----------------------------------------------------------------------------
(* The two peers.                                                          *)

\* A side may send once the proxy has answered it, or dialled it.
Joined(s) ==
  /\ ~Over
  /\ s = "client" => pc # "head"
  /\ s = "server" => pc # "dial"

Transmit(s, f) ==
  /\ Joined(s)
  /\ peer[s].open /\ ~peer[s].closing
  /\ Len(in[s]) < Cap
  /\ in' = [in EXCEPT ![s] = Append(@, f)]
  /\ UNCHANGED <<fixed, out, pc, hand, half, ghosts>>

PeerSends(s) ==
  /\ ~(echo /\ s = "server")
  /\ peer[s].sent < MaxFrames
  /\ Transmit(s, peer[s].sent + 1)
  /\ peer' = [peer EXCEPT ![s].sent = @ + 1]

PeerCloses(s) ==
  /\ ~(echo /\ s = "server")
  /\ Transmit(s, Close)
  /\ peer' = [peer EXCEPT ![s].closing = TRUE]

\* A side reads its next frame; an echoing server has to have answered the last.
\* A WebSocket Close ends what the side has to say, the end of a stream does not.
PeerReads(s) ==
  LET f == Head(out[s]) IN
  /\ peer[s].open /\ out[s] # <<>>
  /\ ~peer[s].owes
  /\ out' = [out EXCEPT ![s] = Tail(@)]
  /\ peer' = [peer EXCEPT ![s].got = Append(@, f),
                          ![s].owes = echo /\ s = "server" /\ f # Close,
                          ![s].closing = @ \/ (f = Close /\ kind \in Serial)]
  /\ UNCHANGED <<fixed, in, pc, hand, half, ghosts>>

\* (MaxFrames holds the echoes back no more than it did the client.)
EchoBack ==
  /\ peer["server"].owes
  /\ peer["server"].sent < MaxFrames
  /\ Transmit("server", peer["server"].sent + 1)
  /\ peer' = [peer EXCEPT !["server"].owes = FALSE, !["server"].sent = @ + 1]

\* A side's connection breaks; what it has sent may still be read.
PeerDrops(s) ==
  /\ peer[s].open
  /\ peer' = [peer EXCEPT ![s].open = FALSE]
  /\ UNCHANGED <<fixed, in, out, pc, hand, half, ghosts>>
----------------------------------------------------------------------------
(* Before the relay.                                                       *)

\* Plain: the chunk that completes the head of the response may hold what the
\* server sent after it; read_http_body returns no body for a 101.
ReadHead ==
  /\ pc = "head"
  /\ \E n \in 0..Len(in["server"]) :
       LET gone == {in["server"][i] : i \in 1..n} IN
         /\ kind = "websocket" => Close \notin gone
         /\ in' = [in EXCEPT !["server"] = SubSeq(@, n + 1, Len(@))]
         /\ lost' \in gone \cup {0} /\ \A f \in gone : f <= lost'
  /\ pc' = Running
  /\ UNCHANGED <<fixed, out, peer, hand, half, calls>>

\* Inside a tunnel: the client has been answered; if the upstream refuses (or the
\* client's upgrade fails), the task ends.
Dial ==
  /\ pc = "dial"
  /\ pc' \in {Running, "refused"}
  /\ UNCHANGED <<fixed, in, out, peer, hand, half, ghosts>>
----------------------------------------------------------------------------
(* The relays.                                                             *)

\* A serial loop waits for both sides, holding nothing; a copy of s reads when it
\* has written what it read before.
Listens(s) ==
  /\ pc = Running
  /\ hand[s] = <<>> /\ s \notin half

\* Leaving the relay: on_close if there is a handler.
Leave == IF kind \in Hooked THEN "closing" ELSE "over"

\* Fault: a frame is passed on without being consumed.
Read_Peek(s) ==
  /\ Listens(s) /\ in[s] # <<>>
  /\ hand' = [hand EXCEPT ![s] = <<Head(in[s])>>]
  /\ pc' = CASE kind \in Hooked -> "hook" [] kind = "raw_upgraded" -> "send"
            [] OTHER -> "copy"
  /\ UNCHANGED <<fixed, in, out, peer, half, ghosts>>

\* An arm of select!, or a copy: next() yields a frame, read() some bytes.  The
\* end of one stream ends the select! of a passthrough, which drops both.
Read(s) ==
  /\ Listens(s) /\ in[s] # <<>>
  /\ in' = [in EXCEPT ![s] = Tail(@)]
  /\ IF kind = "passthrough" /\ Head(in[s]) = Close
       THEN /\ pc' = "over"
            /\ hand' = hand
       ELSE /\ hand' = [hand EXCEPT ![s] = <<Head(in[s])>>]
            /\ pc' = CASE kind \in Hooked -> "hook" [] kind = "raw_upgraded" -> "send"
                      [] OTHER -> "copy"
  /\ UNCHANGED <<fixed, out, peer, half, ghosts>>

\* Fault: only the client's end is looked for.
ReadEnds_Client(s) ==
  /\ Listens(s) /\ in[s] = <<>> /\ ~peer[s].open /\ s = "client"
  /\ pc' = Leave
  /\ UNCHANGED <<fixed, in, out, peer, hand, half, ghosts>>

\* None or an error, which ends the relay; copy_bidirectional takes an orderly end
\* for the end of one direction.
ReadEnds(s) ==
  /\ Listens(s) /\ in[s] = <<>> /\ ~peer[s].open
  /\ \/ pc' = Leave /\ hand' = hand
     \/ kind = "websocket" /\ pc' = pc /\ hand' = [hand EXCEPT ![s] = <<Close>>]
  /\ UNCHANGED <<fixed, in, out, peer, half, ghosts>>

\* Fault: the loop goes on after a Close.
AfterFrame_Always(f) == "select"

\* The loop after a frame: it is left if the frame was a Close.
AfterFrame(f) == IF f = Close THEN Leave ELSE "select"

\* on_frame returns the frame, or None to drop it, or panics.
Hook(s) ==
  /\ pc = "hook" /\ hand[s] # <<>>
  /\ LET f == Head(hand[s]) IN
     \/ /\ calls' = Append(calls, OnFrame(s, f, TRUE))
        /\ pc' = "send" /\ hand' = hand
     \/ /\ calls' = Append(calls, OnFrame(s, f, FALSE))
        /\ pc' = AfterFrame(f) /\ hand' = [hand EXCEPT ![s] = <<>>]
     \/ /\ calls' = Append(calls, Panic)
        /\ pc' = "over" /\ hand' = hand
  /\ UNCHANGED <<fixed, in, out, peer, half, lost>>

Sending(s) == pc \in {"send", "copy"} /\ hand[s] # <<>>

\* Fault: the end of either direction ends copy_bidirectional.
CopiesEnd_First(ended) == ended # {}

\* copy_bidirectional is over when both directions are.
CopiesEnd(ended) == ended = Side

\* After a send: the serial loop turns back to both sides; a direction of
\* copy_bidirectional is over when its end has been passed on.
Sent(s) ==
  /\ hand' = [hand EXCEPT ![s] = <<>>]
  /\ half' = IF kind = "websocket" /\ hand[s] = <<Close>> THEN half \cup {s} ELSE half
  /\ pc' = IF kind \in Serial THEN AfterFrame(Head(hand[s]))
           ELSE IF CopiesEnd(half') THEN "over" ELSE "copy"

\* Faults: what does not fit is discarded; the send does not wait for room; an
\* error is taken for a full buffer.
Send_Lossy(s) ==
  LET to == Other(s) IN
  /\ Sending(s)
  /\ out' = IF Len(out[to]) < Cap THEN [out EXCEPT ![to] = Append(@, Head(hand[s]))]
            ELSE out
  /\ Sent(s)
  /\ UNCHANGED <<fixed, in, peer, ghosts>>

Send_NoWait(s) ==
  /\ Sending(s)
  /\ out' = [out EXCEPT ![Other(s)] = Append(@, Head(hand[s]))]
  /\ Sent(s)
  /\ UNCHANGED <<fixed, in, peer, ghosts>>

Send_NoError(s) ==
  LET to == Other(s) IN
  /\ Sending(s) /\ peer[to].open /\ Len(out[to]) < Cap
  /\ out' = [out EXCEPT ![to] = Append(@, Head(hand[s]))]
  /\ Sent(s)
  /\ UNCHANGED <<fixed, in, peer, ghosts>>

\* send().await, or write_all: waits for room.  To a broken connection it fails:
\* unnoticed by the loops, the end of either copy.
Send(s) ==
  LET to == Other(s) IN
  /\ Sending(s)
  /\ \/ /\ peer[to].open /\ Len(out[to]) < Cap
        /\ out' = [out EXCEPT ![to] = Append(@, Head(hand[s]))]
        /\ Sent(s)
     \/ /\ ~peer[to].open /\ kind \in Serial
        /\ out' = out
        /\ Sent(s)
     \/ /\ ~peer[to].open /\ kind \notin Serial
        /\ pc' = "over"
        /\ UNCHANGED <<out, hand, half>>
  /\ UNCHANGED <<fixed, in, peer, ghosts>>

CallOnClose ==
  /\ pc = "closing"
  /\ calls' = Append(calls, OnClose)
  /\ pc' = "finish"
  /\ UNCHANGED <<fixed, in, out, peer, hand, half, lost>>

\* Plain: client_ws.close(None), a Close unless the client has had one.  Then
\* both streams are dropped.
Informed == \E i \in 1..Len(peer["client"].got \o out["client"]) :
              (peer["client"].got \o out["client"])[i] = Close

Finish ==
  /\ pc = "finish"
  /\ IF kind = "upgraded" \/ Informed \/ ~peer["client"].open
       THEN out' = out
       ELSE /\ Len(out["client"]) < Cap
            /\ out' = [out EXCEPT !["client"] = Append(@, Close)]
  /\ pc' = "over"
  /\ UNCHANGED <<fixed, in, peer, hand, half, ghosts>>

RelayStep ==
  \/ ReadHead \/ Dial \/ CallOnClose \/ Finish
  \/ \E s \in Side : Read(s) \/ ReadEnds(s) \/ Hook(s) \/ Send(s)

Next ==
  \/ RelayStep \/ EchoBack
  \/ \E s \in Side : PeerSends(s) \/ PeerCloses(s) \/ PeerReads(s) \/ PeerDrops(s)

Spec == Init /\ [][Next]_vars

\* The task is polled; peers read what they are sent, and an echoing server
\* answers as soon as it can.  No peer has to send or to close.
FairSpec == /\ Spec /\ WF_vars(RelayStep) /\ WF_vars(EchoBack)
            /\ \A s \in Side : WF_vars(PeerReads(s))
----------------------------------------------------------------------------
\* A stream without the Close at its end.
Data(q) == IF q # <<>> /\ q[Len(q)] = Close THEN SubSeq(q, 1, Len(q) - 1) ELSE q

\* The frames from + 1 to to, in order.
Numbers(from, to) == [i \in 1..(to - from) |-> i + from]

LostFrom(s) == IF s = "server" THEN lost ELSE 0

\* The frames of those calls of q that are in S, in order.
FramesIn(q, S) ==
  LET upTo[i \in 0..Len(q)] ==
        IF i = 0 THEN <<>>
        ELSE IF q[i] \in S THEN Append(upTo[i - 1], q[i].frame) ELSE upTo[i - 1]
  IN  upTo[Len(q)]

\* The frames of side s that the handler has been shown, and has kept.
ToldOf(s, verdicts) == [call : {"on_frame"}, from : {s}, frame : Frame, kept : verdicts]
Shown(s) == FramesIn(calls, ToldOf(s, BOOLEAN))
Kept(s) == FramesIn(calls, ToldOf(s, {TRUE}))

\* The frames the relay has taken from s to be passed on: without a handler, all.
Taken(s) ==
  IF kind \in Hooked THEN Data(Kept(s))
  ELSE Numbers(LostFrom(s), peer[s].sent - Len(Data(in[s])))

\* on_frame sees the frames of a side in order, each once and without a gap
\* (the two arms of select! in relay_framed and relay_upgraded); frames are missing
\* only at the start of what the server of a plain upgrade sends.
ShownInOrder ==
  kind \in Hooked =>
    \A s \in Side :
      LET unseen == IF pc = "hook" THEN hand[s] ELSE <<>> IN
      (calls = <<>> \/ calls[Len(calls)] # Panic) =>
         Data(Shown(s) \o unseen \o in[s]) = Numbers(LostFrom(s), peer[s].sent)

\* A side whose connection stands receives exactly the frames taken for it, in
\* order, but for the one being sent; one whose connection broke, a prefix of them.
\* The proxy adds nothing but a Close at the end.
DeliveredAsKept ==
  \A s \in Side :
    LET to == Other(s)
        delivered == Data(peer[to].got \o out[to])
        sending == IF kind \in Hooked /\ pc # "send" THEN <<>> ELSE Data(hand[s])
    IN  /\ Len(delivered) <= Len(Taken(s))
        /\ delivered = SubSeq(Taken(s), 1, Len(delivered))
        /\ peer[to].open => delivered \o sending = Taken(s)

\* on_close is called once, after every on_frame, whenever a relay with a handler
\* ends, unless its upstream was never reached (the Err arm of
\* handle_https_websocket) or on_frame panicked; a Close is the last frame the
\* handler is shown, also if it drops it.
ClosedOnce ==
  LET n == Len(calls) IN
  /\ \A i \in 1..n : calls[i] \in {OnClose, Panic} => i = n
  /\ \A i \in 1..n : calls[i].frame = Close =>
       \A j \in (i + 1)..n : calls[j] = OnClose
  /\ kind \in Hooked /\ pc \in {"finish", "over"} =>
       n > 0 /\ calls[n] \in {OnClose, Panic}
  /\ pc = "refused" => calls = <<>>

\* What a relay leaves undelivered between two connections that stand: nothing
\* after copy_bidirectional (relay_websocket); after the select! of a passthrough,
\* bytes for a side that has itself ended its stream, a half-close taken for a
\* close; after a serial loop, only what came with or after a Close.
CutExplained ==
  pc = "over" /\ (\A s \in Side : peer[s].open) =>
    \A s \in Side :
      (\E q \in {hand[s], in[s]} : \E i \in DOMAIN q : q[i] # Close) =>
        \/ kind = "passthrough" /\ peer[Other(s)].closing
        \/ kind \in Serial /\ \E t \in Side : peer[t].closing
        \/ kind \in Hooked /\ calls[Len(calls)] = Panic

\* As long as both peers read, whatever else they do, a send does not block for
\* ever; if the server is one that answers each frame before it reads the next,
\* this holds of the copies, which read and write independently.
SendsEnd ==
  \A s \in Side :
    ((echo => kind \notin Serial) /\ Sending(s)) ~> (~Sending(s) \/ Over)

\* With such peers the end of either side ends the relay (the `None` arms, the
\* select! of a passthrough); copy_bidirectional waits for both.  A Close frame is
\* not enough: that of a server may be gone with the head.
Ended(s) == ~peer[s].open \/ (peer[s].closing /\ kind \notin Serial)
EndsSpread ==
  ((echo => kind \notin Serial) /\
   IF kind = "websocket" THEN \A s \in Side : Ended(s) ELSE \E s \in Side : Ended(s))
  ~> Over

\* ws_proxy.rs:65, "Bidirectional WebSocket frame relay": a send ends also if the
\* server is like that of tests/common/mod.rs, which answers each frame before it
\* reads the next.
EchoedSendsEnd == \A s \in Side : Sending(s) ~> (~Sending(s) \/ Over)
============================================================================
