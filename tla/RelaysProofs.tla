---------------------------- MODULE RelaysProofs ----------------------------
(***************************************************************************)
(* Theorems about Relays, for buffers of any size and any number of frames:*)
(* types, the calls of the handler, what a relay leaves undelivered, and   *)
(* what it shows and delivers of each stream, in which order.              *)
(***************************************************************************)
EXTENDS Relays, SequenceTheorems, DataInduction, TLAPS

\* What a handler can be told.
Calls == [call : {"on_frame", "on_close", "panic"}, from : Side \cup {"none"},
          frame : Frame, kept : BOOLEAN]

\* Which relays can be where, and what is in their hands there.
Control ==
  /\ kind \in Serial => pc # "copy"
  /\ kind \notin Serial => pc \notin {"select", "hook", "send", "closing", "finish"}
  /\ kind \notin Hooked => pc \notin {"hook", "closing", "finish"}
  /\ pc \in {"dial", "head", "select"} => \A s \in Side : hand[s] = <<>>
  /\ half # {} => kind = "websocket" /\ pc \in {"copy", "over"}

\* The calls so far: none before the loop or without a handler; a Close is the
\* last frame and still on its way if the loop goes on; the end comes last.
Said == DOMAIN calls
Ending(i) == calls[i] \in {OnClose, Panic}
Story ==
  /\ calls \in Seq(Calls)
  /\ kind \notin Hooked \/ pc \in {"dial", "head", "refused"} => calls = <<>>
  /\ pc \in {"select", "hook"} => \A i \in Said : calls[i].frame # Close
  /\ pc \in {"send", "closing"} =>
       \A i \in Said : ~Ending(i) /\ (calls[i].frame = Close => i = Len(calls))
  /\ pc = "send" /\ (\E i \in Said : calls[i].frame = Close) =>
       \A s \in Side : hand[s] \in {<<>>, <<Close>>}
  /\ ClosedOnce

\* A Close is the last a side sends; whoever has handed it on has nothing left.
Gone(s) == peer[s].open => peer[s].closing /\ in[s] = <<>>
Ends ==
  /\ \A s \in Side : \A i \in DOMAIN in[s] :
       in[s][i] = Close => i = Len(in[s]) /\ peer[s].closing
  /\ \A s \in Side : hand[s] = <<Close>> => Gone(s)
  /\ \A s \in Side : s \in half => Gone(s) /\ hand[s] = <<>>

\* Why a relay is on its way out.
Panicked == calls # <<>> /\ calls[Len(calls)] = Panic
Reasons ==
  /\ kind \in Serial /\ pc \in {"closing", "finish", "over"} =>
       (\E s \in Side : ~peer[s].open \/ peer[s].closing) \/ (kind \in Hooked /\ Panicked)
  /\ kind = "websocket" /\ pc = "over" => half = Side \/ \E s \in Side : ~peer[s].open
  /\ kind = "passthrough" /\ pc = "over" =>
       \E s \in Side : Gone(s) /\ (peer[s].open => hand[s] = <<>>)

\* What TypeOK says of a peer.
Peers == [open : BOOLEAN, closing : BOOLEAN, sent : 0..MaxFrames, owes : BOOLEAN,
          got : Seq(Frame)]

IInv == TypeOK /\ Control /\ Story /\ Ends /\ Reasons
----------------------------------------------------------------------------
LEMMA Sides == \A s \in Side : /\ Other(s) \in Side /\ Other(s) # s
                               /\ \A t \in Side : t = s \/ t = Other(s)
  BY DEF Side, Other

LEMMA InitInvariant == Init => IInv
<1> SUFFICES ASSUME Init PROVE IInv
  OBVIOUS
<1>1. TypeOK
  BY RelayAssumption DEF Init, TypeOK, Frame, Close, Side
<1>2. Control /\ Story
  BY RelayAssumption DEF Init, Control, Story, ClosedOnce, Said, Ending, Hooked, Serial, Plain
<1>3. Ends /\ Reasons
  BY DEF Init, Ends, Reasons, Close, Side
<1> QED
  BY <1>1, <1>2, <1>3 DEF IInv
\* What is put into a hand, or nothing.
LEMMA HandOver ==
  ASSUME hand \in [Side -> Seq(Frame)], \A t \in Side : Len(hand[t]) <= 1,
         NEW s \in Side, NEW q \in Seq(Frame), Len(q) <= 1,
         hand' = [hand EXCEPT ![s] = q]
  PROVE  /\ hand' \in [Side -> Seq(Frame)] /\ \A t \in Side : Len(hand'[t]) <= 1
         /\ hand'[s] = q /\ \A t \in Side : t # s => hand'[t] = hand[t]
<1>1. hand'[s] = q /\ \A t \in Side : t # s => hand'[t] = hand[t]
  OBVIOUS
<1>2. \A t \in Side : Len(hand'[t]) <= 1
  BY <1>1
<1> QED
  BY <1>1, <1>2

LEMMA EmptyHand == <<>> \in Seq(Frame) /\ Len(<<>>) <= 1
  OBVIOUS

LEMMA OneFrame == ASSUME NEW f \in Frame PROVE <<f>> \in Seq(Frame) /\ Len(<<f>>) <= 1
  OBVIOUS
----------------------------------------------------------------------------
\* The steps of the peers leave the relay alone.
LEMMA TransmitStep ==
  ASSUME IInv, NEW s \in Side, NEW f \in Frame, Transmit(s, f),
         \/ peer' = [peer EXCEPT ![s].sent = @ + 1] /\ peer[s].sent < MaxFrames /\ f # Close
         \/ peer' = [peer EXCEPT ![s].owes = FALSE, ![s].sent = @ + 1]
            /\ peer[s].sent < MaxFrames /\ f # Close
         \/ peer' = [peer EXCEPT ![s].closing = TRUE] /\ f = Close
  PROVE  IInv'
<1> USE DEF IInv, Transmit, fixed, ghosts
<1>1. TypeOK'
  <2>1. peer' \in [Side -> Peers]
    <3>1. peer \in [Side -> Peers]
      BY DEF TypeOK, Peers
    <3>2. peer[s].sent < MaxFrames => peer[s].sent + 1 \in 0..MaxFrames
      BY <3>1, RelayAssumption DEF Peers
    <3> QED
      BY <3>1, <3>2 DEF Peers
  <2>2. in' \in [Side -> Seq(Frame)] /\ \A t \in Side : Len(in'[t]) <= Cap
    BY RelayAssumption DEF TypeOK
  <2> QED
    BY <2>1, <2>2 DEF TypeOK, Peers
<1>2. Control'
  BY DEF Control
<1>3. Story'
  BY DEF Story, Said, Ending, ClosedOnce
<1>4. Ends'
  <2>1. /\ peer[s].open /\ ~peer[s].closing
        /\ in'[s] = Append(in[s], f)
        /\ \A t \in Side : t # s => in'[t] = in[t] /\ peer'[t] = peer[t]
        /\ f = Close => peer'[s].closing
    BY DEF TypeOK
  <2>2. ASSUME NEW t \in Side, NEW i \in DOMAIN in'[t], in'[t][i] = Close
        PROVE  i = Len(in'[t]) /\ peer'[t].closing
    <3>1. CASE t # s
      BY <2>1, <2>2, <3>1 DEF Ends
    <3>2. CASE t = s
      <4>1. in[s] \in Seq(Frame) /\ i \in 1..(Len(in[s]) + 1)
        BY <2>1, <2>2, <3>2 DEF TypeOK
      <4>2. CASE i \in 1..Len(in[s])
        BY <2>1, <2>2, <3>2, <4>1, <4>2 DEF Ends
      <4>3. CASE i = Len(in[s]) + 1
        BY <2>1, <2>2, <3>2, <4>1, <4>3
      <4> QED
        BY <4>1, <4>2, <4>3
    <3> QED
      BY <3>1, <3>2
  <2>3. \A t \in Side : Gone(t) => t # s /\ Gone(t)'
    BY <2>1 DEF Gone
  <2> QED
    BY <2>2, <2>3 DEF Ends
<1>5. Reasons'
  BY DEF Reasons, Gone, Panicked, TypeOK, Joined, Over
<1> QED
  BY <1>1, <1>2, <1>3, <1>4, <1>5

LEMMA PeerReadsStep ==
  ASSUME IInv, NEW s \in Side, PeerReads(s)
  PROVE  IInv'
<1> USE DEF IInv
<1>1. PICK f \in Frame, o \in BOOLEAN, c \in BOOLEAN :
        /\ out' = [out EXCEPT ![s] = Tail(@)]
        /\ peer' = [peer EXCEPT ![s].got = Append(@, f), ![s].owes = o, ![s].closing = c]
        /\ peer[s].closing => c
  <2>1. Head(out[s]) \in Frame
    BY DEF TypeOK, PeerReads
  <2> QED
    BY <2>1 DEF TypeOK, PeerReads
<1>2. UNCHANGED <<kind, echo, in, pc, hand, half, lost, calls>>
  BY DEF PeerReads, fixed, ghosts
<1>3. \A t \in Side : /\ peer'[t].open = peer[t].open
                      /\ peer[t].closing => peer'[t].closing
  BY <1>1 DEF TypeOK
<1>4. TypeOK'
  <2>1. peer' \in [Side -> Peers]
    <3>1. peer \in [Side -> Peers]
      BY DEF TypeOK, Peers
    <3>2. Append(peer[s].got, f) \in Seq(Frame)
      BY <3>1 DEF Peers
    <3>3. [peer[s] EXCEPT !.got = Append(@, f), !.owes = o, !.closing = c] \in Peers
      BY <3>1, <3>2 DEF Peers
    <3> QED
      BY <1>1, <3>1, <3>3
  <2>2. out[s] # <<>>
    BY DEF PeerReads
  <2>3. out' \in [Side -> Seq(Frame)] /\ \A t \in Side : Len(out'[t]) <= Cap
    BY <1>1, <2>2, RelayAssumption DEF TypeOK
  <2> QED
    BY <1>2, <2>1, <2>3 DEF TypeOK, Peers
<1>5. Control' /\ Story'
  BY <1>2 DEF Control, Story, Said, Ending, ClosedOnce
<1>6. ASSUME NEW t \in Side, Gone(t) PROVE Gone(t)'
  <2>1. peer'[t].open = peer[t].open /\ (peer[t].closing => peer'[t].closing)
    BY <1>3
  <2>2. in'[t] = in[t]
    BY <1>2
  <2> QED
    BY <1>6, <2>1, <2>2 DEF Gone
<1>7. Ends'
  BY <1>2, <1>3, <1>6 DEF Ends
<1>8. Reasons'
  BY <1>2, <1>3, <1>6 DEF Reasons, Panicked
<1> QED
  BY <1>4, <1>5, <1>7, <1>8

LEMMA PeerDropsStep ==
  ASSUME IInv, NEW s \in Side, PeerDrops(s)
  PROVE  IInv'
<1> USE DEF IInv, fixed, ghosts
<1>1. \A t \in Side : /\ peer'[t].open => peer[t].open
                      /\ peer'[t].closing = peer[t].closing
  BY DEF TypeOK, PeerDrops
<1>2. TypeOK'
  BY DEF TypeOK, PeerDrops
<1>3. Control' /\ Story'
  BY DEF Control, Story, Said, Ending, ClosedOnce, PeerDrops
<1>4. \A t \in Side : Gone(t) => Gone(t)'
  BY <1>1 DEF Gone, PeerDrops
<1>5. Ends'
  BY <1>1, <1>4 DEF Ends, PeerDrops
<1>6. Reasons'
  BY <1>1, <1>4 DEF Reasons, Panicked, PeerDrops
<1> QED
  BY <1>2, <1>3, <1>5, <1>6
----------------------------------------------------------------------------
\* What read_full_response drops with the head is the start of the server's stream.
LEMMA ReadHeadStep ==
  ASSUME IInv, ReadHead
  PROVE  IInv'
<1> USE DEF IInv, fixed
<1>1. PICK n \in 0..Len(in["server"]) :
        LET gone == {in["server"][i] : i \in 1..n} IN
          /\ in' = [in EXCEPT !["server"] = SubSeq(@, n + 1, Len(@))]
          /\ lost' \in gone \cup {0}
  BY DEF ReadHead
<1>2. /\ "server" \in Side /\ in["server"] \in Seq(Frame)
      /\ in'["server"] \in Seq(Frame) /\ Len(in'["server"]) = Len(in["server"]) - n
      /\ \A i \in 1..(Len(in["server"]) - n) : in'["server"][i] = in["server"][i + n]
      /\ \A t \in Side : t # "server" => in'[t] = in[t]
      /\ lost' \in Frame
  <2>1. "server" \in Side /\ in["server"] \in Seq(Frame)
    BY DEF TypeOK, Side
  <2>2. lost' \in Frame
    BY <1>1, <2>1 DEF Frame, Close
  <2>3. in'["server"] = SubSeq(in["server"], n + 1, Len(in["server"]))
    BY <1>1, <2>1 DEF TypeOK
  <2> QED
    BY <1>1, <2>1, <2>2, <2>3
<1>3. TypeOK'
  <2>1. \A t \in Side : in'[t] \in Seq(Frame) /\ Len(in'[t]) <= Cap
    BY <1>2, RelayAssumption DEF TypeOK
  <2> QED
    BY <1>2, <2>1 DEF TypeOK, ReadHead, Running
<1>4. Control'
  BY DEF Control, ReadHead, Running
<1>5. Story'
  BY DEF Story, Said, Ending, ClosedOnce, ReadHead, Running
<1>6. Ends'
  <2>1. ASSUME NEW t \in Side, NEW i \in DOMAIN in'[t], in'[t][i] = Close
        PROVE  i = Len(in'[t]) /\ peer'[t].closing
    <3>1. CASE t # "server"
      BY <1>2, <2>1, <3>1 DEF Ends, ReadHead
    <3>2. CASE t = "server"
      BY <1>2, <2>1, <3>2 DEF Ends, ReadHead
    <3> QED
      BY <3>1, <3>2
  <2>2. \A t \in Side : hand'[t] = <<>> /\ half' = {}
    BY DEF Control, ReadHead
  <2> QED
    BY <2>1, <2>2 DEF Ends
<1>7. Reasons'
  BY DEF Reasons, ReadHead, Running
<1> QED
  BY <1>3, <1>4, <1>5, <1>6, <1>7

LEMMA DialStep ==
  ASSUME IInv, Dial
  PROVE  IInv'
<1> USE DEF IInv, fixed, ghosts
<1>1. TypeOK'
  BY DEF TypeOK, Dial, Running
<1>2. Control'
  BY DEF Control, Dial, Running
<1>3. Story'
  BY DEF Story, Said, Ending, ClosedOnce, Dial, Running
<1>4. Ends' /\ Reasons'
  BY DEF Ends, Gone, Reasons, Dial, Running
<1> QED
  BY <1>1, <1>2, <1>3, <1>4
----------------------------------------------------------------------------
\* Reading takes the first of a buffer, which is the last if it is a Close.
LEMMA ReadStep ==
  ASSUME IInv, NEW s \in Side, Read(s)
  PROVE  IInv'
<1> USE DEF IInv
<1>1. UNCHANGED <<kind, echo, out, peer, half, lost, calls>>
  BY DEF Read, fixed, ghosts
<1>2. /\ Listens(s) /\ in[s] \in Seq(Frame) /\ in[s] # <<>>
      /\ in' = [in EXCEPT ![s] = Tail(@)]
  BY DEF TypeOK, Read
<1>3. PICK f \in Frame : f = Head(in[s])
  BY <1>2
<1>4. /\ Len(in'[s]) = Len(in[s]) - 1 /\ in'[s] \in Seq(Frame)
      /\ \A i \in 1..(Len(in[s]) - 1) : in'[s][i] = in[s][i + 1]
      /\ \A t \in Side : t # s => in'[t] = in[t]
      /\ f = Close => in'[s] = <<>> /\ peer[s].closing
  <2>1. in'[s] = Tail(in[s])
    BY <1>2 DEF TypeOK
  <2>2. f = in[s][1] /\ 1 \in DOMAIN in[s] /\ Len(in[s]) \in Nat
    BY <1>2, <1>3
  <2>3. f = Close => Len(in[s]) = 1 /\ peer[s].closing
    BY <2>2 DEF Ends
  <2>4. Len(Tail(in[s])) = Len(in[s]) - 1 /\ Tail(in[s]) \in Seq(Frame)
    BY <1>2
  <2>5. Len(Tail(in[s])) = 0 => Tail(in[s]) = <<>>
    BY <2>4, EmptySeq
  <2> QED
    BY <1>2, <2>1, <2>3, <2>4, <2>5 DEF TypeOK
<1>5. \/ /\ kind = "passthrough" /\ f = Close /\ pc' = "over" /\ hand' = hand
      \/ /\ hand' = [hand EXCEPT ![s] = <<f>>]
         /\ \/ kind \in Hooked /\ pc' = "hook"
            \/ kind = "raw_upgraded" /\ pc' = "send"
            \/ kind \notin Serial /\ pc' = "copy"
  BY <1>3 DEF Read, Serial, Hooked
<1>6. TypeOK'
  <2>1. in' \in [Side -> Seq(Frame)] /\ \A t \in Side : Len(in'[t]) <= Cap
    BY <1>2, <1>4, RelayAssumption DEF TypeOK
  <2>2. hand' \in [Side -> Seq(Frame)] /\ \A t \in Side : Len(hand'[t]) <= 1
    BY <1>5, HandOver, OneFrame DEF TypeOK
  <2>3. kind \in Serial => hand'[Other(s)] = <<>>
    BY <1>2, <1>5, Sides DEF TypeOK, Control, Listens, Running, Serial, Hooked
  <2> QED
    BY <1>1, <1>5, <2>1, <2>2, <2>3, Sides DEF TypeOK
<1>7. Control'
  BY <1>1, <1>2, <1>5 DEF Control, Listens, Running, Serial, Hooked
<1>8. Story'
  BY <1>1, <1>2, <1>5 DEF Story, Said, Ending, ClosedOnce, Listens, Running, Control, Serial, Hooked
<1>9. Ends'
  <2>1. ASSUME NEW t \in Side, NEW i \in DOMAIN in'[t], in'[t][i] = Close
        PROVE  i = Len(in'[t]) /\ peer'[t].closing
    <3>1. CASE t # s
      BY <1>1, <1>4, <2>1, <3>1 DEF Ends
    <3>2. CASE t = s
      <4>1. i \in 1..(Len(in[s]) - 1) /\ Len(in[s]) \in Nat
        BY <1>2, <1>4, <2>1, <3>2
      <4>2. i + 1 \in DOMAIN in[s] /\ in[s][i + 1] = Close
        BY <1>2, <1>4, <2>1, <3>2, <4>1
      <4> QED
        BY <1>1, <1>4, <3>2, <4>1, <4>2 DEF Ends
    <3> QED
      BY <3>1, <3>2
  <2>2. \A t \in Side : Gone(t) => Gone(t)'
    BY <1>1, <1>2, <1>4 DEF Gone
  <2>3. ASSUME NEW t \in Side, hand'[t] = <<Close>> PROVE Gone(t)'
    <3>1. CASE hand'[t] = hand[t]
      BY <2>2, <2>3, <3>1 DEF Ends
    <3>2. CASE t = s /\ hand'[t] = <<f>>
      BY <1>1, <1>4, <2>3, <3>2 DEF Gone
    <3> QED
      BY <1>5, <3>1, <3>2 DEF TypeOK
  <2>4. ASSUME NEW t \in Side, t \in half PROVE Gone(t)' /\ hand'[t] = <<>>
    BY <1>2, <1>5, <2>2, <2>4 DEF Ends, Listens, TypeOK
  <2> QED
    BY <1>1, <2>1, <2>3, <2>4 DEF Ends
<1>10. Reasons'
  <2>1. CASE kind = "passthrough" /\ f = Close /\ pc' = "over" /\ hand' = hand
    <3>1. Gone(s)' /\ hand'[s] = <<>>
      BY <1>1, <1>2, <1>4, <2>1 DEF Gone, Listens
    <3> QED
      BY <1>1, <2>1, <3>1 DEF Reasons, Serial, Hooked
  <2>2. CASE pc' \in {"hook", "send", "copy"}
    BY <2>2 DEF Reasons
  <2> QED
    BY <1>5, <2>1, <2>2
<1> QED
  BY <1>6, <1>7, <1>8, <1>9, <1>10

LEMMA ReadEndsStep ==
  ASSUME IInv, NEW s \in Side, ReadEnds(s)
  PROVE  IInv'
<1> USE DEF IInv
<1>1. UNCHANGED <<kind, echo, in, out, peer, half, lost, calls>>
  BY DEF ReadEnds, fixed, ghosts
<1>2. Listens(s) /\ ~peer[s].open
  BY DEF ReadEnds
<1>3. \/ pc' = Leave /\ hand' = hand
      \/ kind = "websocket" /\ pc' = pc /\ hand' = [hand EXCEPT ![s] = <<Close>>]
  BY DEF ReadEnds
<1>4. TypeOK'
  <2>1. Close \in Frame
    BY DEF Frame
  <2>2. hand' \in [Side -> Seq(Frame)] /\ \A t \in Side : Len(hand'[t]) <= 1
    BY <1>3, <2>1, HandOver, OneFrame DEF TypeOK
  <2>3. kind \in Serial => hand' = hand
    BY <1>3 DEF Serial, Hooked
  <2> QED
    BY <1>1, <1>3, <2>2, <2>3 DEF TypeOK, Leave
<1>5. Control'
  BY <1>1, <1>2, <1>3 DEF Control, Listens, Running, Leave, Serial, Hooked
<1>6. Story'
  BY <1>1, <1>2, <1>3 DEF Story, Said, Ending, OnClose, Panic, ClosedOnce,
                            Listens, Running, Leave, Control, Serial, Hooked
<1>7. Ends'
  BY <1>1, <1>2, <1>3 DEF Ends, Gone, Listens, TypeOK
<1>8. Reasons'
  BY <1>1, <1>2, <1>3 DEF Reasons, Gone, Panicked, Listens, Running, Leave, Serial, Hooked
<1> QED
  BY <1>4, <1>5, <1>6, <1>7, <1>8
----------------------------------------------------------------------------
LEMMA OneInHand ==
  ASSUME TypeOK, NEW s \in Side, hand[s] # <<>>
  PROVE  \E f \in Frame : hand[s] = <<f>> /\ Head(hand[s]) = f
<1>1. ASSUME NEW q \in Seq(Frame), q # <<>>, Len(q) <= 1
      PROVE  \E f \in Frame : q = <<f>> /\ Head(q) = f
  <2>1. Len(q) \in Nat \ {0}
    BY <1>1, EmptySeq
  <2>2. Len(q) = 1
    <3>1. \A n \in Nat \ {0} : n <= 1 => n = 1
      OBVIOUS
    <3> QED
      BY <1>1, <2>1, <3>1
  <2>3. q[1] \in Frame /\ q = <<q[1]>> /\ Head(q) = q[1]
    BY <1>1, <2>2
  <2> QED
    BY <2>3
<1>2. hand[s] \in Seq(Frame) /\ Len(hand[s]) <= 1
  BY DEF TypeOK
<1> QED
  BY <1>1, <1>2

LEMMA OneMoreCall ==
  ASSUME calls \in Seq(Calls), NEW e \in Calls, calls' = Append(calls, e)
  PROVE  /\ calls' \in Seq(Calls) /\ Len(calls) \in Nat
         /\ Len(calls') = Len(calls) + 1 /\ calls'[Len(calls) + 1] = e
         /\ DOMAIN calls = 1..Len(calls) /\ DOMAIN calls' = 1..(Len(calls) + 1)
         /\ \A i \in 1..Len(calls) : calls'[i] = calls[i]
  OBVIOUS

\* A call of on_frame is told from the calls that end a relay.
LEMMA FrameCall ==
  ASSUME NEW s \in Side, NEW f \in Frame, NEW k \in BOOLEAN
  PROVE  OnFrame(s, f, k).frame = f /\ OnFrame(s, f, k) \notin {OnClose, Panic}
<1>1. OnFrame(s, f, k).call = "on_frame" /\ OnFrame(s, f, k).frame = f
  BY DEF OnFrame
<1>2. OnClose.call = "on_close" /\ Panic.call = "panic"
  BY DEF OnClose, Panic
<1> QED
  BY <1>1, <1>2

LEMMA HookStep ==
  ASSUME IInv, NEW s \in Side, Hook(s)
  PROVE  IInv'
<1> USE DEF IInv
<1>1. UNCHANGED <<kind, echo, in, out, peer, half, lost>>
  BY DEF Hook, fixed
<1>2. PICK f \in Frame : hand[s] = <<f>> /\ Head(hand[s]) = f
  BY OneInHand DEF Hook
<1>3. PICK e \in Calls :
        /\ calls' = Append(calls, e)
        /\ \/ e = OnFrame(s, f, TRUE) /\ pc' = "send" /\ hand' = hand
           \/ /\ e = OnFrame(s, f, FALSE) /\ pc' = AfterFrame(f)
              /\ hand' = [hand EXCEPT ![s] = <<>>]
           \/ e = Panic /\ pc' = "over" /\ hand' = hand
  <2>1. OnFrame(s, f, TRUE) \in Calls /\ OnFrame(s, f, FALSE) \in Calls /\ Panic \in Calls
    BY RelayAssumption DEF OnFrame, OnClose, Panic, Calls, Frame, Close
  <2> QED
    BY <1>2, <2>1 DEF Hook
<1>4. pc = "hook" /\ kind \in Hooked /\ kind \in Serial
  BY DEF Hook, Control, Serial
<1>0. hand[Other(s)] = <<>> /\ hand[s] # <<>>
  BY <1>4, Sides DEF TypeOK, Hook
<1>5. TypeOK'
  <2>1. /\ hand' \in [Side -> Seq(Frame)] /\ \A t \in Side : Len(hand'[t]) <= 1
        /\ \A t \in Side : hand[t] = <<>> => hand'[t] = <<>>
    BY <1>3, HandOver, EmptyHand DEF TypeOK
  <2> QED
    BY <1>1, <1>3, <2>1 DEF TypeOK, AfterFrame, Leave
<1>6. Control'
  <2>1. pc' = "select" => hand' = [hand EXCEPT ![s] = <<>>]
    BY <1>3, <1>4 DEF AfterFrame, Leave
  <2>2. pc' = "select" => \A t \in Side : hand'[t] = <<>>
    BY <1>0, <2>1, HandOver, EmptyHand, Sides DEF TypeOK
  <2> QED
    BY <1>1, <1>3, <1>4, <2>2 DEF Control, AfterFrame, Leave, Serial
<1>7. Story'
  <2>1. /\ calls' \in Seq(Calls) /\ Len(calls) \in Nat
        /\ Len(calls') = Len(calls) + 1 /\ calls'[Len(calls) + 1] = e
        /\ Said = 1..Len(calls) /\ Said' = 1..(Len(calls) + 1)
        /\ \A i \in 1..Len(calls) : calls'[i] = calls[i]
    BY <1>3, OneMoreCall DEF Story, Said
  <2>2. \A i \in 1..Len(calls) : calls'[i].frame # Close /\ ~Ending(i)'
    BY <1>4, <2>1 DEF Story, Ending, OnClose, Panic
  <2>3. CASE e = OnFrame(s, f, TRUE) /\ pc' = "send" /\ hand' = hand
    <3>1. e.frame = f /\ e \notin {OnClose, Panic}
      BY <2>3, FrameCall
    <3>2. f = Close => \A t \in Side : hand'[t] \in {<<>>, <<Close>>}
      BY <1>0, <1>2, <2>3, Sides
    <3>3. ClosedOnce'
      BY <1>4, <2>1, <2>2, <2>3, <3>1 DEF ClosedOnce, Ending
    <3>4. ASSUME NEW i \in Said'
          PROVE  /\ calls'[i] \notin {OnClose, Panic}
                 /\ calls'[i].frame = Close => i = Len(calls') /\ f = Close
      <4>1. CASE i \in 1..Len(calls)
        BY <2>2, <4>1 DEF Ending
      <4>2. CASE i = Len(calls) + 1
        BY <2>1, <2>3, <3>1, <4>2
      <4> QED
        BY <2>1, <4>1, <4>2
    <3> QED
      BY <1>1, <1>4, <2>1, <2>3, <3>2, <3>3, <3>4 DEF Story, Ending
  <2>4. CASE e = OnFrame(s, f, FALSE) /\ pc' = AfterFrame(f)
    <3>1. e.frame = f /\ e \notin {OnClose, Panic}
      BY <2>4, FrameCall
    <3>2. ClosedOnce'
      BY <1>4, <2>1, <2>2, <2>4, <3>1 DEF ClosedOnce, Ending, AfterFrame, Leave
    <3>3. ASSUME NEW i \in Said'
          PROVE  /\ calls'[i] \notin {OnClose, Panic}
                 /\ calls'[i].frame = Close => i = Len(calls') /\ f = Close
      <4>1. CASE i \in 1..Len(calls)
        BY <2>2, <4>1 DEF Ending
      <4>2. CASE i = Len(calls) + 1
        BY <2>1, <2>4, <3>1, <4>2
      <4> QED
        BY <2>1, <4>1, <4>2
    <3> QED
      BY <1>1, <1>4, <2>1, <2>4, <3>2, <3>3 DEF Story, Ending, AfterFrame, Leave
  <2>5. CASE e = Panic /\ pc' = "over"
    BY <1>1, <1>4, <2>1, <2>2, <2>5 DEF Story, ClosedOnce, Said, Ending
  <2> QED
    BY <1>3, <2>3, <2>4, <2>5
<1>8. Ends'
  <2>1. \A t \in Side : hand'[t] = hand[t] \/ hand'[t] = <<>>
    BY <1>3 DEF TypeOK
  <2> QED
    BY <1>1, <2>1 DEF Ends, Gone
<1>9. Reasons'
  <2>1. CASE pc' = "over"
    <3>1. calls' # <<>> /\ calls'[Len(calls')] = Panic
      BY <1>3, <1>4, <2>1, OneMoreCall DEF AfterFrame, Leave, Story
    <3> QED
      BY <1>1, <1>4, <3>1 DEF Reasons, Panicked, Serial, Hooked
  <2>2. CASE pc' = "closing"
    <3>1. f = Close
      BY <1>3, <2>2 DEF AfterFrame
    <3>2. Gone(s)
      BY <1>2, <3>1 DEF Ends
    <3> QED
      BY <1>1, <1>4, <2>2, <3>2 DEF Reasons, Gone, Serial, Hooked
  <2>3. CASE pc' \in {"send", "select"}
    BY <2>3 DEF Reasons
  <2> QED
    BY <1>3, <1>4, <2>1, <2>2, <2>3 DEF AfterFrame, Leave
<1> QED
  BY <1>5, <1>6, <1>7, <1>8, <1>9

\* A copy whose write fails ends at once.
LEMMA SendFailsStep ==
  ASSUME IInv, NEW s \in Side, ~peer[Other(s)].open, kind \notin Serial, pc' = "over",
         UNCHANGED <<kind, echo, in, out, peer, hand, half, lost, calls>>
  PROVE  IInv'
<1> USE DEF IInv
<1>1. TypeOK' /\ Control'
  BY DEF TypeOK, Control
<1>2. Story'
  BY DEF Story, Said, Ending, ClosedOnce, Serial, Hooked
<1>3. Ends' /\ Reasons'
  BY Sides DEF Ends, Reasons, Gone
<1> QED
  BY <1>1, <1>2, <1>3

\* A send that is through: the frame has left the hand.
LEMMA SentStep ==
  ASSUME IInv, NEW s \in Side, Sending(s), Sent(s),
         out' \in [Side -> Seq(Frame)], \A t \in Side : Len(out'[t]) <= Cap,
         UNCHANGED <<kind, echo, in, peer, lost, calls>>
  PROVE  IInv'
<1> USE DEF IInv
<1>1. PICK f \in Frame : hand[s] = <<f>> /\ Head(hand[s]) = f
  BY OneInHand DEF Sending
<1>2. /\ hand' = [hand EXCEPT ![s] = <<>>]
      /\ half' = IF kind = "websocket" /\ f = Close THEN half \cup {s} ELSE half
      /\ pc' = IF kind \in Serial THEN AfterFrame(f)
               ELSE IF half' = Side THEN "over" ELSE "copy"
  <2>1. hand[s] = <<Close>> <=> f = Close
    BY <1>1
  <2> QED
    BY <1>1, <2>1 DEF Sent, CopiesEnd
<1>3. /\ (pc = "send" /\ kind \in Serial) \/ (pc = "copy" /\ kind \notin Serial)
      /\ "client" \in Side /\ half \subseteq Side
      /\ kind \in Serial \cup {"websocket", "passthrough"}
  <2>1. kind \in Kinds /\ half \subseteq Side
    BY DEF TypeOK
  <2>2. kind \in Serial \cup {"websocket", "passthrough"}
    BY <2>1, RelayAssumption
  <2>3. (pc = "send" /\ kind \in Serial) \/ (pc = "copy" /\ kind \notin Serial)
    BY DEF Sending, Control
  <2> QED
    BY <2>1, <2>2, <2>3 DEF Side
<1>4. TypeOK'
  <2>1. /\ hand' \in [Side -> Seq(Frame)] /\ \A t \in Side : Len(hand'[t]) <= 1
        /\ \A t \in Side : hand[t] = <<>> => hand'[t] = <<>>
    BY <1>2, HandOver, EmptyHand DEF TypeOK
  <2> QED
    BY <1>2, <2>1 DEF TypeOK, AfterFrame, Leave
<1>5. Control'
  <2>1. ASSUME kind \in Serial PROVE \A t \in Side : hand'[t] = <<>>
    <3>1. hand[Other(s)] = <<>>
      BY <2>1, Sides DEF TypeOK, Sending
    <3> QED
      BY <1>2, <3>1, HandOver, EmptyHand, Sides DEF TypeOK
  <2> QED
    BY <1>2, <1>3, <2>1 DEF Control, AfterFrame, Leave, Serial, Hooked
<1>6. Story'
  <2>1. CASE kind \in Hooked
    <3>1. pc = "send" /\ pc' = AfterFrame(f) /\ Leave = "closing"
      BY <1>2, <1>3, <2>1 DEF Serial, Leave
    <3>2. CASE f = Close
      BY <3>1, <3>2 DEF Story, ClosedOnce, Said, Ending, AfterFrame
    <3>3. CASE f # Close
      <4>1. ~(hand[s] \in {<<>>, <<Close>>})
        BY <1>1, <3>3
      <4>2. \A i \in Said : calls[i].frame # Close
        BY <3>1, <4>1 DEF Story
      <4> QED
        BY <3>1, <3>3, <4>2 DEF Story, ClosedOnce, Said, Ending, AfterFrame
    <3> QED
      BY <3>2, <3>3
  <2>2. CASE kind \notin Hooked
    BY <2>2 DEF Story, ClosedOnce, Said, Ending
  <2> QED
    BY <2>1, <2>2
<1>7. Ends'
  <2>1. \A t \in Side : hand'[t] = hand[t] \/ hand'[t] = <<>>
    BY <1>2 DEF TypeOK
  <2>2. hand'[s] = <<>> /\ (f = Close => Gone(s))
    BY <1>1, <1>2 DEF Ends, TypeOK
  <2>3. \A t \in Side : t \in half' => Gone(t) /\ hand'[t] = <<>>
    BY <1>2, <2>1, <2>2 DEF Ends
  <2>4. \A t \in Side : hand'[t] = <<Close>> => Gone(t)
    <3>1. <<Close>> # <<>>
      OBVIOUS
    <3> QED
      BY <2>1, <3>1 DEF Ends
  <2> QED
    BY <2>3, <2>4 DEF Ends, Gone
<1>8. Reasons'
  <2>1. CASE kind \in Serial
    <3>1. pc' \in {"closing", "finish", "over"} => f = Close /\ Gone(s)
      BY <1>1, <1>2, <2>1 DEF AfterFrame, Ends
    <3> QED
      BY <2>1, <3>1 DEF Reasons, Gone, Serial, Hooked
  <2>2. CASE kind = "websocket"
    BY <1>2, <2>2 DEF Reasons, Serial, Hooked
  <2>3. CASE kind = "passthrough"
    <3>1. half' = {} /\ half' # Side
      BY <1>2, <1>3, <2>3 DEF Control
    <3> QED
      BY <1>2, <2>3, <3>1 DEF Reasons, Serial, Hooked
  <2> QED
    BY <1>3, <2>1, <2>2, <2>3
<1> QED
  BY <1>4, <1>5, <1>6, <1>7, <1>8

LEMMA SendStep ==
  ASSUME IInv, NEW s \in Side, Send(s)
  PROVE  IInv'
<1> USE DEF IInv
<1>1. UNCHANGED <<kind, echo, in, peer, lost, calls>> /\ Sending(s)
  BY DEF Send, fixed, ghosts
<1>2. PICK f \in Frame : hand[s] = <<f>> /\ Head(hand[s]) = f
  BY <1>1, OneInHand DEF Sending
<1>3. CASE Len(out[Other(s)]) < Cap /\ out' = [out EXCEPT ![Other(s)] = Append(@, Head(hand[s]))]
           /\ Sent(s)
  <2>1. Other(s) \in Side /\ Append(out[Other(s)], f) \in Seq(Frame)
        /\ Len(Append(out[Other(s)], f)) = Len(out[Other(s)]) + 1
    BY Sides DEF TypeOK
  <2>2. out' \in [Side -> Seq(Frame)] /\ \A t \in Side : Len(out'[t]) <= Cap
    BY <1>2, <1>3, <2>1, RelayAssumption DEF TypeOK
  <2> QED
    BY <1>1, <1>3, <2>2, SentStep
<1>4. CASE out' = out /\ Sent(s)
  BY <1>1, <1>4, SentStep DEF TypeOK
<1>5. CASE /\ ~peer[Other(s)].open /\ kind \notin Serial /\ pc' = "over"
           /\ UNCHANGED <<out, hand, half>>
  BY <1>1, <1>5, SendFailsStep
<1> QED
  BY <1>3, <1>4, <1>5 DEF Send

LEMMA CallOnCloseStep ==
  ASSUME IInv, CallOnClose
  PROVE  IInv'
<1> USE DEF IInv
<1>1. /\ UNCHANGED <<kind, echo, in, out, peer, hand, half, lost>>
      /\ pc = "closing" /\ pc' = "finish" /\ calls' = Append(calls, OnClose)
      /\ kind \in Hooked
  BY DEF CallOnClose, fixed, Control
<1>2. OnClose \in Calls /\ OnClose.frame = Close
  BY RelayAssumption DEF OnClose, Calls, Frame, Close
<1>3. /\ calls' \in Seq(Calls) /\ Len(calls) \in Nat
      /\ Len(calls') = Len(calls) + 1 /\ calls'[Len(calls) + 1] = OnClose
      /\ DOMAIN calls = 1..Len(calls)
      /\ \A i \in 1..Len(calls) : calls'[i] = calls[i]
  BY <1>1, <1>2, OneMoreCall DEF Story
<1>4. TypeOK' /\ Control'
  BY <1>1 DEF TypeOK, Control
<1>5. Story'
  <2>1. \A i \in 1..Len(calls) : /\ calls'[i] \notin {OnClose, Panic}
                                 /\ calls'[i].frame = Close => i = Len(calls)
    BY <1>1, <1>3 DEF Story, Said, Ending
  <2>2. ASSUME NEW i \in 1..Len(calls')
        PROVE  /\ calls'[i] \in {OnClose, Panic} => i = Len(calls')
               /\ calls'[i].frame = Close =>
                    \A j \in (i + 1)..Len(calls') : calls'[j] = OnClose
    <3>1. CASE i \in 1..Len(calls)
      <4>1. calls'[i] \notin {OnClose, Panic} /\ (calls'[i].frame = Close => i = Len(calls))
        BY <2>1, <3>1
      <4>2. i = Len(calls) => \A j \in (i + 1)..Len(calls') : j = Len(calls) + 1
        BY <1>3
      <4> QED
        BY <1>3, <4>1, <4>2
    <3>2. CASE i = Len(calls')
      BY <1>3, <3>2
    <3> QED
      BY <1>3, <3>1, <3>2
  <2>3. ClosedOnce'
    BY <1>1, <1>3, <2>2 DEF ClosedOnce
  <2> QED
    BY <1>1, <1>3, <2>3 DEF Story
<1>6. Ends'
  BY <1>1 DEF Ends, Gone
<1>7. Reasons'
  <2>1. ~Panicked
    <3>1. calls # <<>> => Len(calls) \in DOMAIN calls
      BY EmptySeq DEF Story
    <3> QED
      BY <1>1, <3>1 DEF Panicked, Story, Said, Ending
  <2> QED
    BY <1>1, <2>1 DEF Reasons, Hooked
<1> QED
  BY <1>4, <1>5, <1>6, <1>7

LEMMA FinishStep ==
  ASSUME IInv, Finish
  PROVE  IInv'
<1> USE DEF IInv
<1>1. /\ UNCHANGED <<kind, echo, in, peer, hand, half, lost, calls>>
      /\ pc = "finish" /\ pc' = "over" /\ kind \in Hooked
      /\ \/ out' = out
         \/ /\ Len(out["client"]) < Cap
            /\ out' = [out EXCEPT !["client"] = Append(@, Close)]
  BY DEF Finish, fixed, ghosts, Control
<1>2. TypeOK'
  <2>1. "client" \in Side /\ Close \in Frame
    BY DEF Side, Frame
  <2>2. out' \in [Side -> Seq(Frame)] /\ \A t \in Side : Len(out'[t]) <= Cap
    <3>1. /\ Append(out["client"], Close) \in Seq(Frame)
          /\ Len(Append(out["client"], Close)) = Len(out["client"]) + 1
      BY <2>1 DEF TypeOK
    <3>2. CASE out' = out
      BY <3>2 DEF TypeOK
    <3>3. CASE /\ Len(out["client"]) < Cap
               /\ out' = [out EXCEPT !["client"] = Append(@, Close)]
      BY <2>1, <3>1, <3>3, RelayAssumption DEF TypeOK
    <3> QED
      BY <1>1, <3>2, <3>3
  <2> QED
    BY <1>1, <2>2 DEF TypeOK
<1>3. Control' /\ Ends'
  BY <1>1 DEF Control, Ends, Gone
<1>4. Story'
  BY <1>1 DEF Story, Said, Ending, ClosedOnce
<1>5. Reasons'
  BY <1>1 DEF Reasons, Panicked, Hooked, Serial
<1> QED
  BY <1>2, <1>3, <1>4, <1>5
----------------------------------------------------------------------------
LEMMA PeerSendsStep ==
  ASSUME IInv, NEW s \in Side, PeerSends(s) \/ PeerCloses(s) \/ (s = "server" /\ EchoBack)
  PROVE  IInv'
<1>1. CASE PeerCloses(s)
  <2>1. Close \in Frame
    BY RelayAssumption DEF Frame, Close
  <2> QED
    BY <1>1, <2>1, TransmitStep DEF PeerCloses
<1>2. CASE peer[s].sent < MaxFrames /\ Transmit(s, peer[s].sent + 1)
  <2>1. peer[s].sent + 1 \in Frame /\ peer[s].sent + 1 # Close
    BY <1>2, RelayAssumption DEF IInv, TypeOK, Frame, Close
  <2> QED
    BY <1>1, <1>2, <2>1, TransmitStep DEF PeerSends, EchoBack
<1> QED
  BY <1>1, <1>2 DEF PeerSends, EchoBack

LEMMA StepInvariant == IInv /\ [Next]_vars => IInv'
<1> SUFFICES ASSUME IInv, [Next]_vars PROVE IInv'
  OBVIOUS
<1>1. CASE UNCHANGED vars
  BY <1>1 DEF IInv, TypeOK, Control, Story, Said, Ending, ClosedOnce, Ends, Gone, Reasons,
              Panicked, vars, fixed, ghosts
<1>2. CASE RelayStep
  BY <1>2, ReadHeadStep, DialStep, CallOnCloseStep, FinishStep, ReadStep, ReadEndsStep,
     HookStep, SendStep DEF RelayStep
<1>3. CASE EchoBack
  BY <1>3, PeerSendsStep DEF Side
<1>4. ASSUME NEW s \in Side, PeerSends(s) \/ PeerCloses(s) \/ PeerReads(s) \/ PeerDrops(s)
      PROVE  IInv'
  BY <1>4, PeerSendsStep, PeerReadsStep, PeerDropsStep
<1> QED
  BY <1>1, <1>2, <1>3, <1>4 DEF Next

LEMMA Invariance == Spec => []IInv
<1>1. Init => IInv
  BY InitInvariant
<1>2. IInv /\ [Next]_vars => IInv'
  BY StepInvariant
<1> QED
  BY <1>1, <1>2, PTL DEF Spec
----------------------------------------------------------------------------
\* Buffers, hands and peers keep their types; above all no send overruns a buffer.
THEOREM TypesAlways == Spec => []TypeOK
<1>1. IInv => TypeOK
  BY DEF IInv
<1> QED
  BY <1>1, Invariance, PTL

\* on_close is called exactly once, after every on_frame, when a relay with a handler
\* ends, unless on_frame panicked or the upstream was never reached.
THEOREM ClosedAlways == Spec => []ClosedOnce
<1>1. IInv => ClosedOnce
  BY DEF IInv, Story
<1> QED
  BY <1>1, Invariance, PTL

\* Between connections that stand a relay leaves something undelivered only if a side
\* has closed (for the passthrough: the receiver itself), or on_frame panicked.
THEOREM CutsExplained == Spec => []CutExplained
<1>1. IInv => CutExplained
  <2> SUFFICES ASSUME IInv, pc = "over", \A t \in Side : peer[t].open,
                      NEW s \in Side, NEW q \in {hand[s], in[s]}, NEW i \in DOMAIN q
               PROVE  \/ kind = "passthrough" /\ peer[Other(s)].closing
                      \/ kind \in Serial /\ \E t \in Side : peer[t].closing
                      \/ kind \in Hooked /\ calls[Len(calls)] = Panic
    BY DEF CutExplained
  <2>1. kind \in Serial \/ kind = "websocket" \/ kind = "passthrough"
    BY RelayAssumption DEF IInv, TypeOK
  <2>2. q # <<>>
    OBVIOUS
  <2>3. CASE kind \in Serial
    BY <2>3 DEF IInv, Reasons, Panicked
  <2>4. CASE kind = "websocket"
    <3>1. Gone(s) /\ hand[s] = <<>>
      BY <2>4 DEF IInv, Reasons, Ends
    <3> QED
      BY <2>2, <3>1 DEF Gone
  <2>5. CASE kind = "passthrough"
    <3>1. PICK t \in Side : Gone(t) /\ hand[t] = <<>>
      BY <2>5 DEF IInv, Reasons
    <3>2. t # s
      BY <2>2, <3>1 DEF Gone
    <3>3. t = Other(s) /\ peer[t].closing
      BY <3>1, <3>2, Sides DEF Gone
    <3> QED
      BY <2>5, <3>3
  <2> QED
    BY <2>1, <2>3, <2>4, <2>5
<1> QED
  BY <1>1, Invariance, PTL
----------------------------------------------------------------------------
(* The streams.  In every state what a side has sent is, in order: what is  *)
(* gone with the head, what has been shown or passed on, and what is still in *)
(* the buffer.                                                             *)

\* q is the frames a + 1 to b, perhaps with a Close at the end.
Run(q, a, b) == q = Numbers(a, b) \/ q = Append(Numbers(a, b), Close)

\* The last frame of s that has left in[s].
Rest(s) == peer[s].sent - Len(Data(in[s]))

\* What is in in[s] are the last frames s has sent.
Wire(s) ==
  /\ peer[s].sent \in Nat /\ Rest(s) \in LostFrom(s)..peer[s].sent
  /\ Run(in[s], Rest(s), peer[s].sent)

\* s will send no more, and all it has sent has been read.
Silent(s) == in[s] = <<>> /\ (peer[s].open => peer[s].closing)

\* q is all of s that has left in[s], but for what went with the head.
UpTo(q, s) == \/ q = Numbers(LostFrom(s), Rest(s))
              \/ Silent(s) /\ q = Append(Numbers(LostFrom(s), Rest(s)), Close)

PassedOn(s) == peer[Other(s)].got \o out[Other(s)]
Closed(q) == \E i \in DOMAIN q : q[i] = Close

\* Without a handler: what has been passed on and what is in the hand.
Copied(s) ==
  kind \notin Hooked =>
    /\ IF peer[Other(s)].open THEN UpTo(PassedOn(s) \o hand[s], s)
       ELSE \E k \in LostFrom(s)..Rest(s) : Run(PassedOn(s), LostFrom(s), k)
    /\ kind = "websocket" /\ s \notin half => ~Closed(PassedOn(s))

\* With a handler: what it has been shown and what it will be shown next.
ShownUpTo(s) ==
  kind \in Hooked /\ ~Panicked =>
    UpTo(Shown(s) \o (IF pc = "hook" THEN hand[s] ELSE <<>>), s)

\* What it kept, and what has been passed on of it.
Informing(s) ==
  pc = "over" /\ ~Closed(Kept(s)) /\ PassedOn(s) = Append(Kept(s), Close)
PassedAsKept(s) ==
  kind \in Hooked =>
    /\ \A i \in DOMAIN Kept(s) : Kept(s)[i] = Close => i = Len(Kept(s))
    /\ pc \in {"select", "hook"} => ~Closed(Kept(s))
    /\ pc = "send" /\ Closed(Kept(s)) => \A t \in Side : hand[t] \in {<<>>, <<Close>>}
    /\ \/ Informing(s)
       \/ IF peer[Other(s)].open
            THEN PassedOn(s) \o (IF pc = "send" THEN hand[s] ELSE <<>>) = Kept(s)
            ELSE \E k \in 0..Len(Kept(s)) : PassedOn(s) = SubSeq(Kept(s), 1, k)

\* Before the relay nothing has been passed on and nothing is lost.
Early == pc \in {"dial", "head", "refused"} =>
           lost = 0 /\ \A s \in Side : peer[s].got = <<>> /\ out[s] = <<>> /\ Rest(s) = 0

Flow == /\ Early
        /\ \A s \in Side : Wire(s) /\ Copied(s) /\ ShownUpTo(s) /\ PassedAsKept(s)
----------------------------------------------------------------------------
\* Sequences of numbers that agree everywhere are equal.
LEMMA EqualSeqs ==
  ASSUME NEW p \in Seq(Nat), NEW q \in Seq(Nat), Len(p) = Len(q),
         \A i \in 1..Len(p) : p[i] = q[i]
  PROVE  p = q
  BY SeqEqual

\* One element more at the end of the first part is one less at the start of the second.
LEMMA Joining ==
  ASSUME NEW p \in Seq(Nat), NEW q \in Seq(Nat), NEW e \in Nat
  PROVE  /\ p \o q \in Seq(Nat) /\ Append(p, e) \in Seq(Nat)
         /\ Append(p \o q, e) = p \o Append(q, e)
         /\ p \o <<>> = p /\ <<>> \o p = p /\ p \o <<e>> = Append(p, e)
         /\ q # <<>> => /\ Head(q) \in Nat /\ Tail(q) \in Seq(Nat)
                        /\ Append(p, Head(q)) \o Tail(q) = p \o q
                        /\ p \o q # <<>>
<1>1. p \o q \in Seq(Nat) /\ Append(p, e) \in Seq(Nat)
  OBVIOUS
<1>2. p \o <<>> = p /\ <<>> \o p = p
  BY ConcatEmptySeq
<1>3. p \o <<e>> = Append(p, e)
  BY AppendIsConcat
<1>4. Append(p \o q, e) = p \o Append(q, e)
  <2>1. Append(p \o q, e) = (p \o q) \o <<e>> /\ Append(q, e) = q \o <<e>>
    BY <1>1, AppendIsConcat
  <2>2. <<e>> \in Seq(Nat)
    OBVIOUS
  <2> QED
    BY <2>1, <2>2, ConcatAssociative
<1>5. ASSUME q # <<>>
      PROVE  /\ Head(q) \in Nat /\ Tail(q) \in Seq(Nat)
             /\ Append(p, Head(q)) \o Tail(q) = p \o q
             /\ p \o q # <<>>
  <2>1. Head(q) \in Nat /\ Tail(q) \in Seq(Nat)
    BY <1>5, HeadTailProperties
  <2>2. q = <<Head(q)>> \o Tail(q)
    <3>1. Len(q) \in Nat \ {0} /\ Head(q) = q[1]
      BY <1>5, EmptySeq
    <3>2. SubSeq(q, 1, Len(q)) = <<q[1]>> \o SubSeq(q, 1 + 1, Len(q))
      BY <3>1, SubSeqRecursiveFirst
    <3> QED
      BY <1>5, <3>1, <3>2, SubSeqFull, TailIsSubSeq
  <2>3. Append(p, Head(q)) = p \o <<Head(q)>> /\ <<Head(q)>> \in Seq(Nat)
    BY <2>1, AppendIsConcat
  <2>4. (p \o <<Head(q)>>) \o Tail(q) = p \o (<<Head(q)>> \o Tail(q))
    BY <2>1, <2>3, ConcatAssociative
  <2>5. p \o q # <<>>
    BY <1>5, ConcatEqualIffEmpty
  <2> QED
    BY <2>1, <2>2, <2>3, <2>4, <2>5
<1> QED
  BY <1>1, <1>2, <1>3, <1>4, <1>5

\* The first element of the second part goes to the end of the first.
LEMMA HeadMoves ==
  ASSUME NEW p \in Seq(Nat), NEW q \in Seq(Nat), q # <<>>
  PROVE  Append(p, Head(q)) \o Tail(q) = p \o q
<1>1. 0 \in Nat
  OBVIOUS
<1> QED
  BY <1>1, Joining

----------------------------------------------------------------------------
\* The frames a + 1 to b: how many, which, and none is a Close.
LEMMA NumbersAre ==
  ASSUME NEW a \in Nat, NEW b \in Nat, a <= b
  PROVE  /\ Numbers(a, b) \in Seq(Nat) /\ Len(Numbers(a, b)) = b - a
         /\ \A i \in 1..(b - a) : Numbers(a, b)[i] = i + a
         /\ ~Closed(Numbers(a, b)) /\ (Numbers(a, b) = <<>> <=> a = b)
<1>1. b - a \in Nat /\ \A i \in 1..(b - a) : i + a \in Nat /\ i + a # Close
  BY DEF Close
<1>2. Numbers(a, b) \in [1..(b - a) -> Nat]
  BY <1>1 DEF Numbers
<1>3. Numbers(a, b) \in Seq(Nat) /\ Len(Numbers(a, b)) = b - a
  BY <1>1, <1>2
<1>4. \A i \in 1..(b - a) : Numbers(a, b)[i] = i + a
  BY DEF Numbers
<1>5. ~Closed(Numbers(a, b))
  BY <1>1, <1>2, <1>4 DEF Closed
<1>6. Numbers(a, b) = <<>> <=> a = b
  BY <1>1, <1>3, EmptySeq
<1> QED
  BY <1>3, <1>4, <1>5, <1>6

\* One frame more.
LEMMA NumbersMore ==
  ASSUME NEW a \in Nat, NEW b \in Nat, a <= b
  PROVE  Append(Numbers(a, b), b + 1) = Numbers(a, b + 1)
<1>1. /\ Numbers(a, b) \in Seq(Nat) /\ Len(Numbers(a, b)) = b - a
      /\ \A i \in 1..(b - a) : Numbers(a, b)[i] = i + a
  BY NumbersAre
<1>2. /\ Numbers(a, b + 1) \in Seq(Nat) /\ Len(Numbers(a, b + 1)) = b - a + 1
      /\ \A i \in 1..(b - a + 1) : Numbers(a, b + 1)[i] = i + a
  <2>1. b + 1 \in Nat /\ a <= b + 1 /\ b + 1 - a = b - a + 1
    OBVIOUS
  <2> QED
    BY <2>1, NumbersAre
<1> DEFINE q == Append(Numbers(a, b), b + 1)
<1>3. /\ q \in Seq(Nat) /\ Len(q) = b - a + 1
      /\ \A i \in 1..(b - a) : q[i] = i + a /\ q[b - a + 1] = b + 1
  BY <1>1, AppendProperties
<1>4. \A i \in 1..Len(q) : q[i] = Numbers(a, b + 1)[i]
  <2>1. q[b - a + 1] = b + 1
    BY <1>1, AppendProperties
  <2> HIDE DEF q
  <2> TAKE i \in 1..Len(q)
  <2>2. CASE i \in 1..(b - a)
    BY <1>2, <1>3, <2>2
  <2>3. CASE i = b - a + 1
    BY <1>2, <1>3, <2>1, <2>3
  <2> QED
    BY <1>3, <2>2, <2>3
<1> HIDE DEF q
<1>5. q = Numbers(a, b + 1)
  BY <1>2, <1>3, <1>4, EqualSeqs
<1> QED
  BY <1>5 DEF q

\* One frame less.
LEMMA NumbersHead ==
  ASSUME NEW a \in Nat, NEW b \in Nat, a < b
  PROVE  Head(Numbers(a, b)) = a + 1 /\ Tail(Numbers(a, b)) = Numbers(a + 1, b)
<1>1. /\ Numbers(a, b) \in Seq(Nat) /\ Len(Numbers(a, b)) = b - a
      /\ \A i \in 1..(b - a) : Numbers(a, b)[i] = i + a /\ Numbers(a, b) # <<>>
  BY NumbersAre
<1>2. /\ Numbers(a + 1, b) \in Seq(Nat) /\ Len(Numbers(a + 1, b)) = b - (a + 1)
      /\ \A i \in 1..(b - (a + 1)) : Numbers(a + 1, b)[i] = i + (a + 1)
  <2>1. a + 1 \in Nat /\ a + 1 <= b
    OBVIOUS
  <2> QED
    BY <2>1, NumbersAre
<1>3. 1 \in 1..(b - a) /\ Numbers(a, b)[1] = a + 1 /\ Numbers(a, b) # <<>>
  BY <1>1
<1> DEFINE q == Tail(Numbers(a, b))
<1>4. /\ q \in Seq(Nat) /\ Len(q) = b - a - 1
      /\ \A i \in 1..Len(q) : q[i] = Numbers(a, b)[i + 1]
      /\ Head(Numbers(a, b)) = Numbers(a, b)[1]
  BY <1>1, <1>3, HeadTailProperties
<1>5. \A i \in 1..Len(q) : q[i] = Numbers(a + 1, b)[i]
  <2> HIDE DEF q
  <2> TAKE i \in 1..Len(q)
  <2>1. i + 1 \in 1..(b - a) /\ i \in 1..(b - (a + 1))
    BY <1>4
  <2>2. q[i] = (i + 1) + a /\ Numbers(a + 1, b)[i] = i + (a + 1)
    BY <1>1, <1>2, <1>4, <2>1
  <2> QED
    BY <2>2
<1> HIDE DEF q
<1>6. q = Numbers(a + 1, b)
  BY <1>2, <1>4, <1>5, EqualSeqs
<1> QED
  BY <1>3, <1>4, <1>6 DEF q

\* Frames taken up where the last ended.
LEMMA NumbersJoin ==
  ASSUME NEW a \in Nat, NEW b \in Nat, NEW c \in Nat, a <= b, b <= c
  PROVE  Numbers(a, b) \o Numbers(b, c) = Numbers(a, c)
<1>1. /\ Numbers(a, b) \in Seq(Nat) /\ Len(Numbers(a, b)) = b - a
      /\ \A i \in 1..(b - a) : Numbers(a, b)[i] = i + a
  BY NumbersAre
<1>2. /\ Numbers(b, c) \in Seq(Nat) /\ Len(Numbers(b, c)) = c - b
      /\ \A i \in 1..(c - b) : Numbers(b, c)[i] = i + b
  BY NumbersAre
<1>3. /\ Numbers(a, c) \in Seq(Nat) /\ Len(Numbers(a, c)) = c - a
      /\ \A i \in 1..(c - a) : Numbers(a, c)[i] = i + a
  BY NumbersAre
<1> DEFINE q == Numbers(a, b) \o Numbers(b, c)
<1>4. /\ q \in Seq(Nat) /\ Len(q) = (b - a) + (c - b)
      /\ \A i \in 1..((b - a) + (c - b)) :
           q[i] = IF i <= b - a THEN Numbers(a, b)[i] ELSE Numbers(b, c)[i - (b - a)]
  <2> DEFINE l == Numbers(a, b)
             r == Numbers(b, c)
  <2>1. l \in Seq(Nat) /\ r \in Seq(Nat) /\ Len(l) = b - a /\ Len(r) = c - b
    BY <1>1, <1>2
  <2> HIDE DEF l, r
  <2>2. /\ l \o r \in Seq(Nat) /\ Len(l \o r) = Len(l) + Len(r)
        /\ \A i \in 1..(Len(l) + Len(r)) :
             (l \o r)[i] = IF i <= Len(l) THEN l[i] ELSE r[i - Len(l)]
    BY <2>1, ConcatProperties
  <2> QED
    BY <2>1, <2>2 DEF l, r
<1> HIDE DEF q
<1>5. \A i \in 1..Len(q) : q[i] = Numbers(a, c)[i]
  <2> TAKE i \in 1..Len(q)
  <2>1. CASE i <= b - a
    BY <1>1, <1>3, <1>4, <2>1
  <2>2. CASE ~(i <= b - a)
    <3>1. i - (b - a) \in 1..(c - b) /\ i \in 1..(c - a)
      BY <1>4, <2>2
    <3> QED
      BY <1>2, <1>3, <1>4, <2>2, <3>1
  <2> QED
    BY <2>1, <2>2
<1>6. Len(q) = Len(Numbers(a, c))
  BY <1>3, <1>4
<1>7. q = Numbers(a, c)
  BY <1>3, <1>4, <1>5, <1>6, EqualSeqs
<1> QED
  BY <1>7 DEF q

\* A Close is dropped from the end, and only from there.
LEMMA DataIs ==
  ASSUME NEW q \in Seq(Nat)
  PROVE  /\ Data(Append(q, Close)) = q /\ Closed(Append(q, Close))
         /\ ~Closed(q) => Data(q) = q
         /\ Data(q) \in Seq(Nat)
<1>1. Close \in Nat
  BY DEF Close
<1> DEFINE r == Append(q, Close)
<1>2. /\ r \in Seq(Nat) /\ r # <<>> /\ Len(r) = Len(q) + 1
      /\ \A i \in 1..Len(q) : r[i] = q[i]
  BY <1>1, AppendProperties
<1>3. r[Len(q) + 1] = Close
  BY <1>1, AppendProperties
<1>4. Data(r) = SubSeq(r, 1, Len(q))
  BY <1>2, <1>3 DEF Data
<1>5. SubSeq(r, 1, Len(q)) = q
  <2>1. /\ SubSeq(r, 1, Len(q)) \in Seq(Nat) /\ Len(SubSeq(r, 1, Len(q))) = Len(q)
        /\ \A i \in 1..Len(q) : SubSeq(r, 1, Len(q))[i] = r[i]
    BY <1>2
  <2> HIDE DEF r
  <2> QED
    BY <1>2, <2>1, EqualSeqs
<1>6. Closed(r)
  <2>1. Len(q) + 1 \in DOMAIN r
    BY <1>2
  <2> QED
    BY <1>3, <2>1 DEF Closed
<1>7. ~Closed(q) => Data(q) = q
  BY EmptySeq DEF Closed, Data
<1>8. Data(q) \in Seq(Nat)
  BY EmptySeq DEF Data
<1> QED
  BY <1>4, <1>5, <1>6, <1>7, <1>8
----------------------------------------------------------------------------
Solves(f, q, S) == f = [i \in 0..Len(q) |->
         IF i = 0 THEN <<>>
        ELSE IF q[i] \in S THEN Append(f[i - 1], q[i].frame) ELSE f[i - 1]]
\* FramesIn is the last value of the function it is defined by.
LEMMA FramesInDef ==
  ASSUME NEW q \in Seq(Calls), NEW S
  PROVE \E f \in [0..Len(q) -> Seq(Frame)] : Solves(f, q, S) /\ FramesIn(q, S) = f[Len(q)]
<1> DEFINE n == Len(q)
<1> DEFINE Step(i, x) == IF q[i] \in S THEN Append(x, q[i].frame) ELSE x
<1> DEFINE step == [i \in 1..n |-> [x \in Seq(Frame) |-> Step(i, x)]]
<1>0. n \in Nat
  OBVIOUS
<1>1. step \in [1..n -> [Seq(Frame) -> Seq(Frame)]]
  <2>1. \A i \in 1..n : \A x \in Seq(Frame) : Step(i, x) \in Seq(Frame)
    <3> TAKE i \in 1..n
    <3> TAKE x \in Seq(Frame)
    <3>1. q[i].frame \in Frame
      <4>1. q[i] \in Calls
        OBVIOUS
      <4> QED
        BY <4>1 DEF Calls
    <3>2. Append(x, q[i].frame) \in Seq(Frame)
      BY <3>1
    <3> QED
      BY <3>2
  <2> HIDE DEF Step
  <2> QED
    BY <2>1
<1>2. PICK f \in [0..n -> Seq(Frame)] : f[0] = <<>> /\ \A i \in 1..n : f[i] = step[i][f[i - 1]]
  <2>1. <<>> \in Seq(Frame)
    OBVIOUS
  <2> DEFINE T == Seq(Frame)
  <2>2. <<>> \in T /\ step \in [1..n -> [T -> T]]
    BY <1>1, <2>1
  <2> HIDE DEF step, n, T
  <2>3. \E f \in [0..n -> T] : f[0] = <<>> /\ \A i \in 1..n : f[i] = step[i][f[i - 1]]
    BY <1>0, <2>2, RecursionUpTo
  <2> QED
    BY <2>3 DEF T
<1>3. Solves(f, q, S)
  <2>1. \A i \in 1..n : f[i] = Step(i, f[i - 1])
    <3>1. \A i \in 1..n : f[i - 1] \in Seq(Frame)
      BY <1>0, <1>2
    <3> HIDE DEF Step
    <3> QED
      BY <1>2, <3>1
  <2>2. \A i \in 0..n : f[i] = IF i = 0 THEN <<>> ELSE Step(i, f[i - 1])
    <3> HIDE DEF Step
    <3> QED
      BY <1>0, <1>2, <2>1
  <2> QED
    BY <1>2, <2>2, Zenon DEF Solves
<1>4. \E g : Solves(g, q, S)
  BY <1>3
<1> DEFINE c == CHOOSE g : Solves(g, q, S)
<1>5. Solves(c, q, S)
  <2> HIDE DEF Solves
  <2> QED
    BY <1>4
<1>6. FramesIn(q, S) = c[n]
  BY DEF FramesIn, Solves
<1>7. c = f
  BY <1>3, <1>5
<1> QED
  BY <1>3, <1>6, <1>7

\* That function, call by call.
LEMMA SolvesSteps ==
  ASSUME NEW q \in Seq(Calls), NEW S, NEW f, Solves(f, q, S)
  PROVE  /\ f[0] = <<>>
         /\ \A i \in 1..Len(q) :
              f[i] = IF q[i] \in S THEN Append(f[i - 1], q[i].frame) ELSE f[i - 1]
<1>1. 0 \in 0..Len(q) /\ \A i \in 1..Len(q) : i \in 0..Len(q) /\ i # 0
  OBVIOUS
<1>2. ASSUME NEW i \in 0..Len(q)
      PROVE  f[i] = IF i = 0 THEN <<>>
                    ELSE IF q[i] \in S THEN Append(f[i - 1], q[i].frame) ELSE f[i - 1]
  <2> DEFINE g == [j \in 0..Len(q) |->
                     IF j = 0 THEN <<>>
                     ELSE IF q[j] \in S THEN Append(f[j - 1], q[j].frame) ELSE f[j - 1]]
  <2>1. f = g
    BY Zenon DEF Solves
  <2>2. g[i] = IF i = 0 THEN <<>>
               ELSE IF q[i] \in S THEN Append(f[i - 1], q[i].frame) ELSE f[i - 1]
    BY Zenon
  <2> HIDE DEF g
  <2> QED
    BY <2>1, <2>2, Zenon
<1> QED
  BY <1>1, <1>2

\* Frames are numbers.
LEMMA FramesAreNumbers == Frame \subseteq Nat /\ \A q \in Seq(Frame) : q \in Seq(Nat)
<1>1. Frame \subseteq Nat
  BY RelayAssumption DEF Frame, Close
<1> QED
  BY <1>1, SeqMonotonic

\* What FramesIn gives for one call more.
LEMMA FramesInAppend ==
  ASSUME NEW q \in Seq(Calls), NEW S, NEW e \in Calls
  PROVE  /\ FramesIn(q, S) \in Seq(Nat)
         /\ FramesIn(<<>>, S) = <<>>
         /\ FramesIn(Append(q, e), S) =
              IF e \in S THEN Append(FramesIn(q, S), e.frame) ELSE FramesIn(q, S)
<1> DEFINE r == Append(q, e)
           n == Len(q)
<1>1. /\ r \in Seq(Calls) /\ n \in Nat /\ Len(r) = n + 1 /\ r[n + 1] = e
      /\ \A i \in 1..n : r[i] = q[i]
  BY AppendProperties
<1>2. PICK f \in [0..n -> Seq(Frame)] : Solves(f, q, S) /\ FramesIn(q, S) = f[n]
  BY FramesInDef
<1>3. PICK g \in [0..Len(r) -> Seq(Frame)] : Solves(g, r, S) /\ FramesIn(r, S) = g[Len(r)]
  <2> HIDE DEF r
  <2> QED
    BY <1>1, FramesInDef
<1>4. /\ \A i \in 1..n : f[i] = IF q[i] \in S THEN Append(f[i - 1], q[i].frame) ELSE f[i - 1]
      /\ f[0] = <<>>
  BY <1>1, <1>2, SolvesSteps
<1>5. /\ \A i \in 1..(n + 1) :
           g[i] = IF r[i] \in S THEN Append(g[i - 1], r[i].frame) ELSE g[i - 1]
      /\ g[0] = <<>>
  <2> HIDE DEF r, n
  <2>1. r \in Seq(Calls) /\ Solves(g, r, S)
    BY <1>1, <1>3
  <2>2. \A u \in Seq(Calls) : \A v :
          Solves(v, u, S) =>
            /\ v[0] = <<>>
            /\ \A i \in 1..Len(u) :
                 v[i] = IF u[i] \in S THEN Append(v[i - 1], u[i].frame) ELSE v[i - 1]
    BY SolvesSteps
  <2>3. /\ g[0] = <<>>
        /\ \A i \in 1..Len(r) :
             g[i] = IF r[i] \in S THEN Append(g[i - 1], r[i].frame) ELSE g[i - 1]
    BY <2>1, <2>2, Zenon
  <2> QED
    BY <1>1, <2>3
<1> DEFINE T == {i \in 0..n : g[i] = f[i]}
<1>6. 0 \in T
  BY <1>1, <1>4, <1>5
<1>7. \A i \in 0..(n - 1) : i \in T => i + 1 \in T
  <2> HIDE DEF r, n
  <2> TAKE i \in 0..(n - 1)
  <2> HAVE i \in T
  <2>1. i + 1 \in 1..n /\ i + 1 \in 1..(n + 1) /\ (i + 1) - 1 = i /\ i + 1 \in 0..n
    BY <1>1
  <2>2. r[i + 1] = q[i + 1] /\ g[i] = f[i]
    BY <1>1, <2>1
  <2>3. g[i + 1] = f[i + 1]
    BY <1>4, <1>5, <2>1, <2>2
  <2> QED
    BY <2>1, <2>3
<1>8. g[n] = f[n]
  <2>1. \A i \in 0..n : i \in T
    <3> HIDE DEF T, r, n
    <3> QED
      BY <1>1, <1>6, <1>7, InductionUpTo
  <2> QED
    BY <1>1, <2>1
<1>9. g[n + 1] = IF e \in S THEN Append(f[n], e.frame) ELSE f[n]
  <2> HIDE DEF r, n
  <2>1. n + 1 \in 1..(n + 1) /\ (n + 1) - 1 = n
    BY <1>1
  <2> QED
    BY <1>1, <1>5, <1>8, <2>1
<1>10. FramesIn(q, S) \in Seq(Nat)
  <2>1. f[n] \in Seq(Frame)
    BY <1>1, <1>2
  <2>2. \A x \in Seq(Frame) : x \in Seq(Nat)
    BY FramesAreNumbers
  <2> QED
    BY <1>2, <2>1, <2>2
<1>11. FramesIn(<<>>, S) = <<>>
  <2> SUFFICES ASSUME NEW p \in Seq(Calls), Len(p) = 0 PROVE FramesIn(p, S) = <<>>
    OBVIOUS
  <2>1. PICK h \in [0..Len(p) -> Seq(Frame)] : Solves(h, p, S) /\ FramesIn(p, S) = h[Len(p)]
    BY FramesInDef
  <2>2. h[0] = <<>>
    <3> HIDE DEF T
    <3>1. Solves(h, p, S)
      BY <2>1
    <3> QED
      BY <3>1, SolvesSteps
  <2> QED
    BY <2>1, <2>2
<1> QED
  BY <1>1, <1>2, <1>3, <1>9, <1>10, <1>11

\* What the handler has been shown and has kept of t after one more call.
LEMMA OneMoreShown ==
  ASSUME calls \in Seq(Calls), NEW t \in Side
  PROVE  /\ Shown(t) \in Seq(Nat) /\ Kept(t) \in Seq(Nat)
         /\ calls = <<>> => Shown(t) = <<>> /\ Kept(t) = <<>>
         /\ calls' = calls => Shown(t)' = Shown(t) /\ Kept(t)' = Kept(t)
         /\ \A e \in {OnClose, Panic} : calls' = Append(calls, e) =>
              Shown(t)' = Shown(t) /\ Kept(t)' = Kept(t)
         /\ \A s \in Side, f \in Frame, k \in BOOLEAN :
              calls' = Append(calls, OnFrame(s, f, k)) =>
                /\ Shown(t)' = IF t = s THEN Append(Shown(t), f) ELSE Shown(t)
                /\ Kept(t)' = IF t = s /\ k THEN Append(Kept(t), f) ELSE Kept(t)
<1>1. OnClose \in Calls /\ Panic \in Calls
  BY RelayAssumption DEF OnClose, Panic, Calls, Frame, Close
<1>2. \A S : /\ FramesIn(calls, S) \in Seq(Nat)
             /\ calls = <<>> => FramesIn(calls, S) = <<>>
  BY <1>1, FramesInAppend
<1>3. ASSUME NEW e \in {OnClose, Panic} PROVE e \in Calls /\ \A V : e \notin ToldOf(t, V)
  <2>1. e.call # "on_frame"
    BY DEF OnClose, Panic
  <2>2. \A V : \A x \in ToldOf(t, V) : x.call = "on_frame"
    BY DEF ToldOf
  <2> QED
    BY <1>1, <2>1, <2>2
<1>4. ASSUME NEW s \in Side, NEW f \in Frame, NEW k \in BOOLEAN
      PROVE  LET e == OnFrame(s, f, k) IN
             /\ e \in Calls /\ e.frame = f
             /\ e \in ToldOf(t, BOOLEAN) <=> t = s
             /\ e \in ToldOf(t, {TRUE}) <=> t = s /\ k = TRUE
  BY DEF OnFrame, OnClose, Calls, ToldOf
<1>5. ASSUME NEW e \in {OnClose, Panic}, calls' = Append(calls, e)
      PROVE  Shown(t)' = Shown(t) /\ Kept(t)' = Kept(t)
  BY <1>3, <1>5, FramesInAppend DEF Shown, Kept
<1>6. ASSUME NEW s \in Side, NEW f \in Frame, NEW k \in BOOLEAN,
             calls' = Append(calls, OnFrame(s, f, k))
      PROVE  /\ Shown(t)' = IF t = s THEN Append(Shown(t), f) ELSE Shown(t)
             /\ Kept(t)' = IF t = s /\ k THEN Append(Kept(t), f) ELSE Kept(t)
  <2> DEFINE e == OnFrame(s, f, k)
  <2>1. e \in Calls /\ e.frame = f /\ calls' = Append(calls, e)
    BY <1>4, <1>6
  <2>2. e \in ToldOf(t, BOOLEAN) <=> t = s
    BY <1>4
  <2>3. e \in ToldOf(t, {TRUE}) <=> t = s /\ k = TRUE
    BY <1>4
  <2> HIDE DEF e
  <2>4. \A S : FramesIn(calls', S) =
                 IF e \in S THEN Append(FramesIn(calls, S), f) ELSE FramesIn(calls, S)
    BY <2>1, FramesInAppend
  <2> QED
    BY <2>2, <2>3, <2>4 DEF Shown, Kept
<1>7. calls' = calls => Shown(t)' = Shown(t) /\ Kept(t)' = Kept(t)
  BY DEF Shown, Kept
<1>8. /\ Shown(t) \in Seq(Nat) /\ Kept(t) \in Seq(Nat)
      /\ calls = <<>> => Shown(t) = <<>> /\ Kept(t) = <<>>
  BY <1>2 DEF Shown, Kept
<1> QED
  BY <1>5, <1>6, <1>7, <1>8
----------------------------------------------------------------------------
\* A Close comes in only with what is appended.
LEMMA ClosedIs ==
  ASSUME NEW q \in Seq(Nat), NEW e \in Nat
  PROVE  Closed(Append(q, e)) <=> Closed(q) \/ e = Close
<1>1. /\ Append(q, e) \in Seq(Nat) /\ Len(Append(q, e)) = Len(q) + 1
      /\ \A i \in 1..Len(q) : Append(q, e)[i] = q[i]
      /\ Append(q, e)[Len(q) + 1] = e
  BY AppendProperties
<1> QED
  BY <1>1 DEF Closed

\* p is the start of what is to arrive: n, and a Close after it.
Starts(p, n) == p = Append(n, Close) \/ \E k \in 0..Len(n) : p = SubSeq(n, 1, k)

\* The start of a stream without a Close has none.
LEMMA StartOf ==
  ASSUME NEW n \in Seq(Nat), ~Closed(n), NEW k \in 0..Len(n)
  PROVE  /\ SubSeq(n, 1, k) \in Seq(Nat) /\ Len(SubSeq(n, 1, k)) = k
         /\ ~Closed(SubSeq(n, 1, k)) /\ Data(SubSeq(n, 1, k)) = SubSeq(n, 1, k)
<1>1. /\ SubSeq(n, 1, k) \in Seq(Nat) /\ Len(SubSeq(n, 1, k)) = k
      /\ \A i \in 1..k : SubSeq(n, 1, k)[i] = n[i]
  BY SubSeqProperties
<1>2. ~Closed(SubSeq(n, 1, k))
  BY <1>1 DEF Closed
<1> QED
  BY <1>1, <1>2, DataIs

\* Dropping the Close leaves a start of the stream.
LEMMA BeginsIs ==
  ASSUME NEW n \in Seq(Nat), ~Closed(n), NEW p, Starts(p, n)
  PROVE  Len(Data(p)) <= Len(n) /\ Data(p) = SubSeq(n, 1, Len(Data(p)))
<1>1. CASE p = Append(n, Close)
  BY <1>1, DataIs, SubSeqFull
<1>2. CASE \E k \in 0..Len(n) : p = SubSeq(n, 1, k)
  <2>1. PICK k \in 0..Len(n) : p = SubSeq(n, 1, k)
    BY <1>2
  <2> QED
    BY <2>1, StartOf
<1> QED
  BY <1>1, <1>2 DEF Starts

\* What is in a hand.
LEMMA OnlyOne ==
  ASSUME NEW h \in Seq(Nat), Len(h) <= 1, h # <<>>
  PROVE  \E x \in Nat : h = <<x>>
<1>1. Len(h) \in Nat \ {0}
  BY EmptySeq
<1>2. Len(h) = 1 /\ h[1] \in Nat
  <2>1. Len(h) = 1
    <3>1. \A m \in Nat \ {0} : m <= 1 => m = 1
      OBVIOUS
    <3> QED
      BY <1>1, <3>1
  <2>2. 1 \in 1..Len(h)
    BY <2>1
  <2> QED
    BY <2>1, <2>2, ElementOfSeq
<1>3. h = <<h[1]>>
  BY <1>2
<1> QED
  BY <1>2, <1>3

\* Of a stream one frame is in the hand: what has arrived and the hand make it up.
LEMMA SplitStream ==
  ASSUME NEW n \in Seq(Nat), ~Closed(n), NEW p \in Seq(Nat), NEW h \in Seq(Nat),
         Len(h) <= 1, p \o h \in {n, Append(n, Close)}
  PROVE  Starts(p, n) /\ Data(p) \o Data(h) = n
<1>1. Close \in Nat
  BY DEF Close
<1>2. CASE h = <<>>
  <2>1. p \in {n, Append(n, Close)}
    BY <1>2, ConcatEmptySeq
  <2>2. Starts(p, n)
    BY <2>1, SubSeqFull DEF Starts
  <2>3. Data(h) = <<>> /\ Data(p) = n
    BY <1>2, <2>1, DataIs DEF Data
  <2> QED
    BY <2>2, <2>3, ConcatEmptySeq
<1>3. CASE h # <<>>
  <2>1. PICK x \in Nat : h = <<x>>
    BY <1>3, OnlyOne
  <2>2. p \o h = Append(p, x)
    BY <2>1, AppendIsConcat
  <2>3. CASE Append(p, x) = n
    <3>1. x # Close /\ ~Closed(p)
      BY <2>3, ClosedIs
    <3>2. p = SubSeq(n, 1, Len(n) - 1) /\ Len(n) - 1 \in 0..Len(n)
      <4>1. n \in Seq(Nat) /\ Len(n) = Len(p) + 1 /\ \A i \in 1..Len(p) : n[i] = p[i]
        BY <2>3, AppendProperties
      <4>2. /\ SubSeq(n, 1, Len(p)) \in Seq(Nat) /\ Len(SubSeq(n, 1, Len(p))) = Len(p)
            /\ \A i \in 1..Len(p) : SubSeq(n, 1, Len(p))[i] = n[i]
        BY <4>1
      <4>3. p = SubSeq(n, 1, Len(p))
        BY <4>1, <4>2, EqualSeqs
      <4> QED
        BY <4>1, <4>3
    <3>3. Data(p) = p
      BY <3>1, DataIs
    <3>4. Data(h) = h
      BY <2>1, <3>1 DEF Data
    <3> QED
      BY <2>2, <2>3, <3>2, <3>3, <3>4 DEF Starts
  <2>4. CASE Append(p, x) = Append(n, Close)
    <3>1. p = n /\ x = Close
      BY <1>1, <2>4, AppendInjective
    <3>2. Data(h) = <<>>
      <4>1. h = Append(<<>>, Close) /\ <<>> \in Seq(Nat)
        BY <2>1, <3>1
      <4> QED
        BY <4>1, DataIs
    <3> QED
      BY <3>1, <3>2, DataIs, SubSeqFull, ConcatEmptySeq DEF Starts
  <2> QED
    BY <2>2, <2>3, <2>4
<1> QED
  BY <1>2, <1>3

\* The first of two parts is the start of the whole.
LEMMA StartOfJoin ==
  ASSUME NEW p \in Seq(Nat), NEW h \in Seq(Nat)
  PROVE  p = SubSeq(p \o h, 1, Len(p))
<1>1. CASE p = <<>>
  BY <1>1, SubSeqEmpty, EmptySeq
<1>2. CASE p # <<>>
  <2>1. Len(p) \in Nat \ {0}
    BY <1>2, EmptySeq
  <2>2. 1 \in 1..Len(p) /\ Len(p) \in 1..Len(p)
    BY <2>1
  <2> QED
    BY <2>2, SubSeqOfConcat1, SubSeqFull
<1> QED
  BY <1>1, <1>2

\* The start does not see what is appended.
LEMMA StartOfAppend ==
  ASSUME NEW n \in Seq(Nat), NEW e \in Nat, NEW k \in 0..Len(n)
  PROVE  /\ SubSeq(Append(n, e), 1, k) = SubSeq(n, 1, k)
         /\ k \in 0..Len(Append(n, e))
<1>1. /\ Append(n, e) \in Seq(Nat) /\ Len(Append(n, e)) = Len(n) + 1
      /\ \A i \in 1..Len(n) : Append(n, e)[i] = n[i]
  BY AppendProperties
<1>2. /\ SubSeq(n, 1, k) \in Seq(Nat) /\ Len(SubSeq(n, 1, k)) = k
      /\ \A i \in 1..k : SubSeq(n, 1, k)[i] = n[i]
  BY SubSeqProperties
<1>3. /\ SubSeq(Append(n, e), 1, k) \in Seq(Nat) /\ Len(SubSeq(Append(n, e), 1, k)) = k
      /\ \A i \in 1..k : SubSeq(Append(n, e), 1, k)[i] = Append(n, e)[i]
  BY <1>1, SubSeqProperties
<1>4. k \in 0..Len(Append(n, e))
  BY <1>1
<1> QED
  BY <1>1, <1>2, <1>3, <1>4, EqualSeqs

\* The start of frames a + 1 to b is the frames a + 1 to some k.
LEMMA NumbersBegin ==
  ASSUME NEW a \in Nat, NEW b \in Nat, a <= b, NEW p, Starts(p, Numbers(a, b))
  PROVE  \E k \in a..b : Run(p, a, k)
<1>1. /\ Numbers(a, b) \in Seq(Nat) /\ Len(Numbers(a, b)) = b - a
      /\ \A i \in 1..(b - a) : Numbers(a, b)[i] = i + a
  BY NumbersAre
<1>2. ASSUME NEW k \in 0..(b - a), p = SubSeq(Numbers(a, b), 1, k)
      PROVE  p = Numbers(a, a + k) /\ a + k \in a..b
  <2>1. /\ p \in Seq(Nat) /\ Len(p) = k /\ \A i \in 1..k : p[i] = i + a
    BY <1>1, <1>2, SubSeqProperties
  <2>2. a + k \in Nat /\ a <= a + k /\ (a + k) - a = k
    OBVIOUS
  <2>3. /\ Numbers(a, a + k) \in Seq(Nat) /\ Len(Numbers(a, a + k)) = k
        /\ \A i \in 1..k : Numbers(a, a + k)[i] = i + a
    BY <2>2, NumbersAre
  <2> QED
    BY <2>1, <2>3, EqualSeqs
<1> QED
  BY <1>1, <1>2 DEF Starts, Run

\* Where a run began, from its end and its length.
LEMMA RunLength ==
  ASSUME NEW a \in Nat, NEW b \in Nat, a <= b, NEW q, Run(q, a, b)
  PROVE  b - Len(Data(q)) = a
<1>1. Numbers(a, b) \in Seq(Nat) /\ Len(Numbers(a, b)) = b - a /\ ~Closed(Numbers(a, b))
  BY NumbersAre
<1>2. Data(q) = Numbers(a, b)
  BY <1>1, DataIs DEF Run
<1>3. Len(Data(q)) = b - a
  BY <1>1, <1>2
<1> QED
  BY <1>3

\* Without its first m frames.
LEMMA RunFrom ==
  ASSUME NEW b \in Nat, NEW m \in 0..b, NEW q \in Seq(Nat), Run(q, 0, b)
  PROVE  Run(SubSeq(q, m + 1, Len(q)), m, b)
<1> DEFINE n == Numbers(0, b)
           r == SubSeq(q, m + 1, Len(q))
<1>0. m \in Nat /\ m <= b /\ 0 <= b /\ b - m \in Nat /\ b - 0 = b /\ \A i \in 1..b : i + 0 = i
  OBVIOUS
<1>1. n \in Seq(Nat) /\ Len(n) = b /\ \A i \in 1..b : n[i] = i
  <2>1. /\ n \in Seq(Nat) /\ Len(n) = b - 0 /\ \A i \in 1..(b - 0) : n[i] = i + 0
    BY <1>0, NumbersAre
  <2> HIDE DEF n
  <2> QED
    BY <1>0, <2>1
<1>2. /\ Numbers(m, b) \in Seq(Nat) /\ Len(Numbers(m, b)) = b - m
      /\ \A i \in 1..(b - m) : Numbers(m, b)[i] = i + m
  BY <1>0, NumbersAre
<1>3. CASE q = n
  <2>1. SubSeq(n, m + 1, b) = Numbers(m, b)
    <3> HIDE DEF n
    <3>1. /\ SubSeq(n, m + 1, b) \in Seq(Nat) /\ Len(SubSeq(n, m + 1, b)) = b - m
          /\ \A i \in 1..(b - m) : SubSeq(n, m + 1, b)[i] = n[m + i]
      BY <1>1, SubSeqProperties
    <3>2. \A i \in 1..(b - m) : n[m + i] = i + m
      BY <1>1
    <3>3. \A i \in 1..(b - m) : SubSeq(n, m + 1, b)[i] = Numbers(m, b)[i]
      BY <1>2, <3>1, <3>2
    <3> QED
      BY <1>2, <3>1, <3>3, EqualSeqs
  <2> QED
    BY <1>1, <1>3, <2>1 DEF Run
<1>4. CASE q = Append(n, Close)
  <2> DEFINE e == Append(Numbers(m, b), Close)
  <2>1. /\ Len(q) = b + 1 /\ \A i \in 1..b : q[i] = i
        /\ q[b + 1] = Close
    BY <1>1, <1>4, AppendProperties DEF Close
  <2>2. /\ e \in Seq(Nat) /\ Len(e) = b - m + 1 /\ \A i \in 1..(b - m) : e[i] = i + m
        /\ e[b - m + 1] = Close
    <3>1. /\ e \in Seq(Nat) /\ Len(e) = Len(Numbers(m, b)) + 1
          /\ \A i \in 1..Len(Numbers(m, b)) : e[i] = Numbers(m, b)[i]
          /\ e[Len(Numbers(m, b)) + 1] = Close
      BY <1>2, AppendProperties DEF Close
    <3> HIDE DEF e
    <3> QED
      BY <1>2, <3>1
  <2>3. /\ SubSeq(q, m + 1, b + 1) \in Seq(Nat) /\ Len(SubSeq(q, m + 1, b + 1)) = b - m + 1
        /\ \A i \in 1..(b - m + 1) : SubSeq(q, m + 1, b + 1)[i] = q[m + i]
    <3>1. /\ m + 1 \in Int /\ b + 1 \in Int /\ m + 1 <= b + 1
          /\ (b + 1) - (m + 1) + 1 = b - m + 1 /\ \A i \in Int : (m + 1) + i - 1 = m + i
      BY <1>0
    <3>2. \A i \in (m + 1)..(b + 1) : q[i] \in Nat
      BY <1>0, <2>1
    <3>3. /\ SubSeq(q, m + 1, b + 1) \in Seq(Nat)
          /\ Len(SubSeq(q, m + 1, b + 1)) = (b + 1) - (m + 1) + 1
          /\ \A i \in 1..((b + 1) - (m + 1) + 1) :
               SubSeq(q, m + 1, b + 1)[i] = q[(m + 1) + i - 1]
      BY <3>1, <3>2, SubSeqProperties
    <3> QED
      BY <3>1, <3>3
  <2>4. \A i \in 1..(b - m + 1) : q[m + i] = e[i]
    <3> HIDE DEF e
    <3> TAKE i \in 1..(b - m + 1)
    <3>1. CASE i \in 1..(b - m)
      BY <2>1, <2>2, <3>1
    <3>2. CASE i = b - m + 1
      <4>1. m + i = b + 1
        BY <3>2
      <4> QED
        BY <2>1, <2>2, <3>2, <4>1
    <3>3. i \in 1..(b - m) \/ i = b - m + 1
      BY <1>0
    <3> QED
      BY <3>1, <3>2, <3>3
  <2> HIDE DEF e
  <2>5. SubSeq(q, m + 1, b + 1) = e
    BY <2>2, <2>3, <2>4, EqualSeqs
  <2> QED
    BY <2>1, <2>5 DEF Run, e
<1> QED
  BY <1>3, <1>4 DEF Run

\* A stream with a Close only at its end.
LEMMA ClosedAtEnd ==
  ASSUME NEW K \in Seq(Nat), \A i \in DOMAIN K : K[i] = Close => i = Len(K)
  PROVE  Data(K) \in Seq(Nat) /\ ~Closed(Data(K)) /\ K \in {Data(K), Append(Data(K), Close)}
<1>1. CASE K = <<>>
  BY <1>1 DEF Data, Closed
<1>2. CASE K # <<>>
  <2>1. PICK n \in Seq(Nat), e \in Nat : K = Append(n, e)
    BY <1>2, SequenceEmptyOrAppend
  <2>2. /\ Len(K) = Len(n) + 1 /\ Len(n) \in Nat /\ K[Len(n) + 1] = e
        /\ DOMAIN K = 1..(Len(n) + 1) /\ DOMAIN n = 1..Len(n)
        /\ \A i \in 1..Len(n) : K[i] = n[i]
    BY <2>1, AppendProperties
  <2>3. ~Closed(n)
    BY <2>2 DEF Closed
  <2>4. CASE e = Close
    BY <2>1, <2>3, <2>4, DataIs
  <2>5. CASE e # Close
    <3>1. ~Closed(K)
      BY <2>1, <2>3, <2>5, ClosedIs
    <3> QED
      BY <3>1, DataIs
  <2> QED
    BY <2>4, <2>5
<1> QED
  BY <1>1, <1>2

\* A start of the stream, with or without its Close.
LEMMA BeginsToo ==
  ASSUME NEW n \in Seq(Nat), NEW K \in {n, Append(n, Close)}, NEW k \in 0..Len(K)
  PROVE  Starts(SubSeq(K, 1, k), n)
<1>1. CASE K = n
  BY <1>1 DEF Starts
<1>2. CASE K = Append(n, Close)
  <2>1. Close \in Nat /\ K \in Seq(Nat) /\ Len(K) = Len(n) + 1 /\ Len(n) \in Nat
    BY <1>2, AppendProperties DEF Close
  <2>2. CASE k = Len(K)
    BY <1>2, <2>1, <2>2, SubSeqFull DEF Starts
  <2>3. CASE k # Len(K)
    <3>1. k \in 0..Len(n)
      BY <2>1, <2>3
    <3> QED
      BY <1>2, <2>1, <3>1, StartOfAppend DEF Starts
  <2> QED
    BY <2>2, <2>3
<1> QED
  BY <1>1, <1>2

\* Fewer frames are a start of more.
LEMMA RunBegins ==
  ASSUME NEW a \in Nat, NEW b \in Nat, NEW k \in a..b, NEW p, Run(p, a, k)
  PROVE  /\ Len(Data(p)) <= Len(Numbers(a, b))
         /\ Data(p) = SubSeq(Numbers(a, b), 1, Len(Data(p)))
<1>1. Data(p) = Numbers(a, k)
  <2>1. k \in Nat /\ a <= k
    OBVIOUS
  <2> QED
    BY <2>1, NumbersAre, DataIs DEF Run
<1>2. ASSUME NEW q, q = Numbers(a, k)
      PROVE  Len(q) <= Len(Numbers(a, b)) /\ q = SubSeq(Numbers(a, b), 1, Len(q))
  <2>1. k \in Nat /\ a <= k /\ k <= b /\ a <= b /\ k - a \in 0..(b - a)
    OBVIOUS
  <2>2. /\ q \in Seq(Nat) /\ Len(q) = k - a /\ \A i \in 1..(k - a) : q[i] = i + a
    BY <1>2, <2>1, NumbersAre
  <2>3. /\ Numbers(a, b) \in Seq(Nat) /\ Len(Numbers(a, b)) = b - a
        /\ \A i \in 1..(b - a) : Numbers(a, b)[i] = i + a
    BY <2>1, NumbersAre
  <2>4. q = SubSeq(Numbers(a, b), 1, k - a)
    <3> DEFINE z == SubSeq(Numbers(a, b), 1, k - a)
    <3>1. /\ z \in Seq(Nat) /\ Len(z) = k - a
          /\ \A i \in 1..(k - a) : z[i] = Numbers(a, b)[i]
      BY <2>1, <2>3, SubSeqProperties
    <3>2. \A i \in 1..(k - a) : i \in 1..(b - a)
      BY <2>1
    <3> HIDE DEF z
    <3>3. \A i \in 1..(k - a) : z[i] = q[i]
      BY <2>2, <2>3, <3>1, <3>2
    <3>4. q = z
      BY <2>2, <3>1, <3>3, EqualSeqs
    <3> QED
      BY <3>4 DEF z
  <2> QED
    BY <2>1, <2>2, <2>3, <2>4
<1> QED
  BY <1>1, <1>2
----------------------------------------------------------------------------
FlowOf(s) == Wire(s) /\ Copied(s) /\ ShownUpTo(s) /\ PassedAsKept(s)

\* Every stream is a sequence of numbers.
LEMMA StreamTypes ==
  ASSUME IInv, NEW s \in Side
  PROVE  /\ in[s] \in Seq(Nat) /\ out[s] \in Seq(Nat) /\ peer[s].got \in Seq(Nat)
         /\ hand[s] \in Seq(Nat) /\ Len(hand[s]) <= 1
         /\ PassedOn(s) \in Seq(Nat) /\ Shown(s) \in Seq(Nat) /\ Kept(s) \in Seq(Nat)
         /\ peer[s].sent \in Nat /\ LostFrom(s) \in Nat /\ lost \in Nat
         /\ Len(Data(in[s])) \in Nat
<1>1. \A t \in Side : /\ in[t] \in Seq(Nat) /\ out[t] \in Seq(Nat)
                      /\ hand[t] \in Seq(Nat) /\ peer[t].got \in Seq(Nat)
  <2>1. \A t \in Side : /\ in[t] \in Seq(Frame) /\ out[t] \in Seq(Frame)
                        /\ hand[t] \in Seq(Frame) /\ peer[t].got \in Seq(Frame)
    BY DEF IInv, TypeOK
  <2> QED
    BY <2>1, FramesAreNumbers
<1>2. PassedOn(s) \in Seq(Nat)
  BY <1>1, Sides, ConcatProperties DEF PassedOn
<1>3. Shown(s) \in Seq(Nat) /\ Kept(s) \in Seq(Nat)
  BY OneMoreShown DEF IInv, Story
<1>4. peer[s].sent \in Nat /\ LostFrom(s) \in Nat /\ lost \in Nat
  BY FramesAreNumbers DEF IInv, TypeOK, LostFrom
<1>5. Len(hand[s]) <= 1
  BY DEF IInv, TypeOK
<1>6. Len(Data(in[s])) \in Nat
  BY <1>1, DataIs, LenProperties
<1> QED
  BY <1>1, <1>2, <1>3, <1>4, <1>5, <1>6

\* A step that moves nothing of s.
LEMMA Unmoved ==
  ASSUME NEW s \in Side, Copied(s), ShownUpTo(s), PassedAsKept(s), kind' = kind,
         LostFrom(s)' = LostFrom(s), Rest(s)' = Rest(s), Silent(s) => Silent(s)',
         PassedOn(s)' = PassedOn(s), hand'[s] = hand[s],
         peer'[Other(s)].open = peer[Other(s)].open,
         Shown(s)' = Shown(s), Kept(s)' = Kept(s), Panicked => Panicked',
         s \in half => s \in half', pc = "over" => pc' = "over",
         \/ pc' = pc \/ hand[s] = <<>> \/ {pc, pc'} \cap {"hook", "send"} = {},
         kind \in Hooked /\ pc' \in {"select", "hook"} => ~Closed(Kept(s)),
         kind \in Hooked /\ pc' = "send" /\ Closed(Kept(s)) =>
           \A t \in Side : hand'[t] \in {<<>>, <<Close>>}
  PROVE  Copied(s)' /\ ShownUpTo(s)' /\ PassedAsKept(s)'
<1>1. \A q : UpTo(q, s) => UpTo(q, s)'
  BY DEF UpTo
<1>2. Copied(s)'
  BY <1>1 DEF Copied
<1>3. ShownUpTo(s)'
  BY <1>1 DEF ShownUpTo
<1>4. PassedAsKept(s)'
  BY DEF PassedAsKept, Informing
<1> QED
  BY <1>2, <1>3, <1>4

\* A step that moves nothing into or out of the buffer of s.
LEMMA SameWire ==
  ASSUME NEW s \in Side, Wire(s), in'[s] = in[s], peer'[s].sent = peer[s].sent,
         LostFrom(s)' = LostFrom(s)
  PROVE  Wire(s)' /\ Rest(s)' = Rest(s)
<1>1. Rest(s)' = Rest(s)
  BY DEF Rest
<1> QED
  BY <1>1 DEF Wire

\* A step of a peer: the relay stays where it is.
LEMMA Elsewhere ==
  ASSUME NEW s \in Side, Copied(s), ShownUpTo(s), PassedAsKept(s),
         UNCHANGED <<kind, pc, hand, half, calls>>,
         LostFrom(s)' = LostFrom(s), Rest(s)' = Rest(s), Silent(s) => Silent(s)',
         PassedOn(s)' = PassedOn(s), peer'[Other(s)].open = peer[Other(s)].open
  PROVE  Copied(s)' /\ ShownUpTo(s)' /\ PassedAsKept(s)'
<1>1. Shown(s)' = Shown(s) /\ Kept(s)' = Kept(s) /\ Panicked' = Panicked
  BY DEF Shown, Kept, Panicked
<1>2. /\ kind \in Hooked /\ pc' \in {"select", "hook"} => ~Closed(Kept(s))
      /\ kind \in Hooked /\ pc' = "send" /\ Closed(Kept(s)) =>
           \A t \in Side : hand'[t] \in {<<>>, <<Close>>}
  BY DEF PassedAsKept
<1> QED
  BY <1>1, <1>2, Unmoved
----------------------------------------------------------------------------
\* A side appends a frame, or a Close, to what it has sent.
LEMMA Written ==
  ASSUME IInv, NEW s \in Side, Wire(s), ~peer[s].closing, LostFrom(s)' = LostFrom(s),
         \/ /\ in'[s] = Append(in[s], peer[s].sent + 1)
            /\ peer'[s].sent = peer[s].sent + 1
         \/ in'[s] = Append(in[s], Close) /\ peer'[s].sent = peer[s].sent
  PROVE  Wire(s)' /\ Rest(s)' = Rest(s)
<1> DEFINE a == Rest(s)
           b == peer[s].sent
<1>1. a \in Nat /\ b \in Nat /\ a <= b /\ LostFrom(s) <= a
  BY StreamTypes DEF Wire
<1>2. in[s] = Numbers(a, b)
  <2>1. ~Closed(in[s])
    BY DEF IInv, Ends, Closed
  <2>2. Numbers(a, b) \in Seq(Nat) /\ Closed(Append(Numbers(a, b), Close))
    BY <1>1, NumbersAre, DataIs
  <2> QED
    BY <2>1, <2>2 DEF Wire, Run
<1>3. CASE in'[s] = Append(in[s], b + 1) /\ peer'[s].sent = b + 1
  <2>1. in'[s] = Numbers(a, b + 1)
    BY <1>1, <1>2, <1>3, NumbersMore
  <2>2. /\ Numbers(a, b + 1) \in Seq(Nat) /\ Len(Numbers(a, b + 1)) = (b + 1) - a
        /\ ~Closed(Numbers(a, b + 1))
    <3>1. b + 1 \in Nat /\ a <= b + 1
      BY <1>1
    <3> QED
      BY <1>1, <3>1, NumbersAre
  <2>3. Data(in'[s]) = in'[s]
    BY <2>1, <2>2, DataIs
  <2>4. Rest(s)' = a
    <3>1. Rest(s)' = (b + 1) - ((b + 1) - a)
      BY <1>3, <2>1, <2>2, <2>3 DEF Rest
    <3> HIDE DEF a, b
    <3> QED
      BY <1>1, <3>1
  <2> HIDE DEF a, b
  <2> QED
    BY <1>1, <1>3, <2>1, <2>4 DEF Wire, Run, a
<1>4. CASE in'[s] = Append(in[s], Close) /\ peer'[s].sent = b
  <2>1. Numbers(a, b) \in Seq(Nat) /\ Len(Numbers(a, b)) = b - a
    BY <1>1, NumbersAre
  <2>2. Data(in'[s]) = Numbers(a, b)
    BY <1>2, <1>4, <2>1, DataIs
  <2>3. Rest(s)' = a
    <3>1. Rest(s)' = b - (b - a)
      BY <1>4, <2>1, <2>2 DEF Rest
    <3> HIDE DEF a, b
    <3> QED
      BY <1>1, <3>1
  <2> HIDE DEF a, b
  <2> QED
    BY <1>1, <1>2, <1>4, <2>3 DEF Wire, Run, a
<1> QED
  BY <1>3, <1>4

\* A side sends.
LEMMA FlowTransmit ==
  ASSUME IInv, Flow, NEW s \in Side, NEW f \in Frame, Transmit(s, f),
         \/ peer' = [peer EXCEPT ![s].sent = @ + 1] /\ f = peer[s].sent + 1
         \/ /\ peer' = [peer EXCEPT ![s].owes = FALSE, ![s].sent = @ + 1]
            /\ f = peer[s].sent + 1
         \/ peer' = [peer EXCEPT ![s].closing = TRUE] /\ f = Close
  PROVE  Flow'
<1>1. /\ UNCHANGED <<kind, out, pc, hand, half, lost, calls>>
      /\ peer[s].open /\ ~peer[s].closing /\ in'[s] = Append(in[s], f)
      /\ \A t \in Side : t # s => in'[t] = in[t] /\ peer'[t] = peer[t]
      /\ peer'[s].open = peer[s].open /\ peer'[s].got = peer[s].got
      /\ \/ f = peer[s].sent + 1 /\ peer'[s].sent = peer[s].sent + 1
         \/ f = Close /\ peer'[s].sent = peer[s].sent
  BY DEF Transmit, fixed, ghosts, IInv, TypeOK
<1>2. \A t \in Side : /\ LostFrom(t)' = LostFrom(t) /\ PassedOn(t)' = PassedOn(t)
                      /\ peer'[t].open = peer[t].open
  BY <1>1, Sides DEF LostFrom, PassedOn
<1>3. \A t \in Side : Wire(t)' /\ Rest(t)' = Rest(t)
  <2>1. Wire(s)' /\ Rest(s)' = Rest(s)
    BY <1>1, <1>2, Written DEF Flow
  <2>2. ASSUME NEW t \in Side, t # s PROVE Wire(t)' /\ Rest(t)' = Rest(t)
    BY <1>1, <1>2, <2>2, SameWire DEF Flow
  <2> QED
    BY <2>1, <2>2
<1>4. \A t \in Side : Silent(t) => Silent(t)'
  BY <1>1 DEF Silent
<1>5. ASSUME NEW t \in Side PROVE Copied(t)' /\ ShownUpTo(t)' /\ PassedAsKept(t)'
  <2>1. Copied(t) /\ ShownUpTo(t) /\ PassedAsKept(t) /\ Other(t) \in Side
    BY Sides DEF Flow
  <2> QED
    BY <2>1, <1>1, <1>2, <1>3, <1>4, Elsewhere
<1>6. Early'
  BY <1>1, <1>3 DEF Flow, Early
<1> QED
  BY <1>3, <1>5, <1>6 DEF Flow

\* A side reads: what had been passed on to it is the same.
LEMMA FlowReads ==
  ASSUME IInv, Flow, NEW s \in Side, PeerReads(s)
  PROVE  Flow'
<1>1. /\ UNCHANGED <<kind, in, pc, hand, half, lost, calls>>
      /\ out[s] # <<>> /\ out'[s] = Tail(out[s])
      /\ peer'[s].got = Append(peer[s].got, Head(out[s]))
      /\ \A t \in Side : t # s => out'[t] = out[t] /\ peer'[t] = peer[t]
      /\ \A t \in Side : /\ peer'[t].open = peer[t].open /\ peer'[t].sent = peer[t].sent
                         /\ peer[t].closing => peer'[t].closing
  BY DEF PeerReads, fixed, ghosts, IInv, TypeOK
<1>2. \A t \in Side : PassedOn(t)' = PassedOn(t)
  <2> TAKE t \in Side
  <2>1. CASE Other(t) # s
    BY <1>1, <2>1, Sides DEF PassedOn
  <2>2. CASE Other(t) = s
    <3>1. peer[s].got \in Seq(Nat) /\ out[s] \in Seq(Nat)
      BY StreamTypes
    <3>2. Append(peer[s].got, Head(out[s])) \o Tail(out[s]) = peer[s].got \o out[s]
      BY <1>1, <3>1, HeadMoves
    <3> QED
      BY <1>1, <2>2, <3>2 DEF PassedOn
  <2> QED
    BY <2>1, <2>2
<1>3. \A t \in Side : /\ LostFrom(t)' = LostFrom(t) /\ (Silent(t) => Silent(t)')
  BY <1>1 DEF LostFrom, Silent
<1>4. \A t \in Side : Wire(t)' /\ Rest(t)' = Rest(t)
  BY <1>1, <1>3, SameWire DEF Flow
<1>5. ASSUME NEW t \in Side PROVE Copied(t)' /\ ShownUpTo(t)' /\ PassedAsKept(t)'
  <2>1. Copied(t) /\ ShownUpTo(t) /\ PassedAsKept(t) /\ Other(t) \in Side
    BY Sides DEF Flow
  <2> QED
    BY <2>1, <1>1, <1>2, <1>3, <1>4, Elsewhere
<1>6. Early'
  BY <1>1 DEF Flow, Early
<1> QED
  BY <1>4, <1>5, <1>6 DEF Flow

\* What had been passed on to the side that breaks is the start of its stream.
LEMMA FlowDrops ==
  ASSUME IInv, Flow, NEW s \in Side, PeerDrops(s)
  PROVE  Flow'
<1>1. /\ UNCHANGED <<kind, in, out, pc, hand, half, lost, calls>>
      /\ ~peer'[s].open /\ peer'[s].sent = peer[s].sent /\ peer'[s].got = peer[s].got
      /\ peer[s].open /\ peer'[s].closing = peer[s].closing
      /\ \A t \in Side : t # s => peer'[t] = peer[t]
  BY DEF PeerDrops, fixed, ghosts, IInv, TypeOK
<1>2. \A t \in Side : /\ LostFrom(t)' = LostFrom(t) /\ (Silent(t) => Silent(t)')
                      /\ PassedOn(t)' = PassedOn(t)
                      /\ Shown(t)' = Shown(t) /\ Kept(t)' = Kept(t)
  BY <1>1, Sides DEF LostFrom, Silent, PassedOn, Shown, Kept
<1>3. \A t \in Side : Wire(t)' /\ Rest(t)' = Rest(t)
  BY <1>1, <1>2, SameWire DEF Flow
<1>4. ASSUME NEW t \in Side, t # Other(s) PROVE Copied(t)' /\ ShownUpTo(t)' /\ PassedAsKept(t)'
  <2>1. Copied(t) /\ ShownUpTo(t) /\ PassedAsKept(t) /\ Other(t) \in Side /\ Other(t) # s
    BY <1>4, Sides DEF Flow
  <2> QED
    BY <2>1, <1>1, <1>2, <1>3, Elsewhere
<1> DEFINE t == Other(s)
<1>5. t \in Side /\ Other(t) = s
  BY Sides
<1> HIDE DEF t
<1>6. Copied(t)'
  <2> SUFFICES ASSUME kind \notin Hooked
               PROVE  \E k \in LostFrom(t)..Rest(t) : Run(PassedOn(t), LostFrom(t), k)
    BY <1>1, <1>2, <1>3, <1>5 DEF Flow, Copied
  <2> DEFINE n == Numbers(LostFrom(t), Rest(t))
  <2>1. LostFrom(t) \in Nat /\ Rest(t) \in Nat /\ LostFrom(t) <= Rest(t)
    BY <1>5, StreamTypes DEF Flow, Wire
  <2>2. n \in Seq(Nat) /\ ~Closed(n)
    BY <2>1, NumbersAre
  <2>3. /\ PassedOn(t) \in Seq(Nat) /\ hand[t] \in Seq(Nat) /\ Len(hand[t]) <= 1
        /\ PassedOn(t) \o hand[t] \in {n, Append(n, Close)}
    BY <1>1, <1>5, StreamTypes DEF Flow, Copied, UpTo
  <2>4. Starts(PassedOn(t), n)
    <3> HIDE DEF n
    <3> QED
      BY <2>2, <2>3, SplitStream
  <2> QED
    BY <2>1, <2>4, NumbersBegin
<1>7. ShownUpTo(t)'
  BY <1>1, <1>2, <1>3, <1>5 DEF Flow, ShownUpTo, UpTo, Panicked
<1>8. PassedAsKept(t)'
  <2>1. PassedAsKept(t)
    BY <1>5 DEF Flow
  <2>2. ASSUME kind \in Hooked, ~Informing(t)
        PROVE  \E k \in 0..Len(Kept(t)) : PassedOn(t) = SubSeq(Kept(t), 1, k)
    <3> DEFINE h == IF pc = "send" THEN hand[t] ELSE <<>>
    <3>1. /\ PassedOn(t) \in Seq(Nat) /\ h \in Seq(Nat) /\ Kept(t) \in Seq(Nat)
      BY <1>5, StreamTypes
    <3>2. PassedOn(t) \o h = Kept(t)
      BY <1>1, <1>5, <2>1, <2>2 DEF PassedAsKept
    <3> HIDE DEF h
    <3>3. Len(PassedOn(t)) \in 0..Len(Kept(t))
      BY <3>1, <3>2, ConcatProperties, LenProperties
    <3>4. PassedOn(t) = SubSeq(Kept(t), 1, Len(PassedOn(t)))
      BY <3>1, <3>2, StartOfJoin
    <3> QED
      BY <3>3, <3>4
  <2>3. Informing(t) => Informing(t)'
    BY <1>1, <1>2, <1>5 DEF Informing
  <2>4. ~peer'[Other(t)].open
    BY <1>1, <1>5
  <2> QED
    BY <1>1, <1>2, <1>5, <2>1, <2>2, <2>3, <2>4 DEF PassedAsKept
<1>9. Early'
  BY <1>1, <1>3 DEF Flow, Early
<1> QED
  BY <1>3, <1>4, <1>5, <1>6, <1>7, <1>8, <1>9 DEF Flow, t
----------------------------------------------------------------------------
\* Reading takes the next frame, or the Close after the last.
LEMMA ReadOne ==
  ASSUME IInv, NEW s \in Side, Wire(s), in[s] # <<>>, in'[s] = Tail(in[s]),
         peer'[s].sent = peer[s].sent, LostFrom(s)' = LostFrom(s)
  PROVE  /\ Wire(s)'
         /\ \/ Head(in[s]) = Rest(s) + 1 /\ Rest(s)' = Rest(s) + 1
            \/ Head(in[s]) = Close /\ Rest(s)' = Rest(s) /\ in'[s] = <<>>
<1> DEFINE a == Rest(s)
           b == peer[s].sent
<1>1. a \in Nat /\ b \in Nat /\ a <= b /\ LostFrom(s) <= a /\ LostFrom(s) \in Nat
  BY StreamTypes DEF Wire
<1>2. Run(in[s], a, b)
  BY DEF Wire
<1>3. Numbers(a, b) \in Seq(Nat) /\ (Numbers(a, b) = <<>> <=> a = b) /\ Close \in Nat
  BY <1>1, NumbersAre DEF Close
<1>4. CASE a = b
  <2>1. in[s] = Append(<<>>, Close)
    BY <1>2, <1>3, <1>4 DEF Run
  <2>2. Head(in[s]) = Close /\ in'[s] = <<>>
    <3>1. <<>> \in Seq(Nat)
      OBVIOUS
    <3> QED
      BY <1>3, <2>1, <3>1, HeadTailAppend
  <2>3. Rest(s)' = b
    <3>1. Data(<<>>) = <<>> /\ Len(<<>>) = 0
      BY DEF Data
    <3> QED
      BY <1>1, <2>2, <3>1 DEF Rest
  <2>4. Wire(s)'
    BY <1>1, <1>3, <1>4, <2>2, <2>3 DEF Wire, Run
  <2> QED
    BY <1>4, <2>2, <2>3, <2>4
<1>5. CASE a # b
  <2>1. a + 1 \in Nat /\ a + 1 <= b /\ a < b
    BY <1>1, <1>5
  <2>2. Head(Numbers(a, b)) = a + 1 /\ Tail(Numbers(a, b)) = Numbers(a + 1, b)
    BY <1>1, <2>1, NumbersHead
  <2>3. Numbers(a + 1, b) \in Seq(Nat) /\ Len(Numbers(a + 1, b)) = b - (a + 1)
        /\ ~Closed(Numbers(a + 1, b))
    BY <1>1, <2>1, NumbersAre
  <2>4. Head(in[s]) = a + 1 /\ Run(in'[s], a + 1, b)
    <3>1. Numbers(a, b) # <<>>
      BY <1>3, <1>5
    <3>2. /\ Head(Append(Numbers(a, b), Close)) = Head(Numbers(a, b))
          /\ Tail(Append(Numbers(a, b), Close)) = Append(Tail(Numbers(a, b)), Close)
      BY <1>3, <3>1, HeadTailAppend
    <3> QED
      BY <1>2, <2>2, <3>2 DEF Run
  <2>5. Data(in'[s]) = Numbers(a + 1, b)
    BY <2>3, <2>4, DataIs DEF Run
  <2>6. Rest(s)' = a + 1
    <3>1. Rest(s)' = b - (b - (a + 1))
      BY <2>3, <2>5 DEF Rest
    <3> HIDE DEF a, b
    <3> QED
      BY <1>1, <3>1
  <2>7. Wire(s)'
    <3> HIDE DEF a
    <3> QED
      BY <1>1, <2>1, <2>4, <2>6 DEF Wire
  <2> QED
    BY <2>4, <2>6, <2>7
<1> QED
  BY <1>4, <1>5

\* What has been taken is still everything that has left the buffer.
LEMMA TakenUpTo ==
  ASSUME IInv, NEW s \in Side, Wire(s), in[s] # <<>>, in'[s] = Tail(in[s]),
         peer'[s] = peer[s], LostFrom(s)' = LostFrom(s), NEW f, f = Head(in[s]),
         NEW q, UpTo(q, s)
  PROVE  UpTo(Append(q, f), s)'
<1>1. LostFrom(s) \in Nat /\ Rest(s) \in Nat /\ LostFrom(s) <= Rest(s)
  BY StreamTypes DEF Wire
<1>2. q = Numbers(LostFrom(s), Rest(s))
  BY DEF UpTo, Silent
<1>3. CASE f = Rest(s) + 1 /\ Rest(s)' = Rest(s) + 1
  BY <1>1, <1>2, <1>3, NumbersMore DEF UpTo
<1>4. CASE f = Close /\ Rest(s)' = Rest(s) /\ in'[s] = <<>>
  <2>1. peer[s].closing
    <3>1. in[s] \in Seq(Nat)
      BY StreamTypes
    <3>2. Len(in[s]) \in Nat \ {0} /\ Head(in[s]) = in[s][1] /\ DOMAIN in[s] = 1..Len(in[s])
      BY <3>1, EmptySeq
    <3>3. 1 \in DOMAIN in[s] /\ in[s][1] = Close
      BY <1>4, <3>2
    <3> QED
      BY <3>3 DEF IInv, Ends
  <2>2. Silent(s)'
    BY <1>4, <2>1 DEF Silent
  <2> QED
    BY <1>2, <1>4, <2>2 DEF UpTo
<1> QED
  BY <1>3, <1>4, ReadOne

\* The relay reads: what it has taken grows by one.
LEMMA FlowRead ==
  ASSUME IInv, Flow, NEW s \in Side, Read(s)
  PROVE  Flow'
<1>1. /\ UNCHANGED <<kind, out, peer, half, lost, calls>>
      /\ in[s] # <<>> /\ in'[s] = Tail(in[s])
      /\ \A t \in Side : t # s => in'[t] = in[t]
      /\ pc = Running /\ hand[s] = <<>>
  BY DEF Read, Listens, fixed, ghosts, IInv, TypeOK
<1>0. PICK f : f = Head(in[s])
  OBVIOUS
<1>2. \/ /\ kind = "passthrough" /\ f = Close /\ pc' = "over" /\ hand' = hand
      \/ /\ hand'[s] = <<f>> /\ \A t \in Side : t # s => hand'[t] = hand[t]
         /\ \/ kind \in Hooked /\ pc' = "hook"
            \/ kind = "raw_upgraded" /\ pc' = "send"
            \/ kind \notin Serial /\ pc' = "copy"
  BY <1>0 DEF Read, Serial, Hooked, IInv, TypeOK
<1>3. \A t \in Side : /\ LostFrom(t)' = LostFrom(t) /\ PassedOn(t)' = PassedOn(t)
                      /\ Shown(t)' = Shown(t) /\ Kept(t)' = Kept(t)
  BY <1>1 DEF LostFrom, PassedOn, Shown, Kept
<1>4. /\ Wire(s)'
      /\ \/ f = Rest(s) + 1 /\ Rest(s)' = Rest(s) + 1
         \/ f = Close /\ Rest(s)' = Rest(s) /\ in'[s] = <<>>
  BY <1>0, <1>1, <1>3, ReadOne DEF Flow
<1>5. \A q : UpTo(q, s) => UpTo(Append(q, f), s)'
  BY <1>0, <1>1, <1>3, TakenUpTo DEF Flow
<1>6. f \in Nat /\ Rest(s) \in Nat /\ LostFrom(s) \in Nat
  <2>1. in[s] \in Seq(Nat) /\ LostFrom(s) \in Nat
    BY StreamTypes
  <2>2. Rest(s) \in LostFrom(s)..peer[s].sent /\ peer[s].sent \in Nat
    BY DEF Flow, Wire
  <2> QED
    BY <1>0, <1>1, <2>1, <2>2
<1>7. Panicked' = Panicked
  BY <1>1 DEF Panicked
<1>8. ASSUME NEW t \in Side, t # s PROVE Wire(t)' /\ Copied(t)' /\ ShownUpTo(t)' /\ PassedAsKept(t)'
  <2>1. Wire(t)' /\ Rest(t)' = Rest(t) /\ (Silent(t) => Silent(t)') /\ hand'[t] = hand[t]
    BY <1>1, <1>2, <1>3, <1>8, SameWire DEF Flow, Silent
  <2>2. pc' = pc \/ hand[t] = <<>> \/ {pc, pc'} \cap {"hook", "send"} = {}
    BY <1>1, <1>2, <1>8 DEF Running, IInv, Control
  <2>3. Copied(t) /\ ShownUpTo(t) /\ PassedAsKept(t) /\ Other(t) \in Side
    BY Sides DEF Flow
  <2>4. kind \in Hooked => ~Closed(Kept(t)) /\ pc' = "hook"
    BY <1>1, <1>2, <2>3 DEF PassedAsKept, Running, Serial, Hooked
  <2>5. pc # "over"
    BY <1>1 DEF Running
  <2> QED
    BY <1>1, <1>3, <1>7, <2>1, <2>2, <2>3, <2>4, <2>5, Unmoved
<1>9. Copied(s)' /\ ShownUpTo(s)' /\ PassedAsKept(s)'
  <2>1. Copied(s) /\ ShownUpTo(s) /\ PassedAsKept(s)
    BY DEF Flow
  <2>2. /\ PassedOn(s) \o <<>> = PassedOn(s) /\ PassedOn(s) \o <<f>> = Append(PassedOn(s), f)
        /\ Shown(s) \o <<>> = Shown(s) /\ Shown(s) \o <<f>> = Append(Shown(s), f)
    BY <1>6, StreamTypes, Joining
  <2>3. CASE kind = "passthrough" /\ f = Close /\ pc' = "over" /\ hand' = hand
    <3>1. Rest(s)' = Rest(s) /\ (Silent(s) => Silent(s)')
      BY <1>1, <1>4, <1>6, <2>3 DEF Close, Silent
    <3>2. kind \notin Hooked /\ pc # "over"
      BY <1>1, <2>3 DEF Hooked, Running
    <3> QED
      BY <1>1, <1>3, <1>7, <2>1, <2>3, <3>1, <3>2, Unmoved
  <2>4. CASE /\ hand'[s] = <<f>>
             /\ kind \in Hooked => pc' = "hook"
    <3>1. Copied(s)'
      <4> SUFFICES ASSUME kind \notin Hooked PROVE Copied(s)'
        BY <1>1 DEF Copied
      <4>1. CASE peer[Other(s)].open
        BY <1>1, <1>3, <1>5, <2>1, <2>2, <2>4, <4>1 DEF Copied
      <4>2. CASE ~peer[Other(s)].open
        <5>1. \A k \in LostFrom(s)..Rest(s) : k \in LostFrom(s)..Rest(s)'
          BY <1>4, <1>6
        <5> QED
          BY <1>1, <1>3, <2>1, <4>2, <5>1 DEF Copied
      <4> QED
        BY <4>1, <4>2
    <3>2. ShownUpTo(s)'
      BY <1>1, <1>3, <1>5, <1>7, <2>1, <2>2, <2>4 DEF ShownUpTo, Running
    <3>3. PassedAsKept(s)'
      BY <1>1, <1>3, <2>1, <2>4 DEF PassedAsKept, Running, Informing, Serial, Hooked
    <3> QED
      BY <3>1, <3>2, <3>3
  <2> QED
    BY <1>2, <2>3, <2>4 DEF Hooked, Serial
<1>10. Early'
  BY <1>2 DEF Early
<1> QED
  BY <1>4, <1>8, <1>9, <1>10 DEF Flow
----------------------------------------------------------------------------
\* The end of a stream is passed on, or ends the relay.
LEMMA FlowReadEnds ==
  ASSUME IInv, Flow, NEW s \in Side, ReadEnds(s)
  PROVE  Flow'
<1>1. /\ UNCHANGED <<kind, in, out, peer, half, lost, calls>>
      /\ in[s] = <<>> /\ ~peer[s].open /\ pc = Running /\ hand[s] = <<>> /\ s \notin half
      /\ \/ pc' = Leave /\ hand' = hand
         \/ /\ kind = "websocket" /\ pc' = pc /\ hand'[s] = <<Close>>
            /\ \A t \in Side : t # s => hand'[t] = hand[t]
  BY DEF ReadEnds, Listens, fixed, ghosts, IInv, TypeOK
<1>2. \A t \in Side : /\ LostFrom(t)' = LostFrom(t) /\ PassedOn(t)' = PassedOn(t)
                      /\ Shown(t)' = Shown(t) /\ Kept(t)' = Kept(t)
                      /\ (Silent(t) => Silent(t)')
  BY <1>1 DEF LostFrom, PassedOn, Shown, Kept, Silent
<1>3. \A t \in Side : Wire(t)' /\ Rest(t)' = Rest(t)
  BY <1>1, <1>2, SameWire DEF Flow
<1>4. Panicked' = Panicked
  BY <1>1 DEF Panicked
<1>5. ASSUME NEW t \in Side, hand'[t] = hand[t]
      PROVE  Copied(t)' /\ ShownUpTo(t)' /\ PassedAsKept(t)'
  <2>1. Copied(t) /\ ShownUpTo(t) /\ PassedAsKept(t) /\ Other(t) \in Side
    BY Sides DEF Flow
  <2>2. /\ pc' = pc \/ {pc, pc'} \cap {"hook", "send"} = {}
        /\ pc # "over" /\ (kind \in Hooked => pc' \notin {"select", "hook", "send"})
    BY <1>1 DEF Running, Leave, Hooked
  <2> QED
    BY <1>1, <1>2, <1>3, <1>4, <1>5, <2>1, <2>2, Unmoved
<1>6. ASSUME kind = "websocket", hand'[s] = <<Close>>, pc' = pc
      PROVE  Copied(s)' /\ ShownUpTo(s)' /\ PassedAsKept(s)'
  <2>1. Copied(s) /\ kind \notin Hooked
    BY <1>6 DEF Flow, Hooked
  <2>2. /\ PassedOn(s) \o <<>> = PassedOn(s)
        /\ PassedOn(s) \o <<Close>> = Append(PassedOn(s), Close)
    BY StreamTypes, Joining DEF Close
  <2>3. ASSUME UpTo(PassedOn(s), s) PROVE UpTo(Append(PassedOn(s), Close), s)'
    <3>1. ~Closed(PassedOn(s))
      BY <1>1, <1>6, <2>1 DEF Copied
    <3>2. Numbers(LostFrom(s), Rest(s)) \in Seq(Nat)
      BY StreamTypes, NumbersAre DEF Flow, Wire
    <3>3. PassedOn(s) = Numbers(LostFrom(s), Rest(s))
      BY <2>3, <3>1, <3>2, DataIs DEF UpTo
    <3>4. Silent(s)'
      BY <1>1 DEF Silent
    <3> QED
      BY <1>2, <1>3, <3>3, <3>4 DEF UpTo
  <2>4. Append(PassedOn(s), Close)' = Append(PassedOn(s), Close)
    BY <1>2 DEF Close
  <2>5. Copied(s)'
    BY <1>1, <1>2, <1>3, <1>6, <2>1, <2>2, <2>3, <2>4 DEF Copied
  <2> QED
    BY <1>1, <2>1, <2>5 DEF ShownUpTo, PassedAsKept
<1>7. Early'
  BY <1>1, <1>3 DEF Flow, Early, Leave
<1> QED
  BY <1>1, <1>3, <1>5, <1>6, <1>7 DEF Flow

\* Nothing new has been kept of t.
LEMMA KeptSo ==
  ASSUME NEW t \in Side, ~Closed(Kept(t)), Kept(t)' = Kept(t), PassedOn(t)' = PassedOn(t),
         peer'[Other(t)].open = peer[Other(t)].open, PassedOn(t) \in Seq(Nat),
         IF peer[Other(t)].open THEN PassedOn(t) = Kept(t)
         ELSE \E k \in 0..Len(Kept(t)) : PassedOn(t) = SubSeq(Kept(t), 1, k),
         pc' # "send" \/ hand'[t] = <<>>
  PROVE  PassedAsKept(t)'
<1>1. PassedOn(t) \o <<>> = PassedOn(t)
  BY ConcatEmptySeq
<1>2. ~Closed(Kept(t))' /\ \A i \in DOMAIN Kept(t)' : Kept(t)'[i] # Close
  BY DEF Closed
<1> QED
  BY <1>1, <1>2 DEF PassedAsKept

\* What the handler is shown and keeps, drops, or panics at.
LEMMA FlowHook ==
  ASSUME IInv, Flow, NEW s \in Side, Hook(s)
  PROVE  Flow'
<1>1. UNCHANGED <<kind, in, out, peer, half, lost>> /\ pc = "hook" /\ kind \in Hooked
  BY DEF Hook, fixed, IInv, Control
<1>2. PICK f \in Frame : hand[s] = <<f>> /\ Head(hand[s]) = f
  BY OneInHand DEF Hook, IInv
<1>3. \/ calls' = Append(calls, OnFrame(s, f, TRUE)) /\ pc' = "send" /\ hand' = hand
      \/ /\ calls' = Append(calls, OnFrame(s, f, FALSE)) /\ pc' = AfterFrame(f)
         /\ hand' = [hand EXCEPT ![s] = <<>>]
      \/ calls' = Append(calls, Panic) /\ pc' = "over" /\ hand' = hand
  BY <1>2 DEF Hook
<1>4. \A t \in Side : /\ LostFrom(t)' = LostFrom(t) /\ PassedOn(t)' = PassedOn(t)
                      /\ (Silent(t) => Silent(t)')
                      /\ t # s => hand[t] = <<>> /\ hand'[t] = <<>>
  <2>1. \A t \in Side : t # s => hand[t] = <<>>
    <3>1. hand[s] # <<>> /\ kind \in Serial
      BY <1>1 DEF Hook, Serial
    <3> QED
      BY <3>1, Sides DEF IInv, TypeOK
  <2> QED
    BY <1>1, <1>3, <2>1 DEF LostFrom, PassedOn, Silent, IInv, TypeOK
<1>5. \A t \in Side : Wire(t)' /\ Rest(t)' = Rest(t)
  BY <1>1, <1>4, SameWire DEF Flow
<1>6. \A q, t : t \in Side /\ UpTo(q, t) => UpTo(q, t)'
  BY <1>4, <1>5 DEF UpTo
<1>7. calls \in Seq(Calls) /\ f \in Nat
  BY FramesAreNumbers DEF IInv, Story
<1>8. ~Panicked /\ (calls' = Append(calls, Panic) => Panicked')
  <2>1. ~Panicked
    <3>1. Panic.frame = Close
      BY DEF Panic, OnClose
    <3>2. calls # <<>> => Len(calls) \in DOMAIN calls
      BY <1>7, EmptySeq
    <3> QED
      BY <1>1, <3>1, <3>2 DEF IInv, Story, Said, Panicked
  <2>2. Panic \in Calls
    BY DEF Panic, OnClose, Calls, Frame
  <2> QED
    BY <1>7, <2>1, <2>2, AppendProperties DEF Panicked
<1>9. \A t \in Side : Copied(t)'
  BY <1>1 DEF Copied
<1>10. ASSUME NEW t \in Side PROVE ShownUpTo(t)' /\ PassedAsKept(t)'
  <2>1. ShownUpTo(t) /\ PassedAsKept(t) /\ Other(t) \in Side
    BY Sides DEF Flow
  <2>2. ~Closed(Kept(t)) /\ Shown(t) \in Seq(Nat) /\ Kept(t) \in Seq(Nat)
        /\ PassedOn(t) \in Seq(Nat)
    BY <1>1, <2>1, StreamTypes DEF PassedAsKept
  <2>3. ~Informing(t)
    BY <1>1 DEF Informing
  <2>4. IF peer[Other(t)].open THEN PassedOn(t) = Kept(t)
        ELSE \E k \in 0..Len(Kept(t)) : PassedOn(t) = SubSeq(Kept(t), 1, k)
    BY <1>1, <2>1, <2>2, <2>3, Joining DEF PassedAsKept
  <2>5. IF t = s THEN UpTo(Append(Shown(t), f), t) ELSE UpTo(Shown(t), t)
    <3>1. UpTo(Shown(t) \o hand[t], t)
      BY <1>1, <1>8, <2>1 DEF ShownUpTo
    <3>2. Shown(t) \o <<>> = Shown(t) /\ Shown(t) \o <<f>> = Append(Shown(t), f)
      BY <1>7, <2>2, Joining
    <3> QED
      BY <1>2, <1>4, <3>1, <3>2
  <2>6. CASE calls' = Append(calls, Panic) /\ pc' = "over" /\ hand' = hand
    <3>1. Shown(t)' = Shown(t) /\ Kept(t)' = Kept(t)
      BY <1>7, <2>6, OneMoreShown
    <3>2. ShownUpTo(t)'
      BY <1>8, <2>6 DEF ShownUpTo
    <3>3. PassedAsKept(t)'
      BY <1>1, <1>4, <2>1, <2>2, <2>4, <2>6, <3>1, KeptSo
    <3> QED
      BY <3>2, <3>3
  <2>7. CASE /\ calls' = Append(calls, OnFrame(s, f, FALSE)) /\ pc' = AfterFrame(f)
             /\ hand' = [hand EXCEPT ![s] = <<>>]
    <3>1. /\ Shown(t)' = IF t = s THEN Append(Shown(t), f) ELSE Shown(t)
          /\ Kept(t)' = Kept(t)
      BY <1>7, <2>7, OneMoreShown
    <3>2. pc' \notin {"hook", "send", "over"}
      BY <1>1, <2>7 DEF AfterFrame, Leave
    <3>3. ShownUpTo(t)'
      <4>1. Shown(t)' \o <<>> = Shown(t)'
        BY <1>7, <2>2, <3>1, Joining
      <4> QED
        BY <1>6, <2>5, <3>1, <3>2, <4>1 DEF ShownUpTo
    <3>4. PassedAsKept(t)'
      BY <1>1, <1>4, <2>1, <2>2, <2>4, <3>1, <3>2, KeptSo
    <3> QED
      BY <3>3, <3>4
  <2>8. CASE calls' = Append(calls, OnFrame(s, f, TRUE)) /\ pc' = "send" /\ hand' = hand
    <3>1. /\ Shown(t)' = IF t = s THEN Append(Shown(t), f) ELSE Shown(t)
          /\ Kept(t)' = IF t = s THEN Append(Kept(t), f) ELSE Kept(t)
      BY <1>7, <2>8, OneMoreShown
    <3>2. ShownUpTo(t)'
      <4>1. Shown(t)' \o <<>> = Shown(t)'
        BY <1>7, <2>2, <3>1, Joining
      <4> QED
        BY <1>6, <2>5, <2>8, <3>1, <4>1 DEF ShownUpTo
    <3>3. CASE t # s
      <4>1. PassedAsKept(t)'
        BY <1>1, <1>4, <2>1, <2>2, <2>4, <2>8, <3>1, <3>3, KeptSo
      <4> QED
        BY <3>2, <4>1
    <3>4. CASE t = s
      <4>1. /\ Append(Kept(t), f) \in Seq(Nat) /\ Len(Append(Kept(t), f)) = Len(Kept(t)) + 1
            /\ \A i \in 1..Len(Kept(t)) : Append(Kept(t), f)[i] = Kept(t)[i]
        BY <1>7, <2>2, AppendProperties
      <4>2. \A i \in DOMAIN Append(Kept(t), f) :
              Append(Kept(t), f)[i] = Close => i = Len(Append(Kept(t), f))
        BY <2>2, <4>1 DEF Closed
      <4>3. Closed(Append(Kept(t), f)) => f = Close
        BY <1>7, <2>2, ClosedIs
      <4>4. PassedOn(t) \o hand[t] = Append(PassedOn(t), f)
        <5>1. PassedOn(t) \o <<f>> = Append(PassedOn(t), f)
          BY <1>7, <2>2, Joining
        <5> QED
          BY <1>2, <3>4, <5>1
      <4>5. \A k \in 0..Len(Kept(t)) : /\ SubSeq(Append(Kept(t), f), 1, k) = SubSeq(Kept(t), 1, k)
                                       /\ k \in 0..Len(Append(Kept(t), f))
        BY <1>7, <2>2, <4>1, StartOfAppend
      <4>6. Closed(Kept(t))' => \A u \in Side : hand'[u] \in {<<>>, <<Close>>}
        BY <1>2, <1>4, <2>8, <3>1, <3>4, <4>3 DEF Closed
      <4>7. PassedAsKept(t)'
        <5>1. peer'[Other(t)].open = peer[Other(t)].open /\ PassedOn(t)' = PassedOn(t)
          BY <1>1, <1>4
        <5>2. IF peer'[Other(t)].open THEN PassedOn(t)' \o hand'[t] = Kept(t)'
              ELSE \E k \in 0..Len(Kept(t)') : PassedOn(t)' = SubSeq(Kept(t)', 1, k)
          BY <2>4, <2>8, <3>1, <3>4, <4>4, <4>5, <5>1
        <5>3. \A i \in DOMAIN Kept(t)' : Kept(t)'[i] = Close => i = Len(Kept(t)')
          BY <3>1, <3>4, <4>2
        <5> QED
          BY <2>8, <4>6, <5>2, <5>3 DEF PassedAsKept
      <4> QED
        BY <3>2, <4>7
    <3> QED
      BY <3>3, <3>4
  <2> QED
    BY <1>3, <2>6, <2>7, <2>8
<1>11. Early'
  BY <1>3 DEF Early, AfterFrame, Leave
<1> QED
  BY <1>5, <1>9, <1>10, <1>11 DEF Flow
----------------------------------------------------------------------------
\* Appending to the second part appends to the whole.
LEMMA JoinAppend ==
  \A p \in Seq(Nat), q \in Seq(Nat), e \in Nat : p \o Append(q, e) = Append(p \o q, e)
  BY Joining

\* The frame in the hand is passed on.
LEMMA FlowSent ==
  ASSUME IInv, Flow, NEW s \in Side, Sending(s), Sent(s),
         UNCHANGED <<kind, in, peer, lost, calls>>,
         \A t \in Side : t # s => PassedOn(t)' = PassedOn(t),
         IF peer[Other(s)].open THEN PassedOn(s)' = PassedOn(s) \o hand[s]
         ELSE kind \in Serial /\ PassedOn(s)' = PassedOn(s)
  PROVE  Flow'
<1>1. PICK f \in Frame : hand[s] = <<f>> /\ Head(hand[s]) = f
  BY OneInHand DEF Sending, IInv
<1>2. /\ hand'[s] = <<>> /\ \A t \in Side : t # s => hand'[t] = hand[t]
      /\ half' = IF kind = "websocket" /\ f = Close THEN half \cup {s} ELSE half
      /\ \/ kind \in Serial /\ pc = "send" /\ pc' = AfterFrame(f)
         \/ kind \notin Serial /\ pc = "copy" /\ pc' \in {"copy", "over"}
  <2>1. hand[s] = <<Close>> <=> f = Close
    BY <1>1
  <2>2. hand' = [hand EXCEPT ![s] = <<>>] /\ hand \in [Side -> Seq(Frame)]
    BY DEF Sent, IInv, TypeOK
  <2> QED
    BY <1>1, <2>1, <2>2 DEF Sent, Sending, IInv, Control
<1>3. \A t \in Side : /\ LostFrom(t)' = LostFrom(t) /\ (Silent(t) => Silent(t)')
                      /\ Shown(t)' = Shown(t) /\ Kept(t)' = Kept(t)
  BY DEF LostFrom, Silent, Shown, Kept
<1>4. \A t \in Side : Wire(t)' /\ Rest(t)' = Rest(t)
  BY <1>3, SameWire DEF Flow
<1>5. Panicked' = Panicked
  BY DEF Panicked
<1>6. ASSUME kind \in Hooked
      PROVE  /\ pc = "send" /\ pc' \notin {"hook", "send", "over"}
             /\ pc' = "select" => \A t \in Side : ~Closed(Kept(t))
  <2>1. pc = "send" /\ pc' = AfterFrame(f)
    BY <1>2, <1>6 DEF Serial
  <2>2. ASSUME f # Close, NEW t \in Side PROVE ~Closed(Kept(t))
    <3>1. hand[s] \notin {<<>>, <<Close>>}
      BY <1>1, <2>2
    <3> QED
      BY <1>6, <2>1, <3>1 DEF Flow, PassedAsKept
  <2> QED
    BY <1>6, <2>1, <2>2 DEF AfterFrame, Leave
<1>7. ASSUME NEW t \in Side, t # s PROVE Copied(t)' /\ ShownUpTo(t)' /\ PassedAsKept(t)'
  <2>1. Copied(t) /\ ShownUpTo(t) /\ PassedAsKept(t) /\ Other(t) \in Side
    BY Sides DEF Flow
  <2>2. \/ hand[t] = <<>> \/ {pc, pc'} \cap {"hook", "send"} = {}
    <3>1. CASE kind \in Serial
      <4>1. hand[s] # <<>>
        BY <1>1
      <4> QED
        BY <1>7, <3>1, <4>1, Sides DEF IInv, TypeOK
    <3>2. CASE kind \notin Serial
      BY <1>2, <3>2
    <3> QED
      BY <3>1, <3>2
  <2>3. pc # "over" /\ (t \in half => t \in half')
    BY <1>2
  <2>4. kind \in Hooked /\ pc' \in {"select", "hook", "send"} => ~Closed(Kept(t))
    BY <1>6
  <2>5. PassedOn(t)' = PassedOn(t) /\ hand'[t] = hand[t]
    BY <1>2, <1>7
  <2>6. kind \in Hooked => pc' # "send"
    BY <1>6
  <2> QED
    BY <1>3, <1>4, <1>5, <2>1, <2>2, <2>3, <2>4, <2>5, <2>6, Unmoved
<1>8. Copied(s)' /\ ShownUpTo(s)' /\ PassedAsKept(s)'
  <2>1. Copied(s) /\ ShownUpTo(s) /\ PassedAsKept(s)
    BY DEF Flow
  <2>2. PassedOn(s) \in Seq(Nat) /\ hand[s] \in Seq(Nat) /\ f \in Nat
    BY FramesAreNumbers, StreamTypes
  <2>3. \A q : UpTo(q, s) => UpTo(q, s)'
    BY <1>3, <1>4 DEF UpTo
  <2>4. PassedOn(s)' \in Seq(Nat)
    BY <2>2, ConcatProperties
  <2>5. PassedOn(s)' \o <<>> = PassedOn(s)'
    BY <2>4, ConcatEmptySeq
  <2>6. Copied(s)'
    <3> SUFFICES ASSUME kind \notin Hooked PROVE Copied(s)'
      BY DEF Copied
    <3>1. CASE peer[Other(s)].open
      <4>1. UpTo(PassedOn(s) \o <<>>, s)'
        <5>1. UpTo(PassedOn(s) \o hand[s], s)
          BY <2>1, <3>1 DEF Copied
        <5>2. PassedOn(s)' \o <<>> = PassedOn(s) \o hand[s]
          BY <2>5, <3>1
        <5> QED
          BY <1>3, <1>4, <5>1, <5>2 DEF UpTo
      <4>2. kind = "websocket" /\ s \notin half' => ~Closed(PassedOn(s)')
        <5>1. PassedOn(s) \o hand[s] = Append(PassedOn(s), f)
          BY <1>1, <2>2, Joining
        <5>2. kind = "websocket" /\ s \notin half' => f # Close /\ ~Closed(PassedOn(s))
          BY <1>2, <2>1 DEF Copied
        <5>3. PassedOn(s)' = Append(PassedOn(s), f)
          BY <3>1, <5>1
        <5> QED
          BY <2>2, <5>2, <5>3, ClosedIs
      <4>3. Closed(PassedOn(s))' <=> Closed(PassedOn(s)')
        BY DEF Closed
      <4> QED
        BY <1>2, <3>1, <4>1, <4>2, <4>3 DEF Copied
    <3>2. CASE ~peer[Other(s)].open
      <4>1. kind # "websocket"
        BY <3>2 DEF Serial, Hooked
      <4> QED
        BY <1>3, <1>4, <2>1, <3>2, <4>1 DEF Copied
    <3> QED
      BY <3>1, <3>2
  <2>7. ShownUpTo(s)'
    BY <1>3, <1>5, <1>6, <2>1, <2>3 DEF ShownUpTo
  <2>8. PassedAsKept(s)'
    <3> SUFFICES ASSUME kind \in Hooked PROVE PassedAsKept(s)'
      BY DEF PassedAsKept
    <3>1. /\ pc = "send" /\ pc' \notin {"hook", "send"} /\ ~Informing(s)
          /\ pc' = "select" => ~Closed(Kept(s))
      BY <1>6 DEF Informing
    <3>2. IF peer'[Other(s)].open THEN PassedOn(s)' \o <<>> = Kept(s)
          ELSE \E k \in 0..Len(Kept(s)) : PassedOn(s)' = SubSeq(Kept(s), 1, k)
      BY <2>1, <2>5, <3>1 DEF PassedAsKept
    <3> QED
      BY <1>3, <2>1, <3>1, <3>2 DEF PassedAsKept
  <2> QED
    BY <2>6, <2>7, <2>8
<1>9. Early'
  BY <1>2 DEF Early, AfterFrame, Leave
<1> QED
  BY <1>4, <1>7, <1>8, <1>9 DEF Flow

\* A step that only moves pc, out of the loop.
LEMMA FlowLeaves ==
  ASSUME IInv, Flow, UNCHANGED <<kind, in, out, peer, hand, half, lost>>,
         pc \notin {"hook", "send", "over"}, pc' \notin {"hook", "send"},
         pc' \in {"dial", "head", "refused"} => pc = "dial",
         pc' = "select" => calls = <<>>,
         calls' = calls \/ (pc = "closing" /\ calls' = Append(calls, OnClose))
  PROVE  Flow'
<1>1. \A t \in Side : /\ LostFrom(t)' = LostFrom(t) /\ PassedOn(t)' = PassedOn(t)
                      /\ (Silent(t) => Silent(t)') /\ Shown(t)' = Shown(t) /\ Kept(t)' = Kept(t)
  BY OneMoreShown DEF LostFrom, PassedOn, Silent, IInv, Story
<1>2. \A t \in Side : Wire(t)' /\ Rest(t)' = Rest(t)
  BY <1>1, SameWire DEF Flow
<1>3. Panicked => Panicked'
  <2>1. CASE calls' = calls
    BY <2>1 DEF Panicked
  <2>2. CASE pc = "closing"
    <3>1. calls # <<>> => Len(calls) \in DOMAIN calls
      BY EmptySeq DEF IInv, Story
    <3> QED
      BY <2>2, <3>1 DEF IInv, Story, Said, Ending, Panicked
  <2> QED
    BY <2>1, <2>2
<1>4. ASSUME NEW t \in Side PROVE Copied(t)' /\ ShownUpTo(t)' /\ PassedAsKept(t)'
  <2>1. Copied(t) /\ ShownUpTo(t) /\ PassedAsKept(t) /\ Other(t) \in Side
    BY Sides DEF Flow
  <2>2. pc' = "select" => ~Closed(Kept(t))
    BY OneMoreShown DEF IInv, Story, Closed
  <2> QED
    BY <1>1, <1>2, <1>3, <2>1, <2>2, Unmoved
<1>5. Early'
  BY <1>2 DEF Early, Flow
<1> QED
  BY <1>2, <1>4, <1>5 DEF Flow

\* A send, to a side that stands or to one that is gone.
LEMMA FlowSend ==
  ASSUME IInv, Flow, NEW s \in Side, Send(s)
  PROVE  Flow'
<1>1. UNCHANGED <<kind, in, peer, lost, calls>> /\ Sending(s)
  BY DEF Send, fixed, ghosts
<1>2. PICK f \in Frame : hand[s] = <<f>> /\ Head(hand[s]) = f
  BY <1>1, OneInHand DEF Sending, IInv
<1> DEFINE o == Other(s)
<1>3. o \in Side /\ o # s /\ \A t \in Side : t = s \/ t = o
  BY Sides
<1>4. Other(o) = s
  BY Sides
<1>5. CASE /\ peer[o].open /\ out' = [out EXCEPT ![o] = Append(@, Head(hand[s]))] /\ Sent(s)
  <2>1. PassedOn(s)' = PassedOn(s) \o hand[s]
    <3>1. out'[o] = Append(out[o], f)
      BY <1>2, <1>3, <1>5 DEF IInv, TypeOK
    <3>2. peer[o].got \in Seq(Nat) /\ out[o] \in Seq(Nat) /\ PassedOn(s) \in Seq(Nat) /\ f \in Nat
      BY <1>3, StreamTypes, FramesAreNumbers
    <3>3. peer[o].got \o Append(out[o], f) = Append(peer[o].got \o out[o], f)
      BY <3>2, JoinAppend
    <3>4. PassedOn(s) \o <<f>> = Append(PassedOn(s), f)
      BY <3>2, AppendIsConcat
    <3> QED
      BY <1>1, <1>2, <3>1, <3>3, <3>4 DEF PassedOn
  <2>2. PassedOn(o)' = PassedOn(o)
    BY <1>1, <1>3, <1>4, <1>5 DEF PassedOn, IInv, TypeOK
  <2> HIDE DEF o
  <2> QED
    BY <1>1, <1>3, <1>5, <2>1, <2>2, FlowSent DEF o
<1>6. CASE ~peer[o].open /\ kind \in Serial /\ out' = out /\ Sent(s)
  <2>1. \A t \in Side : PassedOn(t)' = PassedOn(t)
    BY <1>1, <1>6 DEF PassedOn
  <2> QED
    BY <1>1, <1>6, <2>1, FlowSent
<1>7. CASE /\ kind \notin Serial /\ pc' = "over" /\ UNCHANGED <<out, hand, half>>
  <2>1. pc = "copy"
    BY <1>1, <1>7 DEF Sending, IInv, Control
  <2> QED
    BY <1>1, <1>7, <2>1, FlowLeaves
<1> QED
  BY <1>5, <1>6, <1>7 DEF Send

\* The upstream is reached, or refuses.
LEMMA FlowDial ==
  ASSUME IInv, Flow, Dial
  PROVE  Flow'
<1>1. calls = <<>> /\ pc = "dial"
  BY DEF Dial, IInv, Story
<1> QED
  BY <1>1, FlowLeaves DEF Dial, Running, fixed, ghosts

\* on_close shows no frame.
LEMMA FlowOnClose ==
  ASSUME IInv, Flow, CallOnClose
  PROVE  Flow'
  BY FlowLeaves DEF CallOnClose, fixed

\* The Close of the proxy itself goes to a client that has had none.
LEMMA FlowFinish ==
  ASSUME IInv, Flow, Finish
  PROVE  Flow'
<1>1. /\ UNCHANGED <<kind, in, peer, hand, half, lost, calls>>
      /\ pc = "finish" /\ pc' = "over" /\ kind \in Hooked
  BY DEF Finish, fixed, ghosts, IInv, Control
<1>2. CASE out' = out
  BY <1>1, <1>2, FlowLeaves
<1>3. CASE ~Informed /\ peer["client"].open /\ out' = [out EXCEPT !["client"] = Append(@, Close)]
  <2>1. "server" \in Side /\ "client" \in Side /\ Other("server") = "client"
        /\ Other("client") = "server"
    BY Sides DEF Side
  <2>2. PassedOn("client")' = PassedOn("client")
    BY <1>1, <1>3, <2>1 DEF PassedOn, IInv, TypeOK
  <2>3. PassedOn("server")' = Append(PassedOn("server"), Close)
    <3>1. peer["client"].got \in Seq(Nat) /\ out["client"] \in Seq(Nat) /\ Close \in Nat
      BY <2>1, StreamTypes DEF Close
    <3>2. peer["client"].got \o Append(out["client"], Close)
          = Append(peer["client"].got \o out["client"], Close)
      BY <3>1, JoinAppend
    <3>3. out'["client"] = Append(out["client"], Close)
      BY <1>3, <2>1 DEF IInv, TypeOK
    <3> QED
      BY <1>1, <2>1, <3>2, <3>3 DEF PassedOn
  <2>4. ~Closed(PassedOn("server"))
    <3>1. PassedOn("server") = peer["client"].got \o out["client"]
      BY <2>1 DEF PassedOn
    <3>2. DOMAIN PassedOn("server") = 1..Len(PassedOn("server"))
      BY <2>1, StreamTypes, LenProperties
    <3>3. Informed <=> \E i \in 1..Len(PassedOn("server")) : PassedOn("server")[i] = Close
      BY <3>1, Zenon DEF Informed
    <3> QED
      BY <1>3, <3>2, <3>3 DEF Closed
  <2>5. \A t \in Side : /\ LostFrom(t)' = LostFrom(t) /\ (Silent(t) => Silent(t)')
                        /\ Shown(t)' = Shown(t) /\ Kept(t)' = Kept(t)
    BY <1>1 DEF LostFrom, Silent, Shown, Kept
  <2>6. \A t \in Side : Wire(t)' /\ Rest(t)' = Rest(t)
    BY <1>1, <2>5, SameWire DEF Flow
  <2>7. Panicked' = Panicked
    BY <1>1 DEF Panicked
  <2>8. Copied("client")' /\ ShownUpTo("client")' /\ PassedAsKept("client")'
    <3>1. Copied("client") /\ ShownUpTo("client") /\ PassedAsKept("client")
      BY <2>1 DEF Flow
    <3> QED
      BY <1>1, <2>1, <2>2, <2>5, <2>6, <2>7, <3>1, Unmoved
  <2>9. Copied("server")'
    BY <1>1 DEF Copied
  <2>10. ShownUpTo("server")'
    <3>1. \A q : UpTo(q, "server") => UpTo(q, "server")'
      BY <2>1, <2>5, <2>6 DEF UpTo
    <3> QED
      BY <1>1, <2>1, <2>5, <2>7, <3>1 DEF Flow, ShownUpTo
  <2>11. PassedAsKept("server")'
    <3>1. PassedAsKept("server") /\ PassedOn("server") \in Seq(Nat)
      BY <2>1, StreamTypes DEF Flow
    <3>2. PassedOn("server") = Kept("server")
      BY <1>1, <1>3, <2>1, <3>1, ConcatEmptySeq DEF PassedAsKept, Informing
    <3>3. Informing("server")'
      BY <1>1, <2>1, <2>3, <2>4, <2>5, <3>2 DEF Informing, Closed
    <3> QED
      BY <1>1, <2>1, <2>5, <3>1, <3>3 DEF PassedAsKept
  <2>12. Early'
    BY <1>1 DEF Early
  <2> QED
    BY <2>1, <2>6, <2>8, <2>9, <2>10, <2>11, <2>12 DEF Flow, Side
<1> QED
  BY <1>2, <1>3 DEF Finish
----------------------------------------------------------------------------
\* What goes with the head is the start of what the server has sent.
LEMMA FlowHead ==
  ASSUME IInv, Flow, ReadHead
  PROVE  Flow'
<1> DEFINE b == peer["server"].sent
<1>1. /\ UNCHANGED <<kind, out, peer, hand, half, calls>>
      /\ pc = "head" /\ pc' = Running
  BY DEF ReadHead, fixed
<1>2. PICK m \in 0..Len(in["server"]) :
        LET gone == {in["server"][i] : i \in 1..m} IN
          /\ in' = [in EXCEPT !["server"] = SubSeq(@, m + 1, Len(@))]
          /\ lost' \in gone \cup {0} /\ \A f \in gone : f <= lost'
  BY DEF ReadHead
<1>3. /\ "server" \in Side /\ "client" \in Side /\ \A t \in Side : t # "server" => t = "client"
      /\ in'["server"] = SubSeq(in["server"], m + 1, Len(in["server"]))
      /\ in'["client"] = in["client"]
  BY <1>2 DEF Side, IInv, TypeOK
<1>4. /\ lost = 0 /\ Rest("server") = 0 /\ LostFrom("server") = 0 /\ b \in Nat
      /\ Run(in["server"], 0, b) /\ in["server"] \in Seq(Nat)
  BY <1>1, <1>3, StreamTypes DEF Flow, Early, Wire, LostFrom
<1>5. /\ Numbers(0, b) \in Seq(Nat) /\ Len(Numbers(0, b)) = b
      /\ \A i \in 1..b : Numbers(0, b)[i] = i
  <2>1. 0 \in Nat /\ 0 <= b /\ b - 0 = b /\ \A i \in 1..b : i + 0 = i
    BY <1>4
  <2>2. /\ Numbers(0, b) \in Seq(Nat) /\ Len(Numbers(0, b)) = b - 0
        /\ \A i \in 1..(b - 0) : Numbers(0, b)[i] = i + 0
    BY <1>4, <2>1, NumbersAre
  <2> HIDE DEF b
  <2> QED
    BY <2>1, <2>2
<1>6. Wire("server")' /\ Rest("server")' = lost' /\ lost' \in Nat
  <2>1. CASE m \in 0..b
    <3>1. \A i \in 1..m : in["server"][i] = i
      <4>1. \A i \in 1..b : Append(Numbers(0, b), Close)[i] = i
        BY <1>5, AppendProperties DEF Close
      <4>2. \A i \in 1..m : i \in 1..b
        BY <1>4, <2>1
      <4> QED
        BY <1>4, <1>5, <4>1, <4>2 DEF Run
    <3>2. lost' = m
      <4>1. m \in Nat /\ m <= Len(in["server"]) /\ Len(in["server"]) \in Nat
        BY <1>4
      <4>2. m # 0 => m \in {in["server"][i] : i \in 1..m}
        BY <3>1, <4>1
      <4>3. \A f \in {in["server"][i] : i \in 1..m} : f \in 1..m
        BY <3>1
      <4>4. m # 0 => m <= lost'
        BY <1>2, <4>2
      <4>5. lost' \in (1..m) \cup {0}
        BY <1>2, <4>3
      <4> QED
        BY <4>1, <4>4, <4>5
    <3>3. Run(in'["server"], m, b)
      BY <1>3, <1>4, <2>1, RunFrom
    <3>4. Rest("server")' = m
      BY <1>1, <1>4, <2>1, <3>3, RunLength DEF Rest
    <3> QED
      BY <1>1, <1>4, <2>1, <3>2, <3>3, <3>4 DEF Wire, LostFrom
  <2>2. CASE m = b + 1
    <3>1. in["server"] = Append(Numbers(0, b), Close)
      BY <1>4, <1>5, <2>2 DEF Run
    <3>2. /\ Len(in["server"]) = b + 1 /\ \A i \in 1..b : in["server"][i] = i
          /\ in["server"][b + 1] = 0
      BY <1>5, <3>1, AppendProperties DEF Close
    <3>3. lost' = b
      <4>1. b # 0 => b \in {in["server"][i] : i \in 1..m}
        <5>1. b # 0 => b \in 1..b /\ b \in 1..m
          BY <1>4, <2>2
        <5>2. b # 0 => in["server"][b] = b
          BY <3>2, <5>1
        <5> HIDE DEF b
        <5> QED
          BY <5>1, <5>2
      <4>2. \A f \in {in["server"][i] : i \in 1..m} : f \in 0..b
        <5> SUFFICES ASSUME NEW i \in 1..m PROVE in["server"][i] \in 0..b
          OBVIOUS
        <5>1. i \in 1..b \/ i = b + 1
          BY <1>4, <2>2
        <5> QED
          BY <1>4, <3>2, <5>1
      <4>3. b # 0 => b <= lost'
        BY <1>2, <4>1
      <4>4. lost' \in 0..b
        BY <1>2, <1>4, <4>2
      <4> QED
        BY <1>4, <4>3, <4>4
    <3>4. in'["server"] = <<>>
      BY <1>3, <1>4, <2>2, <3>2, SubSeqEmpty
    <3>5. Numbers(b, b) = <<>>
      BY <1>4, NumbersAre
    <3>6. Rest("server")' = b
      <4>1. Run(<<>>, b, b)
        BY <3>5 DEF Run
      <4>2. b - Len(Data(<<>>)) = b
        BY <1>4, <4>1, RunLength
      <4> QED
        BY <1>1, <3>4, <4>2 DEF Rest
    <3> QED
      BY <1>1, <1>4, <3>3, <3>4, <3>5, <3>6 DEF Wire, LostFrom, Run
  <2>3. m \in 0..b \/ m = b + 1
    <3>1. Len(in["server"]) \in {b, b + 1}
      BY <1>4, <1>5, AppendProperties DEF Run, Close
    <3> QED
      BY <1>4, <3>1
  <2> QED
    BY <2>1, <2>2, <2>3
<1>7. Wire("client")' /\ Rest("client")' = 0 /\ LostFrom("client")' = 0
  <2>1. LostFrom("client")' = LostFrom("client") /\ LostFrom("client")' = 0
    BY DEF LostFrom
  <2> QED
    BY <1>1, <1>3, <2>1, SameWire DEF Flow, Early
<1>8. ASSUME NEW t \in Side PROVE Wire(t)' /\ Rest(t)' = LostFrom(t)' /\ LostFrom(t)' \in Nat
  BY <1>3, <1>6, <1>7 DEF LostFrom
<1>9. ASSUME NEW t \in Side PROVE Copied(t)' /\ ShownUpTo(t)' /\ PassedAsKept(t)'
  <2>1. PassedOn(t)' = <<>> /\ hand'[t] = <<>> /\ Shown(t)' = <<>> /\ Kept(t)' = <<>>
    <3>1. calls = <<>> /\ hand[t] = <<>>
      BY <1>1 DEF IInv, Story, Control
    <3>2. Shown(t)' = <<>> /\ Kept(t)' = <<>>
      BY <1>1, <3>1, OneMoreShown DEF IInv, Story
    <3>3. PassedOn(t)' = <<>>
      BY <1>1, Sides DEF Flow, Early, PassedOn
    <3> QED
      BY <1>1, <3>1, <3>2, <3>3
  <2>2. Numbers(LostFrom(t)', Rest(t)') = <<>>
    BY <1>8, NumbersAre
  <2>3. UpTo(<<>>, t)' /\ ~Closed(<<>>) /\ <<>> \o <<>> = <<>> /\ pc' \in {"select", "copy"}
    BY <1>1, <2>2 DEF UpTo, Closed, Running
  <2>4. Copied(t)'
    <3>1. Rest(t)' \in LostFrom(t)'..Rest(t)' /\ Run(<<>>, LostFrom(t)', Rest(t)')
      BY <1>8, <2>2 DEF Run
    <3> QED
      BY <2>1, <2>3, <3>1 DEF Copied, Closed
  <2>5. ShownUpTo(t)'
    BY <2>1, <2>3 DEF ShownUpTo
  <2>6. PassedAsKept(t)'
    <3>1. SubSeq(<<>>, 1, 0) = <<>> /\ 0 \in 0..Len(<<>>)
      BY SubSeqEmpty
    <3> QED
      BY <2>1, <2>3, <3>1 DEF PassedAsKept, Closed
  <2> QED
    BY <2>4, <2>5, <2>6
<1>10. Early'
  BY <1>1 DEF Early, Running
<1> QED
  BY <1>8, <1>9, <1>10 DEF Flow

\* At first nothing has moved.
LEMMA FlowInit == Init => Flow
<1> SUFFICES ASSUME Init PROVE Flow
  OBVIOUS
<1>1. /\ in = [s \in Side |-> <<>>] /\ out = [s \in Side |-> <<>>]
      /\ hand = [s \in Side |-> <<>>] /\ lost = 0 /\ calls = <<>>
      /\ \A s \in Side : peer[s].open /\ peer[s].sent = 0 /\ peer[s].got = <<>>
      /\ pc \in {"head", "dial"}
  BY DEF Init
<1>2. ASSUME NEW s \in Side PROVE Shown(s) = <<>> /\ Kept(s) = <<>>
  BY <1>1, OneMoreShown
<1>3. ASSUME NEW s \in Side PROVE LostFrom(s) = 0 /\ Rest(s) = 0 /\ PassedOn(s) = <<>>
  <2>1. Data(<<>>) = <<>> /\ Len(<<>>) = 0 /\ <<>> \o <<>> = <<>>
    BY DEF Data
  <2> QED
    BY <1>1, <2>1, Sides DEF LostFrom, Rest, PassedOn
<1>4. Numbers(0, 0) = <<>>
  BY NumbersAre
<1>5. ASSUME NEW s \in Side PROVE Wire(s)
  BY <1>1, <1>3, <1>4 DEF Wire, Run
<1>6. ASSUME NEW s \in Side PROVE Copied(s) /\ ShownUpTo(s) /\ PassedAsKept(s)
  <2>1. UpTo(<<>>, s) /\ ~Closed(<<>>) /\ <<>> \o <<>> = <<>>
    BY <1>3, <1>4 DEF UpTo, Closed
  <2>2. Copied(s)
    BY <1>1, <1>3, <2>1, Sides DEF Copied
  <2>3. ShownUpTo(s)
    BY <1>1, <1>2, <2>1 DEF ShownUpTo
  <2>4. PassedAsKept(s)
    BY <1>1, <1>2, <1>3, <2>1, Sides DEF PassedAsKept, Closed
  <2> QED
    BY <2>2, <2>3, <2>4
<1>7. Early
  BY <1>1, <1>3 DEF Early
<1> QED
  BY <1>5, <1>6, <1>7 DEF Flow

\* Flow is inductive, given the invariant above.
LEMMA FlowStep == IInv /\ Flow /\ [Next]_vars => Flow'
<1> SUFFICES ASSUME IInv, Flow, [Next]_vars PROVE Flow'
  OBVIOUS
<1>1. CASE UNCHANGED vars
  <2>1. \A t \in Side : /\ LostFrom(t)' = LostFrom(t) /\ PassedOn(t)' = PassedOn(t)
                        /\ (Silent(t) => Silent(t)')
    BY <1>1 DEF LostFrom, PassedOn, Silent, vars
  <2>2. \A t \in Side : Wire(t)' /\ Rest(t)' = Rest(t)
    BY <1>1, <2>1, SameWire DEF Flow, vars
  <2>3. ASSUME NEW t \in Side PROVE Copied(t)' /\ ShownUpTo(t)' /\ PassedAsKept(t)'
    <3>1. Copied(t) /\ ShownUpTo(t) /\ PassedAsKept(t) /\ Other(t) \in Side
      BY Sides DEF Flow
    <3> QED
      BY <1>1, <2>1, <2>2, <3>1, Elsewhere DEF vars
  <2>4. Early'
    BY <1>1, <2>2 DEF Flow, Early, vars
  <2> QED
    BY <2>2, <2>3, <2>4 DEF Flow
<1>2. CASE RelayStep
  BY <1>2, FlowHead, FlowDial, FlowOnClose, FlowFinish, FlowRead, FlowReadEnds, FlowHook,
     FlowSend DEF RelayStep
<1>3. ASSUME NEW s \in Side, PeerSends(s) \/ PeerCloses(s) \/ (s = "server" /\ EchoBack)
      PROVE  Flow'
  <2>1. CASE PeerCloses(s)
    <3>1. Close \in Frame
      BY DEF Frame
    <3> QED
      BY <2>1, <3>1, FlowTransmit DEF PeerCloses
  <2>2. CASE peer[s].sent < MaxFrames /\ Transmit(s, peer[s].sent + 1)
    <3>1. peer[s].sent + 1 \in Frame
      BY <2>2, RelayAssumption DEF IInv, TypeOK, Frame
    <3> QED
      BY <1>3, <2>1, <2>2, <3>1, FlowTransmit DEF PeerSends, EchoBack
  <2> QED
    BY <1>3, <2>1, <2>2 DEF PeerSends, EchoBack
<1>4. ASSUME NEW s \in Side, PeerReads(s) \/ PeerDrops(s)
      PROVE  Flow'
  BY <1>4, FlowReads, FlowDrops
<1>5. "server" \in Side
  BY DEF Side
<1> QED
  BY <1>1, <1>2, <1>3, <1>4, <1>5 DEF Next

\* So every reachable state has it.
LEMMA FlowInvariance == Spec => [](IInv /\ Flow)
<1>1. Init => IInv /\ Flow
  BY InitInvariant, FlowInit
<1>2. (IInv /\ Flow) /\ [Next]_vars => (IInv /\ Flow)'
  BY StepInvariant, FlowStep
<1> QED
  BY <1>1, <1>2, PTL DEF Spec

\* on_frame sees the frames of a side in order, each once and without a gap; what is
\* missing is the start of the server's stream, gone with the head of a plain upgrade.
THEOREM ShownAlways == Spec => []ShownInOrder
<1>1. IInv /\ Flow => ShownInOrder
  <2> SUFFICES ASSUME IInv, Flow, kind \in Hooked, NEW s \in Side,
                      calls = <<>> \/ calls[Len(calls)] # Panic
               PROVE  LET unseen == IF pc = "hook" THEN hand[s] ELSE <<>> IN
                      Data(Shown(s) \o unseen \o in[s]) = Numbers(LostFrom(s), peer[s].sent)
    BY DEF ShownInOrder
  <2> DEFINE q == Shown(s) \o (IF pc = "hook" THEN hand[s] ELSE <<>>)
             a == LostFrom(s)
             r == Rest(s)
             b == peer[s].sent
  <2>1. a \in Nat /\ r \in Nat /\ b \in Nat /\ a <= r /\ r <= b /\ a <= b
        /\ in[s] \in Seq(Nat)
    BY StreamTypes DEF Flow, Wire
  <2>2. Numbers(a, r) \in Seq(Nat) /\ Numbers(r, b) \in Seq(Nat) /\ Numbers(a, b) \in Seq(Nat)
        /\ ~Closed(Numbers(a, b))
    <3> HIDE DEF a, r, b
    <3> QED
      BY <2>1, NumbersAre
  <2>3. UpTo(q, s) /\ Run(in[s], r, b)
    BY DEF Flow, ShownUpTo, Panicked, Wire
  <2>4. Numbers(a, r) \o Numbers(r, b) = Numbers(a, b)
    BY <2>1, NumbersJoin
  <2>5. CASE q = Numbers(a, r)
    <3>1. q \o in[s] \in {Numbers(a, b), Append(Numbers(a, b), Close)}
      <4>1. Numbers(a, r) \o Append(Numbers(r, b), Close) = Append(Numbers(a, b), Close)
        <5>1. Close \in Nat
          BY DEF Close
        <5> HIDE DEF a, r, b
        <5>2. Numbers(a, r) \o Append(Numbers(r, b), Close)
              = Append(Numbers(a, r) \o Numbers(r, b), Close)
          BY <2>2, <5>1, JoinAppend, Zenon
        <5> QED
          BY <2>4, <5>2
      <4> QED
        BY <2>3, <2>4, <2>5, <4>1 DEF Run
    <3> QED
      BY <2>2, <3>1, DataIs
  <2>6. CASE Silent(s) /\ q = Append(Numbers(a, r), Close)
    <3>1. in[s] = <<>> /\ r = b
      BY <2>1, <2>6 DEF Silent, Rest, Data
    <3>2. q \o in[s] = q
      BY <2>2, <2>6, <3>1, ConcatEmptySeq DEF Close
    <3> QED
      BY <2>2, <2>6, <3>1, <3>2, DataIs
  <2> QED
    BY <2>3, <2>5, <2>6 DEF UpTo
<1> QED
  BY <1>1, FlowInvariance, PTL

\* A side whose connection stands receives exactly the frames taken for it, in order,
\* but for the one being sent; one whose connection broke, a prefix of them.  The proxy
\* adds nothing but a Close at the end.
THEOREM DeliveredAlways == Spec => []DeliveredAsKept
<1>1. IInv /\ Flow => DeliveredAsKept
  <2> SUFFICES ASSUME IInv, Flow, NEW s \in Side
               PROVE  LET delivered == Data(PassedOn(s))
                          sending == IF kind \in Hooked /\ pc # "send" THEN <<>>
                                     ELSE Data(hand[s])
                      IN  /\ Len(delivered) <= Len(Taken(s))
                          /\ delivered = SubSeq(Taken(s), 1, Len(delivered))
                          /\ peer[Other(s)].open => delivered \o sending = Taken(s)
    BY DEF DeliveredAsKept, PassedOn
  <2> DEFINE p == PassedOn(s)
             h == IF kind \in Hooked /\ pc # "send" THEN <<>> ELSE hand[s]
             n == Taken(s)
  <2>1. p \in Seq(Nat) /\ h \in Seq(Nat) /\ Len(h) <= 1
    BY StreamTypes
  <2>2. IF kind \in Hooked /\ pc # "send" THEN Data(h) = <<>> ELSE Data(h) = Data(hand[s])
    BY DEF Data
  <2>3. /\ Len(Data(p)) <= Len(n) /\ Data(p) = SubSeq(n, 1, Len(Data(p)))
        /\ peer[Other(s)].open => Data(p) \o Data(h) = n
    <3>1. CASE kind \notin Hooked
      <4> DEFINE a == LostFrom(s)
                 r == Rest(s)
      <4>1. a \in Nat /\ r \in Nat /\ a <= r
        BY StreamTypes DEF Flow, Wire
      <4>2. n = Numbers(a, r) /\ n \in Seq(Nat) /\ ~Closed(n)
        <5>1. n = Numbers(a, r)
          BY <3>1 DEF Taken, Rest
        <5> QED
          BY <4>1, <5>1, NumbersAre
      <4>3. CASE peer[Other(s)].open
        <5>1. p \o h \in {n, Append(n, Close)}
          BY <3>1, <4>2, <4>3 DEF Flow, Copied, UpTo
        <5> HIDE DEF n, p, h
        <5> QED
          BY <2>1, <4>2, <5>1, SplitStream, BeginsIs
      <4>4. CASE ~peer[Other(s)].open
        <5>1. PICK k \in a..r : Run(p, a, k)
          BY <3>1, <4>4 DEF Flow, Copied
        <5> QED
          BY <4>1, <4>2, <4>4, <5>1, RunBegins
      <4> QED
        BY <4>3, <4>4
    <3>2. CASE kind \in Hooked
      <4> DEFINE K == Kept(s)
      <4>1. K \in Seq(Nat) /\ n = Data(K) /\ \A i \in DOMAIN K : K[i] = Close => i = Len(K)
        BY <3>2, StreamTypes DEF Flow, PassedAsKept, Taken
      <4>2. n \in Seq(Nat) /\ ~Closed(n) /\ K \in {n, Append(n, Close)}
        <5> HIDE DEF n, K
        <5> QED
          BY <4>1, ClosedAtEnd
      <4>3. CASE Informing(s)
        <5>1. h = <<>> /\ ~Closed(K) /\ p = Append(K, Close)
          BY <3>2, <4>3 DEF Informing
        <5>2. n = K
          BY <4>1, <5>1, DataIs
        <5>3. p \o h = Append(n, Close)
          BY <2>1, <5>1, <5>2, ConcatEmptySeq
        <5> HIDE DEF n, p, h
        <5> QED
          BY <2>1, <4>2, <5>3, SplitStream, BeginsIs
      <4>4. CASE ~Informing(s) /\ peer[Other(s)].open
        <5>1. p \o h = K
          BY <3>2, <4>4 DEF Flow, PassedAsKept
        <5> HIDE DEF n, p, h, K
        <5> QED
          BY <2>1, <4>2, <5>1, SplitStream, BeginsIs
      <4>5. CASE ~Informing(s) /\ ~peer[Other(s)].open
        <5>1. PICK k \in 0..Len(K) : p = SubSeq(K, 1, k)
          BY <3>2, <4>5 DEF Flow, PassedAsKept
        <5> HIDE DEF n, p, K
        <5>2. Starts(p, n)
          BY <4>2, <5>1, BeginsToo
        <5> QED
          BY <4>2, <4>5, <5>2, BeginsIs
      <4> QED
        BY <4>3, <4>4, <4>5
    <3> QED
      BY <3>1, <3>2
  <2> QED
    BY <2>2, <2>3
<1> QED
  BY <1>1, FlowInvariance, PTL
=============================================================================
