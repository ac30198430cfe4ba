---------------------- MODULE ProxyPipelineRefinement ----------------------
(***************************************************************************)
(* ProxyPipeline implements RequestContract, for any number of connections *)
(* and handlers: a step of a task is a step of its exchange or invisible.  *)
(* Shown(e, f) lists what a step may do to one exchange, so that each step *)
(* of the pipeline is mapped on the record of its own task.                *)
(***************************************************************************)
EXTENDS ProxyPipelineProofs

\* An exchange e becomes f by an action of the contract, or stays as it is.
Shown(e, f) ==
  \/ f = e
  \/ /\ e.status = "idle"
     /\ f = [e EXCEPT !.status = "open", !.requests = @ + 1]
  \/ /\ e.status = "open"
     /\ f = [e EXCEPT !.status = "forwarded", !.contacts = @ + 1]
  \/ /\ e.status \in {"open", "forwarded"}
     /\ \E then \in {"idle", "upgraded", "gone"} :
          f = [e EXCEPT !.status = then, !.replies = @ + 1]
  \/ /\ e.status = "upgraded" /\ e.contacts < e.requests
     /\ \E then \in {"upgraded", "gone"} :
          f = [e EXCEPT !.status = then, !.contacts = @ + 1]
  \/ /\ e.status \in Contract!Status \ {"gone"}
     /\ f = [e EXCEPT !.status = "gone"]

Exchange == [c \in Conn |-> ExchangeOf(conn[c])]

LEMMA ShownIsStep ==
  ASSUME NEW c \in Conn, NEW t, conn' = [conn EXCEPT ![c] = t],
         conn \in [Conn -> ConnType], Shown(ExchangeOf(conn[c]), ExchangeOf(t))
  PROVE  [Contract!Next]_Exchange
<1> DEFINE e == ExchangeOf(conn[c])
           f == ExchangeOf(t)
<1>1. /\ Exchange' = [Exchange EXCEPT ![c] = f]
      /\ Exchange[c] = e /\ Exchange = [Exchange EXCEPT ![c] = e]
  BY DEF Exchange
<1>2. Shown(e, f)
  OBVIOUS
<1> HIDE DEF e, f
<1>3. CASE f = e
  BY <1>1, <1>3
<1>4. CASE e.status = "idle" /\ f = [e EXCEPT !.status = "open", !.requests = @ + 1]
  <2>1. Contract!Request(c)
    BY <1>1, <1>4 DEF Contract!Request, Contract!Move, Exchange
  <2> QED
    BY <2>1 DEF Contract!Next
<1>5. CASE /\ e.status = "open"
           /\ f = [e EXCEPT !.status = "forwarded", !.contacts = @ + 1]
  <2>1. Contract!Contact(c)
    BY <1>1, <1>5 DEF Contract!Contact, Contract!Move, Exchange
  <2> QED
    BY <2>1 DEF Contract!Next
<1>6. CASE /\ e.status \in {"open", "forwarded"}
           /\ \E then \in {"idle", "upgraded", "gone"} :
                f = [e EXCEPT !.status = then, !.replies = @ + 1]
  <2>1. Contract!Answer(c)
    BY <1>1, <1>6 DEF Contract!Answer, Contract!Move, Exchange
  <2> QED
    BY <2>1 DEF Contract!Next
<1>7. CASE /\ e.status = "upgraded" /\ e.contacts < e.requests
           /\ \E then \in {"upgraded", "gone"} :
                f = [e EXCEPT !.status = then, !.contacts = @ + 1]
  <2>1. Contract!ContactUpgraded(c)
    BY <1>1, <1>7 DEF Contract!ContactUpgraded, Contract!Move, Exchange
  <2> QED
    BY <2>1 DEF Contract!Next
<1>8. CASE /\ e.status \in Contract!Status \ {"gone"}
           /\ f = [e EXCEPT !.status = "gone"]
  <2>1. Contract!GiveUp(c)
    BY <1>1, <1>8 DEF Contract!GiveUp, Contract!Move, Exchange
  <2> QED
    BY <2>1 DEF Contract!Next
<1> QED
  BY <1>2, <1>3, <1>4, <1>5, <1>6, <1>7, <1>8 DEF Shown

\* Nothing the contract shows has changed.
LEMMA Invisible ==
  ASSUME NEW s, NEW t, StatusOf(t) = StatusOf(s), t.received = s.received,
         t.replied = s.replied, t.contacts = s.contacts
  PROVE  Shown(ExchangeOf(s), ExchangeOf(t))
  BY DEF Shown, ExchangeOf

\* The connection is given up.
LEMMA GivenUp ==
  ASSUME NEW s, NEW t, s.pc \in PC \ {"closed"}, t.pc = "closed",
         t.received = s.received, t.replied = s.replied, t.contacts = s.contacts
  PROVE  Shown(ExchangeOf(s), ExchangeOf(t))
<1>1. StatusOf(t) = "gone" /\ StatusOf(s) \in Contract!Status \ {"gone"}
  BY DEF StatusOf, PC, Contract!Status
<1> QED
  BY <1>1 DEF Shown, ExchangeOf

\* A request arrives.
LEMMA Requested ==
  ASSUME NEW s, NEW t, StatusOf(s) = "idle", StatusOf(t) = "open",
         t.received = s.received + 1, t.replied = s.replied, t.contacts = s.contacts
  PROVE  Shown(ExchangeOf(s), ExchangeOf(t))
<1>1. ExchangeOf(t) = [ExchangeOf(s) EXCEPT !.status = "open", !.requests = @ + 1]
  <2> DEFINE e == [ExchangeOf(s) EXCEPT !.status = "open"]
  <2>1. e = [status |-> "open", requests |-> s.received, replies |-> s.replied,
              contacts |-> s.contacts]
    BY DEF ExchangeOf
  <2> HIDE DEF e
  <2>2. ExchangeOf(t) = [e EXCEPT !.requests = ExchangeOf(s).requests + 1]
    BY <2>1 DEF ExchangeOf
  <2> QED
    BY <2>2 DEF e
<1>2. ExchangeOf(s).status = "idle"
  BY DEF ExchangeOf
<1> QED
  BY <1>1, <1>2 DEF Shown

\* The request in hand is sent to its upstream.
LEMMA Contacted ==
  ASSUME NEW s, NEW t, StatusOf(s) = "open", StatusOf(t) = "forwarded",
         t.received = s.received, t.replied = s.replied, t.contacts = s.contacts + 1
  PROVE  Shown(ExchangeOf(s), ExchangeOf(t))
<1>1. ExchangeOf(t) = [ExchangeOf(s) EXCEPT !.status = "forwarded", !.contacts = @ + 1]
  <2> DEFINE e == [ExchangeOf(s) EXCEPT !.status = "forwarded"]
  <2>1. e = [status |-> "forwarded", requests |-> s.received, replies |-> s.replied,
              contacts |-> s.contacts]
    BY DEF ExchangeOf
  <2> HIDE DEF e
  <2>2. ExchangeOf(t) = [e EXCEPT !.contacts = ExchangeOf(s).contacts + 1]
    BY <2>1 DEF ExchangeOf
  <2> QED
    BY <2>2 DEF e
<1>2. ExchangeOf(s).status = "open"
  BY DEF ExchangeOf
<1> QED
  BY <1>1, <1>2 DEF Shown

\* An upgraded connection is taken to its upstream.
LEMMA UpgradeContacted ==
  ASSUME NEW s, NEW t, StatusOf(s) = "upgraded",
         StatusOf(t) \in {"upgraded", "gone"},
         s.contacts < s.received,
         t.received = s.received, t.replied = s.replied, t.contacts = s.contacts + 1
  PROVE  Shown(ExchangeOf(s), ExchangeOf(t))
<1>1. ExchangeOf(t) = [ExchangeOf(s) EXCEPT !.status = StatusOf(t), !.contacts = @ + 1]
  <2> DEFINE e == [ExchangeOf(s) EXCEPT !.status = StatusOf(t)]
  <2>1. e = [status |-> StatusOf(t), requests |-> s.received, replies |-> s.replied,
              contacts |-> s.contacts]
    BY DEF ExchangeOf
  <2> HIDE DEF e
  <2>2. ExchangeOf(t) = [e EXCEPT !.contacts = ExchangeOf(s).contacts + 1]
    BY <2>1 DEF ExchangeOf
  <2> QED
    BY <2>2 DEF e
<1>2. /\ ExchangeOf(s).status = "upgraded"
      /\ ExchangeOf(s).contacts < ExchangeOf(s).requests
  BY DEF ExchangeOf
<1> QED
  BY <1>1, <1>2 DEF Shown

\* A reply goes out.
LEMMA Replied ==
  ASSUME NEW s, NEW t, s.pc = "reply",
         t.pc \in {"idle", "wsDial", "relay", "closed"},
         t.received = s.received, t.replied = s.replied + 1, t.contacts = s.contacts
  PROVE  Shown(ExchangeOf(s), ExchangeOf(t))
<1>1. /\ StatusOf(s) \in {"open", "forwarded"}
      /\ StatusOf(t) \in {"idle", "upgraded", "gone"}
  BY DEF StatusOf
<1>2. ExchangeOf(t) = [ExchangeOf(s) EXCEPT !.status = StatusOf(t), !.replies = @ + 1]
  <2> DEFINE e == [ExchangeOf(s) EXCEPT !.status = StatusOf(t)]
  <2>1. e = [status |-> StatusOf(t), requests |-> s.received, replies |-> s.replied,
              contacts |-> s.contacts]
    BY DEF ExchangeOf
  <2> HIDE DEF e
  <2>2. ExchangeOf(t) = [e EXCEPT !.replies = ExchangeOf(s).replies + 1]
    BY <2>1 DEF ExchangeOf
  <2> QED
    BY <2>2 DEF e
<1>3. ExchangeOf(s).status \in {"open", "forwarded"}
  BY <1>1 DEF ExchangeOf
<1> QED
  BY <1>1, <1>2, <1>3 DEF Shown

\* An error on the way to a reply is reported, or the connection dropped.
LEMMA Failed ==
  ASSUME NEW s \in ConnType, NEW r \in ConnType, s.pc \in InChain,
         s.pc = "onRequest" <=> r.dialed = NoPort, r.mode = s.mode,
         r.received = s.received, r.replied = s.replied, r.contacts = s.contacts
  PROVE  Shown(ExchangeOf(s), ExchangeOf(ErrorExit(r)))
<1> DEFINE t == ErrorExit(r)
<1>1. /\ t.received = s.received /\ t.replied = s.replied /\ t.contacts = s.contacts
      /\ t.dialed = r.dialed
  BY DEF ErrorExit, ConnType
<1>2. t.pc = IF s.mode = "mitm" THEN "reply" ELSE "closed"
  BY DEF ErrorExit, ConnType
<1> HIDE DEF t
<1>3. CASE s.mode = "mitm"
  <2>1. StatusOf(t) = StatusOf(s)
    BY <1>1, <1>2, <1>3 DEF StatusOf, InChain
  <2> QED
    BY <1>1, <2>1, Invisible DEF t
<1>4. CASE s.mode # "mitm"
  BY <1>1, <1>2, <1>4, GivenUp DEF t, InChain, PC
<1> QED
  BY <1>3, <1>4

\* Every step of the pipeline is a step of the contract or changes nothing of it.
LEMMA StepIsShown == IInv /\ [Next]_vars => [Contract!Next]_Exchange
<1> SUFFICES ASSUME IInv, [Next]_vars PROVE [Contract!Next]_Exchange
  OBVIOUS
<1>S. /\ \A c \in Conn : Sound(conn[c]) /\ conn[c] \in ConnType
      /\ conn \in [Conn -> ConnType]
  BY DEF IInv, TypeOK
<1>1. ASSUME UNCHANGED conn PROVE [Contract!Next]_Exchange
  BY <1>1 DEF Exchange
<1>2. ASSUME NEW b \in BOOLEAN, SetEnabled(b) PROVE [Contract!Next]_Exchange
  <2>1. ASSUME NEW c \in Conn PROVE ExchangeOf(conn'[c]) = ExchangeOf(conn[c])
    <3>1. CASE conn[c].pc = "established"
      <4>1. conn'[c] = [conn[c] EXCEPT !.flagSeen = @ \cup {b}]
        BY <1>2, <3>1 DEF SetEnabled
      <4>2. /\ conn'[c].pc = "established" /\ conn'[c].received = conn[c].received
            /\ conn'[c].replied = conn[c].replied /\ conn'[c].contacts = conn[c].contacts
        BY <1>S, <3>1, <4>1 DEF ConnType
      <4> QED
        BY <3>1, <4>2 DEF ExchangeOf, StatusOf
    <3>2. CASE conn[c].pc # "established"
      BY <1>2, <3>2 DEF SetEnabled
    <3> QED
      BY <3>1, <3>2
  <2> QED
    BY <2>1 DEF Exchange
<1>3. ASSUME NEW c \in Conn, Connect(c) PROVE [Contract!Next]_Exchange
  <2> DEFINE t == [conn[c] EXCEPT !.pc = "backlog"]
  <2>1. conn[c].pc = "absent" /\ conn' = [conn EXCEPT ![c] = t]
    BY <1>3 DEF Connect, Task
  <2>2. /\ t.pc = "backlog"
        /\ t.received = conn[c].received /\ t.replied = conn[c].replied
        /\ t.contacts = conn[c].contacts
    BY <1>S, <2>1 DEF ConnType
  <2> HIDE DEF t
  <2>3. Shown(ExchangeOf(conn[c]), ExchangeOf(t))
    BY <1>S, <2>1, <2>2, Invisible DEF StatusOf, PC
  <2> QED
    BY <1>S, <2>1, <2>3, ShownIsStep
<1>4. ASSUME NEW c \in Conn, Accept(c) PROVE [Contract!Next]_Exchange
  <2> DEFINE t == [conn[c] EXCEPT !.pc = "reading"]
  <2>1. conn[c].pc = "backlog" /\ conn' = [conn EXCEPT ![c] = t]
    BY <1>4 DEF Accept, Task
  <2>2. /\ t.pc = "reading"
        /\ t.received = conn[c].received /\ t.replied = conn[c].replied
        /\ t.contacts = conn[c].contacts
    BY <1>S, <2>1 DEF ConnType
  <2> HIDE DEF t
  <2>3. Shown(ExchangeOf(conn[c]), ExchangeOf(t))
    BY <1>S, <2>1, <2>2, Invisible DEF StatusOf, PC
  <2> QED
    BY <1>S, <2>1, <2>3, ShownIsStep
<1>5. ASSUME NEW c \in Conn, NEW p \in Ports, ReadConnect(c, p)
     PROVE  [Contract!Next]_Exchange
  <2> DEFINE t == [conn[c] EXCEPT !.pc = "established", !.port = p,
                                  !.flagSeen = {enabled}]
  <2>1. conn[c].pc = "reading" /\ conn' = [conn EXCEPT ![c] = t]
    BY <1>5 DEF ReadConnect, Task
  <2>2. /\ t.pc = "established"
        /\ t.received = conn[c].received /\ t.replied = conn[c].replied
        /\ t.contacts = conn[c].contacts
    BY <1>S, <2>1 DEF ConnType
  <2> HIDE DEF t
  <2>3. Shown(ExchangeOf(conn[c]), ExchangeOf(t))
    BY <1>S, <2>1, <2>2, Invisible DEF StatusOf, PC
  <2> QED
    BY <1>S, <2>1, <2>3, ShownIsStep
<1>6. ASSUME NEW c \in Conn, LoadEnabled(c) PROVE [Contract!Next]_Exchange
  <2> DEFINE t == IF enabled THEN [conn[c] EXCEPT !.pc = "asking", !.step = 1]
                  ELSE [conn[c] EXCEPT !.pc = "dialing", !.mode = "tunnel"]
  <2>1. conn[c].pc = "established" /\ conn' = [conn EXCEPT ![c] = t]
    BY <1>6 DEF LoadEnabled, Task
  <2>2. /\ t.pc \in {"asking", "dialing"}
        /\ t.received = conn[c].received /\ t.replied = conn[c].replied
        /\ t.contacts = conn[c].contacts
    BY <1>S, <2>1 DEF ConnType
  <2> HIDE DEF t
  <2>3. Shown(ExchangeOf(conn[c]), ExchangeOf(t))
    BY <1>S, <2>1, <2>2, Invisible DEF StatusOf, PC
  <2> QED
    BY <1>S, <2>1, <2>3, ShownIsStep
<1>7. ASSUME NEW c \in Conn, Intercept(c) PROVE [Contract!Next]_Exchange
  <2> DEFINE t == [conn[c] EXCEPT !.pc = "handshake", !.mode = "mitm"]
  <2>1. conn[c].pc = "asking" /\ conn' = [conn EXCEPT ![c] = t]
    BY <1>7 DEF Intercept, Task
  <2>2. /\ t.pc = "handshake"
        /\ t.received = conn[c].received /\ t.replied = conn[c].replied
        /\ t.contacts = conn[c].contacts
    BY <1>S, <2>1 DEF ConnType
  <2> HIDE DEF t
  <2>3. Shown(ExchangeOf(conn[c]), ExchangeOf(t))
    BY <1>S, <2>1, <2>2, Invisible DEF StatusOf, PC
  <2> QED
    BY <1>S, <2>1, <2>3, ShownIsStep
<1>8. ASSUME NEW c \in Conn, ReadHostless(c) PROVE [Contract!Next]_Exchange
  <2> DEFINE t == [conn[c] EXCEPT !.pc = "reply", !.mode = "plain",
                                  !.received = @ + 1, !.due = "badRequest"]
  <2>1. conn[c].pc = "reading" /\ conn' = [conn EXCEPT ![c] = t]
    BY <1>8 DEF ReadHostless, Task
  <2>2. /\ t.pc = "reply" /\ t.dialed = NoPort
        /\ t.received = conn[c].received + 1 /\ t.replied = conn[c].replied
        /\ t.contacts = conn[c].contacts
    BY <1>S, <2>1 DEF ConnType, Sound, Phase, Undecided
  <2> HIDE DEF t
  <2>3. Shown(ExchangeOf(conn[c]), ExchangeOf(t))
    BY <1>S, <2>1, <2>2, Requested DEF StatusOf, PC
  <2> QED
    BY <1>S, <2>1, <2>3, ShownIsStep
<1>9. ASSUME NEW c \in Conn, NEW w \in BOOLEAN, NEW p \in Ports, ReadHttp(c, w, p)
     PROVE  [Contract!Next]_Exchange
  <2> DEFINE t == [Opened(conn[c], w, p) EXCEPT !.mode = "plain"]
  <2>1. conn[c].pc = "reading" /\ conn' = [conn EXCEPT ![c] = t]
    BY <1>9 DEF ReadHttp
  <2>2. /\ t.pc = "onRequest"
        /\ t.received = conn[c].received + 1 /\ t.replied = conn[c].replied
        /\ t.contacts = conn[c].contacts
    BY <1>S, <2>1 DEF ConnType, Opened
  <2> HIDE DEF t
  <2>3. Shown(ExchangeOf(conn[c]), ExchangeOf(t))
    BY <1>S, <2>1, <2>2, Requested DEF StatusOf, PC
  <2> QED
    BY <1>S, <2>1, <2>3, ShownIsStep
<1>10. ASSUME NEW c \in Conn, NextRequest(c) PROVE [Contract!Next]_Exchange
  <2> DEFINE t == Opened(conn[c], FALSE, conn[c].port)
  <2>1. conn[c].pc = "idle" /\ conn' = [conn EXCEPT ![c] = t]
    BY <1>10 DEF NextRequest
  <2>2. /\ t.pc = "onRequest"
        /\ t.received = conn[c].received + 1 /\ t.replied = conn[c].replied
        /\ t.contacts = conn[c].contacts
    BY <1>S, <2>1 DEF ConnType, Opened
  <2> HIDE DEF t
  <2>3. Shown(ExchangeOf(conn[c]), ExchangeOf(t))
    BY <1>S, <2>1, <2>2, Requested DEF StatusOf, PC
  <2> QED
    BY <1>S, <2>1, <2>3, ShownIsStep
<1>11. ASSUME NEW c \in Conn, UpgradeInside(c) PROVE [Contract!Next]_Exchange
  <2> DEFINE t == [conn[c] EXCEPT !.pc = "reply", !.due = "switching", !.ws = TRUE]
  <2>1. conn[c].pc = "onRequest" /\ conn' = [conn EXCEPT ![c] = t]
    BY <1>11 DEF UpgradeInside, Task
  <2>2. /\ t.pc = "reply" /\ t.dialed = NoPort
        /\ t.received = conn[c].received /\ t.replied = conn[c].replied
        /\ t.contacts = conn[c].contacts
    BY <1>S, <2>1 DEF ConnType, Sound, Chain
  <2> HIDE DEF t
  <2>3. Shown(ExchangeOf(conn[c]), ExchangeOf(t))
    BY <1>S, <2>1, <2>2, Invisible DEF StatusOf, PC
  <2> QED
    BY <1>S, <2>1, <2>3, ShownIsStep
<1>12. ASSUME NEW c \in Conn, Forward(c) PROVE [Contract!Next]_Exchange
  <2> DEFINE t == [conn[c] EXCEPT !.pc = "upstream", !.contacts = @ + 1,
                                  !.dialed = IF conn[c].mode = "mitm" THEN TlsPort
                                                                      ELSE conn[c].port]
  <2>1. conn[c].pc = "onRequest" /\ conn' = [conn EXCEPT ![c] = t]
    BY <1>12 DEF Forward, Task
  <2>2. /\ t.pc = "upstream"
        /\ t.received = conn[c].received /\ t.replied = conn[c].replied
        /\ t.contacts = conn[c].contacts + 1
    BY <1>S, <2>1 DEF ConnType
  <2> HIDE DEF t
  <2>3. Shown(ExchangeOf(conn[c]), ExchangeOf(t))
    BY <2>1, <2>2, Contacted DEF StatusOf
  <2> QED
    BY <1>S, <2>1, <2>3, ShownIsStep
<1>13. ASSUME NEW c \in Conn, UpstreamAnswers(c) PROVE [Contract!Next]_Exchange
  <2> DEFINE t == [conn[c] EXCEPT !.pc = "onResponse", !.step = 1]
  <2>1. conn[c].pc = "upstream" /\ conn' = [conn EXCEPT ![c] = t]
    BY <1>13 DEF UpstreamAnswers, Task
  <2>2. /\ t.pc = "onResponse"
        /\ t.received = conn[c].received /\ t.replied = conn[c].replied
        /\ t.contacts = conn[c].contacts
    BY <1>S, <2>1 DEF ConnType
  <2> HIDE DEF t
  <2>3. Shown(ExchangeOf(conn[c]), ExchangeOf(t))
    BY <1>S, <2>1, <2>2, Invisible DEF StatusOf, PC
  <2> QED
    BY <1>S, <2>1, <2>3, ShownIsStep
<1>14. ASSUME NEW c \in Conn, ResponseReady(c) PROVE [Contract!Next]_Exchange
  <2> DEFINE t == [conn[c] EXCEPT !.pc = "reply", !.due = "upstream"]
  <2>1. conn[c].pc = "onResponse" /\ conn' = [conn EXCEPT ![c] = t]
    BY <1>14 DEF ResponseReady, Task
  <2>2. /\ t.pc = "reply" /\ t.dialed # NoPort
        /\ t.received = conn[c].received /\ t.replied = conn[c].replied
        /\ t.contacts = conn[c].contacts
    BY <1>S, <2>1 DEF ConnType, Sound, Chain
  <2> HIDE DEF t
  <2>3. Shown(ExchangeOf(conn[c]), ExchangeOf(t))
    BY <1>S, <2>1, <2>2, Invisible DEF StatusOf, PC
  <2> QED
    BY <1>S, <2>1, <2>3, ShownIsStep
<1>15. ASSUME NEW c \in Conn, BodyBreaks(c) PROVE [Contract!Next]_Exchange
  <2> DEFINE t == [conn[c] EXCEPT !.pc = "closed", !.fault = "error",
                                  !.replied = @ + 1]
  <2>1. conn[c].pc = "reply" /\ conn' = [conn EXCEPT ![c] = t]
    BY <1>15 DEF BodyBreaks, Task
  <2>2. /\ t.pc = "closed"
        /\ t.received = conn[c].received /\ t.replied = conn[c].replied + 1
        /\ t.contacts = conn[c].contacts
    BY <1>S, <2>1 DEF ConnType
  <2> HIDE DEF t
  <2>3. Shown(ExchangeOf(conn[c]), ExchangeOf(t))
    BY <1>S, <2>1, <2>2, Replied DEF StatusOf, PC
  <2> QED
    BY <1>S, <2>1, <2>3, ShownIsStep
<1>16. ASSUME NEW c \in Conn, WriteReply(c) PROVE [Contract!Next]_Exchange
  <2>1. PICK q \in AfterReply(conn[c]) :
          Task(c, "reply", [conn[c] EXCEPT !.pc = q, !.replied = @ + 1])
    BY <1>16 DEF WriteReply
  <2> DEFINE t == [conn[c] EXCEPT !.pc = q, !.replied = @ + 1]
  <2>2. conn[c].pc = "reply" /\ conn' = [conn EXCEPT ![c] = t]
    BY <2>1 DEF Task
  <2>3. /\ t.pc \in {"idle", "wsDial", "relay", "closed"}
        /\ t.received = conn[c].received /\ t.replied = conn[c].replied + 1
        /\ t.contacts = conn[c].contacts
    BY <1>S, <2>2 DEF ConnType, AfterReply
  <2> HIDE DEF t
  <2>4. Shown(ExchangeOf(conn[c]), ExchangeOf(t))
    BY <1>S, <2>2, <2>3, Replied DEF StatusOf, PC
  <2> QED
    BY <1>S, <2>2, <2>4, ShownIsStep
<1>17. ASSUME NEW c \in Conn, DialTunnel(c) PROVE [Contract!Next]_Exchange
  <2>1. PICK q \in {"tunnel", "closed"} :
          Task(c, "dialing", [conn[c] EXCEPT !.pc = q, !.dialed = conn[c].port])
    BY <1>17 DEF DialTunnel
  <2> DEFINE t == [conn[c] EXCEPT !.pc = q, !.dialed = conn[c].port]
  <2>2. conn[c].pc = "dialing" /\ conn' = [conn EXCEPT ![c] = t]
    BY <2>1 DEF Task
  <2>3. /\ t.pc = q
        /\ t.received = conn[c].received /\ t.replied = conn[c].replied
        /\ t.contacts = conn[c].contacts
    BY <1>S, <2>2 DEF ConnType
  <2> HIDE DEF t
  <2>4. Shown(ExchangeOf(conn[c]), ExchangeOf(t))
    BY <1>S, <2>2, <2>3, Invisible, GivenUp DEF StatusOf, PC
  <2> QED
    BY <1>S, <2>2, <2>4, ShownIsStep
<1>18. ASSUME NEW c \in Conn, Handshake(c) PROVE [Contract!Next]_Exchange
  <2>1. PICK q \in {"idle", "closed"} :
          Task(c, "handshake", [conn[c] EXCEPT !.pc = q])
    BY <1>18 DEF Handshake
  <2> DEFINE t == [conn[c] EXCEPT !.pc = q]
  <2>2. conn[c].pc = "handshake" /\ conn' = [conn EXCEPT ![c] = t]
    BY <2>1 DEF Task
  <2>3. /\ t.pc = q
        /\ t.received = conn[c].received /\ t.replied = conn[c].replied
        /\ t.contacts = conn[c].contacts
    BY <1>S, <2>2 DEF ConnType
  <2> HIDE DEF t
  <2>4. Shown(ExchangeOf(conn[c]), ExchangeOf(t))
    BY <1>S, <2>2, <2>3, Invisible, GivenUp DEF StatusOf, PC
  <2> QED
    BY <1>S, <2>2, <2>4, ShownIsStep
<1>19. ASSUME NEW c \in Conn, ReadFails(c) PROVE [Contract!Next]_Exchange
  <2> DEFINE t == [conn[c] EXCEPT !.pc = "closed"]
  <2>1. conn[c].pc = "reading" /\ conn' = [conn EXCEPT ![c] = t]
    BY <1>19 DEF ReadFails, Task
  <2>2. /\ t.pc = "closed"
        /\ t.received = conn[c].received /\ t.replied = conn[c].replied
        /\ t.contacts = conn[c].contacts
    BY <1>S, <2>1 DEF ConnType
  <2> HIDE DEF t
  <2>3. Shown(ExchangeOf(conn[c]), ExchangeOf(t))
    BY <1>S, <2>1, <2>2, GivenUp DEF StatusOf, PC
  <2> QED
    BY <1>S, <2>1, <2>3, ShownIsStep
<1>20. ASSUME NEW c \in Conn, TunnelEnds(c) PROVE [Contract!Next]_Exchange
  <2> DEFINE t == [conn[c] EXCEPT !.pc = "closed"]
  <2>1. conn[c].pc = "tunnel" /\ conn' = [conn EXCEPT ![c] = t]
    BY <1>20 DEF TunnelEnds, Task
  <2>2. /\ t.pc = "closed"
        /\ t.received = conn[c].received /\ t.replied = conn[c].replied
        /\ t.contacts = conn[c].contacts
    BY <1>S, <2>1 DEF ConnType
  <2> HIDE DEF t
  <2>3. Shown(ExchangeOf(conn[c]), ExchangeOf(t))
    BY <1>S, <2>1, <2>2, GivenUp DEF StatusOf, PC
  <2> QED
    BY <1>S, <2>1, <2>3, ShownIsStep
<1>21. ASSUME NEW c \in Conn, KeepAliveEnds(c) PROVE [Contract!Next]_Exchange
  <2> DEFINE t == [conn[c] EXCEPT !.pc = "closed"]
  <2>1. conn[c].pc = "idle" /\ conn' = [conn EXCEPT ![c] = t]
    BY <1>21 DEF KeepAliveEnds, Task
  <2>2. /\ t.pc = "closed"
        /\ t.received = conn[c].received /\ t.replied = conn[c].replied
        /\ t.contacts = conn[c].contacts
    BY <1>S, <2>1 DEF ConnType
  <2> HIDE DEF t
  <2>3. Shown(ExchangeOf(conn[c]), ExchangeOf(t))
    BY <1>S, <2>1, <2>2, GivenUp DEF StatusOf, PC
  <2> QED
    BY <1>S, <2>1, <2>3, ShownIsStep
<1>22. ASSUME NEW c \in Conn, RelayEnds(c) PROVE [Contract!Next]_Exchange
  <2> DEFINE t == [conn[c] EXCEPT !.pc = "closed"]
  <2>1. conn[c].pc = "relay" /\ conn' = [conn EXCEPT ![c] = t]
    BY <1>22 DEF RelayEnds, Task
  <2>2. /\ t.pc = "closed"
        /\ t.received = conn[c].received /\ t.replied = conn[c].replied
        /\ t.contacts = conn[c].contacts
    BY <1>S, <2>1 DEF ConnType
  <2> HIDE DEF t
  <2>3. Shown(ExchangeOf(conn[c]), ExchangeOf(t))
    BY <1>S, <2>1, <2>2, GivenUp DEF StatusOf, PC
  <2> QED
    BY <1>S, <2>1, <2>3, ShownIsStep
<1>23. ASSUME NEW c \in Conn, RewriteFails(c) PROVE [Contract!Next]_Exchange
  <2> DEFINE t == [conn[c] EXCEPT !.pc = "closed", !.fault = "error"]
  <2>1. conn[c].pc = "onRequest" /\ conn' = [conn EXCEPT ![c] = t]
    BY <1>23 DEF RewriteFails, Task
  <2>2. /\ t.pc = "closed"
        /\ t.received = conn[c].received /\ t.replied = conn[c].replied
        /\ t.contacts = conn[c].contacts
    BY <1>S, <2>1 DEF ConnType
  <2> HIDE DEF t
  <2>3. Shown(ExchangeOf(conn[c]), ExchangeOf(t))
    BY <1>S, <2>1, <2>2, GivenUp DEF StatusOf, PC
  <2> QED
    BY <1>S, <2>1, <2>3, ShownIsStep
<1>24. ASSUME NEW c \in Conn, ClientLeaves(c) PROVE [Contract!Next]_Exchange
  <2> DEFINE t == [conn[c] EXCEPT !.pc = "closed", !.fault = "abort"]
  <2>1. conn[c].pc \in PC \ {"closed"} /\ conn' = [conn EXCEPT ![c] = t]
    BY <1>24 DEF ClientLeaves, Task, PC
  <2>2. /\ t.pc = "closed"
        /\ t.received = conn[c].received /\ t.replied = conn[c].replied
        /\ t.contacts = conn[c].contacts
    BY <1>S, <2>1 DEF ConnType
  <2> HIDE DEF t
  <2>3. Shown(ExchangeOf(conn[c]), ExchangeOf(t))
    BY <2>1, <2>2, GivenUp
  <2> QED
    BY <1>S, <2>1, <2>3, ShownIsStep
<1>25. ASSUME NEW c \in Conn, HandlerPanics(c) PROVE [Contract!Next]_Exchange
  <2> DEFINE t == [conn[c] EXCEPT !.pc = "closed", !.fault = "abort"]
  <2>1. conn[c].pc \in PC \ {"closed"} /\ conn' = [conn EXCEPT ![c] = t]
    BY <1>25 DEF HandlerPanics, Task, PC
  <2>2. /\ t.pc = "closed"
        /\ t.received = conn[c].received /\ t.replied = conn[c].replied
        /\ t.contacts = conn[c].contacts
    BY <1>S, <2>1 DEF ConnType
  <2> HIDE DEF t
  <2>3. Shown(ExchangeOf(conn[c]), ExchangeOf(t))
    BY <2>1, <2>2, GivenUp
  <2> QED
    BY <1>S, <2>1, <2>3, ShownIsStep
<1>26. ASSUME NEW c \in Conn, DialWebSocket(c) PROVE [Contract!Next]_Exchange
  <2>1. PICK q \in {"relay", "closed"} :
          Task(c, "wsDial", [conn[c] EXCEPT !.pc = q, !.dialed = TlsPort, !.contacts = @ + 1])
    BY <1>26 DEF DialWebSocket
  <2> DEFINE t == [conn[c] EXCEPT !.pc = q, !.dialed = TlsPort, !.contacts = @ + 1]
  <2>2. conn[c].pc = "wsDial" /\ conn' = [conn EXCEPT ![c] = t]
    BY <2>1 DEF Task
  <2>3. /\ t.pc = q
        /\ t.received = conn[c].received /\ t.replied = conn[c].replied
        /\ t.contacts = conn[c].contacts + 1
    BY <1>S, <2>2 DEF ConnType
  <2>4. conn[c].contacts < conn[c].received
    BY <1>S, <2>2 DEF Sound, Chain, Books
  <2> HIDE DEF t
  <2>5. StatusOf(conn[c]) = "upgraded" /\ StatusOf(t) \in {"upgraded", "gone"}
    BY <2>2, <2>3 DEF StatusOf
  <2>6. Shown(ExchangeOf(conn[c]), ExchangeOf(t))
    BY <2>3, <2>4, <2>5, UpgradeContacted
  <2> QED
    BY <1>S, <2>2, <2>6, ShownIsStep
<1>27. ASSUME NEW c \in Conn, AskHandler(c) PROVE [Contract!Next]_Exchange
  <2> DEFINE agree == [conn[c] EXCEPT !.step = @ + 1, !.agreed = @ \cup {conn[c].step}]
             pass == [conn[c] EXCEPT !.pc = "dialing", !.mode = "tunnel"]
  <2>1. /\ conn[c].pc = "asking"
        /\ conn' = [conn EXCEPT ![c] = agree] \/ conn' = [conn EXCEPT ![c] = pass]
    BY <1>27 DEF AskHandler, Task
  <2>2. /\ agree.pc = "asking" /\ agree.received = conn[c].received
        /\ agree.replied = conn[c].replied /\ agree.contacts = conn[c].contacts
    BY <1>S, <2>1 DEF ConnType
  <2>3. /\ pass.pc = "dialing" /\ pass.received = conn[c].received
        /\ pass.replied = conn[c].replied /\ pass.contacts = conn[c].contacts
    BY <1>S, <2>1 DEF ConnType
  <2> HIDE DEF agree, pass
  <2>4. /\ Shown(ExchangeOf(conn[c]), ExchangeOf(agree))
        /\ Shown(ExchangeOf(conn[c]), ExchangeOf(pass))
    BY <2>1, <2>2, <2>3, Invisible DEF StatusOf
  <2> QED
    BY <1>S, <2>1, <2>4, ShownIsStep
<1>28. ASSUME NEW c \in Conn, UpstreamFails(c) PROVE [Contract!Next]_Exchange
  <2>1. conn[c].pc = "upstream" /\ conn' = [conn EXCEPT ![c] = ErrorExit(conn[c])]
    BY <1>28 DEF UpstreamFails, Task
  <2>2. conn[c].dialed # NoPort
    BY <1>S, <2>1 DEF Sound, Chain
  <2>3. Shown(ExchangeOf(conn[c]), ExchangeOf(ErrorExit(conn[c])))
    BY <1>S, <2>1, <2>2, Failed DEF InChain
  <2> QED
    BY <1>S, <2>1, <2>3, ShownIsStep
<1>29. ASSUME NEW c \in Conn, RequestHook(c) PROVE [Contract!Next]_Exchange
  <2> DEFINE r == [conn[c] EXCEPT !.asked = @ \cup {conn[c].step}]
             on == [r EXCEPT !.step = @ + 1]
             short == [r EXCEPT !.pc = "reply", !.due = "short"]
  <2>1. conn[c].pc = "onRequest" /\ conn[c].step \in Handlers
    BY <1>29 DEF RequestHook, Task
  <2>2. r \in ConnType
    BY <1>S, <2>1 DEF ConnType
  <2>3. /\ r.pc = conn[c].pc /\ r.mode = conn[c].mode /\ r.dialed = conn[c].dialed
        /\ r.received = conn[c].received /\ r.replied = conn[c].replied
        /\ r.contacts = conn[c].contacts
    BY <1>S DEF ConnType
  <2>4. \/ conn' = [conn EXCEPT ![c] = on]
        \/ conn' = [conn EXCEPT ![c] = short]
        \/ conn' = [conn EXCEPT ![c] = ErrorExit(r)]
    BY <1>29 DEF RequestHook, Task
  <2>5. conn[c].dialed = NoPort
    BY <1>S, <2>1 DEF Sound, Chain
  <2> HIDE DEF r
  <2>6. Shown(ExchangeOf(conn[c]), ExchangeOf(ErrorExit(r)))
    BY <1>S, <2>1, <2>2, <2>3, <2>5, Failed DEF InChain
  <2>7. /\ on.pc = r.pc /\ on.received = r.received /\ on.replied = r.replied
        /\ on.contacts = r.contacts
    BY <2>2 DEF ConnType
  <2>8. /\ short.pc = "reply" /\ short.received = r.received /\ short.replied = r.replied
        /\ short.contacts = r.contacts /\ short.dialed = r.dialed
    BY <2>2 DEF ConnType
  <2> HIDE DEF on, short
  <2>9. /\ Shown(ExchangeOf(conn[c]), ExchangeOf(on))
        /\ Shown(ExchangeOf(conn[c]), ExchangeOf(short))
    BY <2>1, <2>3, <2>5, <2>7, <2>8, Invisible DEF StatusOf
  <2> QED
    BY <1>S, <2>4, <2>6, <2>9, ShownIsStep
<1>30. ASSUME NEW c \in Conn, ResponseHook(c) PROVE [Contract!Next]_Exchange
  <2> DEFINE r == [conn[c] EXCEPT !.told = @ \cup {conn[c].step}]
             on == [r EXCEPT !.step = @ + 1]
  <2>1. conn[c].pc = "onResponse" /\ conn[c].step \in Handlers
    BY <1>30 DEF ResponseHook, Task
  <2>2. r \in ConnType
    BY <1>S, <2>1 DEF ConnType
  <2>3. /\ r.pc = conn[c].pc /\ r.mode = conn[c].mode /\ r.dialed = conn[c].dialed
        /\ r.received = conn[c].received /\ r.replied = conn[c].replied
        /\ r.contacts = conn[c].contacts
    BY <1>S DEF ConnType
  <2>4. \/ conn' = [conn EXCEPT ![c] = on]
        \/ conn' = [conn EXCEPT ![c] = ErrorExit(r)]
    BY <1>30 DEF ResponseHook, Task
  <2>5. conn[c].dialed # NoPort
    BY <1>S, <2>1 DEF Sound, Chain
  <2> HIDE DEF r
  <2>6. Shown(ExchangeOf(conn[c]), ExchangeOf(ErrorExit(r)))
    BY <1>S, <2>1, <2>2, <2>3, <2>5, Failed DEF InChain
  <2>7. /\ on.pc = r.pc /\ on.received = r.received /\ on.replied = r.replied
        /\ on.contacts = r.contacts
    BY <2>2 DEF ConnType
  <2> HIDE DEF on
  <2>8. Shown(ExchangeOf(conn[c]), ExchangeOf(on))
    BY <2>1, <2>3, <2>7, Invisible DEF StatusOf
  <2> QED
    BY <1>S, <2>4, <2>6, <2>8, ShownIsStep
<1> QED
  BY <1>1, <1>2, <1>3, <1>4, <1>5, <1>6, <1>7, <1>8, <1>9, <1>10, <1>11, <1>12,
     <1>13, <1>14, <1>15, <1>16, <1>17, <1>18, <1>19, <1>20, <1>21, <1>22,
     <1>23, <1>24, <1>25, <1>26, <1>27, <1>28, <1>29, <1>30
  DEF Next, ProxyStep, WrittenStep, UpstreamStep, EnvironmentStep, AcceptFails, vars

\* The pipeline implements the contract: one request at a time on a connection,
\* at most one reply and one upstream contact for each.
THEOREM ContractImplemented == Spec => ImplementsContract
<1>1. Init => Contract!Init
  BY DEF Init, Fresh, Contract!Init, ExchangeOf, StatusOf
<1>2. IInv /\ [Next]_vars => [Contract!Next]_Exchange
  BY StepIsShown
<1> QED
  BY <1>1, <1>2, Inductive, PTL
  DEF Spec, ImplementsContract, Contract!Spec, Exchange

\* ... and so requests, replies and upstream contacts stay balanced: no reply
\* without a request, no request overtaken, none sent upstream twice.
THEOREM BalanceAlways == Spec => []ExchangesBalanced
<1>1. IInv => ExchangesBalanced
  <2> SUFFICES ASSUME IInv, NEW c \in Conn
               PROVE  LET e == ExchangeOf(conn[c]) IN
                        /\ e.replies <= e.requests /\ e.requests <= e.replies + 1
                        /\ e.contacts <= e.requests
                        /\ e.status \in {"open", "forwarded"} => e.requests = e.replies + 1
                        /\ e.status \in {"idle", "upgraded"} => e.requests = e.replies
                        /\ e.status = "open" => e.contacts < e.requests
    BY DEF ExchangesBalanced, Contract!Balanced
  <2> DEFINE s == conn[c]
  <2>1. s \in ConnType /\ Books(s)
    BY DEF IInv, Sound
  <2>2. /\ StatusOf(s) \in {"open", "forwarded"} <=> s.pc \in Serving
        /\ StatusOf(s) = "gone" <=> s.pc = "closed"
        /\ StatusOf(s) = "open" => s.pc = "onRequest" \/ s.dialed = NoPort
    BY <2>1 DEF StatusOf, ConnType, PC, Serving, InChain
  <2>3. s.received \in Nat /\ s.replied \in Nat /\ s.contacts \in Nat
    BY <2>1 DEF ConnType
  <2>4. s.pc = "onRequest" => s.dialed = NoPort
    BY DEF IInv, Sound, Chain
  <2> HIDE DEF s
  <2>5. /\ s.replied <= s.received /\ s.received <= s.replied + 1
        /\ s.contacts <= s.received
    BY <2>1, <2>3 DEF Books
  <2>6. s.pc \in Serving => s.received = s.replied + 1
    BY <2>1 DEF Books
  <2>7. s.pc \notin Serving \cup {"closed"} => s.received = s.replied
    BY <2>1 DEF Books
  <2>8. StatusOf(s) = "open" => s.contacts < s.received
    BY <2>1, <2>2, <2>4 DEF Books, Serving
  <2>9. StatusOf(s) \in {"idle", "upgraded"} => s.pc \notin Serving \cup {"closed"}
    BY <2>2
  <2> QED
    BY <2>2, <2>5, <2>6, <2>7, <2>8, <2>9 DEF ExchangeOf, s
<1> QED
  BY <1>1, Inductive, PTL
============================================================================
