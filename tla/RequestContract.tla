-------------------------- MODULE RequestContract --------------------------
(***************************************************************************)
(* What the proxy promises the two ends of a connection, whatever handlers *)
(* it runs and whether the bytes arrive in the clear or through an         *)
(* intercepted TLS tunnel.  Only what can be seen from outside appears: the*)
(* requests a client has sent, the replies it has received and the number  *)
(* of times an upstream was contacted for them.                            *)
(*                                                                         *)
(*   - requests on a connection are served one at a time;                  *)
(*   - each gets at most one reply and causes at most one upstream contact;*)
(*   - a request is either answered locally or, once forwarded, answered   *)
(*     from the upstream; a WebSocket upgrade ends the exchange of requests*)
(*   - at any moment the connection may be given up, with or without a     *)
(*     reply to the request in progress.                                   *)
(***************************************************************************)
EXTENDS Naturals

CONSTANT Conn                \* the client connections

VARIABLE exchange            \* per connection: its status and three counters

Status == {"idle", "open", "forwarded", "upgraded", "gone"}

ContractType == [Conn -> [status : Status, requests : Nat,
                          replies : Nat, contacts : Nat]]

Init == exchange = [c \in Conn |-> [status |-> "idle", requests |-> 0,
                                    replies |-> 0, contacts |-> 0]]

Move(c, from, e) ==
  /\ exchange[c].status \in from
  /\ exchange' = [exchange EXCEPT ![c] = e]

\* The client's next request arrives; the previous one has been answered.
Request(c) ==
  Move(c, {"idle"}, [exchange[c] EXCEPT !.status = "open", !.requests = @ + 1])

\* The request goes to the upstream it names.
Contact(c) ==
  Move(c, {"open"}, [exchange[c] EXCEPT !.status = "forwarded", !.contacts = @ + 1])

\* A reply: the connection stays for another request, closes, or becomes a
\* WebSocket.
Answer(c) ==
  \E then \in {"idle", "upgraded", "gone"} :
    Move(c, {"open", "forwarded"},
         [exchange[c] EXCEPT !.status = then, !.replies = @ + 1])

\* An upgraded connection may reach its upstream only after the reply, and once.
ContactUpgraded(c) ==
  /\ exchange[c].contacts < exchange[c].requests
  /\ \E then \in {"upgraded", "gone"} :
       Move(c, {"upgraded"},
            [exchange[c] EXCEPT !.status = then, !.contacts = @ + 1])

GiveUp(c) ==
  Move(c, Status \ {"gone"}, [exchange[c] EXCEPT !.status = "gone"])

Next == \E c \in Conn : \/ Request(c) \/ Contact(c) \/ Answer(c)
                        \/ ContactUpgraded(c) \/ GiveUp(c)

Spec == Init /\ [][Next]_exchange
----------------------------------------------------------------------------
\* What follows from the contract for each end: no reply without a request,
\* no request overtaking another, no request reaching an upstream twice.
Balanced ==
  \A c \in Conn : LET e == exchange[c] IN
    /\ e.replies <= e.requests /\ e.requests <= e.replies + 1
    /\ e.contacts <= e.requests
    /\ e.status \in {"open", "forwarded"} => e.requests = e.replies + 1
    /\ e.status \in {"idle", "upgraded"} => e.requests = e.replies
    /\ e.status = "open" => e.contacts < e.requests
============================================================================
