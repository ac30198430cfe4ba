---------------------------- MODULE MessagePath ----------------------------
(***************************************************************************)
(* One message through the proxy, from the bytes its sender puts on the    *)
(* wire to what its receiver makes of the bytes it gets: how it is read,   *)
(* what DecodeHandler or a repeater does to it, how it is written.         *)
(*                                                                         *)
(*   upgrade_reply  the answer to a plain upgrade: read_full_response,     *)
(*                  parse_raw_response, serialize_response                 *)
(*   plain_reply    the answer to any other plain request: a stream of the *)
(*                  Hyper client, serialize_response_head and              *)
(*                  write_body_to_stream                                   *)
(*   tunnel_reply   inside a tunnel: a stream of the Hyper client given to *)
(*                  the Hyper server                                       *)
(*   answer         a handler's own answer on the plain path               *)
(*   plain_request  a plain request: one read, parse_raw_request, the Hyper*)
(*                  client                                                 *)
(***************************************************************************)
EXTENDS BodyReader, Decoder

CONSTANTS
  Ways,            \* the ways there may be
  Chains           \* "none", "decode" (DecodeHandler), "repeat" (and encode_body)

VARIABLES
  way, chain,      \* never change
  stage,           \* receive, chain, write; done, dropped, bad_gateway, refused
  carried,         \* the message in the handler chain
  view             \* what the receiver makes of it

vars == <<msg, rest, read, way, chain, stage, carried, view>>

\* The encodings of a message, the innermost first.  A body is its content, coded;
\* what stands for a body tells its layers apart if they are all different and have
\* none of their names in the content, or where a chunk has its size.
Layers(m) == {i \in DOMAIN FlattenSeq(m.ce) : FlattenSeq(m.ce)[i] # "identity"}
Layer(m, i) == Canonical(FlattenSeq(m.ce)[i])

ASSUME PathAssumption ==
  /\ Ways \subseteq {"upgrade_reply", "plain_reply", "tunnel_reply", "answer", "plain_request"}
  /\ Chains \subseteq {"none", "decode", "repeat"}
  /\ Codings \cup {"identity"} \subseteq Unit
  /\ \A m \in Messages :
       /\ m.ce \in Seq(Seq(Unit) \ {<<>>}) /\ m.content \in Seq(Unit)
       /\ m.body = Coded(m.content, m.ce)
       /\ \A i, j \in Layers(m) : Layer(m, i) = Layer(m, j) => i = j
       /\ \A i \in Layers(m) : Layer(m, i) \notin ToSet(m.content)
       /\ \A i \in DOMAIN m.chunks : m.chunks[i].size \notin Codings

Request == way = "plain_request"
Nothing == [te |-> FALSE, cl |-> None, ce |-> <<>>, nobody |-> FALSE, body |-> <<>>,
            streaming |-> FALSE, broken |-> FALSE]
Unseen == [kind |-> "none", body |-> <<>>, ce |-> <<>>]

\* A request has no status, and without framing no body; a handler's answer is there
\* whole.
Suits(m, w) ==
  /\ w = "plain_request" => m.status = "ok" /\ (m.framing = "close" => m.body = <<>>)
  /\ w # "plain_request" /\ ~Delimited(m) => m.extra = <<>>
  /\ w = "answer" => Complete(m) /\ m.end = "eof" /\ m.framing = "length"

Init ==
  /\ way \in Ways /\ chain \in Chains
  /\ ReaderInit
  /\ Suits(msg, way)
  /\ stage = "receive"
  /\ carried = Nothing
  /\ view = Unseen

\* The part of the head that was received, as parsed.
Parsed(n) == [Nothing EXCEPT !.te = Chunked(n), !.cl = ContentLength(n),
                             !.nobody = NoBodyStatus(n),
                             !.ce = IF n = HeadLen THEN msg.ce ELSE <<>>]
----------------------------------------------------------------------------
(* Receiving.                                                              *)

ReadReply ==
  /\ way = "upgrade_reply" /\ stage = "receive"
  /\ ReaderNext
  /\ UNCHANGED <<way, chain, stage, carried, view>>

\* parse_raw_response.  A status line cut within the code is an invalid status, on
\* which the builder's unwrap() panics; without a code it is 200.
ParseReply ==
  /\ way = "upgrade_reply" /\ stage = "receive" /\ ReaderDone
  /\ \/ /\ read.pc = "ok"
        /\ stage' = "chain"
        /\ carried' = [Parsed(read.head) EXCEPT !.body = read.body]
     \/ /\ read.pc # "ok" \/ read.head = 1
        /\ stage' = "dropped"
        /\ UNCHANGED carried
  /\ UNCHANGED <<msg, rest, read, way, chain, view>>

\* The sender has fallen silent in the middle of the message; for Hyper also within a
\* chunk that is said to be longer than anything sent.
Oversize == \E i \in DOMAIN msg.chunks :
              /\ SizeOf(msg.chunks[i].size) >= Word - 2
              /\ \A j \in 1..i - 1 : SizeOf(msg.chunks[j].size) # -1
Stalls ==
  /\ msg.end = "open"
  /\ \/ ~Complete(msg) \/ ~Delimited(msg)
     \/ way \in {"plain_reply", "tunnel_reply"} /\ Oversize

BadSize == \E i \in DOMAIN msg.chunks :
             SizeOf(msg.chunks[i].size) \notin 0..(Word - 3)

\* The Hyper client reads the head, or fails; the body is a stream that breaks if
\* the message is not whole, as far as its framing tells (what came of a body in
\* chunks before it broke is left out).
ReceiveStream ==
  /\ way \in {"plain_reply", "tunnel_reply"} /\ stage = "receive"
  /\ IF msg.cut < HeadLen
       THEN /\ msg.end # "open"
            /\ stage' = IF way = "tunnel_reply" THEN "bad_gateway" ELSE "dropped"
            /\ UNCHANGED carried
       ELSE LET broken == IF Delimited(msg) THEN ~Complete(msg) \/ BadSize
                          ELSE msg.end = "reset"
            IN  /\ stage' = "chain"
                /\ carried' =
                     [Parsed(HeadLen) EXCEPT
                        !.body = IF Complete(msg) THEN BodyOf(msg)
                                 ELSE IF msg.framing \in {"chunked", "both"} THEN <<>>
                                 ELSE SubSeq(msg.body, 1, msg.cut - HeadLen),
                        !.streaming = TRUE, !.broken = broken]
  /\ UNCHANGED <<msg, rest, read, way, chain, view>>

\* handle_request answers; only tests and the examples show what a handler's body is,
\* the type allows both.
HandlerAnswers ==
  /\ way = "answer" /\ stage = "receive"
  /\ \E s \in BOOLEAN :
       carried' = [Parsed(HeadLen) EXCEPT !.body = BodyOf(msg), !.streaming = s]
  /\ stage' = "write"
  /\ UNCHANGED <<msg, rest, read, way, chain, view>>

\* handle_client and parse_raw_request: whatever one read returns is the request; a
\* body is what follows the empty line, still in chunks if it was.  Cut before its
\* Host it is refused with 400, unless the request line names the host; on a cut
\* request line the builder's unwrap() may panic.
FirstRead ==
  /\ Request /\ stage = "receive"
  /\ \E n \in 1..Len(rest) :
       LET k == IF n < HeadLen THEN n ELSE HeadLen IN
       /\ rest' = SubSeq(rest, n + 1, Len(rest))
       /\ read' = [read EXCEPT !.head = k]
       /\ \/ /\ stage' = "chain"
             /\ carried' = [Parsed(k) EXCEPT !.body = SubSeq(rest, k + 1, n)]
          \/ /\ \/ k < HeadLen /\ stage' = "refused"
                \/ k = 1 /\ stage' = "dropped"
             /\ UNCHANGED carried
  /\ UNCHANGED <<msg, way, chain, view>>

\* A client that ends without a byte is answered 400, one that resets is left.
ReadNothing ==
  /\ Request /\ stage = "receive"
  /\ rest = <<>> /\ msg.end # "open"
  /\ stage' = IF msg.end = "eof" THEN "refused" ELSE "dropped"
  /\ UNCHANGED <<msg, rest, read, way, chain, carried, view>>
----------------------------------------------------------------------------
(* The handler chain.                                                      *)

\* Of a message that was coded, the repeater restores the first encoding.
Handled ==
  CASE chain = "none" -> {carried}
    [] chain = "decode" \/ ~ShouldDecode(carried) -> DecodeMessage(carried)
    [] OTHER -> UNION {EncodeMessage(m, FlattenSeq(carried.ce)[1]) :
                         m \in DecodeMessage(carried)}

RunChain ==
  /\ stage = "chain"
  /\ (chain # "none" /\ ShouldDecode(carried)) => ~(carried.streaming /\ Stalls)
  /\ IF Handled = {}
       THEN /\ stage' = IF way = "tunnel_reply" THEN "bad_gateway" ELSE "dropped"
            /\ UNCHANGED carried
       ELSE /\ stage' = "write"
            /\ carried' \in Handled
  /\ UNCHANGED <<msg, rest, read, way, chain, view>>
----------------------------------------------------------------------------
(* Writing, and the receiver.                                              *)

Whole(b) == [kind |-> "whole", body |-> b, ce |-> carried.ce]
Short == [kind |-> "short", body |-> <<>>, ce |-> carried.ce]
Garbled == [kind |-> "garbled", body |-> <<>>, ce |-> carried.ce]

\* The head as it is and these bytes, then the end of the connection: a client takes
\* bytes without chunk framing for chunks if the head says so.
AsWritten(bytes) ==
  CASE carried.nobody -> Whole(<<>>)
    [] ~carried.nobody /\ carried.te -> Garbled
    [] ~carried.nobody /\ ~carried.te /\ carried.cl # None ->
         IF Len(bytes) >= carried.cl THEN Whole(SubSeq(bytes, 1, carried.cl)) ELSE Short
    [] OTHER -> Whole(bytes)

\* serialize_response: head and buffered body; a stream is left out.
Serialized == AsWritten(IF carried.streaming THEN <<>> ELSE carried.body)

\* The Hyper server frames the body itself; a broken stream aborts the connection,
\* and so does a head with both framings, or a body that is no longer as long as the
\* head says.
ByHyperServer ==
  IF \/ carried.broken
     \/ /\ ~carried.nobody /\ carried.cl # None
        /\ carried.te \/ carried.cl # Len(carried.body) THEN Short
  ELSE Whole(IF carried.nobody THEN <<>> ELSE carried.body)

\* The Hyper client keeps the framing of the head it is given: it wraps the body in
\* chunks, or holds it to its length.  What was in chunks is so once more, and the
\* receiver, undoing one layer, has the others for content.  Without a body
\* Transfer-Encoding is dropped.
ByHyperClient ==
  LET b == carried.body
      wrapped == carried.te /\ b # <<>>
  IN  IF ~wrapped /\ carried.cl # None
        THEN IF Len(b) >= carried.cl THEN Whole(SubSeq(b, 1, carried.cl)) ELSE Short
        ELSE Whole(b)

Write ==
  /\ stage = "write"
  /\ ~(carried.streaming /\ Stalls)
  /\ view' = CASE way \in {"upgrade_reply", "answer"} -> Serialized
               [] way = "plain_reply" -> AsWritten(carried.body)
               [] way = "tunnel_reply" -> ByHyperServer
               [] OTHER -> ByHyperClient
  /\ stage' = "done"
  /\ UNCHANGED <<msg, rest, read, way, chain, carried>>

Next == \/ ReadReply \/ ParseReply \/ ReceiveStream \/ HandlerAnswers \/ FirstRead \/ ReadNothing
        \/ RunChain \/ Write

Spec == Init /\ [][Next]_vars

\* The task is polled, and the kernel hands over what has arrived.
FairSpec == Spec /\ WF_vars(Next)
----------------------------------------------------------------------------
\* Type invariant: heads and bodies are well formed wherever the message is (the
\* locals of read_full_response and of handle_http).
TypeOK ==
  /\ way \in Ways /\ chain \in Chains
  /\ stage \in {"receive", "chain", "write", "done", "dropped", "bad_gateway", "refused"}
  /\ read.pc \in {"head", "size", "data", "exact", "close", "ok", "error", "panicked"}
  /\ read.need \in 0..(Word - 1) /\ read.head \in 0..HeadLen
  /\ carried.cl \in {None} \cup 0..Len(msg.body)
  /\ {carried.te, carried.nobody, carried.streaming, carried.broken} \subseteq BOOLEAN
  /\ view.kind \in {"none", "whole", "short", "garbled"}

\* The first read of a request held all of it; and of the next, which is taken for
\* its body if it has no framing, or loses it to DecodeHandler.
Size(m) == HeadLen + Len(Payload(m))
Taken == msg.cut - Len(rest)
HeldAll == Taken >= Size(msg)
Tokens == ToSet(FlattenSeq(msg.ce))
Overread == /\ Taken > Size(msg)
            /\ ~Delimited(msg) \/ (chain # "none" /\ Tokens = {"identity"})

\* The proxy had the message whole: sent to its end and, if the end of the
\* connection is the end of the message, ended in order.
HadAll ==
  CASE Request -> HeldAll /\ ~Overread
    [] way = "answer" -> ~carried.streaming
    [] OTHER -> Complete(msg) /\ ~BadSize /\ (Delimited(msg) \/ msg.end = "eof")

\* The receiver, undoing the encodings its head names, has what the sender meant.
Intact == view.body = IF msg.status = "nobody" THEN <<>> ELSE Coded(msg.content, view.ce)

\* A request in chunks, which parse_raw_request takes for its own body.
ChunkedRequest == Request /\ InChunks(msg)

\* Content is kept: a receiver that takes a whole message has the sender's content,
\* however the wire cut it and whether the chain passed, decoded (DecodeHandler) or
\* re-encoded it (encode_body); all but a plain request in chunks.
ContentKept == (view.kind = "whole" /\ HadAll /\ ~ChunkedRequest) => Intact

\* A receiver takes something else for the whole message only if the connection's
\* end delimits the message; if a head cut short was taken as it is
\* (read_full_response, the first read of handle_client), or a request came in chunks
\* (parse_raw_request does not undo them), or the next request came with it; or if
\* decoders that ask for no end of stream worked on a body cut short.
SilentDamageExplained ==
  (view.kind = "whole" /\ ~Intact) =>
    \/ ~Request /\ ~Delimited(msg)
    \/ way = "upgrade_reply" /\ read.head < HeadLen
    \/ Request /\ ~HeldAll /\ read.head = 1
    \/ ChunkedRequest
    \/ Request /\ Overread
    \/ /\ way \in {"upgrade_reply", "plain_request"} /\ chain # "none" /\ ~HadAll
       /\ \A e \in Tokens : e = "identity" \/ Canonical(e) \in Lenient

\* A message the proxy had whole can be read by its receiver whatever the chain did
\* to it (strip_encoding_headers), but for a reply that came in chunks and is written
\* without (write_body_to_stream), or came in a tunnel with a length as well.
Readable ==
  (stage = "done" /\ HadAll) =>
    \/ view.kind = "whole"
    \/ way \in {"upgrade_reply", "plain_reply"} /\ msg.framing \in {"chunked", "both"}
    \/ way = "tunnel_reply" /\ msg.framing = "both"

\* What ends an exchange without its message: a sender's fault, an encoding
\* DecodeHandler does not know (nor encode_body, identity), coding named on a message
\* without a body, a chunked request, which is decoded in its chunks, and the next
\* request in the same read, in which zstd looks for another of its frames.
DropsExplained ==
  stage \in {"dropped", "bad_gateway"} =>
    \/ ~HadAll
    \/ chain # "none" /\ ~(Tokens \subseteq Codings \cup {"x-gzip", "identity"})
    \/ chain = "repeat" /\ FlattenSeq(msg.ce)[1] = "identity"
    \/ chain # "none" /\ msg.ce # <<>> /\ (msg.status = "nobody" \/ msg.body = <<>>)
    \/ chain # "none" /\ ChunkedRequest
    \/ chain # "none" /\ Request /\ Taken > Size(msg) /\ "zstd" \in Tokens

\* Unless the sender falls silent in the middle of it, a message is dealt with (no
\* loop of the readers waits for more than there is).
Settles == <>(Stalls \/ stage \in {"done", "dropped", "bad_gateway", "refused"})
============================================================================
