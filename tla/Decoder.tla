------------------------------ MODULE Decoder ------------------------------
(***************************************************************************)
(* decoder.rs: undoing and redoing the Content-Encoding of a body.         *)
(*                                                                         *)
(* A body is a sequence of units.  Encoding wraps it in the name of the    *)
(* encoding, at both ends: enough to tell a body that is coded, coded in   *)
(* another order, cut short, or not coded at all.  A header is the sequence*)
(* of its Content-Encoding lines, each the sequence of its tokens.         *)
(***************************************************************************)
EXTENDS Integers, Sequences, SequencesExt

CONSTANT Lenient    \* the encodings whose decoder takes a truncated body, or none,
                    \* for a whole one: flate2's ZlibDecoder, "deflate"

None == -1          \* no Content-Length
Codings == {"gzip", "deflate", "br", "zstd"}

Canonical(e) == IF e = "x-gzip" THEN "gzip" ELSE e

\* The wire form of a body, its encodings applied in the order of the header.
EncodeOne(b, e) == IF e = "identity" THEN b ELSE <<Canonical(e)>> \o b \o <<Canonical(e)>>
Coded(content, lines) ==
  LET es == FlattenSeq(lines)
      upTo[i \in 0..Len(es)] == IF i = 0 THEN content ELSE EncodeOne(upTo[i - 1], es[i])
  IN  upTo[Len(es)]

Failed == [ok |-> FALSE, body |-> <<>>]
Decoded(b) == [ok |-> TRUE, body |-> b]

\* Faults: the lines are walked backwards but not their tokens; a truncated body
\* is taken as far as it goes.
Encodings_ByLine(lines) == FlattenSeq(Reverse(lines))

DecodeOne_Partial(r, e) ==
  IF ~r.ok \/ e = "identity" THEN r
  ELSE IF r.body # <<>> /\ Head(r.body) = Canonical(e)
         THEN Decoded(SelectSeq(r.body, LAMBDA u : u # Canonical(e)))
         ELSE Failed

\* `encodings`: the outermost encoding, the last of the header, first.
Encodings(lines) == Reverse(FlattenSeq(lines))

\* `pick_decoder` and one layer of the read: identity is skipped, an unknown or an
\* empty token is an error.  A decoder stops at the end of its stream, zstd's looks
\* for another.
DecodeOne(r, e) ==
  LET c == Canonical(e)
      n == Len(r.body)
      ends == {j \in 2..n : r.body[j] = c}
      starts == n > 0 /\ r.body[1] = c
  IN  IF ~r.ok \/ e = "identity" THEN r
      ELSE IF c \notin Codings THEN Failed
      ELSE CASE starts /\ ends # {} /\ (c = "zstd" => ends = {n}) ->
                  Decoded(SubSeq(r.body, 2, (CHOOSE j \in ends : \A k \in ends : j <= k) - 1))
             [] n = 0 /\ c \in Lenient -> r
             [] starts /\ ends = {} /\ c \in Lenient -> Decoded(Tail(r.body))
             [] OTHER -> Failed

\* Fault: only the outermost encoding is undone.
DecodeBody_Outermost(b, lines) == DecodeOne(Decoded(b), Encodings(lines)[1])

DecodeBody(b, lines) ==
  LET es == Encodings(lines)
      upTo[i \in 0..Len(es)] == IF i = 0 THEN Decoded(b) ELSE DecodeOne(upTo[i - 1], es[i])
  IN  upTo[Len(es)]

\* A message in the chain: its head, and a body that is buffered or a stream, which
\* may break after these units.
ShouldDecode(m) == m.ce # <<>> /\ m.cl # 0

\* Fault: the length of the coded body is left in the head.
Stripped_KeepsLength(m) == [m EXCEPT !.ce = <<>>]

\* strip_encoding_headers: Content-Encoding and Content-Length, no more.
Stripped(m) == [m EXCEPT !.ce = <<>>, !.cl = None]

\* decode_request and decode_response: the message, or none if it fails.
DecodeMessage(m) ==
  LET d == DecodeBody(m.body, m.ce) IN
  IF ~ShouldDecode(m) THEN {m}
  ELSE IF m.broken \/ ~d.ok THEN {}
  ELSE {[Stripped(m) EXCEPT !.body = d.body, !.streaming = FALSE]}

\* encode_body, and the header a repeater then sets: the encoding must be known (not
\* identity) and the body buffered.
EncodeMessage(m, e) ==
  IF m.streaming \/ Canonical(e) \notin Codings THEN {}
  ELSE {[m EXCEPT !.body = EncodeOne(m.body, e), !.ce = <<<<e>>>>]}
============================================================================
