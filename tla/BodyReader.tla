----------------------------- MODULE BodyReader ----------------------------
(***************************************************************************)
(* read_full_response (proxy.rs): the reader of an upstream's answer to an *)
(* upgrade.  A message is a sequence of units on the wire: three of head,  *)
(* the payload, and what may follow.  The wire gives up any number of them,*)
(* at most BufSize, to a read, so a unit may come with any of its          *)
(* neighbours or alone.                                                    *)
(*                                                                         *)
(* Head: "SL", a part of the status line; "FR", its rest and the headers of*)
(* framing; "HE", the other headers and the empty line.  A chunk is its    *)
(* size, "\n", its data, "\r" and "\n".                                    *)
(***************************************************************************)
EXTENDS Integers, Sequences, SequencesExt

CONSTANTS
  Unit,          \* what messages are made of
  BufSize,       \* units a read returns at most
  Word,          \* the values of usize: 2^64 in the code
  Messages       \* the messages a server may send

\* status "nobody" stands for 204 and 304; a message is cut after `cut` units, then
\* the connection ends, is reset, or stays open in silence.
Framings == {"chunked", "both", "length", "close"}

VARIABLES msg,   \* the message; never changes
          rest,  \* its units not yet read
          read   \* the reader: pc, buf, body, the bytes it needs, the head it got

HeadUnits == <<"SL", "FR", "HE">>
HeadLen == 3

\* What a size line parses to; -1 is an error.
Digits == <<"0", "1", "2", "3", "4", "5", "6", "7", "8", "9">>
SizeOf(u) == CASE u = "max" -> Word - 1
               [] u = "max-1" -> Word - 2
               [] u \in ToSet(Digits) -> (CHOOSE n \in DOMAIN Digits : Digits[n] = u) - 1
               [] OTHER -> -1

ChunkUnits(c) == <<c.size, "\n">> \o c.data \o <<"\r", "\n">>
LastChunk == <<"0", "\n", "\r", "\n">>
InChunks(m) == m.status # "nobody" /\ m.framing \in {"chunked", "both"}
Units(m) == [i \in DOMAIN m.chunks |-> ChunkUnits(m.chunks[i])]
Data(m) == [i \in DOMAIN m.chunks |-> m.chunks[i].data]
Payload(m) ==
  IF m.status = "nobody" THEN <<>>
  ELSE IF InChunks(m) THEN FlattenSeq(Units(m)) \o LastChunk
  ELSE m.body
Wire(m) == HeadUnits \o Payload(m) \o m.extra

\* The body of a message in chunks is their data, none of them empty: that would be
\* the last.  A size that is not its chunk's is one that no read can satisfy.  A
\* length is one that usize can hold.
ASSUME ReaderAssumption ==
  /\ {"SL", "FR", "HE", "0", "\r", "\n"} \subseteq Unit
  /\ BufSize \in Nat \ {0} /\ Word \in Nat /\ Word > 11
  /\ \A m \in Messages :
       /\ m.status \in {"ok", "nobody"} /\ m.framing \in Framings
       /\ m.end \in {"eof", "reset", "open"}
       /\ m.body \in Seq(Unit) /\ Len(m.body) < Word /\ m.extra \in Seq(Unit)
       /\ m.chunks \in Seq([size : Unit, data : Seq(Unit)])
       /\ InChunks(m) => m.body = FlattenSeq(Data(m))
       /\ \A i \in DOMAIN m.chunks :
            /\ m.chunks[i].data # <<>>
            /\ SizeOf(m.chunks[i].size) \in {Len(m.chunks[i].data), -1, Word - 2, Word - 1}
       /\ m.cut \in 0..Len(Wire(m))

ReaderInit ==
  /\ msg \in Messages
  /\ rest = SubSeq(Wire(msg), 1, msg.cut)
  /\ read = [pc |-> "head", buf |-> <<>>, body |-> <<>>, need |-> 0, head |-> 0]

\* The head as far as it was received.
Chunked(n) == n >= 2 /\ msg.framing \in {"chunked", "both"}
ContentLength(n) == IF n >= 2 /\ msg.framing \in {"length", "both"} THEN Len(msg.body) ELSE -1
NoBodyStatus(n) == n >= 2 /\ msg.status = "nobody"

\* The loops: what is in the buffer does not do yet.
Has(u) == \E i \in DOMAIN read.buf : read.buf[i] = u
Wants == CASE read.pc = "head" -> ~Has("HE")
           [] read.pc = "size" -> ~Has("\n")
           [] read.pc \in {"data", "exact"} -> Len(read.buf) < read.need
           [] read.pc = "close" -> TRUE
           [] OTHER -> FALSE

\* One read(): some units ...
ReadSome ==
  /\ Wants /\ rest # <<>>
  /\ \E n \in 1..BufSize :
       /\ n <= Len(rest)
       /\ read' = [read EXCEPT !.buf = @ \o SubSeq(rest, 1, n)]
       /\ rest' = SubSeq(rest, n + 1, Len(rest))
  /\ UNCHANGED msg

\* The end of the head: read_http_body picks the reader of the body.  A head cut
\* short is taken as it is, and one without a status line passes for a request.
Split(n) ==
  LET tail == SubSeq(read.buf, n + 1, Len(read.buf))
      cl == ContentLength(n)
      go(pc, need, body) == read' = [pc |-> pc, buf |-> tail, body |-> body,
                                     need |-> need, head |-> n]
  IN  CASE NoBodyStatus(n) -> go("ok", 0, <<>>)
        [] n = 0 -> go("ok", 0, tail)
        [] n > 0 /\ ~NoBodyStatus(n) /\ Chunked(n) -> go("size", 0, <<>>)
        [] n > 0 /\ ~NoBodyStatus(n) /\ ~Chunked(n) /\ cl # -1 -> go("exact", cl, <<>>)
        [] OTHER -> go("close", 0, <<>>)

\* Fault: the end of the stream within a chunk is waited out.
Eof_Waits ==
  /\ Wants /\ rest = <<>> /\ msg.end = "eof" /\ read.pc # "data"
  /\ IF read.pc = "head" THEN Split(Len(read.buf))
     ELSE read' = [read EXCEPT !.pc = "ok",
                               !.body = IF read.pc = "size" THEN @ ELSE read.buf]
  /\ UNCHANGED <<msg, rest>>

\* ... or 0 at the end of the stream, which no loop takes for an error: the head is
\* taken as it is, a chunked body without the chunk that was begun, an exact one
\* short.
Eof ==
  /\ Wants /\ rest = <<>> /\ msg.end = "eof"
  /\ IF read.pc = "head" THEN Split(Len(read.buf))
     ELSE read' = [read EXCEPT !.pc = "ok",
                               !.body = IF read.pc \in {"size", "data"} THEN @ ELSE read.buf]
  /\ UNCHANGED <<msg, rest>>

Reset ==
  /\ Wants /\ rest = <<>> /\ msg.end = "reset"
  /\ read' = [read EXCEPT !.pc = "error"]
  /\ UNCHANGED <<msg, rest>>

HeadEnds ==
  /\ read.pc = "head" /\ Has("HE")
  /\ Split(HeadLen)
  /\ UNCHANGED <<msg, rest>>

\* Faults: the line feed is looked for from the end; the bytes needed are counted in
\* a wider type.
SizeLine_Last ==
  /\ read.pc = "size" /\ Has("\n")
  /\ LET nl == CHOOSE i \in DOMAIN read.buf : read.buf[i] = "\n" /\
                 \A j \in i + 1..Len(read.buf) : read.buf[j] # "\n"
         size == IF nl = 2 THEN SizeOf(read.buf[1]) ELSE -1
     IN  CASE size = -1 -> read' = [read EXCEPT !.pc = "error"]
           [] size = 0 -> read' = [read EXCEPT !.pc = "ok"]
           [] OTHER ->
                \/ /\ size + 2 >= Word
                   /\ read' = [read EXCEPT !.pc = "panicked"]
                \/ read' = [read EXCEPT !.pc = "data", !.need = (size + 2) % Word,
                                        !.buf = SubSeq(@, nl + 1, Len(@))]
  /\ UNCHANGED <<msg, rest>>

SizeLine_Unwrapped ==
  /\ read.pc = "size" /\ Has("\n")
  /\ LET nl == CHOOSE i \in DOMAIN read.buf : read.buf[i] = "\n" /\
                 \A j \in 1..i - 1 : read.buf[j] # "\n"
         size == IF nl = 2 THEN SizeOf(read.buf[1]) ELSE -1
     IN  CASE size = -1 -> read' = [read EXCEPT !.pc = "error"]
           [] size = 0 -> read' = [read EXCEPT !.pc = "ok"]
           [] OTHER ->
                \/ /\ size + 2 >= Word
                   /\ read' = [read EXCEPT !.pc = "panicked"]
                \/ read' = [read EXCEPT !.pc = "data", !.need = size + 2,
                                        !.buf = SubSeq(@, nl + 1, Len(@))]
  /\ UNCHANGED <<msg, rest>>

\* The size line of a chunk.  Near the end of usize size + 2 wraps, or panics if the
\* build checks for overflow.
SizeLine ==
  /\ read.pc = "size" /\ Has("\n")
  /\ LET nl == CHOOSE i \in DOMAIN read.buf : read.buf[i] = "\n" /\
                 \A j \in 1..i - 1 : read.buf[j] # "\n"
         size == IF nl = 2 THEN SizeOf(read.buf[1]) ELSE -1
     IN  CASE size = -1 -> read' = [read EXCEPT !.pc = "error"]
           [] size = 0 -> read' = [read EXCEPT !.pc = "ok"]
           [] OTHER ->
                \/ /\ size + 2 >= Word
                   /\ read' = [read EXCEPT !.pc = "panicked"]
                \/ read' = [read EXCEPT !.pc = "data", !.need = (size + 2) % Word,
                                        !.buf = SubSeq(@, nl + 1, Len(@))]
  /\ UNCHANGED <<msg, rest>>

\* A chunk and its end are in the buffer; slicing more than it holds panics.
TakeChunk ==
  /\ read.pc = "data" /\ Len(read.buf) >= read.need
  /\ read' = IF read.need < 2 THEN [read EXCEPT !.pc = "panicked"]
             ELSE [read EXCEPT !.pc = "size",
                               !.body = @ \o SubSeq(read.buf, 1, read.need - 2),
                               !.buf = SubSeq(@, read.need + 1, Len(@))]
  /\ UNCHANGED <<msg, rest>>

\* Fault: what follows the body is not cut off.
ExactEnds_Surplus ==
  /\ read.pc = "exact" /\ Len(read.buf) >= read.need
  /\ read' = [read EXCEPT !.pc = "ok", !.body = read.buf]
  /\ UNCHANGED <<msg, rest>>

ExactEnds ==
  /\ read.pc = "exact" /\ Len(read.buf) >= read.need
  /\ read' = [read EXCEPT !.pc = "ok", !.body = SubSeq(read.buf, 1, read.need)]
  /\ UNCHANGED <<msg, rest>>

ReaderNext == ReadSome \/ Eof \/ Reset \/ HeadEnds \/ SizeLine \/ TakeChunk \/ ExactEnds

ReaderDone == read.pc \in {"ok", "error", "panicked"}
----------------------------------------------------------------------------
\* The server sent the message to its last unit.
Complete(m) == m.cut >= HeadLen + Len(Payload(m))

\* A message that says itself where it ends.
Delimited(m) == m.status = "nobody" \/ m.framing # "close"

BodyOf(m) == IF m.status = "nobody" THEN <<>> ELSE m.body

\* read_full_response returns the body of a complete message exactly, however the
\* wire cuts it into reads and whatever follows it; of any message, a prefix.
ReadExact ==
  read.pc = "ok" =>
    LET body == BodyOf(msg) IN
    /\ Complete(msg) /\ Delimited(msg) => read.body = body
    /\ Delimited(msg) => IsPrefix(read.body, body)
    /\ ~Delimited(msg) => IsPrefix(read.body, body \o msg.extra)

\* It panics at most on a chunk size at the end of usize (chunk_size + 2), and fails
\* at most on a reset or a size that does not parse.
ReadFailsExplained ==
  /\ read.pc = "panicked" => \E i \in DOMAIN msg.chunks : SizeOf(msg.chunks[i].size) >= Word - 2
  /\ read.pc = "error" => msg.end = "reset" \/
       \E i \in DOMAIN msg.chunks : SizeOf(msg.chunks[i].size) = -1
============================================================================
