--------------------------- MODULE MCMessagePath ---------------------------
\* Instances of MessagePath for TLC: contents of two units, one of them a line feed
\* that a reader of chunks may stumble on, in every framing, with every header of
\* encodings that is handled in its own way, cut after every unit.
EXTENDS MessagePath

MCUnit == {"SL", "FR", "HE", "\n", "\r", "a", "x", "z", "max", "max-1", "lzma",
           "identity", "x-gzip"}
            \cup ToSet(Digits) \cup Codings
MCContents == {<<"a", "\n">>}
MCEncodings == {<<>>, <<<<"gzip">>>>, <<<<"x-gzip", "deflate">>>>, <<<<"deflate">>, <<"gzip">>>>,
                <<<<"deflate">>>>, <<<<"zstd">>>>, <<<<"identity">>>>, <<<<"lzma">>>>}

\* A body in chunks of at most k units, or with the size of the first misstated.
OneChunk(b) == <<[size |-> ToString(Len(b)), data |-> b]>>
TwoChunks(b) == <<[size |-> "1", data |-> SubSeq(b, 1, 1)],
                  [size |-> ToString(Len(b) - 1), data |-> Tail(b)]>>
Misstated(b, s) == <<[size |-> "1", data |-> SubSeq(b, 1, 1)], [size |-> s, data |-> Tail(b)]>>

Make(status, framing, ce, content, chunks, extra, end) ==
  [status |-> status, framing |-> framing, ce |-> ce, content |-> content,
   body |-> Coded(content, ce), chunks |-> chunks, extra |-> extra, end |-> end, cut |-> 0]

MCWholes ==
  LET chunked(f, ce, c) == {Make("ok", f, ce, c, k, x, "open") :
                              k \in {OneChunk(Coded(c, ce)), TwoChunks(Coded(c, ce))},
                              x \in {<<>>}}
      end == {"eof", "reset", "open"}
  IN  UNION {
        UNION {chunked(f, ce, c) : f \in {"chunked", "both"}, ce \in MCEncodings, c \in MCContents},
        {Make("ok", f, ce, c, <<>>, <<>>, "open") :
           f \in {"length", "close"}, ce \in MCEncodings, c \in MCContents},
        {Make("ok", f, <<>>, <<>>, <<>>, <<>>, "open") : f \in {"length", "close"}},
        {Make("nobody", f, ce, <<>>, <<>>, <<>>, "open") :
           f \in {"length", "close"}, ce \in {<<>>, <<<<"gzip">>>>}},
        {Make("ok", "chunked", <<>>, c, Misstated(c, s), <<>>, "open") :
           s \in {"max", "max-1", "z"}, c \in MCContents}}

MCMessages ==
  LET surplus(m) == IF Delimited(m) \/ m.body = <<>> THEN {<<>>, <<"x">>} ELSE {<<>>} IN
  {m \in UNION {{[m EXCEPT !.extra = x, !.end = e, !.cut = n] :
            x \in surplus(m), e \in {"eof", "reset", "open"},
            n \in 0..(HeadLen + Len(Payload(m)) + 1)} : m \in MCWholes} :
     m.cut <= Len(Wire(m))}
============================================================================
