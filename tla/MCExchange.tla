----------------------------- MODULE MCExchange -----------------------------
(* Instances of Exchange: the messages of its peers.                       *)
EXTENDS Exchange

HeadOctets == <<"head", CR, LF, CR, LF>>

Message(fields, wire, body, ends) ==
  [head |-> HeadOctets, fields |-> fields, parses |-> TRUE, wire |-> wire,
   meant |-> wire, body |-> body, chunks |-> <<>>, whole |-> TRUE,
   ends |-> ends]

\* What a peer sends, by the framing it uses.
Length(n) == Field("content-length", n)
Coding(codings) == Field("transfer-encoding", codings)
Fixed(body) == Message(<<Length(Len(body))>>, body, body, "stays")
UntilClose(body) == Message(<<>>, body, body, "closes")

\* A chunk: its size line, its data, and the size that is read from the line.
Sized(line, data, size) == [line |-> line, data |-> data, size |-> size]
Chunk(line, data) == Sized(line, data, Len(data))
LastChunk == Chunk(<<"0">>, <<>>)
Encoded(chunk) ==
  chunk.line \o CrLf \o (IF chunk.size = 0 THEN <<>> ELSE chunk.data \o CrLf)

\* The octets of the first n chunks.
Behind(chunks, n) == FlattenSeq([i \in 1..n |-> Encoded(chunks[i])])
ChunkRecord(chunks, i) ==
  [ at |-> Len(Behind(chunks, i - 1)), line |-> Len(chunks[i].line),
    from |-> Len(FlattenSeq([k \in 1..(i - 1) |-> chunks[k].data])),
    size |-> chunks[i].size ]
Coded(chunks, trailers, body) ==
  [ Message(<<Coding({"chunked"})>>,
            Behind(chunks, Len(chunks)) \o trailers, body, "stays")
    EXCEPT !.chunks = [i \in 1..Len(chunks) |-> ChunkRecord(chunks, i)] ]
Chunked(chunks, trailers, body) == Coded(Append(chunks, LastChunk), trailers, body)

NoTrailers == CrLf
OneTrailer == <<"t">> \o CrLf \o CrLf

With(message, field) == [message EXCEPT !.fields = <<field>> \o @]

\* The peer stops early, sends more than its message, or breaks the rules.
CutOff(message) ==
  [message EXCEPT !.wire = Front(@), !.whole = FALSE, !.ends = "closes"]
Stalled(message) == [CutOff(message) EXCEPT !.ends = "stays"]
Continued(message) == [message EXCEPT !.wire = @ \o <<"G">>, !.whole = FALSE]
Wrong(message) == [message EXCEPT !.whole = FALSE]

\* A header block is longer than HeadLimit, which is 6, or does not parse, or its end
\* does not come.
LongHead(message) == [Wrong(message) EXCEPT !.head = [i \in 1..4 |-> "head"] \o @]
Unparsable(message) == [Wrong(message) EXCEPT !.parses = FALSE]
Unfinished(message) ==
  [Wrong(message) EXCEPT !.head = Front(@), !.wire = <<>>, !.meant = <<>>]

\* A response to HEAD, or of status 304: the body its fields are about does not come.
Bodiless(message) == [Wrong(message) EXCEPT !.wire = <<>>]

\* Bodies that look like the framing around them.
LineEnd == <<"a">> \o CrLf
LooksLast == <<"0">> \o CrLf \o CrLf

Framed ==
  { Fixed(<<>>), Fixed(<<"a", "b">>), Fixed(LooksLast),
    Chunked(<<>>, NoTrailers, <<>>),
    Chunked(<<Chunk(<<"2">>, <<"a", "b">>), Chunk(<<"1">>, <<"c">>)>>,
            NoTrailers, <<"a", "b", "c">>),
    Chunked(<<Chunk(<<"3", ";", "x">>, LineEnd)>>, OneTrailer, LineEnd),
    Chunked(<<Chunk(<<"3">>, <<"0">> \o CrLf), Chunk(<<"2">>, CrLf)>>,
            NoTrailers, LooksLast) }

\* Longer than BodyLimit, which is 5.
TooLongBodies ==
  { Wrong(Fixed(<<"a", "a", "a", "a", "a", "a">>)),
    Wrong(Chunked(<<Chunk(<<"3">>, <<"a", "a", "a">>), Chunk(<<"3">>, <<"a", "a", "a">>)>>,
                  NoTrailers, <<"a", "a", "a", "a", "a", "a">>)) }

Broken ==
  { Wrong(Coded(<<Sized(<<"z">>, <<"a">>, Nowhere)>>, Encoded(LastChunk) \o CrLf, <<"a">>)),
    Wrong(Coded(<<Sized(<<>>, <<"a">>, Nowhere)>>, Encoded(LastChunk) \o CrLf, <<"a">>)),
    Wrong(Coded(<<Sized(<<"1">>, <<"a", "b">>, 1)>>, Encoded(LastChunk) \o CrLf, <<"a", "b">>)) }

Several == Chunked(<<Chunk(<<"2">>, <<"a", "b">>)>>, NoTrailers, <<"a", "b">>)

Get == Message(<<>>, <<>>, <<>>, "stays")

\* Several lengths, of which only the first is that of the body, or a length beside a
\* body in chunks, right, wrong or no length at all; and a coding that is not chunked.
Disagreeing ==
  { [Fixed(<<"a", "b">>) EXCEPT !.fields = Append(@, Length(1))],
    With(Several, Length(2)), With(Several, Length(3)), With(Several, Length(Nowhere)),
    With(Get, Length(Nowhere)), With(Fixed(<<"a">>), Coding({"gzip"})),
    With(Several, Length(1)) }

BadHeads ==
  { LongHead(Fixed(<<"a">>)), Unparsable(Fixed(<<"a">>)), Unfinished(Get),
    [Unfinished(Get) EXCEPT !.ends = "closes"] }

ClientMessages ==
  Framed \union TooLongBodies \union Broken \union Disagreeing \union BadHeads
  \union { Get, With(Get, Field("connection", 0)),
           With(Fixed(<<"a">>), Field("x-forwarded-for", <<"before">>)),
           CutOff(Several), Stalled(Several), CutOff(Fixed(<<"a", "b">>)),
           Continued(Several), Continued(Fixed(<<"a">>)) }

\* A text with a letter of two octets, where MaxBody, which is 3, would cut it.
Letters == <<"a", "b", "n tilde 1", "n tilde 2", "o">>

UpstreamMessages ==
  Framed \union TooLongBodies \union Broken \union BadHeads
  \union { UntilClose(<<>>), UntilClose(LooksLast),
           UntilClose(<<"binary", "a">>), Fixed(Letters), Fixed(Tail(Letters)),
           Wrong(UntilClose([i \in 1..12 |-> "a"])),
           CutOff(Several), Stalled(Fixed(<<"a", "b">>)), Continued(Several),
           Bodiless(Fixed(<<"a", "b">>)),
           Wrong([UntilClose(<<"a">>) EXCEPT !.ends = "stays"]) }

OctetSet ==
  Digits \union ToSet(HeadOctets) \union ToSet(Letters)
  \union {";", "a", "b", "c", "x", "z", "t", "G", "binary"}
=============================================================================
