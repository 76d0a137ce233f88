------------------------------- MODULE Exchange -------------------------------
(***************************************************************************)
(* One exchange through the proxy, octet by octet: the readers of          *)
(* src/src/proxy/handler.rs, which take a message from a TCP stream that   *)
(* arrives in pieces of any size, the request that is sent on, the reply   *)
(* that is passed back and what of both is recorded                        *)
(* (src/src/proxy/forward.rs, src/src/capture/mod.rs).  ProxyServer is the *)
(* same handler seen from outside, among other connections.                *)
(*                                                                         *)
(* A message is its header block, what httparse makes of it, the octets    *)
(* that follow it, and what its peer does then: close the connection or    *)
(* keep it.  An octet is a string; its peer knows which body it meant, and *)
(* which octets, which may be cut off or run on into something else.       *)
(*                                                                         *)
(* LengthOfWire, RestForgotten and the like, above the definitions they    *)
(* stand in for, are wrong variants of them.                               *)
(***************************************************************************)
EXTENDS Integers, SequencesExt

CONSTANTS
  Octet,       \* the octets that are sent
  Requests,    \* what clients send
  Responses,   \* what the upstream sends
  HeadRead,    \* octets read_headers asks for (1024 in the code)
  BodyRead,    \* READ_BUFFER_BYTES (4096)
  HeadLimit,   \* 65536 in read_headers
  BodyLimit,   \* MAX_PROXY_BODY_BYTES (16 MiB)
  MaxBody      \* config.max_body

ASSUME ExchangeAssumption ==
  /\ HeadRead \in Nat \ {0}
  /\ BodyRead \in Nat \ {0}
  /\ HeadLimit \in Nat
  /\ BodyLimit \in Nat
  /\ MaxBody \in Nat \ {0}

VARIABLES
  phase,      \* where handle_connection is
  request,    \* what this client sends
  response,   \* what the upstream sends, once it is asked
  unread,     \* octets of the peer that were not read yet
  raw,        \* octets read: the header block so far, or of the body
  sent,       \* the request's body, decoded
  forwarded,  \* what the upstream got
  delivered,  \* what the client got
  event       \* what was recorded of the two bodies

vars == <<phase, request, response, unread, raw, sent, forwarded, delivered, event>>
outputVars == <<sent, forwarded, delivered, event>>

Nowhere == -1
CR == "cr"
LF == "lf"
CrLf == <<CR, LF>>
BlankLine == <<CR, LF, CR, LF>>

-----------------------------------------------------------------------------
(* Octets and chunks.                                                      *)

\* The first place at or after start where the octets of part begin; the places
\* are numbered from 0 as in the code.
Place(octets, start, part) ==
  LET places == {i \in start..(Len(octets) - Len(part)) :
                   \A k \in 1..Len(part) : octets[i + k] = part[k]}
  IN  IF places = {} THEN Nowhere ELSE Min(places)

FindCrlf(octets, start) == Place(octets, start, CrLf)
From(octets, start) == SubSeq(octets, start + 1, Len(octets))

\* from_str_radix of what stands before an extension; Nowhere if it is no size.
Digits == {"0", "1", "2", "3", "9"}
HexDigit == [d \in Digits |-> CASE d = "0" -> 0 [] d = "1" -> 1 [] d = "2" -> 2
                                [] d = "3" -> 3 [] d = "9" -> 9]
FromHex(digits) ==
  LET upto[n \in 0..Len(digits)] ==
        IF n = 0 THEN 0 ELSE 16 * upto[n - 1] + HexDigit[digits[n]]
  IN  upto[Len(digits)]
ChunkSize(line) ==
  LET extension == Place(line, 0, <<";">>)
      digits == IF extension = Nowhere THEN line ELSE SubSeq(line, 1, extension)
  IN  IF digits = <<>> \/ ~(ToSet(digits) \subseteq Digits) THEN Nowhere
      ELSE FromHex(digits)

\* The trailers that follow the last chunk end with the first empty line.
TrailersEnd(octets, start) ==
  \/ Place(octets, start, CrLf) = start
  \/ Place(octets, start, BlankLine) # Nowhere

SizeAt(octets, cursor) ==
  ChunkSize(SubSeq(octets, cursor + 1, FindCrlf(octets, cursor)))

\* has_complete_chunked_body.
HasCompleteChunkedBody(octets) ==
  LET from[cursor \in 0..Len(octets)] ==
        LET line == FindCrlf(octets, cursor)
            size == SizeAt(octets, cursor)
            end == line + 2 + size
        IN  IF line = Nowhere THEN "no"
            ELSE IF size = Nowhere THEN "invalid"
            ELSE IF size = 0
                 THEN IF TrailersEnd(octets, line + 2) THEN "yes" ELSE "no"
            ELSE IF end + 2 > Len(octets) THEN "no"
            ELSE IF Place(octets, end, CrLf) # end THEN "invalid"
            ELSE from[end + 2]
  IN  from[0]

\* decode_chunked_body, of octets that hold a complete body.
DecodeChunkedBody(octets) ==
  LET from[cursor \in 0..Len(octets)] ==
        LET line == FindCrlf(octets, cursor)
            size == SizeAt(octets, cursor)
            end == line + 2 + size
        IN  IF line = Nowhere \/ size \in {Nowhere, 0} \/ end + 2 > Len(octets)
            THEN <<>>
            ELSE SubSeq(octets, line + 3, end) \o from[end + 2]
  IN  from[0]

-----------------------------------------------------------------------------
(* Header fields.                                                          *)

Named(fields, name) == {i \in DOMAIN fields : fields[i].name = name}

\* get_content_length takes the first field, is_chunked_encoding what the first
\* one names; Nowhere is a length that is missing or does not parse.
ContentLength(fields) ==
  LET lengths == Named(fields, "content-length")
  IN  IF lengths = {} THEN Nowhere ELSE fields[Min(lengths)].value
IsChunkedEncoding(fields) ==
  LET codings == Named(fields, "transfer-encoding")
  IN  codings # {} /\ "chunked" \in fields[Min(codings)].value

\* build_upstream_headers.
HopByHop == {"connection", "keep-alive", "proxy-authenticate", "proxy-authorization",
             "te", "trailers", "transfer-encoding", "upgrade"}
Dropped == HopByHop \union {"host", "x-forwarded-for"}
Kept(fields) ==
  LET upto[n \in 0..Len(fields)] ==
        IF n = 0 THEN <<>>
        ELSE IF fields[n].name \in Dropped THEN upto[n - 1]
        ELSE Append(upto[n - 1], fields[n])
  IN  upto[Len(fields)]

Field(name, value) == [name |-> name, value |-> value]
BuildUpstreamHeaders(fields) ==
  LET chains == Named(fields, "x-forwarded-for")
      before == IF chains = {} THEN <<>> ELSE fields[Max(chains)].value
  IN  Kept(fields)
      \o << Field("host", "upstream"),
            Field("x-forwarded-for", Append(before, "client")),
            Field("connection", "close") >>

\* The length of the body that is sent on, once more if the client gave one.
LengthOfWire(body) == Field("content-length", Len(raw))
LengthOfBody(body) == Field("content-length", Len(body))
UpstreamRequest(fields, body) ==
  [ fields |-> BuildUpstreamHeaders(fields)
               \o (IF ContentLength(fields) # Nowhere \/ IsChunkedEncoding(fields)
                   THEN <<LengthOfBody(body)>> ELSE <<>>),
    body |-> body ]

-----------------------------------------------------------------------------
(* What peers send.                                                        *)

\* The chunks of a message: the place in meant of the size line and its length,
\* the place in body of the data and its size.
ChunkRecords == [at : Nat, line : Nat, from : Nat, size : Nat \union {Nowhere}]
DataOf(c) == c.at + c.line + 2
EndOf(c) == DataOf(c) + c.size

IsChunk(m, c) ==
  /\ c.size > 0
  /\ Place(m.meant, EndOf(c), CrLf) = EndOf(c)
  /\ SubSeq(m.meant, DataOf(c) + 1, EndOf(c)) = SubSeq(m.body, c.from + 1, c.from + c.size)
NextChunk(c, d) == d.at = EndOf(c) + 2 /\ d.from = c.from + c.size

\* The chunk of size 0 is the last one; the first empty line behind it is the end.
IsLastChunk(m, c) ==
  /\ c.size = 0 /\ c.from = Len(m.body)
  /\ IF Place(m.meant, DataOf(c), CrLf) = DataOf(c)
     THEN Len(m.meant) = DataOf(c) + 2
     ELSE /\ Len(m.meant) >= DataOf(c) + 4
          /\ Place(m.meant, DataOf(c), BlankLine) = Len(m.meant) - 4

\* A size that is none, or data of another length than its size.
IsBrokenChunk(m, c) ==
  \/ c.size = Nowhere
  \/ c.size > 0 /\ EndOf(c) + 2 <= Len(m.meant) /\ Place(m.meant, EndOf(c), CrLf) # EndOf(c)

ChunkedAsMeant(m) ==
  LET chunk == m.chunks
  IN  /\ chunk \in Seq(ChunkRecords) /\ chunk # <<>>
      /\ chunk[1].at = 0 /\ chunk[1].from = 0
      /\ \A i \in 1..Len(chunk) :
           /\ FindCrlf(m.meant, chunk[i].at) = chunk[i].at + chunk[i].line
           /\ SizeAt(m.meant, chunk[i].at) = chunk[i].size
      /\ \A i \in 1..(Len(chunk) - 1) :
           IsChunk(m, chunk[i]) /\ NextChunk(chunk[i], chunk[i + 1])
      /\ \/ IsLastChunk(m, Last(chunk))
         \/ ~m.whole /\ IsBrokenChunk(m, Last(chunk))

\* A header block ends with its first empty line, or is all that was sent.
HeadAsMeant(m) ==
  \/ Len(m.head) >= 4 /\ Place(m.head, 0, BlankLine) = Len(m.head) - 4
  \/ /\ Place(m.head, 0, BlankLine) = Nowhere
     /\ m.wire = <<>> /\ ~m.whole

\* The wire carries what is meant, as far as both go.  A body in chunks is meant as
\* chunked, whatever lengths are given beside it; another body has the first length
\* that is given, whatever lengths follow.  Only whole messages are not cut, run on
\* or too long.  A response to HEAD or of status 304 that announces a body without
\* bringing it is cut off: the code waits for that body (handler.rs:187).
AsMeant(m) ==
  /\ {m.head, m.wire, m.meant, m.body} \subseteq Seq(Octet)
  /\ m.fields \in Seq(ToSet(m.fields))
  /\ m.ends \in {"closes", "stays"}
  /\ IsPrefix(m.wire, m.meant) \/ IsPrefix(m.meant, m.wire)
  /\ IsChunkedEncoding(m.fields) => ChunkedAsMeant(m)
  /\ ContentLength(m.fields) # Nowhere /\ ~IsChunkedEncoding(m.fields)
       => m.meant = m.body /\ ContentLength(m.fields) = Len(m.body)
  /\ HeadAsMeant(m)
  /\ m.whole => /\ m.parses /\ Len(m.head) <= HeadLimit + 1
                /\ m.wire = m.meant /\ Len(m.body) <= BodyLimit

\* A message that says nothing of its length has no body if it is a request, and
\* ends with its connection if it is a response.
IsUnframed(m) == ContentLength(m.fields) = Nowhere /\ ~IsChunkedEncoding(m.fields)
ASSUME MessageAssumption ==
  /\ ToSet(BlankLine) \union Digits \union {";"} \subseteq Octet
  /\ \A m \in Requests : AsMeant(m) /\ (IsUnframed(m) => m.body = <<>>)
  /\ \A m \in Responses :
       AsMeant(m) /\ (IsUnframed(m) => m.wire = m.body /\ (m.whole => m.ends = "closes"))

-----------------------------------------------------------------------------
(* process_body, of a body that is not compressed and without redaction.   *)

\* UTF-8: the text of the model has letters of one octet, and one of two.
IsText(octets) ==
  \A i \in 1..Len(octets) :
    /\ octets[i] # "binary"
    /\ octets[i] = "n tilde 1" => i < Len(octets) /\ octets[i + 1] = "n tilde 2"
    /\ octets[i] = "n tilde 2" => i > 1 /\ octets[i - 1] = "n tilde 1"

LimitBody(octets) == SubSeq(octets, 1, MaxBody)
ProcessBody(body) ==
  IF Len(body) = 0 THEN [marker |-> "none", text |-> <<>>]
  ELSE LET limited == IF Len(body) > MaxBody THEN LimitBody(body) ELSE body IN
       IF ~IsText(limited) THEN [marker |-> "[BINARY]", text |-> <<>>]
       ELSE IF Len(body) > MaxBody THEN [marker |-> "[TRUNCATED]", text |-> limited]
       ELSE [marker |-> "text", text |-> limited]

-----------------------------------------------------------------------------
(* The readers.                                                            *)

NoMessage == [head |-> <<>>, fields |-> <<>>, parses |-> FALSE, wire |-> <<>>,
              meant |-> <<>>, body |-> <<>>, chunks |-> <<>>, whole |-> FALSE,
              ends |-> "absent"]
Nothing == [fields |-> <<>>, body |-> <<>>]
NoBody == [marker |-> "none", text |-> <<>>]

Init ==
  /\ phase = "client head"
  /\ request \in Requests
  /\ response = NoMessage
  /\ unread = request.head \o request.wire
  /\ raw = <<>>
  /\ sent = <<>>
  /\ forwarded = Nothing
  /\ delivered = <<>>
  /\ event = [request |-> NoBody, response |-> NoBody]

InHead == phase \in {"client head", "upstream head"}
InBody == phase \in {"client body", "upstream body"}
Peer == IF phase \in {"client head", "client body"} THEN request ELSE response

\* Which of the four readers takes the body.
Framing ==
  IF IsChunkedEncoding(Peer.fields) THEN "chunked"
  ELSE IF ContentLength(Peer.fields) # Nowhere THEN "fixed"
  ELSE IF phase = "client body" THEN "none"
  ELSE "until eof"

\* How a reader goes on with the octets it has.
NeverTooLong == FALSE
TooLong == Len(raw) > BodyLimit
AsFixed(length) ==
  IF length > BodyLimit \/ Len(raw) > length THEN "bad"
  ELSE IF Len(raw) = length THEN "done" ELSE "more"
AsChunked ==
  LET complete == HasCompleteChunkedBody(raw)
  IN  IF complete = "no" THEN "more"
      ELSE IF complete = "yes" /\ Len(DecodeChunkedBody(raw)) <= BodyLimit THEN "done"
      ELSE "bad"
Progress ==
  CASE Framing = "none" -> "done"
    [] Framing = "until eof" -> IF TooLong THEN "bad" ELSE "more"
    [] Framing = "fixed" -> AsFixed(ContentLength(Peer.fields))
    [] Framing = "chunked" -> AsChunked

\* The octets one read may return: what has arrived, up to the size asked for.
Wanted ==
  IF Framing = "fixed"
  THEN Min({BodyRead, ContentLength(Peer.fields) - Len(raw)}) ELSE BodyRead

Arrives(n) ==
  /\ n <= Len(unread)
  /\ unread' = From(unread, n)

\* An error of the client's head ends in silence, one of its body in a 400, and
\* one of the upstream in silence.
Fails ==
  /\ phase' = IF phase = "client body" THEN "refused" ELSE "dropped"
  /\ UNCHANGED <<request, response, unread, raw, outputVars>>

\* read_headers: where the header block ends, and what came with it; and what
\* httparse has to say of it.
EndOfHead(before, octets) == Place(before \o octets, 0, BlankLine)
RestForgotten(octets, end) == <<>>
Rest(octets, end) == From(octets, end + 4)
ReadHead ==
  /\ InHead
  /\ \E n \in 1..HeadRead :
       /\ Arrives(n)
       /\ LET octets == raw \o SubSeq(unread, 1, n)
              end == EndOfHead(raw, SubSeq(unread, 1, n))
          IN  IF end # Nowhere
              THEN /\ raw' = Rest(octets, end)
                   /\ phase' = IF ~Peer.parses THEN "dropped"
                               ELSE IF phase = "client head" THEN "client body"
                               ELSE "upstream body"
              ELSE /\ raw' = octets
                   /\ phase' = IF Len(octets) > HeadLimit THEN "dropped" ELSE phase
  /\ UNCHANGED <<request, response, outputVars>>

\* The loops of read_fixed_body, read_chunked_body, read_chunked_response and
\* read_until_eof.
ReadBody ==
  /\ InBody
  /\ Progress = "more"
  /\ \E n \in 1..Wanted :
       /\ Arrives(n)
       /\ raw' = raw \o SubSeq(unread, 1, n)
  /\ UNCHANGED <<phase, request, response, outputVars>>

BodyIsBad == InBody /\ Progress = "bad" /\ Fails

\* The peer has closed; only one of the readers takes that for an end.
ClosedEarly ==
  /\ unread = <<>> /\ Peer.ends = "closes"
  /\ InHead \/ (InBody /\ Framing # "until eof" /\ Progress = "more")
  /\ Fails

\* 30 seconds without an octet; a peer that has more to send sends it sooner.
NoTimeout == FALSE
HasTimeout == TRUE
TimesOut ==
  /\ HasTimeout
  /\ unread = <<>> /\ Peer.ends = "stays"
  /\ InHead \/ (InBody /\ Progress = "more")
  /\ Fails

-----------------------------------------------------------------------------
(* handle_connection.                                                      *)

Body == IF Framing = "chunked" THEN DecodeChunkedBody(raw)
        ELSE IF Framing = "none" THEN <<>> ELSE raw

\* The upstream is reached and answers with one of its responses.
Forward ==
  /\ phase = "client body"
  /\ Progress = "done"
  /\ sent' = Body
  /\ forwarded' = UpstreamRequest(request.fields, Body)
  /\ phase' = "upstream head"
  /\ response' \in Responses
  /\ raw' = <<>>
  /\ unread' = response'.head \o response'.wire
  /\ UNCHANGED <<request, delivered, event>>

\* A chunked reply is passed on as it came.
DecodedForwarded == Body
ForwardBody == raw
WireRecorded == raw
RecordedBody == Body
Deliver ==
  /\ phase = "upstream body"
  /\ \/ Progress = "done"
     \/ /\ Progress = "more" /\ Framing = "until eof"
        /\ unread = <<>> /\ Peer.ends = "closes"
  /\ delivered' = response.head \o ForwardBody
  /\ event' = [request |-> ProcessBody(sent), response |-> ProcessBody(RecordedBody)]
  /\ phase' = "answered"
  /\ UNCHANGED <<request, response, unread, raw, sent, forwarded>>

Next ==
  \/ ReadHead \/ ReadBody \/ BodyIsBad \/ ClosedEarly \/ TimesOut
  \/ Forward \/ Deliver

Spec == Init /\ [][Next]_vars
FairSpec == Spec /\ WF_vars(Next)

-----------------------------------------------------------------------------
(* Properties.                                                             *)

\* Types; what was read and what was not are the octets of the peer, in their
\* order; and a header block that has ended is not waited for.
TypeOK ==
  /\ phase \in {"client head", "client body", "upstream head", "upstream body",
                "answered", "refused", "dropped"}
  /\ request \in Requests
  /\ response \in Responses \union {NoMessage}
  /\ phase \in {"answered", "upstream head", "upstream body"} => response # NoMessage
  /\ InHead => raw \o unread = Peer.head \o Peer.wire
  /\ InBody => raw \o unread = Peer.wire
  /\ InHead => Place(raw, 0, BlankLine) = Nowhere

\* Every length that is told of a body is that of the body.
LengthsAgree(m) ==
  \A i \in Named(m.fields, "content-length") : m.fields[i].value = Len(m.body)

\* The upstream gets the body the client meant, whatever pieces it came in and
\* however it was framed, with its length and no other framing; a wrong length is
\* told only by a client that gave one.
ForwardedIsSent ==
  forwarded # Nothing =>
    /\ forwarded.body = request.body
    /\ Named(forwarded.fields, "transfer-encoding") = {}
    /\ ~IsUnframed(request) =>
         \E i \in Named(forwarded.fields, "content-length") :
           forwarded.fields[i].value = Len(request.body)
    /\ LengthsAgree(request) => LengthsAgree(forwarded)

\* docs/SECURITY.md: the proxy requires the declared size and normalises chunked
\* bodies before it forwards them; so whatever lengths a client gave, the upstream
\* is told that of the body it gets.
LengthToldIsTheBodys == forwarded # Nothing => LengthsAgree(forwarded)

\* The client gets the octets of the upstream as they were sent, from the first
\* to the last.
DeliveredIsReply ==
  phase = "answered" /\ response.whole =>
    delivered = response.head \o response.wire

\* The event has the two bodies as their senders meant them: within MaxBody a text
\* word by word, and what is none as binary; of a longer text its first MaxBody
\* octets, marked.  One text alone is recorded as binary, that of which the cut
\* leaves the first half of a letter (limit_body, capture/mod.rs:115).
LetterIsCut(body) == Len(body) > MaxBody /\ body[MaxBody] = "n tilde 1"
RecordedOf(recorded, body) ==
  /\ recorded.marker = "none" <=> body = <<>>
  /\ recorded.marker = "text" => recorded.text = body /\ IsText(body)
  /\ recorded.marker = "[TRUNCATED]" =>
       Len(body) > MaxBody /\ recorded.text = SubSeq(body, 1, MaxBody)
  /\ body # <<>> /\ IsText(body) /\ ~LetterIsCut(body) =>
       recorded.marker = IF Len(body) > MaxBody THEN "[TRUNCATED]" ELSE "text"
  /\ ~IsText(body) /\ Len(body) <= MaxBody => recorded.marker = "[BINARY]"
RecordedIsExchanged ==
  phase = "answered" =>
    RecordedOf(event.request, request.body) /\ RecordedOf(event.response, response.body)

\* docs/DATA.md: a body that exceeds --max-body is marked [TRUNCATED], and [BINARY]
\* are octets that cannot be decoded as UTF-8; so a text is not recorded as binary.
TextIsNotBinary ==
  phase = "answered" =>
    /\ IsText(request.body) => event.request.marker # "[BINARY]"
    /\ IsText(response.body) => event.response.marker # "[BINARY]"

\* What is whole is never turned away: neither is the handler waiting for more
\* than there is when its time runs out, nor does it stop before the end.  This is
\* not so of a response that rightly has no body but announces one: to HEAD, or 304.
WholeIsAnswered ==
  /\ phase = "refused" => ~request.whole
  /\ phase = "dropped" => ~request.whole \/ (response # NoMessage /\ ~response.whole)

\* The state is well formed, and a body that is not chunked never takes more
\* memory than the limit and one read.
BodyBounded ==
  /\ TypeOK
  /\ InBody /\ Framing # "chunked" => Len(raw) <= BodyLimit + Max({HeadRead, BodyRead})

\* Liveness: the handler comes to an end.
HandlerEnds == <>(phase \in {"answered", "refused", "dropped"})
=============================================================================
