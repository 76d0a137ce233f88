---------------------------- MODULE MCSniffEngine ----------------------------
(* Instances of SniffEngine: what the connections of each run carry.       *)
EXTENDS SniffEngine

Request(method, body, after) ==
  [ method |-> method, status |-> 0,
    length |-> IF body > 0 THEN body ELSE Unset, chunked |-> FALSE, trailers |-> FALSE,
    body |-> body, readable |-> TRUE, answers |-> 0, after |-> after ]

\* A response with Content-Length.
Response(status, answers, body, after) ==
  [ method |-> "none", status |-> status,
    length |-> IF body > 0 THEN body ELSE Unset, chunked |-> FALSE, trailers |-> FALSE,
    body |-> body, readable |-> TRUE, answers |-> answers, after |-> after ]

Chunked(message) == [message EXCEPT !.chunked = TRUE, !.length = Unset]
WithTrailers(message) == [Chunked(message) EXCEPT !.trailers = TRUE]
Unreadable(message) == [message EXCEPT !.readable = FALSE]
\* No Content-Length: the body ends where the connection ends.
UntilClose(message) == [message EXCEPT !.length = Unset]

\* A keep-alive connection: a GET, a pipelined POST that expects 100-continue,
\* and a conditional GET sent when the other answers have arrived.
KeepAlive ==
  [ client |-> << Request("GET", 0, 0),
                  Request("POST", 1, 0),
                  Request("GET", 0, 7) >>,
    server |-> << WithTrailers(Response(200, 1, 1, 2)),
                  Response(100, 0, 0, 4),
                  Response(204, 2, 0, 5),
                  Response(304, 3, 0, 7) >> ]

\* Two requests, sent one after the other; the answer to HEAD names no length.
Short ==
  [ client |-> << Request("GET", 0, 0), Request("HEAD", 0, 3) >>,
    server |-> << Response(200, 1, 1, 2), UntilClose(Response(200, 2, 0, 4)) >> ]

\* Three requests, each sent when the response before it has arrived; the
\* parser library rejects the second response.
Three ==
  [ client |-> << Request("GET", 0, 0), Request("GET", 0, 3),
                  Request("GET", 0, 5) >>,
    server |-> << Response(200, 1, 1, 2), Unreadable(Response(204, 2, 0, 4)),
                  WithTrailers(Response(200, 3, 1, 6)) >> ]

\* One exchange.
Single ==
  [ client |-> << Request("GET", 0, 0) >>,
    server |-> << Response(204, 1, 0, 2) >> ]

\* One exchange whose response ends with the connection.
CloseDelimited ==
  [ client |-> << Request("GET", 0, 0) >>,
    server |-> << UntilClose(Response(200, 1, 3, 2)) >> ]

\* A chunked response as most servers end it, without trailer fields.
ChunkedOnce ==
  [ client |-> << Request("GET", 0, 0) >>,
    server |-> << Chunked(Response(200, 1, 1, 2)) >> ]

-----------------------------------------------------------------------------
(* The scenarios.                                                          *)

CONSTANTS f1, f2

\* The connections in fs carry the same messages, in segments of at most size
\* units, at most gap units ahead, of which the capture misses some.
Scenario(fs, messages, size, gap, missed, network) ==
  [ traffic |-> [f \in fs |-> messages], maxFlows |-> 2, maxSegment |-> size, maxGap |-> gap,
    maxMisses |-> missed, network |-> network ]

SmallTable(whole) == [whole EXCEPT !.maxFlows = 1]

\* Reordering and resets; missed segments; repeated segments; segments that are
\* cut anew while others wait out of order; a response that ends with FIN; more
\* connections than the table has room for; a capture that begins, or forgets a
\* flow, while its connection goes on.
CaptureSettings ==
  [ keepAlive |-> Scenario({f1}, KeepAlive, 2, 1, 0, {"reset"}),
    missed |-> Scenario({f1}, Three, 3, 0, 3, {}),
    repeated |-> Scenario({f1, f2}, Short, 3, 0, 0, {"duplicate"}),
    recut |-> Scenario({f1}, Short, 2, 2, 0, {"duplicate", "reset"}),
    closing |-> Scenario({f1}, CloseDelimited, 2, 0, 0, {"duplicate"}),
    evicted |-> SmallTable(Scenario({f1, f2}, Single, 3, 0, 0, {"reset"})),
    late |-> SmallTable(Scenario({f1, f2}, Single, 3, 0, 1, {"late"})) ]

ChunkedSettings == [ only |-> Scenario({f1}, ChunkedOnce, 3, 0, 0, {}) ]
=============================================================================
