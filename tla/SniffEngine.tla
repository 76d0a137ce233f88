----------------------------- MODULE SniffEngine -----------------------------
(***************************************************************************)
(* The passive capture engine, src/src/sniff/engine.rs: it follows TCP     *)
(* connections it does not take part in, cuts their two streams into       *)
(* HTTP/1.x messages, and pairs every response with the oldest request of  *)
(* its connection that has none.                                           *)
(*                                                                         *)
(* A stream is made of units: a message is its start line (part 0), the    *)
(* rest of its header block (part 1) and its body (parts 2, 3, ...), and a *)
(* unit is the pair of the message's number in its stream and the part.    *)
(* Bodies are text without a blank line.  The hosts and the capture are    *)
(* the environment: a behaviour is one of the scenarios of the constant    *)
(* Settings, which says what the connections carry and what may happen to  *)
(* it on the way.                                                          *)
(***************************************************************************)
EXTENDS Direction, SequencesExt

CONSTANTS
  Flows,       \* the connections, FlowKey in the code
  Settings     \* the scenarios: traffic, bounds of the model and network

\* classify: a segment goes to the server's port or comes from it.
Sides == {"client", "server"}
Other(side) == IF side = "client" THEN "server" ELSE "client"

Messages ==
  [ method : {"GET", "POST", "HEAD", "none"},
    status : Nat,                  \* 0 in a request
    length : {Unset} \union Nat,   \* Content-Length, if any
    chunked : BOOLEAN,
    trailers : BOOLEAN,            \* a chunked body ends with trailer fields
    body : Nat,                    \* units of body that are sent
    readable : BOOLEAN,            \* httparse accepts it (64 headers)
    answers : Nat,                 \* number of the request it answers, if any
    after : Nat ]                  \* units of the other side it waits for

Hazards ==
  { "duplicate",   \* units are sent again, cut into segments anew
    "reset",       \* a host resets the connection
    "late" }       \* a connection outlives its flow, or precedes it

ASSUME SniffAssumption ==
  /\ \A s \in DOMAIN Settings :
       LET setting == Settings[s] IN
       /\ DOMAIN setting.traffic \subseteq Flows
       /\ \A f \in DOMAIN setting.traffic, side \in Sides :
            setting.traffic[f][side] \in Seq(Messages)
       /\ setting.maxFlows \in Nat \ {0}
       /\ setting.maxSegment \in Nat \ {0}
       /\ setting.maxGap \in Nat
       /\ setting.maxMisses \in Nat
       /\ setting.network \subseteq Hazards

VARIABLES
  scenario,      \* which of Settings this behaviour is
  flows,         \* the flows the engine follows
  recency,       \* their keys by last_seen, oldest first
  events,        \* the events process and expire_idle returned, in order
  evicted,       \* history: requests dropped with a flow by expire_oldest
  unreadable,    \* history: requests whose response httparse rejected
  parsed,        \* history: requests that entered a queue
  received,      \* per connection and side, positions its peer received
  misses,        \* history: segments the capture missed
  connection     \* per connection: "new", "open", "reset" or "gone"

engineVars == <<flows, recency, events, evicted, unreadable, parsed>>
vars == <<scenario, engineVars, received, misses, connection>>

-----------------------------------------------------------------------------
(* The streams.                                                            *)

UnitsOfMessage(messages, i) == [j \in 1..(2 + messages[i].body) |-> <<i, j - 1>>]
Units(messages) ==
  FlattenSeq([i \in 1..Len(messages) |-> UnitsOfMessage(messages, i)])

Wires ==
  [s \in DOMAIN Settings |->
     [f \in DOMAIN Settings[s].traffic |->
        [side \in Sides |-> Units(Settings[s].traffic[f][side])]]]

\* The messages of each side of a connection, and what it sends of them, from
\* position 0 on.
Traffic == Settings[scenario].traffic
Wire == Wires[scenario]

\* MAX_FLOWS, and the bounds of the scenario: the units in a segment, the units a
\* segment may be ahead by, the segments the capture misses; what may happen.
MaxFlows == Settings[scenario].maxFlows
MaxSegment == Settings[scenario].maxSegment
MaxGap == Settings[scenario].maxGap
MaxMisses == Settings[scenario].maxMisses
Network == Settings[scenario].network

SeqAt(position) == (position + 1) % SeqSpace

NewFlow ==
  [client |-> NewDirection, server |-> NewDirection, requests |-> <<>>]

-----------------------------------------------------------------------------
(* take_http_message.                                                      *)

NoMessage(stream) == [message |-> <<>>, stream |-> stream]

\* A response without a body whatever its header says, when no length is
\* given.
BodilessNever(message, afterHead) == FALSE
Bodiless(message, afterHead) ==
  afterHead \/ message.status \in 100..199 \union {204, 304}

\* Where a chunked body ends whose last unit is the close-th of the stream.
\* After the last chunk chunked_body_len looks for a blank line; only trailer
\* fields put one there, without them it is that of the next header block.
ChunkedEnd(stream, close, trailers) ==
  LET blankLines == {i \in 1..Len(stream) :
                       IF trailers THEN i = close
                       ELSE i > close /\ stream[i][2] = 1}
  IN  IF blankLines = {} THEN Unset
      ELSE CHOOSE i \in blankLines : \A j \in blankLines : i <= j

\* The units of the first message of a stream whose header block ends at
\* position end and belongs to message, or Unset while it is incomplete.
MessageLength(stream, end, message, isRequest, afterHead, endOfStream) ==
  IF message.chunked THEN ChunkedEnd(stream, end + message.body, message.trailers)
  ELSE IF message.length # Unset THEN end + message.length
  ELSE IF isRequest \/ Bodiless(message, afterHead) THEN end
  ELSE IF endOfStream THEN Len(stream)
  ELSE Unset

\* The first message of the stream and what follows it.  Text before a header
\* block makes a response stream unusable and is part of a request's block.
TakeMessage(stream, messages, isRequest, afterHead, endOfStream) ==
  LET ends == {i \in 1..Len(stream) : stream[i][2] = 1} IN
  IF ends = {} THEN NoMessage(stream)
  ELSE
    LET end == CHOOSE i \in ends : \A j \in ends : i <= j
        startsHttp == IF isRequest
                      THEN \E i \in 1..end : stream[i][2] = 0
                      ELSE stream[1][2] = 0
        length == MessageLength(stream, end, messages[stream[end][1]],
                                isRequest, afterHead, endOfStream)
    IN  IF ~startsHttp THEN NoMessage(<<>>)
        ELSE IF length = Unset \/ Len(stream) < length THEN NoMessage(stream)
        ELSE [message |-> SubSeq(stream, 1, length),
              stream |-> SubSeq(stream, length + 1, Len(stream))]

-----------------------------------------------------------------------------
(* The two loops of process: requests join the queue, responses leave it.  *)

\* parse_request and parse_response fail on a block httparse does not accept.
Parses(message, messages) ==
  message[1][2] = 0 /\ messages[message[1][1]].readable

\* The loops run on a record: the flow, the events, the requests that were
\* queued or lost, and whether the loop goes on.
Running(flow) ==
  [flow |-> flow, events |-> <<>>, queued |-> {}, lost |-> {}, more |-> TRUE]

\* A parsed request goes behind those that wait for their responses.
Enqueue(requests, request) == Append(requests, request)

RequestTurn(f, run) ==
  LET messages == Traffic[f].client
      taken == TakeMessage(run.flow.client.stream, messages, TRUE, FALSE, FALSE)
      request == taken.message[1][1]
      drained == [run EXCEPT !.flow.client.stream = taken.stream]
  IN  IF taken.message = <<>> THEN [drained EXCEPT !.more = FALSE]
      ELSE IF ~Parses(taken.message, messages) THEN drained
      ELSE [drained EXCEPT !.flow.requests = Enqueue(@, request),
                           !.queued = @ \union {<<f, request>>}]

\* An event names its request, the response it carries (0 when there is none)
\* and the units it took for that response.
Event(f, request, response, units) ==
  [flow |-> f, request |-> request, response |-> response, units |-> units]

\* Interim responses do not answer a request; 101 does.
NeverInterim(status) == FALSE
Interim(status) == status \in 100..199 /\ status # 101

\* What the server's loop does with what it took from the stream.
Answer(f, run, taken) ==
  LET messages == Traffic[f].server
      requests == run.flow.requests
      response == taken.message[1][1]
      drained == [run EXCEPT !.flow.server.stream = taken.stream]
      answered == [drained EXCEPT !.flow.requests = Tail(@)]
  IN  IF taken.message = <<>> THEN [drained EXCEPT !.more = FALSE]
      ELSE IF /\ Parses(taken.message, messages)
              /\ Interim(messages[response].status)
           THEN drained
      ELSE IF requests = <<>> THEN drained
      ELSE IF Parses(taken.message, messages)
           THEN [answered EXCEPT !.events =
                   Append(@, Event(f, Head(requests), response, taken.message))]
           ELSE [answered EXCEPT !.lost = @ \union {<<f, Head(requests)>>}]

ResponseTurn(f, fin, run) ==
  LET requests == run.flow.requests
      afterHead == /\ requests # <<>>
                   /\ Traffic[f].client[Head(requests)].method = "HEAD"
  IN  Answer(f, run, TakeMessage(run.flow.server.stream, Traffic[f].server,
                                 FALSE, afterHead, fin))

\* The loop of a side, run until it breaks; each turn but the last takes units
\* from a stream.
Parse(f, side, fin, flow) ==
  LET turns == Len(flow[side].stream) + 1
      Turn(run) == IF side = "client" THEN RequestTurn(f, run)
                   ELSE ResponseTurn(f, fin, run)
      after[n \in 0..turns] ==
        IF n = 0 THEN Running(flow)
        ELSE LET before == after[n - 1] IN
             IF before.more THEN Turn(before) ELSE before
  IN  after[turns]

\* incomplete_events: the requests of a flow that ends get an event without a
\* response.
IncompleteForgotten(f, flow) == <<>>
Incomplete(f, flow) ==
  [i \in 1..Len(flow.requests) |-> Event(f, flow.requests[i], 0, <<>>)]

-----------------------------------------------------------------------------
(* The engine's operations.                                                *)

QueuedIn(f, flow) == {<<f, flow.requests[i]>> : i \in 1..Len(flow.requests)}

\* A new flow makes room for itself when the table is full.
NeverFull(f) == FALSE
TableFull(f) == f \notin DOMAIN flows /\ Cardinality(DOMAIN flows) >= MaxFlows

\* expire_oldest drops the flow not seen for longest, without a word on its
\* requests.
Victims(f) == IF TableFull(f) THEN {Head(recency)} ELSE {}

\* The order of the flows without some of them, and with one moved to its end.
Without(order, gone) ==
  LET kept[n \in 0..Len(order)] ==
        IF n = 0 THEN <<>>
        ELSE IF order[n] \in gone THEN kept[n - 1] ELSE Append(kept[n - 1], order[n])
  IN  kept[Len(order)]
Touch(order, f) == Append(Without(order, {f}), f)

\* A segment of a connection carries units from..to-1 of a side, and flags.
PushSegment(direction, units, segment) ==
  IF segment.from < segment.to
  THEN Push(direction, SeqAt(segment.from),
            SubSeq(units, segment.from + 1, segment.to))
  ELSE IF segment.syn THEN PushSyn(direction, 0)
  ELSE direction

\* process, for a RST without payload: the flow ends, if there is one.
ProcessReset(f) ==
  /\ events' = events \o (IF f \in DOMAIN flows THEN Incomplete(f, flows[f]) ELSE <<>>)
  /\ flows' = Restrict(flows, DOMAIN flows \ {f})
  /\ recency' = Without(recency, {f})
  /\ UNCHANGED <<evicted, unreadable, parsed>>

\* What process leaves behind: the victims are gone, the flow of f is that of
\* the run, or ended by RST with its payload.
Leave(f, rst, victims, run) ==
  LET others == Restrict(flows, DOMAIN flows \ (victims \union {f})) IN
  /\ events' = events \o run.events
               \o (IF rst THEN Incomplete(f, run.flow) ELSE <<>>)
  /\ flows' = IF rst THEN others ELSE Insert(others, f, run.flow)
  /\ recency' = IF rst THEN Without(recency, victims \union {f})
                ELSE Touch(Without(recency, victims), f)
  /\ evicted' = evicted \union UNION {QueuedIn(g, flows[g]) : g \in victims}
  /\ unreadable' = unreadable \union run.lost
  /\ parsed' = parsed \union run.queued

\* process, for any other segment.
ProcessSegment(f, side, segment) ==
  LET flow == IF f \in DOMAIN flows THEN flows[f] ELSE NewFlow
      pushed == [flow EXCEPT ![side] = PushSegment(@, Wire[f][side], segment)]
  IN  Leave(f, segment.rst, Victims(f), Parse(f, side, segment.fin, pushed))

Process(f, side, segment) ==
  IF segment.rst /\ segment.from = segment.to
  THEN ProcessReset(f)
  ELSE ProcessSegment(f, side, segment)

\* expire_idle removes the flows last seen longest ago and reports their
\* requests.  (HashMap order between the flows; the order is of no concern.)
ExpireOldestFlows(n) ==
  LET expired == SubSeq(recency, 1, n) IN
  /\ events' = events \o FlattenSeq([i \in 1..n |->
                                       Incomplete(expired[i], flows[expired[i]])])
  /\ flows' = Restrict(flows, DOMAIN flows \ ToSet(expired))
  /\ recency' = SubSeq(recency, n + 1, Len(recency))
  /\ UNCHANGED <<evicted, unreadable, parsed>>

-----------------------------------------------------------------------------
(* The connections and the capture.                                        *)

Empty(position) ==
  [from |-> position, to |-> position, syn |-> FALSE, fin |-> FALSE, rst |-> FALSE]

\* How much of a side's stream its peer has received without a gap.
Prefix(f, side) ==
  CHOOSE n \in 0..Len(Wire[f][side]) :
    0..n-1 \subseteq received[f][side] /\ n \notin received[f][side]

\* A message is sent when what it waits for has arrived: a response after its
\* request, a request after the response before it unless it is pipelined.
Sent(f, side, position) ==
  Traffic[f][side][Wire[f][side][position + 1][1]].after <= Prefix(f, Other(side))

\* The segments the hosts may put on the wire now.
OnWire(f, side) ==
  LET size == Len(Wire[f][side])
      prefix == Prefix(f, side)
  IN  {s \in [from : 0..size, to : 0..size, syn : {FALSE}, fin : BOOLEAN, rst : {FALSE}] :
         /\ s.from < s.to /\ s.to <= s.from + MaxSegment
         /\ \A p \in s.from..s.to-1 : Sent(f, side, p)
         /\ s.fin => s.to = size
         /\ s.from <= prefix + MaxGap
         /\ \/ "duplicate" \in Network
            \/ s.from..s.to-1 \intersect received[f][side] = {}}

\* The SYN of each side, which carries no data.
Handshake(f) ==
  /\ connection[f] = "new"
  /\ \E side \in Sides :
       /\ side = "server" => f \in DOMAIN flows /\ flows[f].client.next # Unset
       /\ f \in DOMAIN flows => flows[f][side].next = Unset
       /\ Process(f, side, [Empty(0) EXCEPT !.syn = TRUE])
       /\ connection' = [connection EXCEPT ![f] = IF side = "server" THEN "open" ELSE @]
  /\ UNCHANGED <<scenario, received, misses>>

\* A segment with payload arrives and the capture shows it.
Capture(f) ==
  /\ connection[f] = "open"
  /\ \E side \in Sides : \E s \in OnWire(f, side) :
       /\ Process(f, side, s)
       /\ received' = [received EXCEPT ![f][side] = @ \union (s.from..s.to-1)]
  /\ UNCHANGED <<scenario, misses, connection>>

\* A segment with payload arrives and the capture has no copy of it: the ring
\* of the packet socket was full.  With "late", the capture had not begun.
Miss(f) ==
  /\ connection[f] = "open"
  /\ misses < MaxMisses
  /\ "late" \in Network => flows = <<>>
  /\ misses' = misses + 1
  /\ \E side \in Sides : \E s \in OnWire(f, side) :
       received' = [received EXCEPT ![f][side] = @ \union (s.from..s.to-1)]
  /\ UNCHANGED <<scenario, engineVars, connection>>

\* A segment without payload after the end of a side: its FIN.
Finish(f) ==
  /\ connection[f] = "open"
  /\ \E side \in Sides :
       LET size == Len(Wire[f][side]) IN
       /\ size > 0 /\ Sent(f, side, size - 1)
       /\ size <= Prefix(f, side) + MaxGap
       /\ Process(f, side, [Empty(size) EXCEPT !.fin = TRUE])
  /\ UNCHANGED <<scenario, received, misses, connection>>

\* A host resets the connection, in a segment of its own or in its last data.
Reset(f) ==
  /\ connection[f] = "open"
  /\ "reset" \in Network
  /\ \E side \in Sides :
       \E s \in OnWire(f, side) \union {Empty(Prefix(f, side))} :
         /\ Process(f, side, [s EXCEPT !.rst = TRUE])
         /\ received' = [received EXCEPT ![f][side] = @ \union (s.from..s.to-1)]
  /\ connection' = [connection EXCEPT ![f] = "reset"]
  /\ UNCHANGED <<scenario, misses>>

\* A connection carries nothing more.
GoQuiet(f) ==
  /\ connection[f] \in {"new", "open"}
  /\ connection' = [connection EXCEPT ![f] = "gone"]
  /\ UNCHANGED <<scenario, engineVars, received, misses>>

\* run_sniffer calls expire_idle(60 s) once a second.  A connection that is
\* quiet for that long without being over needs "late".
ExpireIdle ==
  /\ \E n \in 1..Len(recency) :
       /\ "late" \in Network \/ \A i \in 1..n : connection[recency[i]] \notin {"new", "open"}
       /\ ExpireOldestFlows(n)
  /\ UNCHANGED <<scenario, received, misses, connection>>

Init ==
  /\ scenario \in DOMAIN Settings
  /\ flows = <<>>
  /\ recency = <<>>
  /\ events = <<>>
  /\ evicted = {}
  /\ unreadable = {}
  /\ parsed = {}
  /\ received = [f \in Flows |-> [side \in Sides |-> {}]]
  /\ misses = 0
  /\ connection \in
       {c \in [Flows -> {"new", "open", "gone"}] :
          \A f \in Flows :
            /\ c[f] = "gone" <=> f \notin DOMAIN Traffic
            /\ c[f] = "open" => "late" \in Network}

Next ==
  \/ \E f \in Flows :
       \/ Handshake(f)
       \/ Capture(f)
       \/ Miss(f)
       \/ Finish(f)
       \/ Reset(f)
       \/ GoQuiet(f)
  \/ ExpireIdle

Spec == Init /\ [][Next]_vars

\* Connections end, and run_sniffer goes on calling expire_idle.
FairSpec ==
  /\ Spec
  /\ \A f \in Flows : WF_vars(GoQuiet(f))
  /\ WF_vars(ExpireIdle)

-----------------------------------------------------------------------------
(* Correctness.                                                            *)

\* The queued requests of all flows.
Queued == UNION {QueuedIn(f, flows[f]) : f \in DOMAIN flows}

RequestsOf(traffic) ==
  UNION {{f} \X (1..Len(traffic[f].client)) : f \in DOMAIN traffic}
AllRequests == UNION {RequestsOf(Settings[s].traffic) : s \in DOMAIN Settings}

EventOf(request) == {i \in 1..Len(events) : <<events[i].flow, events[i].request>> = request}

\* The engine's table and its order agree, and every flow is one of the
\* connections.
TypeOK ==
  /\ DOMAIN flows \subseteq Flows
  /\ ToSet(recency) = DOMAIN flows
  /\ IsInjective(recency)
  /\ \A f \in DOMAIN flows :
       \A i \in 1..Len(flows[f].requests) :
         flows[f].requests[i] \in 1..Len(Traffic[f].client)

\* The state is well formed, and the table never holds more flows than its limit.
FlowsBounded == TypeOK /\ Cardinality(DOMAIN flows) <= MaxFlows

\* An event with a response carries the response the server gave to that very
\* request, from its first unit to its last and nothing else.  (Of a connection
\* the capture met half way nothing is claimed.)
EventsAreTrue ==
  "late" \notin Network =>
  \A i \in 1..Len(events) :
    LET e == events[i] IN
    e.response # 0 =>
      /\ Traffic[e.flow].server[e.response].answers = e.request
      /\ e.units = UnitsOfMessage(Traffic[e.flow].server, e.response)

\* The requests that events are about.
Reported(es) == {<<es[i].flow, es[i].request>> : i \in 1..Len(es)}

\* No request that was parsed disappears, and none comes from nowhere.
NothingIsLost == parsed = Queued \union evicted \union unreadable \union Reported(events)

\* A request that was parsed is in one place: still queued, or reported in one
\* event, or dropped with an evicted flow, or lost to an unreadable response.
\* Those of a connection are reported in the order in which it sent them.
RequestsAccounted ==
  /\ NothingIsLost
  /\ \A r \in parsed :
       LET places == <<r \in Queued, r \in evicted, r \in unreadable, EventOf(r) # {}>> IN
       /\ Cardinality({i \in 1..4 : places[i]}) = 1
       /\ Cardinality(EventOf(r)) <= 1
  /\ \A f \in DOMAIN flows : IsInjective(flows[f].requests)
  /\ \A i, j \in 1..Len(events) :
       i < j /\ events[i].flow = events[j].flow => events[i].request < events[j].request

\* The capture shows all segments: in order and repeated, or each once and out
\* of order; and the table has room for the connections.
Shown ==
  /\ misses = 0
  /\ "late" \notin Network
  /\ MaxGap = 0 \/ "duplicate" \notin Network
  /\ Cardinality(DOMAIN Traffic) <= MaxFlows

\* A response that ends with its connection; one to HEAD ends with its header block.
AnswersHead(f, i) ==
  \E r \in 1..Len(Traffic[f].client) :
    r = Traffic[f].server[i].answers /\ Traffic[f].client[r].method = "HEAD"
UntilEnd(message, afterHead) ==
  ~message.chunked /\ message.length = Unset /\ ~Bodiless(message, afterHead)

\* Of a connection whose segments are all shown, nothing is missed: when all has
\* arrived every final response the parser accepts, and which needs no FIN to
\* end, is in an event.
NothingIsMissed ==
  Shown =>
    \A f \in Flows :
      /\ connection[f] = "open"
      /\ \A side \in Sides : Prefix(f, side) = Len(Wire[f][side])
      => \A i \in 1..Len(Traffic[f].server) :
           LET response == Traffic[f].server[i] IN
           /\ response.readable /\ ~Interim(response.status)
           /\ ~UntilEnd(response, AnswersHead(f, i))
           =>
             \E e \in 1..Len(events) : events[e].flow = f /\ events[e].response = i

\* A request the engine parsed does not stay in memory: it is reported, or
\* dropped where the engine says it drops.
RequestsAreReported ==
  \A r \in AllRequests :
    r \in Queued ~> EventOf(r) # {} \/ r \in evicted \union unreadable
=============================================================================
