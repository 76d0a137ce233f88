-------------------------- MODULE SniffEngineProofs --------------------------
(***************************************************************************)
(* Proofs about SniffEngine, for every scenario that its assumption allows *)
(* and every value of the limits.                                          *)
(*                                                                         *)
(* The inductive invariant IInv says of the table of flows that it is      *)
(* within MAX_FLOWS and agrees with the order of last_seen, of each flow   *)
(* that its directions are within their limits and its queue is made of    *)
(* requests of its connection, and of the account that every request that  *)
(* entered a queue is in some place.  The loops of process are handled by  *)
(* an invariant of their turns, which is GoodRuns.                         *)
(*                                                                         *)
(* OrdersNow is what the other half of RequestsAccounted needs besides:    *)
(* where on its wire each direction is (Wired, from DirectionProofs), that *)
(* every request parsed began behind the stream the client's direction     *)
(* still holds (Tracked), and that what is reported, lost and queued is in *)
(* the order of the requests (OrderOK).  Its loops are ClientRuns and      *)
(* ServerRuns.                                                             *)
(*                                                                         *)
(* TrueNow is what EventsAreTrue needs besides, of a Faithful scenario:    *)
(* both directions of a flow stand at the edge of a message, its queue is  *)
(* the requests between the two edges, and no response is shown before its *)
(* request (InStep, Reached, Asked).                                       *)
(*                                                                         *)
(* IntactNow is what NothingIsMissed needs besides: as long as the capture *)
(* shows everything once and nothing is too long to wait, a direction      *)
(* holds all positions received that it has not passed (Intact).           *)
(***************************************************************************)
EXTENDS SniffEngine, DirectionProofs

\* What is left of an order of flows is what does not go, and no flow is in it
\* twice if none was.
LEMMA WithoutShape ==
  ASSUME NEW S, NEW order \in Seq(S), NEW gone
  PROVE  /\ Without(order, gone) \in Seq(S)
         /\ ToSet(Without(order, gone)) = ToSet(order) \ gone
         /\ IsInjective(order) => IsInjective(Without(order, gone))
<1> DEFINE turns == Len(order)
           First(n) == {order[i] : i \in 1..n}
           IsRun(f) == f = [n \in 0..turns |->
                              IF n = 0 THEN <<>>
                              ELSE IF order[n] \in gone THEN f[n - 1] ELSE Append(f[n - 1], order[n])]
           kept == CHOOSE f : IsRun(f)
           Q == [n \in Nat |-> {s \in Seq(S) :
                                  /\ ToSet(s) = First(n) \ gone
                                  /\ IsInjective(order) => IsInjective(s)}]
<1>1. turns \in Nat /\ DOMAIN order = 1..turns /\ \A n \in 1..turns : order[n] \in S
  OBVIOUS
<1>2. Without(order, gone) = kept[turns]
  BY DEF Without
<1>3. \E f : IsRun(f)
  <2> DEFINE step == [c \in (1..turns) \X Seq(S) |->
                        IF order[c[1]] \in gone THEN c[2] ELSE Append(c[2], order[c[1]])]
  <2>1. step \in [(1..turns) \X Seq(S) -> Seq(S)]
    BY <1>1
  <2>2. \A n \in 1..turns, s \in Seq(S) :
          step[<<n, s>>] = IF order[n] \in gone THEN s ELSE Append(s, order[n])
    OBVIOUS
  <2>3. <<>> \in Seq(S)
    OBVIOUS
  <2> HIDE DEF step, turns
  <2>4. PICK f \in [0..turns -> Seq(S)] : IsLoop(f, turns, <<>>, step)
    BY <1>1, <2>1, <2>3, LoopExists
  <2>5. ASSUME NEW n \in 0..turns
        PROVE  f[n] = IF n = 0 THEN <<>>
                      ELSE IF order[n] \in gone THEN f[n - 1] ELSE Append(f[n - 1], order[n])
    <3>1. CASE n = 0
      BY <2>4, <3>1 DEF IsLoop
    <3>2. CASE n # 0
      <4>1. n \in 1..turns /\ n - 1 \in 0..turns
        BY <1>1, <3>2
      <4>2. f[n] = step[<<n, f[n - 1]>>]
        BY <2>4, <3>2 DEF IsLoop
      <4>3. f[n - 1] \in Seq(S)
        BY <4>1
      <4>4. QED
        BY <2>2, <3>2, <4>1, <4>2, <4>3
    <3>3. QED
      BY <3>1, <3>2
  <2>6. IsRun(f)
    BY <2>5
  <2>7. QED
    BY <2>6
<1> HIDE DEF IsRun, turns
<1>4. IsRun(kept)
  BY <1>3
<1> HIDE DEF kept
<1>5. kept[0] = <<>>
  BY <1>1, <1>4 DEF IsRun
<1>6. \A n \in 1..turns : kept[n] = IF order[n] \in gone THEN kept[n - 1]
                                   ELSE Append(kept[n - 1], order[n])
  <2> TAKE n \in 1..turns
  <2>1. n \in 0..turns /\ n # 0
    BY <1>1
  <2>2. QED
    BY <1>4, <2>1 DEF IsRun
<1>7. kept[0] \in Q[0]
  <2>1. First(0) = {} /\ ToSet(<<>>) = {} /\ IsInjective(<<>>)
    BY DEF ToSet, IsInjective
  <2>2. QED
    BY <1>5, <2>1
<1>8. ASSUME NEW n \in 1..turns, kept[n - 1] \in Q[n - 1] PROVE kept[n] \in Q[n]
  <2>1. n \in Nat /\ n - 1 \in Nat /\ order[n] \in S
    BY <1>1
  <2>2. PICK s : s = kept[n - 1]
    OBVIOUS
  <2>3. s \in Seq(S) /\ ToSet(s) = First(n - 1) \ gone /\ (IsInjective(order) => IsInjective(s))
    BY <1>8, <2>1, <2>2
  <2>4. First(n) = First(n - 1) \union {order[n]}
    <3>1. \A i : i \in 1..n <=> i \in 1..n-1 \/ i = n
      BY <2>1
    <3>2. QED
      BY <3>1
  <2>5. CASE order[n] \in gone
    BY <1>6, <2>1, <2>2, <2>3, <2>4, <2>5
  <2>6. CASE order[n] \notin gone
    <3>1. kept[n] = Append(s, order[n])
      BY <1>6, <2>2, <2>6
    <3>2. kept[n] \in Seq(S) /\ ToSet(kept[n]) = First(n) \ gone
      BY <2>1, <2>3, <2>4, <2>6, <3>1, SequenceAppend
    <3>3. ASSUME IsInjective(order) PROVE order[n] \notin ToSet(s)
      <4>1. SUFFICES ASSUME NEW i \in 1..n-1, order[i] = order[n] PROVE FALSE
        BY <2>3
      <4>2. i \in 1..turns /\ i # n
        BY <1>1, <2>1
      <4>3. QED
        BY <1>1, <3>3, <4>1, <4>2 DEF IsInjective
    <3>4. IsInjective(order) => IsInjective(kept[n])
      BY <2>1, <2>3, <3>1, <3>3, SequenceAppend, SMTT(60)
    <3>5. QED
      BY <2>1, <3>2, <3>4
  <2>7. QED
    BY <2>5, <2>6
<1> HIDE DEF Q
<1>9. kept[turns] \in Q[turns]
  BY <1>1, <1>7, <1>8, LoopInvariant
<1>10. First(turns) = ToSet(order)
  BY <1>1 DEF ToSet
<1>11. QED
  BY <1>1, <1>2, <1>9, <1>10 DEF Q

-----------------------------------------------------------------------------
(* The streams and their messages.                                         *)

\* What a stream that carries these messages is made of.
UnitsOf(messages) == (1..Len(messages)) \X Nat

\* The stream of these messages is made of their units.
LEMMA UnitsShape ==
  ASSUME NEW messages \in Seq(Messages)
  PROVE  Units(messages) \in Seq(UnitsOf(messages))
<1> DEFINE U == UnitsOf(messages)
           Parts(i) == [j \in 1..(2 + messages[i].body) |-> <<i, j - 1>>]
           parts == [i \in 1..Len(messages) |-> Parts(i)]
<1>1. Len(messages) \in Nat /\ \A i \in 1..Len(messages) : messages[i] \in Messages
  OBVIOUS
<1>2. ASSUME NEW i \in 1..Len(messages) PROVE Parts(i) \in Seq(U)
  <2>a. PICK message \in Messages : message = messages[i]
    BY <1>1
  <2>b. message.body \in Nat
    BY DEF Messages
  <2>1. PICK n \in Nat : n = 2 + messages[i].body
    BY <2>a, <2>b
  <2>2. \A j \in 1..n : <<i, j - 1>> \in U
    BY DEF UnitsOf
  <2>3. Parts(i) = [j \in 1..n |-> <<i, j - 1>>]
    BY <2>1
  <2>4. [j \in 1..n |-> <<i, j - 1>>] \in [1..n -> U]
    BY <2>2
  <2>5. PICK s : s = [j \in 1..n |-> <<i, j - 1>>]
    OBVIOUS
  <2>6. n \in Nat
    BY <2>1, <2>a, <2>b
  <2> HIDE DEF U, Parts
  <2>7. s \in Seq(U)
    BY <2>4, <2>5, <2>6, FunctionsAreSequences
  <2>8. QED
    BY <2>3, <2>5, <2>7
<1>3. parts \in [1..Len(messages) -> Seq(U)]
  BY <1>2
<1>4. parts \in Seq(Seq(U))
  BY <1>1, <1>3
<1> HIDE DEF U
<1>5. FlattenSeq(parts) \in Seq(U)
  BY <1>4, FlattenShape
<1>6. QED
  BY <1>5 DEF U, Units, UnitsOfMessage

\* chunked_body_len finds the end within the stream, or none.
LEMMA ChunkedEndShape ==
  ASSUME NEW U, NEW stream \in Seq(U), NEW close, NEW trailers
  PROVE  ChunkedEnd(stream, close, trailers) \in {Unset} \union 1..Len(stream)
<1> DEFINE blankLines == {i \in 1..Len(stream) :
                            IF trailers THEN i = close ELSE i > close /\ stream[i][2] = 1}
<1>1. blankLines \in SUBSET Nat /\ blankLines \subseteq 1..Len(stream)
  OBVIOUS
<1>2. ChunkedEnd(stream, close, trailers) =
        IF blankLines = {} THEN Unset
        ELSE CHOOSE i \in blankLines : \A j \in blankLines : i <= j
  BY DEF ChunkedEnd
<1> HIDE DEF blankLines
<1>3. CASE blankLines = {}
  BY <1>2, <1>3
<1>4. CASE blankLines # {}
  <2>1. \E i \in blankLines : \A j \in blankLines : i <= j
    BY <1>1, <1>4, LeastNatural
  <2>2. (CHOOSE i \in blankLines : \A j \in blankLines : i <= j) \in blankLines
    BY <2>1
  <2>3. QED
    BY <1>1, <1>2, <1>4, <2>2
<1>5. QED
  BY <1>3, <1>4

\* A message has a length, or is not complete.
LEMMA MessageLengthShape ==
  ASSUME NEW U, NEW stream \in Seq(U), NEW end \in Nat, NEW message \in Messages,
         NEW isRequest, NEW afterHead, NEW endOfStream
  PROVE  MessageLength(stream, end, message, isRequest, afterHead, endOfStream)
           \in {Unset} \union Nat
<1>1. message.length \in {Unset} \union Nat
  BY DEF Messages
<1>2. ChunkedEnd(stream, end + message.body, message.trailers) \in {Unset} \union Nat
  BY ChunkedEndShape
<1>3. message.length # Unset => end + message.length \in Nat
  BY <1>1
<1>4. Len(stream) \in Nat
  OBVIOUS
<1>5. QED
  BY <1>2, <1>3, <1>4 DEF MessageLength

\* What take_http_message returns and leaves are parts of the stream.
LEMMA TakeMessageShape ==
  ASSUME NEW messages \in Seq(Messages), NEW stream \in Seq(UnitsOf(messages)),
         NEW isRequest, NEW afterHead, NEW endOfStream,
         NEW taken, taken = TakeMessage(stream, messages, isRequest, afterHead, endOfStream)
  PROVE  /\ taken.message \in Seq(UnitsOf(messages))
         /\ taken.stream \in Seq(UnitsOf(messages))
         /\ Len(taken.stream) <= Len(stream)
<1> DEFINE U == UnitsOf(messages)
           ends == {i \in 1..Len(stream) : stream[i][2] = 1}
           end == CHOOSE i \in ends : \A j \in ends : i <= j
           startsHttp == IF isRequest THEN \E i \in 1..end : stream[i][2] = 0
                         ELSE stream[1][2] = 0
           length == MessageLength(stream, end, messages[stream[end][1]],
                                   isRequest, afterHead, endOfStream)
<1>1. taken = IF ends = {} THEN NoMessage(stream)
              ELSE IF ~startsHttp THEN NoMessage(<<>>)
              ELSE IF length = Unset \/ Len(stream) < length THEN NoMessage(stream)
              ELSE [message |-> SubSeq(stream, 1, length),
                    stream |-> SubSeq(stream, length + 1, Len(stream))]
  BY DEF TakeMessage
<1>2. ends \in SUBSET Nat /\ ends \subseteq 1..Len(stream)
  OBVIOUS
<1>3. \A i \in 1..Len(stream) : stream[i] \in UnitsOf(messages)
  OBVIOUS
<1>4. \A n \in 0..Len(stream) :
        /\ SubSeq(stream, 1, n) \in Seq(U) /\ SubSeq(stream, n + 1, Len(stream)) \in Seq(U)
        /\ Len(SubSeq(stream, n + 1, Len(stream))) <= Len(stream)
  <2> TAKE n \in 0..Len(stream)
  <2>1. PICK a : a = SubSeq(stream, 1, n)
    OBVIOUS
  <2>2. PICK b : b = SubSeq(stream, n + 1, Len(stream))
    OBVIOUS
  <2>3. a \in Seq(U) /\ b \in Seq(U) /\ Len(b) = Len(stream) - n
    BY <2>1, <2>2, SequenceSplit DEF Splits
  <2>4. QED
    BY <2>1, <2>2, <2>3
<1> HIDE DEF ends, startsHttp
<1>5. ends # {} => length \in {Unset} \union Nat
  <2> SUFFICES ASSUME ends # {} PROVE length \in {Unset} \union Nat
    OBVIOUS
  <2>1. \E i \in ends : \A j \in ends : i <= j
    BY <1>2, LeastNatural
  <2>2. end \in ends
    BY <2>1
  <2> HIDE DEF end
  <2>3. end \in 1..Len(stream) /\ end \in Nat
    BY <1>2, <2>2
  <2>4. stream[end][1] \in 1..Len(messages)
    BY <1>3, <2>3 DEF UnitsOf
  <2>5. messages[stream[end][1]] \in Messages
    BY <2>4
  <2>6. QED
    BY <2>3, <2>5, MessageLengthShape
<1> HIDE DEF length, end
<1>6. CASE taken = NoMessage(stream)
  BY <1>6 DEF NoMessage
<1>7. CASE taken = NoMessage(<<>>)
  BY <1>7 DEF NoMessage
<1>8. CASE /\ ends # {} /\ length # Unset /\ ~(Len(stream) < length)
           /\ taken = [message |-> SubSeq(stream, 1, length),
                       stream |-> SubSeq(stream, length + 1, Len(stream))]
  <2>1. length \in 0..Len(stream)
    BY <1>5, <1>8
  <2>2. PICK a : a = SubSeq(stream, 1, length)
    OBVIOUS
  <2>3. PICK b : b = SubSeq(stream, length + 1, Len(stream))
    OBVIOUS
  <2>4. a \in Seq(U) /\ b \in Seq(U) /\ Len(b) <= Len(stream)
    BY <1>4, <2>1, <2>2, <2>3
  <2>5. taken = [message |-> a, stream |-> b]
    BY <1>8, <2>2, <2>3
  <2>6. QED
    BY <2>4, <2>5
<1>9. QED
  BY <1>1, <1>6, <1>7, <1>8, SMTT(60)

-----------------------------------------------------------------------------
(* What the engine knows of requests.                                      *)

\* The events process and expire_idle return.
Events == [flow : Flows, request : Nat, response : Nat, units : Seq(Nat \X Nat)]

\* The queue of a flow, and the events, as sets.
LEMMA QueuedIs ==
  ASSUME NEW f, NEW S, NEW flow, flow.requests \in Seq(S)
  PROVE  QueuedIn(f, flow) = {<<f, r>> : r \in ToSet(flow.requests)}
<1>1. PICK q \in Seq(S) : q = flow.requests
  OBVIOUS
<1>2. PICK n \in Nat : n = Len(q)
  BY <1>1
<1>3. DOMAIN q = 1..n
  BY <1>2
<1>4. QED
  BY <1>1, <1>2, <1>3 DEF QueuedIn, ToSet

\* The requests that events name are those of the set of events.
LEMMA ReportedIs ==
  ASSUME NEW S, NEW es \in Seq(S)
  PROVE  Reported(es) = {<<e.flow, e.request>> : e \in ToSet(es)}
<1>1. PICK n \in Nat : n = Len(es)
  OBVIOUS
<1>2. DOMAIN es = 1..n
  BY <1>1
<1>3. QED
  BY <1>1, <1>2 DEF Reported, ToSet

\* An event more, and events behind events.
LEMMA ReportedAppend ==
  ASSUME NEW S, NEW es \in Seq(S), NEW e \in S
  PROVE  Reported(Append(es, e)) = Reported(es) \union {<<e.flow, e.request>>}
<1>1. PICK t : t = Append(es, e)
  OBVIOUS
<1>2. t \in Seq(S) /\ ToSet(t) = ToSet(es) \union {e}
  BY <1>1, SequenceAppend
<1>3. Reported(t) = {<<x.flow, x.request>> : x \in ToSet(t)}
  BY <1>2, ReportedIs
<1>4. Reported(es) = {<<x.flow, x.request>> : x \in ToSet(es)}
  BY ReportedIs
<1>5. QED
  BY <1>1, <1>2, <1>3, <1>4

\* Events behind events report what either reports.
LEMMA ReportedConcat ==
  ASSUME NEW S, NEW s \in Seq(S), NEW t \in Seq(S)
  PROVE  Reported(s \o t) = Reported(s) \union Reported(t)
<1>1. PICK u : u = s \o t
  OBVIOUS
<1>2. u \in Seq(S) /\ ToSet(u) = ToSet(s) \union ToSet(t)
  BY <1>1, SequenceConcat
<1>3. Reported(u) = {<<x.flow, x.request>> : x \in ToSet(u)}
  BY <1>2, ReportedIs
<1>4. /\ Reported(s) = {<<x.flow, x.request>> : x \in ToSet(s)}
      /\ Reported(t) = {<<x.flow, x.request>> : x \in ToSet(t)}
  BY ReportedIs
<1>5. QED
  BY <1>1, <1>2, <1>3, <1>4

\* No event, no request.
LEMMA NoneReported ==
  Reported(<<>>) = {}
<1>1. 1..Len(<<>>) = {}
  OBVIOUS
<1>2. QED
  BY <1>1 DEF Reported

\* An event names the request it was made for.
LEMMA EventShape ==
  ASSUME NEW f \in Flows, NEW request \in Nat, NEW response \in Nat,
         NEW units \in Seq(Nat \X Nat),
         NEW e, e = Event(f, request, response, units)
  PROVE  e \in Events /\ e.flow = f /\ e.request = request
BY DEF Event, Events

\* A flow that ends reports its queue.
LEMMA IncompleteShape ==
  ASSUME NEW f \in Flows, NEW flow, flow.requests \in Seq(Nat),
         NEW es, es = Incomplete(f, flow)
  PROVE  es \in Seq(Events) /\ Reported(es) = QueuedIn(f, flow)
<1>1. PICK q \in Seq(Nat) : q = flow.requests
  OBVIOUS
<1>2. PICK n \in Nat : n = Len(q)
  OBVIOUS
<1>3. \A i \in 1..n : q[i] \in Nat
  BY <1>2
<1>4. PICK none : none = <<>>
  OBVIOUS
<1>5. none \in Seq(Nat \X Nat)
  BY <1>4
<1>6. es = [i \in 1..n |-> Event(f, q[i], 0, none)]
  BY <1>1, <1>2, <1>4 DEF Incomplete
<1>7. ASSUME NEW i \in 1..n
      PROVE  es[i] \in Events /\ es[i].flow = f /\ es[i].request = q[i]
  <2>1. es[i] = Event(f, q[i], 0, none)
    BY <1>6
  <2>2. q[i] \in Nat
    BY <1>3
  <2>3. QED
    BY <1>5, <2>1, <2>2, EventShape
<1>8. es \in [1..n -> Events]
  BY <1>6, <1>7
<1>9. es \in Seq(Events) /\ Len(es) = n
  BY <1>8, FunctionsAreSequences
<1>10. Reported(es) = {<<es[i].flow, es[i].request>> : i \in 1..n}
  BY <1>9 DEF Reported
<1>11. QueuedIn(f, flow) = {<<f, q[i]>> : i \in 1..n}
  BY <1>1, <1>2 DEF QueuedIn
<1>12. Reported(es) = QueuedIn(f, flow)
  <2>1. \A i \in 1..n : <<es[i].flow, es[i].request>> = <<f, q[i]>>
    BY <1>7
  <2> HIDE <1>6
  <2>2. \A p : p \in Reported(es) <=> \E i \in 1..n : p = <<es[i].flow, es[i].request>>
    BY <1>10
  <2>3. \A p : p \in QueuedIn(f, flow) <=> \E i \in 1..n : p = <<f, q[i]>>
    BY <1>11
  <2>4. ASSUME NEW p \in Reported(es) PROVE p \in QueuedIn(f, flow)
    <3>1. PICK i \in 1..n : p = <<es[i].flow, es[i].request>>
      BY <2>2
    <3>2. p = <<f, q[i]>>
      BY <2>1, <3>1
    <3>3. QED
      BY <2>3, <3>2
  <2>5. ASSUME NEW p \in QueuedIn(f, flow) PROVE p \in Reported(es)
    <3>1. PICK i \in 1..n : p = <<f, q[i]>>
      BY <2>3
    <3>2. p = <<es[i].flow, es[i].request>>
      BY <2>1, <3>1
    <3>3. QED
      BY <2>2, <3>2
  <2>6. QED
    BY <2>4, <2>5
<1>13. QED
  BY <1>9, <1>12

-----------------------------------------------------------------------------
(* The loops of process.                                                   *)

\* Flows of a connection that carries traffic.
FlowsOf(traffic) ==
  [ client : Directions(UnitsOf(traffic.client)),
    server : Directions(UnitsOf(traffic.server)),
    requests : Seq(1..Len(traffic.client)) ]

\* Both directions of a flow keep to their two limits.
FlowInBudget(flow) == InBudget(flow.client) /\ InBudget(flow.server)

RequestNames == Flows \X Nat

Runs(traffic) ==
  [ flow : FlowsOf(traffic), events : Seq(Events), queued : SUBSET RequestNames,
    lost : SUBSET RequestNames, more : BOOLEAN ]

\* What was in the queue when the loops began, and what they put there, is in the
\* queue, in the events or lost.
Conserved(f, flow, run) ==
  QueuedIn(f, run.flow) \union Reported(run.events) \union run.lost
    = QueuedIn(f, flow) \union run.queued

GoodRuns(f, flow) ==
  {run \in Runs(Traffic[f]) : FlowInBudget(run.flow) /\ Conserved(f, flow, run)}

\* A connection of the scenario.
Carries(f) ==
  /\ f \in Flows
  /\ Traffic[f].client \in Seq(Messages)
  /\ Traffic[f].server \in Seq(Messages)

\* The streams without what was taken from them.
ClientCut(run, rest) == [run EXCEPT !.flow.client.stream = rest]
ServerCut(run, rest) == [run EXCEPT !.flow.server.stream = rest]

\* A stream that is cut at the front is within the limits of the stream it was.
LEMMA ClientDrained ==
  ASSUME NEW traffic, NEW run \in Runs(traffic), FlowInBudget(run.flow),
         NEW rest \in Seq(UnitsOf(traffic.client)),
         Len(rest) <= Len(run.flow.client.stream),
         NEW e, e = ClientCut(run, rest)
  PROVE  /\ e \in Runs(traffic) /\ FlowInBudget(e.flow)
         /\ e.flow.requests = run.flow.requests
         /\ e.events = run.events /\ e.queued = run.queued
         /\ e.lost = run.lost /\ e.more = run.more
<1>1. PICK flow \in FlowsOf(traffic) : flow = run.flow
  BY DEF Runs
<1>2. PICK d \in Directions(UnitsOf(traffic.client)) : d = flow.client
  BY DEF FlowsOf
<1>3. InBudget(d) /\ Len(rest) <= Len(d.stream)
  BY <1>1, <1>2 DEF FlowInBudget
<1>4. PICK c : c = [d EXCEPT !.stream = rest]
  OBVIOUS
<1>5. c \in Directions(UnitsOf(traffic.client)) /\ InBudget(c)
  BY <1>3, <1>4, ParsedKeeps
<1>6. PICK g : g = [flow EXCEPT !.client = c]
  OBVIOUS
<1>7. g \in FlowsOf(traffic) /\ g.client = c /\ g.server = flow.server /\ g.requests = flow.requests
  BY <1>5, <1>6 DEF FlowsOf
<1>8. e = [run EXCEPT !.flow = g]
  BY <1>1, <1>2, <1>4, <1>6 DEF ClientCut
<1>9. e \in Runs(traffic) /\ e.flow = g
      /\ e.events = run.events /\ e.queued = run.queued
      /\ e.lost = run.lost /\ e.more = run.more
  BY <1>7, <1>8 DEF Runs
<1>10. QED
  BY <1>1, <1>5, <1>7, <1>9 DEF FlowInBudget

\* The same for the stream of the server.
LEMMA ServerDrained ==
  ASSUME NEW traffic, NEW run \in Runs(traffic), FlowInBudget(run.flow),
         NEW rest \in Seq(UnitsOf(traffic.server)),
         Len(rest) <= Len(run.flow.server.stream),
         NEW e, e = ServerCut(run, rest)
  PROVE  /\ e \in Runs(traffic) /\ FlowInBudget(e.flow)
         /\ e.flow.requests = run.flow.requests
         /\ e.events = run.events /\ e.queued = run.queued
         /\ e.lost = run.lost /\ e.more = run.more
<1>1. PICK flow \in FlowsOf(traffic) : flow = run.flow
  BY DEF Runs
<1>2. PICK d \in Directions(UnitsOf(traffic.server)) : d = flow.server
  BY DEF FlowsOf
<1>3. InBudget(d) /\ Len(rest) <= Len(d.stream)
  BY <1>1, <1>2 DEF FlowInBudget
<1>4. PICK c : c = [d EXCEPT !.stream = rest]
  OBVIOUS
<1>5. c \in Directions(UnitsOf(traffic.server)) /\ InBudget(c)
  BY <1>3, <1>4, ParsedKeeps
<1>6. PICK g : g = [flow EXCEPT !.server = c]
  OBVIOUS
<1>7. g \in FlowsOf(traffic) /\ g.client = flow.client /\ g.server = c /\ g.requests = flow.requests
  BY <1>5, <1>6 DEF FlowsOf
<1>8. e = [run EXCEPT !.flow = g]
  BY <1>1, <1>2, <1>4, <1>6 DEF ServerCut
<1>9. e \in Runs(traffic) /\ e.flow = g
      /\ e.events = run.events /\ e.queued = run.queued
      /\ e.lost = run.lost /\ e.more = run.more
  BY <1>7, <1>8 DEF Runs
<1>10. QED
  BY <1>1, <1>5, <1>7, <1>9 DEF FlowInBudget

\* A turn that only takes from a stream, or ends the loop, conserves requests.
LEMMA DrainedConserves ==
  ASSUME NEW f, NEW flow, NEW run \in GoodRuns(f, flow), NEW e \in Runs(Traffic[f]),
         FlowInBudget(e.flow), e.flow.requests = run.flow.requests,
         e.events = run.events, e.queued = run.queued, e.lost = run.lost
  PROVE  e \in GoodRuns(f, flow) /\ [e EXCEPT !.more = FALSE] \in GoodRuns(f, flow)
<1>1. QueuedIn(f, e.flow) = QueuedIn(f, run.flow)
  BY DEF QueuedIn
<1>2. Conserved(f, flow, run)
  BY DEF GoodRuns
<1>3. Conserved(f, flow, e)
  BY <1>1, <1>2 DEF Conserved
<1>4. PICK g : g = [e EXCEPT !.more = FALSE]
  OBVIOUS
<1>5. g \in Runs(Traffic[f]) /\ g.flow = e.flow /\ g.events = e.events
      /\ g.queued = e.queued /\ g.lost = e.lost
  BY <1>4 DEF Runs
<1>6. Conserved(f, flow, g) /\ FlowInBudget(g.flow)
  BY <1>3, <1>5 DEF Conserved
<1>7. QED
  BY <1>3, <1>4, <1>5, <1>6 DEF GoodRuns

\* The number of the message that was taken is one of the stream's messages.
LEMMA TakenIsOne ==
  ASSUME NEW messages, NEW units \in Seq(UnitsOf(messages)), units # <<>>
  PROVE  units[1][1] \in 1..Len(messages)
<1>1. units[1] \in UnitsOf(messages)
  BY DEF UnitsOf
<1>2. QED
  BY <1>1 DEF UnitsOf

\* A turn of the client's loop.
LEMMA RequestTurnKeeps ==
  ASSUME NEW f, Carries(f), NEW flow, NEW run \in GoodRuns(f, flow),
         NEW e, e = RequestTurn(f, run)
  PROVE  e \in GoodRuns(f, flow)
<1> DEFINE messages == Traffic[f].client
           stream == run.flow.client.stream
           taken == TakeMessage(stream, messages, TRUE, FALSE, FALSE)
<1>1. run \in Runs(Traffic[f]) /\ FlowInBudget(run.flow) /\ Conserved(f, flow, run)
  BY DEF GoodRuns
<1>2. f \in Flows /\ messages \in Seq(Messages)
  BY DEF Carries
<1>3. stream \in Seq(UnitsOf(messages))
  BY <1>1 DEF Runs, FlowsOf, Directions
<1>4. /\ taken.message \in Seq(UnitsOf(messages))
      /\ taken.stream \in Seq(UnitsOf(messages))
      /\ Len(taken.stream) <= Len(stream)
  BY <1>2, <1>3, TakeMessageShape
<1>5. PICK drained : drained = ClientCut(run, taken.stream)
  OBVIOUS
<1>6. PICK request : request = taken.message[1][1]
  OBVIOUS
<1>7. e = IF taken.message = <<>> THEN [drained EXCEPT !.more = FALSE]
          ELSE IF ~Parses(taken.message, messages) THEN drained
          ELSE [drained EXCEPT !.flow.requests = Append(@, request),
                               !.queued = @ \union {<<f, request>>}]
  BY <1>5, <1>6 DEF RequestTurn, Enqueue, ClientCut
<1>8. taken.message # <<>> => request \in 1..Len(messages)
  BY <1>4, <1>6, TakenIsOne
<1> HIDE DEF taken
<1>9. /\ drained \in Runs(Traffic[f]) /\ FlowInBudget(drained.flow)
      /\ drained.flow.requests = run.flow.requests
      /\ drained.events = run.events /\ drained.queued = run.queued
      /\ drained.lost = run.lost /\ drained.more = run.more
  BY <1>1, <1>4, <1>5, ClientDrained
<1>10. drained \in GoodRuns(f, flow) /\ [drained EXCEPT !.more = FALSE] \in GoodRuns(f, flow)
  BY <1>9, DrainedConserves
<1>11. CASE taken.message # <<>> /\ Parses(taken.message, messages)
  <2> HIDE DEF stream
  <2>1. request \in 1..Len(messages) /\ Len(messages) \in Nat
    BY <1>2, <1>8, <1>11
  <2>2. PICK g \in FlowsOf(Traffic[f]) : g = drained.flow
    BY <1>9 DEF Runs
  <2>3. PICK q \in Seq(1..Len(messages)) : q = g.requests
    BY DEF FlowsOf
  <2>4. PICK longer : longer = Append(q, request)
    OBVIOUS
  <2>5. longer \in Seq(1..Len(messages)) /\ ToSet(longer) = ToSet(q) \union {request}
    BY <2>1, <2>4, SequenceAppend
  <2>6. PICK h : h = [g EXCEPT !.requests = longer]
    OBVIOUS
  <2>7. h \in FlowsOf(Traffic[f]) /\ h.client = g.client /\ h.server = g.server /\ h.requests = longer
    BY <2>5, <2>6 DEF FlowsOf
  <2>8. e = [drained EXCEPT !.flow = h, !.queued = @ \union {<<f, request>>}]
    BY <1>7, <1>11, <2>2, <2>3, <2>4, <2>6
  <2>9. <<f, request>> \in RequestNames
    BY <1>2, <2>1 DEF RequestNames
  <2>10. /\ e \in Runs(Traffic[f]) /\ e.flow = h /\ e.events = drained.events
         /\ e.queued = drained.queued \union {<<f, request>>} /\ e.lost = drained.lost
    BY <1>9, <2>7, <2>8, <2>9, ZenonT(60) DEF Runs
  <2>11. QueuedIn(f, h) = QueuedIn(f, g) \union {<<f, request>>}
    <3>1. QueuedIn(f, h) = {<<f, r>> : r \in ToSet(longer)}
      BY <2>5, <2>7, QueuedIs
    <3>2. QueuedIn(f, g) = {<<f, r>> : r \in ToSet(q)}
      BY <2>3, QueuedIs
    <3>3. QED
      BY <2>5, <3>1, <3>2
  <2>12. Conserved(f, flow, drained)
    BY <1>10 DEF GoodRuns
  <2>13. Conserved(f, flow, e)
    BY <2>2, <2>10, <2>11, <2>12 DEF Conserved
  <2>14. FlowInBudget(e.flow)
    BY <1>9, <2>2, <2>7, <2>10 DEF FlowInBudget
  <2>15. QED
    BY <2>10, <2>13, <2>14 DEF GoodRuns
<1>12. QED
  BY <1>7, <1>10, <1>11

\* What the server's loop does with what it took.
LEMMA AnswerKeeps ==
  ASSUME NEW f, Carries(f), NEW flow, NEW run \in GoodRuns(f, flow),
         NEW taken, taken.message \in Seq(UnitsOf(Traffic[f].server)),
         taken.stream \in Seq(UnitsOf(Traffic[f].server)),
         Len(taken.stream) <= Len(run.flow.server.stream),
         NEW e, e = Answer(f, run, taken)
  PROVE  e \in GoodRuns(f, flow)
<1> DEFINE messages == Traffic[f].server
           clients == Traffic[f].client
<1>1. run \in Runs(Traffic[f]) /\ FlowInBudget(run.flow) /\ Conserved(f, flow, run)
  BY DEF GoodRuns
<1>2. f \in Flows /\ messages \in Seq(Messages) /\ Len(messages) \in Nat
      /\ clients \in Seq(Messages) /\ Len(clients) \in Nat
  BY DEF Carries
<1>3. PICK drained : drained = ServerCut(run, taken.stream)
  OBVIOUS
<1>4. PICK response : response = taken.message[1][1]
  OBVIOUS
<1>5. PICK q : q = run.flow.requests
  OBVIOUS
<1>6. PICK answered : answered = [drained EXCEPT !.flow.requests = Tail(@)]
  OBVIOUS
<1>7. PICK event : event = Event(f, Head(q), response, taken.message)
  OBVIOUS
<1>8. \/ taken.message = <<>> /\ e = [drained EXCEPT !.more = FALSE]
      \/ e = drained
      \/ /\ taken.message # <<>> /\ q # <<>>
         /\ e = [answered EXCEPT !.events = Append(@, event)]
      \/ /\ q # <<>>
         /\ e = [answered EXCEPT !.lost = @ \union {<<f, Head(q)>>}]
  BY <1>3, <1>4, <1>5, <1>6, <1>7 DEF Answer, ServerCut
<1>9. /\ drained \in Runs(Traffic[f]) /\ FlowInBudget(drained.flow)
      /\ drained.flow.requests = q
      /\ drained.events = run.events /\ drained.queued = run.queued
      /\ drained.lost = run.lost /\ drained.more = run.more
  BY <1>1, <1>3, <1>5, ServerDrained
<1>10. drained \in GoodRuns(f, flow) /\ [drained EXCEPT !.more = FALSE] \in GoodRuns(f, flow)
  BY <1>5, <1>9, DrainedConserves
<1>11. Conserved(f, flow, drained)
  BY <1>10 DEF GoodRuns
<1>12. ASSUME q # <<>>
       PROVE  /\ answered \in Runs(Traffic[f]) /\ FlowInBudget(answered.flow)
              /\ Head(q) \in Nat
              /\ QueuedIn(f, drained.flow)
                   = QueuedIn(f, answered.flow) \union {<<f, Head(q)>>}
              /\ answered.events = drained.events /\ answered.queued = drained.queued
              /\ answered.lost = drained.lost
  <2>1. PICK g \in FlowsOf(Traffic[f]) : g = drained.flow
    BY <1>9 DEF Runs
  <2>2. q \in Seq(1..Len(clients)) /\ g.requests = q
    BY <1>9, <2>1 DEF FlowsOf
  <2>3. PICK rest : rest = Tail(q)
    OBVIOUS
  <2>4. /\ Head(q) \in 1..Len(clients) /\ rest \in Seq(1..Len(clients))
        /\ ToSet(q) = {Head(q)} \union ToSet(rest)
    BY <1>12, <2>2, <2>3, SequenceTail
  <2>5. PICK h : h = [g EXCEPT !.requests = rest]
    OBVIOUS
  <2>6. h \in FlowsOf(Traffic[f]) /\ h.client = g.client /\ h.server = g.server /\ h.requests = rest
    BY <2>4, <2>5 DEF FlowsOf
  <2>7. answered = [drained EXCEPT !.flow = h]
    BY <1>6, <2>1, <2>2, <2>3, <2>5
  <2>8. /\ answered \in Runs(Traffic[f]) /\ answered.flow = h
        /\ answered.events = drained.events /\ answered.queued = drained.queued
        /\ answered.lost = drained.lost
    BY <1>9, <2>6, <2>7 DEF Runs
  <2>9. QueuedIn(f, g) = QueuedIn(f, h) \union {<<f, Head(q)>>}
    <3>1. QueuedIn(f, g) = {<<f, r>> : r \in ToSet(q)}
      BY <2>2, QueuedIs
    <3>2. QueuedIn(f, h) = {<<f, r>> : r \in ToSet(rest)}
      BY <2>4, <2>6, QueuedIs
    <3>3. QED
      BY <2>4, <3>1, <3>2
  <2>10. FlowInBudget(answered.flow)
    BY <1>9, <2>1, <2>6, <2>8 DEF FlowInBudget
  <2>11. QED
    BY <1>2, <2>1, <2>4, <2>8, <2>9, <2>10
<1>13. CASE taken.message # <<>> /\ q # <<>> /\ e = [answered EXCEPT !.events = Append(@, event)]
  <2>1. response \in 1..Len(messages)
    BY <1>4, <1>13, TakenIsOne
  <2>2. taken.message \in Seq(Nat \X Nat)
    <3>1. PICK units \in Seq(UnitsOf(messages)) : units = taken.message
      OBVIOUS
    <3>2. PICK n \in Nat : n = Len(units)
      OBVIOUS
    <3>3. \A i \in 1..n : units[i] \in UnitsOf(messages)
      BY <3>2
    <3>4. UnitsOf(messages) \subseteq Nat \X Nat
      BY <1>2 DEF UnitsOf
    <3>5. units \in [1..n -> Nat \X Nat]
      BY <3>2, <3>3, <3>4
    <3>6. QED
      BY <3>1, <3>5, FunctionsAreSequences
  <2>3. event \in Events /\ event.flow = f /\ event.request = Head(q)
    <3>1. PICK request \in Nat : request = Head(q)
      BY <1>12, <1>13
    <3>2. PICK units \in Seq(Nat \X Nat) : units = taken.message
      BY <2>2
    <3>3. response \in Nat
      BY <1>2, <2>1
    <3>4. event = Event(f, request, response, units)
      BY <1>7, <3>1, <3>2
    <3>5. f \in Flows
      BY <1>2
    <3>6. event \in Events /\ event.flow = f /\ event.request = request
      BY <3>3, <3>4, <3>5, EventShape
    <3>7. QED
      BY <3>1, <3>6
  <2>4. PICK es \in Seq(Events) : es = answered.events
    BY <1>12, <1>13 DEF Runs
  <2>5. PICK longer : longer = Append(es, event)
    OBVIOUS
  <2>6. longer \in Seq(Events) /\ Reported(longer) = Reported(es) \union {<<f, Head(q)>>}
    BY <2>3, <2>5, SequenceAppend, ReportedAppend
  <2>7. e = [answered EXCEPT !.events = longer]
    BY <1>13, <2>4, <2>5
  <2>8. /\ e \in Runs(Traffic[f]) /\ e.flow = answered.flow /\ e.events = longer
        /\ e.queued = answered.queued /\ e.lost = answered.lost
    BY <1>12, <1>13, <2>6, <2>7 DEF Runs
  <2>9. Conserved(f, flow, e)
    BY <1>11, <1>12, <1>13, <2>4, <2>6, <2>8 DEF Conserved
  <2>10. QED
    BY <1>12, <1>13, <2>8, <2>9 DEF GoodRuns
<1>14. CASE q # <<>> /\ e = [answered EXCEPT !.lost = @ \union {<<f, Head(q)>>}]
  <2>1. <<f, Head(q)>> \in RequestNames
    BY <1>2, <1>12, <1>14 DEF RequestNames
  <2>2. /\ e \in Runs(Traffic[f]) /\ e.flow = answered.flow /\ e.events = answered.events
        /\ e.queued = answered.queued /\ e.lost = answered.lost \union {<<f, Head(q)>>}
    BY <1>12, <1>14, <2>1, ZenonT(60) DEF Runs
  <2>3. Conserved(f, flow, e)
    BY <1>11, <1>12, <1>14, <2>2 DEF Conserved
  <2>4. QED
    BY <1>12, <1>14, <2>2, <2>3 DEF GoodRuns
<1>15. QED
  BY <1>8, <1>10, <1>13, <1>14

\* A turn of the server's loop.
LEMMA ResponseTurnKeeps ==
  ASSUME NEW f, Carries(f), NEW fin, NEW flow, NEW run \in GoodRuns(f, flow),
         NEW e, e = ResponseTurn(f, fin, run)
  PROVE  e \in GoodRuns(f, flow)
<1> DEFINE messages == Traffic[f].server
           stream == run.flow.server.stream
           afterHead == /\ run.flow.requests # <<>>
                        /\ Traffic[f].client[Head(run.flow.requests)].method = "HEAD"
<1>1. PICK taken : taken = TakeMessage(stream, messages, FALSE, afterHead, fin)
  OBVIOUS
<1>2. e = Answer(f, run, taken)
  BY <1>1 DEF ResponseTurn
<1>3. messages \in Seq(Messages)
  BY DEF Carries
<1>4. stream \in Seq(UnitsOf(messages))
  BY DEF GoodRuns, Runs, FlowsOf, Directions
<1> HIDE DEF afterHead
<1>5. /\ taken.message \in Seq(UnitsOf(messages))
      /\ taken.stream \in Seq(UnitsOf(messages))
      /\ Len(taken.stream) <= Len(stream)
  BY <1>1, <1>3, <1>4, TakeMessageShape
<1>6. QED
  BY <1>2, <1>5, AnswerKeeps

\* The loop of a side, from the flow it starts with to where it breaks.
LEMMA ParseKeeps ==
  ASSUME NEW f, Carries(f), NEW side \in Sides, NEW fin,
         NEW flow \in FlowsOf(Traffic[f]), FlowInBudget(flow),
         NEW e, e = Parse(f, side, fin, flow)
  PROVE  e \in GoodRuns(f, flow)
<1> DEFINE Turn(run) == IF side = "client" THEN RequestTurn(f, run)
                        ELSE ResponseTurn(f, fin, run)
           turns == Len(flow[side].stream) + 1
           IsRun(g) == g = [n \in 0..turns |->
                              IF n = 0 THEN Running(flow)
                              ELSE IF g[n - 1].more THEN Turn(g[n - 1]) ELSE g[n - 1]]
           after == CHOOSE g : IsRun(g)
           Good == GoodRuns(f, flow)
           Q == [n \in Nat |-> Good]
<1>1. e = after[turns]
  BY DEF Parse
<1>2. turns \in Nat
  <2>1. flow.client.stream \in Seq(UnitsOf(Traffic[f].client))
        /\ flow.server.stream \in Seq(UnitsOf(Traffic[f].server))
    BY DEF FlowsOf, Directions
  <2>2. Len(flow.client.stream) \in Nat /\ Len(flow.server.stream) \in Nat
    BY <2>1
  <2>3. flow[side] = flow.client \/ flow[side] = flow.server
    BY DEF Sides
  <2>4. QED
    BY <2>2, <2>3
<1>3. \A run \in Good : Turn(run) \in Good
  BY RequestTurnKeeps, ResponseTurnKeeps
<1>4. Running(flow) \in Good
  <2>1. PICK run : run = Running(flow)
    OBVIOUS
  <2>2. /\ run.flow = flow /\ run.events = <<>> /\ run.queued = {} /\ run.lost = {}
        /\ run \in Runs(Traffic[f])
    <3>1. <<>> \in Seq(Events)
      OBVIOUS
    <3>2. QED
      BY <2>1, <3>1 DEF Running, Runs
  <2>3. Conserved(f, flow, run)
    BY <2>2, NoneReported DEF Conserved
  <2>4. QED
    BY <2>1, <2>2, <2>3 DEF GoodRuns
<1> HIDE DEF Good, Turn
<1>5. \E g : IsRun(g)
  <2> DEFINE step == [c \in (1..turns) \X Good |-> IF c[2].more THEN Turn(c[2]) ELSE c[2]]
  <2>1. step \in [(1..turns) \X Good -> Good]
    BY <1>3
  <2>2. \A n \in 1..turns, run \in Good :
          step[<<n, run>>] = IF run.more THEN Turn(run) ELSE run
    OBVIOUS
  <2> HIDE DEF step, turns
  <2>3. PICK start : start = Running(flow)
    OBVIOUS
  <2>4. PICK g \in [0..turns -> Good] : IsLoop(g, turns, start, step)
    BY <1>2, <1>4, <2>1, <2>3, LoopExists
  <2>5. ASSUME NEW n \in 0..turns
        PROVE  g[n] = IF n = 0 THEN Running(flow)
                      ELSE IF g[n - 1].more THEN Turn(g[n - 1]) ELSE g[n - 1]
    <3>1. CASE n = 0
      BY <2>3, <2>4, <3>1 DEF IsLoop
    <3>2. CASE n # 0
      <4>1. n \in 1..turns /\ n - 1 \in 0..turns
        BY <1>2, <3>2
      <4>2. g[n] = step[<<n, g[n - 1]>>]
        BY <2>4, <3>2 DEF IsLoop
      <4>3. g[n - 1] \in Good
        BY <4>1
      <4>4. QED
        BY <2>2, <3>2, <4>1, <4>2, <4>3
    <3>3. QED
      BY <3>1, <3>2
  <2>6. IsRun(g)
    BY <2>4, <2>5 DEF IsLoop
  <2>7. QED
    BY <2>6
<1> HIDE DEF IsRun, turns
<1>6. IsRun(after)
  BY <1>5
<1> HIDE DEF after
<1>7. after[0] = Running(flow)
  BY <1>2, <1>6 DEF IsRun
<1>8. ASSUME NEW n \in 1..turns, after[n - 1] \in Q[n - 1] PROVE after[n] \in Q[n]
  <2>1. n \in Nat /\ n - 1 \in Nat /\ n \in 0..turns /\ n # 0
    BY <1>2
  <2>2. after[n - 1] \in Good
    BY <1>8, <2>1
  <2>3. after[n] = IF after[n - 1].more THEN Turn(after[n - 1]) ELSE after[n - 1]
    BY <1>6, <2>1 DEF IsRun
  <2>4. after[n] \in Good
    BY <1>3, <2>2, <2>3
  <2>5. QED
    BY <2>1, <2>4
<1>9. after[0] \in Q[0]
  BY <1>4, <1>7
<1> HIDE DEF Q
<1>10. after[turns] \in Q[turns]
  BY <1>2, <1>8, <1>9, LoopInvariant
<1>11. QED
  BY <1>1, <1>2, <1>10 DEF Q, Good

-----------------------------------------------------------------------------
(* A segment.                                                              *)

\* Units from..to-1 of a side.
SegmentsOf(size) ==
  [from : 0..size, to : 0..size, syn : BOOLEAN, fin : BOOLEAN, rst : BOOLEAN]

\* What a segment leaves in a direction.
LEMMA PushSegmentKeeps ==
  ASSUME NEW U, NEW d \in Directions(U), InBudget(d),
         NEW units \in Seq(U), NEW segment \in SegmentsOf(Len(units)),
         NEW e, e = PushSegment(d, units, segment)
  PROVE  e \in Directions(U) /\ InBudget(e)
<1>1. PICK from \in Nat : from = segment.from
  BY DEF SegmentsOf
<1>2. PICK to \in Nat : to = segment.to /\ to <= Len(units)
  BY DEF SegmentsOf
<1>3. CASE from < to
  <2>1. PICK s : s = SeqAt(from)
    OBVIOUS
  <2>2. SeqSpace \in Nat \ {0}
    BY DirectionAssumption
  <2>3. s \in 0..SeqSpace-1
    BY <2>1, <2>2, ModSmall DEF SeqAt
  <2>4. PICK payload : payload = SubSeq(units, from + 1, to)
    OBVIOUS
  <2>5. payload \in Seq(U)
    <3>1. from + 1 \in 1..Len(units)+1 /\ to \in 0..Len(units)
      BY <1>2, <1>3
    <3>2. QED
      BY <2>4, <3>1
  <2>6. e = Push(d, s, payload)
    BY <1>1, <1>2, <1>3, <2>1, <2>4 DEF PushSegment
  <2>7. QED
    BY <2>3, <2>5, <2>6, PushKeeps
<1>4. CASE ~(from < to) /\ segment.syn
  <2>1. PICK origin \in Int : origin = 0
    OBVIOUS
  <2>2. e = PushSyn(d, origin)
    BY <1>1, <1>2, <1>4, <2>1 DEF PushSegment
  <2>3. QED
    BY <2>2, PushSynKeeps
<1>5. CASE ~(from < to) /\ ~segment.syn
  BY <1>1, <1>2, <1>5 DEF PushSegment
<1>6. QED
  BY <1>3, <1>4, <1>5

\* Flow::default is within the limits and has no request.
LEMMA NewFlowShape ==
  ASSUME NEW traffic, NEW flow, flow = NewFlow
  PROVE  /\ flow \in FlowsOf(traffic) /\ FlowInBudget(flow)
         /\ \A f : QueuedIn(f, flow) = {}
<1>1. PICK d : d = NewDirection
  OBVIOUS
<1>2. PICK U, V : U = UnitsOf(traffic.client) /\ V = UnitsOf(traffic.server)
  OBVIOUS
<1>3. d \in Directions(U) /\ d \in Directions(V) /\ InBudget(d)
  BY <1>1, NewDirectionKeeps
<1>4. <<>> \in Seq(1..Len(traffic.client))
  OBVIOUS
<1>5. flow = [client |-> d, server |-> d, requests |-> <<>>]
  BY <1>1 DEF NewFlow
<1>6. flow \in FlowsOf(traffic)
  BY <1>2, <1>3, <1>4, <1>5 DEF FlowsOf
<1>7. FlowInBudget(flow)
  BY <1>3, <1>5 DEF FlowInBudget
<1>8. \A f : QueuedIn(f, flow) = {}
  <2>1. flow.requests = <<>>
    BY <1>5
  <2>2. 1..Len(<<>>) = {}
    OBVIOUS
  <2>3. QED
    BY <2>1, <2>2 DEF QueuedIn
<1>9. QED
  BY <1>6, <1>7, <1>8

\* The flow a segment was pushed into.
Pushed(flow, side, units, segment) ==
  [flow EXCEPT ![side] = PushSegment(@, units, segment)]

\* push changes one direction of a flow and none of its requests.
LEMMA PushedShape ==
  ASSUME NEW traffic, NEW side \in Sides, NEW flow \in FlowsOf(traffic), FlowInBudget(flow),
         NEW units, side = "client" => units \in Seq(UnitsOf(traffic.client)),
         side = "server" => units \in Seq(UnitsOf(traffic.server)),
         NEW segment \in SegmentsOf(Len(units)),
         NEW pushed, pushed = Pushed(flow, side, units, segment)
  PROVE  /\ pushed \in FlowsOf(traffic) /\ FlowInBudget(pushed)
         /\ \A f : QueuedIn(f, pushed) = QueuedIn(f, flow)
<1>1. PICK U, V : U = UnitsOf(traffic.client) /\ V = UnitsOf(traffic.server)
  OBVIOUS
<1>2. /\ flow.client \in Directions(U) /\ InBudget(flow.client)
      /\ flow.server \in Directions(V) /\ InBudget(flow.server)
  BY <1>1 DEF FlowsOf, FlowInBudget
<1>3. CASE side = "client"
  <2>1. PICK d : d = PushSegment(flow.client, units, segment)
    OBVIOUS
  <2>2. d \in Directions(U) /\ InBudget(d)
    BY <1>1, <1>2, <1>3, <2>1, PushSegmentKeeps
  <2>3. pushed = [flow EXCEPT !.client = d]
    BY <1>3, <2>1 DEF Pushed
  <2>4. pushed \in FlowsOf(traffic) /\ pushed.client = d /\ pushed.server = flow.server
        /\ pushed.requests = flow.requests
    BY <1>1, <2>2, <2>3 DEF FlowsOf
  <2>5. QED
    BY <1>2, <2>2, <2>4 DEF FlowInBudget, QueuedIn
<1>4. CASE side = "server"
  <2>1. PICK d : d = PushSegment(flow.server, units, segment)
    OBVIOUS
  <2>2. d \in Directions(V) /\ InBudget(d)
    BY <1>1, <1>2, <1>4, <2>1, PushSegmentKeeps
  <2>3. pushed = [flow EXCEPT !.server = d]
    BY <1>4, <2>1 DEF Pushed
  <2>4. pushed \in FlowsOf(traffic) /\ pushed.server = d /\ pushed.client = flow.client
        /\ pushed.requests = flow.requests
    BY <1>1, <2>2, <2>3 DEF FlowsOf
  <2>5. QED
    BY <1>2, <2>2, <2>4 DEF FlowInBudget, QueuedIn
<1>5. QED
  BY <1>3, <1>4 DEF Sides

\* What a connection of the scenario carries.
LEMMA WireShape ==
  ASSUME scenario \in DOMAIN Settings, NEW f \in DOMAIN Traffic
  PROVE  /\ Carries(f)
         /\ Wire[f].client \in Seq(UnitsOf(Traffic[f].client))
         /\ Wire[f].server \in Seq(UnitsOf(Traffic[f].server))
         /\ MaxFlows \in Nat \ {0}
<1>1. /\ DOMAIN Settings[scenario].traffic \subseteq Flows
      /\ \A g \in DOMAIN Settings[scenario].traffic, side \in Sides :
           Settings[scenario].traffic[g][side] \in Seq(Messages)
      /\ Settings[scenario].maxFlows \in Nat \ {0}
  BY SniffAssumption
<1>2. "client" \in Sides /\ "server" \in Sides
  BY DEF Sides
<1>3. f \in DOMAIN Settings[scenario].traffic
  BY DEF Traffic
<1>4. PICK clients \in Seq(Messages) : clients = Traffic[f].client
  BY <1>1, <1>2, <1>3 DEF Traffic
<1>5. PICK servers \in Seq(Messages) : servers = Traffic[f].server
  BY <1>1, <1>2, <1>3 DEF Traffic
<1>6. Carries(f)
  BY <1>1, <1>3, <1>4, <1>5 DEF Carries
<1>7. Units(clients) \in Seq(UnitsOf(clients)) /\ Units(servers) \in Seq(UnitsOf(servers))
  BY UnitsShape
<1>8. \A side \in Sides : Wire[f][side] = Units(Traffic[f][side])
  BY <1>3 DEF Wire, Wires, Traffic
<1>9. Wire[f].client = Units(clients) /\ Wire[f].server = Units(servers)
  BY <1>2, <1>4, <1>5, <1>8
<1>10. QED
  BY <1>1, <1>4, <1>5, <1>6, <1>7, <1>9 DEF MaxFlows

-----------------------------------------------------------------------------
(* The table of flows and its order, and the account of the requests.      *)

TableOK(traffic, limit, table, order) ==
  /\ DOMAIN table \subseteq DOMAIN traffic
  /\ \A f \in DOMAIN table : table[f] \in FlowsOf(traffic[f]) /\ FlowInBudget(table[f])
  /\ order \in Seq(Flows)
  /\ ToSet(order) = DOMAIN table
  /\ IsInjective(order)
  /\ IsFiniteSet(DOMAIN table)
  /\ Cardinality(DOMAIN table) <= limit

QueuedOf(table) == UNION {QueuedIn(f, table[f]) : f \in DOMAIN table}

\* The queues of some flows.
QueuedBy(table, some) == UNION {QueuedIn(g, table[g]) : g \in DOMAIN table \intersect some}

\* A table without some of its flows.
TableWithout(table, gone) == Restrict(table, DOMAIN table \ gone)

AccountOK(table, es, queued, dropped, rejected) ==
  /\ es \in Seq(Events)
  /\ queued = QueuedOf(table) \union dropped \union rejected \union Reported(es)

\* What is left of a table, and where the requests of the others go.
LEMMA RestrictShape ==
  ASSUME NEW table, IsFiniteSet(DOMAIN table), NEW gone,
         NEW kept, kept = TableWithout(table, gone)
  PROVE  /\ DOMAIN kept = DOMAIN table \ gone
         /\ \A f \in DOMAIN kept : kept[f] = table[f]
         /\ IsFiniteSet(DOMAIN kept)
         /\ Cardinality(DOMAIN kept) <= Cardinality(DOMAIN table)
         /\ DOMAIN table \intersect gone # {}
              => Cardinality(DOMAIN kept) < Cardinality(DOMAIN table)
         /\ QueuedOf(table) = QueuedOf(kept) \union QueuedBy(table, gone)
<1>1. DOMAIN kept = DOMAIN table \ gone /\ \A f \in DOMAIN kept : kept[f] = table[f]
  BY DEF TableWithout, Restrict
<1>2. PICK D, K : D = DOMAIN table /\ K = DOMAIN kept
  OBVIOUS
<1>3. IsFiniteSet(D) /\ K \subseteq D
  BY <1>1, <1>2
<1>4. IsFiniteSet(K) /\ Cardinality(K) <= Cardinality(D) /\ Cardinality(D) \in Nat
      /\ Cardinality(K) \in Nat
  BY <1>3, FS_Subset, FS_CardinalityType
<1>5. ASSUME NEW x \in gone, x \in DOMAIN table PROVE Cardinality(K) < Cardinality(D)
  <2>1. Cardinality(D \ {x}) = Cardinality(D) - 1 /\ IsFiniteSet(D \ {x})
    BY <1>2, <1>3, <1>5, FS_RemoveElement
  <2>2. K \subseteq D \ {x}
    BY <1>1, <1>2
  <2>3. Cardinality(K) <= Cardinality(D \ {x})
    BY <2>1, <2>2, FS_Subset
  <2>4. QED
    BY <1>4, <2>1, <2>3
<1>6. QueuedOf(kept) = UNION {QueuedIn(g, table[g]) : g \in DOMAIN table \ gone}
  BY <1>1 DEF QueuedOf
<1>7. QueuedOf(table) = QueuedOf(kept) \union QueuedBy(table, gone)
  BY <1>6 DEF QueuedOf, QueuedBy
<1>8. QED
  BY <1>1, <1>2, <1>4, <1>5, <1>7

\* Flows leave the table and its order together.
LEMMA RestrictKeeps ==
  ASSUME NEW traffic, NEW limit \in Nat, NEW table, NEW order, TableOK(traffic, limit, table, order),
         NEW gone, NEW rest \in Seq(Flows), ToSet(rest) = ToSet(order) \ gone, IsInjective(rest),
         NEW kept, kept = TableWithout(table, gone)
  PROVE  TableOK(traffic, limit, kept, rest)
<1>1. PICK D, K : D = DOMAIN table /\ K = DOMAIN kept
  OBVIOUS
<1>2. IsFiniteSet(DOMAIN table)
  BY DEF TableOK
<1>3. /\ DOMAIN kept = DOMAIN table \ gone
      /\ \A f \in DOMAIN kept : kept[f] = table[f]
      /\ IsFiniteSet(DOMAIN kept)
      /\ Cardinality(DOMAIN kept) <= Cardinality(DOMAIN table)
  <2>1. DOMAIN kept = DOMAIN table \ gone /\ \A f \in DOMAIN kept : kept[f] = table[f]
    BY DEF TableWithout, Restrict
  <2>2. /\ IsFiniteSet(DOMAIN kept)
        /\ Cardinality(DOMAIN kept) <= Cardinality(DOMAIN table)
    BY <1>2, RestrictShape
  <2>3. QED
    BY <2>1, <2>2
<1>4. Cardinality(K) <= limit
  <2>1. Cardinality(K) \in Nat /\ Cardinality(D) \in Nat
    BY <1>1, <1>2, <1>3, FS_CardinalityType
  <2>2. Cardinality(D) <= limit
    BY <1>1 DEF TableOK
  <2>3. QED
    BY <1>1, <1>3, <2>1, <2>2
<1>5. ToSet(rest) = K
  BY <1>1, <1>3 DEF TableOK
<1>6. DOMAIN kept \subseteq DOMAIN traffic
  BY <1>3 DEF TableOK
<1>7. \A f \in DOMAIN kept : kept[f] \in FlowsOf(traffic[f]) /\ FlowInBudget(kept[f])
  BY <1>3 DEF TableOK
<1>8. QED
  BY <1>1, <1>3, <1>4, <1>5, <1>6, <1>7 DEF TableOK

\* A flow joins the table and the end of the order.
LEMMA InsertKeeps ==
  ASSUME NEW traffic, NEW limit \in Nat, NEW table, NEW order, TableOK(traffic, limit, table, order),
         Cardinality(DOMAIN table) < limit,
         NEW f \in DOMAIN traffic, f \in Flows, f \notin DOMAIN table,
         NEW flow \in FlowsOf(traffic[f]), FlowInBudget(flow),
         NEW longer, longer = Insert(table, f, flow)
  PROVE  /\ TableOK(traffic, limit, longer, Append(order, f))
         /\ QueuedOf(longer) = QueuedOf(table) \union QueuedIn(f, flow)
<1>1. /\ DOMAIN longer = DOMAIN table \union {f} /\ longer[f] = flow
      /\ \A g \in DOMAIN table : longer[g] = table[g]
  BY DEF Insert
<1>2. PICK D : D = DOMAIN table
  OBVIOUS
<1>3. IsFiniteSet(D) /\ Cardinality(D) \in Nat
  BY <1>2, FS_CardinalityType DEF TableOK
<1>4. IsFiniteSet(D \union {f}) /\ Cardinality(D \union {f}) = Cardinality(D) + 1
  BY <1>2, <1>3, FS_AddElement
<1>5. Cardinality(D \union {f}) <= limit
  BY <1>2, <1>3, <1>4
<1>6. PICK seq : seq = Append(order, f)
  OBVIOUS
<1>7. seq \in Seq(Flows) /\ ToSet(seq) = D \union {f} /\ IsInjective(seq)
  BY <1>2, <1>6, SequenceAppend DEF TableOK
<1>8. \A g \in DOMAIN longer : longer[g] \in FlowsOf(traffic[g]) /\ FlowInBudget(longer[g])
  <2>1. \A g \in DOMAIN table : table[g] \in FlowsOf(traffic[g]) /\ FlowInBudget(table[g])
    BY DEF TableOK
  <2>2. QED
    BY <1>1, <2>1
<1>9. DOMAIN longer \subseteq DOMAIN traffic
  BY <1>1 DEF TableOK
<1>10. TableOK(traffic, limit, longer, seq)
  BY <1>1, <1>2, <1>4, <1>5, <1>7, <1>8, <1>9 DEF TableOK
<1>11. QueuedOf(longer) = QueuedOf(table) \union QueuedIn(f, flow)
  <2>1. \A x : x \in QueuedOf(longer) <=> \E g \in DOMAIN longer : x \in QueuedIn(g, longer[g])
    BY DEF QueuedOf
  <2>2. \A x : x \in QueuedOf(table) <=> \E g \in DOMAIN table : x \in QueuedIn(g, table[g])
    BY DEF QueuedOf
  <2>3. \A x \in QueuedOf(longer) : x \in QueuedOf(table) \/ x \in QueuedIn(f, flow)
    BY <1>1, <2>1, <2>2
  <2>4. \A x \in QueuedOf(table) : x \in QueuedOf(longer)
    BY <1>1, <2>1, <2>2
  <2>5. \A x \in QueuedIn(f, flow) : x \in QueuedOf(longer)
    BY <1>1, <2>1
  <2>6. QED
    BY <2>3, <2>4, <2>5
<1>12. QED
  BY <1>6, <1>10, <1>11

\* The queue of a flow is a sequence of numbers.
LEMMA RequestsShape ==
  ASSUME NEW traffic, NEW flow \in FlowsOf(traffic)
  PROVE  flow.requests \in Seq(Nat)
<1>1. PICK q : q = flow.requests
  OBVIOUS
<1>2. q \in Seq(1..Len(traffic.client))
  BY <1>1 DEF FlowsOf
<1>3. PICK n \in Nat : n = Len(q)
  BY <1>2
<1>4. \A i \in 1..n : q[i] \in 1..Len(traffic.client)
  BY <1>2, <1>3
<1>5. \A i \in 1..n : q[i] \in Nat
  BY <1>4
<1>6. q \in [1..n -> Nat]
  BY <1>2, <1>3, <1>5
<1>7. QED
  BY <1>1, <1>6, FunctionsAreSequences

\* The parts report what the whole reports.
LEMMA ReportedFlatten ==
  ASSUME NEW S, NEW seqs \in Seq(Seq(S))
  PROVE  Reported(FlattenSeq(seqs)) = UNION {Reported(seqs[i]) : i \in 1..Len(seqs)}
<1>1. PICK n \in Nat : n = Len(seqs)
  OBVIOUS
<1>2. PICK whole : whole = FlattenSeq(seqs)
  OBVIOUS
<1>3. whole \in Seq(S) /\ ToSet(whole) = UNION {ToSet(seqs[i]) : i \in 1..n}
  BY <1>1, <1>2, FlattenShape
<1>4. Reported(whole) = {<<e.flow, e.request>> : e \in ToSet(whole)}
  BY <1>3, ReportedIs
<1>5. \A i \in 1..n : seqs[i] \in Seq(S)
  BY <1>1
<1>6. \A i \in 1..n : Reported(seqs[i]) = {<<e.flow, e.request>> : e \in ToSet(seqs[i])}
  BY <1>5, ReportedIs
<1>7. ASSUME NEW p \in Reported(whole) PROVE \E i \in 1..n : p \in Reported(seqs[i])
  <2>1. PICK e \in ToSet(whole) : p = <<e.flow, e.request>>
    BY <1>4
  <2>2. PICK i \in 1..n : e \in ToSet(seqs[i])
    BY <1>3
  <2>3. QED
    BY <1>6, <2>1, <2>2
<1>8. ASSUME NEW i \in 1..n, NEW p \in Reported(seqs[i]) PROVE p \in Reported(whole)
  <2>1. PICK e \in ToSet(seqs[i]) : p = <<e.flow, e.request>>
    BY <1>6
  <2>2. e \in ToSet(whole)
    BY <1>3
  <2>3. QED
    BY <1>4, <2>1, <2>2
<1>9. QED
  BY <1>1, <1>2, <1>7, <1>8

-----------------------------------------------------------------------------
(* The operations.                                                         *)

\* Quiet connections carry nothing the scenario does not know of.
Live ==
  /\ connection \in [Flows -> {"new", "open", "reset", "gone"}]
  /\ \A f \in Flows : connection[f] \in {"new", "open"} => f \in DOMAIN Traffic

\* The inductive invariant.
IInv ==
  /\ scenario \in DOMAIN Settings
  /\ Live
  /\ TableOK(Traffic, MaxFlows, flows, recency)
  /\ AccountOK(flows, events, parsed, evicted, unreadable)

\* What an operation of the engine must leave behind.
Kept ==
  /\ TableOK(Traffic, MaxFlows, flows', recency')
  /\ AccountOK(flows', events', parsed', evicted', unreadable')

\* A reset reports the queue of its flow.
LEMMA ProcessResetKeeps ==
  ASSUME IInv, NEW f \in DOMAIN Traffic, ProcessReset(f)
  PROVE  Kept
<1>1. Carries(f) /\ MaxFlows \in Nat
  BY WireShape DEF IInv
<1>2. f \in Flows
  BY <1>1 DEF Carries
<1>3. PICK gone : gone = {f}
  OBVIOUS
<1>4. PICK rest : rest = Without(recency, gone)
  OBVIOUS
<1>5. /\ rest \in Seq(Flows) /\ ToSet(rest) = ToSet(recency) \ gone /\ IsInjective(rest)
  BY <1>4, WithoutShape DEF IInv, TableOK
<1>6. PICK kept : kept = TableWithout(flows, gone)
  OBVIOUS
<1>7. /\ TableOK(Traffic, MaxFlows, kept, rest)
      /\ QueuedOf(flows) = QueuedOf(kept)
           \union QueuedBy(flows, gone)
  <2>1. TableOK(Traffic, MaxFlows, flows, recency)
    BY DEF IInv
  <2>2. TableOK(Traffic, MaxFlows, kept, rest)
    BY <1>1, <1>5, <1>6, <2>1, RestrictKeeps
  <2>3. QueuedOf(flows) = QueuedOf(kept) \union QueuedBy(flows, gone)
    BY <1>6, <2>1, RestrictShape DEF TableOK
  <2>4. QED
    BY <2>2, <2>3
<1>8. PICK es \in Seq(Events) : es = events
  BY DEF IInv, AccountOK
<1>9. PICK last : last = IF f \in DOMAIN flows THEN Incomplete(f, flows[f]) ELSE <<>>
  OBVIOUS
<1>10. /\ flows' = kept /\ recency' = rest /\ events' = es \o last
       /\ parsed' = parsed /\ evicted' = evicted /\ unreadable' = unreadable
  BY <1>3, <1>4, <1>6, <1>8, <1>9 DEF ProcessReset, TableWithout
<1>11. /\ last \in Seq(Events)
       /\ Reported(last) = QueuedBy(flows, gone)
  <2>1. CASE f \in DOMAIN flows
    <3>1. PICK flow \in FlowsOf(Traffic[f]) : flow = flows[f]
      BY <2>1 DEF IInv, TableOK
    <3>2. flow.requests \in Seq(Nat)
      BY RequestsShape
    <3>3. last = Incomplete(f, flow)
      BY <1>9, <2>1, <3>1
    <3>4. last \in Seq(Events) /\ Reported(last) = QueuedIn(f, flow)
      BY <1>2, <3>2, <3>3, IncompleteShape
    <3>5. DOMAIN flows \intersect gone = {f}
      BY <1>3, <2>1
    <3>6. UNION {QueuedIn(g, flows[g]) : g \in {f}} = QueuedIn(f, flows[f])
      OBVIOUS
    <3>7. QED
      BY <3>1, <3>4, <3>5, <3>6 DEF QueuedBy
  <2>2. CASE f \notin DOMAIN flows
    <3>1. last = <<>> /\ <<>> \in Seq(Events)
      BY <1>9, <2>2
    <3>2. DOMAIN flows \intersect gone = {}
      BY <1>3, <2>2
    <3>3. UNION {QueuedIn(g, flows[g]) : g \in {}} = {}
      OBVIOUS
    <3>4. QED
      BY <3>1, <3>2, <3>3, NoneReported DEF QueuedBy
  <2>3. QED
    BY <2>1, <2>2
<1>12. PICK whole : whole = es \o last
  OBVIOUS
<1>13. whole \in Seq(Events) /\ Reported(whole) = Reported(es) \union Reported(last)
  BY <1>11, <1>12, SequenceConcat, ReportedConcat
<1>14. parsed = QueuedOf(flows) \union evicted \union unreadable \union Reported(es)
  BY <1>8 DEF IInv, AccountOK
<1>15. parsed = QueuedOf(kept) \union evicted \union unreadable \union Reported(whole)
  BY <1>7, <1>11, <1>13, <1>14
<1>16. AccountOK(kept, whole, parsed, evicted, unreadable)
  BY <1>13, <1>15 DEF AccountOK
<1>17. QED
  BY <1>7, <1>10, <1>12, <1>16 DEF Kept

\* expire_oldest makes room for a flow, out of the flows there are.
LEMMA VictimsShape ==
  ASSUME IInv, NEW f \in DOMAIN Traffic, NEW victims, victims = Victims(f)
  PROVE  /\ victims \subseteq DOMAIN flows
         /\ f \in DOMAIN flows => victims = {}
         /\ \/ f \in DOMAIN flows
            \/ Cardinality(DOMAIN flows) < MaxFlows
            \/ victims # {}
<1>1. MaxFlows \in Nat \ {0}
  BY WireShape DEF IInv
<1>2. PICK size \in Nat : size = Cardinality(DOMAIN flows)
  BY FS_CardinalityType DEF IInv, TableOK
<1>3. size >= MaxFlows => DOMAIN flows # {}
  BY <1>1, <1>2, FS_EmptySet
<1>4. DOMAIN flows # {} => Head(recency) \in DOMAIN flows
  <2>1. PICK order \in Seq(Flows) : order = recency
    BY DEF IInv, TableOK
  <2>2. ToSet(order) = DOMAIN flows
    BY <2>1 DEF IInv, TableOK
  <2>3. DOMAIN flows # {} => order # <<>>
    <3>1. ToSet(<<>>) = {}
      BY DEF ToSet
    <3>2. QED
      BY <2>2, <3>1
  <2>4. order # <<>> => Head(order) \in ToSet(order)
    BY SequenceTail
  <2>5. QED
    BY <2>1, <2>2, <2>3, <2>4
<1>5. CASE TableFull(f)
  <2>1. victims = {Head(recency)} /\ f \notin DOMAIN flows /\ size >= MaxFlows
    BY <1>2, <1>5 DEF Victims, TableFull
  <2>2. QED
    BY <1>3, <1>4, <2>1
<1>6. CASE ~TableFull(f)
  <2>1. victims = {} /\ (f \in DOMAIN flows \/ ~(size >= MaxFlows))
    BY <1>2, <1>6 DEF Victims, TableFull
  <2>2. size >= MaxFlows \/ size < MaxFlows
    BY <1>1, <1>2
  <2>3. QED
    BY <1>2, <2>1, <2>2
<1>7. QED
  BY <1>5, <1>6

\* process leaves the table within its limit, and every request in a place.
LEMMA LeaveKeeps ==
  ASSUME IInv, NEW f \in DOMAIN Traffic, NEW rst,
         NEW flow, NEW old, old = (IF f \in DOMAIN flows THEN QueuedIn(f, flows[f]) ELSE {}),
         QueuedIn(f, flow) = old,
         NEW run \in GoodRuns(f, flow),
         NEW victims, victims = Victims(f),
         Leave(f, rst, victims, run)
  PROVE  Kept
<1>1. Carries(f) /\ MaxFlows \in Nat
  BY WireShape DEF IInv
<1>2. f \in Flows
  BY <1>1 DEF Carries
<1>3. /\ victims \subseteq DOMAIN flows
      /\ f \in DOMAIN flows => victims = {}
      /\ \/ f \in DOMAIN flows
         \/ Cardinality(DOMAIN flows) < MaxFlows
         \/ victims # {}
  BY VictimsShape
<1>4. PICK gone : gone = victims \union {f}
  OBVIOUS
<1>5. PICK others : others = TableWithout(flows, gone)
  OBVIOUS
<1>6. PICK order \in Seq(Flows) : order = recency /\ IsInjective(order)
  BY DEF IInv, TableOK
\* The order without the flows that go, at once or one after the other.
<1>7. PICK rest : rest = Without(order, gone)
  OBVIOUS
<1>8. rest \in Seq(Flows) /\ ToSet(rest) = ToSet(order) \ gone /\ IsInjective(rest)
  BY <1>6, <1>7, WithoutShape
<1>9. PICK front : front = Without(order, victims)
  OBVIOUS
<1>10. front \in Seq(Flows) /\ ToSet(front) = ToSet(order) \ victims /\ IsInjective(front)
  BY <1>6, <1>9, WithoutShape
<1>11. PICK middle : middle = Without(front, {f})
  OBVIOUS
<1>12. middle \in Seq(Flows) /\ ToSet(middle) = ToSet(front) \ {f} /\ IsInjective(middle)
  BY <1>10, <1>11, WithoutShape
<1>13. ToSet(middle) = ToSet(order) \ gone
  BY <1>4, <1>10, <1>12
\* The other flows.
<1>14. TableOK(Traffic, MaxFlows, flows, order)
  BY <1>6 DEF IInv
<1>15. /\ TableOK(Traffic, MaxFlows, others, rest)
       /\ DOMAIN others = DOMAIN flows \ gone
       /\ DOMAIN flows \intersect gone # {}
            => Cardinality(DOMAIN others) < Cardinality(DOMAIN flows)
       /\ QueuedOf(flows) = QueuedOf(others)
            \union QueuedBy(flows, gone)
  <2>1. TableOK(Traffic, MaxFlows, others, rest)
    BY <1>1, <1>5, <1>8, <1>14, RestrictKeeps
  <2>2. IsFiniteSet(DOMAIN flows)
    BY <1>14 DEF TableOK
  <2>3. QED
    BY <1>5, <2>1, <2>2, RestrictShape
<1>16. TableOK(Traffic, MaxFlows, others, middle)
  BY <1>1, <1>5, <1>12, <1>13, <1>14, RestrictKeeps
<1>17. Cardinality(DOMAIN others) < MaxFlows
  <2>1. PICK size \in Nat : size = Cardinality(DOMAIN flows) /\ size <= MaxFlows
    BY FS_CardinalityType DEF IInv, TableOK
  <2>2. PICK left \in Nat : left = Cardinality(DOMAIN others)
    BY <1>15, FS_CardinalityType DEF TableOK
  <2>3. CASE DOMAIN flows \intersect gone # {}
    <3>1. left < size
      BY <1>15, <2>1, <2>2, <2>3
    <3>2. QED
      BY <1>1, <2>1, <2>2, <3>1
  <2>4. CASE DOMAIN flows \intersect gone = {}
    <3>1. f \notin DOMAIN flows /\ victims = {}
      BY <1>3, <1>4, <2>4
    <3>2. size < MaxFlows
      BY <1>3, <2>1, <3>1
    <3>3. DOMAIN others = DOMAIN flows
      BY <1>4, <1>15, <3>1
    <3>4. QED
      BY <2>1, <3>2, <3>3
  <2>5. QED
    BY <2>3, <2>4
<1>18. f \notin DOMAIN others
  BY <1>4, <1>15
\* The requests.
<1>19. PICK dropped : dropped = UNION {QueuedIn(g, flows[g]) : g \in victims}
  OBVIOUS
<1>20. QueuedBy(flows, gone) = dropped \union old
  <2>1. CASE f \in DOMAIN flows
    <3>1. victims = {} /\ DOMAIN flows \intersect gone = {f}
      BY <1>3, <1>4, <2>1
    <3>2. dropped = {}
      BY <1>19, <3>1
    <3>3. UNION {QueuedIn(g, flows[g]) : g \in {f}} = QueuedIn(f, flows[f])
      OBVIOUS
    <3>4. QED
      BY <2>1, <3>1, <3>2, <3>3 DEF QueuedBy
  <2>2. CASE f \notin DOMAIN flows
    <3>1. DOMAIN flows \intersect gone = victims
      BY <1>3, <1>4, <2>2
    <3>2. QED
      BY <1>19, <2>2, <3>1 DEF QueuedBy
  <2>3. QED
    BY <2>1, <2>2
<1>21. /\ run \in Runs(Traffic[f]) /\ FlowInBudget(run.flow)
       /\ QueuedIn(f, run.flow) \union Reported(run.events) \union run.lost = old \union run.queued
  BY DEF GoodRuns, Conserved
<1>22. PICK after \in FlowsOf(Traffic[f]) : after = run.flow
  BY <1>21 DEF Runs
<1>23. PICK new \in Seq(Events) : new = run.events
  BY <1>21 DEF Runs
<1>24. PICK es \in Seq(Events) : es = events
  BY DEF IInv, AccountOK
<1>25. parsed = QueuedOf(others) \union dropped \union old
                  \union evicted \union unreadable \union Reported(es)
  BY <1>15, <1>20, <1>24 DEF IInv, AccountOK
<1>26. PICK soFar : soFar = es \o new
  OBVIOUS
<1>27. soFar \in Seq(Events) /\ Reported(soFar) = Reported(es) \union Reported(new)
  BY <1>26, SequenceConcat, ReportedConcat
<1>28. /\ evicted' = evicted \union dropped
       /\ unreadable' = unreadable \union run.lost
       /\ parsed' = parsed \union run.queued
  BY <1>19 DEF Leave
<1>29. CASE rst
  <2>1. PICK last : last = Incomplete(f, after)
    OBVIOUS
  <2>2. after.requests \in Seq(Nat)
    BY RequestsShape
  <2>3. last \in Seq(Events) /\ Reported(last) = QueuedIn(f, after)
    BY <1>2, <2>1, <2>2, IncompleteShape
  <2>4. PICK whole : whole = soFar \o last
    OBVIOUS
  <2>5. whole \in Seq(Events) /\ Reported(whole) = Reported(soFar) \union Reported(last)
    BY <1>27, <2>3, <2>4, SequenceConcat, ReportedConcat
  <2>6. flows' = others /\ recency' = rest /\ events' = whole
    <3>1. events' = events \o run.events \o Incomplete(f, run.flow)
      BY <1>29 DEF Leave
    <3>2. flows' = others /\ recency' = rest
      BY <1>4, <1>5, <1>6, <1>7, <1>29 DEF Leave, TableWithout
    <3>3. QED
      BY <1>22, <1>23, <1>24, <1>26, <2>1, <2>4, <3>1, <3>2
  <2>7. parsed' = QueuedOf(others) \union evicted' \union unreadable' \union Reported(whole)
    BY <1>21, <1>22, <1>23, <1>25, <1>27, <1>28, <2>3, <2>5
  <2>8. AccountOK(flows', events', parsed', evicted', unreadable')
    BY <2>5, <2>6, <2>7 DEF AccountOK
  <2>9. QED
    BY <1>15, <2>6, <2>8 DEF Kept
<1>30. CASE ~rst
  <2>1. PICK longer : longer = Insert(others, f, after)
    OBVIOUS
  <2>2. FlowInBudget(after)
    BY <1>21, <1>22
  <2>3. /\ TableOK(Traffic, MaxFlows, longer, Append(middle, f))
        /\ QueuedOf(longer) = QueuedOf(others) \union QueuedIn(f, after)
    BY <1>1, <1>2, <1>16, <1>17, <1>18, <2>1, <2>2, InsertKeeps
  <2>4. flows' = longer /\ recency' = Append(middle, f)
    BY <1>4, <1>5, <1>6, <1>9, <1>11, <1>22, <1>30, <2>1 DEF Leave, Touch, TableWithout
  <2>5. events' = soFar
    <3>1. events' = soFar \o <<>>
      BY <1>23, <1>24, <1>26, <1>30 DEF Leave
    <3>2. soFar \o <<>> = soFar
      BY <1>27
    <3>3. QED
      BY <3>1, <3>2
  <2>6. parsed' = QueuedOf(longer) \union evicted' \union unreadable' \union Reported(soFar)
    BY <1>21, <1>22, <1>23, <1>25, <1>27, <1>28, <2>3
  <2>7. AccountOK(flows', events', parsed', evicted', unreadable')
    BY <1>27, <2>4, <2>5, <2>6 DEF AccountOK
  <2>8. QED
    BY <2>3, <2>4, <2>7 DEF Kept
<1>31. QED
  BY <1>29, <1>30

\* process, for any segment.
LEMMA ProcessKeeps ==
  ASSUME IInv, NEW f \in DOMAIN Traffic, NEW side \in Sides, NEW segment,
         \/ segment.rst /\ segment.from = segment.to
         \/ segment \in SegmentsOf(Len(Wire[f][side])),
         Process(f, side, segment)
  PROVE  Kept
<1>1. CASE segment.rst /\ segment.from = segment.to
  BY <1>1, ProcessResetKeeps DEF Process
<1>2. CASE ~(segment.rst /\ segment.from = segment.to)
  <2>1. Carries(f)
    BY WireShape DEF IInv
  <2>2. PICK units : units = Wire[f][side]
    OBVIOUS
  <2>3. PICK traffic : traffic = Traffic[f]
    OBVIOUS
  <2>4. /\ side = "client" => units \in Seq(UnitsOf(traffic.client))
        /\ side = "server" => units \in Seq(UnitsOf(traffic.server))
    BY <2>2, <2>3, WireShape DEF IInv
  <2>5. segment \in SegmentsOf(Len(units))
    BY <1>2, <2>2
  <2>6. PICK flow : flow = IF f \in DOMAIN flows THEN flows[f] ELSE NewFlow
    OBVIOUS
  <2>7. PICK old : old = IF f \in DOMAIN flows THEN QueuedIn(f, flows[f]) ELSE {}
    OBVIOUS
  <2>8. flow \in FlowsOf(traffic) /\ FlowInBudget(flow) /\ QueuedIn(f, flow) = old
    <3>1. CASE f \in DOMAIN flows
      BY <2>3, <2>6, <2>7, <3>1 DEF IInv, TableOK
    <3>2. CASE f \notin DOMAIN flows
      BY <2>6, <2>7, <3>2, NewFlowShape
    <3>3. QED
      BY <3>1, <3>2
  <2>9. PICK pushed : pushed = Pushed(flow, side, units, segment)
    OBVIOUS
  <2>10. pushed \in FlowsOf(traffic) /\ FlowInBudget(pushed) /\ QueuedIn(f, pushed) = old
    BY <2>4, <2>5, <2>8, <2>9, PushedShape
  <2>11. PICK run : run = Parse(f, side, segment.fin, pushed)
    OBVIOUS
  <2>12. run \in GoodRuns(f, pushed)
    BY <2>1, <2>3, <2>10, <2>11, ParseKeeps
  <2>13. PICK victims : victims = Victims(f)
    OBVIOUS
  <2>14. Leave(f, segment.rst, victims, run)
    BY <1>2, <2>2, <2>6, <2>9, <2>11, <2>13 DEF Process, ProcessSegment, Pushed
  <2>15. QED
    BY <2>7, <2>10, <2>12, <2>13, <2>14, LeaveKeeps
<1>3. QED
  BY <1>1, <1>2

\* expire_idle reports the queues of the flows it removes.
LEMMA ExpireKeeps ==
  ASSUME IInv, NEW n \in 1..Len(recency), ExpireOldestFlows(n)
  PROVE  Kept
<1>1. PICK order \in Seq(Flows) : order = recency /\ IsInjective(order)
  BY DEF IInv, TableOK
<1>2. PICK size \in Nat : size = Len(order)
  BY <1>1
<1>3. n \in 0..Len(order) /\ n \in Nat
  BY <1>1, <1>2
<1>4. PICK expired : expired = SubSeq(order, 1, n)
  OBVIOUS
<1>5. PICK rest : rest = SubSeq(order, n + 1, Len(order))
  OBVIOUS
<1>6. /\ expired \in Seq(Flows) /\ Len(expired) = n
      /\ rest \in Seq(Flows) /\ IsInjective(rest)
      /\ ToSet(order) = ToSet(expired) \union ToSet(rest)
      /\ ToSet(expired) \intersect ToSet(rest) = {}
  <2>1. expired \in Seq(Flows) /\ rest \in Seq(Flows) /\ Splits(order, n, expired, rest)
    BY <1>3, <1>4, <1>5, SequenceSplit
  <2>2. QED
    BY <1>1, <2>1 DEF Splits
<1>7. PICK gone : gone = ToSet(expired)
  OBVIOUS
<1>8. ToSet(order) = DOMAIN flows /\ gone \subseteq DOMAIN flows
      /\ ToSet(rest) = ToSet(order) \ gone
  BY <1>1, <1>6, <1>7 DEF IInv, TableOK
<1>9. DOMAIN flows # {}
  <2>1. 1 \in 1..n /\ DOMAIN expired = 1..n
    BY <1>3, <1>6
  <2>2. expired[1] \in gone
    BY <1>7, <2>1 DEF ToSet
  <2>3. QED
    BY <1>8, <2>2
<1>10. MaxFlows \in Nat
  BY <1>9, WireShape DEF IInv, TableOK
<1>11. PICK kept : kept = TableWithout(flows, gone)
  OBVIOUS
<1>12. TableOK(Traffic, MaxFlows, flows, order)
  BY <1>1 DEF IInv
<1>13. TableOK(Traffic, MaxFlows, kept, rest)
  BY <1>6, <1>8, <1>10, <1>11, <1>12, RestrictKeeps
<1>14. QueuedOf(flows) = QueuedOf(kept) \union QueuedBy(flows, gone)
  BY <1>11, <1>12, RestrictShape DEF TableOK
<1>15. \A i \in 1..n : expired[i] \in gone /\ expired[i] \in DOMAIN flows /\ expired[i] \in Flows
  <2> TAKE i \in 1..n
  <2>1. DOMAIN expired = 1..n
    BY <1>3, <1>6
  <2>2. expired[i] \in gone
    BY <1>7, <2>1 DEF ToSet
  <2>3. QED
    BY <1>6, <1>8, <2>1, <2>2
<1>16. PICK parts : parts = [i \in 1..n |-> Incomplete(expired[i], flows[expired[i]])]
  OBVIOUS
<1>17. ASSUME NEW i \in 1..n
       PROVE  /\ parts[i] \in Seq(Events)
              /\ Reported(parts[i]) = QueuedIn(expired[i], flows[expired[i]])
  <2>1. PICK f \in Flows : f = expired[i] /\ f \in DOMAIN flows
    BY <1>15
  <2>2. PICK flow \in FlowsOf(Traffic[f]) : flow = flows[f]
    BY <2>1 DEF IInv, TableOK
  <2>3. flow.requests \in Seq(Nat)
    BY RequestsShape
  <2>4. PICK es : es = Incomplete(f, flow)
    OBVIOUS
  <2>5. es \in Seq(Events) /\ Reported(es) = QueuedIn(f, flow)
    BY <2>3, <2>4, IncompleteShape
  <2>6. parts[i] = es
    BY <1>16, <2>1, <2>2, <2>4
  <2>7. QED
    BY <2>1, <2>2, <2>5, <2>6
<1>18. parts \in [1..n -> Seq(Events)]
  BY <1>16, <1>17
<1>19. PICK S : S = Seq(Events)
  OBVIOUS
<1>20. parts \in Seq(S) /\ Len(parts) = n
  BY <1>3, <1>18, <1>19, FunctionsAreSequences
<1>21. PICK last : last = FlattenSeq(parts)
  OBVIOUS
<1>22. last \in Seq(Events) /\ Reported(last) = UNION {Reported(parts[i]) : i \in 1..n}
  BY <1>19, <1>20, <1>21, FlattenShape, ReportedFlatten
<1>23. Reported(last) = QueuedBy(flows, gone)
  <2>1. DOMAIN expired = 1..n
    BY <1>3, <1>6
  <2>2. \A g \in gone : \E i \in 1..n : g = expired[i]
    BY <1>7, <2>1 DEF ToSet
  <2>3. ASSUME NEW p \in Reported(last) PROVE p \in QueuedBy(flows, gone)
    <3>1. PICK i \in 1..n : p \in Reported(parts[i])
      BY <1>22
    <3>2. p \in QueuedIn(expired[i], flows[expired[i]])
      BY <1>17, <3>1
    <3>3. expired[i] \in DOMAIN flows \intersect gone
      BY <1>15
    <3>4. QED
      BY <3>2, <3>3 DEF QueuedBy
  <2>4. ASSUME NEW p \in QueuedBy(flows, gone) PROVE p \in Reported(last)
    <3>1. PICK g \in gone : p \in QueuedIn(g, flows[g])
      BY DEF QueuedBy
    <3>2. PICK i \in 1..n : g = expired[i]
      BY <2>2
    <3>3. p \in Reported(parts[i])
      BY <1>17, <3>1, <3>2
    <3>4. QED
      BY <1>22, <3>3
  <2>5. QED
    BY <2>3, <2>4
<1>24. PICK es \in Seq(Events) : es = events
  BY DEF IInv, AccountOK
<1>25. PICK whole : whole = es \o last
  OBVIOUS
<1>26. whole \in Seq(Events) /\ Reported(whole) = Reported(es) \union Reported(last)
  BY <1>22, <1>25, SequenceConcat, ReportedConcat
<1>27. parsed = QueuedOf(flows) \union evicted \union unreadable \union Reported(es)
  BY <1>24 DEF IInv, AccountOK
<1>28. parsed = QueuedOf(kept) \union evicted \union unreadable \union Reported(whole)
  BY <1>14, <1>23, <1>26, <1>27
<1>29. /\ flows' = kept /\ recency' = rest /\ events' = whole
       /\ parsed' = parsed /\ evicted' = evicted /\ unreadable' = unreadable
  BY <1>1, <1>4, <1>5, <1>7, <1>11, <1>16, <1>21, <1>24, <1>25
     DEF ExpireOldestFlows, TableWithout
<1>30. AccountOK(flows', events', parsed', evicted', unreadable')
  BY <1>26, <1>28, <1>29 DEF AccountOK
<1>31. QED
  BY <1>13, <1>29, <1>30 DEF Kept

-----------------------------------------------------------------------------
(* The theorems.                                                           *)

\* The engine starts with an empty table and an empty account.
LEMMA InitKeeps ==
  Init => IInv
<1> SUFFICES ASSUME Init PROVE IInv
  OBVIOUS
<1>1. PICK none : none = <<>>
  OBVIOUS
<1>2. DOMAIN none = {} /\ none \in Seq(Flows) /\ none \in Seq(Events) /\ ToSet(none) = {}
      /\ IsInjective(none)
  BY <1>1 DEF ToSet, IsInjective
<1>3. IsFiniteSet({}) /\ Cardinality({}) = 0
  BY FS_EmptySet
<1>4. MaxFlows \in Nat \ {0}
  BY SniffAssumption DEF Init, MaxFlows
<1>5. TableOK(Traffic, MaxFlows, none, none)
  BY <1>2, <1>3, <1>4 DEF TableOK
<1>6. QueuedOf(none) = {}
  <2>1. QueuedOf(none) = UNION {QueuedIn(f, none[f]) : f \in {}}
    BY <1>2 DEF QueuedOf
  <2>2. UNION {QueuedIn(f, none[f]) : f \in {}} = {}
    OBVIOUS
  <2>3. QED
    BY <2>1, <2>2
<1>7. AccountOK(none, none, {}, {}, {})
  BY <1>1, <1>2, <1>6, NoneReported DEF AccountOK
<1>8. connection \in [Flows -> {"new", "open", "gone"}]
      /\ \A f \in Flows : connection[f] = "gone" <=> f \notin DOMAIN Traffic
  BY DEF Init
<1>9. Live
  BY <1>8 DEF Live
<1>10. /\ flows = none /\ recency = none /\ events = none
       /\ parsed = {} /\ evicted = {} /\ unreadable = {}
  BY <1>1 DEF Init
<1>11. QED
  BY <1>5, <1>7, <1>9, <1>10 DEF IInv, Init

\* The segments of Sent and OnWire.
LEMMA WireSegments ==
  ASSUME IInv, NEW f \in DOMAIN Traffic, NEW side \in Sides
  PROVE  /\ Len(Wire[f][side]) \in Nat
         /\ OnWire(f, side) \subseteq SegmentsOf(Len(Wire[f][side]))
         /\ \A s \in OnWire(f, side) :
              [s EXCEPT !.rst = TRUE] \in SegmentsOf(Len(Wire[f][side]))
<1>1. Wire[f].client \in Seq(UnitsOf(Traffic[f].client))
      /\ Wire[f].server \in Seq(UnitsOf(Traffic[f].server))
  BY WireShape DEF IInv
<1>2. PICK size \in Nat : size = Len(Wire[f][side])
  <2>1. side = "client" \/ side = "server"
    BY DEF Sides
  <2>2. QED
    BY <1>1, <2>1
<1>3. OnWire(f, side) \subseteq SegmentsOf(size)
  BY <1>2 DEF OnWire, SegmentsOf
<1>4. \A s \in SegmentsOf(size) : [s EXCEPT !.rst = TRUE] \in SegmentsOf(size)
  BY DEF SegmentsOf
<1>5. QED
  BY <1>2, <1>3, <1>4

\* A segment without payload.
LEMMA EmptyShape ==
  ASSUME NEW size \in Nat, NEW n \in 0..size
  PROVE  Empty(n) \in SegmentsOf(size)
BY DEF Empty, SegmentsOf

\* Steps that keep the scenario and do not bring a connection to life.
LEMMA KeptIsEnough ==
  ASSUME IInv, scenario' = scenario, Kept,
         \/ connection' = connection
         \/ \E f \in Flows :
              /\ connection[f] \in {"new", "open"}
              /\ \E c \in {"new", "open", "reset", "gone"} :
                   connection' = [connection EXCEPT ![f] = c]
  PROVE  IInv'
<1>1. Traffic' = Traffic /\ MaxFlows' = MaxFlows
  BY DEF Traffic, MaxFlows
<1>2. Live'
  BY <1>1 DEF IInv, Live
<1>3. QED
  BY <1>1, <1>2 DEF IInv, Kept

\* A step in which the engine does nothing leaves its table and account alone.
LEMMA EngineIdles ==
  ASSUME IInv, UNCHANGED engineVars
  PROVE  Kept
BY DEF IInv, Kept, engineVars

\* Every action keeps the invariant.
LEMMA NextKeeps ==
  ASSUME IInv, [Next]_vars
  PROVE  IInv'
<1>1. ASSUME NEW f \in Flows, connection[f] \in {"new", "open"} PROVE f \in DOMAIN Traffic
  BY <1>1 DEF IInv, Live
<1>2. ASSUME NEW f \in Flows, Handshake(f) PROVE IInv'
  <2>1. f \in DOMAIN Traffic /\ connection[f] = "new"
    BY <1>1, <1>2 DEF Handshake
  <2>2. PICK side \in Sides :
          /\ Process(f, side, [Empty(0) EXCEPT !.syn = TRUE])
          /\ connection' = [connection EXCEPT ![f] = IF side = "server" THEN "open" ELSE @]
    BY <1>2 DEF Handshake
  <2>3. PICK segment : segment = [Empty(0) EXCEPT !.syn = TRUE]
    OBVIOUS
  <2>4. PICK size \in Nat : size = Len(Wire[f][side])
    BY <2>1, WireSegments
  <2>5. segment \in SegmentsOf(size)
    <3>1. PICK e \in SegmentsOf(size) : e = Empty(0)
      BY EmptyShape
    <3>2. [e EXCEPT !.syn = TRUE] \in SegmentsOf(size)
      BY DEF SegmentsOf
    <3>3. QED
      BY <2>3, <3>1, <3>2
  <2>6. Kept
    BY <2>1, <2>2, <2>3, <2>4, <2>5, ProcessKeeps
  <2>7. \E c \in {"new", "open", "reset", "gone"} : connection' = [connection EXCEPT ![f] = c]
    BY <2>1, <2>2
  <2>8. scenario' = scenario
    BY <1>2 DEF Handshake
  <2>9. QED
    BY <2>1, <2>6, <2>7, <2>8, KeptIsEnough
<1>3. ASSUME NEW f \in Flows, Capture(f) PROVE IInv'
  <2>1. f \in DOMAIN Traffic
    BY <1>1, <1>3 DEF Capture
  <2>2. PICK side \in Sides : \E s \in OnWire(f, side) : Process(f, side, s)
    BY <1>3 DEF Capture
  <2>3. PICK s \in OnWire(f, side) : Process(f, side, s)
    BY <2>2
  <2>4. s \in SegmentsOf(Len(Wire[f][side]))
    BY <2>1, WireSegments
  <2>5. Kept
    BY <2>1, <2>3, <2>4, ProcessKeeps
  <2>6. scenario' = scenario /\ connection' = connection
    BY <1>3 DEF Capture
  <2>7. QED
    BY <2>5, <2>6, KeptIsEnough
<1>4. ASSUME NEW f \in Flows, Miss(f) PROVE IInv'
  <2>1. scenario' = scenario /\ connection' = connection /\ UNCHANGED engineVars
    BY <1>4 DEF Miss
  <2>2. QED
    BY <2>1, EngineIdles, KeptIsEnough
<1>5. ASSUME NEW f \in Flows, Finish(f) PROVE IInv'
  <2>1. f \in DOMAIN Traffic
    BY <1>1, <1>5 DEF Finish
  <2>2. PICK side \in Sides : Process(f, side, [Empty(Len(Wire[f][side])) EXCEPT !.fin = TRUE])
    BY <1>5 DEF Finish
  <2>3. PICK size \in Nat : size = Len(Wire[f][side])
    BY <2>1, WireSegments
  <2>4. PICK segment : segment = [Empty(size) EXCEPT !.fin = TRUE]
    OBVIOUS
  <2>5. segment \in SegmentsOf(size)
    <3>1. PICK e \in SegmentsOf(size) : e = Empty(size)
      BY EmptyShape
    <3>2. [e EXCEPT !.fin = TRUE] \in SegmentsOf(size)
      BY DEF SegmentsOf
    <3>3. QED
      BY <2>4, <3>1, <3>2
  <2>6. Kept
    BY <2>1, <2>2, <2>3, <2>4, <2>5, ProcessKeeps
  <2>7. scenario' = scenario /\ connection' = connection
    BY <1>5 DEF Finish
  <2>8. QED
    BY <2>6, <2>7, KeptIsEnough
<1>6. ASSUME NEW f \in Flows, Reset(f) PROVE IInv'
  <2>1. f \in DOMAIN Traffic /\ connection[f] \in {"new", "open"}
    BY <1>1, <1>6 DEF Reset
  <2>2. PICK side \in Sides : \E s \in OnWire(f, side) \union {Empty(Prefix(f, side))} :
                                Process(f, side, [s EXCEPT !.rst = TRUE])
    BY <1>6 DEF Reset
  <2>3. PICK s \in OnWire(f, side) \union {Empty(Prefix(f, side))} :
               Process(f, side, [s EXCEPT !.rst = TRUE])
    BY <2>2
  <2>4. PICK segment : segment = [s EXCEPT !.rst = TRUE]
    OBVIOUS
  <2>5. \/ segment.rst /\ segment.from = segment.to
        \/ segment \in SegmentsOf(Len(Wire[f][side]))
    <3>1. CASE s \in OnWire(f, side)
      BY <2>1, <2>4, <3>1, WireSegments
    <3>2. CASE s = Empty(Prefix(f, side))
      BY <2>4, <3>2 DEF Empty
    <3>3. QED
      BY <2>3, <3>1, <3>2
  <2>6. Process(f, side, segment)
    BY <2>3, <2>4
  <2>7. Kept
    BY <2>1, <2>5, <2>6, ProcessKeeps
  <2>8. scenario' = scenario /\ connection' = [connection EXCEPT ![f] = "reset"]
    BY <1>6 DEF Reset
  <2>9. QED
    BY <2>1, <2>7, <2>8, KeptIsEnough
<1>7. ASSUME NEW f \in Flows, GoQuiet(f) PROVE IInv'
  <2>1. /\ connection[f] \in {"new", "open"}
        /\ connection' = [connection EXCEPT ![f] = "gone"]
        /\ scenario' = scenario /\ UNCHANGED engineVars
    BY <1>7 DEF GoQuiet
  <2>2. QED
    BY <2>1, EngineIdles, KeptIsEnough
<1>8. ASSUME ExpireIdle PROVE IInv'
  <2>1. \E n \in 1..Len(recency) : ExpireOldestFlows(n)
    BY <1>8 DEF ExpireIdle
  <2>2. scenario' = scenario /\ connection' = connection
    BY <1>8 DEF ExpireIdle
  <2>3. QED
    BY <2>1, <2>2, ExpireKeeps, KeptIsEnough
<1>9. ASSUME UNCHANGED vars PROVE IInv'
  <2>1. scenario' = scenario /\ connection' = connection /\ UNCHANGED engineVars
    BY <1>9 DEF vars
  <2>2. QED
    BY <2>1, EngineIdles, KeptIsEnough
<1>10. QED
  BY <1>2, <1>3, <1>4, <1>5, <1>6, <1>7, <1>8, <1>9 DEF Next

\* The engine's table, its order and its account are always as IInv says.
THEOREM Invariant ==
  Spec => []IInv
<1>1. Init => IInv
  BY InitKeeps
<1>2. IInv /\ [Next]_vars => IInv'
  BY NextKeeps
<1>3. QED
  BY <1>1, <1>2, PTL DEF Spec

\* process and expire_idle keep the table of flows and the order of last_seen in
\* step, every queued request is one of its connection, and expire_oldest keeps
\* the table within MAX_FLOWS.
THEOREM Bounded ==
  Spec => []FlowsBounded
<1>1. IInv => FlowsBounded
  <2> SUFFICES ASSUME IInv PROVE FlowsBounded
    OBVIOUS
  <2>1. TableOK(Traffic, MaxFlows, flows, recency)
    BY DEF IInv
  <2>2. DOMAIN flows \subseteq Flows
    BY <2>1, WireShape DEF TableOK, IInv, Carries
  <2>3. ASSUME NEW f \in DOMAIN flows
        PROVE  \A i \in 1..Len(flows[f].requests) :
                 flows[f].requests[i] \in 1..Len(Traffic[f].client)
    <3>1. PICK q : q = flows[f].requests
      OBVIOUS
    <3>2. q \in Seq(1..Len(Traffic[f].client))
      BY <2>1, <3>1 DEF TableOK, FlowsOf
    <3>3. \A i \in 1..Len(q) : q[i] \in 1..Len(Traffic[f].client)
      BY <3>2
    <3>4. QED
      BY <3>1, <3>3
  <2>4. QED
    BY <2>1, <2>2, <2>3 DEF FlowsBounded, TypeOK, TableOK
<1>2. QED
  BY <1>1, Invariant, PTL

\* Whatever is captured, missed, reset or evicted, the requests that entered a
\* queue of process are those that wait, those that events report, those dropped
\* by expire_oldest and those whose response httparse rejects.
THEOREM Accounted ==
  Spec => []NothingIsLost
<1>1. IInv => NothingIsLost
  BY DEF IInv, AccountOK, QueuedOf, NothingIsLost, Queued
<1>2. QED
  BY <1>1, Invariant, PTL

\* Both directions of every flow keep to their limits: a stream of at most
\* MAX_STREAM_BUFFER, and payloads out of order of at most MAX_OUT_OF_ORDER_BYTES
\* which pending_bytes counts.
THEOREM StreamsBounded ==
  Spec => [](\A f \in DOMAIN flows : FlowInBudget(flows[f]))
<1>1. IInv => \A f \in DOMAIN flows : FlowInBudget(flows[f])
  BY DEF IInv, TableOK
<1>2. QED
  BY <1>1, Invariant, PTL

-----------------------------------------------------------------------------
(* Where the messages are on a wire.                                       *)

\* The messages are on the wire one behind the other: the start line, the rest of
\* the header block, the body.
Layout(messages, w, start) ==
  /\ Rises(start, Len(messages))
  /\ Len(w) = start[Len(messages)]
  /\ \A i \in 1..Len(messages) :
       /\ start[i] = start[i - 1] + 2 + messages[i].body
       /\ \A p \in start[i - 1] + 1..start[i] : w[p] = <<i, p - start[i - 1] - 1>>

\* A wire has a layout: the units of every message, its head line, its blank line and
\* its body, follow those of the message before.
LEMMA UnitsLayout ==
  ASSUME NEW messages \in Seq(Messages)
  PROVE  \E start : Layout(messages, Units(messages), start)
<1> DEFINE S == UnitsOf(messages)
           Block(i) == [j \in 1..(2 + messages[i].body) |-> <<i, j - 1>>]
           seqs == [i \in 1..Len(messages) |-> Block(i)]
<1>1. PICK m \in Nat : m = Len(messages)
  OBVIOUS
<1>2. ASSUME NEW i \in 1..m
      PROVE  /\ messages[i].body \in Nat /\ seqs[i] \in Seq(S) /\ Len(seqs[i]) = 2 + messages[i].body
             /\ \A k \in 1..2+messages[i].body : seqs[i][k] = <<i, k - 1>>
  <2>1. messages[i] \in Messages
    BY <1>1
  <2>2. messages[i].body \in Nat
    BY <2>1 DEF Messages
  <2>3. PICK n \in Nat : n = 2 + messages[i].body
    BY <2>2
  <2>4. \A k \in 1..n : <<i, k - 1>> \in S
    BY <1>1 DEF UnitsOf
  <2>5. PICK s : s = [k \in 1..n |-> <<i, k - 1>>]
    OBVIOUS
  <2>6. s \in [1..n -> S]
    BY <2>4, <2>5
  <2>7. seqs[i] = s
    BY <1>1, <2>3, <2>5
  <2>8. s \in Seq(S) /\ Len(s) = n
    BY <2>6, FunctionsAreSequences
  <2>9. \A k \in 1..n : s[k] = <<i, k - 1>>
    BY <2>5
  <2>10. QED
    BY <2>2, <2>3, <2>7, <2>8, <2>9
<1>3. Units(messages) = FlattenSeq(seqs)
  BY DEF Units, UnitsOfMessage
<1>4. seqs \in Seq(Seq(S)) /\ Len(seqs) = m
  <2>1. seqs = [i \in 1..m |-> seqs[i]]
    BY <1>1
  <2>2. \A i \in 1..m : seqs[i] \in Seq(S)
    BY <1>2
  <2>3. seqs \in [1..m -> Seq(S)]
    BY <2>1, <2>2
  <2> HIDE DEF seqs, S
  <2>4. QED
    BY <2>3, FunctionsAreSequences
<1> HIDE DEF seqs, S
<1> DEFINE size == [i \in 1..m |-> messages[i].body]
<1>a. \A i \in 1..m : size[i] = messages[i].body
  OBVIOUS
<1> HIDE DEF size
<1>b. ASSUME NEW i \in 1..m
      PROVE  /\ size[i] \in Nat /\ seqs[i] \in Seq(S) /\ Len(seqs[i]) = 2 + size[i]
             /\ \A k \in 1..2+size[i] : seqs[i][k] = <<i, k - 1>>
  BY <1>2, <1>a, Zenon
<1>5. PICK run \in [0..m -> Seq(S)] :
        /\ run[0] = <<>>
        /\ \A n \in 1..m : run[n] = run[n - 1] \o seqs[n]
        /\ FlattenSeq(seqs) = run[m]
  <2>1. PICK run : FlattensBy(S, seqs, m, run)
    BY <1>4, FlattenTurns
  <2>2. QED
    BY <2>1 DEF FlattensBy
<1>6. \A n \in 1..m : n \in 0..m /\ n - 1 \in 0..m /\ run[n] \in Seq(S) /\ run[n - 1] \in Seq(S)
  OBVIOUS
<1> DEFINE start == [n \in 0..m |-> Len(run[n])]
<1>7. start \in [0..m -> Nat] /\ \A n \in 0..m : start[n] = Len(run[n])
  OBVIOUS
<1>9. start[0] = 0
  BY <1>5
<1> HIDE DEF start
<1>8. ASSUME NEW n \in 1..m
      PROVE  /\ start[n] = start[n - 1] + 2 + size[n]
             /\ \A p \in 1..start[n - 1] : run[n][p] = run[n - 1][p]
             /\ \A p \in start[n - 1]+1..start[n] : run[n][p] = <<n, p - start[n - 1] - 1>>
  <2>1. PICK a, b, c : a \in Seq(S) /\ b \in Seq(S) /\ a = run[n - 1] /\ b = seqs[n] /\ c = run[n]
    BY <1>b, <1>6
  <2>2. c = a \o b
    BY <1>5, <2>1
  <2>3. Joined(a, b, c)
    BY <2>1, <2>2, ConcatJoins
  <2>b. PICK body \in Nat : body = size[n]
    BY <1>b
  <2>c. PICK la \in Nat : la = Len(a)
    BY <2>1
  <2>4. la = Len(a) /\ body = size[n]
    BY <2>b, <2>c
  <2>5. Len(b) = 2 + body /\ \A k \in 1..Len(b) : b[k] = <<n, k - 1>>
    BY <1>b, <2>1, <2>4
  <2>6. Len(c) = la + (2 + body) /\ (\A i \in 1..la : c[i] = a[i])
        /\ \A i \in 1..2+body : c[la + i] = b[i]
    BY <2>3, <2>4, <2>5 DEF Joined
  <2>a. start[n] = la + (2 + body) /\ start[n - 1] = la
    BY <1>6, <1>7, <2>1, <2>4, <2>6
  <2>7. start[n] = start[n - 1] + 2 + size[n]
    <3>1. start[n] = start[n - 1] + 2 + body
      BY <2>a
    <3>2. QED
      BY <2>4, <3>1, Zenon
  <2>8. \A p \in 1..start[n - 1] : run[n][p] = run[n - 1][p]
    BY <2>1, <2>4, <2>6, <2>a
  <2>9. ASSUME NEW p \in start[n - 1]+1..start[n] PROVE run[n][p] = <<n, p - start[n - 1] - 1>>
    <3>1. PICK k \in 1..2+body : p = la + k
      <4>1. p \in la+1..la+(2+body)
        BY <2>a
      <4>2. p - la \in 1..2+body /\ p = la + (p - la)
        BY <4>1
      <4>3. QED
        BY <4>2
    <3>2. c[la + k] = b[k] /\ b[k] = <<n, k - 1>>
      BY <2>5, <2>6
    <3>3. k - 1 = p - start[n - 1] - 1
      BY <2>a, <3>1
    <3>4. QED
      BY <2>1, <3>1, <3>2, <3>3
  <2>10. QED
    BY <2>7, <2>8, <2>9
<1>10. ASSUME NEW n \in 1..m PROVE start[n - 1] < start[n] /\ start[n] \in Nat /\ start[n - 1] \in Nat
  <2>1. start[n] \in Nat /\ start[n - 1] \in Nat
    BY <1>6, <1>7
  <2>2. PICK body \in Nat : body = size[n]
    BY <1>b
  <2>3. start[n] = start[n - 1] + 2 + body
    BY <1>8, <2>2
  <2>4. QED
    BY <2>1, <2>3, SMTT(60)
<1>11. Rises(start, m)
  BY <1>7, <1>9, <1>10 DEF Rises
<1>12. \A i, j \in 0..m : i < j => start[i] < start[j]
  BY <1>11, RisesCovers
<1> DEFINE Q == [n \in Nat |-> {s \in Seq(S) : n <= m =>
                   \A i \in 1..n : \A p \in start[i - 1]+1..start[i] :
                     s[p] = <<i, p - start[i - 1] - 1>>}]
<1>13. run[0] \in Q[0]
  BY <1>5
<1>14. ASSUME NEW n \in 1..m, run[n - 1] \in Q[n - 1] PROVE run[n] \in Q[n]
  <2>1. n \in Nat /\ n - 1 \in Nat /\ n - 1 <= m /\ run[n] \in Seq(S)
    BY <1>6
  <2>2. \A i \in 1..n-1 : \A p \in start[i - 1]+1..start[i] :
          run[n - 1][p] = <<i, p - start[i - 1] - 1>>
    BY <1>14, <2>1
  <2>3. ASSUME NEW i \in 1..n, NEW p \in start[i - 1]+1..start[i]
        PROVE  run[n][p] = <<i, p - start[i - 1] - 1>>
    <3>1. CASE i = n
      BY <1>8, <3>1
    <3>2. CASE i # n
      <4>1. i \in 1..n-1 /\ i \in 1..m /\ i \in 0..m /\ n - 1 \in 0..m
        BY <3>2
      <4>2. start[i] <= start[n - 1]
        <5>1. i = n - 1 \/ i < n - 1
          BY <4>1
        <5>2. start[i] \in Nat /\ start[n - 1] \in Nat
          BY <1>7, <4>1
        <5>3. i < n - 1 => start[i] < start[n - 1]
          BY <1>12, <4>1
        <5>4. QED
          BY <5>1, <5>2, <5>3
      <4>3. start[i - 1] \in Nat /\ start[i] \in Nat /\ start[n - 1] \in Nat
        BY <1>10, <4>1
      <4>4. p \in 1..start[n - 1]
        BY <4>2, <4>3, SMTT(60)
      <4>5. run[n][p] = run[n - 1][p]
        BY <1>8, <4>4
      <4>6. QED
        BY <2>2, <4>1, <4>5
    <3>3. QED
      BY <3>1, <3>2
  <2>4. QED
    BY <2>1, <2>3
<1> HIDE DEF Q
<1>15. run[m] \in Q[m]
  BY <1>13, <1>14, LoopInvariant
<1>16. \A i \in 1..m : \A p \in start[i - 1]+1..start[i] :
         Units(messages)[p] = <<i, p - start[i - 1] - 1>>
  <2>1. m <= m /\ m \in Nat
    OBVIOUS
  <2>2. \A i \in 1..m : \A p \in start[i - 1]+1..start[i] : run[m][p] = <<i, p - start[i - 1] - 1>>
    BY <1>15, <2>1 DEF Q
  <2>3. Units(messages) = run[m]
    BY <1>3, <1>5
  <2>4. QED
    BY <2>2, <2>3
<1>17. Len(Units(messages)) = start[m]
  <2>1. m \in 0..m
    OBVIOUS
  <2>2. QED
    BY <1>3, <1>5, <1>7, <2>1
<1>18. \A n \in 1..m : start[n] = start[n - 1] + 2 + messages[n].body
  BY <1>8, <1>a, Zenon
<1>19. QED
  BY <1>1, <1>11, <1>16, <1>17, <1>18, Zenon DEF Layout

-----------------------------------------------------------------------------
(* The order of requests.                                                  *)

\* The start line of message r is one of the units lo+1..hi of a wire.
StartsIn(w, r, lo, hi) == \E q \in lo+1..hi : w[q] = <<r, 0>>

\* Messages start on the wire in the order of their numbers.
LEMMA LaterMessage ==
  ASSUME NEW messages \in Seq(Messages), NEW w, w = Units(messages),
         NEW i \in 1..Len(w), NEW j \in 1..Len(w), i < j,
         NEW a, w[i] = <<a, 0>>, NEW b, w[j] = <<b, 0>>
  PROVE  a < b
<1>1. PICK m \in Nat : m = Len(messages)
  OBVIOUS
<1>2. PICK start : Layout(messages, w, start)
  BY UnitsLayout
<1>3. /\ Rises(start, m) /\ Len(w) = start[m]
      /\ \A x \in 1..m : \A p \in start[x - 1] + 1..start[x] : w[p] = <<x, p - start[x - 1] - 1>>
  BY <1>1, <1>2 DEF Layout
<1>4. /\ \A x, y \in 0..m : x < y => start[x] < start[y]
      /\ \A p \in 1..start[m] : \E x \in 1..m : start[x - 1] < p /\ p <= start[x]
  BY <1>3, RisesCovers
<1>5. \A x \in 0..m : start[x] \in Nat
  BY <1>3 DEF Rises
<1>6. ASSUME NEW p \in 1..Len(w), NEW c, w[p] = <<c, 0>>
      PROVE  c \in 1..m /\ p = start[c - 1] + 1
  <2>1. PICK x \in 1..m : start[x - 1] < p /\ p <= start[x]
    BY <1>3, <1>4
  <2>2. x - 1 \in 0..m /\ x \in 0..m
    BY <1>1
  <2>3. start[x - 1] \in Nat /\ start[x] \in Nat
    BY <1>5, <2>2
  <2>4. p \in start[x - 1] + 1..start[x]
    BY <2>1, <2>3
  <2>5. w[p] = <<x, p - start[x - 1] - 1>>
    BY <1>3, <2>4, Zenon
  <2>6. c = x /\ p - start[x - 1] - 1 = 0
    <3>1. PICK k : k = p - start[x - 1] - 1
      OBVIOUS
    <3>2. <<c, 0>> = <<x, k>>
      BY <1>6, <2>5, <3>1, Zenon
    <3>3. c = x /\ k = 0
      BY <3>2
    <3>4. QED
      BY <3>1, <3>3
  <2>7. p = start[x - 1] + 1
    BY <2>3, <2>6
  <2>8. QED
    BY <2>6, <2>7
<1>7. a \in 1..m /\ i = start[a - 1] + 1
  BY <1>6
<1>8. b \in 1..m /\ j = start[b - 1] + 1
  BY <1>6
<1>9. a - 1 \in 0..m /\ b - 1 \in 0..m
  BY <1>7, <1>8
<1>10. start[a - 1] \in Nat /\ start[b - 1] \in Nat /\ start[a - 1] < start[b - 1]
  BY <1>5, <1>7, <1>8, <1>9, SMTT(60)
<1>11. ~(b - 1 < a - 1) /\ ~(b - 1 = a - 1)
  BY <1>4, <1>9, <1>10
<1>12. QED
  BY <1>7, <1>8, <1>11

\* What take_http_message takes is the front of the stream, or the stream is lost.
LEMMA TakeMessageCuts ==
  ASSUME NEW messages \in Seq(Messages), NEW stream \in Seq(UnitsOf(messages)),
         NEW isRequest, NEW afterHead, NEW endOfStream,
         NEW taken, taken = TakeMessage(stream, messages, isRequest, afterHead, endOfStream)
  PROVE  \/ taken.message = <<>> /\ taken.stream = <<>>
         \/ Joined(taken.message, taken.stream, stream)
<1> DEFINE U == UnitsOf(messages)
           ends == {i \in 1..Len(stream) : stream[i][2] = 1}
           end == CHOOSE i \in ends : \A j \in ends : i <= j
           startsHttp == IF isRequest THEN \E i \in 1..end : stream[i][2] = 0
                         ELSE stream[1][2] = 0
           length == MessageLength(stream, end, messages[stream[end][1]],
                                   isRequest, afterHead, endOfStream)
<1>1. taken = IF ends = {} THEN NoMessage(stream)
              ELSE IF ~startsHttp THEN NoMessage(<<>>)
              ELSE IF length = Unset \/ Len(stream) < length THEN NoMessage(stream)
              ELSE [message |-> SubSeq(stream, 1, length),
                    stream |-> SubSeq(stream, length + 1, Len(stream))]
  BY DEF TakeMessage
<1>2. ends \in SUBSET Nat /\ ends \subseteq 1..Len(stream)
  OBVIOUS
<1>3. \A i \in 1..Len(stream) : stream[i] \in UnitsOf(messages)
  OBVIOUS
<1> HIDE DEF ends, startsHttp
<1>5. ends # {} => length \in {Unset} \union Nat
  <2> SUFFICES ASSUME ends # {} PROVE length \in {Unset} \union Nat
    OBVIOUS
  <2>1. \E i \in ends : \A j \in ends : i <= j
    BY <1>2, LeastNatural
  <2>2. end \in ends
    BY <2>1
  <2> HIDE DEF end
  <2>3. end \in 1..Len(stream) /\ end \in Nat
    BY <1>2, <2>2
  <2>4. stream[end][1] \in 1..Len(messages)
    BY <1>3, <2>3 DEF UnitsOf
  <2>5. messages[stream[end][1]] \in Messages
    BY <2>4
  <2>6. QED
    BY <2>3, <2>5, MessageLengthShape
<1> HIDE DEF length, end
<1>6. CASE taken = NoMessage(stream)
  <2>1. taken.message = <<>> /\ taken.stream = stream
    BY <1>6 DEF NoMessage
  <2>2. Len(<<>>) = 0 /\ Len(stream) \in Nat
    OBVIOUS
  <2>3. Joined(<<>>, stream, stream)
    BY <2>2 DEF Joined
  <2>4. QED
    BY <2>1, <2>3
<1>7. CASE taken = NoMessage(<<>>)
  BY <1>7 DEF NoMessage
<1>8. CASE /\ ends # {} /\ length # Unset /\ ~(Len(stream) < length)
           /\ taken = [message |-> SubSeq(stream, 1, length),
                       stream |-> SubSeq(stream, length + 1, Len(stream))]
  <2>1. PICK m \in Nat : m = Len(stream)
    OBVIOUS
  <2>2. PICK n \in 0..m : n = length
    BY <1>5, <1>8, <2>1
  <2>3. PICK a : a = SubSeq(stream, 1, n)
    OBVIOUS
  <2>4. PICK b : b = SubSeq(stream, n + 1, m)
    OBVIOUS
  <2>5. Len(a) = n /\ \A i \in 1..n : a[i] = stream[i]
    BY <2>1, <2>2, <2>3
  <2>6. Len(b) = m - n /\ \A i \in 1..m-n : b[i] = stream[n + i]
    BY <2>1, <2>2, <2>4
  <2>7. Joined(a, b, stream)
    BY <2>1, <2>2, <2>5, <2>6 DEF Joined
  <2>8. taken.message = a /\ taken.stream = b
    BY <1>8, <2>1, <2>2, <2>3, <2>4
  <2>9. QED
    BY <2>7, <2>8
<1>9. QED
  BY <1>1, <1>6, <1>7, <1>8, SMTT(60)

\* What is left of a stream is the end of the same part of the wire.
LEMMA CutEndsIn ==
  ASSUME NEW U, NEW w, NEW p \in Nat, NEW stream \in Seq(U), EndsIn(w, stream, p),
         NEW a \in Seq(U), NEW b \in Seq(U),
         \/ a = <<>> /\ b = <<>>
         \/ Joined(a, b, stream)
  PROVE  /\ EndsIn(w, b, p) /\ Len(b) <= Len(stream)
         /\ a # <<>> => /\ Len(b) < Len(stream)
                        /\ a[1] = w[p - Len(stream) + 1]
<1>1. PICK n \in Nat : n = Len(stream) /\ n <= p
  BY DEF EndsIn
<1>2. PICK x \in Nat : x = Len(a)
  OBVIOUS
<1>3. PICK y \in Nat : y = Len(b)
  OBVIOUS
<1>4. CASE a = <<>> /\ b = <<>>
  BY <1>1, <1>3, <1>4 DEF EndsIn
<1>5. CASE Joined(a, b, stream)
  <2>1. n = x + y /\ (\A i \in 1..x : stream[i] = a[i]) /\ (\A i \in 1..y : stream[x + i] = b[i])
    BY <1>1, <1>2, <1>3, <1>5 DEF Joined
  <2>2. \A i \in 1..n : stream[i] = w[p - n + i]
    BY <1>1 DEF EndsIn
  <2>3. \A i \in 1..y : b[i] = w[p - y + i]
    <3> TAKE i \in 1..y
    <3>1. x + i \in 1..n /\ p - n + (x + i) = p - y + i
      BY <2>1
    <3>2. QED
      BY <2>1, <2>2, <3>1
  <2>4. EndsIn(w, b, p) /\ y <= n
    BY <1>1, <1>3, <2>1, <2>3 DEF EndsIn
  <2>5. ASSUME a # <<>> PROVE y < n /\ a[1] = w[p - n + 1]
    <3>1. x # 0
      BY <1>2, <2>5
    <3>2. 1 \in 1..x /\ 1 \in 1..n /\ y < n
      BY <2>1, <3>1
    <3>3. QED
      BY <2>1, <2>2, <3>2
  <2>6. QED
    BY <1>1, <1>3, <2>4, <2>5
<1>6. QED
  BY <1>4, <1>5

\* One turn of the loop of a side, and how much of its stream is left.
LoopTurn(f, side, fin, run) ==
  IF side = "client" THEN RequestTurn(f, run) ELSE ResponseTurn(f, fin, run)
Left(side, run) == Len(run.flow[side].stream)

\* What every turn of the loop preserves holds where the loop ends; and it ends
\* by itself when every turn but the last shortens the stream.
LEMMA ParseLoop ==
  ASSUME NEW f, NEW side, NEW fin, NEW flow, Len(flow[side].stream) \in Nat,
         NEW Good, Running(flow) \in Good,
         \A run \in Good : run.more => LoopTurn(f, side, fin, run) \in Good,
         NEW e, e = Parse(f, side, fin, flow)
  PROVE  /\ e \in Good
         /\ (\A run \in Good : run.more =>
               /\ Left(side, run) \in Nat
               /\ LoopTurn(f, side, fin, run).more =>
                    Left(side, LoopTurn(f, side, fin, run)) < Left(side, run))
              => ~e.more
<1> DEFINE Turn(run) == LoopTurn(f, side, fin, run)
           turns == Len(flow[side].stream) + 1
           IsRun(g) == g = [n \in 0..turns |->
                              IF n = 0 THEN Running(flow)
                              ELSE IF g[n - 1].more THEN Turn(g[n - 1]) ELSE g[n - 1]]
           after == CHOOSE g : IsRun(g)
           Q == [n \in Nat |-> Good]
           Shrinks == \A run \in Good : run.more =>
                        /\ Left(side, run) \in Nat
                        /\ Turn(run).more => Left(side, Turn(run)) < Left(side, run)
           R == [n \in Nat |-> {run \in Good : Shrinks /\ run.more => Left(side, run) + n < turns}]
<1>1. e = after[turns]
  BY DEF Parse, LoopTurn
<1>2. turns \in Nat
  OBVIOUS
<1>3. \A run \in Good : run.more => Turn(run) \in Good
  OBVIOUS
<1>4. Left(side, Running(flow)) = Len(flow[side].stream)
  BY DEF Left, Running
<1>5. Left(side, Running(flow)) + 0 < turns
  BY <1>4
<1> HIDE DEF Turn
<1>6. \E g : IsRun(g)
  <2> DEFINE step == [c \in (1..turns) \X Good |-> IF c[2].more THEN Turn(c[2]) ELSE c[2]]
  <2>1. step \in [(1..turns) \X Good -> Good]
    BY <1>3
  <2>2. \A n \in 1..turns, run \in Good :
          step[<<n, run>>] = IF run.more THEN Turn(run) ELSE run
    OBVIOUS
  <2> HIDE DEF step, turns
  <2>3. PICK start : start = Running(flow)
    OBVIOUS
  <2>4. PICK g \in [0..turns -> Good] : IsLoop(g, turns, start, step)
    BY <1>2, <2>1, <2>3, LoopExists
  <2>5. ASSUME NEW n \in 0..turns
        PROVE  g[n] = IF n = 0 THEN Running(flow)
                      ELSE IF g[n - 1].more THEN Turn(g[n - 1]) ELSE g[n - 1]
    <3>1. CASE n = 0
      BY <2>3, <2>4, <3>1 DEF IsLoop
    <3>2. CASE n # 0
      <4>1. n \in 1..turns /\ n - 1 \in 0..turns
        BY <1>2, <3>2
      <4>2. g[n] = step[<<n, g[n - 1]>>]
        BY <2>4, <3>2 DEF IsLoop
      <4>3. g[n - 1] \in Good
        BY <4>1
      <4>4. QED
        BY <2>2, <3>2, <4>1, <4>2, <4>3
    <3>3. QED
      BY <3>1, <3>2
  <2>6. IsRun(g)
    BY <2>4, <2>5 DEF IsLoop
  <2>7. QED
    BY <2>6
<1> HIDE DEF IsRun, turns
<1>7. IsRun(after)
  BY <1>6
<1> HIDE DEF after
<1>8. after[0] = Running(flow)
  BY <1>2, <1>7 DEF IsRun
<1>9. ASSUME NEW n \in 1..turns
      PROVE  /\ n \in Nat /\ n - 1 \in Nat
             /\ after[n] = IF after[n - 1].more THEN Turn(after[n - 1]) ELSE after[n - 1]
  <2>1. n \in Nat /\ n - 1 \in Nat /\ n \in 0..turns /\ n # 0
    BY <1>2
  <2>2. QED
    BY <1>7, <2>1 DEF IsRun
<1>10. ASSUME NEW n \in 1..turns, after[n - 1] \in Q[n - 1] PROVE after[n] \in Q[n]
  <2>1. after[n - 1] \in Good
    BY <1>9, <1>10
  <2>2. after[n] \in Good
    BY <1>3, <1>9, <2>1
  <2>3. QED
    BY <1>9, <2>2
<1>11. after[0] \in Q[0]
  BY <1>8
<1> HIDE DEF Q, Shrinks
<1>12. after[turns] \in Q[turns]
  BY <1>2, <1>10, <1>11, LoopInvariant
<1>13. after[turns] \in Good
  BY <1>2, <1>12 DEF Q
<1>14. ASSUME NEW n \in 1..turns, after[n - 1] \in R[n - 1] PROVE after[n] \in R[n]
  <2>1. PICK x : x = after[n - 1]
    OBVIOUS
  <2>2. x \in Good /\ (Shrinks /\ x.more => Left(side, x) + (n - 1) < turns)
    BY <1>9, <1>14, <2>1
  <2>3. PICK y : y = after[n]
    OBVIOUS
  <2>4. y = IF x.more THEN Turn(x) ELSE x
    BY <1>9, <2>1, <2>3
  <2>5. y \in Good
    BY <1>3, <2>2, <2>4
  <2>6. ASSUME Shrinks, y.more PROVE Left(side, y) + n < turns
    <3>1. x.more /\ y = Turn(x)
      BY <2>4, <2>6
    <3>2. Left(side, x) \in Nat /\ Left(side, y) < Left(side, x)
      BY <2>2, <2>6, <3>1 DEF Shrinks
    <3>3. Left(side, y) \in Nat
      BY <2>5, <2>6 DEF Shrinks
    <3>4. Left(side, x) + (n - 1) < turns
      BY <2>2, <2>6, <3>1
    <3>5. QED
      BY <1>2, <3>2, <3>3, <3>4
  <2>7. QED
    BY <1>9, <2>3, <2>5, <2>6
<1>15. after[0] \in R[0]
  BY <1>5, <1>8
<1> HIDE DEF R
<1>16. after[turns] \in R[turns]
  BY <1>2, <1>14, <1>15, LoopInvariant
<1>17. ASSUME Shrinks PROVE ~e.more
  <2>1. e \in R[turns]
    BY <1>1, <1>16
  <2>2. e \in Good /\ (e.more => Left(side, e) + turns < turns)
    BY <1>2, <1>17, <2>1 DEF R
  <2>3. e.more => Left(side, e) \in Nat
    BY <1>17, <2>2 DEF Shrinks
  <2>4. QED
    BY <1>2, <2>2, <2>3
<1>18. QED
  BY <1>1, <1>13, <1>17 DEF Shrinks, Turn

\* The same direction with another stream.
SameBut(d, e, stream) ==
  /\ e.next = d.next /\ e.pending = d.pending /\ e.pendingBytes = d.pendingBytes
  /\ e.stream = stream

\* A turn of the client's loop that took something from the stream, and what it
\* leaves alone.
RequestTurned(f, run, taken, e) ==
  /\ SameBut(run.flow.client, e.flow.client, taken.stream)
  /\ e.flow.server = run.flow.server /\ e.events = run.events /\ e.lost = run.lost
  /\ \/ /\ taken.message = <<>> /\ ~e.more
        /\ e.flow.requests = run.flow.requests /\ e.queued = run.queued
     \/ /\ taken.message # <<>> /\ ~Parses(taken.message, Traffic[f].client)
        /\ e.more = run.more
        /\ e.flow.requests = run.flow.requests /\ e.queued = run.queued
     \/ /\ taken.message # <<>> /\ Parses(taken.message, Traffic[f].client)
        /\ e.more = run.more
        /\ e.flow.requests = Append(run.flow.requests, taken.message[1][1])
        /\ e.queued = run.queued \union {<<f, taken.message[1][1]>>}

\* A turn of the loop of parse_requests leaves the loop with the flow as it was, or
\* takes one request from the front of the stream to the end of the queue.
LEMMA RequestTurnIs ==
  ASSUME NEW f, Carries(f), NEW run \in Runs(Traffic[f]),
         NEW taken, taken = TakeMessage(run.flow.client.stream, Traffic[f].client, TRUE, FALSE, FALSE),
         NEW e, e = RequestTurn(f, run)
  PROVE  RequestTurned(f, run, taken, e)
<1> DEFINE messages == Traffic[f].client
<1>1. PICK flow \in FlowsOf(Traffic[f]) : flow = run.flow
  BY DEF Runs
<1>2. PICK d \in Directions(UnitsOf(messages)) : d = flow.client
  BY DEF FlowsOf
<1>3. messages \in Seq(Messages) /\ d.stream \in Seq(UnitsOf(messages))
  BY DEF Carries, Directions
<1>4. taken.stream \in Seq(UnitsOf(messages))
  BY <1>1, <1>2, <1>3, TakeMessageShape
<1>5. PICK c : c = [d EXCEPT !.stream = taken.stream]
  OBVIOUS
<1>6. SameBut(d, c, taken.stream)
  BY <1>5 DEF SameBut, Directions
<1>7. PICK g : g = [flow EXCEPT !.client = c]
  OBVIOUS
<1>8. g.client = c /\ g.server = flow.server /\ g.requests = flow.requests
  BY <1>7 DEF FlowsOf
<1>9. PICK drained : drained = [run EXCEPT !.flow = g]
  OBVIOUS
<1>10. /\ drained.flow = g /\ drained.events = run.events /\ drained.queued = run.queued
       /\ drained.lost = run.lost /\ drained.more = run.more
  BY <1>9 DEF Runs
<1>11. PICK request : request = taken.message[1][1]
  OBVIOUS
<1>12. drained = [run EXCEPT !.flow.client.stream = taken.stream]
  BY <1>1, <1>2, <1>5, <1>7, <1>9
<1>13. e = IF taken.message = <<>> THEN [drained EXCEPT !.more = FALSE]
           ELSE IF ~Parses(taken.message, messages) THEN drained
           ELSE [drained EXCEPT !.flow.requests = Append(@, request),
                                !.queued = @ \union {<<f, request>>}]
  BY <1>11, <1>12 DEF RequestTurn, Enqueue
<1>14. PICK longer : longer = Append(g.requests, request)
  OBVIOUS
<1>15. PICK h : h = [g EXCEPT !.requests = longer]
  OBVIOUS
<1>16. h.client = c /\ h.server = flow.server /\ h.requests = longer
  BY <1>7, <1>8, <1>15 DEF FlowsOf
<1>17. CASE taken.message = <<>>
  <2>1. e = [drained EXCEPT !.more = FALSE]
    BY <1>13, <1>17
  <2>2. e.flow = g /\ e.events = run.events /\ e.queued = run.queued /\ e.lost = run.lost /\ ~e.more
    BY <1>9, <1>10, <2>1 DEF Runs
  <2>3. QED
    BY <1>1, <1>2, <1>6, <1>8, <1>17, <2>2 DEF RequestTurned
<1>18. CASE taken.message # <<>> /\ ~Parses(taken.message, messages)
  <2>1. e = drained
    BY <1>13, <1>18
  <2>2. QED
    BY <1>1, <1>2, <1>6, <1>8, <1>10, <1>18, <2>1 DEF RequestTurned
<1>19. CASE taken.message # <<>> /\ Parses(taken.message, messages)
  <2>1. PICK more : more = run.queued \union {<<f, request>>}
    OBVIOUS
  <2>2. e = [drained EXCEPT !.flow = h, !.queued = more]
    BY <1>10, <1>13, <1>14, <1>15, <1>19, <2>1
  <2>3. e.flow = h /\ e.events = run.events /\ e.queued = more /\ e.lost = run.lost
        /\ e.more = run.more
    BY <1>9, <1>10, <2>2 DEF Runs
  <2>4. QED
    BY <1>1, <1>2, <1>6, <1>8, <1>11, <1>14, <1>16, <1>19, <2>1, <2>3 DEF RequestTurned
<1>20. QED
  BY <1>17, <1>18, <1>19

\* The same for what the server's loop does with what it took.
Answered(f, run, taken, e) ==
  LET q == run.flow.requests
      messages == Traffic[f].server
      response == taken.message[1][1]
      final == Parses(taken.message, messages) /\ ~Interim(messages[response].status)
  IN
  /\ SameBut(run.flow.server, e.flow.server, taken.stream)
  /\ e.flow.client = run.flow.client /\ e.queued = run.queued
  /\ \/ /\ taken.message = <<>> /\ ~e.more
        /\ e.flow.requests = q /\ e.events = run.events /\ e.lost = run.lost
     \/ /\ taken.message # <<>>
        /\ q = <<>> \/ (Parses(taken.message, messages) /\ ~final)
        /\ e.more = run.more
        /\ e.flow.requests = q /\ e.events = run.events /\ e.lost = run.lost
     \/ /\ taken.message # <<>> /\ q # <<>> /\ final
        /\ e.more = run.more
        /\ e.flow.requests = Tail(q) /\ e.lost = run.lost
        /\ e.events = Append(run.events, Event(f, Head(q), response, taken.message))
     \/ /\ taken.message # <<>> /\ q # <<>> /\ ~Parses(taken.message, messages)
        /\ e.more = run.more
        /\ e.flow.requests = Tail(q) /\ e.events = run.events
        /\ e.lost = run.lost \union {<<f, Head(q)>>}

\* What process does with a response: it ends the loop with nothing changed, skips an
\* interim response, reports the oldest request, or loses it with its response.
LEMMA AnswerIs ==
  ASSUME NEW f, NEW run \in Runs(Traffic[f]), NEW taken,
         NEW e, e = Answer(f, run, taken)
  PROVE  Answered(f, run, taken, e)
<1> DEFINE q == run.flow.requests
           messages == Traffic[f].server
           response == taken.message[1][1]
<1>1. PICK flow \in FlowsOf(Traffic[f]) : flow = run.flow
  BY DEF Runs
<1>2. PICK d \in Directions(UnitsOf(messages)) : d = flow.server
  BY DEF FlowsOf
<1>5. PICK c : c = [d EXCEPT !.stream = taken.stream]
  OBVIOUS
<1>6. SameBut(d, c, taken.stream)
  BY <1>5 DEF SameBut, Directions
<1>7. PICK g : g = [flow EXCEPT !.server = c]
  OBVIOUS
<1>8. g.server = c /\ g.client = flow.client /\ g.requests = flow.requests
  BY <1>7 DEF FlowsOf
<1>9. PICK drained : drained = [run EXCEPT !.flow = g]
  OBVIOUS
<1>10. /\ drained.flow = g /\ drained.events = run.events /\ drained.queued = run.queued
       /\ drained.lost = run.lost /\ drained.more = run.more
  BY <1>9 DEF Runs
<1>12. drained = [run EXCEPT !.flow.server.stream = taken.stream]
  BY <1>1, <1>2, <1>5, <1>7, <1>9
<1>13. PICK answered : answered = [drained EXCEPT !.flow.requests = Tail(@)]
  OBVIOUS
<1>14. PICK h : h = [g EXCEPT !.requests = Tail(q)]
  OBVIOUS
<1>15. h.client = flow.client /\ h.server = c /\ h.requests = Tail(q)
  BY <1>7, <1>8, <1>14 DEF FlowsOf
<1>16. answered = [drained EXCEPT !.flow = h]
  BY <1>1, <1>8, <1>10, <1>13, <1>14
<1>17. /\ answered.flow = h /\ answered.events = run.events /\ answered.queued = run.queued
       /\ answered.lost = run.lost /\ answered.more = run.more
  BY <1>9, <1>10, <1>16 DEF Runs
<1>18. PICK event : event = Event(f, Head(q), response, taken.message)
  OBVIOUS
<1>19. e = IF taken.message = <<>> THEN [drained EXCEPT !.more = FALSE]
           ELSE IF Parses(taken.message, messages) /\ Interim(messages[response].status)
                THEN drained
           ELSE IF q = <<>> THEN drained
           ELSE IF Parses(taken.message, messages)
                THEN [answered EXCEPT !.events = Append(@, event)]
                ELSE [answered EXCEPT !.lost = @ \union {<<f, Head(q)>>}]
  BY <1>12, <1>13, <1>18 DEF Answer
<1>20. CASE taken.message = <<>>
  <2>1. e = [drained EXCEPT !.more = FALSE]
    BY <1>19, <1>20
  <2>2. e.flow = g /\ e.events = run.events /\ e.queued = run.queued /\ e.lost = run.lost /\ ~e.more
    BY <1>9, <1>10, <2>1 DEF Runs
  <2>3. QED
    BY <1>1, <1>2, <1>6, <1>8, <1>20, <2>2 DEF Answered
<1>21. CASE /\ taken.message # <<>>
            /\ \/ q = <<>>
               \/ Parses(taken.message, messages) /\ Interim(messages[response].status)
  <2>1. e = drained
    BY <1>19, <1>21
  <2>2. QED
    BY <1>1, <1>2, <1>6, <1>8, <1>10, <1>21, <2>1 DEF Answered
<1>22. CASE /\ taken.message # <<>> /\ q # <<>> /\ Parses(taken.message, messages)
            /\ ~Interim(messages[response].status)
  <2>1. PICK longer : longer = Append(run.events, event)
    OBVIOUS
  <2>2. e = [answered EXCEPT !.events = longer]
    BY <1>17, <1>19, <1>22, <2>1
  <2>3. e.flow = h /\ e.events = longer /\ e.queued = run.queued /\ e.lost = run.lost
        /\ e.more = run.more
    BY <1>9, <1>16, <1>17, <2>2 DEF Runs
  <2>4. QED
    BY <1>1, <1>2, <1>6, <1>15, <1>18, <1>22, <2>1, <2>3 DEF Answered
<1>23. CASE taken.message # <<>> /\ q # <<>> /\ ~Parses(taken.message, messages)
  <2>1. PICK more : more = run.lost \union {<<f, Head(q)>>}
    OBVIOUS
  <2>2. e = [answered EXCEPT !.lost = more]
    BY <1>17, <1>19, <1>23, <2>1
  <2>3. e.flow = h /\ e.events = run.events /\ e.queued = run.queued /\ e.lost = more
        /\ e.more = run.more
    BY <1>9, <1>16, <1>17, <2>2 DEF Runs
  <2>4. QED
    BY <1>1, <1>2, <1>6, <1>15, <1>23, <2>1, <2>3 DEF Answered
<1>24. QED
  BY <1>20, <1>21, <1>22, <1>23

\* Cutting a stream moves its first position on, by what is cut.
Cut(w, p, d, e) ==
  /\ SameBut(d, e, e.stream) /\ EndsIn(w, e.stream, p) /\ Len(e.stream) <= Len(d.stream)

\* The requests the client's loop queues start behind position from, the others
\* in front of it, and the queue is in the order of the wire.
ClientRuns(f, w, p, flow) ==
  {run \in GoodRuns(f, flow) :
     LET d == run.flow.client
         requests == run.flow.requests IN
     /\ run.events = <<>> /\ run.lost = {}
     /\ run.flow.server = flow.server
     /\ Cut(w, p, flow.client, d)
     /\ Increasing(requests)
     /\ \A k \in 1..Len(requests) : StartsIn(w, requests[k], 0, p - Len(d.stream))
     /\ \A x \in run.queued :
          \E r \in Nat : x = <<f, r>>
                         /\ StartsIn(w, r, p - Len(flow.client.stream), p - Len(d.stream))}

\* A turn of parse_requests keeps the invariant of its loop: it queues the request whose
\* first unit is where the stream began.
LEMMA RequestTurnOrders ==
  ASSUME NEW f, Carries(f), NEW flow,
         NEW w, w = Units(Traffic[f].client), NEW p \in 0..Len(w),
         Len(flow.client.stream) \in Nat,
         NEW run \in ClientRuns(f, w, p, flow),
         NEW e, e = RequestTurn(f, run)
  PROVE  e \in ClientRuns(f, w, p, flow)
<1> DEFINE messages == Traffic[f].client
           U == UnitsOf(messages)
           stream == run.flow.client.stream
           requests == run.flow.requests
<1>1. run \in GoodRuns(f, flow) /\ run \in Runs(Traffic[f]) /\ FlowInBudget(run.flow)
  BY DEF ClientRuns, GoodRuns
<1>2. e \in GoodRuns(f, flow)
  BY <1>1, RequestTurnKeeps
<1>3. PICK taken : taken = TakeMessage(stream, messages, TRUE, FALSE, FALSE)
  OBVIOUS
<1>4. /\ SameBut(run.flow.client, e.flow.client, taken.stream)
      /\ e.flow.server = run.flow.server /\ e.events = run.events /\ e.lost = run.lost
      /\ \/ e.flow.requests = requests /\ e.queued = run.queued
         \/ /\ taken.message # <<>> /\ Parses(taken.message, messages)
            /\ e.flow.requests = Append(requests, taken.message[1][1])
            /\ e.queued = run.queued \union {<<f, taken.message[1][1]>>}
  <2>1. RequestTurned(f, run, taken, e)
    BY <1>1, <1>3, RequestTurnIs
  <2>2. QED
    BY <2>1 DEF RequestTurned
<1>5. messages \in Seq(Messages) /\ stream \in Seq(U) /\ requests \in Seq(1..Len(messages))
      /\ Len(messages) \in Nat
  BY <1>1 DEF Carries, Runs, FlowsOf, Directions
<1>6. w \in Seq(U)
  BY <1>5, UnitsShape
<1>7. /\ run.events = <<>> /\ run.lost = {}
      /\ run.flow.server = flow.server
      /\ Cut(w, p, flow.client, run.flow.client)
      /\ Increasing(requests)
      /\ \A k \in 1..Len(requests) : StartsIn(w, requests[k], 0, p - Len(stream))
      /\ \A x \in run.queued :
           \E r \in Nat : x = <<f, r>>
                          /\ StartsIn(w, r, p - Len(flow.client.stream), p - Len(stream))
  BY DEF ClientRuns
<1>8. PICK rest \in Seq(U) : rest = taken.stream
  BY <1>3, <1>5, TakeMessageShape
<1>9. PICK message \in Seq(U) : message = taken.message
  BY <1>3, <1>5, TakeMessageShape
<1>10. (message = <<>> /\ rest = <<>>) \/ Joined(message, rest, stream)
  BY <1>3, <1>5, <1>8, <1>9, TakeMessageCuts
<1>11. EndsIn(w, stream, p) /\ Len(stream) <= Len(flow.client.stream)
       /\ SameBut(flow.client, run.flow.client, stream)
  BY <1>7 DEF Cut
<1> HIDE DEF messages, U, stream, requests
<1>a. p \in Nat /\ Len(w) \in Nat
  BY <1>6
<1>12. /\ EndsIn(w, rest, p) /\ Len(rest) <= Len(stream)
       /\ message # <<>> => /\ Len(rest) < Len(stream)
                            /\ message[1] = w[p - Len(stream) + 1]
  <2>1. p \in Nat /\ stream \in Seq(U) /\ EndsIn(w, stream, p)
    BY <1>5, <1>11, <1>a
  <2>2. QED
    BY <1>10, <2>1, CutEndsIn, SMTT(60)
<1>13. PICK n \in Nat : n = Len(stream) /\ n <= p
  <2>1. Len(stream) \in Nat
    BY <1>5
  <2>2. Len(stream) <= p
    BY <1>11 DEF EndsIn
  <2>3. QED
    BY <2>1, <2>2
<1>14. PICK m \in Nat : m = Len(rest) /\ m <= n
  BY <1>8, <1>12, <1>13
<1>15. e.flow.client.stream = rest /\ Cut(w, p, flow.client, e.flow.client)
  <2>1. e.flow.client.stream = rest /\ SameBut(flow.client, e.flow.client, rest)
    BY <1>4, <1>8, <1>11 DEF SameBut, stream
  <2>2. Len(rest) <= Len(flow.client.stream)
    BY <1>11, <1>13, <1>14
  <2>3. QED
    BY <1>12, <2>1, <2>2 DEF Cut
<1>16. \A r, lo : StartsIn(w, r, lo, p - n) => StartsIn(w, r, lo, p - m)
  <2>1. SUFFICES ASSUME NEW r, NEW lo, NEW q \in lo+1..p-n, w[q] = <<r, 0>>
                 PROVE  StartsIn(w, r, lo, p - m)
    BY DEF StartsIn
  <2>2. q \in lo+1..p-m
    BY <1>a, <1>13, <1>14
  <2>3. QED
    BY <2>1, <2>2 DEF StartsIn
<1>17. \A k \in 1..Len(requests) : StartsIn(w, requests[k], 0, p - m)
  BY <1>7, <1>13, <1>16
<1>18. \A x \in run.queued :
         \E r \in Nat : x = <<f, r>> /\ StartsIn(w, r, p - Len(flow.client.stream), p - m)
  BY <1>7, <1>13, <1>16
<1>19. CASE e.flow.requests = requests /\ e.queued = run.queued
  <2>1. /\ e.events = <<>> /\ e.lost = {} /\ e.flow.server = flow.server
    BY <1>4, <1>7
  <2>2. QED
    BY <1>2, <1>7, <1>14, <1>15, <1>17, <1>18, <1>19, <2>1 DEF ClientRuns
<1>20. CASE /\ message # <<>> /\ Parses(message, messages)
            /\ e.flow.requests = Append(requests, message[1][1])
            /\ e.queued = run.queued \union {<<f, message[1][1]>>}
  <2>1. PICK r \in 1..Len(messages) : r = message[1][1]
    BY <1>9, <1>20, TakenIsOne DEF U
  <2>2. message[1] = <<r, 0>>
    <3>1. PICK x : x = message[1]
      OBVIOUS
    <3>2. x \in U
      BY <1>9, <1>20, <3>1
    <3>3. x \in (1..Len(messages)) \X Nat
      BY <3>2 DEF U, UnitsOf, messages
    <3>4. x[1] = r /\ x[2] = 0
      BY <1>20, <2>1, <3>1 DEF Parses
    <3>5. QED
      BY <3>1, <3>3, <3>4
  <2>3. m < n /\ p - n + 1 \in 1..p /\ p - n + 1 \in p-n+1..p-m
    BY <1>12, <1>13, <1>14, <1>20
  <2>4. w[p - n + 1] = <<r, 0>>
    BY <1>12, <1>13, <1>20, <2>2
  <2>5. ASSUME NEW k \in 1..Len(requests) PROVE requests[k] < r
    <3>1. PICK q \in 0+1..p-n : w[q] = <<requests[k], 0>>
      BY <1>7, <1>13 DEF StartsIn
    <3>2. q \in 1..Len(w) /\ p - n + 1 \in 1..Len(w) /\ q < p - n + 1
      BY <1>6, <1>13, <2>3
    <3>3. QED
      BY <1>5, <2>4, <3>1, <3>2, LaterMessage DEF messages
  <2>6. r \in Nat /\ requests \in Seq(Nat) /\ Len(requests) \in Nat
    BY <1>5, <2>1, RequestsShape, <1>1 DEF requests, Runs
  <2>7. PICK longer : longer = Append(requests, r)
    OBVIOUS
  <2>8. Increasing(longer)
    BY <1>7, <2>5, <2>6, <2>7, IncreasingAppend
  <2>9. p \in Nat /\ p - Len(flow.client.stream) + 1 <= p - n + 1 /\ 0 + 1 <= p - n + 1
    BY <1>11, <1>13, <1>a
  <2>10. p - n + 1 \in 0+1..p-m /\ p - n + 1 \in p-Len(flow.client.stream)+1..p-m
    BY <2>3, <2>9
  <2>11. /\ StartsIn(w, r, 0, p - m)
         /\ StartsIn(w, r, p - Len(flow.client.stream), p - m)
    BY <2>4, <2>10 DEF StartsIn
  <2>12. \A k \in 1..Len(longer) : StartsIn(w, longer[k], 0, p - m)
    <3>1. PICK y \in Nat : y = Len(requests)
      BY <2>6
    <3>2. Len(longer) = y + 1 /\ longer[y + 1] = r /\ \A k \in 1..y : longer[k] = requests[k]
      BY <2>6, <2>7, <3>1
    <3>3. \A k \in 1..y+1 : k \in 1..y \/ k = y + 1
      BY <3>1
    <3>4. QED
      BY <1>17, <2>11, <3>1, <3>2, <3>3
  <2>13. \A x \in e.queued :
           \E b \in Nat : x = <<f, b>> /\ StartsIn(w, b, p - Len(flow.client.stream), p - m)
    BY <1>18, <1>20, <2>1, <2>6, <2>11
  <2>14. e.flow.requests = longer
    BY <1>20, <2>1, <2>7
  <2>15. e.events = <<>> /\ e.lost = {} /\ e.flow.server = flow.server
    BY <1>4, <1>7
  <2>16. QED
    BY <1>2, <1>14, <1>15, <2>8, <2>12, <2>13, <2>14, <2>15 DEF ClientRuns
<1>21. QED
  BY <1>4, <1>9, <1>19, <1>20

\* The events of a connection are in the order of its requests.
InTurn(es) ==
  \A i, j \in 1..Len(es) : i < j /\ es[i].flow = es[j].flow => es[i].request < es[j].request

\* The requests of a set come before those of a queue.
Behind(f, done, requests) ==
  \A r : <<f, r>> \in done => \A k \in 1..Len(requests) : r < requests[k]

\* Events in turn, followed by events in turn of later requests, are in turn.
LEMMA InTurnConcat ==
  ASSUME NEW s \in Seq(Events), NEW t \in Seq(Events), InTurn(s), InTurn(t),
         \A f, a, b : <<f, a>> \in Reported(s) /\ <<f, b>> \in Reported(t) => a < b
  PROVE  InTurn(s \o t)
<1>1. PICK m \in Nat : m = Len(s)
  OBVIOUS
<1>2. PICK n \in Nat : n = Len(t)
  OBVIOUS
<1>3. PICK u : u = s \o t
  OBVIOUS
<1>4. Len(u) = m + n /\ (\A i \in 1..m : u[i] = s[i]) /\ (\A i \in 1..n : u[m + i] = t[i])
  BY <1>1, <1>2, <1>3
<1>5. ASSUME NEW i \in 1..m+n PROVE i \in 1..m \/ \E k \in 1..n : i = m + k
  <2>1. CASE i <= m
    BY <2>1
  <2>2. CASE ~(i <= m)
    <3>1. i - m \in 1..n /\ i = m + (i - m)
      BY <2>2
    <3>2. QED
      BY <3>1
  <2>3. QED
    BY <2>1, <2>2
<1>6. SUFFICES ASSUME NEW i \in 1..m+n, NEW j \in 1..m+n, i < j, u[i].flow = u[j].flow
               PROVE  u[i].request < u[j].request
  BY <1>3, <1>4 DEF InTurn
<1>7. CASE i \in 1..m /\ j \in 1..m
  BY <1>1, <1>4, <1>6, <1>7 DEF InTurn
<1>8. CASE i \in 1..m /\ j \notin 1..m
  <2>1. PICK k \in 1..n : j = m + k
    BY <1>5, <1>8
  <2>2. u[i] = s[i] /\ u[j] = t[k]
    BY <1>4, <1>8, <2>1
  <2>3. /\ <<s[i].flow, s[i].request>> \in Reported(s)
        /\ <<t[k].flow, t[k].request>> \in Reported(t)
    BY <1>1, <1>2, <1>8 DEF Reported
  <2>4. QED
    BY <1>6, <2>2, <2>3
<1>9. CASE i \notin 1..m
  <2>1. PICK k \in 1..n : i = m + k
    BY <1>5, <1>9
  <2>2. j \notin 1..m
    BY <1>6, <2>1
  <2>3. PICK l \in 1..n : j = m + l
    BY <1>5, <2>2
  <2>4. k < l /\ u[i] = t[k] /\ u[j] = t[l]
    BY <1>4, <1>6, <2>1, <2>3
  <2>5. QED
    BY <1>2, <1>6, <2>4 DEF InTurn
<1>10. QED
  BY <1>7, <1>8, <1>9

\* Events in turn, and one of a later request, are in turn.
LEMMA InTurnAppend ==
  ASSUME NEW s \in Seq(Events), InTurn(s), NEW e \in Events,
         \A r : <<e.flow, r>> \in Reported(s) => r < e.request
  PROVE  InTurn(Append(s, e))
<1>1. PICK t : t = <<e>>
  OBVIOUS
<1>2. t \in Seq(Events) /\ Len(t) = 1 /\ t[1] = e
  BY <1>1
<1>3. InTurn(t)
  <2>1. \A i, j \in 1..1 : ~(i < j)
    OBVIOUS
  <2>2. QED
    BY <1>2, <2>1 DEF InTurn
<1>4. \A x \in Reported(t) : x = <<e.flow, e.request>>
  <2>1. \A i \in 1..1 : i = 1
    OBVIOUS
  <2>2. QED
    BY <1>2, <2>1 DEF Reported
<1>5. \A f, a, b : <<f, a>> \in Reported(s) /\ <<f, b>> \in Reported(t) => a < b
  <2>1. SUFFICES ASSUME NEW f, NEW a, NEW b, <<f, a>> \in Reported(s), <<f, b>> \in Reported(t)
                 PROVE  a < b
    OBVIOUS
  <2>2. <<f, b>> = <<e.flow, e.request>>
    BY <1>4, <2>1
  <2>3. f = e.flow /\ b = e.request
    BY <2>2
  <2>4. QED
    BY <2>1, <2>3
<1>6. InTurn(s \o t)
  BY <1>2, <1>3, <1>5, InTurnConcat
<1>7. Append(s, e) = s \o t
  BY <1>1
<1>8. QED
  BY <1>6, <1>7

\* The server's loop takes requests from the front of the queue; p is the position
\* up to which the server's stream goes.
ServerRuns(f, w, p, flow) ==
  {run \in GoodRuns(f, flow) :
     LET requests == run.flow.requests
         done == run.lost \union Reported(run.events) IN
     /\ run.queued = {}
     /\ run.flow.client = flow.client
     /\ Cut(w, p, flow.server, run.flow.server)
     /\ Increasing(requests)
     /\ InTurn(run.events)
     /\ run.lost \intersect Reported(run.events) = {}
     /\ Behind(f, done, requests)
     /\ done \subseteq {f} \X Nat}

\* A turn of parse_responses keeps the invariant of its loop: it settles the oldest
\* request of the queue, and the ones left come after it.
LEMMA ResponseTurnOrders ==
  ASSUME NEW f, Carries(f), NEW fin, NEW flow,
         NEW w \in Seq(UnitsOf(Traffic[f].server)), NEW p \in 0..Len(w),
         Len(flow.server.stream) \in Nat,
         NEW run \in ServerRuns(f, w, p, flow),
         NEW e, e = ResponseTurn(f, fin, run)
  PROVE  e \in ServerRuns(f, w, p, flow)
<1> DEFINE messages == Traffic[f].server
           U == UnitsOf(messages)
           stream == run.flow.server.stream
           q == run.flow.requests
           afterHead == /\ q # <<>>
                        /\ Traffic[f].client[Head(q)].method = "HEAD"
<1>1. run \in GoodRuns(f, flow) /\ run \in Runs(Traffic[f]) /\ FlowInBudget(run.flow)
  BY DEF ServerRuns, GoodRuns
<1>2. e \in GoodRuns(f, flow) /\ e \in Runs(Traffic[f])
  BY <1>1, ResponseTurnKeeps DEF GoodRuns
<1>3. PICK taken : taken = TakeMessage(stream, messages, FALSE, afterHead, fin)
  OBVIOUS
<1>4. e = Answer(f, run, taken)
  BY <1>3 DEF ResponseTurn
<1>5. Answered(f, run, taken, e)
  BY <1>1, <1>4, AnswerIs
<1> HIDE DEF afterHead
<1>6. messages \in Seq(Messages) /\ stream \in Seq(U)
  BY <1>1 DEF Carries, Runs, FlowsOf, Directions
<1>7. /\ run.queued = {} /\ run.flow.client = flow.client
      /\ Cut(w, p, flow.server, run.flow.server)
      /\ Increasing(q)
      /\ InTurn(run.events)
      /\ run.lost \intersect Reported(run.events) = {}
      /\ Behind(f, run.lost \union Reported(run.events), q)
      /\ run.lost \union Reported(run.events) \subseteq {f} \X Nat
  BY DEF ServerRuns
<1>8. PICK rest \in Seq(U) : rest = taken.stream
  BY <1>3, <1>6, TakeMessageShape
<1>9. PICK message \in Seq(U) : message = taken.message
  BY <1>3, <1>6, TakeMessageShape
<1>10. (message = <<>> /\ rest = <<>>) \/ Joined(message, rest, stream)
  BY <1>3, <1>6, <1>8, <1>9, TakeMessageCuts
<1>11. EndsIn(w, stream, p) /\ Len(stream) <= Len(flow.server.stream)
       /\ SameBut(flow.server, run.flow.server, stream)
  BY <1>7 DEF Cut
<1> HIDE DEF messages, U, stream, q
<1>12. p \in Nat /\ Len(w) \in Nat
  OBVIOUS
<1>13. EndsIn(w, rest, p) /\ Len(rest) <= Len(stream)
  <2>1. stream \in Seq(U) /\ EndsIn(w, stream, p)
    BY <1>6, <1>11
  <2>2. QED
    BY <1>10, <1>12, <2>1, CutEndsIn
<1>14. Len(rest) <= Len(flow.server.stream)
  <2>1. Len(stream) \in Nat /\ Len(rest) \in Nat
    BY <1>6
  <2>2. QED
    BY <1>11, <1>13, <2>1
<1>15. Cut(w, p, flow.server, e.flow.server)
  <2>1. SameBut(run.flow.server, e.flow.server, rest)
    BY <1>5, <1>8 DEF Answered
  <2>2. e.flow.server.stream = rest /\ SameBut(flow.server, e.flow.server, rest)
    BY <1>11, <2>1 DEF SameBut
  <2>3. QED
    BY <1>13, <1>14, <2>2 DEF Cut
<1>16. e.queued = {} /\ e.flow.client = flow.client
  BY <1>5, <1>7 DEF Answered
<1>17. q \in Seq(Nat)
  BY <1>1, RequestsShape DEF Runs, q
<1>18. PICK es \in Seq(Events) : es = run.events
  BY <1>1 DEF Runs
<1>19. CASE e.flow.requests = q /\ e.events = run.events /\ e.lost = run.lost
  BY <1>2, <1>7, <1>15, <1>16, <1>19 DEF ServerRuns
<1>20. ASSUME q # <<>>
       PROVE  /\ Head(q) \in Nat /\ Increasing(Tail(q))
              /\ \A r : <<f, r>> \in run.lost \union Reported(es) => r < Head(q)
              /\ Behind(f, run.lost \union Reported(es) \union {<<f, Head(q)>>}, Tail(q))
  <2>1. PICK t : t = Tail(q)
    OBVIOUS
  <2>2. /\ Increasing(t) /\ Len(q) \in Nat \ {0} /\ Len(t) = Len(q) - 1 /\ Head(q) = q[1]
        /\ \A k \in 1..Len(q)-1 : t[k] = q[k + 1] /\ Head(q) < t[k]
    BY <1>7, <1>17, <1>20, <2>1, IncreasingTail
  <2>3. 1 \in 1..Len(q) /\ \A k \in 1..Len(t) : k \in 1..Len(q)-1 /\ k + 1 \in 1..Len(q)
    BY <2>2
  <2>4. Head(q) \in Nat
    BY <1>17, <2>2, <2>3
  <2>5. \A r : <<f, r>> \in run.lost \union Reported(es) => r < Head(q)
    BY <1>7, <1>18, <2>2, <2>3 DEF Behind
  <2>6. ASSUME NEW r, <<f, r>> \in run.lost \union Reported(es) \union {<<f, Head(q)>>},
               NEW k \in 1..Len(t)
        PROVE  r < t[k]
    <3>1. CASE <<f, r>> \in run.lost \union Reported(es)
      <4>1. r < q[k + 1]
        BY <1>7, <1>18, <2>3, <3>1 DEF Behind
      <4>2. QED
        BY <2>2, <2>3, <4>1
    <3>2. CASE <<f, r>> = <<f, Head(q)>>
      <4>1. r = Head(q)
        BY <3>2
      <4>2. QED
        BY <2>2, <2>3, <4>1
    <3>3. QED
      BY <2>6, <3>1, <3>2
  <2>7. QED
    BY <2>1, <2>2, <2>4, <2>5, <2>6 DEF Behind
<1>21. CASE /\ q # <<>> /\ e.flow.requests = Tail(q) /\ e.lost = run.lost
            /\ e.events = Append(run.events, Event(f, Head(q), message[1][1], message))
  <2>1. PICK event : event = Event(f, Head(q), message[1][1], message)
    OBVIOUS
  <2>2. PICK longer : longer = Append(es, event)
    OBVIOUS
  <2>3. e.events = longer
    BY <1>18, <1>21, <2>1, <2>2
  <2>4. longer \in Seq(Events) /\ event.flow = f /\ event.request = Head(q)
    BY <1>2, <2>1, <2>3 DEF Runs, Event
  <2>5. event \in Events
    <3>1. PICK n \in Nat : n = Len(es)
      OBVIOUS
    <3>2. Len(longer) = n + 1 /\ longer[n + 1] = event
      BY <2>2, <3>1
    <3>3. QED
      BY <2>4, <3>1, <3>2
  <2>6. InTurn(longer)
    BY <1>7, <1>18, <1>20, <1>21, <2>2, <2>4, <2>5, InTurnAppend
  <2>7. Reported(longer) = Reported(es) \union {<<f, Head(q)>>}
    BY <2>2, <2>4, <2>5, ReportedAppend
  <2>8. e.lost \intersect Reported(e.events) = {}
    <3>1. <<f, Head(q)>> \notin run.lost
      BY <1>20, <1>21
    <3>2. QED
      BY <1>7, <1>18, <1>21, <2>3, <2>7, <3>1
  <2>9. Behind(f, e.lost \union Reported(e.events), e.flow.requests)
    <3>1. e.lost \union Reported(e.events) = run.lost \union Reported(es) \union {<<f, Head(q)>>}
      BY <1>21, <2>3, <2>7
    <3>2. QED
      BY <1>20, <1>21, <3>1
  <2>10. e.lost \union Reported(e.events) \subseteq {f} \X Nat
    <3>1. <<f, Head(q)>> \in {f} \X Nat
      BY <1>20, <1>21
    <3>2. run.lost \union Reported(es) \subseteq {f} \X Nat
      BY <1>7, <1>18
    <3>3. e.lost = run.lost /\ Reported(e.events) = Reported(es) \union {<<f, Head(q)>>}
      BY <1>21, <2>3, <2>7
    <3>4. QED
      BY <3>1, <3>2, <3>3
  <2>11. QED
    BY <1>2, <1>15, <1>16, <1>20, <1>21, <2>3, <2>6, <2>8, <2>9, <2>10 DEF ServerRuns
<1>22. CASE /\ q # <<>> /\ e.flow.requests = Tail(q) /\ e.events = run.events
            /\ e.lost = run.lost \union {<<f, Head(q)>>}
  <2>1. <<f, Head(q)>> \notin Reported(es)
    BY <1>20, <1>22
  <2>2. e.lost \intersect Reported(e.events) = {}
    BY <1>7, <1>18, <1>22, <2>1
  <2>3. Behind(f, e.lost \union Reported(e.events), e.flow.requests)
    <3>1. e.lost \union Reported(e.events) = run.lost \union Reported(es) \union {<<f, Head(q)>>}
      BY <1>18, <1>22
    <3>2. QED
      BY <1>20, <1>22, <3>1
  <2>4. e.lost \union Reported(e.events) \subseteq {f} \X Nat
    BY <1>7, <1>20, <1>22
  <2>5. QED
    BY <1>2, <1>7, <1>15, <1>16, <1>20, <1>22, <2>2, <2>3, <2>4 DEF ServerRuns
<1>23. QED
  <2>1. \/ e.flow.requests = q /\ e.events = run.events /\ e.lost = run.lost
        \/ /\ q # <<>> /\ e.flow.requests = Tail(q) /\ e.lost = run.lost
           /\ e.events = Append(run.events, Event(f, Head(q), message[1][1], message))
        \/ /\ q # <<>> /\ e.flow.requests = Tail(q) /\ e.events = run.events
           /\ e.lost = run.lost \union {<<f, Head(q)>>}
    BY <1>5, <1>9 DEF Answered, q
  <2>2. QED
    BY <1>19, <1>21, <1>22, <2>1

\* A loop begins with nothing done.
LEMMA RunningShape ==
  ASSUME NEW f, NEW flow \in FlowsOf(Traffic[f]), FlowInBudget(flow),
         NEW run, run = Running(flow)
  PROVE  /\ run \in GoodRuns(f, flow)
         /\ run.flow = flow /\ run.events = <<>> /\ run.queued = {} /\ run.lost = {}
         /\ run.more
<1>1. /\ run.flow = flow /\ run.events = <<>> /\ run.queued = {} /\ run.lost = {}
      /\ run.more /\ run \in Runs(Traffic[f])
  <2>1. <<>> \in Seq(Events)
    OBVIOUS
  <2>2. QED
    BY <2>1 DEF Running, Runs
<1>2. Conserved(f, flow, run)
  BY <1>1, NoneReported DEF Conserved
<1>3. QED
  BY <1>1, <1>2 DEF GoodRuns

\* What the client's loop ends with.
LEMMA ClientParses ==
  ASSUME NEW f, Carries(f), NEW fin, NEW flow \in FlowsOf(Traffic[f]), FlowInBudget(flow),
         NEW w, w = Units(Traffic[f].client), NEW p \in 0..Len(w),
         EndsIn(w, flow.client.stream, p),
         Increasing(flow.requests),
         \A k \in 1..Len(flow.requests) :
           StartsIn(w, flow.requests[k], 0, p - Len(flow.client.stream)),
         NEW e, e = Parse(f, "client", fin, flow)
  PROVE  e \in ClientRuns(f, w, p, flow)
<1>1. PICK Good : Good = ClientRuns(f, w, p, flow)
  OBVIOUS
<1>2. Len(flow.client.stream) \in Nat
  BY DEF FlowsOf, Directions
<1>3. PICK run : run = Running(flow)
  OBVIOUS
<1>4. /\ run \in GoodRuns(f, flow)
      /\ run.flow = flow /\ run.events = <<>> /\ run.queued = {} /\ run.lost = {}
  BY <1>3, RunningShape
<1>5. Cut(w, p, flow.client, flow.client)
  BY <1>2 DEF Cut, SameBut
<1>6. run \in Good
  BY <1>1, <1>4, <1>5 DEF ClientRuns
<1>7. \A x \in Good : LoopTurn(f, "client", fin, x) \in Good
  <2>1. SUFFICES ASSUME NEW x \in Good PROVE LoopTurn(f, "client", fin, x) \in Good
    OBVIOUS
  <2>2. PICK y : y = RequestTurn(f, x)
    OBVIOUS
  <2>3. x \in ClientRuns(f, w, p, flow)
    BY <1>1
  <2>4. y \in ClientRuns(f, w, p, flow)
    BY <1>2, <2>2, <2>3, RequestTurnOrders
  <2>5. QED
    BY <1>1, <2>2, <2>4 DEF LoopTurn
<1>8. PICK side : side = "client"
  OBVIOUS
<1>9. Len(flow[side].stream) \in Nat /\ Running(flow) \in Good
      /\ (\A x \in Good : x.more => LoopTurn(f, side, fin, x) \in Good)
      /\ e = Parse(f, side, fin, flow)
  BY <1>2, <1>3, <1>6, <1>7, <1>8
<1>10. e \in Good
  BY <1>9, ParseLoop
<1>11. QED
  BY <1>1, <1>10

\* What the server's loop ends with.
LEMMA ServerParses ==
  ASSUME NEW f, Carries(f), NEW fin, NEW flow \in FlowsOf(Traffic[f]), FlowInBudget(flow),
         NEW w \in Seq(UnitsOf(Traffic[f].server)), NEW p \in 0..Len(w),
         EndsIn(w, flow.server.stream, p),
         Increasing(flow.requests),
         NEW e, e = Parse(f, "server", fin, flow)
  PROVE  e \in ServerRuns(f, w, p, flow)
<1>1. PICK Good : Good = ServerRuns(f, w, p, flow)
  OBVIOUS
<1>2. Len(flow.server.stream) \in Nat
  BY DEF FlowsOf, Directions
<1>3. PICK run : run = Running(flow)
  OBVIOUS
<1>4. /\ run \in GoodRuns(f, flow)
      /\ run.flow = flow /\ run.events = <<>> /\ run.queued = {} /\ run.lost = {}
  BY <1>3, RunningShape
<1>5. Cut(w, p, flow.server, flow.server)
  BY <1>2 DEF Cut, SameBut
<1>6. run \in Good
  <2>1. Reported(run.events) = {}
    BY <1>4, NoneReported
  <2>2. InTurn(run.events)
    <3>1. Len(run.events) = 0 /\ 1..0 = {}
      BY <1>4
    <3>2. QED
      BY <3>1 DEF InTurn
  <2>3. Behind(f, run.lost \union Reported(run.events), run.flow.requests)
    BY <1>4, <2>1 DEF Behind
  <2>4. QED
    BY <1>1, <1>4, <1>5, <2>1, <2>2, <2>3 DEF ServerRuns
<1>7. \A x \in Good : LoopTurn(f, "server", fin, x) \in Good
  <2>1. SUFFICES ASSUME NEW x \in Good PROVE LoopTurn(f, "server", fin, x) \in Good
    OBVIOUS
  <2>2. PICK y : y = ResponseTurn(f, fin, x)
    OBVIOUS
  <2>3. x \in ServerRuns(f, w, p, flow)
    BY <1>1
  <2>4. y \in ServerRuns(f, w, p, flow)
    BY <1>2, <2>2, <2>3, ResponseTurnOrders
  <2>5. QED
    BY <1>1, <2>2, <2>4 DEF LoopTurn
<1>8. PICK side : side = "server"
  OBVIOUS
<1>9. Len(flow[side].stream) \in Nat /\ Running(flow) \in Good
      /\ (\A x \in Good : x.more => LoopTurn(f, side, fin, x) \in Good)
      /\ e = Parse(f, side, fin, flow)
  BY <1>2, <1>3, <1>6, <1>7, <1>8
<1>10. e \in Good
  BY <1>9, ParseLoop
<1>11. QED
  BY <1>1, <1>10

\* The queue of a flow is as its requests are.
LEMMA QueueBehind ==
  ASSUME NEW f, NEW flow, flow.requests \in Seq(Nat), NEW done, Behind(f, done, flow.requests)
  PROVE  /\ \A g, a, b : <<g, a>> \in done /\ <<g, b>> \in QueuedIn(f, flow) => a < b
         /\ QueuedIn(f, flow) \intersect done = {}
<1>1. ASSUME NEW x \in QueuedIn(f, flow)
      PROVE  \E b \in Nat : x = <<f, b>> /\ \A a : <<f, a>> \in done => a < b
  <2>1. PICK k \in 1..Len(flow.requests) : x = <<f, flow.requests[k]>>
    BY <1>1 DEF QueuedIn
  <2>2. flow.requests[k] \in Nat
    OBVIOUS
  <2>3. QED
    BY <2>1, <2>2 DEF Behind
<1>2. ASSUME NEW g, NEW a, NEW c, <<g, a>> \in done, <<g, c>> \in QueuedIn(f, flow)
      PROVE  a < c
  <2>1. PICK b \in Nat : <<g, c>> = <<f, b>> /\ \A y : <<f, y>> \in done => y < b
    BY <1>1, <1>2
  <2>2. g = f /\ c = b
    BY <2>1
  <2>3. QED
    BY <1>2, <2>1, <2>2
<1>3. ASSUME NEW x \in QueuedIn(f, flow), x \in done PROVE FALSE
  <2>1. PICK b \in Nat : x = <<f, b>> /\ \A y : <<f, y>> \in done => y < b
    BY <1>1, <1>3
  <2>2. b < b
    BY <1>3, <2>1
  <2>3. QED
    BY <2>1, <2>2
<1>4. QED
  BY <1>2, <1>3

\* The events of a queue are in its order.
LEMMA IncompleteInTurn ==
  ASSUME NEW f \in Flows, NEW flow, flow.requests \in Seq(Nat), Increasing(flow.requests),
         NEW es, es = Incomplete(f, flow)
  PROVE  InTurn(es)
<1>1. PICK q \in Seq(Nat) : q = flow.requests
  OBVIOUS
<1>2. PICK n \in Nat : n = Len(q)
  OBVIOUS
<1>3. es = [i \in 1..n |-> Event(f, q[i], 0, <<>>)]
  BY <1>1, <1>2 DEF Incomplete
<1>4. Len(es) = n
  <2>1. DOMAIN es = 1..n
    BY <1>3
  <2>2. es \in Seq(Events)
    BY <1>1, IncompleteShape
  <2>3. PICK m \in Nat : m = Len(es) /\ DOMAIN es = 1..m
    BY <2>2
  <2>4. QED
    BY <1>2, <2>1, <2>3
<1>5. \A i \in 1..n : es[i].request = q[i]
  BY <1>3 DEF Event
<1>6. \A i, j \in 1..n : i < j => q[i] < q[j]
  BY <1>1, <1>2 DEF Increasing
<1>7. QED
  BY <1>4, <1>5, <1>6 DEF InTurn

\* The queues of different flows, one behind the other.
LEMMA FlattenInTurn ==
  ASSUME NEW n \in Nat, NEW parts \in [1..n -> Seq(Events)],
         \A i \in 1..n : InTurn(parts[i]),
         \A i, j \in 1..n : i < j =>
           \A f, a, b : ~(<<f, a>> \in Reported(parts[i]) /\ <<f, b>> \in Reported(parts[j]))
  PROVE  InTurn(FlattenSeq(parts))
<1>1. PICK S : S = Seq(Events)
  OBVIOUS
<1>2. parts \in Seq(S) /\ Len(parts) = n
  BY <1>1, FunctionsAreSequences
<1>3. PICK run \in [0..n -> Seq(Events)] :
        /\ run[0] = <<>>
        /\ \A i \in 1..n : run[i] = run[i - 1] \o parts[i]
        /\ FlattenSeq(parts) = run[n]
  <2>1. PICK run : FlattensBy(Events, parts, n, run)
    BY <1>1, <1>2, FlattenTurns
  <2>2. QED
    BY <2>1 DEF FlattensBy
<1> DEFINE Q == [k \in Nat |-> {es \in Seq(Events) :
                   InTurn(es) /\ \A x \in Reported(es) : \E i \in 1..k : x \in Reported(parts[i])}]
<1>4. run[0] \in Q[0]
  <2>1. run[0] = <<>> /\ <<>> \in Seq(Events)
    BY <1>3
  <2>2. InTurn(<<>>)
    <3>1. Len(<<>>) = 0 /\ 1..0 = {}
      OBVIOUS
    <3>2. QED
      BY <3>1 DEF InTurn
  <2>3. QED
    BY <2>1, <2>2, NoneReported
<1>5. ASSUME NEW k \in 1..n, run[k - 1] \in Q[k - 1] PROVE run[k] \in Q[k]
  <2>1. k \in Nat /\ k - 1 \in Nat /\ k \in 1..k
    OBVIOUS
  <2>2. PICK es \in Seq(Events) : es = run[k - 1]
    BY <2>1
  <2>3. InTurn(es) /\ \A x \in Reported(es) : \E i \in 1..k-1 : x \in Reported(parts[i])
    BY <1>5, <2>1, <2>2
  <2>4. PICK part \in Seq(Events) : part = parts[k] /\ InTurn(part)
    OBVIOUS
  <2>5. \A f, a, b : ~(<<f, a>> \in Reported(es) /\ <<f, b>> \in Reported(part))
    <3>1. SUFFICES ASSUME NEW f, NEW a, NEW b, <<f, a>> \in Reported(es), <<f, b>> \in Reported(part)
                   PROVE FALSE
      OBVIOUS
    <3>2. PICK i \in 1..k-1 : <<f, a>> \in Reported(parts[i])
      BY <2>3, <3>1
    <3>3. i \in 1..n /\ i < k
      BY <3>2
    <3>4. QED
      BY <2>4, <3>1, <3>2, <3>3
  <2>6. PICK longer : longer = es \o part
    OBVIOUS
  <2>7. longer \in Seq(Events) /\ Reported(longer) = Reported(es) \union Reported(part)
    BY <2>6, SequenceConcat, ReportedConcat
  <2>8. InTurn(longer)
    BY <2>3, <2>4, <2>5, <2>6, InTurnConcat
  <2>9. \A x \in Reported(longer) : \E i \in 1..k : x \in Reported(parts[i])
    <3>1. \A i \in 1..k-1 : i \in 1..k
      OBVIOUS
    <3>2. QED
      BY <2>1, <2>3, <2>4, <2>7, <3>1
  <2>10. run[k] = longer
    BY <1>3, <2>2, <2>4, <2>6
  <2>11. QED
    BY <2>1, <2>7, <2>8, <2>9, <2>10
<1> HIDE DEF Q
<1>6. run[n] \in Q[n]
  BY <1>4, <1>5, LoopInvariant
<1>7. QED
  BY <1>3, <1>6 DEF Q

\* Requests that are done with: dropped, lost or reported.
Settled(es, dropped, rejected) == dropped \union rejected \union Reported(es)

\* Every request is done with at most once and in its turn, and those that wait
\* come after it.
OrderOK(table, es, dropped, rejected) ==
  /\ \A f \in DOMAIN table :
       /\ Increasing(table[f].requests)
       /\ Behind(f, Settled(es, dropped, rejected), table[f].requests)
  /\ dropped \intersect rejected = {}
  /\ (dropped \union rejected) \intersect Reported(es) = {}
  /\ InTurn(es)

\* What becomes of the account when more requests are done with.
LEMMA SettlesMore ==
  ASSUME NEW table, NEW es \in Seq(Events), NEW dropped, NEW rejected,
         OrderOK(table, es, dropped, rejected),
         NEW new \in Seq(Events), InTurn(new),
         \A f, a, b : <<f, a>> \in Reported(es) /\ <<f, b>> \in Reported(new) => a < b,
         NEW D, NEW L, D \intersect L = {}, (D \union L) \intersect Reported(new) = {},
         (D \union L \union Reported(new)) \intersect Settled(es, dropped, rejected) = {},
         NEW after,
         \A f \in DOMAIN after :
           /\ Increasing(after[f].requests)
           /\ Behind(f, Settled(es, dropped, rejected) \union D \union L \union Reported(new),
                     after[f].requests),
         NEW all, all = es \o new
  PROVE  OrderOK(after, all, dropped \union D, rejected \union L)
<1>1. all \in Seq(Events) /\ Reported(all) = Reported(es) \union Reported(new)
  BY SequenceConcat, ReportedConcat
<1>2. InTurn(all)
  BY InTurnConcat DEF OrderOK
<1>3. Settled(all, dropped \union D, rejected \union L)
        = Settled(es, dropped, rejected) \union D \union L \union Reported(new)
  BY <1>1 DEF Settled
<1>4. /\ (dropped \union D) \intersect (rejected \union L) = {}
      /\ (dropped \union D \union rejected \union L) \intersect Reported(all) = {}
  <2>1. /\ dropped \intersect rejected = {}
        /\ (dropped \union rejected) \intersect Reported(es) = {}
    BY DEF OrderOK
  <2>2. (D \union L \union Reported(new)) \intersect (dropped \union rejected \union Reported(es)) = {}
    BY DEF Settled
  <2>3. PICK A, N : A = Reported(es) /\ N = Reported(new)
    OBVIOUS
  <2>4. /\ dropped \intersect rejected = {} /\ (dropped \union rejected) \intersect A = {}
        /\ (D \union L \union N) \intersect (dropped \union rejected \union A) = {}
        /\ D \intersect L = {} /\ (D \union L) \intersect N = {}
    BY <2>1, <2>2, <2>3
  <2>5. /\ (dropped \union D) \intersect (rejected \union L) = {}
        /\ (dropped \union D \union rejected \union L) \intersect (A \union N) = {}
    BY ONLY <2>4
  <2>6. QED
    BY <1>1, <2>3, <2>5
<1>5. QED
  BY <1>2, <1>3, <1>4 DEF OrderOK

\* A queue stays behind what is done with when that is of other flows.
LEMMA BehindOthers ==
  ASSUME NEW f, NEW done, NEW more, NEW requests, Behind(f, done, requests),
         \A r : <<f, r>> \notin more
  PROVE  Behind(f, done \union more, requests)
BY DEF Behind

\* A reset reports the queue of its flow.
LEMMA ResetOrders ==
  ASSUME IInv, NEW f \in DOMAIN Traffic, ProcessReset(f),
         OrderOK(flows, events, evicted, unreadable)
  PROVE  OrderOK(flows', events', evicted', unreadable')
<1>1. f \in Flows
  BY WireShape DEF IInv, Carries
<1>2. PICK es \in Seq(Events) : es = events
  BY DEF IInv, AccountOK
<1>3. PICK settled : settled = Settled(es, evicted, unreadable)
  OBVIOUS
<1>4. PICK last : last = IF f \in DOMAIN flows THEN Incomplete(f, flows[f]) ELSE <<>>
  OBVIOUS
<1>5. PICK kept : kept = TableWithout(flows, {f})
  OBVIOUS
<1>6. /\ flows' = kept /\ events' = es \o last
      /\ evicted' = evicted /\ unreadable' = unreadable
  BY <1>2, <1>4, <1>5 DEF ProcessReset, TableWithout
<1>7. DOMAIN kept = DOMAIN flows \ {f} /\ \A g \in DOMAIN kept : kept[g] = flows[g]
  BY <1>5 DEF TableWithout, Restrict
<1>8. /\ last \in Seq(Events) /\ InTurn(last)
      /\ \A g, a, b : <<g, a>> \in settled /\ <<g, b>> \in Reported(last) => a < b
      /\ Reported(last) \intersect settled = {}
      /\ \A g, b : <<g, b>> \in Reported(last) => g = f
  <2>1. CASE f \in DOMAIN flows
    <3>1. PICK flow \in FlowsOf(Traffic[f]) : flow = flows[f]
      BY <2>1 DEF IInv, TableOK
    <3>2. flow.requests \in Seq(Nat)
      BY RequestsShape
    <3>3. Increasing(flow.requests) /\ Behind(f, settled, flow.requests)
      BY <1>2, <1>3, <2>1, <3>1 DEF OrderOK
    <3>4. last = Incomplete(f, flow)
      BY <1>4, <2>1, <3>1
    <3>5. last \in Seq(Events) /\ Reported(last) = QueuedIn(f, flow) /\ InTurn(last)
      BY <1>1, <3>2, <3>3, <3>4, IncompleteShape, IncompleteInTurn
    <3>6. /\ \A g, a, b : <<g, a>> \in settled /\ <<g, b>> \in QueuedIn(f, flow) => a < b
          /\ QueuedIn(f, flow) \intersect settled = {}
      BY <3>2, <3>3, QueueBehind
    <3>7. \A g, b : <<g, b>> \in QueuedIn(f, flow) => g = f
      BY DEF QueuedIn
    <3>8. QED
      BY <3>5, <3>6, <3>7
  <2>2. CASE f \notin DOMAIN flows
    <3>1. last = <<>> /\ <<>> \in Seq(Events)
      BY <1>4, <2>2
    <3>2. InTurn(<<>>)
      <4>1. Len(<<>>) = 0 /\ 1..0 = {}
        OBVIOUS
      <4>2. QED
        BY <4>1 DEF InTurn
    <3>3. Reported(last) = {}
      BY <3>1, NoneReported
    <3>4. QED
      BY <3>1, <3>2, <3>3
  <2>3. QED
    BY <2>1, <2>2
<1>9. \A g, a, b : <<g, a>> \in Reported(es) /\ <<g, b>> \in Reported(last) => a < b
  BY <1>3, <1>8 DEF Settled
<1>10. PICK none : none = {}
  OBVIOUS
<1>11. ASSUME NEW g \in DOMAIN kept
       PROVE  /\ Increasing(kept[g].requests)
              /\ Behind(g, settled \union none \union none \union Reported(last), kept[g].requests)
  <2>1. g \in DOMAIN flows /\ kept[g] = flows[g] /\ g # f
    BY <1>7, <1>11
  <2>2. Increasing(flows[g].requests) /\ Behind(g, settled, flows[g].requests)
    BY <1>2, <1>3, <2>1 DEF OrderOK
  <2>3. \A r : <<g, r>> \notin Reported(last)
    BY <1>8, <2>1
  <2>4. Behind(g, settled \union Reported(last), flows[g].requests)
    BY <2>2, <2>3, BehindOthers
  <2>5. settled \union none \union none \union Reported(last) = settled \union Reported(last)
    BY <1>10
  <2>6. QED
    BY <2>1, <2>2, <2>4, <2>5
<1>12. PICK all : all = es \o last
  OBVIOUS
<1>13. none \intersect none = {} /\ (none \union none) \intersect Reported(last) = {}
       /\ (none \union none \union Reported(last)) \intersect Settled(es, evicted, unreadable) = {}
  BY <1>3, <1>8, <1>10
<1>14. OrderOK(flows, es, evicted, unreadable)
  BY <1>2
<1>15. OrderOK(kept, all, evicted \union none, unreadable \union none)
  BY <1>3, <1>8, <1>9, <1>11, <1>12, <1>13, <1>14, SettlesMore
<1>16. evicted \union none = evicted /\ unreadable \union none = unreadable
  BY <1>10
<1>17. QED
  BY <1>6, <1>12, <1>15, <1>16

\* What the loops of process leave of the order, for the requests of f when those
\* of settled are done with.
Ordered(f, settled, run) ==
  LET done == run.lost \union Reported(run.events) IN
  /\ Increasing(run.flow.requests)
  /\ InTurn(run.events)
  /\ run.lost \intersect Reported(run.events) = {}
  /\ done \subseteq {f} \X Nat
  /\ \A a, b : <<f, a>> \in settled /\ <<f, b>> \in done => a < b
  /\ Behind(f, settled \union done, run.flow.requests)

\* process drops the queues of its victims, and what the loops have done.
LEMMA LeaveOrders ==
  ASSUME IInv, NEW f \in DOMAIN Traffic, NEW rst,
         OrderOK(flows, events, evicted, unreadable),
         NEW run \in Runs(Traffic[f]),
         Ordered(f, Settled(events, evicted, unreadable), run),
         NEW victims, victims = Victims(f),
         Leave(f, rst, victims, run)
  PROVE  OrderOK(flows', events', evicted', unreadable')
<1>1. f \in Flows
  BY WireShape DEF IInv, Carries
<1>2. PICK es \in Seq(Events) : es = events
  BY DEF IInv, AccountOK
<1>3. PICK settled : settled = Settled(es, evicted, unreadable)
  OBVIOUS
<1>4. PICK flow \in FlowsOf(Traffic[f]) : flow = run.flow
  BY DEF Runs
<1>5. PICK new \in Seq(Events) : new = run.events
  BY DEF Runs
<1>6. flow.requests \in Seq(Nat)
  BY RequestsShape
<1>7. PICK L : L = run.lost
  OBVIOUS
<1>8. /\ Increasing(flow.requests) /\ InTurn(new)
      /\ L \intersect Reported(new) = {}
      /\ L \union Reported(new) \subseteq {f} \X Nat
      /\ \A a, b : <<f, a>> \in settled /\ <<f, b>> \in L \union Reported(new) => a < b
      /\ Behind(f, settled \union (L \union Reported(new)), flow.requests)
  BY <1>2, <1>3, <1>4, <1>5, <1>7 DEF Ordered
<1>9. PICK last : last = IF rst THEN Incomplete(f, flow) ELSE <<>>
  OBVIOUS
<1>10. PICK N : N = Reported(last)
  OBVIOUS
<1>11. /\ last \in Seq(Events) /\ InTurn(last)
       /\ N = IF rst THEN QueuedIn(f, flow) ELSE {}
  <2>1. CASE rst
    BY <1>1, <1>6, <1>8, <1>9, <1>10, <2>1, IncompleteShape, IncompleteInTurn
  <2>2. CASE ~rst
    <3>1. last = <<>> /\ <<>> \in Seq(Events)
      BY <1>9, <2>2
    <3>2. InTurn(<<>>)
      <4>1. Len(<<>>) = 0 /\ 1..0 = {}
        OBVIOUS
      <4>2. QED
        BY <4>1 DEF InTurn
    <3>3. QED
      BY <1>10, <2>2, <3>1, <3>2, NoneReported
  <2>3. QED
    BY <2>1, <2>2
<1>12. /\ \A g, a, b : <<g, a>> \in settled \union (L \union Reported(new))
                       /\ <<g, b>> \in QueuedIn(f, flow) => a < b
       /\ QueuedIn(f, flow) \intersect (settled \union (L \union Reported(new))) = {}
  BY <1>6, <1>8, QueueBehind
<1>13. QueuedIn(f, flow) \subseteq {f} \X Nat
  BY <1>6 DEF QueuedIn
<1>14. PICK more : more = new \o last
  OBVIOUS
<1>15. more \in Seq(Events) /\ Reported(more) = Reported(new) \union N
  <2>1. last \in Seq(Events)
    BY <1>11
  <2>2. more \in Seq(Events) /\ Reported(more) = Reported(new) \union Reported(last)
    BY <1>14, <2>1, SequenceConcat, ReportedConcat
  <2>3. QED
    BY <1>10, <2>2
<1>16. InTurn(more)
  <2>1. \A g, a, b : <<g, a>> \in Reported(new) /\ <<g, b>> \in Reported(last) => a < b
    BY <1>10, <1>11, <1>12
  <2>2. QED
    BY <1>8, <1>11, <1>14, <2>1, InTurnConcat
<1>17. Reported(more) \subseteq {f} \X Nat
  BY <1>8, <1>11, <1>13, <1>15
<1>18. ASSUME NEW g, NEW a, NEW b, <<g, a>> \in settled, <<g, b>> \in L \union Reported(more)
       PROVE  a < b
  <2>1. <<g, b>> \in {f} \X Nat
    BY <1>8, <1>17, <1>18
  <2>2. g = f
    BY <2>1
  <2>3. CASE <<g, b>> \in L \union Reported(new)
    BY <1>8, <1>18, <2>2, <2>3
  <2>4. CASE <<g, b>> \in N
    BY <1>11, <1>12, <1>18, <2>4
  <2>5. QED
    BY <1>15, <1>18, <2>3, <2>4
<1>19. (L \union Reported(more)) \intersect settled = {}
  <2>1. SUFFICES ASSUME NEW x, x \in L \union Reported(more), x \in settled PROVE FALSE
    OBVIOUS
  <2>2. x \in {f} \X Nat
    BY <1>8, <1>17, <2>1
  <2>3. PICK b \in Nat : x = <<f, b>>
    BY <2>2
  <2>4. b < b
    BY <1>18, <2>1, <2>3
  <2>5. QED
    BY <2>4
<1>20. L \intersect Reported(more) = {}
  <2>1. N \intersect L = {}
    BY <1>11, <1>12
  <2>2. QED
    BY <1>8, <1>15, <2>1
\* The victims are other flows.
<1>21. victims \subseteq DOMAIN flows /\ (f \in DOMAIN flows => victims = {})
  BY VictimsShape
<1>22. f \notin victims
  BY <1>21
<1>23. PICK D : D = UNION {QueuedIn(g, flows[g]) : g \in victims}
  OBVIOUS
<1>24. ASSUME NEW g \in DOMAIN flows
       PROVE  /\ Increasing(flows[g].requests) /\ Behind(g, settled, flows[g].requests)
              /\ flows[g].requests \in Seq(Nat)
              /\ QueuedIn(g, flows[g]) \intersect settled = {}
              /\ QueuedIn(g, flows[g]) \subseteq {g} \X Nat
  <2>1. Increasing(flows[g].requests) /\ Behind(g, settled, flows[g].requests)
    BY <1>2, <1>3 DEF OrderOK
  <2>2. PICK x \in FlowsOf(Traffic[g]) : x = flows[g]
    BY DEF IInv, TableOK
  <2>3. x.requests \in Seq(Nat)
    BY RequestsShape
  <2>4. QueuedIn(g, x) \intersect settled = {}
    BY <2>1, <2>2, <2>3, QueueBehind
  <2>5. QueuedIn(g, x) \subseteq {g} \X Nat
    BY <2>3 DEF QueuedIn
  <2>6. QED
    BY <2>1, <2>2, <2>3, <2>4, <2>5
<1>25. \A x \in D : \E g \in victims : x \in {g} \X Nat
  BY <1>21, <1>23, <1>24
<1>26. D \intersect settled = {}
  BY <1>21, <1>23, <1>24
<1>27. D \intersect (L \union Reported(more)) = {}
  <2>1. SUFFICES ASSUME NEW x, x \in D, x \in L \union Reported(more) PROVE FALSE
    OBVIOUS
  <2>2. x \in {f} \X Nat
    BY <1>8, <1>17, <2>1
  <2>3. PICK g \in victims : x \in {g} \X Nat
    BY <1>25, <2>1
  <2>4. g = f
    BY <2>2, <2>3
  <2>5. QED
    BY <1>22, <2>4
\* The flows that are left.
<1>28. PICK gone : gone = victims \union {f}
  OBVIOUS
<1>29. PICK others : others = TableWithout(flows, gone)
  OBVIOUS
<1>30. DOMAIN others = DOMAIN flows \ gone /\ \A g \in DOMAIN others : others[g] = flows[g]
  BY <1>29 DEF TableWithout, Restrict
<1>31. PICK after : after = IF rst THEN others ELSE Insert(others, f, flow)
  OBVIOUS
<1>32. /\ events' = (es \o new) \o last
       /\ flows' = after
       /\ evicted' = evicted \union D /\ unreadable' = unreadable \union L
  <2>1. events' = events \o run.events \o (IF rst THEN Incomplete(f, run.flow) ELSE <<>>)
    BY DEF Leave
  <2>2. flows' = after
    BY <1>4, <1>28, <1>29, <1>31 DEF Leave, TableWithout
  <2>3. evicted' = evicted \union D /\ unreadable' = unreadable \union L
    BY <1>7, <1>23 DEF Leave
  <2>4. QED
    BY <1>2, <1>4, <1>5, <1>9, <2>1, <2>2, <2>3
<1>33. PICK all : all = es \o more
  OBVIOUS
<1>34. events' = all
  <2>1. (es \o new) \o last = es \o (new \o last)
    BY <1>11
  <2>2. QED
    BY <1>14, <1>32, <1>33, <2>1
<1>35. ASSUME NEW g \in DOMAIN after
       PROVE  /\ Increasing(after[g].requests)
              /\ Behind(g, settled \union D \union L \union Reported(more), after[g].requests)
  <2>1. CASE g = f
    <3>1. ~rst /\ after[g] = flow
      BY <1>28, <1>30, <1>31, <1>35, <2>1 DEF Insert
    <3>2. N = {}
      BY <1>11, <3>1
    <3>3. \A r : <<f, r>> \notin D
      <4>1. SUFFICES ASSUME NEW r, <<f, r>> \in D PROVE FALSE
        OBVIOUS
      <4>2. PICK h \in victims : <<f, r>> \in {h} \X Nat
        BY <1>25, <4>1
      <4>3. h = f
        BY <4>2
      <4>4. QED
        BY <1>22, <4>3
    <3>4. Behind(f, (settled \union (L \union Reported(new))) \union D, flow.requests)
      BY <1>8, <3>3, BehindOthers
    <3>5. (settled \union (L \union Reported(new))) \union D
            = settled \union D \union L \union Reported(more)
      BY <1>15, <3>2
    <3>6. QED
      BY <1>8, <2>1, <3>1, <3>4, <3>5
  <2>2. CASE g # f
    <3>1. g \in DOMAIN flows /\ g \notin victims /\ after[g] = flows[g]
      BY <1>28, <1>30, <1>31, <1>35, <2>2 DEF Insert
    <3>2. \A r : <<g, r>> \notin D \union L \union Reported(more)
      <4>1. SUFFICES ASSUME NEW r, <<g, r>> \in D \union L \union Reported(more) PROVE FALSE
        OBVIOUS
      <4>2. CASE <<g, r>> \in D
        <5>1. PICK h \in victims : <<g, r>> \in {h} \X Nat
          BY <1>25, <4>2
        <5>2. QED
          BY <3>1, <5>1
      <4>3. CASE <<g, r>> \in L \union Reported(more)
        <5>1. <<g, r>> \in {f} \X Nat
          BY <1>8, <1>17, <4>3
        <5>2. QED
          BY <2>2, <5>1
      <4>4. QED
        BY <4>1, <4>2, <4>3
    <3>3. Behind(g, settled \union (D \union L \union Reported(more)), flows[g].requests)
      BY <1>24, <3>1, <3>2, BehindOthers
    <3>4. settled \union (D \union L \union Reported(more))
            = settled \union D \union L \union Reported(more)
      OBVIOUS
    <3>5. QED
      BY <1>24, <3>1, <3>3, <3>4
  <2>3. QED
    BY <2>1, <2>2
<1>36. \A g, a, b : <<g, a>> \in Reported(es) /\ <<g, b>> \in Reported(more) => a < b
  BY <1>3, <1>18 DEF Settled
<1>37. /\ D \intersect L = {} /\ (D \union L) \intersect Reported(more) = {}
       /\ (D \union L \union Reported(more)) \intersect Settled(es, evicted, unreadable) = {}
  BY <1>3, <1>19, <1>20, <1>26, <1>27
<1>38. OrderOK(flows, es, evicted, unreadable)
  BY <1>2
<1>39. OrderOK(after, all, evicted \union D, unreadable \union L)
  BY <1>3, <1>15, <1>16, <1>33, <1>35, <1>36, <1>37, <1>38, SettlesMore
<1>40. QED
  BY <1>32, <1>34, <1>39

\* What expire_idle removes, and the events of it.
LEMMA ExpiredShape ==
  ASSUME IInv, NEW n \in 1..Len(recency),
         NEW expired, expired = SubSeq(recency, 1, n),
         NEW parts, parts = [i \in 1..n |-> Incomplete(expired[i], flows[expired[i]])],
         NEW last, last = FlattenSeq(parts)
  PROVE  /\ last \in Seq(Events)
         /\ Reported(last) = QueuedBy(flows, ToSet(expired))
         /\ (\A f \in DOMAIN flows : Increasing(flows[f].requests)) => InTurn(last)
<1>1. PICK order \in Seq(Flows) : order = recency /\ IsInjective(order)
  BY DEF IInv, TableOK
<1>2. PICK size \in Nat : size = Len(order)
  BY <1>1
<1>3. n \in 0..Len(order) /\ n \in Nat /\ n \in 1..size
  BY <1>1, <1>2
<1>4. expired = SubSeq(order, 1, n)
  BY <1>1
<1>5. PICK rest : rest = SubSeq(order, n + 1, Len(order))
  OBVIOUS
<1>6. /\ expired \in Seq(Flows) /\ Len(expired) = n
      /\ ToSet(order) = ToSet(expired) \union ToSet(rest)
  <2>1. expired \in Seq(Flows) /\ rest \in Seq(Flows) /\ Splits(order, n, expired, rest)
    BY <1>3, <1>4, <1>5, SequenceSplit
  <2>2. QED
    BY <2>1 DEF Splits
<1>7. DOMAIN expired = 1..n
  BY <1>3, <1>6
<1>8. \A i \in 1..n : expired[i] = order[i]
  BY <1>2, <1>3, <1>4
<1>9. \A i, j \in 1..n : expired[i] = expired[j] => i = j
  <2>1. DOMAIN order = 1..size /\ 1..n \subseteq 1..size
    BY <1>2, <1>3
  <2>2. QED
    BY <1>1, <1>8, <2>1 DEF IsInjective
<1>10. PICK gone : gone = ToSet(expired)
  OBVIOUS
<1>11. ToSet(order) = DOMAIN flows /\ gone \subseteq DOMAIN flows
  BY <1>1, <1>6, <1>10 DEF IInv, TableOK
<1>12. \A i \in 1..n : expired[i] \in gone /\ expired[i] \in DOMAIN flows /\ expired[i] \in Flows
  <2> TAKE i \in 1..n
  <2>1. expired[i] \in gone
    BY <1>7, <1>10 DEF ToSet
  <2>2. QED
    BY <1>6, <1>7, <1>11, <2>1
<1>13. ASSUME NEW i \in 1..n
       PROVE  /\ parts[i] \in Seq(Events)
              /\ Reported(parts[i]) = QueuedIn(expired[i], flows[expired[i]])
              /\ Increasing(flows[expired[i]].requests) => InTurn(parts[i])
  <2>1. PICK f \in Flows : f = expired[i] /\ f \in DOMAIN flows
    BY <1>12
  <2>2. PICK flow \in FlowsOf(Traffic[f]) : flow = flows[f]
    BY <2>1 DEF IInv, TableOK
  <2>3. flow.requests \in Seq(Nat)
    BY RequestsShape
  <2>4. PICK es : es = Incomplete(f, flow)
    OBVIOUS
  <2>5. /\ es \in Seq(Events) /\ Reported(es) = QueuedIn(f, flow)
        /\ Increasing(flow.requests) => InTurn(es)
    BY <2>3, <2>4, IncompleteShape, IncompleteInTurn
  <2>6. parts[i] = es
    BY <2>1, <2>2, <2>4
  <2>7. QED
    BY <2>1, <2>2, <2>5, <2>6
<1>14. parts \in [1..n -> Seq(Events)]
  BY <1>13
<1>15. PICK S : S = Seq(Events)
  OBVIOUS
<1>16. parts \in Seq(S) /\ Len(parts) = n
  BY <1>3, <1>14, <1>15, FunctionsAreSequences
<1>17. last \in Seq(Events) /\ Reported(last) = UNION {Reported(parts[i]) : i \in 1..n}
  BY <1>15, <1>16, FlattenShape, ReportedFlatten
<1>18. Reported(last) = QueuedBy(flows, gone)
  <2>1. \A g \in gone : \E i \in 1..n : g = expired[i]
    BY <1>7, <1>10 DEF ToSet
  <2>2. ASSUME NEW p \in Reported(last) PROVE p \in QueuedBy(flows, gone)
    <3>1. PICK i \in 1..n : p \in Reported(parts[i])
      BY <1>17
    <3>2. p \in QueuedIn(expired[i], flows[expired[i]])
      BY <1>13, <3>1
    <3>3. expired[i] \in DOMAIN flows \intersect gone
      BY <1>12
    <3>4. QED
      BY <3>2, <3>3 DEF QueuedBy
  <2>3. ASSUME NEW p \in QueuedBy(flows, gone) PROVE p \in Reported(last)
    <3>1. PICK g \in gone : p \in QueuedIn(g, flows[g])
      BY DEF QueuedBy
    <3>2. PICK i \in 1..n : g = expired[i]
      BY <2>1
    <3>3. p \in Reported(parts[i])
      BY <1>13, <3>1, <3>2
    <3>4. QED
      BY <1>17, <3>3
  <2>4. QED
    BY <2>2, <2>3
<1>19. ASSUME \A f \in DOMAIN flows : Increasing(flows[f].requests) PROVE InTurn(last)
  <2>1. \A i \in 1..n : InTurn(parts[i])
    BY <1>12, <1>13, <1>19
  <2>2. ASSUME NEW i \in 1..n, NEW j \in 1..n, i < j, NEW f, NEW a, NEW b
        PROVE  ~(<<f, a>> \in Reported(parts[i]) /\ <<f, b>> \in Reported(parts[j]))
    <3>1. SUFFICES ASSUME <<f, a>> \in Reported(parts[i]), <<f, b>> \in Reported(parts[j])
                   PROVE FALSE
      OBVIOUS
    <3>2. \A g, flow, c : <<f, c>> \in QueuedIn(g, flow) => f = g
      BY DEF QueuedIn
    <3>3. f = expired[i] /\ f = expired[j]
      BY <1>13, <3>1, <3>2
    <3>4. i = j
      BY <1>9, <3>3
    <3>5. QED
      BY <2>2, <3>4
  <2>3. QED
    BY <1>3, <1>14, <2>1, <2>2, FlattenInTurn
<1>20. QED
  BY <1>10, <1>17, <1>18, <1>19

\* expire_idle reports the queues of the flows it removes.
LEMMA ExpireOrders ==
  ASSUME IInv, NEW n \in 1..Len(recency), ExpireOldestFlows(n),
         OrderOK(flows, events, evicted, unreadable)
  PROVE  OrderOK(flows', events', evicted', unreadable')
<1>1. PICK es \in Seq(Events) : es = events
  BY DEF IInv, AccountOK
<1>2. PICK settled : settled = Settled(es, evicted, unreadable)
  OBVIOUS
<1>3. PICK expired : expired = SubSeq(recency, 1, n)
  OBVIOUS
<1>4. PICK parts : parts = [i \in 1..n |-> Incomplete(expired[i], flows[expired[i]])]
  OBVIOUS
<1>5. PICK last : last = FlattenSeq(parts)
  OBVIOUS
<1>6. PICK gone : gone = ToSet(expired)
  OBVIOUS
<1>7. PICK kept : kept = TableWithout(flows, gone)
  OBVIOUS
<1>8. /\ flows' = kept /\ events' = es \o last
      /\ evicted' = evicted /\ unreadable' = unreadable
  BY <1>1, <1>3, <1>4, <1>5, <1>6, <1>7 DEF ExpireOldestFlows, TableWithout
<1>9. ASSUME NEW g \in DOMAIN flows
      PROVE  /\ Increasing(flows[g].requests) /\ Behind(g, settled, flows[g].requests)
             /\ QueuedIn(g, flows[g]) \intersect settled = {}
             /\ \A h, a, b : <<h, a>> \in settled /\ <<h, b>> \in QueuedIn(g, flows[g]) => a < b
             /\ \A h, b : <<h, b>> \in QueuedIn(g, flows[g]) => h = g
  <2>1. Increasing(flows[g].requests) /\ Behind(g, settled, flows[g].requests)
    BY <1>1, <1>2 DEF OrderOK
  <2>2. PICK x \in FlowsOf(Traffic[g]) : x = flows[g]
    BY DEF IInv, TableOK
  <2>3. x.requests \in Seq(Nat)
    BY RequestsShape
  <2>4. /\ QueuedIn(g, x) \intersect settled = {}
        /\ \A h, a, b : <<h, a>> \in settled /\ <<h, b>> \in QueuedIn(g, x) => a < b
    BY <2>1, <2>2, <2>3, QueueBehind
  <2>5. \A h, b : <<h, b>> \in QueuedIn(g, x) => h = g
    BY DEF QueuedIn
  <2>6. QED
    BY <2>1, <2>2, <2>4, <2>5
<1>10. last \in Seq(Events) /\ Reported(last) = QueuedBy(flows, gone) /\ InTurn(last)
  BY <1>3, <1>4, <1>5, <1>6, <1>9, ExpiredShape
<1>11. \A x \in Reported(last) : \E g \in DOMAIN flows \intersect gone : x \in QueuedIn(g, flows[g])
  BY <1>10 DEF QueuedBy
<1>12. \A h, a, b : <<h, a>> \in Reported(es) /\ <<h, b>> \in Reported(last) => a < b
  BY <1>2, <1>9, <1>11 DEF Settled
<1>13. Reported(last) \intersect settled = {}
  BY <1>9, <1>11
<1>14. \A h, b : <<h, b>> \in Reported(last) => h \in gone
  BY <1>9, <1>11
<1>15. DOMAIN kept = DOMAIN flows \ gone /\ \A g \in DOMAIN kept : kept[g] = flows[g]
  BY <1>7 DEF TableWithout, Restrict
<1>16. PICK none : none = {}
  OBVIOUS
<1>17. ASSUME NEW g \in DOMAIN kept
       PROVE  /\ Increasing(kept[g].requests)
              /\ Behind(g, settled \union none \union none \union Reported(last), kept[g].requests)
  <2>1. g \in DOMAIN flows /\ kept[g] = flows[g] /\ g \notin gone
    BY <1>15, <1>17
  <2>2. Increasing(flows[g].requests) /\ Behind(g, settled, flows[g].requests)
    BY <1>9, <2>1
  <2>3. \A r : <<g, r>> \notin Reported(last)
    BY <1>14, <2>1
  <2>4. Behind(g, settled \union Reported(last), flows[g].requests)
    BY <2>2, <2>3, BehindOthers
  <2>5. settled \union none \union none \union Reported(last) = settled \union Reported(last)
    BY <1>16
  <2>6. QED
    BY <2>1, <2>2, <2>4, <2>5
<1>18. PICK all : all = es \o last
  OBVIOUS
<1>19. none \intersect none = {} /\ (none \union none) \intersect Reported(last) = {}
       /\ (none \union none \union Reported(last)) \intersect Settled(es, evicted, unreadable) = {}
  BY <1>2, <1>13, <1>16
<1>20. OrderOK(flows, es, evicted, unreadable)
  BY <1>1
<1>21. OrderOK(kept, all, evicted \union none, unreadable \union none)
  BY <1>2, <1>10, <1>12, <1>17, <1>18, <1>19, <1>20, SettlesMore
<1>22. evicted \union none = evicted /\ unreadable \union none = unreadable
  BY <1>16
<1>23. QED
  BY <1>8, <1>18, <1>21, <1>22

\* Requests that are done with once and in turn are accounted for.
LEMMA OrderedIsAccounted ==
  ASSUME IInv, OrderOK(flows, events, evicted, unreadable)
  PROVE  RequestsAccounted
<1>1. PICK es \in Seq(Events) : es = events
  BY DEF IInv, AccountOK
<1>2. PICK n \in Nat : n = Len(es)
  OBVIOUS
<1>3. /\ parsed = Queued \union evicted \union unreadable \union Reported(events)
      /\ NothingIsLost
  BY DEF IInv, AccountOK, Queued, QueuedOf, NothingIsLost
<1>4. ASSUME NEW f \in DOMAIN flows
      PROVE  /\ flows[f].requests \in Seq(Nat) /\ Increasing(flows[f].requests)
             /\ Behind(f, Settled(es, evicted, unreadable), flows[f].requests)
  <2>1. PICK x \in FlowsOf(Traffic[f]) : x = flows[f]
    BY DEF IInv, TableOK
  <2>2. x.requests \in Seq(Nat)
    BY RequestsShape
  <2>3. QED
    BY <1>1, <2>1, <2>2 DEF OrderOK
<1>5. Queued \intersect Settled(es, evicted, unreadable) = {}
  <2>1. SUFFICES ASSUME NEW x \in Queued, x \in Settled(es, evicted, unreadable) PROVE FALSE
    OBVIOUS
  <2>2. PICK f \in DOMAIN flows : x \in QueuedIn(f, flows[f])
    BY DEF Queued
  <2>3. PICK flow : flow = flows[f]
    OBVIOUS
  <2>4. flow.requests \in Seq(Nat) /\ Behind(f, Settled(es, evicted, unreadable), flow.requests)
    BY <1>4, <2>3
  <2>5. QueuedIn(f, flow) \intersect Settled(es, evicted, unreadable) = {}
    BY <2>4, QueueBehind
  <2>6. QED
    BY <2>1, <2>2, <2>3, <2>5
<1>6. InTurn(es) /\ \A i \in 1..n : es[i] \in Events
  BY <1>1, <1>2 DEF OrderOK
<1>7. /\ evicted \intersect unreadable = {}
      /\ (evicted \union unreadable) \intersect Reported(es) = {}
  BY <1>1 DEF OrderOK
<1>8. ASSUME NEW r
      PROVE  /\ r \in Reported(es) <=> EventOf(r) # {}
             /\ Cardinality(EventOf(r)) <= 1
  <2>1. PICK E : E = EventOf(r)
    OBVIOUS
  <2>2. \A i : i \in E <=> i \in 1..n /\ <<es[i].flow, es[i].request>> = r
    BY <1>1, <1>2, <2>1 DEF EventOf
  <2>3. r \in Reported(es) <=> E # {}
    BY <1>2, <2>2 DEF Reported
  <2>4. ASSUME NEW i \in E, NEW j \in E PROVE i = j
    <3>1. i \in 1..n /\ j \in 1..n /\ es[i].flow = es[j].flow /\ es[i].request = es[j].request
      BY <2>2
    <3>2. es[i].request \in Nat /\ es[j].request \in Nat
      BY <1>6, <3>1 DEF Events
    <3>3. ~(i < j) /\ ~(j < i)
      BY <1>2, <1>6, <3>1, <3>2 DEF InTurn
    <3>4. QED
      BY <3>1, <3>3
  <2>5. CASE E = {}
    BY <2>1, <2>3, <2>5, FS_EmptySet
  <2>6. CASE E # {}
    <3>1. PICK i \in E : TRUE
      BY <2>6
    <3>2. E = {i}
      BY <2>4, <3>1
    <3>3. Cardinality(E) = 1
      BY <3>2, FS_Singleton
    <3>4. QED
      BY <2>1, <2>3, <3>3
  <2>7. QED
    BY <2>5, <2>6
<1>9. ASSUME NEW r \in parsed
      PROVE  LET places == <<r \in Queued, r \in evicted, r \in unreadable, EventOf(r) # {}>> IN
             Cardinality({i \in 1..4 : places[i]}) = 1
  <2> DEFINE places == <<r \in Queued, r \in evicted, r \in unreadable, EventOf(r) # {}>>
             P == {i \in 1..4 : places[i]}
  <2>1. /\ r \in Queued \/ r \in evicted \/ r \in unreadable \/ r \in Reported(es)
        /\ r \in Queued => r \notin evicted /\ r \notin unreadable /\ r \notin Reported(es)
        /\ r \in evicted => r \notin unreadable /\ r \notin Reported(es)
        /\ r \in unreadable => r \notin Reported(es)
    BY <1>1, <1>3, <1>5, <1>7 DEF Settled
  <2>2. /\ 1 \in P <=> r \in Queued
        /\ 2 \in P <=> r \in evicted
        /\ 3 \in P <=> r \in unreadable
        /\ 4 \in P <=> r \in Reported(es)
    <3>1. places[1] = (r \in Queued) /\ places[2] = (r \in evicted)
          /\ places[3] = (r \in unreadable) /\ places[4] = (EventOf(r) # {})
      OBVIOUS
    <3>2. 1 \in 1..4 /\ 2 \in 1..4 /\ 3 \in 1..4 /\ 4 \in 1..4
      OBVIOUS
    <3>3. r \in Reported(es) <=> EventOf(r) # {}
      BY <1>8
    <3> HIDE DEF places
    <3>4. QED
      BY <3>1, <3>2, <3>3
  <2>3. \A i \in P : i = 1 \/ i = 2 \/ i = 3 \/ i = 4
    OBVIOUS
  <2> HIDE DEF P
  <2>4. \E i \in 1..4 : P = {i}
    <3>1. CASE r \in Queued
      <4>1. P = {1}
        BY <2>1, <2>2, <2>3, <3>1
      <4>2. QED
        BY <4>1
    <3>2. CASE r \in evicted
      <4>1. P = {2}
        BY <2>1, <2>2, <2>3, <3>2
      <4>2. QED
        BY <4>1
    <3>3. CASE r \in unreadable
      <4>1. P = {3}
        BY <2>1, <2>2, <2>3, <3>3
      <4>2. QED
        BY <4>1
    <3>4. CASE r \in Reported(es)
      <4>1. P = {4}
        BY <2>1, <2>2, <2>3, <3>4
      <4>2. QED
        BY <4>1
    <3>5. QED
      BY ONLY <2>1, <3>1, <3>2, <3>3, <3>4
  <2>5. Cardinality(P) = 1
    BY <2>4, FS_Singleton
  <2>6. QED
    BY <2>5 DEF P
<1>10. ASSUME NEW f \in DOMAIN flows PROVE IsInjective(flows[f].requests)
  <2>1. PICK q \in Seq(Nat) : q = flows[f].requests
    BY <1>4
  <2>2. PICK m \in Nat : m = Len(q) /\ DOMAIN q = 1..m
    OBVIOUS
  <2>3. ASSUME NEW i \in 1..m, NEW j \in 1..m, q[i] = q[j] PROVE i = j
    <3>1. q[i] \in Nat
      BY <2>2
    <3>2. \A a, b \in 1..m : a < b => q[a] < q[b]
      BY <1>4, <2>1, <2>2 DEF Increasing
    <3>3. QED
      BY <2>3, <3>1, <3>2
  <2>4. QED
    BY <2>1, <2>2, <2>3 DEF IsInjective
<1>11. \A i, j \in 1..Len(events) :
         i < j /\ events[i].flow = events[j].flow => events[i].request < events[j].request
  BY <1>1, <1>6 DEF InTurn
<1>12. QED
  BY <1>3, <1>8, <1>9, <1>10, <1>11 DEF RequestsAccounted

\* A direction that has seen nothing yet, or follows its wire.
Wired(w, d, S) ==
  \/ d.next = Unset /\ d.stream = <<>> /\ d.pending = <<>>
  \/ Follows(w, d, S) /\ d.next \notin DOMAIN d.pending

\* The positions a direction has left behind, those of S if it has seen nothing
\* yet, are behind the next one too.
LeavesBehind(d, S, e) ==
  e.next # Unset =>
    IF d.next # Unset THEN Start(d) <= Start(e) ELSE \A q \in S : q < Start(e)

\* A segment with units finds a direction that follows its wire, or is the first
\* that was not received; a SYN is in front of all units.
Fitting(d, S, segment) ==
  \/ segment.from < segment.to /\ (d.next = Unset => S = 0..segment.from-1)
  \/ segment.from = segment.to /\ (segment.syn => S = {} /\ d.next = Unset)

\* What a segment makes of a direction.
Pushes(w, d, S, segment, e, R) ==
  /\ Wired(w, e, R)
  /\ LeavesBehind(d, S, e)
  /\ d.next # Unset \/ segment.from < segment.to \/ segment.syn => e.next # Unset

\* The first part that a direction sees is where it begins.
LEMMA FirstFollows ==
  ASSUME NEW U, NEW w, ShortWire(U, w), NEW d \in Directions(U), InBudget(d),
         d.next = Unset, d.stream = <<>>, d.pending = <<>>,
         NEW from \in 0..Len(w), NEW S, S = 0..from-1,
         NEW t, t = [d EXCEPT !.next = from + 1]
  PROVE  /\ t \in Directions(U) /\ InBudget(t) /\ Follows(w, t, S)
         /\ t.next \notin DOMAIN t.pending
         /\ t.next = from + 1 /\ At(t) = from /\ Start(t) = from
<1>1. PICK n \in Nat : n = Len(w)
  BY DEF ShortWire
<1>2. from \in 0..n /\ n + 1 < SeqSpace /\ SeqSpace \in Nat
  BY <1>1, DirectionAssumption DEF ShortWire
<1>3. /\ t.next = from + 1 /\ t.stream = <<>> /\ t.pending = <<>>
      /\ t.pendingBytes = d.pendingBytes
  BY DEF Directions
<1>4. t \in Directions(U)
  <2>1. from + 1 \in 0..SeqSpace-1
    BY <1>2
  <2>2. QED
    BY <2>1 DEF Directions
<1>5. InBudget(t)
  BY <1>3 DEF InBudget, Waiting
<1>6. Len(<<>>) = 0 /\ DOMAIN <<>> = {}
  OBVIOUS
<1>7. At(t) = from /\ Start(t) = from
  BY <1>2, <1>3, <1>6 DEF At, Start
<1>8. EndsIn(w, t.stream, At(t))
  BY <1>2, <1>3, <1>6, <1>7 DEF EndsIn
<1>9. WaitingParts(w, t.pending, S)
  BY <1>3, <1>6 DEF WaitingParts
<1>10. t.next # Unset
  BY <1>2, <1>3 DEF Unset
<1>11. QED
  BY <1>1, <1>2, <1>3, <1>4, <1>5, <1>6, <1>7, <1>8, <1>9, <1>10 DEF Follows

\* push, for any segment that fits.
LEMMA PushWires ==
  ASSUME NEW U, NEW w, ShortWire(U, w), NEW d \in Directions(U), InBudget(d),
         NEW S \in SUBSET Nat, Wired(w, d, S),
         NEW segment \in SegmentsOf(Len(w)), Fitting(d, S, segment),
         NEW R, R = With(S, segment.from, segment.to),
         NEW e, e = PushSegment(d, w, segment)
  PROVE  Pushes(w, d, S, segment, e, R)
<1>1. PICK n \in Nat : n = Len(w)
  BY DEF ShortWire
<1>2. PICK from \in 0..n, to \in 0..n : from = segment.from /\ to = segment.to
  BY <1>1 DEF SegmentsOf
<1>3. n + 1 < SeqSpace /\ SeqSpace \in Nat \ {0} /\ from \in Nat /\ to \in Nat
  BY <1>1, DirectionAssumption DEF ShortWire
<1>4. CASE from < to
  <2>1. SeqAt(from) = from + 1
    <3>1. PICK m \in Int : m = from + 1
      BY <1>3
    <3>2. 0 <= m /\ m < SeqSpace
      BY <1>1, <1>2, <1>3, <3>1
    <3>3. m % SeqSpace = m
      BY <1>3, <3>2, ModSmall
    <3>4. QED
      BY <3>1, <3>3 DEF SeqAt
  <2>2. e = Push(d, from + 1, Part(w, from, to))
    BY <1>2, <1>4, <2>1 DEF PushSegment, Part
  <2>3. PICK t : t = Started(d, from + 1)
    OBVIOUS
  <2>4. /\ t \in Directions(U) /\ InBudget(t) /\ Follows(w, t, S) /\ t.next \notin DOMAIN t.pending
        /\ t.next = (IF d.next = Unset THEN from + 1 ELSE d.next)
        /\ LeavesBehind(d, S, t)
    <3>1. CASE d.next = Unset
      <4>1. d.stream = <<>> /\ d.pending = <<>>
        BY <3>1 DEF Wired, Follows
      <4>2. S = 0..from-1
        BY <1>2, <1>3, <1>4, <3>1 DEF Fitting
      <4>3. t = [d EXCEPT !.next = from + 1]
        BY <2>3, <3>1 DEF Started
      <4>4. from \in 0..Len(w)
        BY <1>1
      <4>5. /\ t \in Directions(U) /\ InBudget(t) /\ Follows(w, t, S)
            /\ t.next \notin DOMAIN t.pending
            /\ t.next = from + 1 /\ At(t) = from /\ Start(t) = from
        BY <3>1, <4>1, <4>2, <4>3, <4>4, FirstFollows
      <4>6. \A q \in S : q < Start(t)
        BY <1>3, <4>2, <4>5
      <4>7. QED
        BY <3>1, <4>5, <4>6 DEF LeavesBehind
    <3>2. CASE d.next # Unset
      <4>1. t = d
        BY <2>3, <3>2 DEF Started, Directions
      <4>2. Start(d) \in Int
        BY Counts
      <4>3. QED
        BY <3>2, <4>1, <4>2 DEF Wired, LeavesBehind
    <3>3. QED
      BY <3>1, <3>2
  <2>5. Takes(U, w, t, from, to, e, S, R)
    <3>1. to \in 1..Len(w) /\ from \in 0..to-1 /\ R = With(S, from, to)
      BY <1>1, <1>2, <1>4
    <3>2. QED
      BY <2>2, <2>3, <2>4, <3>1, PushTakes
  <2>6. e \in Directions(U) /\ Follows(w, e, R) /\ e.next \notin DOMAIN e.pending /\ Start(t) <= Start(e)
    BY <2>5 DEF Takes
  <2>7. Wired(w, e, R) /\ e.next # Unset /\ t.next # Unset
    BY <2>4, <2>6 DEF Wired, Follows
  <2>8. LeavesBehind(d, S, e)
    <3>1. Start(d) \in Int /\ Start(t) \in Int /\ Start(e) \in Int
      BY <2>4, <2>6, Counts
    <3>2. \A q \in S : q \in Int
      OBVIOUS
    <3>3. QED
      BY <2>4, <2>6, <2>7, <3>1, <3>2 DEF LeavesBehind
  <2>9. QED
    BY <2>7, <2>8 DEF Pushes
<1>5. CASE ~(from < to)
  <2>1. from = to
    BY <1>2, <1>3, <1>5 DEF Fitting
  <2>2. R = S
    BY <1>2, <1>3, <2>1 DEF With
  <2>3. CASE segment.syn
    <3>1. S = {} /\ d.next = Unset /\ d.stream = <<>> /\ d.pending = <<>>
      BY <1>2, <1>5, <2>3 DEF Fitting, Wired, Follows
    <3>2. (0 + 1) % SeqSpace = 0 + 1
      BY <1>3, ModSmall
    <3>3. e = [d EXCEPT !.next = 0 + 1]
      BY <1>2, <1>5, <2>3, <3>1, <3>2 DEF PushSegment, PushSyn
    <3>4. 0 \in 0..Len(w) /\ S = 0..0-1
      BY <1>1, <3>1
    <3>5. Follows(w, e, S) /\ e.next \notin DOMAIN e.pending
      BY <3>1, <3>3, <3>4, FirstFollows
    <3>6. LeavesBehind(d, S, e)
      BY <3>1 DEF LeavesBehind
    <3>7. QED
      BY <2>2, <3>5, <3>6 DEF Pushes, Wired, Follows
  <2>4. CASE ~segment.syn
    <3>1. e = d
      BY <1>2, <1>5, <2>4 DEF PushSegment
    <3>2. Start(d) \in Int
      BY Counts
    <3>3. LeavesBehind(d, S, e)
      BY <3>1, <3>2 DEF LeavesBehind
    <3>4. QED
      BY <1>2, <1>5, <2>2, <2>4, <3>1, <3>3 DEF Pushes
  <2>5. QED
    BY <2>3, <2>4
<1>6. QED
  BY <1>4, <1>5

-----------------------------------------------------------------------------
ShortWires == \A f \in DOMAIN Traffic, side \in Sides : Len(Wire[f][side]) + 1 < SeqSpace

\* The wires of a connection.
LEMMA WireIs ==
  ASSUME IInv, ShortWires, NEW f \in DOMAIN Traffic
  PROVE  /\ Carries(f)
         /\ Wire[f].client = Units(Traffic[f].client)
         /\ ShortWire(UnitsOf(Traffic[f].client), Wire[f].client)
         /\ ShortWire(UnitsOf(Traffic[f].server), Wire[f].server)
<1>1. f \in DOMAIN Settings[scenario].traffic /\ scenario \in DOMAIN Settings
  BY DEF Traffic, IInv
<1>2. \A side \in Sides : Wire[f][side] = Units(Traffic[f][side])
  BY <1>1 DEF Wire, Wires, Traffic
<1>3. "client" \in Sides /\ "server" \in Sides
  BY DEF Sides
<1>4. Len(Wire[f].client) + 1 < SeqSpace /\ Len(Wire[f].server) + 1 < SeqSpace
  BY <1>3 DEF ShortWires
<1>5. QED
  BY <1>1, <1>2, <1>3, <1>4, WireShape DEF ShortWire

\* The directions of a flow follow the wires of its connection, and every request
\* that was parsed is behind the client's stream.
Tracks(f, flow, done, got) ==
  /\ Wired(Wire[f].client, flow.client, got.client)
  /\ Wired(Wire[f].server, flow.server, got.server)
  /\ flow.client.next # Unset =>
       \A r : <<f, r>> \in done => StartsIn(Wire[f].client, r, 0, Start(flow.client))

\* Every request that was parsed begins at a position that was received.
Seen(f, done, got) ==
  /\ got.client \subseteq 0..Len(Wire[f].client)-1
  /\ got.server \subseteq 0..Len(Wire[f].server)-1
  /\ \A r : <<f, r>> \in done => \E p \in got.client : Wire[f].client[p + 1] = <<r, 0>>

\* What the loops leave of a flow and of the account.
Tracked(f, flow, settled, done, got, run) ==
  /\ Ordered(f, settled, run)
  /\ run.queued \subseteq {f} \X Nat
  /\ Tracks(f, run.flow, done \union run.queued, got)
  /\ Seen(f, done \union run.queued, got)
  /\ run.flow.client.next = flow.client.next
  /\ run.flow.server.next = flow.server.next

\* A stream that ends at a position and is cut.
LEMMA CutWired ==
  ASSUME NEW U, NEW w, ShortWire(U, w), NEW S, NEW d \in Directions(U), Wired(w, d, S),
         NEW p \in 0..Len(w), d.next # Unset => p = At(d),
         NEW e \in Directions(U), Cut(w, p, d, e)
  PROVE  Wired(w, e, S)
<1>1. e.next = d.next /\ e.pending = d.pending /\ EndsIn(w, e.stream, p)
      /\ Len(e.stream) <= Len(d.stream) /\ e.stream \in Seq(U) /\ Len(e.stream) \in Nat
  BY DEF Cut, SameBut, Directions
<1>2. CASE d.next = Unset
  <2>1. d.stream = <<>> /\ d.pending = <<>>
    BY <1>2 DEF Wired, Follows
  <2>2. e.stream = <<>>
    BY <1>1, <2>1
  <2>3. QED
    BY <1>1, <1>2, <2>1, <2>2 DEF Wired
<1>3. CASE d.next # Unset
  <2>1. Follows(w, d, S) /\ d.next \notin DOMAIN d.pending
    BY <1>3 DEF Wired
  <2>2. At(e) = p /\ At(d) = p
    BY <1>1, <1>3 DEF At
  <2>3. Follows(w, e, S)
    BY <1>1, <2>1, <2>2 DEF Follows
  <2>4. QED
    BY <1>1, <2>1, <2>3 DEF Wired
<1>4. QED
  BY <1>2, <1>3

\* What is in the queue after the loops was there before or has joined it.
LEMMA QueueGrows ==
  ASSUME NEW f, NEW flow, NEW run \in GoodRuns(f, flow)
  PROVE  /\ \A k \in 1..Len(run.flow.requests) :
              <<f, run.flow.requests[k]>> \in QueuedIn(f, flow) \union run.queued
         /\ run.lost \union Reported(run.events) \subseteq QueuedIn(f, flow) \union run.queued
BY DEF GoodRuns, Conserved, QueuedIn

\* The client's loop reads requests in the order of the wire.
LEMMA ClientTracks ==
  ASSUME IInv, ShortWires, NEW f \in DOMAIN Traffic, NEW fin,
         NEW flow \in FlowsOf(Traffic[f]), FlowInBudget(flow),
         NEW done, NEW got, Tracks(f, flow, done, got), Seen(f, done, got),
         QueuedIn(f, flow) \subseteq done, Increasing(flow.requests),
         NEW settled, settled \subseteq done, Behind(f, settled, flow.requests),
         NEW e, e = Parse(f, "client", fin, flow)
  PROVE  Tracked(f, flow, settled, done, got, e)
<1>1. PICK w : w = Wire[f].client
  OBVIOUS
<1>2. PICK U : U = UnitsOf(Traffic[f].client)
  OBVIOUS
<1>3. /\ Carries(f) /\ w = Units(Traffic[f].client) /\ ShortWire(U, w)
      /\ Traffic[f].client \in Seq(Messages)
  BY <1>1, <1>2, WireIs DEF Carries
<1>4. PICK n \in Nat : n = Len(w)
  BY <1>3 DEF ShortWire
<1>5. PICK d : d = flow.client
  OBVIOUS
<1>6. d \in Directions(U) /\ Wired(w, d, got.client) /\ got.client \subseteq 0..n-1
  BY <1>1, <1>2, <1>4, <1>5 DEF Tracks, Seen, FlowsOf
<1>7. PICK l \in Nat : l = Len(d.stream)
  BY <1>6 DEF Directions
<1>8. PICK p : p = IF d.next # Unset THEN At(d) ELSE n
  OBVIOUS
<1>9. /\ p \in 0..n /\ EndsIn(w, d.stream, p) /\ l <= p
      /\ d.next # Unset => p = At(d) /\ Start(d) = p - l /\ 0..p-1 \subseteq got.client
      /\ d.next = Unset => p = n /\ l = 0
  <2>1. CASE d.next # Unset
    BY <1>4, <1>6, <1>7, <1>8, <2>1 DEF Wired, Follows, Start, EndsIn
  <2>2. CASE d.next = Unset
    <3>1. d.stream = <<>>
      BY <1>6, <2>2 DEF Wired, Follows
    <3>2. Len(<<>>) = 0
      OBVIOUS
    <3>3. QED
      BY <1>4, <1>7, <1>8, <2>2, <3>1, <3>2 DEF EndsIn
  <2>3. QED
    BY <2>1, <2>2
<1>10. \A r : <<f, r>> \in done => StartsIn(w, r, 0, p - l)
  <2>1. SUFFICES ASSUME NEW r, <<f, r>> \in done PROVE StartsIn(w, r, 0, p - l)
    OBVIOUS
  <2>2. CASE d.next # Unset
    BY <1>1, <1>5, <1>9, <2>1, <2>2 DEF Tracks
  <2>3. CASE d.next = Unset
    <3>1. PICK q \in got.client : w[q + 1] = <<r, 0>>
      BY <1>1, <2>1 DEF Seen
    <3>2. q + 1 \in 0+1..p-l
      BY <1>6, <1>9, <2>3, <3>1
    <3>3. QED
      BY <3>1, <3>2 DEF StartsIn
  <2>4. QED
    BY <2>2, <2>3
<1>11. \A k \in 1..Len(flow.requests) : <<f, flow.requests[k]>> \in done
  BY DEF QueuedIn
<1>12. e \in ClientRuns(f, w, p, flow)
  <2>1. p \in 0..Len(w) /\ EndsIn(w, flow.client.stream, p)
        /\ \A k \in 1..Len(flow.requests) :
             StartsIn(w, flow.requests[k], 0, p - Len(flow.client.stream))
    BY <1>4, <1>5, <1>7, <1>9, <1>10, <1>11
  <2>2. QED
    BY <1>3, <2>1, ClientParses
<1>13. PICK g : g = e.flow.client
  OBVIOUS
<1>14. PICK requests : requests = e.flow.requests
  OBVIOUS
<1>15. /\ e \in GoodRuns(f, flow) /\ e.events = <<>> /\ e.lost = {}
       /\ e.flow.server = flow.server /\ Cut(w, p, d, g) /\ Increasing(requests)
       /\ \A x \in e.queued :
            \E r \in Nat : x = <<f, r>> /\ StartsIn(w, r, p - l, p - Len(g.stream))
  BY <1>5, <1>7, <1>12, <1>13, <1>14 DEF ClientRuns
<1>16. g \in Directions(U)
  BY <1>2, <1>13, <1>15 DEF GoodRuns, Runs, FlowsOf
<1>17. PICK m \in Nat : m = Len(g.stream)
  BY <1>16 DEF Directions
<1>18. m <= l /\ m <= p /\ g.next = d.next
  BY <1>7, <1>15, <1>17 DEF Cut, EndsIn, SameBut
<1>19. \A r : <<f, r>> \in e.queued => StartsIn(w, r, p - l, p - m)
  BY <1>15, <1>17
<1>20. Behind(f, settled, requests)
  <2>1. SUFFICES ASSUME NEW a, <<f, a>> \in settled, NEW k \in 1..Len(requests)
                 PROVE  a < requests[k]
    BY DEF Behind
  <2>2. PICK b : b = requests[k]
    OBVIOUS
  <2>3. <<f, b>> \in QueuedIn(f, flow) \union e.queued
    BY <1>14, <1>15, <2>1, <2>2, QueueGrows
  <2>4. CASE <<f, b>> \in QueuedIn(f, flow)
    <3>1. PICK j \in 1..Len(flow.requests) : <<f, b>> = <<f, flow.requests[j]>>
      BY <2>4 DEF QueuedIn
    <3>2. b = flow.requests[j]
      BY <3>1
    <3>3. QED
      BY <2>1, <2>2, <3>2 DEF Behind
  <2>5. CASE <<f, b>> \in e.queued
    <3>1. StartsIn(w, b, p - l, p - m) /\ StartsIn(w, a, 0, p - l)
      BY <1>10, <1>19, <2>1, <2>5
    <3>2. PICK i \in 0+1..p-l : w[i] = <<a, 0>>
      BY <3>1 DEF StartsIn
    <3>3. PICK j \in (p-l)+1..p-m : w[j] = <<b, 0>>
      BY <3>1 DEF StartsIn
    <3>4. i \in 1..n /\ j \in 1..n /\ i < j
      BY <1>9, <1>18, <3>2, <3>3
    <3>5. a < b
      BY <1>3, <1>4, <3>2, <3>3, <3>4, LaterMessage
    <3>6. QED
      BY <2>2, <3>5
  <2>6. QED
    BY <2>3, <2>4, <2>5
<1>21. Ordered(f, settled, e)
  <2>1. Reported(e.events) = {} /\ e.lost \union Reported(e.events) = {}
    BY <1>15, NoneReported
  <2>2. InTurn(e.events)
    <3>1. 1..Len(e.events) = {}
      BY <1>15
    <3>2. QED
      BY <3>1 DEF InTurn
  <2>3. Behind(f, settled \union (e.lost \union Reported(e.events)), e.flow.requests)
    BY <1>14, <1>20, <2>1
  <2>4. QED
    BY <1>14, <1>15, <2>1, <2>2, <2>3 DEF Ordered
<1>22. Wired(w, g, got.client)
  BY <1>3, <1>4, <1>6, <1>9, <1>15, <1>16, CutWired
<1>23. ASSUME g.next # Unset, NEW r, <<f, r>> \in done \union e.queued
       PROVE  StartsIn(w, r, 0, Start(g))
  <2>1. Start(g) = p - m
    BY <1>9, <1>17, <1>18, <1>23 DEF Start, At
  <2>2. CASE <<f, r>> \in done
    <3>1. PICK i \in 0+1..p-l : w[i] = <<r, 0>>
      BY <1>10, <2>2 DEF StartsIn
    <3>2. i \in 0+1..p-m
      BY <1>9, <1>18, <3>1
    <3>3. QED
      BY <2>1, <3>1, <3>2 DEF StartsIn
  <2>3. CASE <<f, r>> \in e.queued
    <3>1. PICK i \in (p-l)+1..p-m : w[i] = <<r, 0>>
      BY <1>19, <2>3 DEF StartsIn
    <3>2. i \in 0+1..p-m
      BY <1>9, <1>18, <3>1
    <3>3. QED
      BY <2>1, <3>1, <3>2 DEF StartsIn
  <2>4. QED
    BY <1>23, <2>2, <2>3
<1>24. Tracks(f, e.flow, done \union e.queued, got)
  BY <1>1, <1>13, <1>15, <1>22, <1>23 DEF Tracks
<1>25. ASSUME NEW r, <<f, r>> \in e.queued
       PROVE  \E q \in got.client : w[q + 1] = <<r, 0>>
  <2>1. PICK i \in (p-l)+1..p-m : w[i] = <<r, 0>>
    BY <1>19, <1>25 DEF StartsIn
  <2>2. d.next # Unset
    BY <1>9, <1>18, <2>1
  <2>3. i - 1 \in 0..p-1 /\ (i - 1) + 1 = i
    BY <1>9, <1>18, <2>1
  <2>4. QED
    BY <1>9, <2>1, <2>2, <2>3
<1>26. Seen(f, done \union e.queued, got)
  <2>1. ASSUME NEW r, <<f, r>> \in done \union e.queued
        PROVE  \E q \in got.client : w[q + 1] = <<r, 0>>
    BY <1>1, <1>25, <2>1 DEF Seen
  <2>2. QED
    BY <1>1, <2>1 DEF Seen
<1>27. e.queued \subseteq {f} \X Nat
  BY <1>15
<1>28. QED
  BY <1>5, <1>13, <1>15, <1>18, <1>21, <1>24, <1>26, <1>27 DEF Tracked

\* The server's loop answers the requests in the order of the queue.
LEMMA ServerTracks ==
  ASSUME IInv, ShortWires, NEW f \in DOMAIN Traffic, NEW fin,
         NEW flow \in FlowsOf(Traffic[f]), FlowInBudget(flow),
         NEW done, NEW got, Tracks(f, flow, done, got), Seen(f, done, got),
         QueuedIn(f, flow) \subseteq done, Increasing(flow.requests),
         NEW settled, settled \subseteq done, Behind(f, settled, flow.requests),
         NEW e, e = Parse(f, "server", fin, flow)
  PROVE  Tracked(f, flow, settled, done, got, e)
<1>1. PICK w : w = Wire[f].server
  OBVIOUS
<1>2. PICK U : U = UnitsOf(Traffic[f].server)
  OBVIOUS
<1>3. Carries(f) /\ ShortWire(U, w) /\ w \in Seq(U)
  BY <1>1, <1>2, WireIs DEF ShortWire
<1>4. PICK n \in Nat : n = Len(w)
  BY <1>3
<1>5. PICK d : d = flow.server
  OBVIOUS
<1>6. d \in Directions(U) /\ Wired(w, d, got.server)
  BY <1>1, <1>2, <1>5 DEF Tracks, FlowsOf
<1>7. PICK p : p = IF d.next # Unset THEN At(d) ELSE n
  OBVIOUS
<1>8. p \in 0..Len(w) /\ EndsIn(w, d.stream, p) /\ (d.next # Unset => p = At(d))
  <2>1. CASE d.next # Unset
    BY <1>4, <1>6, <1>7, <2>1 DEF Wired, Follows
  <2>2. CASE d.next = Unset
    <3>1. d.stream = <<>>
      BY <1>6, <2>2 DEF Wired, Follows
    <3>2. Len(<<>>) = 0
      OBVIOUS
    <3>3. QED
      BY <1>4, <1>7, <2>2, <3>1, <3>2 DEF EndsIn
  <2>3. QED
    BY <2>1, <2>2
<1>9. e \in ServerRuns(f, w, p, flow)
  <2>1. w \in Seq(UnitsOf(Traffic[f].server)) /\ EndsIn(w, flow.server.stream, p)
    BY <1>2, <1>3, <1>5, <1>8
  <2>2. QED
    BY <1>3, <1>8, <2>1, ServerParses
<1>10. PICK finished : finished = e.lost \union Reported(e.events)
  OBVIOUS
<1>11. PICK requests : requests = e.flow.requests
  OBVIOUS
<1>12. /\ e \in GoodRuns(f, flow) /\ e.queued = {} /\ e.flow.client = flow.client
       /\ Cut(w, p, d, e.flow.server) /\ Increasing(requests)
       /\ InTurn(e.events) /\ e.lost \intersect Reported(e.events) = {}
       /\ Behind(f, finished, requests) /\ finished \subseteq {f} \X Nat
  BY <1>5, <1>9, <1>10, <1>11 DEF ServerRuns
<1>13. e.flow.server \in Directions(U)
  BY <1>2, <1>12 DEF GoodRuns, Runs, FlowsOf
<1>14. finished \subseteq QueuedIn(f, flow)
       /\ \A k \in 1..Len(requests) : <<f, requests[k]>> \in QueuedIn(f, flow)
  BY <1>10, <1>11, <1>12, QueueGrows
<1>15. ASSUME NEW a, <<f, a>> \in settled, NEW b, <<f, b>> \in QueuedIn(f, flow)
       PROVE  a < b
  <2>1. PICK j \in 1..Len(flow.requests) : <<f, b>> = <<f, flow.requests[j]>>
    BY <1>15 DEF QueuedIn
  <2>2. b = flow.requests[j]
    BY <2>1
  <2>3. QED
    BY <1>15, <2>2 DEF Behind
<1>16. \A a, b : <<f, a>> \in settled /\ <<f, b>> \in finished => a < b
  BY <1>14, <1>15
<1>17. Behind(f, settled \union finished, requests)
  <2>1. SUFFICES ASSUME NEW a, <<f, a>> \in settled \union finished, NEW k \in 1..Len(requests)
                 PROVE  a < requests[k]
    BY DEF Behind
  <2>2. CASE <<f, a>> \in settled
    BY <1>14, <1>15, <2>1, <2>2
  <2>3. CASE <<f, a>> \in finished
    BY <1>12, <2>1, <2>3 DEF Behind
  <2>4. QED
    BY <2>1, <2>2, <2>3
<1>18. Ordered(f, settled, e)
  BY <1>10, <1>11, <1>12, <1>16, <1>17 DEF Ordered
<1>19. Wired(w, e.flow.server, got.server)
  BY <1>3, <1>6, <1>8, <1>12, <1>13, CutWired
<1>20. done \union e.queued = done
  BY <1>12
<1>21. Tracks(f, e.flow, done, got)
  BY <1>1, <1>12, <1>19 DEF Tracks
<1>22. e.flow.server.next = flow.server.next
  BY <1>5, <1>12 DEF Cut, SameBut
<1>23. QED
  BY <1>12, <1>18, <1>20, <1>21, <1>22 DEF Tracked

-----------------------------------------------------------------------------
KeepsFlows == /\ "late" \notin Network
              /\ IsFiniteSet(DOMAIN Traffic) /\ Cardinality(DOMAIN Traffic) <= MaxFlows

\* A position more that is received does not change what a direction follows.
LEMMA WiredMore ==
  ASSUME NEW w, NEW d, NEW S, NEW R, S \subseteq R, Wired(w, d, S)
  PROVE  Wired(w, d, R)
BY FollowsMore DEF Wired

\* The positions received, with those of a segment.
Adds(got, side, segment) ==
  [got EXCEPT ![side] = @ \union (segment.from..segment.to-1)]

\* What Adds says of each side.
LEMMA ReceivedIs ==
  ASSUME NEW got \in [Sides -> SUBSET Nat], NEW side \in Sides, NEW segment,
         segment.from \in Nat, segment.to \in Nat,
         NEW more, more = Adds(got, side, segment)
  PROVE  /\ more \in [Sides -> SUBSET Nat]
         /\ side = "client" => /\ more.client = With(got.client, segment.from, segment.to)
                               /\ more.server = got.server
         /\ side = "server" => /\ more.server = With(got.server, segment.from, segment.to)
                               /\ more.client = got.client
<1>1. PICK a, b : a = segment.from /\ b = segment.to
  OBVIOUS
<1>2. \A q \in a..b-1 : q \in Nat
  BY <1>1
<1>3. more = [got EXCEPT ![side] = @ \union (a..b-1)]
  BY <1>1 DEF Adds
<1>4. "client" \in Sides /\ "server" \in Sides
  BY DEF Sides
<1>5. more \in [Sides -> SUBSET Nat]
  BY <1>2, <1>3
<1>6. QED
  BY <1>1, <1>3, <1>4, <1>5 DEF With

\* push keeps a flow on the wires of its connection.
LEMMA PushTracks ==
  ASSUME IInv, ShortWires, NEW f \in DOMAIN Traffic, NEW side \in Sides,
         NEW flow \in FlowsOf(Traffic[f]), FlowInBudget(flow),
         NEW segment \in SegmentsOf(Len(Wire[f][side])),
         NEW done, NEW got \in [Sides -> SUBSET Nat],
         Tracks(f, flow, done, got), Seen(f, done, got),
         Fitting(flow[side], got[side], segment),
         NEW more, more = Adds(got, side, segment),
         NEW pushed, pushed = Pushed(flow, side, Wire[f][side], segment)
  PROVE  /\ Tracks(f, pushed, done, more)
         /\ Seen(f, done, more)
         /\ pushed.requests = flow.requests
         /\ flow.client.next # Unset => pushed.client.next # Unset
         /\ flow.server.next # Unset => pushed.server.next # Unset
         /\ segment.from < segment.to \/ segment.syn => pushed[side].next # Unset
<1>1. PICK U, V : U = UnitsOf(Traffic[f].client) /\ V = UnitsOf(Traffic[f].server)
  OBVIOUS
<1>2. PICK v, w : v = Wire[f].client /\ w = Wire[f].server
  OBVIOUS
<1>3. ShortWire(U, v) /\ ShortWire(V, w)
  BY <1>1, <1>2, WireIs
<1>4. PICK m \in Nat, n \in Nat : m = Len(v) /\ n = Len(w)
  BY <1>3 DEF ShortWire
<1>5. PICK c, s : c = flow.client /\ s = flow.server
  OBVIOUS
<1>6. /\ c \in Directions(U) /\ InBudget(c) /\ Wired(v, c, got.client)
      /\ s \in Directions(V) /\ InBudget(s) /\ Wired(w, s, got.server)
      /\ got.client \subseteq 0..m-1 /\ got.server \subseteq 0..n-1
  BY <1>1, <1>2, <1>4, <1>5 DEF Tracks, Seen, FlowsOf, FlowInBudget
<1>7. got.client \in SUBSET Nat /\ got.server \in SUBSET Nat
  BY DEF Sides
<1>8. CASE side = "client"
  <2>1. PICK e : e = PushSegment(c, v, segment)
    OBVIOUS
  <2>2. segment \in SegmentsOf(m)
    BY <1>2, <1>4, <1>8
  <2>3. segment.from \in 0..m /\ segment.to \in 0..m
    BY <2>2 DEF SegmentsOf
  <2>4. more.client = With(got.client, segment.from, segment.to) /\ more.server = got.server
    BY <1>8, <2>3, ReceivedIs
  <2>5. Fitting(c, got.client, segment)
    BY <1>5, <1>8
  <2>6. Pushes(v, c, got.client, segment, e, more.client)
    BY <1>3, <1>4, <1>6, <1>7, <2>1, <2>2, <2>4, <2>5, PushWires
  <2>7. pushed = [flow EXCEPT !.client = e]
    BY <1>2, <1>5, <1>8, <2>1 DEF Pushed
  <2>8. pushed.client = e /\ pushed.server = s /\ pushed.requests = flow.requests
    BY <1>5, <2>7 DEF FlowsOf
  <2>9. e \in Directions(U) /\ Start(e) \in Int /\ Start(c) \in Int
    BY <1>3, <1>4, <1>6, <2>1, <2>2, PushSegmentKeeps, Counts DEF ShortWire
  <2>10. ASSUME e.next # Unset, NEW r, <<f, r>> \in done PROVE StartsIn(v, r, 0, Start(e))
    <3>1. CASE c.next # Unset
      <4>1. PICK i \in 0+1..Start(c) : v[i] = <<r, 0>>
        BY <1>2, <1>5, <2>10, <3>1 DEF Tracks, StartsIn
      <4>2. Start(c) <= Start(e)
        BY <2>6, <2>10, <3>1 DEF Pushes, LeavesBehind
      <4>3. i \in 0+1..Start(e)
        BY <2>9, <4>1, <4>2
      <4>4. QED
        BY <4>1, <4>3 DEF StartsIn
    <3>2. CASE c.next = Unset
      <4>1. PICK q \in got.client : v[q + 1] = <<r, 0>>
        BY <1>2, <2>10 DEF Seen
      <4>2. q < Start(e)
        BY <2>6, <2>10, <3>2, <4>1 DEF Pushes, LeavesBehind
      <4>3. q + 1 \in 0+1..Start(e)
        BY <1>6, <2>9, <4>1, <4>2
      <4>4. QED
        BY <4>1, <4>3 DEF StartsIn
    <3>3. QED
      BY <3>1, <3>2
  <2>11. Tracks(f, pushed, done, more)
    BY <1>2, <1>6, <2>4, <2>6, <2>8, <2>10 DEF Tracks, Pushes
  <2>12. Seen(f, done, more)
    <3>1. \A q \in more.client : q \in 0..m-1
      BY <1>6, <2>3, <2>4 DEF With
    <3>2. got.client \subseteq more.client
      BY <2>4 DEF With
    <3>3. QED
      BY <1>2, <1>4, <1>6, <2>4, <3>1, <3>2 DEF Seen
  <2>13. QED
    BY <1>5, <1>8, <2>6, <2>8, <2>11, <2>12 DEF Pushes
<1>9. CASE side = "server"
  <2>1. PICK e : e = PushSegment(s, w, segment)
    OBVIOUS
  <2>2. segment \in SegmentsOf(n)
    BY <1>2, <1>4, <1>9
  <2>3. segment.from \in 0..n /\ segment.to \in 0..n
    BY <2>2 DEF SegmentsOf
  <2>4. more.server = With(got.server, segment.from, segment.to) /\ more.client = got.client
    BY <1>9, <2>3, ReceivedIs
  <2>5. Fitting(s, got.server, segment)
    BY <1>5, <1>9
  <2>6. Pushes(w, s, got.server, segment, e, more.server)
    BY <1>3, <1>4, <1>6, <1>7, <2>1, <2>2, <2>4, <2>5, PushWires
  <2>7. pushed = [flow EXCEPT !.server = e]
    BY <1>2, <1>5, <1>9, <2>1 DEF Pushed
  <2>8. pushed.server = e /\ pushed.client = c /\ pushed.requests = flow.requests
    BY <1>5, <2>7 DEF FlowsOf
  <2>9. Tracks(f, pushed, done, more)
    BY <1>2, <1>5, <1>6, <2>4, <2>6, <2>8 DEF Tracks, Pushes
  <2>10. Seen(f, done, more)
    <3>1. \A q \in more.server : q \in 0..n-1
      BY <1>6, <2>3, <2>4 DEF With
    <3>2. QED
      BY <1>2, <1>4, <1>6, <2>4, <3>1 DEF Seen
  <2>11. QED
    BY <1>5, <1>9, <2>6, <2>8, <2>9, <2>10 DEF Pushes
<1>10. QED
  BY <1>8, <1>9 DEF Sides

\* A new flow has seen nothing.
LEMMA NewFlowTracks ==
  ASSUME NEW f, NEW done, NEW got, NEW flow, flow = NewFlow
  PROVE  /\ Tracks(f, flow, done, got)
         /\ Increasing(flow.requests)
         /\ \A settled : Behind(f, settled, flow.requests)
<1>1. flow.requests = <<>> /\ flow.client = NewDirection /\ flow.server = NewDirection
  BY DEF NewFlow
<1>2. NewDirection.next = Unset /\ NewDirection.stream = <<>> /\ NewDirection.pending = <<>>
  BY DEF NewDirection
<1>3. 1..Len(<<>>) = {}
  OBVIOUS
<1>4. QED
  BY <1>1, <1>2, <1>3 DEF Tracks, Wired, Increasing, Behind

\* With room for all connections process drops no flow.
LEMMA NoVictims ==
  ASSUME IInv, KeepsFlows, NEW f \in DOMAIN Traffic
  PROVE  Victims(f) = {}
<1>1. SUFFICES ASSUME TableFull(f) PROVE FALSE
  BY DEF Victims
<1>2. PICK D, T : D = DOMAIN flows /\ T = DOMAIN Traffic
  OBVIOUS
<1>3. /\ f \notin D /\ Cardinality(D) >= MaxFlows /\ D \subseteq T /\ f \in T
      /\ IsFiniteSet(T) /\ Cardinality(T) <= MaxFlows /\ MaxFlows \in Nat
  BY <1>1, <1>2, WireShape DEF TableFull, IInv, TableOK, KeepsFlows
<1>4. Cardinality(D) \in Nat /\ Cardinality(T) \in Nat /\ IsFiniteSet(D)
  BY <1>3, FS_Subset, FS_CardinalityType
<1>5. PICK E : E = D \union {f}
  OBVIOUS
<1>6. E \subseteq T
  BY <1>3, <1>5
<1>7. Cardinality(E) = Cardinality(D) + 1
  BY <1>3, <1>4, <1>5, FS_AddElement
<1>8. Cardinality(E) <= Cardinality(T)
  BY <1>3, <1>6, FS_Subset
<1>9. QED
  BY <1>3, <1>4, <1>7, <1>8

\* What process leaves of the connection of a segment, and of the others.
Processed(f, side, segment, flow, more) ==
  /\ OrderOK(flows', events', evicted', unreadable')
  /\ Seen(f, parsed', more)
  /\ \A g, r : g # f /\ <<g, r>> \in parsed' => <<g, r>> \in parsed
  /\ \A g \in DOMAIN flows' \ {f} : g \in DOMAIN flows /\ flows'[g] = flows[g]
  /\ KeepsFlows => DOMAIN flows \ {f} \subseteq DOMAIN flows'
  /\ ~segment.rst =>
       /\ f \in DOMAIN flows'
       /\ Tracks(f, flows'[f], parsed', more)
       /\ flow.client.next # Unset => flows'[f].client.next # Unset
       /\ flow.server.next # Unset => flows'[f].server.next # Unset
       /\ segment.from < segment.to \/ segment.syn => flows'[f][side].next # Unset

\* A segment that process takes and that does not reset the flow: afterwards the flow
\* follows what its connection has received.
LEMMA ProcessTracks ==
  ASSUME IInv, ShortWires, OrderOK(flows, events, evicted, unreadable),
         NEW f \in DOMAIN Traffic, NEW side \in Sides,
         NEW segment \in SegmentsOf(Len(Wire[f][side])), ProcessSegment(f, side, segment),
         NEW flow, flow = (IF f \in DOMAIN flows THEN flows[f] ELSE NewFlow),
         NEW got \in [Sides -> SUBSET Nat], Seen(f, parsed, got),
         f \in DOMAIN flows => Tracks(f, flows[f], parsed, got),
         Fitting(flow[side], got[side], segment),
         NEW more, more = Adds(got, side, segment)
  PROVE  Processed(f, side, segment, flow, more)
<1>1. PICK settled : settled = Settled(events, evicted, unreadable)
  OBVIOUS
<1>2. settled \subseteq parsed
  BY <1>1 DEF Settled, IInv, AccountOK
<1>3. /\ flow \in FlowsOf(Traffic[f]) /\ FlowInBudget(flow)
      /\ QueuedIn(f, flow) \subseteq parsed
      /\ Tracks(f, flow, parsed, got)
      /\ Increasing(flow.requests) /\ Behind(f, settled, flow.requests)
  <2>1. CASE f \in DOMAIN flows
    <3>1. flow \in FlowsOf(Traffic[f]) /\ FlowInBudget(flow)
      BY <2>1 DEF IInv, TableOK
    <3>2. QueuedIn(f, flow) \subseteq parsed
      BY <2>1 DEF IInv, AccountOK, QueuedOf
    <3>3. QED
      BY <1>1, <2>1, <3>1, <3>2 DEF OrderOK
  <2>2. CASE f \notin DOMAIN flows
    BY <2>2, NewFlowShape, NewFlowTracks
  <2>3. QED
    BY <2>1, <2>2
<1>4. PICK units : units = Wire[f][side]
  OBVIOUS
<1>5. PICK pushed : pushed = Pushed(flow, side, units, segment)
  OBVIOUS
<1>6. /\ Tracks(f, pushed, parsed, more)
      /\ Seen(f, parsed, more)
      /\ pushed.requests = flow.requests
      /\ flow.client.next # Unset => pushed.client.next # Unset
      /\ flow.server.next # Unset => pushed.server.next # Unset
      /\ segment.from < segment.to \/ segment.syn => pushed[side].next # Unset
  <2>1. pushed = Pushed(flow, side, Wire[f][side], segment)
    BY <1>4, <1>5
  <2>2. QED
    BY ONLY IInv, ShortWires, f \in DOMAIN Traffic, side \in Sides,
            segment \in SegmentsOf(Len(Wire[f][side])), got \in [Sides -> SUBSET Nat],
            Seen(f, parsed, got), Fitting(flow[side], got[side], segment),
            more = Adds(got, side, segment),
            <1>3, <2>1, PushTracks
<1>7. /\ side = "client" => units \in Seq(UnitsOf(Traffic[f].client))
      /\ side = "server" => units \in Seq(UnitsOf(Traffic[f].server))
  BY <1>4, WireShape DEF IInv
<1>8. pushed \in FlowsOf(Traffic[f]) /\ FlowInBudget(pushed)
      /\ QueuedIn(f, pushed) = QueuedIn(f, flow)
  BY <1>3, <1>4, <1>5, <1>7, PushedShape
<1>9. PICK run : run = Parse(f, side, segment.fin, pushed)
  OBVIOUS
<1>10. Tracked(f, pushed, settled, parsed, more, run)
  <2>1. QueuedIn(f, pushed) \subseteq parsed /\ Increasing(pushed.requests)
        /\ Behind(f, settled, pushed.requests)
    BY <1>3, <1>6, <1>8
  <2>2. CASE side = "client"
    BY <1>2, <1>6, <1>8, <1>9, <2>1, <2>2, ClientTracks
  <2>3. CASE side = "server"
    BY <1>2, <1>6, <1>8, <1>9, <2>1, <2>3, ServerTracks
  <2>4. QED
    BY <2>2, <2>3 DEF Sides
<1>11. run \in Runs(Traffic[f])
  <2>1. Carries(f)
    BY WireShape DEF IInv
  <2>2. QED
    BY <1>8, <1>9, <2>1, ParseKeeps DEF GoodRuns
<1>12. PICK victims : victims = Victims(f)
  OBVIOUS
<1>13. Leave(f, segment.rst, victims, run)
  BY <1>4, <1>5, <1>9, <1>12 DEF ProcessSegment, Pushed
<1>14. OrderOK(flows', events', evicted', unreadable')
  <2>1. Ordered(f, Settled(events, evicted, unreadable), run)
    BY <1>1, <1>10 DEF Tracked
  <2>2. QED
    BY <1>11, <1>12, <1>13, <2>1, LeaveOrders
<1>15. parsed' = parsed \union run.queued
  BY <1>13 DEF Leave
<1>16. /\ Seen(f, parsed', more)
       /\ Tracks(f, run.flow, parsed', more)
       /\ \A g, r : g # f /\ <<g, r>> \in parsed' => <<g, r>> \in parsed
       /\ run.flow.client.next = pushed.client.next
       /\ run.flow.server.next = pushed.server.next
  BY <1>10, <1>15 DEF Tracked
<1>17. PICK others : others = Restrict(flows, DOMAIN flows \ (victims \union {f}))
  OBVIOUS
<1>18. /\ DOMAIN others = DOMAIN flows \ (victims \union {f})
       /\ \A g \in DOMAIN others : others[g] = flows[g]
  BY <1>17 DEF Restrict
<1>19. flows' = IF segment.rst THEN others ELSE Insert(others, f, run.flow)
  BY <1>13, <1>17 DEF Leave
<1>20. /\ \A g \in DOMAIN flows' \ {f} : g \in DOMAIN others /\ flows'[g] = others[g]
       /\ DOMAIN others \subseteq DOMAIN flows'
       /\ ~segment.rst => f \in DOMAIN flows' /\ flows'[f] = run.flow
  BY <1>19 DEF Insert
<1>21. KeepsFlows => DOMAIN flows \ {f} \subseteq DOMAIN flows'
  <2>1. SUFFICES ASSUME KeepsFlows PROVE DOMAIN flows \ {f} \subseteq DOMAIN flows'
    OBVIOUS
  <2>2. victims = {}
    BY <1>12, <2>1, NoVictims
  <2>3. QED
    BY <1>18, <1>20, <2>2
<1>22. segment.from < segment.to \/ segment.syn => run.flow[side].next # Unset
  BY <1>6, <1>16 DEF Sides
<1>23. QED
  BY <1>6, <1>14, <1>16, <1>18, <1>20, <1>21, <1>22 DEF Processed

-----------------------------------------------------------------------------
InOrder == MaxGap = 0 /\ "duplicate" \notin Network
Orderly == ShortWires /\ (KeepsFlows \/ InOrder)

\* The positions before one of them.
Gapless(S) == \E n \in Nat : S = 0..n-1

\* What holds of a connection that goes on.
ConnectionOK(f, table, done, got, stage) ==
  /\ Seen(f, done, got)
  /\ stage = "new" => got.client = {} /\ got.server = {}
  /\ InOrder => Gapless(got.client) /\ Gapless(got.server)
  /\ KeepsFlows /\ stage = "open" =>
       f \in DOMAIN table /\ table[f].client.next # Unset /\ table[f].server.next # Unset
  /\ f \in DOMAIN table => Tracks(f, table[f], done, got)

WiresOK(table, done, got, stages) ==
  /\ got \in [Flows -> [Sides -> SUBSET Nat]]
  /\ \A f \in DOMAIN Traffic :
       stages[f] \in {"new", "open"} => ConnectionOK(f, table, done, got[f], stages[f])

\* Some position is the first that was not received.
LEMMA PrefixIs ==
  ASSUME NEW f, NEW side, NEW size \in Nat, size = Len(Wire[f][side]),
         NEW S, S = received[f][side], S \subseteq 0..size-1,
         NEW p, p = Prefix(f, side)
  PROVE  p \in 0..size /\ 0..p-1 \subseteq S /\ p \notin S
<1> DEFINE Missing == {n \in Nat : n \notin S}
<1>1. size \in Missing
  OBVIOUS
<1>2. PICK n \in Missing : \A m \in Missing : n <= m
  BY <1>1, LeastNatural
<1>3. n <= size
  BY <1>1, <1>2
<1>4. \A m \in 0..n-1 : m \in S
  <2>1. SUFFICES ASSUME NEW m \in 0..n-1, m \notin S PROVE FALSE
    OBVIOUS
  <2>2. m \in Missing /\ m < n
    BY <1>2, <2>1
  <2>3. QED
    BY <1>2, <2>2
<1>5. n \in 0..size /\ 0..n-1 \subseteq S /\ n \notin S
  BY <1>2, <1>3, <1>4
<1>6. p = CHOOSE x \in 0..size : 0..x-1 \subseteq S /\ x \notin S
  BY DEF Prefix
<1>7. QED
  BY <1>5, <1>6

\* The first position that was not received.
FirstMissing(S, size, p) == p \in 0..size /\ 0..p-1 \subseteq S /\ p \notin S

\* The prefix of a side is the first of its positions that was not received.
LEMMA PrefixMissing ==
  ASSUME NEW f, NEW side, NEW size \in Nat, size = Len(Wire[f][side]),
         NEW S, S = received[f][side], S \subseteq 0..size-1
  PROVE  \A p : p = Prefix(f, side) => FirstMissing(S, size, p)
<1>1. PICK p : p = Prefix(f, side)
  OBVIOUS
<1>2. p \in 0..size /\ 0..p-1 \subseteq S /\ p \notin S
  BY <1>1, PrefixIs, SMTT(60)
<1>3. FirstMissing(S, size, p)
  BY <1>2 DEF FirstMissing
<1>4. QED
  BY <1>1, <1>3

\* What is captured from a connection that goes on fits its flow.
LEMMA OnWireFits ==
  ASSUME IInv, Orderly, NEW f \in DOMAIN Traffic, NEW side \in Sides, NEW s \in OnWire(f, side),
         ConnectionOK(f, flows, parsed, received[f], "open"),
         NEW flow, flow = (IF f \in DOMAIN flows THEN flows[f] ELSE NewFlow),
         NEW S, S = received[f][side]
  PROVE  /\ s \in SegmentsOf(Len(Wire[f][side])) /\ s.from < s.to /\ ~s.syn /\ ~s.rst
         /\ Fitting(flow[side], S, s)
         /\ InOrder => Gapless(With(S, s.from, s.to))
<1>1. s \in SegmentsOf(Len(Wire[f][side])) /\ s.from < s.to /\ ~s.syn /\ ~s.rst
  BY WireSegments DEF OnWire
<1>2. PICK size \in Nat : size = Len(Wire[f][side])
  BY WireSegments
<1>3. S \subseteq 0..size-1
  BY <1>2 DEF ConnectionOK, Seen, Sides
<1>4. PICK p : p = Prefix(f, side)
  OBVIOUS
<1>5. p \in 0..size /\ 0..p-1 \subseteq S /\ p \notin S
  <2>1. FirstMissing(S, size, p)
    BY <1>2, <1>3, <1>4, PrefixMissing, ZenonT(60)
  <2>2. QED
    BY <2>1 DEF FirstMissing
<1>6. PICK a \in 0..size, b \in 0..size : a = s.from /\ b = s.to
  BY <1>1, <1>2 DEF SegmentsOf
<1>7. ASSUME InOrder PROVE S = 0..a-1 /\ Gapless(With(S, s.from, s.to))
  <2>1. PICK n \in Nat : S = 0..n-1
    BY <1>7 DEF ConnectionOK, Gapless, Sides
  <2>2. n = p
    BY <1>5, <2>1
  <2>3. a <= p /\ a..b-1 \intersect S = {}
    BY <1>4, <1>6, <1>5, <1>7 DEF OnWire, InOrder
  <2>4. a < b
    BY <1>1, <1>6
  <2>5. a = n
    BY <1>5, <2>1, <2>2, <2>3, <2>4
  <2>6. With(S, s.from, s.to) = 0..b-1
    BY <1>6, <2>1, <2>4, <2>5 DEF With
  <2>7. QED
    BY <2>1, <2>5, <2>6 DEF Gapless
<1>8. ASSUME flow[side].next = Unset PROVE InOrder
  <2>1. SUFFICES ASSUME KeepsFlows PROVE FALSE
    BY DEF Orderly
  <2>2. flow.client.next # Unset /\ flow.server.next # Unset
    BY <2>1 DEF ConnectionOK
  <2>3. QED
    BY <1>8, <2>2 DEF Sides
<1>9. Fitting(flow[side], S, s)
  BY <1>1, <1>6, <1>7, <1>8 DEF Fitting
<1>10. QED
  BY <1>1, <1>7, <1>9

\* What holds of a connection goes on holding when its flow is the same, or has
\* gone and may.
LEMMA ConnectionKeeps ==
  ASSUME NEW f, NEW table, NEW done, NEW got, NEW stage, ConnectionOK(f, table, done, got, stage),
         NEW after, f \in DOMAIN after => f \in DOMAIN table /\ after[f] = table[f],
         KeepsFlows /\ stage = "open" /\ f \in DOMAIN table => f \in DOMAIN after,
         NEW now, \A r : <<f, r>> \in now => <<f, r>> \in done
  PROVE  ConnectionOK(f, after, now, got, stage)
BY DEF ConnectionOK, Seen, Tracks

\* A segment of a connection keeps what holds of all connections.
LEMMA SegmentOrders ==
  ASSUME IInv, Orderly, OrderOK(flows, events, evicted, unreadable),
         WiresOK(flows, parsed, received, connection),
         NEW f \in DOMAIN Traffic, connection[f] \in {"new", "open"}, NEW side \in Sides,
         NEW segment \in SegmentsOf(Len(Wire[f][side])), ProcessSegment(f, side, segment),
         NEW flow, flow = (IF f \in DOMAIN flows THEN flows[f] ELSE NewFlow),
         Fitting(flow[side], received[f][side], segment),
         NEW more, more = Adds(received[f], side, segment),
         NEW stage, segment.rst => stage = "reset",
         stage = "new" => more.client = {} /\ more.server = {},
         stage = "open" =>
           \/ connection[f] = "open"
           \/ side = "server" /\ segment.syn /\ flow.client.next # Unset,
         InOrder /\ ~segment.rst => Gapless(more.client) /\ Gapless(more.server),
         received' = [received EXCEPT ![f] = more],
         connection' = [connection EXCEPT ![f] = stage]
  PROVE  /\ OrderOK(flows', events', evicted', unreadable')
         /\ WiresOK(flows', parsed', received', connection')
<1>1. /\ received \in [Flows -> [Sides -> SUBSET Nat]]
      /\ \A g \in DOMAIN Traffic : connection[g] \in {"new", "open"} =>
           ConnectionOK(g, flows, parsed, received[g], connection[g])
  BY DEF WiresOK
<1>2. f \in Flows /\ connection \in [Flows -> {"new", "open", "reset", "gone"}]
      /\ \A g \in DOMAIN Traffic : g \in Flows
  BY WireShape DEF IInv, Live, Carries
<1>3. PICK got \in [Sides -> SUBSET Nat] : got = received[f]
  BY <1>1, <1>2
<1>4. ConnectionOK(f, flows, parsed, got, connection[f])
  BY <1>1, <1>3
<1>5. Processed(f, side, segment, flow, more)
  <2>1. Seen(f, parsed, got) /\ (f \in DOMAIN flows => Tracks(f, flows[f], parsed, got))
    BY <1>4 DEF ConnectionOK
  <2>2. ShortWires
    BY DEF Orderly
  <2>3. QED
    BY <1>3, <2>1, <2>2, ProcessTracks
<1>6. more \in [Sides -> SUBSET Nat]
  <2>1. Len(Wire[f][side]) \in Nat
    BY WireSegments
  <2>2. segment.from \in Nat /\ segment.to \in Nat
    BY <2>1 DEF SegmentsOf
  <2>3. QED
    BY <1>3, <2>2, ReceivedIs
<1>7. received' \in [Flows -> [Sides -> SUBSET Nat]]
  BY <1>1, <1>6
<1>8. ASSUME NEW g \in DOMAIN Traffic, connection'[g] \in {"new", "open"}
      PROVE  ConnectionOK(g, flows', parsed', received'[g], connection'[g])
  <2>1. CASE g = f
    <3>1. received'[g] = more /\ connection'[g] = stage
      BY <1>1, <1>2, <2>1
    <3>2. ~segment.rst /\ stage \in {"new", "open"}
      BY <1>8, <3>1
    <3>3. KeepsFlows /\ stage = "open" =>
            flows'[f].client.next # Unset /\ flows'[f].server.next # Unset
      <4>1. SUFFICES ASSUME KeepsFlows, stage = "open"
                     PROVE  flows'[f].client.next # Unset /\ flows'[f].server.next # Unset
        OBVIOUS
      <4>2. CASE connection[f] = "open"
        <5>1. flow.client.next # Unset /\ flow.server.next # Unset
          BY <1>4, <4>1, <4>2 DEF ConnectionOK
        <5>2. QED
          BY <1>5, <3>2, <5>1 DEF Processed
      <4>3. CASE side = "server" /\ segment.syn /\ flow.client.next # Unset
        BY <1>5, <3>2, <4>3 DEF Processed
      <4>4. QED
        BY <4>1, <4>2, <4>3
    <3>4. /\ Seen(f, parsed', more) /\ f \in DOMAIN flows'
          /\ Tracks(f, flows'[f], parsed', more)
      BY <1>5, <3>2 DEF Processed
    <3>5. ConnectionOK(f, flows', parsed', more, stage)
      BY <3>2, <3>3, <3>4 DEF ConnectionOK
    <3>6. QED
      BY <2>1, <3>1, <3>5
  <2>2. CASE g # f
    <3>1. received'[g] = received[g] /\ connection'[g] = connection[g]
      BY <1>1, <1>2, <2>2
    <3>2. ConnectionOK(g, flows, parsed, received[g], connection[g])
      BY <1>1, <1>8, <3>1
    <3>3. /\ g \in DOMAIN flows' => g \in DOMAIN flows /\ flows'[g] = flows[g]
          /\ KeepsFlows /\ g \in DOMAIN flows => g \in DOMAIN flows'
          /\ \A r : <<g, r>> \in parsed' => <<g, r>> \in parsed
      BY <1>5, <2>2 DEF Processed
    <3>4. ConnectionOK(g, flows', parsed', received[g], connection[g])
      BY <3>2, <3>3, ConnectionKeeps
    <3>5. QED
      BY <3>1, <3>4
  <2>3. QED
    BY <2>1, <2>2
<1>9. OrderOK(flows', events', evicted', unreadable')
  BY <1>5 DEF Processed
<1>10. QED
  BY <1>7, <1>8, <1>9 DEF WiresOK

\* A reset without payload, and expire_idle.
LEMMA ResetWires ==
  ASSUME IInv, WiresOK(flows, parsed, received, connection),
         NEW f \in DOMAIN Traffic, ProcessReset(f),
         NEW more \in [Sides -> SUBSET Nat],
         received' = [received EXCEPT ![f] = more],
         connection' = [connection EXCEPT ![f] = "reset"]
  PROVE  WiresOK(flows', parsed', received', connection')
<1>1. /\ received \in [Flows -> [Sides -> SUBSET Nat]]
      /\ \A g \in DOMAIN Traffic : connection[g] \in {"new", "open"} =>
           ConnectionOK(g, flows, parsed, received[g], connection[g])
  BY DEF WiresOK
<1>2. f \in Flows /\ connection \in [Flows -> {"new", "open", "reset", "gone"}]
      /\ \A g \in DOMAIN Traffic : g \in Flows
  BY WireShape DEF IInv, Live, Carries
<1>3. received' \in [Flows -> [Sides -> SUBSET Nat]]
  BY <1>1
<1>4. /\ flows' = Restrict(flows, DOMAIN flows \ {f}) /\ parsed' = parsed
  BY DEF ProcessReset
<1>5. DOMAIN flows' = DOMAIN flows \ {f} /\ \A g \in DOMAIN flows' : flows'[g] = flows[g]
  BY <1>4 DEF Restrict
<1>6. ASSUME NEW g \in DOMAIN Traffic, connection'[g] \in {"new", "open"}
      PROVE  ConnectionOK(g, flows', parsed', received'[g], connection'[g])
  <2>1. g # f
    BY <1>2, <1>6
  <2>2. received'[g] = received[g] /\ connection'[g] = connection[g]
    BY <1>1, <1>2, <2>1
  <2>3. ConnectionOK(g, flows, parsed, received[g], connection[g])
    BY <1>1, <1>6, <2>2
  <2>4. /\ g \in DOMAIN flows' => g \in DOMAIN flows /\ flows'[g] = flows[g]
        /\ KeepsFlows /\ connection[g] = "open" /\ g \in DOMAIN flows => g \in DOMAIN flows'
        /\ \A r : <<g, r>> \in parsed' => <<g, r>> \in parsed
    BY <1>4, <1>5, <2>1
  <2>5. ConnectionOK(g, flows', parsed', received[g], connection[g])
    BY <2>3, <2>4, ConnectionKeeps
  <2>6. QED
    BY <2>2, <2>5
<1>7. QED
  BY <1>3, <1>6 DEF WiresOK

\* So does expire_oldest_flows, when no flow it drops belongs to a connection in use.
LEMMA ExpireWires ==
  ASSUME IInv, WiresOK(flows, parsed, received, connection),
         NEW n \in 1..Len(recency), ExpireOldestFlows(n),
         "late" \in Network \/ \A i \in 1..n : connection[recency[i]] \notin {"new", "open"},
         received' = received, connection' = connection
  PROVE  WiresOK(flows', parsed', received', connection')
<1>1. /\ received \in [Flows -> [Sides -> SUBSET Nat]]
      /\ \A g \in DOMAIN Traffic : connection[g] \in {"new", "open"} =>
           ConnectionOK(g, flows, parsed, received[g], connection[g])
  BY DEF WiresOK
<1>2. PICK expired : expired = SubSeq(recency, 1, n)
  OBVIOUS
<1>3. flows' = Restrict(flows, DOMAIN flows \ ToSet(expired)) /\ parsed' = parsed
  BY <1>2 DEF ExpireOldestFlows
<1>4. DOMAIN flows' = DOMAIN flows \ ToSet(expired) /\ \A g \in DOMAIN flows' : flows'[g] = flows[g]
  BY <1>3 DEF Restrict
<1>5. \A g \in ToSet(expired) : \E i \in 1..n : g = recency[i]
  <2>1. recency \in Seq(Flows)
    BY DEF IInv, TableOK
  <2>2. PICK m \in Nat : m = Len(recency)
    BY <2>1
  <2>3. n \in 1..m
    BY <2>2
  <2>4. DOMAIN expired = 1..n /\ \A i \in 1..n : expired[i] = recency[i]
    BY <1>2, <2>1, <2>2, <2>3
  <2>5. QED
    BY <2>4 DEF ToSet
<1>6. ASSUME NEW g \in DOMAIN Traffic, connection[g] \in {"new", "open"}
      PROVE  ConnectionOK(g, flows', parsed', received[g], connection[g])
  <2>1. ConnectionOK(g, flows, parsed, received[g], connection[g])
    BY <1>1, <1>6
  <2>2. KeepsFlows /\ g \in DOMAIN flows => g \in DOMAIN flows'
    <3>1. SUFFICES ASSUME KeepsFlows, g \in ToSet(expired) PROVE FALSE
      BY <1>4
    <3>2. PICK i \in 1..n : g = recency[i]
      BY <1>5, <3>1
    <3>3. QED
      BY <1>6, <3>1, <3>2 DEF KeepsFlows
  <2>3. /\ g \in DOMAIN flows' => g \in DOMAIN flows /\ flows'[g] = flows[g]
        /\ \A r : <<g, r>> \in parsed' => <<g, r>> \in parsed
    BY <1>3, <1>4
  <2>4. QED
    BY <2>1, <2>2, <2>3, ConnectionKeeps
<1>7. QED
  BY <1>1, <1>6 DEF WiresOK

-----------------------------------------------------------------------------
(* The actions.                                                            *)

\* The order of the requests and the wires, as they are and after a step of the
\* same scenario.
OrdersNow ==
  /\ OrderOK(flows, events, evicted, unreadable)
  /\ WiresOK(flows, parsed, received, connection)
OrdersNext ==
  /\ OrderOK(flows', events', evicted', unreadable')
  /\ WiresOK(flows', parsed', received', connection')

\* A handshake keeps the order and the positions of the flows.
LEMMA HandshakeOrders ==
  ASSUME IInv, Orderly, OrdersNow, NEW f \in Flows, Handshake(f)
  PROVE  OrdersNext
<1>1. connection[f] = "new" /\ f \in DOMAIN Traffic
  BY DEF Handshake, IInv, Live
<1>2. PICK side \in Sides :
        /\ side = "server" => f \in DOMAIN flows /\ flows[f].client.next # Unset
        /\ f \in DOMAIN flows => flows[f][side].next = Unset
        /\ Process(f, side, [Empty(0) EXCEPT !.syn = TRUE])
        /\ connection' = [connection EXCEPT ![f] = IF side = "server" THEN "open" ELSE @]
  BY DEF Handshake
<1>3. PICK segment : segment = [Empty(0) EXCEPT !.syn = TRUE]
  OBVIOUS
<1>4. segment.from = 0 /\ segment.to = 0 /\ segment.syn /\ ~segment.rst
      /\ segment \in SegmentsOf(Len(Wire[f][side]))
  <2>1. PICK size \in Nat : size = Len(Wire[f][side])
    BY <1>1, WireSegments
  <2>2. PICK e \in SegmentsOf(size) : e = Empty(0)
    BY <2>1, EmptyShape
  <2>3. e.from = 0 /\ e.to = 0 /\ ~e.rst
    BY <2>2 DEF Empty
  <2>4. segment = [e EXCEPT !.syn = TRUE]
    BY <1>3, <2>2
  <2>5. QED
    BY <2>1, <2>3, <2>4 DEF SegmentsOf
<1>5. PICK flow : flow = IF f \in DOMAIN flows THEN flows[f] ELSE NewFlow
  OBVIOUS
<1>6. flow[side].next = Unset
  <2>1. NewFlow.client.next = Unset /\ NewFlow.server.next = Unset
    BY DEF NewFlow, NewDirection
  <2>2. QED
    BY <1>2, <1>5, <2>1 DEF Sides
<1>7. received \in [Flows -> [Sides -> SUBSET Nat]] /\ received[f].client = {}
      /\ received[f].server = {}
  BY <1>1 DEF OrdersNow, WiresOK, ConnectionOK
<1>8. PICK more : more = Adds(received[f], side, segment)
  OBVIOUS
<1>9. more = received[f]
  <2>1. 0..0-1 = {}
    OBVIOUS
  <2>2. received[f][side] \union (0..0-1) = received[f][side]
    BY <2>1
  <2>3. received[f] \in [Sides -> SUBSET Nat]
    BY <1>7
  <2>4. QED
    BY <1>4, <1>8, <2>2, <2>3 DEF Adds
<1>10. Fitting(flow[side], received[f][side], segment)
  BY <1>4, <1>6, <1>7 DEF Fitting, Sides
<1>11. PICK stage : stage = IF side = "server" THEN "open" ELSE "new"
  OBVIOUS
<1>12. connection' = [connection EXCEPT ![f] = stage]
  BY <1>1, <1>2, <1>11
<1>13. received' = [received EXCEPT ![f] = more]
  BY <1>7, <1>9 DEF Handshake
<1>14. ProcessSegment(f, side, segment)
  BY <1>2, <1>3, <1>4 DEF Process
<1>15. Gapless({})
  <2>1. {} = 0..0-1
    OBVIOUS
  <2>2. QED
    BY <2>1 DEF Gapless
<1>16. /\ stage = "new" => more.client = {} /\ more.server = {}
       /\ stage = "open" => side = "server" /\ segment.syn /\ flow.client.next # Unset
       /\ Gapless(more.client) /\ Gapless(more.server)
  BY <1>2, <1>4, <1>5, <1>7, <1>9, <1>11, <1>15
<1>17. QED
  BY <1>1, <1>4, <1>5, <1>8, <1>10, <1>12, <1>13, <1>14, <1>16, SegmentOrders
     DEF OrdersNow, OrdersNext

\* What a segment adds to the positions of a connection without gaps.
LEMMA AddsGapless ==
  ASSUME NEW f \in Flows, received \in [Flows -> [Sides -> SUBSET Nat]],
         Gapless(received[f].client), Gapless(received[f].server), NEW side \in Sides,
         NEW segment, segment.from \in Nat, segment.to \in Nat,
         Gapless(With(received[f][side], segment.from, segment.to)),
         NEW more, more = Adds(received[f], side, segment)
  PROVE  Gapless(more.client) /\ Gapless(more.server)
<1>1. received[f] \in [Sides -> SUBSET Nat]
  OBVIOUS
<1>2. QED
  BY <1>1, ReceivedIs DEF Sides

\* A segment that the socket shows keeps them: it is one of those the condition allows.
LEMMA CaptureOrders ==
  ASSUME IInv, Orderly, OrdersNow, NEW f \in Flows, Capture(f)
  PROVE  OrdersNext
<1>1. connection[f] = "open" /\ f \in DOMAIN Traffic /\ connection' = connection
  BY DEF Capture, IInv, Live
<1>2. PICK side \in Sides : \E s \in OnWire(f, side) :
        /\ Process(f, side, s)
        /\ received' = [received EXCEPT ![f][side] = @ \union (s.from..s.to-1)]
  BY DEF Capture
<1>3. PICK s \in OnWire(f, side) :
        /\ Process(f, side, s)
        /\ received' = [received EXCEPT ![f][side] = @ \union (s.from..s.to-1)]
  BY <1>2
<1>4. PICK flow : flow = IF f \in DOMAIN flows THEN flows[f] ELSE NewFlow
  OBVIOUS
<1>5. /\ received \in [Flows -> [Sides -> SUBSET Nat]]
      /\ ConnectionOK(f, flows, parsed, received[f], "open")
      /\ connection \in [Flows -> {"new", "open", "reset", "gone"}]
  BY <1>1 DEF OrdersNow, WiresOK, IInv, Live
<1>6. /\ s \in SegmentsOf(Len(Wire[f][side])) /\ s.from < s.to /\ ~s.syn /\ ~s.rst
      /\ Fitting(flow[side], received[f][side], s)
      /\ InOrder => Gapless(With(received[f][side], s.from, s.to))
  BY <1>1, <1>4, <1>5, OnWireFits
<1>7. PICK more : more = Adds(received[f], side, s)
  OBVIOUS
<1>8. received' = [received EXCEPT ![f] = more]
  BY <1>3, <1>7 DEF Adds
<1>9. connection' = [connection EXCEPT ![f] = "open"]
  BY <1>1, <1>5
<1>10. ASSUME InOrder PROVE Gapless(more.client) /\ Gapless(more.server)
  <2>1. s.from \in Nat /\ s.to \in Nat
    BY <1>1, <1>6, WireSegments DEF SegmentsOf
  <2>2. Gapless(received[f].client) /\ Gapless(received[f].server)
    BY <1>5, <1>10 DEF ConnectionOK
  <2>3. Gapless(With(received[f][side], s.from, s.to))
    BY <1>6, <1>10
  <2>4. QED
    BY <1>5, <1>7, <2>1, <2>2, <2>3, AddsGapless
<1>11. ProcessSegment(f, side, s)
  BY <1>3, <1>6 DEF Process
<1>12. QED
  BY <1>1, <1>4, <1>6, <1>7, <1>8, <1>9, <1>10, <1>11, SegmentOrders DEF OrdersNow, OrdersNext

\* A FIN keeps them: it carries nothing, after the end of the wire.
LEMMA FinishOrders ==
  ASSUME IInv, Orderly, OrdersNow, NEW f \in Flows, Finish(f)
  PROVE  OrdersNext
<1>1. connection[f] = "open" /\ f \in DOMAIN Traffic /\ connection' = connection
      /\ received' = received
  BY DEF Finish, IInv, Live
<1>2. PICK side \in Sides : Process(f, side, [Empty(Len(Wire[f][side])) EXCEPT !.fin = TRUE])
  BY DEF Finish
<1>3. PICK size \in Nat : size = Len(Wire[f][side])
  BY <1>1, WireSegments
<1>4. PICK segment : segment = [Empty(size) EXCEPT !.fin = TRUE]
  OBVIOUS
<1>5. segment.from = size /\ segment.to = size /\ ~segment.syn /\ ~segment.rst
      /\ segment \in SegmentsOf(size)
  <2>1. PICK e \in SegmentsOf(size) : e = Empty(size)
    BY EmptyShape
  <2>2. e.from = size /\ e.to = size /\ ~e.syn /\ ~e.rst
    BY <2>1 DEF Empty
  <2>3. segment = [e EXCEPT !.fin = TRUE]
    BY <1>4, <2>1
  <2>4. QED
    BY <2>2, <2>3 DEF SegmentsOf
<1>6. PICK flow : flow = IF f \in DOMAIN flows THEN flows[f] ELSE NewFlow
  OBVIOUS
<1>7. /\ received \in [Flows -> [Sides -> SUBSET Nat]]
      /\ ConnectionOK(f, flows, parsed, received[f], "open")
      /\ connection \in [Flows -> {"new", "open", "reset", "gone"}]
  BY <1>1 DEF OrdersNow, WiresOK, IInv, Live
<1>8. PICK more : more = Adds(received[f], side, segment)
  OBVIOUS
<1>9. more = received[f]
  <2>1. size..size-1 = {}
    OBVIOUS
  <2>2. received[f][side] \union (size..size-1) = received[f][side]
    BY <2>1
  <2>3. received[f] \in [Sides -> SUBSET Nat]
    BY <1>7
  <2>4. QED
    BY <1>5, <1>8, <2>2, <2>3 DEF Adds
<1>10. Fitting(flow[side], received[f][side], segment)
  BY <1>5 DEF Fitting
<1>11. connection' = [connection EXCEPT ![f] = "open"] /\ received' = [received EXCEPT ![f] = more]
  BY <1>1, <1>7, <1>9
<1>12. ProcessSegment(f, side, segment)
  <2>1. Process(f, side, segment)
    BY <1>2, <1>3, <1>4
  <2>2. QED
    BY <1>5, <2>1 DEF Process
<1>13. InOrder => Gapless(more.client) /\ Gapless(more.server)
  BY <1>7, <1>9 DEF ConnectionOK
<1>14. segment \in SegmentsOf(Len(Wire[f][side])) /\ segment.rst = FALSE
  BY <1>3, <1>4, <1>5 DEF Empty
<1>15. PICK stage : stage = "open"
  OBVIOUS
<1>16. /\ segment.rst => stage = "reset"
       /\ stage = "new" => more.client = {} /\ more.server = {}
       /\ connection[f] = "open" /\ connection' = [connection EXCEPT ![f] = stage]
       /\ InOrder /\ ~segment.rst => Gapless(more.client) /\ Gapless(more.server)
  BY <1>1, <1>11, <1>13, <1>14, <1>15
<1>17. /\ OrderOK(flows, events, evicted, unreadable)
       /\ WiresOK(flows, parsed, received, connection)
  BY DEF OrdersNow
<1>18. connection[f] \in {"new", "open"} /\ f \in DOMAIN Traffic
       /\ received' = [received EXCEPT ![f] = more]
  BY <1>1, <1>11
<1>19. OrderOK(flows', events', evicted', unreadable')
       /\ WiresOK(flows', parsed', received', connection')
  BY ONLY IInv, Orderly, <1>6, <1>8, <1>10, <1>12, <1>14, <1>16, <1>17, <1>18,
          side \in Sides, SegmentOrders
<1>20. QED
  BY <1>19 DEF OrdersNext

\* A reset keeps them: the flow goes, or what the segment carries is processed first.
LEMMA ResetActionOrders ==
  ASSUME IInv, Orderly, OrdersNow, NEW f \in Flows, Reset(f)
  PROVE  OrdersNext
<1>1. connection[f] = "open" /\ f \in DOMAIN Traffic
      /\ connection' = [connection EXCEPT ![f] = "reset"]
  BY DEF Reset, IInv, Live
<1>2. PICK side \in Sides : \E s \in OnWire(f, side) \union {Empty(Prefix(f, side))} :
        /\ Process(f, side, [s EXCEPT !.rst = TRUE])
        /\ received' = [received EXCEPT ![f][side] = @ \union (s.from..s.to-1)]
  BY DEF Reset
<1>3. PICK s \in OnWire(f, side) \union {Empty(Prefix(f, side))} :
        /\ Process(f, side, [s EXCEPT !.rst = TRUE])
        /\ received' = [received EXCEPT ![f][side] = @ \union (s.from..s.to-1)]
  BY <1>2
<1>4. PICK segment : segment = [s EXCEPT !.rst = TRUE]
  OBVIOUS
<1>5. PICK size \in Nat : size = Len(Wire[f][side])
  BY <1>1, WireSegments
<1>6. /\ received \in [Flows -> [Sides -> SUBSET Nat]]
      /\ ConnectionOK(f, flows, parsed, received[f], "open")
  BY <1>1 DEF OrdersNow, WiresOK
<1>7. PICK p \in 0..size : p = Prefix(f, side)
  <2>1. received[f][side] \subseteq 0..size-1
    BY <1>5, <1>6 DEF ConnectionOK, Seen, Sides
  <2>2. PICK p, S : p = Prefix(f, side) /\ S = received[f][side]
    OBVIOUS
  <2>3. FirstMissing(S, size, p)
    BY <1>5, <2>1, <2>2, PrefixMissing, ZenonT(60)
  <2>4. QED
    BY <2>2, <2>3 DEF FirstMissing
<1>8. /\ s \in SegmentsOf(size)
      /\ segment.from = s.from /\ segment.to = s.to /\ segment.syn = s.syn /\ segment.rst
      /\ segment \in SegmentsOf(size)
  <2>1. s \in SegmentsOf(size)
    BY <1>1, <1>5, <1>7, WireSegments, EmptyShape
  <2>2. QED
    BY <1>4, <2>1 DEF SegmentsOf
<1>9. PICK more : more = Adds(received[f], side, segment)
  OBVIOUS
<1>10. received' = [received EXCEPT ![f] = more]
  BY <1>3, <1>8, <1>9 DEF Adds
<1>11. CASE segment.from = segment.to
  <2>1. ProcessReset(f)
    BY <1>3, <1>4, <1>8, <1>11 DEF Process
  <2>2. more \in [Sides -> SUBSET Nat]
    <3>1. segment.from \in Nat /\ segment.to \in Nat /\ received[f] \in [Sides -> SUBSET Nat]
      BY <1>6, <1>8 DEF SegmentsOf
    <3>2. QED
      BY <1>9, <3>1, ReceivedIs
  <2>3. OrderOK(flows', events', evicted', unreadable')
    BY <1>1, <2>1, ResetOrders DEF OrdersNow
  <2>4. WiresOK(flows', parsed', received', connection')
    BY <1>1, <1>10, <2>1, <2>2, ResetWires DEF OrdersNow
  <2>5. QED
    BY <2>3, <2>4 DEF OrdersNext
<1>12. CASE segment.from # segment.to
  <2>1. s \in OnWire(f, side)
    BY <1>3, <1>8, <1>12 DEF Empty
  <2>2. PICK flow : flow = IF f \in DOMAIN flows THEN flows[f] ELSE NewFlow
    OBVIOUS
  <2>3. s.from < s.to /\ ~s.syn /\ Fitting(flow[side], received[f][side], s)
    BY <1>1, <1>6, <2>1, <2>2, OnWireFits
  <2>4. Fitting(flow[side], received[f][side], segment)
    BY <1>8, <2>3 DEF Fitting
  <2>5. ProcessSegment(f, side, segment)
    BY <1>3, <1>4, <1>12 DEF Process
  <2>6. QED
    BY <1>1, <1>5, <1>8, <1>9, <1>10, <2>2, <2>4, <2>5, SegmentOrders DEF OrdersNow, OrdersNext
<1>13. QED
  BY <1>11, <1>12

\* A segment that the capture misses keeps them: the positions received grow and the
\* flow stays.
LEMMA MissOrders ==
  ASSUME IInv, Orderly, OrdersNow, NEW f \in Flows, Miss(f)
  PROVE  OrdersNext
<1>1. connection[f] = "open" /\ f \in DOMAIN Traffic /\ connection' = connection
      /\ UNCHANGED engineVars
  BY DEF Miss, IInv, Live
<1>2. PICK side \in Sides : \E s \in OnWire(f, side) :
        received' = [received EXCEPT ![f][side] = @ \union (s.from..s.to-1)]
  BY DEF Miss
<1>3. PICK s \in OnWire(f, side) :
        received' = [received EXCEPT ![f][side] = @ \union (s.from..s.to-1)]
  BY <1>2
<1>4. /\ received \in [Flows -> [Sides -> SUBSET Nat]]
      /\ \A g \in DOMAIN Traffic : connection[g] \in {"new", "open"} =>
           ConnectionOK(g, flows, parsed, received[g], connection[g])
  BY DEF OrdersNow, WiresOK
<1>5. ConnectionOK(f, flows, parsed, received[f], "open")
  BY <1>1, <1>4
<1>6. PICK flow : flow = IF f \in DOMAIN flows THEN flows[f] ELSE NewFlow
  OBVIOUS
<1>7. PICK size \in Nat : size = Len(Wire[f][side])
  BY <1>1, WireSegments
<1>8. s \in SegmentsOf(size) /\ (InOrder => Gapless(With(received[f][side], s.from, s.to)))
  BY <1>1, <1>5, <1>6, <1>7, OnWireFits
<1>9. s.from \in 0..size /\ s.to \in 0..size
  BY <1>8 DEF SegmentsOf
<1>10. PICK more : more = Adds(received[f], side, s)
  OBVIOUS
<1>11. received' = [received EXCEPT ![f] = more]
  BY <1>3, <1>10 DEF Adds
<1>12. /\ more \in [Sides -> SUBSET Nat]
       /\ received[f].client \subseteq more.client /\ received[f].server \subseteq more.server
       /\ \A p \in more.client : p \in received[f].client \/ (side = "client" /\ p \in 0..size-1)
       /\ \A p \in more.server : p \in received[f].server \/ (side = "server" /\ p \in 0..size-1)
  <2>1. PICK got \in [Sides -> SUBSET Nat] : got = received[f]
    BY <1>4
  <2>2. s.from \in Nat /\ s.to \in Nat
    BY <1>9
  <2>3. /\ more \in [Sides -> SUBSET Nat]
        /\ side = "client" => /\ more.client = With(got.client, s.from, s.to)
                              /\ more.server = got.server
        /\ side = "server" => /\ more.server = With(got.server, s.from, s.to)
                              /\ more.client = got.client
    BY <1>10, <2>1, <2>2, ReceivedIs
  <2>4. \A S : S \subseteq With(S, s.from, s.to)
               /\ \A p \in With(S, s.from, s.to) : p \in S \/ p \in 0..size-1
    BY <1>9 DEF With
  <2>5. side = "client" \/ side = "server"
    BY DEF Sides
  <2>6. CASE side = "client"
    BY <2>1, <2>3, <2>4, <2>6
  <2>7. CASE side = "server"
    BY <2>1, <2>3, <2>4, <2>7
  <2>8. QED
    BY <2>5, <2>6, <2>7
<1>13. Seen(f, parsed, more)
  <2>1. Seen(f, parsed, received[f])
    BY <1>5 DEF ConnectionOK
  <2>2. QED
    BY <1>7, <1>12, <2>1 DEF Seen
<1>14. f \in DOMAIN flows => Tracks(f, flows[f], parsed, more)
  <2>1. SUFFICES ASSUME f \in DOMAIN flows PROVE Tracks(f, flows[f], parsed, more)
    OBVIOUS
  <2>2. Tracks(f, flows[f], parsed, received[f])
    BY <1>5, <2>1 DEF ConnectionOK
  <2>3. QED
    BY <1>12, <2>2, WiredMore DEF Tracks
<1>15. InOrder => Gapless(more.client) /\ Gapless(more.server)
  <2>1. SUFFICES ASSUME InOrder PROVE Gapless(more.client) /\ Gapless(more.server)
    OBVIOUS
  <2>2. Gapless(received[f].client) /\ Gapless(received[f].server)
        /\ Gapless(With(received[f][side], s.from, s.to))
    BY <1>5, <1>8, <2>1 DEF ConnectionOK
  <2>3. s.from \in Nat /\ s.to \in Nat
    BY <1>9
  <2>4. QED
    BY <1>4, <1>10, <2>2, <2>3, AddsGapless
<1>16. ConnectionOK(f, flows, parsed, more, "open")
  BY <1>5, <1>13, <1>14, <1>15 DEF ConnectionOK
<1>17. received' \in [Flows -> [Sides -> SUBSET Nat]]
  BY <1>4, <1>11, <1>12
<1>18. ASSUME NEW g \in DOMAIN Traffic, connection[g] \in {"new", "open"}
       PROVE  ConnectionOK(g, flows, parsed, received'[g], connection[g])
  <2>1. g \in Flows
    BY WireShape DEF IInv, Carries
  <2>2. CASE g = f
    BY <1>1, <1>4, <1>11, <1>16, <2>2
  <2>3. CASE g # f
    BY <1>4, <1>11, <1>18, <2>1, <2>3
  <2>4. QED
    BY <2>2, <2>3
<1>19. flows' = flows /\ events' = events /\ evicted' = evicted /\ unreadable' = unreadable
       /\ parsed' = parsed
  BY <1>1 DEF engineVars
<1>20. WiresOK(flows', parsed', received', connection')
  BY <1>1, <1>17, <1>18, <1>19 DEF WiresOK
<1>21. QED
  BY <1>19, <1>20 DEF OrdersNow, OrdersNext

\* A connection that goes quiet, the expiry of idle flows and a stutter keep them.
LEMMA OtherOrders ==
  ASSUME IInv, Orderly, OrdersNow,
         \/ \E f \in Flows : GoQuiet(f)
         \/ ExpireIdle
         \/ UNCHANGED vars
  PROVE  OrdersNext
<1>1. CASE \E f \in Flows : GoQuiet(f)
  <2>1. PICK f \in Flows : GoQuiet(f)
    BY <1>1
  <2>2. /\ connection' = [connection EXCEPT ![f] = "gone"]
        /\ flows' = flows /\ events' = events /\ evicted' = evicted /\ unreadable' = unreadable
        /\ parsed' = parsed /\ received' = received
    BY <2>1 DEF GoQuiet, engineVars
  <2>3. connection \in [Flows -> {"new", "open", "reset", "gone"}]
    BY DEF IInv, Live
  <2>4. \A g \in DOMAIN Traffic : connection'[g] \in {"new", "open"} => connection'[g] = connection[g]
    <3>1. \A g \in DOMAIN Traffic : g \in Flows
      BY WireShape DEF IInv, Carries
    <3>2. QED
      BY <2>2, <2>3, <3>1
  <2>5. WiresOK(flows', parsed', received', connection')
    BY <2>2, <2>4 DEF OrdersNow, WiresOK
  <2>6. QED
    BY <2>2, <2>5 DEF OrdersNow, OrdersNext
<1>2. CASE ExpireIdle
  <2>1. PICK n \in 1..Len(recency) :
          /\ "late" \in Network \/ \A i \in 1..n : connection[recency[i]] \notin {"new", "open"}
          /\ ExpireOldestFlows(n)
    BY <1>2 DEF ExpireIdle
  <2>2. received' = received /\ connection' = connection
    BY <1>2 DEF ExpireIdle
  <2>3. QED
    BY <2>1, <2>2, ExpireOrders, ExpireWires DEF OrdersNow, OrdersNext
<1>3. CASE UNCHANGED vars
  <2>1. /\ flows' = flows /\ events' = events /\ evicted' = evicted /\ unreadable' = unreadable
        /\ parsed' = parsed /\ received' = received /\ connection' = connection
    BY <1>3 DEF vars, engineVars
  <2>2. QED
    BY <2>1 DEF OrdersNow, OrdersNext
<1>4. QED
  BY <1>1, <1>2, <1>3

\* Every action keeps the requests of every connection in order.
LEMMA NextOrders ==
  ASSUME IInv, Orderly, OrdersNow, [Next]_vars
  PROVE  OrdersNow' /\ (Orderly' <=> Orderly)
<1>1. OrdersNext
  BY HandshakeOrders, CaptureOrders, MissOrders, FinishOrders, ResetActionOrders, OtherOrders DEF Next
<1>2. scenario' = scenario
  BY DEF Next, Handshake, Capture, Miss, Finish, Reset, GoQuiet, ExpireIdle, vars
<1>3. Traffic' = Traffic /\ Wire' = Wire /\ Network' = Network /\ MaxFlows' = MaxFlows /\ MaxGap' = MaxGap
  BY <1>2 DEF Traffic, Wire, Network, MaxFlows, MaxGap
<1>4. OrdersNow'
  BY <1>1, <1>3 DEF OrdersNow, OrdersNext, WiresOK, ConnectionOK, Seen, Tracks, InOrder, KeepsFlows
<1>5. Orderly' <=> Orderly
  BY <1>3 DEF Orderly, ShortWires, KeepsFlows, InOrder
<1>6. QED
  BY <1>4, <1>5

\* At the start no connection has carried anything.
LEMMA InitOrders ==
  Init => OrdersNow
<1> SUFFICES ASSUME Init PROVE OrdersNow
  OBVIOUS
<1>1. /\ flows = <<>> /\ events = <<>> /\ evicted = {} /\ unreadable = {} /\ parsed = {}
      /\ received = [f \in Flows |-> [side \in Sides |-> {}]]
  BY DEF Init
<1>2. DOMAIN <<>> = {} /\ 1..Len(<<>>) = {}
  OBVIOUS
<1>3. OrderOK(flows, events, evicted, unreadable)
  <2>1. InTurn(events)
    BY <1>1, <1>2 DEF InTurn
  <2>2. QED
    BY <1>1, <1>2, <2>1 DEF OrderOK
<1>4. \A f \in Flows : received[f].client = {} /\ received[f].server = {}
  BY <1>1 DEF Sides
<1>5. Gapless({})
  <2>1. {} = 0..0-1
    OBVIOUS
  <2>2. QED
    BY <2>1 DEF Gapless
<1>6. IInv
  BY InitKeeps
<1>7. \A f \in DOMAIN Traffic : f \in Flows
  BY <1>6, WireShape DEF IInv, Carries
<1>8. \A f \in Flows : connection[f] = "open" => ~KeepsFlows
  BY DEF Init, KeepsFlows
<1>9. \A f \in DOMAIN Traffic :
        connection[f] \in {"new", "open"} =>
          ConnectionOK(f, flows, parsed, received[f], connection[f])
  BY <1>1, <1>2, <1>4, <1>5, <1>7, <1>8 DEF ConnectionOK, Seen
<1>10. received \in [Flows -> [Sides -> SUBSET Nat]]
  BY <1>1
<1>11. QED
  BY <1>3, <1>9, <1>10 DEF OrdersNow, WiresOK

\* A request that the engine parsed is in one place, and is reported once and in
\* the order of its connection, in every scenario whose wires are shorter than the
\* sequence space and where the capture shows segments in order, or no flow is
\* dropped while its connection goes on.
THEOREM OrderedRequests ==
  Spec => [](Orderly => RequestsAccounted)
<1> DEFINE Inv == IInv /\ (Orderly => OrdersNow)
<1>1. Init => Inv
  BY InitKeeps, InitOrders
<1>2. Inv /\ [Next]_vars => Inv'
  <2> SUFFICES ASSUME Inv, [Next]_vars PROVE Inv'
    OBVIOUS
  <2>1. IInv'
    BY NextKeeps
  <2>2. scenario' = scenario
    BY DEF Next, Handshake, Capture, Miss, Finish, Reset, GoQuiet, ExpireIdle, vars
  <2>3. Orderly' => Orderly
    <3>1. Traffic' = Traffic /\ Wire' = Wire /\ Network' = Network /\ MaxFlows' = MaxFlows
          /\ MaxGap' = MaxGap
      BY <2>2 DEF Traffic, Wire, Network, MaxFlows, MaxGap
    <3>2. QED
      BY <3>1 DEF Orderly, ShortWires, KeepsFlows, InOrder
  <2>4. Orderly' => OrdersNow'
    BY <2>3, NextOrders
  <2>5. QED
    BY <2>1, <2>4
<1>3. Inv => (Orderly => RequestsAccounted)
  BY OrderedIsAccounted DEF OrdersNow
<1>4. QED
  BY <1>1, <1>2, <1>3, PTL DEF Spec

-----------------------------------------------------------------------------
(* What a scenario has to keep to for its events to be true.               *)

\* A message that says itself where it ends, in a way that the parser understands.
Delimited(message, isRequest, afterHead) ==
  IF message.chunked THEN message.trailers
  ELSE IF message.length # Unset THEN message.length = message.body
  ELSE (isRequest \/ Bodiless(message, afterHead)) /\ message.body = 0

\* The capture shows a side in order and whole; or it shows nothing twice.
Seamless == MaxGap = 0 /\ MaxMisses = 0
OnceOnly == "duplicate" \notin Network

\* The final responses answer the requests in turn: done[i] is how many of the
\* first i responses are final.
Pairing(f, done) ==
  /\ done[0] = 0
  /\ \A i \in 1..Len(Traffic[f].server) :
       LET response == Traffic[f].server[i] IN
       IF Interim(response.status) THEN done[i] = done[i - 1]
       ELSE done[i] = done[i - 1] + 1 /\ response.answers = done[i]
Pairings(f) == [0..Len(Traffic[f].server) -> 0..Len(Traffic[f].client)]

\* A request can be read.  So can an interim response.  A final response comes after
\* its request; it ends by itself or, as the last one of a capture that shows
\* everything in order, with the connection.
ResponseHonest(f, i) ==
  LET response == Traffic[f].server[i] IN
  IF Interim(response.status)
  THEN response.readable /\ Delimited(response, FALSE, FALSE)
  ELSE /\ \A p \in 1..Len(Wire[f].client) :
            Wire[f].client[p][1] = response.answers => p <= response.after
       /\ \/ Delimited(response, FALSE, AnswersHead(f, i))
          \/ /\ UntilEnd(response, AnswersHead(f, i))
             /\ i = Len(Traffic[f].server) /\ Seamless

Honest(f) ==
  /\ \A i \in 1..Len(Traffic[f].client) :
       LET request == Traffic[f].client[i] IN
       request.readable /\ Delimited(request, TRUE, FALSE)
  /\ \A i \in 1..Len(Traffic[f].server) : ResponseHonest(f, i)
  /\ \E done \in Pairings(f) : Pairing(f, done)

Faithful ==
  /\ KeepsFlows /\ ShortWires
  /\ Seamless \/ OnceOnly
  /\ \A f \in DOMAIN Traffic :
       /\ Honest(f)
       /\ \A side \in Sides : Len(Wire[f][side]) <= StreamLimit

-----------------------------------------------------------------------------
(* A flow in step with its connection.                                     *)

\* The position behind each message of a wire, and the requests that each number of
\* responses has answered.
Edges(messages) == CHOOSE start : Layout(messages, Units(messages), start)
Done(f) == CHOOSE done \in Pairings(f) : Pairing(f, done)

\* The requests a+1..m.
IsQueue(requests, a, m) ==
  Len(requests) = m - a /\ \A i \in 1..m-a : requests[i] = a + i

\* The parser has taken the first m messages, and the next one is not whole.
TookRequests(f, d, m) ==
  LET edges == Edges(Traffic[f].client) IN
  /\ Start(d) = edges[m]
  /\ m < Len(Traffic[f].client) => At(d) < edges[m + 1]

\* A direction waits for what the capture will not show again.
Stuck(d, S) == At(d) \in S

Told(f, i, es) == \E e \in 1..Len(es) : es[e].flow = f /\ es[e].response = i

\* Response k+1 has not arrived up to position p, or it ends with its connection.
AllRead(f, p, k) ==
  LET responses == Traffic[f].server IN
  k < Len(responses) /\ ~UntilEnd(responses[k + 1], AnswersHead(f, k + 1))
    => p < Edges(responses)[k + 1]

TookResponses(f, flow, m, k, es) ==
  LET edges == Edges(Traffic[f].server)
      responses == Traffic[f].server IN
  /\ Start(flow.server) = edges[k]
  /\ Done(f)[k] <= m
  /\ IsQueue(flow.requests, Done(f)[k], m)
  /\ \A i \in 1..k : responses[i].readable /\ ~Interim(responses[i].status) => Told(f, i, es)
  /\ AllRead(f, At(flow.server), k)

InStep(f, flow, got, es) ==
  /\ flow.client.next # Unset /\ flow.server.next # Unset
  /\ \E m \in 0..Len(Traffic[f].client) :
       /\ TookRequests(f, flow.client, m)
       /\ \/ \E k \in 0..Len(Traffic[f].server) :
               TookResponses(f, flow, m, k, es)
          \/ flow.requests = <<>> /\ Stuck(flow.client, got.client)

Reached(flow, got) ==
  Seamless => /\ got.client = 0..At(flow.client)-1
              /\ got.server = 0..At(flow.server)-1

\* What the server has sent was asked for.
Asked(f, got) ==
  \A p \in got.server :
    0..Traffic[f].server[Wire[f].server[p + 1][1]].after-1 \subseteq got.client

Fresh(flow) ==
  /\ flow.client.stream = <<>> /\ flow.client.pending = <<>> /\ flow.client.next \in {Unset, 1}
  /\ flow.server.stream = <<>> /\ flow.server.pending = <<>> /\ flow.server.next = Unset
  /\ flow.requests = <<>>

EventTrue(e) ==
  e.response # 0 =>
    /\ Traffic[e.flow].server[e.response].answers = e.request
    /\ e.units = UnitsOfMessage(Traffic[e.flow].server, e.response)

EventsTrue(es) == \A i \in 1..Len(es) : EventTrue(es[i])

\* What holds of a connection that goes on.
StageTrue(f, table, got, stage, es) ==
  /\ stage = "new" /\ f \in DOMAIN table => Fresh(table[f])
  /\ stage = "open" => Asked(f, got) /\ InStep(f, table[f], got, es) /\ Reached(table[f], got)

\* The invariant, and what a step of the same scenario leaves.
TrueNow ==
  /\ misses \in Nat /\ misses <= MaxMisses
  /\ EventsTrue(events)
  /\ \A f \in DOMAIN Traffic : StageTrue(f, flows, received[f], connection[f], events)
TrueNext ==
  /\ misses' \in Nat /\ misses' <= MaxMisses
  /\ EventsTrue(events')
  /\ \A f \in DOMAIN Traffic : StageTrue(f, flows', received'[f], connection'[f], events')

-----------------------------------------------------------------------------
(* The parser and whole messages.                                          *)

\* Edges is the layout of a wire.
LEMMA EdgesAre ==
  ASSUME NEW messages \in Seq(Messages)
  PROVE  Layout(messages, Units(messages), Edges(messages))
BY UnitsLayout DEF Edges

\* Done pairs the responses of an honest connection.
LEMMA DoneIs ==
  ASSUME NEW f, Honest(f)
  PROVE  Done(f) \in Pairings(f) /\ Pairing(f, Done(f))
BY DEF Honest, Done

\* take_http_message takes message k+1, or leaves the stream alone.
Took(messages, k, p, taken) ==
  /\ k < Len(messages) /\ Edges(messages)[k + 1] <= p
  /\ taken.message = UnitsOfMessage(messages, k + 1)
  /\ Len(taken.stream) = p - Edges(messages)[k + 1]
LeftAlone(stream, taken) == taken.message = <<>> /\ taken.stream = stream

\* The parser can tell where message k+1 ends, or waits for the end of the stream,
\* which is not seen before all the rest of the wire.
Tells(messages, w, k, p, isRequest, afterHead, endOfStream) ==
  LET message == messages[k + 1] IN
  \/ Delimited(message, isRequest, afterHead)
  \/ /\ ~isRequest /\ UntilEnd(message, afterHead)
     /\ endOfStream => k + 1 = Len(messages) /\ p = Len(w)

\* The first two units of a stream that begins with message k+1 are its header
\* block, and its units are those of the message.
LEMMA StreamBegins ==
  ASSUME NEW messages \in Seq(Messages), NEW w, w = Units(messages),
         NEW k \in 0..Len(messages), NEW p \in 0..Len(w),
         NEW stream \in Seq(UnitsOf(messages)), EndsIn(w, stream, p),
         p - Len(stream) = Edges(messages)[k]
  PROVE  /\ k = Len(messages) => Len(stream) = 0
         /\ k < Len(messages) =>
              /\ Edges(messages)[k + 1] = Edges(messages)[k] + 2 + messages[k + 1].body
              /\ messages[k + 1].body \in Nat
              /\ \A j \in 1..Len(stream) :
                   j <= 2 + messages[k + 1].body => stream[j] = <<k + 1, j - 1>>
<1>1. PICK n \in Nat : n = Len(messages)
  OBVIOUS
<1>2. PICK edges : edges = Edges(messages)
  OBVIOUS
<1>3. Layout(messages, w, edges)
  BY <1>2, EdgesAre
<1>4. edges \in [0..n -> Nat] /\ Len(w) = edges[n]
  BY <1>1, <1>3 DEF Layout, Rises
<1>5. PICK l \in Nat : l = Len(stream)
  OBVIOUS
<1>6. PICK b \in Nat : b = edges[k]
  BY <1>1, <1>4
<1>7. p = b + l /\ p \in Nat
  BY <1>2, <1>5, <1>6
<1>a. \A j \in 1..l : stream[j] = w[b + j]
  <2>1. \A j \in 1..l : stream[j] = w[p - l + j]
    BY <1>5 DEF EndsIn
  <2>2. p - l = b
    BY <1>7
  <2>3. QED
    BY <2>1, <2>2
<1>8. CASE k = n
  <2>1. p <= b
    BY <1>4, <1>6, <1>8
  <2>2. QED
    BY <1>1, <1>5, <1>7, <1>8, <2>1
<1>9. CASE k < n
  <2>1. k + 1 \in 1..n /\ k + 1 - 1 = k
    BY <1>1, <1>9
  <2>0. messages[k + 1] \in Messages
    BY <1>1, <2>1
  <2>2. PICK body \in Nat : body = messages[k + 1].body
    BY <2>0 DEF Messages
  <2>3. /\ edges[k + 1] = b + 2 + body
        /\ \A q \in b+1..edges[k + 1] : w[q] = <<k + 1, q - b - 1>>
    <3>1. PICK j \in 1..n : j = k + 1
      BY <2>1
    <3>2. j - 1 = k
      BY <3>1
    <3>3. /\ edges[j] = edges[j - 1] + 2 + messages[j].body
          /\ \A q \in edges[j - 1]+1..edges[j] : w[q] = <<j, q - edges[j - 1] - 1>>
      BY <1>1, <1>3 DEF Layout
    <3>4. /\ edges[j] = b + 2 + messages[j].body
          /\ \A q \in b+1..edges[j] : w[q] = <<j, q - b - 1>>
      BY <1>6, <3>2, <3>3, Zenon
    <3>5. QED
      BY <2>2, <3>1, <3>4, Zenon
  <2>4. ASSUME NEW j \in 1..l, j <= 2 + body PROVE stream[j] = <<k + 1, j - 1>>
    <3>1. b + j \in b+1..b+2+body /\ b + j - b - 1 = j - 1
      BY <2>4
    <3>2. w[b + j] = <<k + 1, b + j - b - 1>>
      BY <2>3, <3>1, SMTT(60)
    <3>3. stream[j] = w[b + j]
      BY <1>a
    <3>4. QED
      BY <3>1, <3>2, <3>3, Zenon
  <2>5. QED
    BY <1>1, <1>2, <1>5, <1>6, <1>9, <2>2, <2>3, <2>4
<1>10. QED
  BY <1>1, <1>8, <1>9

\* Of a stream that begins with a message take_http_message takes that message
\* when it is whole, and nothing before; a response that ends with the stream
\* waits for the end.
LEMMA TakesWhole ==
  ASSUME NEW messages \in Seq(Messages), NEW w, w = Units(messages),
         NEW k \in 0..Len(messages), NEW p \in 0..Len(w),
         NEW stream \in Seq(UnitsOf(messages)), EndsIn(w, stream, p),
         p - Len(stream) = Edges(messages)[k],
         NEW isRequest, NEW afterHead, NEW endOfStream,
         k < Len(messages) => Tells(messages, w, k, p, isRequest, afterHead, endOfStream),
         NEW taken, taken = TakeMessage(stream, messages, isRequest, afterHead, endOfStream)
  PROVE  \/ Took(messages, k, p, taken)
         \/ /\ LeftAlone(stream, taken)
            /\ k < Len(messages) /\ Edges(messages)[k + 1] <= p =>
                 ~isRequest /\ UntilEnd(messages[k + 1], afterHead)
<1> DEFINE ends == {i \in 1..Len(stream) : stream[i][2] = 1}
           end == CHOOSE i \in ends : \A j \in ends : i <= j
           startsHttp == IF isRequest THEN \E i \in 1..end : stream[i][2] = 0
                         ELSE stream[1][2] = 0
           length == MessageLength(stream, end, messages[stream[end][1]],
                                   isRequest, afterHead, endOfStream)
<1>1. taken = IF ends = {} THEN NoMessage(stream)
              ELSE IF ~startsHttp THEN NoMessage(<<>>)
              ELSE IF length = Unset \/ Len(stream) < length THEN NoMessage(stream)
              ELSE [message |-> SubSeq(stream, 1, length),
                    stream |-> SubSeq(stream, length + 1, Len(stream))]
  BY DEF TakeMessage
<1>2. PICK n \in Nat : n = Len(messages)
  OBVIOUS
<1>3. PICK l \in Nat : l = Len(stream)
  OBVIOUS
<1>4. PICK b \in Nat : b = Edges(messages)[k]
  BY EdgesAre DEF Layout, Rises
<1>5. p = b + l
  BY <1>3, <1>4
<1>6. taken = NoMessage(stream) => LeftAlone(stream, taken)
  BY DEF NoMessage, LeftAlone
<1> HIDE DEF startsHttp, length
<1>7. CASE k = n
  <2>1. Len(stream) = 0
    BY <1>2, <1>7, StreamBegins
  <2>2. ends = {}
    BY <2>1
  <2>3. QED
    BY <1>1, <1>2, <1>6, <1>7, <2>2
<1>8. CASE k < n
  <2>1. PICK message : message = messages[k + 1]
    OBVIOUS
  <2>2. PICK body \in Nat : body = message.body
    BY <1>2, <1>8, <2>1, StreamBegins
  <2>3. Edges(messages)[k + 1] = b + 2 + body
    BY <1>2, <1>4, <1>8, <2>1, <2>2, StreamBegins
  <2>4. \A j \in 1..l : j <= 2 + body => stream[j] = <<k + 1, j - 1>>
    BY <1>2, <1>3, <1>8, <2>1, <2>2, StreamBegins
  <2>5. CASE l < 2
    <3>1. ~(b + 2 + body <= p)
      BY <1>5, <2>5
    <3>2. ASSUME NEW i \in 1..l PROVE stream[i][2] # 1
      <4>1. i = 1 /\ i <= 2 + body
        BY <2>5
      <4>2. stream[i] = <<k + 1, i - 1>>
        BY <2>4, <4>1
      <4>3. QED
        BY <4>1, <4>2
    <3>3. ends = {}
      BY <1>3, <3>2
    <3>4. QED
      BY <1>1, <1>6, <2>3, <3>1, <3>3
  <2>6. CASE l >= 2
    <3>1. stream[1] = <<k + 1, 0>> /\ stream[2] = <<k + 1, 1>>
      <4>1. 1 \in 1..l /\ 2 \in 1..l /\ 1 <= 2 + body /\ 2 <= 2 + body /\ 1 - 1 = 0 /\ 2 - 1 = 1
        BY <2>6
      <4>2. stream[1] = <<k + 1, 1 - 1>> /\ stream[2] = <<k + 1, 2 - 1>>
        BY <2>4, <4>1
      <4>3. QED
        BY <4>1, <4>2
    <3>2. stream[1][2] = 0 /\ stream[2][2] = 1 /\ stream[2][1] = k + 1
      BY <3>1
    <3>3. 2 \in ends /\ 1 \notin ends /\ ends \subseteq 1..l
      BY <1>3, <2>6, <3>2
    <3>4. end = 2
      <4>1. \A j \in ends : 2 <= j
        BY <3>3
      <4>2. end \in ends /\ \A j \in ends : end <= j
        BY <3>3, <4>1
      <4>3. end <= 2 /\ end \in 1..l /\ end # 1
        BY <3>3, <4>2
      <4>4. QED
        BY <4>3
    <3>5. ends # {}
      BY <3>3
    <3> HIDE DEF ends, end
    <3>6. startsHttp
      <4>1. 1 \in 1..2
        OBVIOUS
      <4>2. QED
        BY <3>2, <3>4, <4>1 DEF startsHttp
    <3>7. length = MessageLength(stream, 2, message, isRequest, afterHead, endOfStream)
      BY <2>1, <3>2, <3>4 DEF length
    <3>8. PICK size : size = MessageLength(stream, 2, message, isRequest, afterHead, endOfStream)
      OBVIOUS
    <3>9. taken = IF size = Unset \/ Len(stream) < size THEN NoMessage(stream)
                  ELSE [message |-> SubSeq(stream, 1, size),
                        stream |-> SubSeq(stream, size + 1, Len(stream))]
      BY <1>1, <3>5, <3>6, <3>7, <3>8
    <3>10. Tells(messages, w, k, p, isRequest, afterHead, endOfStream)
      BY <1>2, <1>8
    <3>11. ASSUME size = 2 + body, size <= l PROVE Took(messages, k, p, taken)
      <4>1. taken.message = SubSeq(stream, 1, size) /\ taken.stream = SubSeq(stream, size + 1, l)
        BY <1>3, <3>9, <3>11 DEF Unset
      <4>2. SubSeq(stream, 1, size) = [i \in 1..size |-> stream[i]]
        BY <1>3, <3>11
      <4>3. \A i \in 1..size : stream[i] = <<k + 1, i - 1>>
        BY <2>4, <3>11, SMTT(60)
      <4>4. [i \in 1..size |-> stream[i]] = [i \in 1..size |-> <<k + 1, i - 1>>]
        BY <4>3
      <4>5. taken.message = UnitsOfMessage(messages, k + 1)
        BY <2>1, <2>2, <3>11, <4>1, <4>2, <4>4 DEF UnitsOfMessage
      <4>6. Len(taken.stream) = l - size
        BY <1>3, <3>11, <4>1
      <4>7. l - size = p - (b + 2 + body) /\ b + 2 + body <= p
        BY <1>5, <3>11
      <4>8. QED
        BY <1>2, <1>8, <2>3, <4>5, <4>6, <4>7 DEF Took
    <3>12. ASSUME size = Unset \/ l < size PROVE LeftAlone(stream, taken)
      BY <1>3, <1>6, <3>9, <3>12
    <3>13. CASE Delimited(message, isRequest, afterHead)
      <4>1. size = 2 + body \/ (size = Unset /\ l < 2 + body)
        <5>1. CASE message.chunked
          <6>1. message.trailers
            BY <3>13, <5>1 DEF Delimited
          <6>2. PICK close \in Nat : close = 2 + body
            OBVIOUS
          <6>3. size = ChunkedEnd(stream, close, message.trailers)
            BY <2>2, <3>8, <5>1, <6>2 DEF MessageLength
          <6> DEFINE lines == {i \in 1..Len(stream) :
                                 IF message.trailers THEN i = close
                                 ELSE i > close /\ stream[i][2] = 1}
          <6>4. ChunkedEnd(stream, close, message.trailers) =
                  IF lines = {} THEN Unset ELSE CHOOSE i \in lines : \A j \in lines : i <= j
            BY DEF ChunkedEnd
          <6>5. size = IF lines = {} THEN Unset
                       ELSE CHOOSE i \in lines : \A j \in lines : i <= j
            BY <6>3, <6>4
          <6>6. \A i \in lines : i = close
            BY <6>1
          <6>7. CASE lines = {}
            <7>1. close \notin 1..l
              BY <1>3, <6>1, <6>7
            <7>2. QED
              BY <6>2, <6>5, <6>7, <7>1
          <6>8. CASE lines # {}
            <7>1. close \in lines /\ \A j \in lines : close <= j
              BY <6>2, <6>6, <6>8
            <7>2. (CHOOSE i \in lines : \A j \in lines : i <= j) \in lines
              BY <7>1
            <7>3. QED
              BY <6>2, <6>5, <6>6, <6>8, <7>2
          <6>9. QED
            BY <6>7, <6>8
        <5>2. CASE ~message.chunked
          BY <2>2, <3>8, <3>13, <5>2 DEF Delimited, MessageLength
        <5>3. QED
          BY <5>1, <5>2
      <4>2. ~(b + 2 + body <= p) \/ 2 + body <= l
        BY <1>5
      <4>3. CASE 2 + body <= l
        BY <3>11, <4>1, <4>3
      <4>4. CASE l < 2 + body
        <5>1. size = Unset \/ l < size
          BY <4>1, <4>4
        <5>2. ~(b + 2 + body <= p)
          BY <1>5, <4>4
        <5>3. QED
          BY <2>3, <3>12, <5>1, <5>2
      <4>5. QED
        BY <4>3, <4>4
    <3>14. CASE ~isRequest /\ UntilEnd(message, afterHead)
                /\ (endOfStream => k + 1 = Len(messages) /\ p = Len(w))
      <4>1. size = IF endOfStream THEN l ELSE Unset
        BY <1>3, <3>8, <3>14 DEF UntilEnd, MessageLength
      <4>2. CASE endOfStream
        <5>1. k + 1 = n /\ p = Len(w)
          BY <1>2, <3>14, <4>2
        <5>2. Len(w) = Edges(messages)[n]
          BY <1>2, EdgesAre DEF Layout
        <5>3. l = 2 + body
          BY <1>5, <2>3, <5>1, <5>2
        <5>4. size = l
          BY <4>1, <4>2
        <5>5. Took(messages, k, p, taken)
          BY <3>11, <5>3, <5>4
        <5>6. QED
          BY <5>5
      <4>3. CASE ~endOfStream
        <5>1. size = Unset
          BY <4>1, <4>3
        <5>2. LeftAlone(stream, taken)
          BY <3>12, <5>1
        <5>3. QED
          BY <2>1, <3>14, <5>2
      <4>4. QED
        BY <4>2, <4>3
    <3>15. QED
      BY <2>1, <3>10, <3>13, <3>14 DEF Tells
  <2>7. QED
    BY <2>5, <2>6
<1>9. QED
  BY <1>2, <1>7, <1>8

-----------------------------------------------------------------------------
(* The client's loop.                                                      *)

\* A request that joins the queue of the requests a+1..m, and one that leaves it.
LEMMA QueueJoined ==
  ASSUME NEW q, q \in Seq(Nat), NEW a \in Nat, NEW m \in Nat, IsQueue(q, a, m)
  PROVE  IsQueue(Append(q, m + 1), a, m + 1)
<1>0. PICK n \in Nat : n = Len(q)
  OBVIOUS
<1>1. n = Len(q) /\ n = m - a
  BY <1>0 DEF IsQueue
<1>2. PICK x \in Nat : x = m + 1
  OBVIOUS
<1>a. PICK s : s = Append(q, x)
  OBVIOUS
<1>b. Len(s) = n + 1 /\ s[n + 1] = x /\ \A i \in 1..n : s[i] = q[i]
  BY <1>0, <1>a
<1>3. Len(s) = n + 1 /\ s[n + 1] = m + 1 /\ \A i \in 1..n : s[i] = q[i]
  BY <1>2, <1>b
<1>4. n + 1 = m + 1 - a /\ a + (n + 1) = m + 1
  BY <1>1
<1>5. \A i \in 1..n+1 : s[i] = a + i
  <2>1. SUFFICES ASSUME NEW i \in 1..n+1 PROVE s[i] = a + i
    OBVIOUS
  <2>2. CASE i = n + 1
    BY <1>3, <1>4, <2>2
  <2>3. CASE i # n + 1
    <3>1. i \in 1..n
      BY <1>1, <2>1, <2>3
    <3>2. QED
      BY <1>1, <1>3, <3>1 DEF IsQueue
  <2>4. QED
    BY <2>2, <2>3
<1>6. QED
  BY <1>2, <1>a, <1>3, <1>4, <1>5 DEF IsQueue

\* The oldest request of the queue, and those behind it.
LEMMA QueueLeft ==
  ASSUME NEW q, q \in Seq(Nat), NEW a \in Nat, NEW m \in Nat, IsQueue(q, a, m)
  PROVE  /\ a <= m
         /\ q = <<>> <=> a = m
         /\ q # <<>> => /\ Head(q) = a + 1
                        /\ IsQueue(Tail(q), a + 1, m)
<1>0. PICK n \in Nat : n = Len(q)
  OBVIOUS
<1>1. n = Len(q) /\ n = m - a
  BY <1>0 DEF IsQueue
<1>2. q = <<>> <=> n = 0
  BY <1>0
<1>3. ASSUME q # <<>> PROVE Head(q) = a + 1 /\ IsQueue(Tail(q), a + 1, m)
  <2>1. PICK t : t = Tail(q)
    OBVIOUS
  <2>2. n # 0 /\ Head(q) = q[1] /\ Len(t) = n - 1 /\ \A i \in 1..n-1 : t[i] = q[i + 1]
    BY <1>0, <1>2, <1>3, <2>1
  <2>3. \A i \in 1..n : q[i] = a + i
    BY <1>1 DEF IsQueue
  <2>4. Head(q) = a + 1
    BY <2>2, <2>3
  <2>5. \A i \in 1..n-1 : t[i] = a + 1 + i
    <3>1. SUFFICES ASSUME NEW i \in 1..n-1 PROVE t[i] = a + 1 + i
      OBVIOUS
    <3>2. i + 1 \in 1..n
      BY <3>1
    <3>3. QED
      BY <2>2, <2>3, <3>2
  <2>6. n - 1 = m - (a + 1)
    BY <1>1
  <2>7. IsQueue(t, a + 1, m)
    BY <2>2, <2>5, <2>6 DEF IsQueue
  <2>8. QED
    BY <2>1, <2>4, <2>7
<1>4. QED
  BY <1>1, <1>2, <1>3

\* The first unit of what was taken names the message.
LEMMA TookNames ==
  ASSUME NEW messages \in Seq(Messages), NEW k \in 0..Len(messages), NEW p, NEW taken,
         Took(messages, k, p, taken)
  PROVE  /\ k + 1 \in 1..Len(messages)
         /\ taken.message # <<>>
         /\ taken.message[1][1] = k + 1
         /\ Parses(taken.message, messages) <=> messages[k + 1].readable
<1>1. k + 1 \in 1..Len(messages)
  BY DEF Took
<1>2. messages[k + 1] \in Messages
  BY <1>1
<1>3. PICK body \in Nat : body = messages[k + 1].body
  BY <1>2 DEF Messages
<1>4. PICK r : r = k + 1
  OBVIOUS
<1>5. taken.message = [j \in 1..(2 + body) |-> <<r, j - 1>>]
  BY <1>3, <1>4 DEF Took, UnitsOfMessage
<1>6. taken.message[1] = <<r, 0>>
  <2>1. 1 \in 1..(2 + body) /\ 1 - 1 = 0
    BY <1>3
  <2>2. QED
    BY <1>5, <2>1
<1>7. taken.message # <<>>
  <2>1. Len(taken.message) = 2 + body
    BY <1>5
  <2>2. QED
    BY <1>3, <2>1
<1>8. taken.message[1][1] = r /\ taken.message[1][2] = 0
  BY <1>6
<1>9. QED
  BY <1>1, <1>4, <1>7, <1>8 DEF Parses

\* The client's stream begins with request m+1, and the queue ends with request m.
AtRequest(f, p, run, a, m) ==
  /\ p - Len(run.flow.client.stream) = Edges(Traffic[f].client)[m]
  /\ IsQueue(run.flow.requests, a, m)

Whole(messages, p, m) == m < Len(messages) /\ Edges(messages)[m + 1] <= p

\* A turn of the loop takes the next request when it is whole, and else ends it.
RequestTook(f, p, run, e, a, m) ==
  \/ ~e.more /\ AtRequest(f, p, e, a, m) /\ ~Whole(Traffic[f].client, p, m)
  \/ /\ m + 1 \in 0..Len(Traffic[f].client) /\ AtRequest(f, p, e, a, m + 1)
     /\ e.more = run.more
     /\ Len(e.flow.client.stream) < Len(run.flow.client.stream)

\* What a turn of parse_requests does.
LEMMA RequestTurnTakes ==
  ASSUME NEW f, Carries(f), Honest(f), NEW flow,
         NEW w, w = Units(Traffic[f].client), NEW p \in 0..Len(w),
         NEW run \in ClientRuns(f, w, p, flow),
         NEW a \in Nat, NEW m \in 0..Len(Traffic[f].client), AtRequest(f, p, run, a, m),
         NEW e, e = RequestTurn(f, run)
  PROVE  RequestTook(f, p, run, e, a, m)
<1>1. PICK messages : messages = Traffic[f].client
  OBVIOUS
<1>2. messages \in Seq(Messages)
  BY <1>1 DEF Carries
<1>3. run \in Runs(Traffic[f])
  BY DEF ClientRuns, GoodRuns
<1>4. PICK stream : stream = run.flow.client.stream
  OBVIOUS
<1>5. /\ stream \in Seq(UnitsOf(messages)) /\ run.flow.requests \in Seq(Nat)
      /\ EndsIn(w, stream, p)
  BY <1>1, <1>3, <1>4, RequestsShape DEF ClientRuns, Cut, Runs, FlowsOf, Directions
<1>6. PICK taken : taken = TakeMessage(stream, messages, TRUE, FALSE, FALSE)
  OBVIOUS
<1>7. RequestTurned(f, run, taken, e)
  BY <1>1, <1>3, <1>4, <1>6, RequestTurnIs
<1>8. PICK n \in Nat : n = Len(messages)
  BY <1>2
<1>9. m \in 0..n /\ p - Len(stream) = Edges(messages)[m] /\ IsQueue(run.flow.requests, a, m)
  BY <1>1, <1>4, <1>8 DEF AtRequest
<1>10. ASSUME m < n
       PROVE  messages[m + 1].readable /\ Tells(messages, w, m, p, TRUE, FALSE, FALSE)
  <2>1. m + 1 \in 1..n
    BY <1>8, <1>9, <1>10
  <2>2. messages[m + 1].readable /\ Delimited(messages[m + 1], TRUE, FALSE)
    BY <1>1, <1>8, <2>1 DEF Honest
  <2>3. QED
    BY <2>2 DEF Tells
<1>11. \/ Took(messages, m, p, taken)
       \/ LeftAlone(stream, taken) /\ ~Whole(messages, p, m)
  <2>1. /\ w = Units(messages) /\ m \in 0..Len(messages)
        /\ m < Len(messages) => Tells(messages, w, m, p, TRUE, FALSE, FALSE)
    BY <1>1, <1>8, <1>9, <1>10
  <2>2. \/ Took(messages, m, p, taken)
        \/ /\ LeftAlone(stream, taken)
           /\ m < Len(messages) /\ Edges(messages)[m + 1] <= p =>
                ~TRUE /\ UntilEnd(messages[m + 1], FALSE)
    BY <1>2, <1>5, <1>6, <1>9, <2>1, TakesWhole
  <2>3. QED
    BY <2>2 DEF Whole
<1>12. CASE LeftAlone(stream, taken) /\ ~Whole(messages, p, m)
  <2>1. ~e.more /\ e.flow.requests = run.flow.requests
        /\ e.flow.client.stream = stream
    BY <1>7, <1>12 DEF LeftAlone, RequestTurned, SameBut
  <2>2. QED
    BY <1>1, <1>9, <1>12, <2>1 DEF AtRequest, RequestTook
<1>13. CASE Took(messages, m, p, taken)
  <2>1. m + 1 \in 1..n /\ taken.message # <<>> /\ taken.message[1][1] = m + 1
        /\ Parses(taken.message, messages)
    <3>1. m + 1 \in 1..n /\ taken.message # <<>> /\ taken.message[1][1] = m + 1
          /\ (Parses(taken.message, messages) <=> messages[m + 1].readable)
      BY <1>2, <1>8, <1>9, <1>13, TookNames
    <3>2. m < n
      BY <1>9, <3>1
    <3>3. QED
      BY <1>10, <3>1, <3>2
  <2>2. e.more = run.more /\ e.flow.requests = Append(run.flow.requests, m + 1)
        /\ e.flow.client.stream = taken.stream
    BY <1>1, <1>7, <2>1 DEF RequestTurned, SameBut
  <2>3. IsQueue(e.flow.requests, a, m + 1)
    BY <1>5, <1>9, <2>2, QueueJoined
  <2>4. Len(taken.stream) = p - Edges(messages)[m + 1] /\ Edges(messages)[m + 1] <= p
    BY <1>13 DEF Took
  <2>5. Edges(messages)[m + 1] \in Nat /\ Edges(messages)[m] \in Nat
        /\ Edges(messages)[m] < Edges(messages)[m + 1]
    <3>1. Rises(Edges(messages), n)
      BY <1>2, <1>8, EdgesAre DEF Layout
    <3>2. m + 1 - 1 = m /\ m + 1 \in 0..n
      BY <1>9, <2>1
    <3>3. QED
      BY <1>9, <2>1, <3>1, <3>2 DEF Rises
  <2>6. p \in Nat /\ Len(stream) \in Nat
    <3>1. w \in Seq(UnitsOf(messages))
      BY <1>1, <1>2, UnitsShape
    <3>2. QED
      BY <1>5, <3>1
  <2>7. p - Len(taken.stream) = Edges(messages)[m + 1] /\ Len(taken.stream) < Len(stream)
    BY <1>9, <2>4, <2>5, <2>6
  <2>8. AtRequest(f, p, e, a, m + 1)
    BY <1>1, <2>2, <2>3, <2>7 DEF AtRequest
  <2>9. m + 1 \in 0..n
    BY <2>1
  <2>10. QED
    BY <1>1, <1>4, <1>8, <2>2, <2>7, <2>8, <2>9 DEF RequestTook
<1>14. QED
  BY <1>1, <1>11, <1>12, <1>13

\* What the client's loop ends with: it has taken all requests that are whole.
LEMMA ClientTakes ==
  ASSUME NEW f, Carries(f), Honest(f), NEW fin, NEW flow \in FlowsOf(Traffic[f]), FlowInBudget(flow),
         NEW w, w = Units(Traffic[f].client), NEW p \in 0..Len(w),
         EndsIn(w, flow.client.stream, p),
         Increasing(flow.requests),
         \A k \in 1..Len(flow.requests) :
           StartsIn(w, flow.requests[k], 0, p - Len(flow.client.stream)),
         NEW a \in Nat, NEW m0 \in 0..Len(Traffic[f].client),
         p - Len(flow.client.stream) = Edges(Traffic[f].client)[m0],
         IsQueue(flow.requests, a, m0),
         NEW e, e = Parse(f, "client", fin, flow)
  PROVE  /\ e \in ClientRuns(f, w, p, flow)
         /\ \E m \in m0..Len(Traffic[f].client) :
              AtRequest(f, p, e, a, m) /\ ~Whole(Traffic[f].client, p, m)
<1>1. PICK n \in Nat : n = Len(Traffic[f].client)
  BY SMTT(60) DEF Carries
<1> DEFINE Good == {run \in ClientRuns(f, w, p, flow) :
                      \E m \in m0..n : /\ AtRequest(f, p, run, a, m)
                                       /\ ~run.more => ~Whole(Traffic[f].client, p, m)}
<1>2. m0 \in 0..n
  BY <1>1
<1>3. Len(flow.client.stream) \in Nat
  BY DEF FlowsOf, Directions
<1>4. PICK run : run = Running(flow)
  OBVIOUS
<1>5. /\ run \in GoodRuns(f, flow) /\ run.more
      /\ run.flow = flow /\ run.events = <<>> /\ run.queued = {} /\ run.lost = {}
  BY <1>4, RunningShape
<1>6. Cut(w, p, flow.client, flow.client)
  BY <1>3 DEF Cut, SameBut
<1>7. run \in ClientRuns(f, w, p, flow)
  BY <1>5, <1>6 DEF ClientRuns
<1>8. run \in Good
  <2>1. AtRequest(f, p, run, a, m0)
    BY <1>5 DEF AtRequest
  <2>2. m0 \in m0..n
    BY <1>2
  <2>3. QED
    BY <1>5, <1>7, <2>1, <2>2
<1>9. ASSUME NEW x \in Good, x.more
      PROVE  /\ LoopTurn(f, "client", fin, x) \in Good
             /\ Left("client", x) \in Nat
             /\ LoopTurn(f, "client", fin, x).more =>
                  Left("client", LoopTurn(f, "client", fin, x)) < Left("client", x)
  <2>1. PICK y : y = RequestTurn(f, x)
    OBVIOUS
  <2>2. y = LoopTurn(f, "client", fin, x)
    BY <2>1 DEF LoopTurn
  <2>3. x \in ClientRuns(f, w, p, flow)
    BY <1>9
  <2>4. PICK m \in m0..n : AtRequest(f, p, x, a, m)
    BY <1>9
  <2>5. y \in ClientRuns(f, w, p, flow)
    BY <1>3, <2>1, <2>3, RequestTurnOrders
  <2>6. m \in 0..Len(Traffic[f].client)
    BY <1>1, <1>2, <2>4
  <2>7. RequestTook(f, p, x, y, a, m)
    BY <2>1, <2>3, <2>4, <2>6, RequestTurnTakes
  <2>8. y \in Good
    <3>1. CASE ~y.more /\ AtRequest(f, p, y, a, m) /\ ~Whole(Traffic[f].client, p, m)
      BY <2>4, <2>5, <3>1
    <3>2. CASE m + 1 \in 0..Len(Traffic[f].client) /\ AtRequest(f, p, y, a, m + 1) /\ y.more
      <4>1. m + 1 \in m0..n
        BY <1>1, <1>2, <2>4, <3>2
      <4>2. QED
        BY <2>5, <3>2, <4>1
    <3>3. QED
      BY <1>9, <2>7, <3>1, <3>2 DEF RequestTook
  <2>9. Len(x.flow.client.stream) \in Nat
    BY <2>3, SMTT(60) DEF ClientRuns, GoodRuns, Runs, FlowsOf, Directions
  <2>10. y.more => Len(y.flow.client.stream) < Len(x.flow.client.stream)
    BY <2>7 DEF RequestTook
  <2>11. QED
    BY <2>2, <2>8, <2>9, <2>10 DEF Left
<1> HIDE DEF Good
<1>10. PICK side : side = "client"
  OBVIOUS
<1>11. /\ Len(flow[side].stream) \in Nat /\ Running(flow) \in Good
       /\ \A x \in Good : x.more => LoopTurn(f, side, fin, x) \in Good
       /\ \A x \in Good : x.more =>
            /\ Left(side, x) \in Nat
            /\ LoopTurn(f, side, fin, x).more => Left(side, LoopTurn(f, side, fin, x)) < Left(side, x)
       /\ e = Parse(f, side, fin, flow)
  BY <1>3, <1>4, <1>8, <1>9, <1>10
<1>12. e \in Good /\ ~e.more
  BY <1>11, ParseLoop
<1>13. QED
  BY <1>1, <1>12 DEF Good

-----------------------------------------------------------------------------
(* The server's loop.                                                      *)

\* The server's stream begins with response k+1, the queue with the request that the
\* next final response answers, and the final responses in front are in events.
AtResponse(f, p, es, run, m, k) ==
  /\ p - Len(run.flow.server.stream) = Edges(Traffic[f].server)[k]
  /\ Done(f)[k] <= m
  /\ IsQueue(run.flow.requests, Done(f)[k], m)
  /\ \A i \in 1..k :
       Traffic[f].server[i].readable /\ ~Interim(Traffic[f].server[i].status) =>
         Told(f, i, es) \/ Told(f, i, run.events)

\* What a turn of parse_responses does: it takes the next response, or it ends the
\* loop and nothing that it could take is left.
ResponseTook(f, p, es, run, e, m, k) ==
  \/ ~e.more /\ AtResponse(f, p, es, e, m, k) /\ AllRead(f, p, k)
  \/ /\ k + 1 \in 0..Len(Traffic[f].server) /\ AtResponse(f, p, es, e, m, k + 1)
     /\ e.more = run.more

\* A final response of which something has arrived has its request in the queue,
\* unless the client's direction is stuck.
Answerable(f, p, m, stuck) ==
  \A k \in 0..Len(Traffic[f].server)-1 :
    /\ Edges(Traffic[f].server)[k] < p
    /\ ~Interim(Traffic[f].server[k + 1].status) /\ Done(f)[k] = m
    => stuck

\* Of an empty stream nothing is taken.
LEMMA NothingTaken ==
  ASSUME NEW messages, NEW stream, stream = <<>>,
         NEW isRequest, NEW afterHead, NEW endOfStream,
         NEW taken, taken = TakeMessage(stream, messages, isRequest, afterHead, endOfStream)
  PROVE  LeftAlone(stream, taken)
<1>1. {i \in 1..Len(stream) : stream[i][2] = 1} = {}
  <2>1. Len(stream) = 0
    OBVIOUS
  <2>2. 1..Len(stream) = {}
    BY <2>1
  <2>3. QED
    BY <2>2
<1>2. taken = NoMessage(stream)
  BY <1>1 DEF TakeMessage
<1>3. QED
  BY <1>2 DEF NoMessage, LeftAlone

\* How many requests the first k+1 responses answer.
LEMMA DoneNext ==
  ASSUME NEW f, Carries(f), Honest(f), NEW k \in 0..Len(Traffic[f].server)-1
  PROVE  /\ Done(f)[k] \in Nat
         /\ Interim(Traffic[f].server[k + 1].status) => Done(f)[k + 1] = Done(f)[k]
         /\ ~Interim(Traffic[f].server[k + 1].status) =>
              /\ Done(f)[k + 1] = Done(f)[k] + 1
              /\ Traffic[f].server[k + 1].answers = Done(f)[k] + 1
              /\ Done(f)[k] + 1 \in 1..Len(Traffic[f].client)
<1>1. PICK n \in Nat, l \in Nat : n = Len(Traffic[f].server) /\ l = Len(Traffic[f].client)
  BY DEF Carries
<1>2. PICK done : done = Done(f)
  OBVIOUS
<1>3. done \in [0..n -> 0..l] /\ Pairing(f, done)
  BY <1>1, <1>2, DoneIs DEF Pairings
<1>4. PICK j \in 1..n : j = k + 1
  BY <1>1
<1>5. j - 1 = k /\ k \in 0..n /\ j \in 0..n
  BY <1>1, <1>4
<1>6. IF Interim(Traffic[f].server[j].status) THEN done[j] = done[j - 1]
      ELSE done[j] = done[j - 1] + 1 /\ Traffic[f].server[j].answers = done[j]
  BY <1>1, <1>3 DEF Pairing
<1>7. done[k] \in 0..l /\ done[j] \in 0..l
  BY <1>3, <1>5
<1>8. QED
  BY <1>1, <1>2, <1>4, <1>5, <1>6, <1>7

\* How a final response ends is told by the request at the front of the queue; an
\* interim response needs none.
LEMMA ResponseTells ==
  ASSUME NEW f, Carries(f), Honest(f), NEW w, NEW p, NEW k \in 0..Len(Traffic[f].server)-1,
         NEW fin, fin => (Seamless => p = Len(w)),
         NEW q \in Seq(Nat), NEW m \in Nat, m <= Len(Traffic[f].client),
         IsQueue(q, Done(f)[k], m),
         ~Interim(Traffic[f].server[k + 1].status) => Done(f)[k] # m,
         NEW afterHead, afterHead = (q # <<>> /\ Traffic[f].client[Head(q)].method = "HEAD")
  PROVE  /\ Tells(Traffic[f].server, w, k, p, FALSE, afterHead, fin)
         /\ UntilEnd(Traffic[f].server[k + 1], afterHead) =>
              UntilEnd(Traffic[f].server[k + 1], AnswersHead(f, k + 1))
         /\ Interim(Traffic[f].server[k + 1].status) => Traffic[f].server[k + 1].readable
<1>1. PICK n \in Nat, l \in Nat : n = Len(Traffic[f].server) /\ l = Len(Traffic[f].client)
  BY DEF Carries
<1>2. k + 1 \in 1..n
  BY <1>1
<1>3. PICK response : response = Traffic[f].server[k + 1]
  OBVIOUS
<1>4. ResponseHonest(f, k + 1)
  BY <1>1, <1>2 DEF Honest
<1>5. CASE Interim(response.status)
  <2>1. response.readable /\ Delimited(response, FALSE, FALSE)
    BY <1>3, <1>4, <1>5 DEF ResponseHonest
  <2>2. Delimited(response, FALSE, afterHead) /\ ~UntilEnd(response, afterHead)
    BY <2>1 DEF Delimited, UntilEnd, Bodiless
  <2>3. QED
    BY <1>3, <2>1, <2>2 DEF Tells
<1>6. CASE ~Interim(response.status)
  <2>1. /\ Done(f)[k] \in Nat /\ response.answers = Done(f)[k] + 1
        /\ Done(f)[k] + 1 \in 1..l
    BY <1>1, <1>3, <1>6, DoneNext
  <2>2. q # <<>> /\ Head(q) = Done(f)[k] + 1
    BY <1>3, <1>6, <2>1, QueueLeft
  <2>3. afterHead <=> AnswersHead(f, k + 1)
    BY <1>1, <1>3, <2>1, <2>2 DEF AnswersHead
  <2>4. \/ Delimited(response, FALSE, AnswersHead(f, k + 1))
        \/ /\ UntilEnd(response, AnswersHead(f, k + 1))
           /\ k + 1 = n /\ Seamless
    BY <1>1, <1>3, <1>4, <1>6 DEF ResponseHonest
  <2>5. Delimited(response, FALSE, AnswersHead(f, k + 1)) => Delimited(response, FALSE, afterHead)
    BY <2>3 DEF Delimited, Bodiless
  <2>6. UntilEnd(response, AnswersHead(f, k + 1)) <=> UntilEnd(response, afterHead)
    BY <2>3 DEF UntilEnd, Bodiless
  <2>7. Tells(Traffic[f].server, w, k, p, FALSE, afterHead, fin)
    BY <1>1, <1>3, <2>4, <2>5, <2>6 DEF Tells
  <2>8. QED
    BY <1>3, <1>6, <2>6, <2>7
<1>7. QED
  BY <1>5, <1>6

\* The responses in front of the next one, when it has been told or need not be.
LEMMA ToldMore ==
  ASSUME NEW f, NEW k \in Nat, NEW es, NEW before, NEW after,
         \A i \in 1..k :
           Traffic[f].server[i].readable /\ ~Interim(Traffic[f].server[i].status) =>
             Told(f, i, es) \/ Told(f, i, before),
         \A i : Told(f, i, before) => Told(f, i, after),
         /\ Traffic[f].server[k + 1].readable /\ ~Interim(Traffic[f].server[k + 1].status)
         => Told(f, k + 1, after)
  PROVE  \A i \in 1..k+1 :
           Traffic[f].server[i].readable /\ ~Interim(Traffic[f].server[i].status) =>
             Told(f, i, es) \/ Told(f, i, after)
<1>1. SUFFICES ASSUME NEW i \in 1..k+1,
                      Traffic[f].server[i].readable, ~Interim(Traffic[f].server[i].status)
               PROVE  Told(f, i, es) \/ Told(f, i, after)
  OBVIOUS
<1>2. CASE i = k + 1
  BY <1>1, <1>2
<1>3. CASE i # k + 1
  <2>1. i \in 1..k
    BY <1>3
  <2>2. QED
    BY <1>1, <2>1
<1>4. QED
  BY <1>2, <1>3

\* One event more.
LEMMA ToldAppend ==
  ASSUME NEW es \in Seq(Events), NEW x, NEW more, more = Append(es, x)
  PROVE  /\ \A f, i : Told(f, i, es) => Told(f, i, more)
         /\ Told(x.flow, x.response, more)
         /\ EventsTrue(es) /\ EventTrue(x) => EventsTrue(more)
<1>1. PICK n \in Nat : n = Len(es)
  OBVIOUS
<1>2. Len(more) = n + 1 /\ more[n + 1] = x /\ \A i \in 1..n : more[i] = es[i]
  BY <1>1
<1>3. (\A i \in 1..n : i \in 1..n+1) /\ n + 1 \in 1..n+1 /\ (\A i \in 1..n+1 : i \in 1..n \/ i = n + 1)
  OBVIOUS
<1>4. \A f, i : Told(f, i, es) => Told(f, i, more)
  BY <1>1, <1>2, <1>3 DEF Told
<1>5. Told(x.flow, x.response, more)
  BY <1>2, <1>3 DEF Told
<1>6. EventsTrue(es) /\ EventTrue(x) => EventsTrue(more)
  BY <1>1, <1>2, <1>3 DEF EventsTrue
<1>7. QED
  BY <1>4, <1>5, <1>6

\* A turn of the loop of parse_responses, when the front of the queue is the request
\* that the next final response answers: the event it reports is true.
LEMMA ResponseTurnTakes ==
  ASSUME NEW f, Carries(f), Honest(f), NEW flow,
         NEW w, w = Units(Traffic[f].server), NEW p \in 0..Len(w),
         NEW fin, fin => (Seamless => p = Len(w)),
         NEW run \in ServerRuns(f, w, p, flow), EventsTrue(run.events), NEW es,
         NEW m \in Nat, m <= Len(Traffic[f].client), NEW k \in 0..Len(Traffic[f].server),
         AtResponse(f, p, es, run, m, k),
         NEW stuck, Answerable(f, p, m, stuck), ~(stuck /\ run.flow.requests = <<>>),
         NEW e, e = ResponseTurn(f, fin, run)
  PROVE  ResponseTook(f, p, es, run, e, m, k) /\ EventsTrue(e.events)
<1>1. PICK messages : messages = Traffic[f].server
  OBVIOUS
<1>2. messages \in Seq(Messages)
  BY <1>1 DEF Carries
<1>3. run \in Runs(Traffic[f])
  BY DEF ServerRuns, GoodRuns
<1>4. PICK stream : stream = run.flow.server.stream
  OBVIOUS
<1>5. PICK q : q = run.flow.requests
  OBVIOUS
<1>6. /\ stream \in Seq(UnitsOf(messages)) /\ q \in Seq(Nat) /\ EndsIn(w, stream, p)
      /\ run.events \in Seq(Events)
  BY <1>1, <1>3, <1>4, <1>5, RequestsShape DEF ServerRuns, Cut, Runs, FlowsOf, Directions
<1>7. PICK afterHead : afterHead = (q # <<>> /\ Traffic[f].client[Head(q)].method = "HEAD")
  OBVIOUS
<1>8. PICK taken : taken = TakeMessage(stream, messages, FALSE, afterHead, fin)
  OBVIOUS
<1>9. Answered(f, run, taken, e)
  <2>1. e = Answer(f, run, taken)
    BY <1>1, <1>4, <1>5, <1>7, <1>8 DEF ResponseTurn
  <2>2. QED
    BY <1>3, <2>1, AnswerIs
<1>10. PICK n \in Nat : n = Len(messages)
  BY <1>2
<1>11. PICK edges : edges = Edges(messages)
  OBVIOUS
<1>12. PICK done : done = Done(f)
  OBVIOUS
<1>13. /\ k \in 0..n /\ p - Len(stream) = edges[k] /\ IsQueue(q, done[k], m) /\ done[k] <= m
       /\ \A i \in 1..k :
            messages[i].readable /\ ~Interim(messages[i].status) =>
              Told(f, i, es) \/ Told(f, i, run.events)
  BY <1>1, <1>4, <1>5, <1>10, <1>11, <1>12 DEF AtResponse
<1>14. p \in Nat /\ Len(stream) \in Nat
  <2>1. w \in Seq(UnitsOf(messages))
    BY <1>1, <1>2, UnitsShape
  <2>2. QED
    BY <1>6, <2>1
<1>15. Rises(edges, n)
  BY <1>2, <1>10, <1>11, EdgesAre DEF Layout
<1>16. ASSUME k < n
       PROVE  edges[k] \in Nat /\ edges[k + 1] \in Nat /\ edges[k] < edges[k + 1]
  <2>1. PICK j \in 1..n : j = k + 1
    BY <1>13, <1>16
  <2>2. j - 1 = k /\ k \in 0..n /\ j \in 0..n
    BY <1>13, <2>1
  <2>3. edges[j - 1] < edges[j] /\ edges[k] \in Nat /\ edges[j] \in Nat
    BY <1>15, <2>2 DEF Rises
  <2>4. QED
    BY <2>1, <2>2, <2>3
<1>17. ASSUME LeftAlone(stream, taken), AllRead(f, p, k)
       PROVE  ResponseTook(f, p, es, run, e, m, k) /\ EventsTrue(e.events)
  <2>1. /\ ~e.more /\ e.flow.server.stream = stream /\ e.flow.requests = q
        /\ e.events = run.events
    BY <1>5, <1>9, <1>17 DEF Answered, LeftAlone, SameBut
  <2>2. AtResponse(f, p, es, e, m, k)
    BY <1>1, <1>11, <1>12, <1>13, <2>1 DEF AtResponse
  <2>3. QED
    BY <1>17, <2>1, <2>2 DEF ResponseTook
<1>18. CASE stream = <<>>
  <2>1. LeftAlone(stream, taken)
    BY <1>8, <1>18, NothingTaken
  <2>2. k < n => p < edges[k + 1]
    BY <1>13, <1>14, <1>16, <1>18
  <2>3. AllRead(f, p, k)
    BY <1>1, <1>10, <1>11, <2>2 DEF AllRead
  <2>4. QED
    BY <1>17, <2>1, <2>3
<1>19. CASE stream # <<>> /\ k = n
  <2>1. Len(stream) = 0
    <3>1. k \in 0..Len(messages) /\ p - Len(stream) = Edges(messages)[k] /\ k = Len(messages)
          /\ w = Units(messages)
      BY <1>1, <1>10, <1>11, <1>13, <1>19
    <3>2. QED
      BY <1>2, <1>6, <3>1, StreamBegins, SMTT(60)
  <2>2. QED
    BY <1>6, <1>19, <2>1
<1>20. CASE stream # <<>> /\ k < n
  <2>1. k \in 0..Len(Traffic[f].server)-1
    BY <1>1, <1>10, <1>13, <1>20
  <2>2. edges[k] < p
    <3>1. Len(stream) # 0
      BY <1>6, <1>20
    <3>2. QED
      BY <1>13, <1>14, <1>16, <1>20, <3>1
  <2>3. /\ done[k] \in Nat
        /\ Interim(messages[k + 1].status) => done[k + 1] = done[k]
        /\ ~Interim(messages[k + 1].status) =>
             /\ done[k + 1] = done[k] + 1
             /\ messages[k + 1].answers = done[k] + 1
    BY <1>1, <1>12, <2>1, DoneNext
  <2>4. q = <<>> <=> done[k] = m
    BY <1>6, <1>13, <2>3, QueueLeft
  <2>5. ~Interim(messages[k + 1].status) => done[k] # m
    <3>1. SUFFICES ASSUME ~Interim(messages[k + 1].status), done[k] = m PROVE FALSE
      OBVIOUS
    <3>2. stuck
      BY <1>1, <1>11, <1>12, <2>1, <2>2, <3>1 DEF Answerable
    <3>3. QED
      BY <1>5, <2>4, <3>1, <3>2
  <2>6. /\ Tells(messages, w, k, p, FALSE, afterHead, fin)
        /\ UntilEnd(messages[k + 1], afterHead) =>
             UntilEnd(messages[k + 1], AnswersHead(f, k + 1))
        /\ Interim(messages[k + 1].status) => messages[k + 1].readable
    BY <1>1, <1>6, <1>7, <1>12, <1>13, <2>1, <2>5, ResponseTells
  <2>7. \/ Took(messages, k, p, taken)
        \/ LeftAlone(stream, taken) /\ AllRead(f, p, k)
    <3>1. /\ w = Units(messages) /\ k \in 0..Len(messages)
          /\ p - Len(stream) = Edges(messages)[k]
      BY <1>1, <1>10, <1>11, <1>13
    <3>2. \/ Took(messages, k, p, taken)
          \/ /\ LeftAlone(stream, taken)
             /\ k < Len(messages) /\ Edges(messages)[k + 1] <= p =>
                  ~FALSE /\ UntilEnd(messages[k + 1], afterHead)
      BY <1>2, <1>6, <1>8, <2>6, <3>1, TakesWhole
    <3>3. p \in Nat /\ edges[k + 1] \in Nat
      BY <1>14, <1>16, <1>20
    <3>4. ASSUME ~Took(messages, k, p, taken), k < n,
                 ~UntilEnd(messages[k + 1], AnswersHead(f, k + 1))
          PROVE  p < edges[k + 1]
      <4>1. ~(edges[k + 1] <= p)
        BY <1>10, <1>11, <2>6, <3>2, <3>4
      <4>2. QED
        BY <3>3, <4>1
    <3>5. ~Took(messages, k, p, taken) => AllRead(f, p, k)
      BY <1>1, <1>10, <1>11, <3>4 DEF AllRead
    <3>6. QED
      BY <3>2, <3>5
  <2>8. CASE Took(messages, k, p, taken)
    <3>1. /\ k + 1 \in 1..n /\ taken.message # <<>> /\ taken.message[1][1] = k + 1
          /\ (Parses(taken.message, messages) <=> messages[k + 1].readable)
      BY <1>2, <1>10, <1>13, <2>8, TookNames
    <3>2. taken.message = UnitsOfMessage(messages, k + 1)
          /\ Len(taken.stream) = p - edges[k + 1] /\ edges[k + 1] <= p
      BY <1>11, <2>8 DEF Took
    <3>3. e.flow.server.stream = taken.stream /\ p - Len(e.flow.server.stream) = edges[k + 1]
      <4>1. e.flow.server.stream = taken.stream
        BY <1>9 DEF Answered, SameBut
      <4>2. edges[k + 1] \in Nat
        BY <1>16, <1>20
      <4>3. QED
        BY <1>14, <3>2, <4>1, <4>2, SMTT(60)
    <3>4. k \in Nat /\ k + 1 \in 0..n
      BY <1>13, <3>1
    <3>5. ASSUME IsQueue(e.flow.requests, done[k + 1], m), done[k + 1] <= m, e.more = run.more,
                 \A i : Told(f, i, run.events) => Told(f, i, e.events),
                 messages[k + 1].readable /\ ~Interim(messages[k + 1].status) =>
                   Told(f, k + 1, e.events)
          PROVE  ResponseTook(f, p, es, run, e, m, k)
      <4>1. \A i \in 1..k+1 :
              messages[i].readable /\ ~Interim(messages[i].status) =>
                Told(f, i, es) \/ Told(f, i, e.events)
        BY <1>1, <1>13, <3>4, <3>5, ToldMore
      <4>2. AtResponse(f, p, es, e, m, k + 1)
        BY <1>1, <1>11, <1>12, <3>3, <3>5, <4>1 DEF AtResponse
      <4>3. QED
        BY <1>1, <1>10, <3>4, <3>5, <4>2 DEF ResponseTook
    <3>6. CASE Interim(messages[k + 1].status)
      <4>1. Parses(taken.message, messages)
        BY <2>6, <3>1, <3>6
      <4>2. /\ e.more = run.more /\ e.flow.requests = q /\ e.events = run.events
        BY <1>1, <1>5, <1>9, <3>1, <3>6, <4>1 DEF Answered
      <4>3. done[k + 1] = done[k]
        BY <2>3, <3>6
      <4>4. ResponseTook(f, p, es, run, e, m, k)
        BY <1>13, <3>5, <3>6, <4>2, <4>3
      <4>5. QED
        BY <4>2, <4>4
    <3>7. CASE ~Interim(messages[k + 1].status)
      <4>1. q # <<>> /\ Head(q) = done[k] + 1 /\ IsQueue(Tail(q), done[k] + 1, m)
        BY <1>6, <1>13, <2>3, <2>4, <2>5, <3>7, QueueLeft
      <4>2. done[k + 1] = done[k] + 1 /\ messages[k + 1].answers = Head(q) /\ done[k + 1] <= m
        BY <1>13, <2>3, <2>5, <3>7, <4>1
      <4>3. CASE ~messages[k + 1].readable
        <5>1. ~Parses(taken.message, messages)
          BY <3>1, <4>3
        <5>2. e.more = run.more /\ e.flow.requests = Tail(q) /\ e.events = run.events
          BY <1>1, <1>5, <1>9, <3>1, <4>1, <5>1 DEF Answered
        <5>3. ResponseTook(f, p, es, run, e, m, k)
          BY <3>5, <4>1, <4>2, <4>3, <5>2
        <5>4. QED
          BY <5>2, <5>3
      <4>4. CASE messages[k + 1].readable
        <5>1. Parses(taken.message, messages)
          BY <3>1, <4>4
        <5>2. PICK x : x = Event(f, Head(q), k + 1, taken.message)
          OBVIOUS
        <5>3. /\ e.more = run.more /\ e.flow.requests = Tail(q)
              /\ e.events = Append(run.events, x)
          BY <1>1, <1>5, <1>9, <3>1, <3>7, <4>1, <5>1, <5>2 DEF Answered
        <5>4. x.flow = f /\ x.request = Head(q) /\ x.response = k + 1 /\ x.units = taken.message
          BY <5>2 DEF Event
        <5>5. EventTrue(x)
          BY <1>1, <3>2, <4>2, <5>4 DEF EventTrue
        <5>6. /\ \A i : Told(f, i, run.events) => Told(f, i, e.events)
              /\ Told(f, k + 1, e.events) /\ EventsTrue(e.events)
          BY <1>6, <5>3, <5>4, <5>5, ToldAppend
        <5>7. ResponseTook(f, p, es, run, e, m, k)
          BY <3>5, <4>1, <4>2, <5>3, <5>6
        <5>8. QED
          BY <5>6, <5>7
      <4>5. QED
        BY <4>3, <4>4
    <3>8. QED
      BY <3>6, <3>7
  <2>9. QED
    BY <1>17, <2>7, <2>8
<1>21. QED
  BY <1>13, <1>18, <1>19, <1>20

\* Without a request in the queue the loop drains the stream and reports nothing.
LEMMA ResponseTurnIdles ==
  ASSUME NEW f, Carries(f), NEW fin, NEW run \in Runs(Traffic[f]), run.flow.requests = <<>>,
         NEW e, e = ResponseTurn(f, fin, run)
  PROVE  e.flow.requests = <<>> /\ e.events = run.events
<1>1. PICK taken : e = Answer(f, run, taken)
  BY DEF ResponseTurn
<1>2. Answered(f, run, taken, e)
  BY <1>1, AnswerIs
<1>3. QED
  BY <1>2 DEF Answered

\* A turn that does not end the loop shortens the stream.
LEMMA ResponseTurnShrinks ==
  ASSUME NEW f, Carries(f), NEW fin, NEW run \in Runs(Traffic[f]),
         NEW w, NEW p \in Nat, EndsIn(w, run.flow.server.stream, p),
         NEW e, e = ResponseTurn(f, fin, run), e.more
  PROVE  Len(e.flow.server.stream) < Len(run.flow.server.stream)
<1> DEFINE messages == Traffic[f].server
           U == UnitsOf(messages)
           stream == run.flow.server.stream
           afterHead == /\ run.flow.requests # <<>>
                        /\ Traffic[f].client[Head(run.flow.requests)].method = "HEAD"
<1>1. PICK taken : taken = TakeMessage(stream, messages, FALSE, afterHead, fin)
  OBVIOUS
<1>2. e = Answer(f, run, taken)
  BY <1>1 DEF ResponseTurn
<1>3. Answered(f, run, taken, e)
  BY <1>2, AnswerIs
<1>4. taken.message # <<>> /\ e.flow.server.stream = taken.stream
  BY <1>3 DEF Answered, SameBut
<1> HIDE DEF afterHead
<1>5. messages \in Seq(Messages) /\ stream \in Seq(U)
  BY DEF Carries, Runs, FlowsOf, Directions
<1>6. PICK rest \in Seq(U) : rest = taken.stream
  BY <1>1, <1>5, TakeMessageShape
<1>7. PICK message \in Seq(U) : message = taken.message
  BY <1>1, <1>5, TakeMessageShape
<1>8. (message = <<>> /\ rest = <<>>) \/ Joined(message, rest, stream)
  BY <1>1, <1>5, <1>6, <1>7, TakeMessageCuts
<1> HIDE DEF messages, U, stream
<1>9. EndsIn(w, stream, p)
  BY DEF stream
<1>10. Len(rest) < Len(stream)
  BY <1>4, <1>5, <1>7, <1>8, <1>9, CutEndsIn
<1>11. QED
  BY <1>4, <1>6, <1>10 DEF stream

\* What the server's loop keeps to: it has taken some responses, and all that it can
\* tell once it ends; or the client's direction is stuck.
Answers(f, p, es, run, m, stuck) ==
  \/ \E k \in 0..Len(Traffic[f].server) :
       AtResponse(f, p, es, run, m, k) /\ (~run.more => AllRead(f, p, k))
  \/ stuck /\ run.flow.requests = <<>>

\* What the server's loop ends with: it has taken all responses it can tell, or the
\* client's direction is stuck; and what it reported is true.
LEMMA ServerTakes ==
  ASSUME NEW f, Carries(f), Honest(f), NEW fin,
         NEW flow \in FlowsOf(Traffic[f]), FlowInBudget(flow),
         NEW w, w = Units(Traffic[f].server), NEW p \in 0..Len(w),
         fin => (Seamless => p = Len(w)),
         EndsIn(w, flow.server.stream, p),
         Increasing(flow.requests), NEW es,
         NEW m \in Nat, m <= Len(Traffic[f].client), NEW stuck,
         Answerable(f, p, m, stuck),
         Answers(f, p, es, Running(flow), m, stuck),
         NEW e, e = Parse(f, "server", fin, flow)
  PROVE  /\ e \in ServerRuns(f, w, p, flow)
         /\ EventsTrue(e.events)
         /\ Answers(f, p, es, e, m, stuck) /\ ~e.more
<1>1. PICK n \in Nat : n = Len(Traffic[f].server)
  BY DEF Carries
<1> DEFINE Good == {run \in ServerRuns(f, w, p, flow) :
                      /\ EventsTrue(run.events)
                      /\ \/ \E k \in 0..n : /\ AtResponse(f, p, es, run, m, k)
                                            /\ ~run.more => AllRead(f, p, k)
                         \/ stuck /\ run.flow.requests = <<>>}
<1>2. w \in Seq(UnitsOf(Traffic[f].server))
  BY UnitsShape DEF Carries
<1>3. Len(flow.server.stream) \in Nat /\ p \in Nat
  BY <1>2 DEF FlowsOf, Directions
<1>4. PICK run : run = Running(flow)
  OBVIOUS
<1>5. /\ run \in GoodRuns(f, flow) /\ run.more
      /\ run.flow = flow /\ run.events = <<>> /\ run.queued = {} /\ run.lost = {}
  BY <1>4, RunningShape
<1>6. run \in ServerRuns(f, w, p, flow)
  <2>1. Reported(run.events) = {}
    BY <1>5, NoneReported
  <2>2. InTurn(run.events)
    <3>1. 1..Len(run.events) = {}
      BY <1>5
    <3>2. QED
      BY <3>1 DEF InTurn
  <2>3. Behind(f, run.lost \union Reported(run.events), run.flow.requests)
    BY <1>5, <2>1 DEF Behind
  <2>4. Cut(w, p, flow.server, flow.server)
    BY <1>3 DEF Cut, SameBut
  <2>5. QED
    BY <1>5, <2>1, <2>2, <2>3, <2>4 DEF ServerRuns
<1>7. run \in Good
  <2>1. EventsTrue(run.events)
    <3>1. 1..Len(run.events) = {}
      BY <1>5
    <3>2. QED
      BY <3>1 DEF EventsTrue
  <2>2. \/ \E k \in 0..n : AtResponse(f, p, es, run, m, k)
        \/ stuck /\ run.flow.requests = <<>>
    BY <1>1, <1>4, <1>5 DEF Answers
  <2>3. QED
    BY <1>5, <1>6, <2>1, <2>2
<1>8. ASSUME NEW x \in Good, x.more
      PROVE  /\ LoopTurn(f, "server", fin, x) \in Good
             /\ Left("server", x) \in Nat
             /\ LoopTurn(f, "server", fin, x).more =>
                  Left("server", LoopTurn(f, "server", fin, x)) < Left("server", x)
  <2>1. PICK y : y = ResponseTurn(f, fin, x)
    OBVIOUS
  <2>2. y = LoopTurn(f, "server", fin, x)
    BY <2>1 DEF LoopTurn
  <2>3. x \in ServerRuns(f, w, p, flow) /\ EventsTrue(x.events)
        /\ \/ \E k \in 0..n : AtResponse(f, p, es, x, m, k)
           \/ stuck /\ x.flow.requests = <<>>
    BY <1>8
  <2>4. x \in Runs(Traffic[f]) /\ EndsIn(w, x.flow.server.stream, p)
    BY <2>3 DEF ServerRuns, GoodRuns, Cut
  <2>5. y \in ServerRuns(f, w, p, flow)
    BY <1>2, <1>3, <2>1, <2>3, ResponseTurnOrders
  <2>6. y \in Good
    <3>1. CASE stuck /\ x.flow.requests = <<>>
      <4>1. y.flow.requests = <<>> /\ y.events = x.events
        BY <2>1, <2>4, <3>1, ResponseTurnIdles
      <4>2. QED
        BY <2>3, <2>5, <3>1, <4>1
    <3>2. CASE ~(stuck /\ x.flow.requests = <<>>)
      <4>1. PICK k \in 0..n : AtResponse(f, p, es, x, m, k)
        BY <2>3, <3>2
      <4>2. ResponseTook(f, p, es, x, y, m, k) /\ EventsTrue(y.events)
        <5>1. k \in 0..Len(Traffic[f].server)
          BY <1>1, <4>1
        <5>2. QED
          BY <2>1, <2>3, <3>2, <4>1, <5>1, ResponseTurnTakes
      <4>3. CASE ~y.more /\ AtResponse(f, p, es, y, m, k) /\ AllRead(f, p, k)
        BY <2>5, <4>1, <4>2, <4>3
      <4>4. CASE k + 1 \in 0..n /\ AtResponse(f, p, es, y, m, k + 1) /\ y.more
        BY <2>5, <4>2, <4>4
      <4>5. QED
        BY <1>1, <1>8, <4>2, <4>3, <4>4 DEF ResponseTook
    <3>3. QED
      BY <3>1, <3>2
  <2>7. Len(x.flow.server.stream) \in Nat
    BY <2>4 DEF Runs, FlowsOf, Directions
  <2>8. y.more => Len(y.flow.server.stream) < Len(x.flow.server.stream)
    BY <1>3, <2>1, <2>4, ResponseTurnShrinks
  <2>9. QED
    BY <2>2, <2>6, <2>7, <2>8 DEF Left
<1> HIDE DEF Good
<1>9. PICK side : side = "server"
  OBVIOUS
<1>10. /\ Len(flow[side].stream) \in Nat /\ Running(flow) \in Good
       /\ \A x \in Good : x.more => LoopTurn(f, side, fin, x) \in Good
       /\ \A x \in Good : x.more =>
            /\ Left(side, x) \in Nat
            /\ LoopTurn(f, side, fin, x).more => Left(side, LoopTurn(f, side, fin, x)) < Left(side, x)
       /\ e = Parse(f, side, fin, flow)
  BY <1>3, <1>4, <1>7, <1>8, <1>9
<1>11. e \in Good /\ ~e.more
  BY <1>10, ParseLoop
<1>12. QED
  BY <1>1, <1>11 DEF Good, Answers

-----------------------------------------------------------------------------
(* A segment of a connection that is in step.                              *)

\* push moves a direction on, when all that was sent fits its stream.  What shows
\* only new units leaves a stuck one alone; of a seamless one it is clear what it has
\* passed.
PushStepped(w, d, S, segment, e, R) ==
  /\ Follows(w, e, R) /\ Start(e) = Start(d) /\ At(d) <= At(e)
  /\ S = 0..At(d)-1 /\ segment.from <= At(d) => R = 0..At(e)-1 /\ segment.to <= At(e)
  /\ Stuck(d, S) /\ segment.from..segment.to-1 \intersect S = {} =>
       e.stream = d.stream /\ At(e) = At(d)

\* Direction::push for a segment that is not a SYN.
LEMMA PushSteps ==
  ASSUME NEW U, NEW w, ShortWire(U, w), NEW d \in Directions(U), InBudget(d),
         NEW S \in SUBSET Nat, Wired(w, d, S), d.next # Unset, Len(w) <= StreamLimit,
         NEW segment \in SegmentsOf(Len(w)), segment.from <= segment.to, ~segment.syn,
         NEW R, R = With(S, segment.from, segment.to),
         NEW e, e = PushSegment(d, w, segment)
  PROVE  PushStepped(w, d, S, segment, e, R)
<1>1. PICK n \in Nat : n = Len(w)
  BY DEF ShortWire
<1>2. PICK from \in 0..n, to \in 0..n : from = segment.from /\ to = segment.to
  BY <1>1 DEF SegmentsOf
<1>3. n + 1 < SeqSpace /\ SeqSpace \in Nat \ {0} /\ from \in Nat /\ to \in Nat
      /\ StreamLimit \in Nat
  BY <1>1, DirectionAssumption DEF ShortWire
<1>4. Follows(w, d, S) /\ d.next \notin DOMAIN d.pending
  BY DEF Wired
<1>5. At(d) \in 0..n /\ Start(d) \in Int
  BY <1>1, <1>4, Counts DEF Follows
<1>6. CASE from < to
  <2>1. SeqAt(from) = from + 1
    <3>1. PICK m \in Int : m = from + 1
      BY <1>3
    <3>2. 0 <= m /\ m < SeqSpace
      BY <1>1, <1>2, <1>3, <3>1
    <3>3. m % SeqSpace = m
      BY <1>3, <3>2, ModSmall
    <3>4. QED
      BY <3>1, <3>3 DEF SeqAt
  <2>2. e = Push(d, from + 1, Part(w, from, to))
    BY <1>2, <1>6, <2>1 DEF PushSegment, Part
  <2>3. d = Started(d, from + 1)
    BY DEF Started, Directions
  <2>4. Takes(U, w, d, from, to, e, S, R)
    <3>1. to \in 1..Len(w) /\ from \in 0..to-1 /\ R = With(S, from, to)
      BY <1>1, <1>2, <1>6
    <3>2. d.next = IF d.next = Unset THEN from + 1 ELSE d.next
      OBVIOUS
    <3>3. QED
      BY <1>4, <2>2, <2>3, <3>1, <3>2, PushTakes
  <2>5. /\ Follows(w, e, R) /\ At(d) <= At(e) /\ Start(e) = Start(d)
        /\ from > At(d) \/ to <= At(d) => e.stream = d.stream /\ At(e) = At(d)
        /\ from <= At(d) => to <= At(e)
    BY <1>1, <1>3, <2>4 DEF Takes
  <2>6. At(e) \in 0..n /\ 0..At(e)-1 \subseteq R
    BY <1>1, <2>5 DEF Follows
  <2>7. ASSUME S = 0..At(d)-1, from <= At(d) PROVE R = 0..At(e)-1 /\ to <= At(e)
    <3>1. to <= At(e)
      BY <2>5, <2>7
    <3>2. \A q \in R : q \in 0..At(e)-1
      BY <1>2, <1>3, <1>5, <2>5, <2>6, <2>7, <3>1, SMTT(60) DEF With
    <3>3. QED
      BY <2>6, <3>1, <3>2
  <2>8. ASSUME Stuck(d, S), from..to-1 \intersect S = {}
        PROVE  e.stream = d.stream /\ At(e) = At(d)
    <3>1. At(d) \notin from..to-1
      BY <2>8 DEF Stuck
    <3>2. from > At(d) \/ to <= At(d)
      BY <1>3, <1>5, <3>1
    <3>3. QED
      BY <2>5, <3>2
  <2>9. QED
    BY <1>2, <2>5, <2>7, <2>8 DEF PushStepped
<1>7. CASE ~(from < to)
  <2>1. from = to
    BY <1>2, <1>3, <1>7
  <2>2. R = S
    BY <1>2, <1>3, <2>1 DEF With
  <2>3. e = d
    BY <1>2, <1>7 DEF PushSegment
  <2>4. At(d) <= At(d) /\ (from <= At(d) => to <= At(d))
    BY <1>5, <2>1
  <2>5. QED
    BY <1>2, <1>4, <2>2, <2>3, <2>4 DEF PushStepped
<1>8. QED
  BY <1>6, <1>7

\* A segment that the hosts of a connection may send, whose flow is in step.
Steps(d, S, segment, size) ==
  /\ segment.from <= segment.to /\ ~segment.syn
  /\ OnceOnly => segment.from..segment.to-1 \intersect S = {}
  /\ Seamless => segment.from <= At(d)
  /\ segment.fin => segment.to = size

\* The flow of a connection, with what is known of it.
Known(f, flow, done, got) ==
  /\ flow \in FlowsOf(Traffic[f]) /\ FlowInBudget(flow)
  /\ Tracks(f, flow, done, got) /\ Seen(f, done, got)
  /\ QueuedIn(f, flow) \subseteq done /\ Increasing(flow.requests)

\* What a faithful scenario says of a connection.
LEMMA FaithfulIs ==
  ASSUME IInv, Faithful, NEW f \in DOMAIN Traffic
  PROVE  /\ Carries(f) /\ Honest(f)
         /\ ShortWires /\ KeepsFlows /\ (Seamless \/ OnceOnly)
         /\ Wire[f].client = Units(Traffic[f].client)
         /\ Wire[f].server = Units(Traffic[f].server)
         /\ ShortWire(UnitsOf(Traffic[f].client), Wire[f].client)
         /\ ShortWire(UnitsOf(Traffic[f].server), Wire[f].server)
         /\ Len(Wire[f].client) <= StreamLimit /\ Len(Wire[f].server) <= StreamLimit
<1>1. ShortWires /\ KeepsFlows /\ (Seamless \/ OnceOnly) /\ Honest(f)
      /\ \A side \in Sides : Len(Wire[f][side]) <= StreamLimit
  BY DEF Faithful
<1>2. "client" \in Sides /\ "server" \in Sides
  BY DEF Sides
<1>3. f \in DOMAIN Settings[scenario].traffic /\ scenario \in DOMAIN Settings
  BY DEF Traffic, IInv
<1>4. \A side \in Sides : Wire[f][side] = Units(Traffic[f][side])
  BY <1>3 DEF Wire, Wires, Traffic
<1>5. QED
  BY <1>1, <1>2, <1>4, WireIs

\* What push does to both directions of a flow that is in step, on the client's side.
LEMMA ClientSteps ==
  ASSUME IInv, Faithful, NEW f \in DOMAIN Traffic, NEW fin,
         NEW flow, NEW done, NEW got \in [Sides -> SUBSET Nat], Known(f, flow, done, got),
         NEW es, InStep(f, flow, got, es), Reached(flow, got),
         NEW segment \in SegmentsOf(Len(Wire[f].client)),
         Steps(flow.client, got.client, segment, Len(Wire[f].client)),
         NEW more, more = Adds(got, "client", segment),
         NEW pushed, pushed = Pushed(flow, "client", Wire[f].client, segment),
         NEW e, e = Parse(f, "client", fin, pushed)
  PROVE  InStep(f, e.flow, more, es) /\ Reached(e.flow, more) /\ e.events = <<>>
<1>1. PICK w : w = Wire[f].client
  OBVIOUS
<1>2. PICK messages : messages = Traffic[f].client
  OBVIOUS
<1>3. /\ Carries(f) /\ Honest(f) /\ ShortWires /\ (Seamless \/ OnceOnly)
      /\ w = Units(messages) /\ ShortWire(UnitsOf(messages), w) /\ Len(w) <= StreamLimit
      /\ messages \in Seq(Messages) /\ w \in Seq(UnitsOf(messages))
  BY <1>1, <1>2, FaithfulIs DEF Carries, ShortWire
<1>4. PICK n \in Nat, l \in Nat : n = Len(messages) /\ l = Len(w)
  BY <1>3
<1>5. PICK d : d = flow.client
  OBVIOUS
<1>6. /\ flow \in FlowsOf(Traffic[f]) /\ FlowInBudget(flow)
      /\ Tracks(f, flow, done, got) /\ Seen(f, done, got)
      /\ QueuedIn(f, flow) \subseteq done /\ Increasing(flow.requests)
  BY DEF Known
<1>7. /\ d \in Directions(UnitsOf(messages)) /\ InBudget(d) /\ Wired(w, d, got.client)
      /\ d.next # Unset /\ got.client \in SUBSET Nat
  BY <1>1, <1>2, <1>5, <1>6 DEF FlowsOf, FlowInBudget, Tracks, InStep, Sides
<1>8. PICK c : c = PushSegment(d, w, segment)
  OBVIOUS
<1>9. /\ pushed.client = c /\ pushed.server = flow.server /\ pushed.requests = flow.requests
  <2>1. pushed = [flow EXCEPT !.client = c]
    BY <1>1, <1>5, <1>8 DEF Pushed
  <2>2. QED
    BY <1>6, <2>1 DEF FlowsOf
<1>10. segment.from \in Nat /\ segment.to \in Nat
  <2>1. segment.from \in 0..l /\ segment.to \in 0..l
    BY <1>1, <1>4 DEF SegmentsOf
  <2>2. QED
    BY <2>1
<1>11. more.client = With(got.client, segment.from, segment.to) /\ more.server = got.server
  BY <1>10, ReceivedIs DEF Sides
<1>12. PushStepped(w, d, got.client, segment, c, more.client)
  BY <1>1, <1>3, <1>5, <1>7, <1>8, <1>11, PushSteps DEF Steps
<1>13. /\ Follows(w, c, more.client) /\ Start(c) = Start(d) /\ At(d) <= At(c)
       /\ got.client = 0..At(d)-1 /\ segment.from <= At(d) => more.client = 0..At(c)-1
       /\ Stuck(d, got.client) /\ segment.from..segment.to-1 \intersect got.client = {} =>
            c.stream = d.stream /\ At(c) = At(d)
  BY <1>12 DEF PushStepped
<1>14. /\ pushed \in FlowsOf(Traffic[f]) /\ FlowInBudget(pushed)
       /\ QueuedIn(f, pushed) = QueuedIn(f, flow)
  BY <1>1, <1>2, <1>3, <1>6, PushedShape DEF Sides
<1>15. Tracks(f, pushed, done, more)
  <2>1. Fitting(flow["client"], got["client"], segment)
    BY <1>5, <1>7, <1>10 DEF Fitting, Steps
  <2>2. "client" \in Sides
    BY DEF Sides
  <2>3. QED
    BY <1>3, <1>6, <2>1, <2>2, PushTracks
<1>16. PICK p : p = At(c)
  OBVIOUS
<1>17. c \in Directions(UnitsOf(messages))
  BY <1>2, <1>9, <1>14 DEF FlowsOf
<1>18. /\ p \in 0..l /\ EndsIn(w, c.stream, p) /\ p - Len(c.stream) = Start(c)
       /\ Len(c.stream) \in Nat
  BY <1>4, <1>13, <1>16, <1>17, Counts DEF Follows, Start
<1>19. \A k \in 1..Len(pushed.requests) : StartsIn(w, pushed.requests[k], 0, p - Len(c.stream))
  <2>1. SUFFICES ASSUME NEW k \in 1..Len(pushed.requests)
                 PROVE  StartsIn(w, pushed.requests[k], 0, p - Len(c.stream))
    OBVIOUS
  <2>2. <<f, pushed.requests[k]>> \in done
    BY <1>6, <1>14, <2>1 DEF QueuedIn
  <2>3. c.next # Unset
    BY <1>13 DEF Follows
  <2>4. QED
    BY <1>1, <1>9, <1>15, <1>18, <2>2, <2>3 DEF Tracks
<1>20. PICK m0 \in 0..n :
         /\ TookRequests(f, d, m0)
         /\ \/ \E k \in 0..Len(Traffic[f].server) : TookResponses(f, flow, m0, k, es)
            \/ flow.requests = <<>> /\ Stuck(d, got.client)
  BY <1>2, <1>4, <1>5 DEF InStep
<1>21. PICK edges : edges = Edges(messages)
  OBVIOUS
<1>22. Rises(edges, n) /\ Len(w) = edges[n]
  BY <1>3, <1>4, <1>21, EdgesAre DEF Layout
<1>23. /\ p - Len(c.stream) = edges[m0]
       /\ m0 < n => At(d) < edges[m0 + 1]
  BY <1>2, <1>4, <1>13, <1>18, <1>20, <1>21 DEF TookRequests
<1>24. ASSUME NEW a \in Nat, IsQueue(flow.requests, a, m0)
       PROVE  /\ e \in ClientRuns(f, w, p, pushed)
              /\ \E m \in m0..n : AtRequest(f, p, e, a, m) /\ ~Whole(messages, p, m)
  <2>1. /\ p \in 0..Len(w) /\ EndsIn(w, pushed.client.stream, p)
        /\ Increasing(pushed.requests)
        /\ \A k \in 1..Len(pushed.requests) :
             StartsIn(w, pushed.requests[k], 0, p - Len(pushed.client.stream))
        /\ m0 \in 0..Len(Traffic[f].client) /\ w = Units(Traffic[f].client)
        /\ p - Len(pushed.client.stream) = Edges(Traffic[f].client)[m0]
        /\ IsQueue(pushed.requests, a, m0)
    BY <1>2, <1>3, <1>4, <1>6, <1>9, <1>18, <1>19, <1>20, <1>21, <1>23, <1>24
  <2>2. e \in ClientRuns(f, w, p, pushed)
        /\ \E m \in m0..Len(Traffic[f].client) :
              AtRequest(f, p, e, a, m) /\ ~Whole(Traffic[f].client, p, m)
    BY <1>3, <1>14, <1>24, <2>1, ClientTakes
  <2>3. QED
    BY <1>2, <1>4, <2>2
<1>25. ASSUME NEW a \in Nat, NEW m \in m0..n, e \in ClientRuns(f, w, p, pushed),
              AtRequest(f, p, e, a, m), ~Whole(messages, p, m)
       PROVE  /\ e.events = <<>> /\ e.flow.server = flow.server /\ At(e.flow.client) = p
              /\ TookRequests(f, e.flow.client, m) /\ IsQueue(e.flow.requests, a, m)
              /\ e.flow.client.next # Unset /\ edges[m] <= p
  <2>1. /\ e.events = <<>> /\ e.flow.server = flow.server
        /\ SameBut(c, e.flow.client, e.flow.client.stream)
        /\ EndsIn(w, e.flow.client.stream, p)
        /\ e \in Runs(Traffic[f])
    BY <1>9, <1>25 DEF ClientRuns, Cut, GoodRuns
  <2>2. e.flow.client.next = c.next /\ Len(e.flow.client.stream) <= p
    BY <2>1 DEF SameBut, EndsIn
  <2>3. Len(e.flow.client.stream) \in Nat
    BY <2>1 DEF Runs, FlowsOf, Directions
  <2>4. At(e.flow.client) = p /\ e.flow.client.next # Unset
    BY <1>13, <1>16, <2>2 DEF At, Follows
  <2>5. p - Len(e.flow.client.stream) = edges[m] /\ IsQueue(e.flow.requests, a, m)
    BY <1>2, <1>21, <1>25 DEF AtRequest
  <2>6. m < n => p < edges[m + 1]
    <3>1. SUFFICES ASSUME m < n PROVE p < edges[m + 1]
      OBVIOUS
    <3>2. m + 1 \in 0..n
      BY <1>20, <1>25, <3>1
    <3>3. edges[m + 1] \in Nat
      BY <1>22, <3>2 DEF Rises
    <3>4. ~(edges[m + 1] <= p)
      BY <1>4, <1>21, <1>25, <3>1 DEF Whole
    <3>5. QED
      BY <1>18, <3>3, <3>4
  <2>7. edges[m] <= p
    BY <1>18, <2>3, <2>5
  <2>8. TookRequests(f, e.flow.client, m)
    BY <1>2, <1>4, <1>21, <2>4, <2>5, <2>6 DEF TookRequests, Start
  <2>9. QED
    BY <2>1, <2>4, <2>5, <2>7, <2>8
<1>26. ASSUME At(e.flow.client) = p, e.flow.server = flow.server PROVE Reached(e.flow, more)
  <2>1. SUFFICES ASSUME Seamless
                 PROVE  more.client = 0..p-1 /\ more.server = 0..At(flow.server)-1
    BY <1>26 DEF Reached
  <2>2. got.client = 0..At(d)-1 /\ got.server = 0..At(flow.server)-1
    BY <1>5, <2>1 DEF Reached
  <2>3. segment.from <= At(d)
    BY <1>5, <2>1 DEF Steps
  <2>4. QED
    BY <1>11, <1>13, <1>16, <2>2, <2>3
<1>27. flow.server.next # Unset
  BY DEF InStep
<1>28. CASE \E k \in 0..Len(Traffic[f].server) : TookResponses(f, flow, m0, k, es)
  <2>1. PICK k \in 0..Len(Traffic[f].server) : TookResponses(f, flow, m0, k, es)
    BY <1>28
  <2>2. Done(f)[k] \in Nat
    <3>1. PICK s \in Nat : s = Len(Traffic[f].server)
      BY <1>3 DEF Carries
    <3>2. Done(f) \in [0..s -> 0..n]
      BY <1>2, <1>3, <1>4, <3>1, DoneIs DEF Pairings
    <3>3. QED
      BY <2>1, <3>1, <3>2
  <2>3. IsQueue(flow.requests, Done(f)[k], m0) /\ Done(f)[k] <= m0
    BY <2>1 DEF TookResponses
  <2>4. PICK m \in m0..n : AtRequest(f, p, e, Done(f)[k], m) /\ ~Whole(messages, p, m)
    BY <1>24, <2>2, <2>3
  <2>5. /\ e.events = <<>> /\ e.flow.server = flow.server /\ At(e.flow.client) = p
        /\ TookRequests(f, e.flow.client, m) /\ IsQueue(e.flow.requests, Done(f)[k], m)
        /\ e.flow.client.next # Unset
    BY <1>24, <1>25, <2>2, <2>3, <2>4
  <2>6. Done(f)[k] <= m
    BY <1>20, <2>2, <2>3
  <2>7. TookResponses(f, e.flow, m, k, es)
    BY <2>1, <2>5, <2>6 DEF TookResponses
  <2>8. m \in 0..Len(Traffic[f].client)
    BY <1>2, <1>4, <1>20, <2>4
  <2>9. InStep(f, e.flow, more, es)
    BY <1>27, <2>1, <2>5, <2>7, <2>8 DEF InStep
  <2>10. QED
    BY <1>26, <2>5, <2>9
<1>29. CASE flow.requests = <<>> /\ Stuck(d, got.client)
  <2>1. IsQueue(flow.requests, m0, m0)
    <3>1. Len(flow.requests) = m0 - m0 /\ 1..m0-m0 = {}
      BY <1>20, <1>29
    <3>2. QED
      BY <3>1 DEF IsQueue
  <2>2. PICK m \in m0..n : AtRequest(f, p, e, m0, m) /\ ~Whole(messages, p, m)
    BY <1>20, <1>24, <2>1
  <2>3. /\ e.events = <<>> /\ e.flow.server = flow.server /\ At(e.flow.client) = p
        /\ TookRequests(f, e.flow.client, m) /\ IsQueue(e.flow.requests, m0, m)
        /\ e.flow.client.next # Unset /\ edges[m] <= p
    BY <1>20, <1>24, <1>25, <2>1, <2>2
  <2>4. At(d) = p
    <3>1. CASE OnceOnly
      BY <1>5, <1>13, <1>16, <1>29, <3>1 DEF Steps
    <3>2. CASE Seamless
      <4>1. got.client = 0..At(d)-1
        BY <1>5, <3>2 DEF Reached
      <4>2. At(d) \in Int
        BY <1>7, Counts
      <4>3. FALSE
        BY <1>29, <4>1, <4>2 DEF Stuck
      <4>4. QED
        BY <4>3
    <3>3. QED
      BY <1>3, <3>1, <3>2
  <2>5. m = m0
    <3>1. SUFFICES ASSUME m0 < m PROVE FALSE
      BY <1>20, <2>2
    <3>2. m0 < n /\ m0 + 1 \in 0..n /\ m \in 0..n /\ (m0 + 1 < m \/ m0 + 1 = m)
      BY <1>20, <2>2, <3>1
    <3>3. edges[m0 + 1] \in Nat /\ edges[m] \in Nat
      BY <1>22, <3>2 DEF Rises
    <3>4. edges[m0 + 1] <= edges[m]
      <4>1. \A x, y \in 0..n : x < y => edges[x] < edges[y]
        BY <1>22, RisesCovers
      <4>2. QED
        BY <3>2, <3>3, <4>1
    <3>5. p < edges[m0 + 1]
      BY <1>23, <2>4, <3>2
    <3>6. QED
      BY <1>18, <2>3, <3>3, <3>4, <3>5
  <2>6. e.flow.requests = <<>>
    <3>1. e.flow.requests \in Seq(Nat)
      BY <1>20, <1>24, <2>1, RequestsShape DEF ClientRuns, GoodRuns, Runs
    <3>2. QED
      BY <1>20, <2>3, <2>5, <3>1, QueueLeft
  <2>7. Stuck(e.flow.client, more.client)
    BY <1>11, <1>29, <2>3, <2>4 DEF Stuck, With
  <2>8. m \in 0..Len(Traffic[f].client)
    BY <1>2, <1>4, <1>20, <2>2, SMTT(60)
  <2>9. InStep(f, e.flow, more, es)
    BY <1>27, <2>3, <2>6, <2>7, <2>8 DEF InStep
  <2>10. QED
    BY <1>26, <2>3, <2>9
<1>30. QED
  BY <1>20, <1>28, <1>29

\* When some of a final response has arrived so has its request: it is in front of
\* what the client's direction waits for, or that will not be shown again.
LEMMA RequestCame ==
  ASSUME IInv, Faithful, NEW f \in DOMAIN Traffic, NEW d, NEW S,
         Follows(Wire[f].client, d, S), NEW m \in 0..Len(Traffic[f].client), TookRequests(f, d, m),
         NEW got, got.client = S, Asked(f, got), NEW p, 0..p-1 \subseteq got.server,
         p \in 0..Len(Wire[f].server)
  PROVE  Answerable(f, p, m, Stuck(d, S))
<1>1. PICK w : w = Wire[f].client
  OBVIOUS
<1>2. PICK requests : requests = Traffic[f].client
  OBVIOUS
<1>3. PICK responses : responses = Traffic[f].server
  OBVIOUS
<1>4. /\ Carries(f) /\ Honest(f)
      /\ w = Units(requests) /\ Wire[f].server = Units(responses)
      /\ requests \in Seq(Messages) /\ responses \in Seq(Messages)
      /\ w \in Seq(UnitsOf(requests)) /\ Wire[f].server \in Seq(UnitsOf(responses))
  BY <1>1, <1>2, <1>3, FaithfulIs DEF Carries, ShortWire
<1>5. PICK n \in Nat, l \in Nat : n = Len(requests) /\ l = Len(w)
  BY <1>4
<1>6. SUFFICES ASSUME NEW k \in 0..Len(responses)-1, Edges(responses)[k] < p,
                      ~Interim(responses[k + 1].status), Done(f)[k] = m
               PROVE  Stuck(d, S)
  BY <1>3 DEF Answerable
<1>7. PICK s \in Nat : s = Len(responses)
  BY <1>4
<1>8. PICK j \in 1..s : j = k + 1
  BY <1>6, <1>7
<1>9. j - 1 = k /\ k \in 0..s /\ j \in 0..s
  BY <1>6, <1>7, <1>8
<1>10. PICK starts : starts = Edges(responses)
  OBVIOUS
<1>11. Layout(responses, Wire[f].server, starts)
  BY <1>4, <1>10, EdgesAre
<1>12. /\ starts[k] \in Nat /\ starts[j] \in Nat /\ starts[k] < starts[j]
       /\ Wire[f].server[starts[k] + 1] = <<j, 0>>
  <2>1. starts[j - 1] < starts[j] /\ starts[k] \in Nat /\ starts[j] \in Nat
    BY <1>7, <1>9, <1>11 DEF Layout, Rises
  <2>2. \A q \in starts[j - 1] + 1..starts[j] : Wire[f].server[q] = <<j, q - starts[j - 1] - 1>>
    BY <1>7, <1>11 DEF Layout
  <2>3. \A q \in starts[k] + 1..starts[j] : Wire[f].server[q] = <<j, q - starts[k] - 1>>
    BY <1>9, <2>2, Zenon
  <2>4. starts[k] < starts[j]
    BY <1>9, <2>1
  <2>5. PICK q : q = starts[k] + 1
    OBVIOUS
  <2>6. q \in starts[k] + 1..starts[j] /\ q - starts[k] - 1 = 0
    BY <2>1, <2>4, <2>5, SMTT(60)
  <2>7. Wire[f].server[q] = <<j, 0>>
    BY <2>3, <2>6
  <2>8. QED
    BY <2>1, <2>4, <2>5, <2>7
<1>13. starts[k] \in got.server
  <2>1. p \in Nat
    BY <1>4
  <2>2. starts[k] \in 0..p-1
    BY <1>6, <1>10, <1>12, <2>1
  <2>3. QED
    BY <2>2
<1>14. Wire[f].server[starts[k] + 1][1] = j
  BY <1>12
<1>15. 0..responses[j].after-1 \subseteq S
  BY <1>3, <1>13, <1>14 DEF Asked
<1>16. /\ responses[j].answers = m + 1 /\ m + 1 \in 1..n
  <2>1. k \in 0..Len(Traffic[f].server)-1
    BY <1>3, <1>6
  <2>2. Traffic[f].server[k + 1].answers = Done(f)[k] + 1
        /\ Done(f)[k] + 1 \in 1..Len(Traffic[f].client)
    BY <1>3, <1>4, <1>6, <2>1, DoneNext
  <2>3. QED
    BY <1>2, <1>3, <1>5, <1>6, <1>8, <2>2
<1>17. \A q \in 1..l : w[q][1] = m + 1 => q <= responses[j].after
  <2>1. ResponseHonest(f, j)
    BY <1>3, <1>4, <1>7 DEF Honest
  <2>2. \A q \in 1..Len(Wire[f].client) :
          Wire[f].client[q][1] = Traffic[f].server[j].answers => q <= Traffic[f].server[j].after
    BY <1>3, <1>6, <1>8, <2>1 DEF ResponseHonest
  <2>3. QED
    BY <1>1, <1>3, <1>5, <1>16, <2>2
<1>18. PICK edges : edges = Edges(requests)
  OBVIOUS
<1>19. Layout(requests, w, edges)
  BY <1>4, <1>18, EdgesAre
<1>20. PICK i \in 1..n : i = m + 1
  BY <1>16
<1>21. i - 1 = m /\ i \in 0..n /\ m \in 0..n /\ m < n
  BY <1>2, <1>5, <1>20
<1>22. /\ edges[m] \in Nat /\ edges[i] \in Nat /\ edges[m] < edges[i] /\ edges[i] <= l
       /\ w[edges[i]][1] = i
  <2>1. Rises(edges, n) /\ l = edges[n]
    BY <1>5, <1>19 DEF Layout
  <2>2. edges[i - 1] < edges[i] /\ edges[m] \in Nat /\ edges[i] \in Nat
    BY <1>21, <2>1 DEF Rises
  <2>3. edges[m] < edges[i]
    BY <1>21, <2>2
  <2>4. edges[i] <= edges[n]
    <3>1. \A x, y \in 0..n : x < y => edges[x] < edges[y]
      BY <2>1, RisesCovers
    <3>2. i = n \/ i < n
      BY <1>20
    <3>3. n \in 0..n /\ edges[n] \in Nat
      BY <2>1 DEF Rises
    <3>4. QED
      BY <1>21, <2>2, <3>1, <3>2, <3>3
  <2>5. \A q \in edges[i - 1] + 1..edges[i] : w[q] = <<i, q - edges[i - 1] - 1>>
    BY <1>5, <1>19 DEF Layout
  <2>6. \A q \in edges[m] + 1..edges[i] : w[q] = <<i, q - edges[m] - 1>>
    BY <1>21, <2>5, Zenon
  <2>7. edges[i] \in edges[m] + 1..edges[i]
    BY <2>2, <2>3
  <2>8. w[edges[i]][1] = i
    <3>1. PICK x : x = edges[i] - edges[m] - 1
      OBVIOUS
    <3>2. w[edges[i]] = <<i, x>>
      BY <2>6, <2>7, <3>1
    <3>3. QED
      BY <3>2
  <2>9. QED
    BY <2>1, <2>2, <2>3, <2>4, <2>8
<1>23. edges[i] \in 1..l
  BY <1>22
<1>24. edges[i] <= responses[j].after
  BY <1>17, <1>20, <1>22, <1>23
<1>25. At(d) < edges[i] /\ At(d) \in 0..l
  BY <1>1, <1>2, <1>5, <1>18, <1>20, <1>21 DEF TookRequests, Follows
<1>26. responses[j].after \in Nat
  <2>1. responses[j] \in Messages
    BY <1>4, <1>7
  <2>2. QED
    BY <2>1 DEF Messages
<1>27. At(d) \in 0..responses[j].after-1
  BY <1>22, <1>24, <1>25, <1>26
<1>28. QED
  BY <1>15, <1>27 DEF Stuck

\* A segment of the server keeps the flow in step, and what it completes is true.
LEMMA ServerSteps ==
  ASSUME IInv, Faithful, NEW f \in DOMAIN Traffic, NEW fin,
         NEW flow, NEW done, NEW got \in [Sides -> SUBSET Nat], Known(f, flow, done, got),
         NEW es, InStep(f, flow, got, es), Reached(flow, got),
         NEW segment \in SegmentsOf(Len(Wire[f].server)), fin => segment.fin,
         Steps(flow.server, got.server, segment, Len(Wire[f].server)),
         NEW more, more = Adds(got, "server", segment), Asked(f, more),
         NEW pushed, pushed = Pushed(flow, "server", Wire[f].server, segment),
         NEW e, e = Parse(f, "server", fin, pushed),
         NEW after, \A i : Told(f, i, es) \/ Told(f, i, e.events) => Told(f, i, after)
  PROVE  InStep(f, e.flow, more, after) /\ Reached(e.flow, more) /\ EventsTrue(e.events)
<1>1. PICK w : w = Wire[f].server
  OBVIOUS
<1>2. PICK messages : messages = Traffic[f].server
  OBVIOUS
<1>3. /\ Carries(f) /\ Honest(f) /\ ShortWires /\ (Seamless \/ OnceOnly)
      /\ w = Units(messages) /\ ShortWire(UnitsOf(messages), w) /\ Len(w) <= StreamLimit
      /\ messages \in Seq(Messages) /\ w \in Seq(UnitsOf(messages))
  BY <1>1, <1>2, FaithfulIs DEF Carries, ShortWire
<1>4. PICK n \in Nat, l \in Nat : n = Len(messages) /\ l = Len(w)
  BY <1>3
<1>5. PICK d : d = flow.server
  OBVIOUS
<1>6. /\ flow \in FlowsOf(Traffic[f]) /\ FlowInBudget(flow)
      /\ Tracks(f, flow, done, got) /\ Seen(f, done, got)
      /\ QueuedIn(f, flow) \subseteq done /\ Increasing(flow.requests)
  BY DEF Known
<1>7. /\ d \in Directions(UnitsOf(messages)) /\ InBudget(d) /\ Wired(w, d, got.server)
      /\ d.next # Unset /\ got.server \in SUBSET Nat
      /\ flow.client.next # Unset /\ Follows(Wire[f].client, flow.client, got.client)
  BY <1>1, <1>2, <1>5, <1>6 DEF FlowsOf, FlowInBudget, Tracks, Wired, InStep, Sides
<1>8. PICK c : c = PushSegment(d, w, segment)
  OBVIOUS
<1>9. /\ pushed.server = c /\ pushed.client = flow.client /\ pushed.requests = flow.requests
  <2>1. pushed = [flow EXCEPT !.server = c]
    BY <1>1, <1>5, <1>8 DEF Pushed
  <2>2. QED
    BY <1>6, <2>1 DEF FlowsOf
<1>10. segment.from \in 0..l /\ segment.to \in 0..l /\ segment.from \in Nat /\ segment.to \in Nat
  <2>1. segment.from \in 0..l /\ segment.to \in 0..l
    BY <1>1, <1>4 DEF SegmentsOf
  <2>2. QED
    BY <2>1
<1>11. more.server = With(got.server, segment.from, segment.to) /\ more.client = got.client
  BY <1>10, ReceivedIs DEF Sides
<1>12. PushStepped(w, d, got.server, segment, c, more.server)
  BY <1>1, <1>3, <1>5, <1>7, <1>8, <1>11, PushSteps DEF Steps
<1>13. /\ Follows(w, c, more.server) /\ Start(c) = Start(d)
       /\ got.server = 0..At(d)-1 /\ segment.from <= At(d) =>
            more.server = 0..At(c)-1 /\ segment.to <= At(c)
  BY <1>12 DEF PushStepped
<1>14. pushed \in FlowsOf(Traffic[f]) /\ FlowInBudget(pushed)
  BY <1>1, <1>2, <1>3, <1>6, PushedShape DEF Sides
<1>15. PICK p : p = At(c)
  OBVIOUS
<1>16. c \in Directions(UnitsOf(messages))
  BY <1>2, <1>9, <1>14 DEF FlowsOf
<1>17. /\ p \in 0..l /\ EndsIn(w, c.stream, p) /\ p - Len(c.stream) = Start(c)
       /\ Len(c.stream) \in Nat /\ 0..p-1 \subseteq more.server
  BY <1>4, <1>13, <1>15, <1>16, Counts DEF Follows, Start
<1>18. Reached(flow, got) /\ (Seamless => segment.from <= At(d))
       /\ (fin => segment.to = l)
  BY <1>1, <1>4, <1>5 DEF Steps
<1>19. Seamless => more.server = 0..p-1 /\ segment.to <= p /\ more.client = 0..At(flow.client)-1
  BY <1>5, <1>11, <1>13, <1>15, <1>18 DEF Reached
<1>20. fin => (Seamless => p = Len(w))
  BY <1>4, <1>10, <1>17, <1>18, <1>19
<1>21. PICK m \in 0..Len(Traffic[f].client) :
         /\ TookRequests(f, flow.client, m)
         /\ \/ \E k \in 0..n : TookResponses(f, flow, m, k, es)
            \/ flow.requests = <<>> /\ Stuck(flow.client, got.client)
  BY <1>2, <1>4 DEF InStep
<1>22. m \in Nat /\ m <= Len(Traffic[f].client)
  BY <1>3, <1>21 DEF Carries
<1>23. PICK stuck : stuck = Stuck(flow.client, got.client)
  OBVIOUS
<1>24. Answerable(f, p, m, stuck)
  BY <1>1, <1>4, <1>7, <1>11, <1>17, <1>21, <1>23, RequestCame
<1>25. Answers(f, p, es, Running(pushed), m, stuck)
  <2>1. CASE \E k \in 0..n : TookResponses(f, flow, m, k, es)
    <3>1. PICK k \in 0..n : TookResponses(f, flow, m, k, es)
      BY <2>1
    <3>2. PICK run : run = Running(pushed)
      OBVIOUS
    <3>3. run.flow = pushed /\ run.more
      BY <3>2 DEF Running
    <3>4. AtResponse(f, p, es, run, m, k)
      BY <1>2, <1>5, <1>9, <1>13, <1>17, <3>1, <3>3 DEF TookResponses, AtResponse
    <3>5. QED
      BY <1>2, <1>4, <3>1, <3>2, <3>3, <3>4 DEF Answers
  <2>2. CASE flow.requests = <<>> /\ Stuck(flow.client, got.client)
    <3>1. Running(pushed).flow.requests = <<>>
      BY <1>9, <2>2 DEF Running
    <3>2. QED
      BY <1>23, <2>2, <3>1 DEF Answers
  <2>3. QED
    BY <1>21, <2>1, <2>2
<1>26. /\ e \in ServerRuns(f, w, p, pushed)
       /\ EventsTrue(e.events)
       /\ Answers(f, p, es, e, m, stuck) /\ ~e.more
  <2>1. /\ p \in 0..Len(w) /\ EndsIn(w, pushed.server.stream, p)
        /\ Increasing(pushed.requests) /\ w = Units(Traffic[f].server)
    BY <1>2, <1>3, <1>4, <1>6, <1>9, <1>17
  <2>2. QED
    BY <1>1, <1>2, <1>3, <1>14, <1>20, <1>22, <1>24, <1>25, <2>1, ServerTakes, ZenonT(60)
<1>27. /\ e.flow.client = flow.client
       /\ SameBut(c, e.flow.server, e.flow.server.stream)
       /\ EndsIn(w, e.flow.server.stream, p)
       /\ e \in Runs(Traffic[f])
  BY <1>9, <1>26 DEF ServerRuns, Cut, GoodRuns
<1>28. e.flow.server.next = c.next /\ c.next # Unset
  BY <1>13, <1>27 DEF SameBut, Follows
<1>29. At(e.flow.server) = p
  BY <1>15, <1>28 DEF At
<1>30. Reached(e.flow, more)
  BY <1>19, <1>27, <1>29 DEF Reached
<1>31. \/ \E k \in 0..Len(Traffic[f].server) : TookResponses(f, e.flow, m, k, after)
       \/ e.flow.requests = <<>> /\ Stuck(e.flow.client, more.client)
  <2>1. CASE stuck /\ e.flow.requests = <<>>
    BY <1>11, <1>23, <1>27, <2>1
  <2>2. CASE \E k \in 0..Len(Traffic[f].server) :
               AtResponse(f, p, es, e, m, k) /\ AllRead(f, p, k)
    <3>1. PICK k \in 0..Len(Traffic[f].server) :
            AtResponse(f, p, es, e, m, k) /\ AllRead(f, p, k)
      BY <2>2
    <3>2. TookResponses(f, e.flow, m, k, after)
      BY <1>29, <3>1, SMTT(60) DEF AtResponse, TookResponses, Start
    <3>3. QED
      BY <3>2
  <2>3. QED
    BY <1>26, <2>1, <2>2 DEF Answers
<1>32. InStep(f, e.flow, more, after)
  BY <1>7, <1>21, <1>27, <1>28, <1>31 DEF InStep
<1>33. QED
  BY <1>26, <1>30, <1>32

-----------------------------------------------------------------------------
(* The events of a step, and the flows it leaves alone.                    *)

\* Events that are true are events of a set.
TrueEvents == {e \in Events : EventTrue(e)}

\* A sequence of events is true when each of them is.
LEMMA TrueEventsAre ==
  ASSUME NEW es \in Seq(Events)
  PROVE  EventsTrue(es) <=> es \in Seq(TrueEvents)
<1>1. PICK n \in Nat : n = Len(es)
  OBVIOUS
<1>2. \A i \in 1..n : es[i] \in Events
  BY <1>1
<1>3. ASSUME EventsTrue(es) PROVE es \in Seq(TrueEvents)
  <2>1. \A i \in 1..n : es[i] \in TrueEvents
    BY <1>1, <1>2, <1>3 DEF EventsTrue, TrueEvents
  <2>2. QED
    BY <1>1, <2>1
<1>4. ASSUME es \in Seq(TrueEvents) PROVE EventsTrue(es)
  <2>1. \A i \in 1..n : es[i] \in TrueEvents
    BY <1>1, <1>4
  <2>2. QED
    BY <1>1, <2>1 DEF EventsTrue, TrueEvents
<1>5. QED
  BY <1>3, <1>4

\* Events that come after others.
LEMMA EventsJoin ==
  ASSUME NEW a \in Seq(Events), NEW b \in Seq(Events), NEW c, c = a \o b
  PROVE  /\ EventsTrue(a) /\ EventsTrue(b) => EventsTrue(c)
         /\ \A f, i : Told(f, i, a) \/ Told(f, i, b) => Told(f, i, c)
<1>1. PICK m \in Nat, n \in Nat : m = Len(a) /\ n = Len(b)
  OBVIOUS
<1>2. /\ c \in Seq(Events) /\ Len(c) = m + n
      /\ \A i \in 1..m : c[i] = a[i]
      /\ \A i \in 1..n : c[m + i] = b[i]
  BY <1>1
<1>3. /\ \A i \in 1..m : i \in 1..m+n
      /\ \A i \in 1..n : m + i \in 1..m+n
      /\ \A i \in 1..m+n : i \in 1..m \/ (i - m \in 1..n /\ m + (i - m) = i)
  BY <1>1
<1>4. ASSUME EventsTrue(a), EventsTrue(b) PROVE EventsTrue(c)
  <2>1. SUFFICES ASSUME NEW i \in 1..m+n PROVE EventTrue(c[i])
    BY <1>2 DEF EventsTrue
  <2>2. CASE i \in 1..m
    BY <1>1, <1>2, <1>4, <2>2 DEF EventsTrue
  <2>3. CASE i \notin 1..m
    <3>1. PICK j \in 1..n : m + j = i
      BY <1>3, <2>3
    <3>2. QED
      BY <1>1, <1>2, <1>4, <3>1 DEF EventsTrue
  <2>4. QED
    BY <2>2, <2>3
<1>5. ASSUME NEW f, NEW i, Told(f, i, a) PROVE Told(f, i, c)
  BY <1>1, <1>2, <1>3, <1>5 DEF Told
<1>6. ASSUME NEW f, NEW i, Told(f, i, b) PROVE Told(f, i, c)
  <2>1. PICK e \in 1..n : b[e].flow = f /\ b[e].response = i
    BY <1>1, <1>6 DEF Told
  <2>2. PICK x \in 1..m+n : x = m + e
    BY <1>3
  <2>3. c[x].flow = f /\ c[x].response = i
    BY <1>2, <2>1, <2>2
  <2>4. QED
    BY <1>2, <2>3 DEF Told
<1>7. QED
  BY <1>4, <1>5, <1>6

\* Events without a response claim nothing.
LEMMA IncompleteTrue ==
  ASSUME NEW f \in Flows, NEW flow, flow.requests \in Seq(Nat),
         NEW es, es = Incomplete(f, flow)
  PROVE  es \in Seq(Events) /\ EventsTrue(es)
<1>1. es \in Seq(Events)
  BY IncompleteShape
<1>2. PICK n \in Nat : n = Len(flow.requests)
  OBVIOUS
<1>3. es = [i \in 1..n |-> Event(f, flow.requests[i], 0, <<>>)]
  BY <1>2 DEF Incomplete
<1>4. Len(es) = n
  BY <1>2, <1>3
<1>5. \A i \in 1..n : es[i].response = 0
  BY <1>3 DEF Event
<1>6. QED
  BY <1>1, <1>4, <1>5 DEF EventsTrue, EventTrue

\* What is told stays told.
LEMMA StepsStay ==
  ASSUME NEW f, NEW flow, NEW got, NEW es, NEW after,
         \A i : Told(f, i, es) => Told(f, i, after), InStep(f, flow, got, es)
  PROVE  InStep(f, flow, got, after)
BY DEF InStep, TookResponses

\* What is true of a connection stays so when its flow is the same or has gone and may.
LEMMA StageStays ==
  ASSUME NEW f, NEW table, NEW got, NEW stage, NEW es, StageTrue(f, table, got, stage, es),
         NEW more, \A i : Told(f, i, es) => Told(f, i, more),
         NEW after, f \in DOMAIN after => f \in DOMAIN table /\ after[f] = table[f],
         stage = "open" => f \in DOMAIN after
  PROVE  StageTrue(f, after, got, stage, more)
BY StepsStay DEF StageTrue

\* The step keeps what is true of the other connections.
Others(f) ==
  \A g \in DOMAIN Traffic \ {f} : StageTrue(g, flows', received'[g], connection'[g], events')

\* What process leaves of a flow, and of the events.
LeftTrue(f, segment, run) ==
  /\ EventsTrue(run.events) => EventsTrue(events')
  /\ \A g, i : Told(g, i, events) => Told(g, i, events')
  /\ \A i : Told(f, i, run.events) => Told(f, i, events')
  /\ ~segment.rst => f \in DOMAIN flows' /\ flows'[f] = run.flow
  /\ Others(f)

\* A segment that process takes.
LEMMA LeaveTrue ==
  ASSUME IInv, Faithful, TrueNow, OrdersNow, NEW f \in DOMAIN Traffic, NEW segment,
         NEW run \in Runs(Traffic[f]), Leave(f, segment.rst, {}, run),
         \A g \in Flows \ {f} : received'[g] = received[g] /\ connection'[g] = connection[g]
  PROVE  LeftTrue(f, segment, run)
<1>1. f \in Flows /\ \A g \in DOMAIN Traffic : g \in Flows
  BY WireShape DEF IInv, Carries
<1>2. PICK es \in Seq(Events) : es = events
  BY DEF IInv, AccountOK
<1>3. PICK new \in Seq(Events) : new = run.events
  BY DEF Runs
<1>4. PICK last : last = IF segment.rst THEN Incomplete(f, run.flow) ELSE <<>>
  OBVIOUS
<1>5. last \in Seq(Events) /\ EventsTrue(last)
  <2>1. CASE segment.rst
    <3>1. run.flow.requests \in Seq(Nat)
      BY RequestsShape DEF Runs
    <3>2. last = Incomplete(f, run.flow)
      BY <1>4, <2>1
    <3>3. QED
      BY <1>1, <3>1, <3>2, IncompleteTrue
  <2>2. CASE ~segment.rst
    <3>1. last = <<>>
      BY <1>4, <2>2
    <3>2. Len(last) = 0 /\ last \in Seq(Events) /\ 1..0 = {}
      BY <3>1
    <3>3. QED
      BY <3>2 DEF EventsTrue
  <2>3. QED
    BY <2>1, <2>2
<1>6. PICK both \in Seq(Events) : both = es \o new
  <2>1. es \o new \in Seq(Events)
    BY SequenceConcat
  <2>2. QED
    BY <2>1
<1>7. events' = both \o last
  BY <1>2, <1>3, <1>4, <1>6 DEF Leave
<1>8. /\ EventsTrue(es) /\ EventsTrue(new) => EventsTrue(both)
      /\ \A g, i : Told(g, i, es) \/ Told(g, i, new) => Told(g, i, both)
  BY <1>6, EventsJoin
<1>9. /\ EventsTrue(both) /\ EventsTrue(last) => EventsTrue(events')
      /\ \A g, i : Told(g, i, both) \/ Told(g, i, last) => Told(g, i, events')
  BY <1>5, <1>7, EventsJoin
<1>10. /\ EventsTrue(new) => EventsTrue(events')
       /\ \A g, i : Told(g, i, es) => Told(g, i, events')
       /\ \A i : Told(f, i, new) => Told(f, i, events')
  BY <1>2, <1>5, <1>8, <1>9 DEF TrueNow
<1>11. PICK others : others = Restrict(flows, DOMAIN flows \ {f})
  OBVIOUS
<1>12. DOMAIN others = DOMAIN flows \ {f} /\ \A g \in DOMAIN others : others[g] = flows[g]
  BY <1>11 DEF Restrict
<1>13. flows' = IF segment.rst THEN others ELSE Insert(others, f, run.flow)
  <2>1. {} \union {f} = {f}
    OBVIOUS
  <2>2. QED
    BY <1>11, <2>1 DEF Leave
<1>14. /\ ~segment.rst => f \in DOMAIN flows' /\ flows'[f] = run.flow
       /\ \A g : g # f => /\ g \in DOMAIN flows' => g \in DOMAIN flows /\ flows'[g] = flows[g]
                          /\ g \in DOMAIN flows => g \in DOMAIN flows'
  BY <1>12, <1>13 DEF Insert
<1>15. Others(f)
  <2>1. SUFFICES ASSUME NEW g \in DOMAIN Traffic \ {f}
                 PROVE  StageTrue(g, flows', received'[g], connection'[g], events')
    BY DEF Others
  <2>2. received'[g] = received[g] /\ connection'[g] = connection[g] /\ g # f
    BY <1>1, <2>1
  <2>3. StageTrue(g, flows, received[g], connection[g], events)
    BY DEF TrueNow
  <2>4. connection[g] = "open" => g \in DOMAIN flows
    BY DEF OrdersNow, WiresOK, ConnectionOK, Faithful
  <2>5. StageTrue(g, flows', received[g], connection[g], events')
    BY <1>2, <1>10, <1>14, <2>2, <2>3, <2>4, StageStays
  <2>6. QED
    BY <2>2, <2>5
<1>16. QED
  BY <1>2, <1>3, <1>10, <1>14, <1>15 DEF LeftTrue

\* What is known of the flow of an open connection.
LEMMA OpenKnown ==
  ASSUME IInv, Faithful, TrueNow, OrdersNow, NEW f \in DOMAIN Traffic, connection[f] = "open",
         NEW flow, flow = flows[f], NEW got, got = received[f]
  PROVE  /\ f \in DOMAIN flows /\ got \in [Sides -> SUBSET Nat]
         /\ Known(f, flow, parsed, got)
         /\ Asked(f, got) /\ InStep(f, flow, got, events) /\ Reached(flow, got)
<1>1. f \in Flows /\ KeepsFlows
  BY WireShape DEF IInv, Carries, Faithful
<1>2. ConnectionOK(f, flows, parsed, got, "open") /\ got \in [Sides -> SUBSET Nat]
  BY <1>1 DEF OrdersNow, WiresOK
<1>3. f \in DOMAIN flows
  BY <1>1, <1>2 DEF ConnectionOK
<1>4. Tracks(f, flow, parsed, got) /\ Seen(f, parsed, got)
  BY <1>2, <1>3 DEF ConnectionOK
<1>5. flow \in FlowsOf(Traffic[f]) /\ FlowInBudget(flow) /\ QueuedIn(f, flow) \subseteq parsed
  BY <1>3 DEF IInv, TableOK, AccountOK, QueuedOf
<1>6. Increasing(flow.requests)
  BY <1>3 DEF OrdersNow, OrderOK
<1>7. StageTrue(f, flows, got, "open", events)
  BY DEF TrueNow
<1>8. QED
  BY <1>2, <1>3, <1>4, <1>5, <1>6, <1>7 DEF Known, StageTrue

\* A segment of an open connection keeps the invariant.
LEMMA StepTrue ==
  ASSUME IInv, Faithful, TrueNow, OrdersNow, NEW f \in DOMAIN Traffic, connection[f] = "open",
         NEW side \in Sides, NEW segment \in SegmentsOf(Len(Wire[f][side])),
         ProcessSegment(f, side, segment),
         Steps(flows[f][side], received[f][side], segment, Len(Wire[f][side])),
         NEW more, more = Adds(received[f], side, segment), Asked(f, more),
         received' = [received EXCEPT ![f] = more],
         NEW stage \in {"open", "reset"}, segment.rst => stage = "reset",
         connection' = [connection EXCEPT ![f] = stage],
         misses' = misses
  PROVE  TrueNext
<1>1. PICK flow : flow = flows[f]
  OBVIOUS
<1>2. PICK got \in [Sides -> SUBSET Nat] : got = received[f]
  BY OpenKnown
<1>3. /\ f \in DOMAIN flows
      /\ Known(f, flow, parsed, got)
      /\ Asked(f, got) /\ InStep(f, flow, got, events) /\ Reached(flow, got)
  BY <1>1, <1>2, OpenKnown
<1>4. f \in Flows /\ received \in [Flows -> [Sides -> SUBSET Nat]]
      /\ connection \in [Flows -> {"new", "open", "reset", "gone"}]
  BY WireShape DEF IInv, Carries, OrdersNow, WiresOK, Live
<1>5. PICK pushed : pushed = Pushed(flow, side, Wire[f][side], segment)
  OBVIOUS
<1>6. PICK run : run = Parse(f, side, segment.fin, pushed)
  OBVIOUS
<1>7. Leave(f, segment.rst, {}, run)
  <2>1. Victims(f) = {}
    BY NoVictims DEF Faithful
  <2>2. pushed = [flow EXCEPT ![side] = PushSegment(@, Wire[f][side], segment)]
    BY <1>5 DEF Pushed
  <2>3. flow = IF f \in DOMAIN flows THEN flows[f] ELSE NewFlow
    BY <1>1, <1>3
  <2>4. QED
    BY <1>6, <2>1, <2>2, <2>3 DEF ProcessSegment
<1>8. run \in Runs(Traffic[f])
  <2>1. /\ side = "client" => Wire[f][side] \in Seq(UnitsOf(Traffic[f].client))
        /\ side = "server" => Wire[f][side] \in Seq(UnitsOf(Traffic[f].server))
    BY WireShape DEF IInv
  <2>2. flow \in FlowsOf(Traffic[f]) /\ FlowInBudget(flow)
    BY <1>3 DEF Known
  <2>3. pushed \in FlowsOf(Traffic[f]) /\ FlowInBudget(pushed)
    BY <1>5, <2>1, <2>2, PushedShape
  <2>4. Carries(f)
    BY WireShape DEF IInv
  <2>5. QED
    BY <1>6, <2>3, <2>4, ParseKeeps DEF GoodRuns
<1>9. \A g \in Flows \ {f} : received'[g] = received[g] /\ connection'[g] = connection[g]
  BY <1>4
<1>10. LeftTrue(f, segment, run)
  BY <1>7, <1>8, <1>9, LeaveTrue
<1>11. /\ \A g, i : Told(g, i, events) => Told(g, i, events')
       /\ \A i : Told(f, i, run.events) => Told(f, i, events')
       /\ ~segment.rst => flows'[f] = run.flow
       /\ Others(f)
  BY <1>10 DEF LeftTrue
<1>12. InStep(f, run.flow, more, events') /\ Reached(run.flow, more) /\ EventsTrue(run.events)
  <2>1. CASE side = "client"
    <3>1. /\ segment \in SegmentsOf(Len(Wire[f].client))
          /\ Steps(flow.client, got.client, segment, Len(Wire[f].client))
          /\ more = Adds(got, "client", segment)
          /\ pushed = Pushed(flow, "client", Wire[f].client, segment)
          /\ run = Parse(f, "client", segment.fin, pushed)
      BY <1>1, <1>2, <1>5, <1>6, <2>1
    <3>2. InStep(f, run.flow, more, events) /\ Reached(run.flow, more) /\ run.events = <<>>
      BY ONLY IInv, Faithful, f \in DOMAIN Traffic, got \in [Sides -> SUBSET Nat],
              <1>3, <3>1, ClientSteps, ZenonT(60)
    <3>3. EventsTrue(run.events)
      <4>1. Len(run.events) = 0 /\ 1..0 = {}
        BY <3>2
      <4>2. QED
        BY <4>1 DEF EventsTrue
    <3>4. QED
      BY <1>11, <3>2, <3>3, StepsStay
  <2>2. CASE side = "server"
    <3>1. /\ segment \in SegmentsOf(Len(Wire[f].server))
          /\ Steps(flow.server, got.server, segment, Len(Wire[f].server))
          /\ more = Adds(got, "server", segment)
          /\ pushed = Pushed(flow, "server", Wire[f].server, segment)
          /\ run = Parse(f, "server", segment.fin, pushed)
      BY <1>1, <1>2, <1>5, <1>6, <2>2
    <3>2. PICK fin : fin = segment.fin
      OBVIOUS
    <3>3. /\ fin => segment.fin
          /\ run = Parse(f, "server", fin, pushed)
          /\ \A i : Told(f, i, events) \/ Told(f, i, run.events) => Told(f, i, events')
      BY <1>11, <3>1, <3>2
    <3>4. QED
      BY ONLY IInv, Faithful, f \in DOMAIN Traffic, got \in [Sides -> SUBSET Nat],
              Asked(f, more), <1>3, <3>1, <3>3, ServerSteps, ZenonT(60)
  <2>3. QED
    BY <2>1, <2>2 DEF Sides
<1>13. EventsTrue(events')
  BY <1>10, <1>12 DEF LeftTrue
<1>14. StageTrue(f, flows', received'[f], connection'[f], events')
  <2>1. received'[f] = more /\ connection'[f] = stage
    BY <1>4
  <2>2. CASE stage = "reset"
    BY <2>1, <2>2 DEF StageTrue
  <2>3. CASE stage = "open"
    <3>1. flows'[f] = run.flow
      BY <1>11, <2>3
    <3>2. QED
      BY <1>12, <2>1, <2>3, <3>1 DEF StageTrue
  <2>4. QED
    BY <2>2, <2>3
<1>15. misses' \in Nat /\ misses' <= MaxMisses
  BY DEF TrueNow
<1>16. QED
  BY <1>11, <1>13, <1>14, <1>15 DEF TrueNext, Others

\* A flow without units stays so, and no request comes from it.
LEMMA NothingParsed ==
  ASSUME NEW f, Carries(f), NEW side \in Sides, NEW fin,
         NEW flow \in FlowsOf(Traffic[f]), FlowInBudget(flow),
         flow.client.stream = <<>>, flow.server.stream = <<>>, flow.requests = <<>>,
         NEW e, e = Parse(f, side, fin, flow)
  PROVE  /\ e \in Runs(Traffic[f]) /\ EventsTrue(e.events) /\ e.flow.requests = <<>>
         /\ SameBut(flow.client, e.flow.client, <<>>) /\ SameBut(flow.server, e.flow.server, <<>>)
<1>1. PICK a, b : a = Units(Traffic[f].client) /\ b = Units(Traffic[f].server)
  OBVIOUS
<1>2. a \in Seq(UnitsOf(Traffic[f].client)) /\ b \in Seq(UnitsOf(Traffic[f].server))
  BY <1>1, UnitsShape DEF Carries
<1>3. PICK zero \in Nat : zero = 0
  OBVIOUS
<1>4. /\ zero \in 0..Len(a) /\ zero \in 0..Len(b)
      /\ EndsIn(a, flow.client.stream, zero) /\ EndsIn(b, flow.server.stream, zero)
      /\ Len(flow.client.stream) = 0 /\ Len(flow.server.stream) = 0
  BY <1>2, <1>3 DEF EndsIn
<1>5. Len(flow.requests) = 0 /\ 1..0 = {}
  OBVIOUS
<1>6. Increasing(flow.requests) /\ QueuedIn(f, flow) = {}
  BY <1>5 DEF Increasing, QueuedIn
<1>7. e \in GoodRuns(f, flow)
  BY ParseKeeps
<1>8. e \in Runs(Traffic[f]) /\ Conserved(f, flow, e)
  BY <1>7 DEF GoodRuns
<1>9. /\ e.flow.requests \in Seq(Nat) /\ e.events \in Seq(Events)
      /\ Len(e.flow.client.stream) \in Nat /\ Len(e.flow.server.stream) \in Nat
      /\ e.flow.client.stream \in Seq(UnitsOf(Traffic[f].client))
      /\ e.flow.server.stream \in Seq(UnitsOf(Traffic[f].server))
  BY <1>8, RequestsShape, SMTT(60) DEF Runs, FlowsOf, Directions
<1>10. SameBut(flow.client, flow.client, <<>>) /\ SameBut(flow.server, flow.server, <<>>)
  BY DEF SameBut
<1>11. /\ e.queued = {}
       /\ SameBut(flow.client, e.flow.client, <<>>) /\ SameBut(flow.server, e.flow.server, <<>>)
  <2>1. CASE side = "client"
    <3>1. e = Parse(f, "client", fin, flow)
      BY <2>1
    <3>2. \A k \in 1..Len(flow.requests) :
            StartsIn(a, flow.requests[k], 0, zero - Len(flow.client.stream))
      BY <1>5
    <3>3. e \in ClientRuns(f, a, zero, flow)
      BY <1>1, <1>4, <1>6, <3>1, <3>2, ClientParses
    <3>4. /\ e.flow.server = flow.server
          /\ SameBut(flow.client, e.flow.client, e.flow.client.stream)
          /\ Len(e.flow.client.stream) <= 0
          /\ \A x \in e.queued : \E r \in Nat :
               StartsIn(a, r, zero - Len(flow.client.stream), zero - Len(e.flow.client.stream))
      BY <1>4, <3>3 DEF ClientRuns, Cut
    <3>5. e.flow.client.stream = <<>> /\ Len(e.flow.client.stream) = 0
      BY <1>9, <3>4
    <3>6. e.queued = {}
      <4>1. SUFFICES ASSUME NEW x \in e.queued PROVE FALSE
        OBVIOUS
      <4>2. PICK r \in Nat : StartsIn(a, r, 0, 0)
        BY <1>3, <1>4, <3>4, <3>5
      <4>3. 0+1..0 = {}
        OBVIOUS
      <4>4. QED
        BY <4>2, <4>3 DEF StartsIn
    <3>7. QED
      BY <1>10, <3>4, <3>5, <3>6
  <2>2. CASE side = "server"
    <3>1. e = Parse(f, "server", fin, flow)
      BY <2>2
    <3>2. e \in ServerRuns(f, b, zero, flow)
      BY <1>1, <1>2, <1>4, <1>6, <3>1, ServerParses
    <3>3. /\ e.queued = {} /\ e.flow.client = flow.client
          /\ SameBut(flow.server, e.flow.server, e.flow.server.stream)
          /\ Len(e.flow.server.stream) <= 0
      BY <1>4, <3>2 DEF ServerRuns, Cut
    <3>4. e.flow.server.stream = <<>>
      BY <1>9, <3>3
    <3>5. QED
      BY <1>10, <3>3, <3>4
  <2>3. QED
    BY <2>1, <2>2 DEF Sides
<1>12. QueuedIn(f, e.flow) = {} /\ Reported(e.events) = {}
  BY <1>6, <1>8, <1>11 DEF Conserved
<1>13. e.flow.requests = <<>>
  <2>1. PICK n \in Nat : n = Len(e.flow.requests)
    BY <1>9
  <2>2. n = 0
    <3>1. SUFFICES ASSUME n # 0 PROVE FALSE
      OBVIOUS
    <3>2. 1 \in 1..n
      BY <3>1
    <3>3. <<f, e.flow.requests[1]>> \in QueuedIn(f, e.flow)
      BY <2>1, <3>2 DEF QueuedIn
    <3>4. QED
      BY <1>12, <3>3
  <2>3. PICK q \in Seq(Nat) : q = e.flow.requests
    BY <1>9
  <2>4. Len(q) = 0
    BY <2>1, <2>2, <2>3
  <2>5. q = <<>>
    BY <2>4
  <2>6. QED
    BY <2>3, <2>5
<1>14. EventsTrue(e.events)
  <2>1. PICK n \in Nat : n = Len(e.events)
    BY <1>9
  <2>2. ASSUME NEW i \in 1..n PROVE FALSE
    <3>1. <<e.events[i].flow, e.events[i].request>> \in Reported(e.events)
      BY <2>1 DEF Reported
    <3>2. QED
      BY <1>12, <3>1
  <2>3. QED
    BY <2>1, <2>2 DEF EventsTrue
<1>15. QED
  BY <1>8, <1>11, <1>13, <1>14

-----------------------------------------------------------------------------
(* The actions keep what is true.                                          *)

\* After the handshake a flow is in step: nothing was sent.
LEMMA FreshSteps ==
  ASSUME IInv, Faithful, NEW f \in DOMAIN Traffic, NEW flow, NEW got, NEW es,
         flow.client.stream = <<>>, flow.server.stream = <<>>, flow.requests = <<>>,
         flow.client.next = 1, flow.server.next = 1, got.client = {}, got.server = {}
  PROVE  Asked(f, got) /\ InStep(f, flow, got, es) /\ Reached(flow, got)
<1>1. Carries(f) /\ Honest(f)
  BY FaithfulIs
<1>2. PICK m \in Nat, n \in Nat : m = Len(Traffic[f].client) /\ n = Len(Traffic[f].server)
  BY <1>1 DEF Carries
<1>3. Len(<<>>) = 0
  OBVIOUS
<1>4. /\ At(flow.client) = 0 /\ Start(flow.client) = 0
      /\ At(flow.server) = 0 /\ Start(flow.server) = 0
  <2>1. ASSUME NEW d, d.next = 1, d.stream = <<>> PROVE At(d) = 0 /\ Start(d) = 0
    <3>1. At(d) = 0
      BY <2>1 DEF At
    <3>2. Len(d.stream) = 0
      BY <1>3, <2>1
    <3>3. QED
      BY <3>1, <3>2 DEF Start
  <2>2. QED
    BY <2>1
<1>5. PICK a, b : a = Edges(Traffic[f].client) /\ b = Edges(Traffic[f].server)
  OBVIOUS
<1>6. Rises(a, m) /\ Rises(b, n)
  BY <1>1, <1>2, <1>5, EdgesAre DEF Carries, Layout
<1>7. \A c, k : k \in Nat /\ Rises(c, k) => c[0] = 0 /\ (0 < k => 0 < c[0 + 1])
  <2>1. SUFFICES ASSUME NEW c, NEW k \in Nat, Rises(c, k)
                 PROVE  c[0] = 0 /\ (0 < k => 0 < c[0 + 1])
    OBVIOUS
  <2>2. c[0] = 0 /\ \A i \in 1..k : c[i - 1] < c[i]
    BY <2>1 DEF Rises
  <2>3. ASSUME 0 < k PROVE 0 < c[1]
    <3>1. PICK j \in 1..k : j = 1
      BY <2>3
    <3>2. c[j - 1] < c[j] /\ j - 1 = 0
      BY <2>2, <3>1
    <3>3. QED
      BY <2>2, <3>1, <3>2
  <2>4. QED
    BY <2>2, <2>3
<1>8. /\ a[0] = 0 /\ (0 < m => 0 < a[0 + 1])
      /\ b[0] = 0 /\ (0 < n => 0 < b[0 + 1])
  BY <1>2, <1>6, <1>7
<1>9. Done(f)[0] = 0
  BY <1>1, DoneIs DEF Pairing
<1>10. IsQueue(flow.requests, 0, 0)
  <2>1. Len(flow.requests) = 0 - 0 /\ 1..0-0 = {}
    BY <1>3
  <2>2. QED
    BY <2>1 DEF IsQueue
<1>11. TookRequests(f, flow.client, 0)
  BY <1>2, <1>4, <1>5, <1>8 DEF TookRequests
<1>12. AllRead(f, 0, 0)
  BY <1>2, <1>5, <1>8 DEF AllRead
<1>13. TookResponses(f, flow, 0, 0, es)
  <2>1. 1..0 = {}
    OBVIOUS
  <2>2. QED
    BY <1>4, <1>5, <1>8, <1>9, <1>10, <1>12, <2>1 DEF TookResponses
<1>14. InStep(f, flow, got, es)
  <2>1. 0 \in 0..Len(Traffic[f].client) /\ 0 \in 0..Len(Traffic[f].server) /\ 1 # Unset
    BY <1>2 DEF Unset
  <2>2. QED
    BY <1>11, <1>13, <2>1 DEF InStep
<1>15. Reached(flow, got)
  <2>1. 0..0-1 = {}
    OBVIOUS
  <2>2. QED
    BY <1>4, <2>1 DEF Reached
<1>16. QED
  BY <1>14, <1>15 DEF Asked

\* The two SYN of a connection.
LEMMA HandshakeTrue ==
  ASSUME IInv, Faithful, TrueNow, OrdersNow, NEW f \in Flows, Handshake(f)
  PROVE  TrueNext
<1>1. connection[f] = "new" /\ f \in DOMAIN Traffic /\ received' = received /\ misses' = misses
  BY DEF Handshake, IInv, Live
<1>2. PICK side \in Sides :
        /\ side = "server" => f \in DOMAIN flows /\ flows[f].client.next # Unset
        /\ f \in DOMAIN flows => flows[f][side].next = Unset
        /\ Process(f, side, [Empty(0) EXCEPT !.syn = TRUE])
        /\ connection' = [connection EXCEPT ![f] = IF side = "server" THEN "open" ELSE @]
  BY DEF Handshake
<1>3. PICK segment : segment = [Empty(0) EXCEPT !.syn = TRUE]
  OBVIOUS
<1>4. /\ segment.from = 0 /\ segment.to = 0 /\ segment.syn /\ ~segment.rst /\ segment.rst = FALSE
      /\ segment \in SegmentsOf(Len(Wire[f][side]))
  <2>1. PICK size \in Nat : size = Len(Wire[f][side])
    BY <1>1, WireSegments
  <2>2. PICK e \in SegmentsOf(size) : e = Empty(0)
    BY <2>1, EmptyShape
  <2>3. e.from = 0 /\ e.to = 0 /\ e.rst = FALSE
    BY <2>2 DEF Empty
  <2>4. segment = [e EXCEPT !.syn = TRUE]
    BY <1>3, <2>2
  <2>5. QED
    BY <2>1, <2>3, <2>4 DEF SegmentsOf
<1>5. PICK flow : flow = IF f \in DOMAIN flows THEN flows[f] ELSE NewFlow
  OBVIOUS
<1>6. Fresh(flow) /\ flow \in FlowsOf(Traffic[f]) /\ FlowInBudget(flow)
      /\ (side = "server" => flow.client.next # Unset) /\ flow[side].next = Unset
  <2>1. CASE f \in DOMAIN flows
    <3>1. StageTrue(f, flows, received[f], "new", events)
      BY <1>1 DEF TrueNow
    <3>2. QED
      BY <1>2, <1>5, <2>1, <3>1 DEF StageTrue, IInv, TableOK
  <2>2. CASE f \notin DOMAIN flows
    <3>1. flow = NewFlow
      BY <1>5, <2>2
    <3>2. /\ flow.client.stream = <<>> /\ flow.client.pending = <<>> /\ flow.client.next = Unset
          /\ flow.server.stream = <<>> /\ flow.server.pending = <<>> /\ flow.server.next = Unset
          /\ flow.requests = <<>>
      BY <3>1 DEF NewFlow, NewDirection
    <3>3. QED
      BY <1>2, <2>2, <3>1, <3>2, NewFlowShape DEF Fresh, Sides
  <2>3. QED
    BY <2>1, <2>2
<1>7. PICK d : d = PushSegment(flow[side], Wire[f][side], segment)
  OBVIOUS
<1>8. d = [flow[side] EXCEPT !.next = 1]
  <2>1. SeqSpace \in Nat /\ 1 < SeqSpace
    <3>1. ShortWires
      BY DEF Faithful
    <3>2. Len(Wire[f][side]) \in Nat /\ Len(Wire[f][side]) + 1 < SeqSpace /\ SeqSpace \in Nat
      BY <1>1, <3>1, WireSegments, DirectionAssumption DEF ShortWires
    <3>3. QED
      BY <3>2
  <2>2. PICK one \in Int : one = 0 + 1
    OBVIOUS
  <2>3. one % SeqSpace = one
    BY <2>1, <2>2, ModSmall
  <2>4. d = PushSyn(flow[side], 0)
    BY <1>4, <1>7 DEF PushSegment
  <2>5. d = [flow[side] EXCEPT !.next = (0 + 1) % SeqSpace]
    BY <1>6, <2>4 DEF PushSyn
  <2>6. QED
    BY <2>2, <2>3, <2>5
<1>9. PICK pushed : pushed = Pushed(flow, side, Wire[f][side], segment)
  OBVIOUS
<1>10. pushed = [flow EXCEPT ![side] = d]
  BY <1>7, <1>9 DEF Pushed
<1>11. pushed \in FlowsOf(Traffic[f]) /\ FlowInBudget(pushed)
  <2>1. /\ side = "client" => Wire[f][side] \in Seq(UnitsOf(Traffic[f].client))
        /\ side = "server" => Wire[f][side] \in Seq(UnitsOf(Traffic[f].server))
    BY <1>1, WireShape DEF IInv
  <2>2. QED
    BY <1>4, <1>6, <1>9, <2>1, PushedShape
<1>12. /\ pushed.client.stream = <<>> /\ pushed.client.pending = <<>>
       /\ pushed.server.stream = <<>> /\ pushed.server.pending = <<>>
       /\ pushed.requests = <<>>
       /\ side = "client" => pushed.client.next = 1 /\ pushed.server.next = Unset
       /\ side = "server" => pushed.client.next = 1 /\ pushed.server.next = 1
  <2>1. CASE side = "client"
    <3>1. pushed = [flow EXCEPT !.client = d] /\ d = [flow.client EXCEPT !.next = 1]
      BY <1>8, <1>10, <2>1
    <3>2. /\ pushed.client = d /\ pushed.server = flow.server /\ pushed.requests = flow.requests
          /\ d.next = 1 /\ d.stream = flow.client.stream /\ d.pending = flow.client.pending
      BY <1>6, <3>1 DEF FlowsOf, Directions
    <3>3. QED
      BY <1>6, <2>1, <3>2 DEF Fresh
  <2>2. CASE side = "server"
    <3>1. pushed = [flow EXCEPT !.server = d] /\ d = [flow.server EXCEPT !.next = 1]
      BY <1>8, <1>10, <2>2
    <3>2. /\ pushed.server = d /\ pushed.client = flow.client /\ pushed.requests = flow.requests
          /\ d.next = 1 /\ d.stream = flow.server.stream /\ d.pending = flow.server.pending
      BY <1>6, <3>1 DEF FlowsOf, Directions
    <3>3. QED
      BY <1>6, <2>2, <3>2 DEF Fresh
  <2>3. QED
    BY <2>1, <2>2 DEF Sides
<1>13. PICK run : run = Parse(f, side, segment.fin, pushed)
  OBVIOUS
<1>14. /\ run \in Runs(Traffic[f]) /\ EventsTrue(run.events) /\ run.flow.requests = <<>>
       /\ SameBut(pushed.client, run.flow.client, <<>>)
       /\ SameBut(pushed.server, run.flow.server, <<>>)
  <2>1. Carries(f)
    BY <1>1, WireShape DEF IInv
  <2>2. PICK fin : fin = segment.fin
    OBVIOUS
  <2>3. run = Parse(f, side, fin, pushed)
    BY <1>13, <2>2
  <2>4. QED
    BY <1>11, <1>12, <2>1, <2>3, NothingParsed
<1>15. Leave(f, segment.rst, {}, run)
  <2>1. ProcessSegment(f, side, segment)
    BY <1>2, <1>3, <1>4 DEF Process
  <2>2. Victims(f) = {}
    BY <1>1, NoVictims DEF Faithful
  <2>3. pushed = [flow EXCEPT ![side] = PushSegment(@, Wire[f][side], segment)]
    BY <1>9 DEF Pushed
  <2>4. QED
    BY <1>5, <1>13, <2>1, <2>2, <2>3 DEF ProcessSegment
<1>16. PICK stage : stage = IF side = "server" THEN "open" ELSE "new"
  OBVIOUS
<1>17. connection \in [Flows -> {"new", "open", "reset", "gone"}]
  BY DEF IInv, Live
<1>18. connection' = [connection EXCEPT ![f] = stage] /\ connection'[f] = stage
  BY <1>1, <1>2, <1>16, <1>17
<1>19. \A g \in Flows \ {f} : received'[g] = received[g] /\ connection'[g] = connection[g]
  BY <1>1, <1>17, <1>18
<1>20. LeftTrue(f, segment, run)
  BY <1>1, <1>14, <1>15, <1>19, LeaveTrue
<1>21. flows'[f] = run.flow /\ EventsTrue(events') /\ Others(f)
  BY <1>4, <1>14, <1>20 DEF LeftTrue
<1>22. received[f].client = {} /\ received[f].server = {}
  BY <1>1 DEF OrdersNow, WiresOK, ConnectionOK
<1>23. /\ run.flow.client.stream = <<>> /\ run.flow.client.pending = <<>>
       /\ run.flow.client.next = pushed.client.next
       /\ run.flow.server.stream = <<>> /\ run.flow.server.pending = <<>>
       /\ run.flow.server.next = pushed.server.next
  BY <1>12, <1>14 DEF SameBut
<1>24. StageTrue(f, flows', received[f], stage, events')
  <2>1. CASE side = "client"
    <3>1. Fresh(run.flow) /\ stage = "new"
      BY <1>12, <1>14, <1>16, <1>23, <2>1 DEF Fresh
    <3>2. QED
      BY <1>21, <3>1 DEF StageTrue
  <2>2. CASE side = "server"
    <3>1. stage = "open" /\ run.flow.client.next = 1 /\ run.flow.server.next = 1
      BY <1>12, <1>16, <1>23, <2>2
    <3>2. PICK got : got = received[f]
      OBVIOUS
    <3>3. got.client = {} /\ got.server = {}
      BY <1>22, <3>2
    <3>4. Asked(f, got) /\ InStep(f, run.flow, got, events') /\ Reached(run.flow, got)
      BY <1>1, <1>14, <1>23, <3>1, <3>3, FreshSteps
    <3>5. QED
      BY <1>21, <3>1, <3>2, <3>4 DEF StageTrue
  <2>3. QED
    BY <2>1, <2>2 DEF Sides
<1>25. StageTrue(f, flows', received'[f], connection'[f], events')
  BY <1>1, <1>18, <1>24
<1>26. misses' \in Nat /\ misses' <= MaxMisses
  BY <1>1 DEF TrueNow
<1>27. QED
  BY <1>21, <1>25, <1>26 DEF TrueNext, Others

\* Of a connection that the capture shows in order and whole, the positions received
\* are those its flow has passed.
LEMMA PrefixReached ==
  ASSUME IInv, Faithful, TrueNow, OrdersNow, NEW f \in DOMAIN Traffic, connection[f] = "open",
         NEW side \in Sides, Seamless, NEW from \in Nat, from <= Prefix(f, side) + MaxGap
  PROVE  from <= At(flows[f][side])
<1>1. PICK flow : flow = flows[f]
  OBVIOUS
<1>2. PICK got \in [Sides -> SUBSET Nat] : got = received[f]
  BY OpenKnown
<1>3. Known(f, flow, parsed, got) /\ Reached(flow, got) /\ InStep(f, flow, got, events)
  BY <1>1, <1>2, OpenKnown
<1>4. PICK size \in Nat : size = Len(Wire[f][side])
  BY WireSegments
<1>5. PICK S : S = received[f][side]
  OBVIOUS
<1>6. PICK p : p = Prefix(f, side)
  OBVIOUS
<1>7. S \subseteq 0..size-1
  BY <1>2, <1>3, <1>4, <1>5 DEF Known, Seen, Sides
<1>8. p \in 0..size /\ 0..p-1 \subseteq S /\ p \notin S
  <2>1. FirstMissing(S, size, p)
    BY <1>4, <1>5, <1>6, <1>7, PrefixMissing, ZenonT(60)
  <2>2. QED
    BY <2>1 DEF FirstMissing
<1>9. PICK x \in Nat : x = At(flow[side])
  <2>1. Follows(Wire[f].client, flow.client, got.client)
        /\ Follows(Wire[f].server, flow.server, got.server)
    BY <1>3 DEF Known, Tracks, Wired, InStep
  <2>2. At(flow.client) \in Nat /\ At(flow.server) \in Nat
    BY <2>1 DEF Follows
  <2>3. QED
    BY <2>2 DEF Sides
<1>10. S = 0..x-1
  BY <1>2, <1>3, <1>5, <1>9 DEF Reached, Sides
<1>11. MaxGap = 0
  BY DEF Seamless
<1>12. QED
  BY <1>1, <1>6, <1>8, <1>9, <1>10, <1>11

\* What the hosts send was asked for, and goes on being.
LEMMA SentAsked ==
  ASSUME IInv, Faithful, TrueNow, OrdersNow, NEW f \in DOMAIN Traffic, connection[f] = "open",
         NEW side \in Sides, NEW segment \in SegmentsOf(Len(Wire[f][side])),
         \A q \in segment.from..segment.to-1 : Sent(f, side, q),
         NEW more, more = Adds(received[f], side, segment)
  PROVE  Asked(f, more)
<1>1. PICK got \in [Sides -> SUBSET Nat] : got = received[f]
  BY OpenKnown
<1>2. PICK flow : flow = flows[f]
  OBVIOUS
<1>3. Known(f, flow, parsed, got) /\ Asked(f, got)
  BY <1>1, <1>2, OpenKnown
<1>4. PICK size \in Nat : size = Len(Wire[f][side])
  BY WireSegments
<1>5. PICK from \in 0..size, to \in 0..size : from = segment.from /\ to = segment.to
  BY <1>4 DEF SegmentsOf
<1>6. from \in Nat /\ to \in Nat
  OBVIOUS
<1>7. /\ side = "client" => /\ more.client = With(got.client, from, to)
                            /\ more.server = got.server
      /\ side = "server" => /\ more.server = With(got.server, from, to)
                            /\ more.client = got.client
  BY <1>1, <1>5, <1>6, ReceivedIs
<1>8. CASE side = "client"
  <2>1. got.client \subseteq more.client /\ more.server = got.server
    BY <1>7, <1>8 DEF With
  <2>2. QED
    BY <1>3, <2>1 DEF Asked
<1>9. CASE side = "server"
  <2>1. more.client = got.client /\ \A q \in more.server : q \in got.server \/ q \in from..to-1
    BY <1>7, <1>9 DEF With
  <2>2. SUFFICES ASSUME NEW q \in more.server
                 PROVE  0..Traffic[f].server[Wire[f].server[q + 1][1]].after-1 \subseteq more.client
    BY DEF Asked
  <2>3. CASE q \in got.server
    BY <1>3, <2>1, <2>3, SMTT(60) DEF Asked
  <2>4. CASE q \in from..to-1
    <3>1. PICK n : n = Traffic[f].server[Wire[f].server[q + 1][1]].after
      OBVIOUS
    <3>2. PICK p : p = Prefix(f, "client")
      OBVIOUS
    <3>3. n <= p
      <4>1. Sent(f, "server", q)
        BY <1>5, <1>9, <2>4
      <4>2. Other("server") = "client"
        BY DEF Other
      <4>3. QED
        BY <3>1, <3>2, <4>1, <4>2, SMTT(60) DEF Sent
    <3>4. PICK length \in Nat : length = Len(Wire[f].client)
      BY WireSegments DEF Sides
    <3>5. got.client \subseteq 0..length-1
      BY <1>3, <3>4 DEF Known, Seen
    <3>6. p \in 0..length /\ 0..p-1 \subseteq got.client
      <4>1. PICK side2 : side2 = "client"
        OBVIOUS
      <4>2. PICK S : S = received[f][side2]
        OBVIOUS
      <4>3. S = got.client
        BY <1>1, <4>1, <4>2
      <4>4. /\ length = Len(Wire[f][side2]) /\ S \subseteq 0..length-1
            /\ p = Prefix(f, side2)
        BY <3>2, <3>4, <3>5, <4>1, <4>3
      <4>5. p \in 0..length /\ 0..p-1 \subseteq S
        <5>1. FirstMissing(S, length, p)
          BY <3>4, <4>2, <4>4, PrefixMissing, ZenonT(60)
        <5>2. QED
          BY <5>1 DEF FirstMissing
      <4>6. QED
        BY <4>3, <4>5
    <3>7. n \in Nat
      <4>1. Carries(f) /\ Wire[f].server \in Seq(UnitsOf(Traffic[f].server))
        BY WireShape DEF IInv
      <4>2. q + 1 \in 1..Len(Wire[f].server)
        BY <1>4, <1>9, <2>4
      <4>3. PICK u \in UnitsOf(Traffic[f].server) : u = Wire[f].server[q + 1]
        BY <4>1, <4>2
      <4>4. u[1] \in 1..Len(Traffic[f].server)
        BY DEF UnitsOf
      <4>5. Traffic[f].server[u[1]] \in Messages
        BY <4>1, <4>4 DEF Carries
      <4>6. QED
        BY <3>1, <4>3, <4>5 DEF Messages
    <3>8. \A x \in 0..n-1 : x \in 0..p-1
      BY <3>3, <3>6, <3>7
    <3>9. QED
      BY <2>1, <3>1, <3>6, <3>8
  <2>5. QED
    BY <2>1, <2>3, <2>4
<1>10. QED
  BY <1>8, <1>9 DEF Sides

\* A segment with units that the hosts put on the wire is a step of its flow.
LEMMA OnWireTrue ==
  ASSUME IInv, Faithful, TrueNow, OrdersNow, NEW f \in DOMAIN Traffic, connection[f] = "open",
         NEW side \in Sides, NEW s \in OnWire(f, side),
         NEW more, more = Adds(received[f], side, s)
  PROVE  /\ s \in SegmentsOf(Len(Wire[f][side])) /\ s.from < s.to /\ ~s.rst
         /\ Steps(flows[f][side], received[f][side], s, Len(Wire[f][side]))
         /\ Asked(f, more)
<1>1. s \in SegmentsOf(Len(Wire[f][side]))
  BY WireSegments
<1>2. PICK size \in Nat : size = Len(Wire[f][side])
  BY WireSegments
<1>3. s.from \in Nat /\ s.to \in Nat
  <2>1. s.from \in 0..size /\ s.to \in 0..size
    BY <1>1, <1>2 DEF SegmentsOf
  <2>2. QED
    BY <2>1
<1>4. /\ s.from < s.to /\ ~s.syn /\ ~s.rst
      /\ \A q \in s.from..s.to-1 : Sent(f, side, q)
      /\ s.fin => s.to = Len(Wire[f][side])
      /\ s.from <= Prefix(f, side) + MaxGap
      /\ "duplicate" \in Network \/ s.from..s.to-1 \intersect received[f][side] = {}
  BY DEF OnWire
<1>5. Asked(f, more)
  BY <1>1, <1>4, SentAsked
<1>6. Seamless => s.from <= At(flows[f][side])
  BY <1>3, <1>4, PrefixReached
<1>7. s.from <= s.to
  BY <1>3, <1>4
<1>8. QED
  BY <1>1, <1>4, <1>5, <1>6, <1>7 DEF Steps, OnceOnly

\* A segment that the socket shows.
LEMMA CaptureTrue ==
  ASSUME IInv, Faithful, TrueNow, OrdersNow, NEW f \in Flows, Capture(f)
  PROVE  TrueNext
<1>1. connection[f] = "open" /\ f \in DOMAIN Traffic /\ connection' = connection
      /\ misses' = misses
  BY DEF Capture, IInv, Live
<1>2. PICK side \in Sides : \E s \in OnWire(f, side) :
        /\ Process(f, side, s)
        /\ received' = [received EXCEPT ![f][side] = @ \union (s.from..s.to-1)]
  BY DEF Capture
<1>3. PICK s \in OnWire(f, side) :
        /\ Process(f, side, s)
        /\ received' = [received EXCEPT ![f][side] = @ \union (s.from..s.to-1)]
  BY <1>2
<1>4. PICK more : more = Adds(received[f], side, s)
  OBVIOUS
<1>5. received' = [received EXCEPT ![f] = more]
  BY <1>3, <1>4 DEF Adds
<1>6. /\ s \in SegmentsOf(Len(Wire[f][side])) /\ s.from < s.to /\ ~s.rst
      /\ Steps(flows[f][side], received[f][side], s, Len(Wire[f][side]))
      /\ Asked(f, more)
  BY <1>1, <1>4, OnWireTrue
<1>7. ProcessSegment(f, side, s)
  BY <1>3, <1>6 DEF Process
<1>8. PICK stage \in {"open", "reset"} : stage = "open"
  OBVIOUS
<1>9. connection' = [connection EXCEPT ![f] = stage]
  BY <1>1, <1>8 DEF IInv, Live
<1>10. QED
  BY <1>1, <1>4, <1>5, <1>6, <1>7, <1>9, StepTrue

\* A FIN of its own, after the end of its side.
LEMMA FinishTrue ==
  ASSUME IInv, Faithful, TrueNow, OrdersNow, NEW f \in Flows, Finish(f)
  PROVE  TrueNext
<1>1. connection[f] = "open" /\ f \in DOMAIN Traffic /\ connection' = connection
      /\ misses' = misses /\ received' = received
  BY DEF Finish, IInv, Live
<1>2. PICK side \in Sides :
        LET size == Len(Wire[f][side]) IN
        /\ size <= Prefix(f, side) + MaxGap
        /\ Process(f, side, [Empty(size) EXCEPT !.fin = TRUE])
  BY DEF Finish
<1>3. PICK size \in Nat : size = Len(Wire[f][side])
  BY <1>1, WireSegments
<1>4. PICK segment : segment = [Empty(size) EXCEPT !.fin = TRUE]
  OBVIOUS
<1>5. segment.from = size /\ segment.to = size /\ ~segment.syn /\ ~segment.rst
      /\ segment \in SegmentsOf(size)
  <2>1. PICK e \in SegmentsOf(size) : e = Empty(size)
    BY EmptyShape
  <2>2. e.from = size /\ e.to = size /\ ~e.syn /\ ~e.rst
    BY <2>1 DEF Empty
  <2>3. segment = [e EXCEPT !.fin = TRUE]
    BY <1>4, <2>1
  <2>4. QED
    BY <2>2, <2>3 DEF SegmentsOf
<1>6. PICK more : more = Adds(received[f], side, segment)
  OBVIOUS
<1>7. received \in [Flows -> [Sides -> SUBSET Nat]]
      /\ connection \in [Flows -> {"new", "open", "reset", "gone"}]
  BY DEF OrdersNow, WiresOK, IInv, Live
<1>8. size..size-1 = {}
  OBVIOUS
<1>9. more = received[f]
  <2>1. received[f][side] \union (size..size-1) = received[f][side]
    BY <1>8
  <2>2. received[f] \in [Sides -> SUBSET Nat]
    BY <1>7
  <2>3. QED
    BY <1>5, <1>6, <2>1, <2>2 DEF Adds
<1>10. Asked(f, more)
  <2>1. StageTrue(f, flows, received[f], "open", events)
    BY <1>1 DEF TrueNow
  <2>2. QED
    BY <1>9, <2>1 DEF StageTrue
<1>11. Steps(flows[f][side], received[f][side], segment, Len(Wire[f][side]))
  <2>1. Seamless => size <= At(flows[f][side])
    BY <1>1, <1>2, <1>3, PrefixReached
  <2>2. segment.from..segment.to-1 \intersect received[f][side] = {}
    BY <1>5, <1>8
  <2>3. QED
    BY <1>3, <1>5, <2>1, <2>2 DEF Steps
<1>12. ProcessSegment(f, side, segment)
  <2>1. Process(f, side, segment)
    BY <1>2, <1>3, <1>4
  <2>2. QED
    BY <1>5, <2>1 DEF Process
<1>13. PICK stage \in {"open", "reset"} : stage = "open"
  OBVIOUS
<1>14. received' = [received EXCEPT ![f] = more] /\ connection' = [connection EXCEPT ![f] = stage]
  BY <1>1, <1>7, <1>9, <1>13
<1>15. segment \in SegmentsOf(Len(Wire[f][side]))
  BY <1>3, <1>5
<1>16. QED
  BY <1>1, <1>5, <1>6, <1>10, <1>11, <1>12, <1>14, <1>15, StepTrue

\* A reset, of its own or in the last segment with units.
LEMMA ResetActionTrue ==
  ASSUME IInv, Faithful, TrueNow, OrdersNow, NEW f \in Flows, Reset(f)
  PROVE  TrueNext
<1>1. connection[f] = "open" /\ f \in DOMAIN Traffic /\ misses' = misses
      /\ connection' = [connection EXCEPT ![f] = "reset"]
  BY DEF Reset, IInv, Live
<1>2. PICK side \in Sides : \E s \in OnWire(f, side) \union {Empty(Prefix(f, side))} :
        /\ Process(f, side, [s EXCEPT !.rst = TRUE])
        /\ received' = [received EXCEPT ![f][side] = @ \union (s.from..s.to-1)]
  BY DEF Reset
<1>3. PICK s \in OnWire(f, side) \union {Empty(Prefix(f, side))} :
        /\ Process(f, side, [s EXCEPT !.rst = TRUE])
        /\ received' = [received EXCEPT ![f][side] = @ \union (s.from..s.to-1)]
  BY <1>2
<1>4. PICK segment : segment = [s EXCEPT !.rst = TRUE]
  OBVIOUS
<1>5. received \in [Flows -> [Sides -> SUBSET Nat]]
      /\ connection \in [Flows -> {"new", "open", "reset", "gone"}]
      /\ (\A g \in DOMAIN Traffic : g \in Flows)
  BY WireShape DEF OrdersNow, WiresOK, IInv, Live, Carries
<1>6. \A g \in Flows \ {f} : received'[g] = received[g] /\ connection'[g] = connection[g]
  BY <1>1, <1>3, <1>5
<1>7. CASE s \in OnWire(f, side)
  <2>1. PICK more : more = Adds(received[f], side, s)
    OBVIOUS
  <2>2. /\ s \in SegmentsOf(Len(Wire[f][side])) /\ s.from < s.to
        /\ Steps(flows[f][side], received[f][side], s, Len(Wire[f][side]))
        /\ Asked(f, more)
    BY <1>1, <1>7, <2>1, OnWireTrue
  <2>3. PICK size \in Nat : size = Len(Wire[f][side])
    BY <1>1, WireSegments
  <2>4. /\ segment.from = s.from /\ segment.to = s.to /\ segment.syn = s.syn
        /\ segment.fin = s.fin /\ segment.rst /\ segment \in SegmentsOf(size)
    <3>1. s \in SegmentsOf(size)
      BY <2>2, <2>3
    <3>2. QED
      BY <1>4, <3>1 DEF SegmentsOf
  <2>5. /\ Steps(flows[f][side], received[f][side], segment, Len(Wire[f][side]))
        /\ more = Adds(received[f], side, segment)
    BY <2>1, <2>2, <2>4 DEF Steps, Adds
  <2>6. received' = [received EXCEPT ![f] = more]
    BY <1>3, <2>1 DEF Adds
  <2>7. ProcessSegment(f, side, segment)
    <3>1. Process(f, side, segment)
      BY <1>3, <1>4
    <3>2. s.from \in Nat /\ s.to \in Nat
      BY <2>2, <2>3 DEF SegmentsOf
    <3>3. segment.from # segment.to
      BY <2>2, <2>4, <3>2
    <3>4. QED
      BY <3>1, <3>3 DEF Process
  <2>8. PICK stage \in {"open", "reset"} : stage = "reset"
    OBVIOUS
  <2>9. segment \in SegmentsOf(Len(Wire[f][side])) /\ connection' = [connection EXCEPT ![f] = stage]
    BY <1>1, <2>3, <2>4, <2>8
  <2>10. QED
    BY <1>1, <2>2, <2>5, <2>6, <2>7, <2>8, <2>9, StepTrue
<1>8. CASE s = Empty(Prefix(f, side))
  <2>1. segment.from = segment.to /\ segment.rst
    BY <1>4, <1>8 DEF Empty
  <2>2. ProcessReset(f)
    BY <1>3, <1>4, <2>1 DEF Process
  <2>3. f \in DOMAIN flows /\ InStep(f, flows[f], received[f], events)
    BY <1>1, OpenKnown
  <2>4. PICK es \in Seq(Events) : es = events
    BY DEF IInv, AccountOK
  <2>5. PICK last \in Seq(Events) : last = Incomplete(f, flows[f]) /\ EventsTrue(last)
    <3>1. flows[f].requests \in Seq(Nat)
      <4>1. PICK flow \in FlowsOf(Traffic[f]) : flow = flows[f]
        BY <2>3 DEF IInv, TableOK
      <4>2. QED
        BY <4>1, RequestsShape
    <3>2. QED
      BY <3>1, IncompleteTrue
  <2>6. events' = es \o last
    BY <2>2, <2>3, <2>4, <2>5 DEF ProcessReset
  <2>7. EventsTrue(events') /\ \A g, i : Told(g, i, events) => Told(g, i, events')
    BY <2>4, <2>5, <2>6, EventsJoin DEF TrueNow
  <2>8. flows' = Restrict(flows, DOMAIN flows \ {f})
    BY <2>2 DEF ProcessReset
  <2>9. DOMAIN flows' = DOMAIN flows \ {f} /\ \A g \in DOMAIN flows' : flows'[g] = flows[g]
    BY <2>8 DEF Restrict
  <2>10. ASSUME NEW g \in DOMAIN Traffic
         PROVE  StageTrue(g, flows', received'[g], connection'[g], events')
    <3>1. CASE g = f
      <4>1. connection'[g] = "reset"
        BY <1>1, <1>5, <3>1
      <4>2. QED
        BY <4>1 DEF StageTrue
    <3>2. CASE g # f
      <4>1. received'[g] = received[g] /\ connection'[g] = connection[g]
        BY <1>5, <1>6, <3>2
      <4>2. StageTrue(g, flows, received[g], connection[g], events)
        BY DEF TrueNow
      <4>3. connection[g] = "open" => g \in DOMAIN flows'
        BY <2>9, <3>2 DEF OrdersNow, WiresOK, ConnectionOK, Faithful
      <4>4. StageTrue(g, flows', received[g], connection[g], events')
        BY <2>7, <2>9, <4>2, <4>3, StageStays
      <4>5. QED
        BY <4>1, <4>4
    <3>3. QED
      BY <3>1, <3>2
  <2>11. QED
    BY <1>1, <2>7, <2>10 DEF TrueNext, TrueNow
<1>9. QED
  BY <1>3, <1>7, <1>8

\* A segment that the capture misses: the flow waits for it for good.
LEMMA MissTrue ==
  ASSUME IInv, Faithful, TrueNow, OrdersNow, NEW f \in Flows, Miss(f)
  PROVE  TrueNext
<1>1. connection[f] = "open" /\ f \in DOMAIN Traffic /\ connection' = connection
      /\ misses < MaxMisses /\ misses' = misses + 1 /\ flows' = flows /\ events' = events
  BY DEF Miss, IInv, Live, engineVars
<1>2. PICK side \in Sides : \E s \in OnWire(f, side) :
        received' = [received EXCEPT ![f][side] = @ \union (s.from..s.to-1)]
  BY DEF Miss
<1>3. PICK s \in OnWire(f, side) :
        received' = [received EXCEPT ![f][side] = @ \union (s.from..s.to-1)]
  BY <1>2
<1>4. PICK got \in [Sides -> SUBSET Nat] : got = received[f]
  BY <1>1, OpenKnown
<1>5. PICK more : more = Adds(got, side, s)
  OBVIOUS
<1>6. received' = [received EXCEPT ![f] = more]
  BY <1>3, <1>4, <1>5 DEF Adds
<1>7. s \in SegmentsOf(Len(Wire[f][side])) /\ Asked(f, more)
  BY <1>1, <1>4, <1>5, OnWireTrue
<1>8. got.client \subseteq more.client
  <2>1. PICK size \in Nat : size = Len(Wire[f][side])
    BY <1>1, WireSegments
  <2>2. s.from \in 0..size /\ s.to \in 0..size
    BY <1>7, <2>1 DEF SegmentsOf
  <2>3. s.from \in Nat /\ s.to \in Nat
    BY <2>2
  <2>4. side = "client" => more.client = With(got.client, s.from, s.to)
    BY <1>5, <2>3, ReceivedIs
  <2>5. side = "server" => more.client = got.client
    BY <1>5, <2>3, ReceivedIs
  <2>6. QED
    BY <2>4, <2>5 DEF With, Sides
<1>9. MaxMisses \in Nat /\ misses \in Nat
  BY SniffAssumption DEF MaxMisses, IInv, TrueNow
<1>10. ~Seamless
  BY <1>1, <1>9 DEF Seamless
<1>11. InStep(f, flows[f], got, events)
  BY <1>1, <1>4, OpenKnown
<1>12. InStep(f, flows[f], more, events)
  BY <1>8, <1>11 DEF InStep, Stuck
<1>13. Reached(flows[f], more)
  BY <1>10 DEF Reached
<1>14. received \in [Flows -> [Sides -> SUBSET Nat]] /\ \A g \in DOMAIN Traffic : g \in Flows
  BY WireShape DEF OrdersNow, WiresOK, IInv, Carries
<1>15. ASSUME NEW g \in DOMAIN Traffic
       PROVE  StageTrue(g, flows', received'[g], connection'[g], events')
  <2>1. CASE g = f
    <3>1. received'[g] = more
      BY <1>6, <1>14, <2>1
    <3>2. QED
      BY <1>1, <1>7, <1>12, <1>13, <2>1, <3>1 DEF StageTrue
  <2>2. CASE g # f
    <3>1. received'[g] = received[g]
      BY <1>6, <1>14, <2>2
    <3>2. StageTrue(g, flows, received[g], connection[g], events)
      BY DEF TrueNow
    <3>3. QED
      BY <1>1, <3>1, <3>2
  <2>3. QED
    BY <2>1, <2>2
<1>16. misses' \in Nat /\ misses' <= MaxMisses
  BY <1>1, <1>9
<1>17. EventsTrue(events')
  BY <1>1 DEF TrueNow
<1>18. QED
  BY <1>15, <1>16, <1>17 DEF TrueNext

\* expire_idle: what it removes belongs to connections that are over.
LEMMA ExpireTrue ==
  ASSUME IInv, Faithful, TrueNow, OrdersNow, ExpireIdle
  PROVE  TrueNext
<1>1. /\ received' = received /\ connection' = connection /\ misses' = misses
      /\ "late" \notin Network
  BY DEF ExpireIdle, Faithful, KeepsFlows
<1>2. PICK n \in 1..Len(recency) :
        /\ \A i \in 1..n : connection[recency[i]] \notin {"new", "open"}
        /\ ExpireOldestFlows(n)
  BY <1>1 DEF ExpireIdle
<1>3. PICK order \in Seq(Flows) : order = recency /\ ToSet(order) = DOMAIN flows
  BY DEF IInv, TableOK
<1>4. PICK m \in Nat : m = Len(order)
  BY <1>3
<1>5. n \in 1..m /\ n \in Nat
  BY <1>2, <1>3, <1>4
<1>6. PICK expired : expired = SubSeq(order, 1, n)
  OBVIOUS
<1>7. DOMAIN expired = 1..n /\ \A i \in 1..n : expired[i] = order[i]
  BY <1>4, <1>5, <1>6
<1>8. flows' = Restrict(flows, DOMAIN flows \ ToSet(expired))
  BY <1>2, <1>3, <1>6 DEF ExpireOldestFlows
<1>9. DOMAIN flows' = DOMAIN flows \ ToSet(expired) /\ \A g \in DOMAIN flows' : flows'[g] = flows[g]
  BY <1>8 DEF Restrict
<1>10. \A g \in ToSet(expired) : connection[g] \notin {"new", "open"}
  BY <1>2, <1>3, <1>7 DEF ToSet
<1>11. PICK parts : parts = [i \in 1..n |-> Incomplete(expired[i], flows[expired[i]])]
  OBVIOUS
<1>12. PICK S : S = Seq(TrueEvents)
  OBVIOUS
<1>13. parts \in [1..n -> S]
  <2>1. SUFFICES ASSUME NEW i \in 1..n PROVE parts[i] \in S
    BY <1>11
  <2>2. PICK f \in Flows : f = expired[i] /\ f \in DOMAIN flows
    <3>1. i \in 1..m
      BY <1>5
    <3>2. order[i] \in Flows /\ order[i] \in ToSet(order)
      BY <1>4, <3>1 DEF ToSet
    <3>3. QED
      BY <1>3, <1>7, <3>2
  <2>3. PICK flow \in FlowsOf(Traffic[f]) : flow = flows[f]
    BY <2>2 DEF IInv, TableOK
  <2>4. flow.requests \in Seq(Nat)
    BY RequestsShape
  <2>5. PICK es : es = Incomplete(f, flow)
    OBVIOUS
  <2>6. es \in Seq(Events) /\ EventsTrue(es)
    BY <2>4, <2>5, IncompleteTrue
  <2>7. es \in S
    BY <1>12, <2>6, TrueEventsAre
  <2>8. QED
    BY <1>11, <2>2, <2>3, <2>5, <2>7
<1>14. parts \in Seq(S)
  BY <1>5, <1>13, FunctionsAreSequences
<1>15. PICK last : last = FlattenSeq(parts)
  OBVIOUS
<1>16. last \in Seq(TrueEvents)
  BY <1>12, <1>14, <1>15, FlattenShape
<1>17. last \in Seq(Events)
  <2>1. TrueEvents \subseteq Events
    BY DEF TrueEvents
  <2>2. QED
    BY <1>16, <2>1
<1>18. EventsTrue(last)
  BY <1>16, <1>17, TrueEventsAre
<1>19. PICK es \in Seq(Events) : es = events
  BY DEF IInv, AccountOK
<1>20. events' = es \o last
  BY <1>2, <1>3, <1>6, <1>11, <1>15, <1>19 DEF ExpireOldestFlows
<1>21. EventsTrue(events') /\ \A g, i : Told(g, i, events) => Told(g, i, events')
  BY <1>17, <1>18, <1>19, <1>20, EventsJoin DEF TrueNow
<1>22. ASSUME NEW g \in DOMAIN Traffic
       PROVE  StageTrue(g, flows', received[g], connection[g], events')
  <2>1. StageTrue(g, flows, received[g], connection[g], events)
    BY DEF TrueNow
  <2>2. connection[g] = "open" => g \in DOMAIN flows
    BY DEF OrdersNow, WiresOK, ConnectionOK, Faithful
  <2>3. connection[g] = "open" => g \in DOMAIN flows'
    BY <1>9, <1>10, <2>2
  <2>4. QED
    BY <1>9, <1>21, <2>1, <2>3, StageStays
<1>23. QED
  BY <1>1, <1>21, <1>22 DEF TrueNext, TrueNow

\* A connection that goes quiet, and a stutter.
LEMMA QuietTrue ==
  ASSUME IInv, TrueNow, (\E f \in Flows : GoQuiet(f)) \/ UNCHANGED vars
  PROVE  TrueNext
<1>1. /\ flows' = flows /\ events' = events /\ received' = received /\ misses' = misses
      /\ \A g \in Flows : connection'[g] \in {"new", "open"} => connection'[g] = connection[g]
  <2>1. CASE \E f \in Flows : GoQuiet(f)
    <3>1. PICK f \in Flows : GoQuiet(f)
      BY <2>1
    <3>2. connection' = [connection EXCEPT ![f] = "gone"]
          /\ connection \in [Flows -> {"new", "open", "reset", "gone"}]
      BY <3>1 DEF GoQuiet, IInv, Live
    <3>3. QED
      BY <3>1, <3>2 DEF GoQuiet, engineVars
  <2>2. CASE UNCHANGED vars
    BY <2>2 DEF vars, engineVars
  <2>3. QED
    BY <2>1, <2>2
<1>2. ASSUME NEW g \in DOMAIN Traffic
      PROVE  StageTrue(g, flows', received'[g], connection'[g], events')
  <2>1. g \in Flows
    BY WireShape DEF IInv, Carries
  <2>2. StageTrue(g, flows, received[g], connection[g], events)
    BY DEF TrueNow
  <2>3. CASE connection'[g] \in {"new", "open"}
    BY <1>1, <2>1, <2>2, <2>3
  <2>4. CASE connection'[g] \notin {"new", "open"}
    BY <2>4 DEF StageTrue
  <2>5. QED
    BY <2>3, <2>4
<1>3. QED
  BY <1>1, <1>2 DEF TrueNow, TrueNext

\* Done is a matter of the scenario.
LEMMA SameScenario ==
  ASSUME scenario' = scenario
  PROVE  /\ Traffic' = Traffic /\ Wire' = Wire /\ Network' = Network
         /\ MaxFlows' = MaxFlows /\ MaxGap' = MaxGap /\ MaxMisses' = MaxMisses
         /\ \A f : Done(f)' = Done(f)
         /\ Faithful' <=> Faithful
<1>1. /\ Traffic' = Traffic /\ Wire' = Wire /\ Network' = Network
      /\ MaxFlows' = MaxFlows /\ MaxGap' = MaxGap /\ MaxMisses' = MaxMisses
  BY DEF Traffic, Wire, Network, MaxFlows, MaxGap, MaxMisses
<1>2. \A f : Done(f)' = Done(f)
  BY <1>1 DEF Done, Pairings, Pairing
<1>3. Faithful' <=> Faithful
  BY <1>1 DEF Faithful, KeepsFlows, ShortWires, Seamless, OnceOnly, Honest, ResponseHonest,
              AnswersHead, Pairings, Pairing
<1>4. QED
  BY <1>1, <1>2, <1>3

\* Every action keeps what is true.
LEMMA NextTrue ==
  ASSUME IInv, Faithful, TrueNow, OrdersNow, [Next]_vars
  PROVE  TrueNow'
<1>1. TrueNext
  BY HandshakeTrue, CaptureTrue, MissTrue, FinishTrue, ResetActionTrue, ExpireTrue, QuietTrue
     DEF Next
<1>2. scenario' = scenario
  BY DEF Next, Handshake, Capture, Miss, Finish, Reset, GoQuiet, ExpireIdle, vars
<1>3. /\ Traffic' = Traffic /\ Wire' = Wire /\ Network' = Network
      /\ MaxGap' = MaxGap /\ MaxMisses' = MaxMisses
      /\ \A f : Done(f)' = Done(f)
  BY <1>2, SameScenario
<1>4. \A es : EventsTrue(es)' <=> EventsTrue(es)
  BY <1>3 DEF EventsTrue, EventTrue
<1>5. \A f, got : Asked(f, got)' <=> Asked(f, got)
  BY <1>3 DEF Asked
<1>6. \A flow, got : Reached(flow, got)' <=> Reached(flow, got)
  BY <1>3 DEF Reached, Seamless
<1>7. \A f, flow, got, es : InStep(f, flow, got, es)' <=> InStep(f, flow, got, es)
  <2>1. \A f, d, m : TookRequests(f, d, m)' <=> TookRequests(f, d, m)
    BY <1>3 DEF TookRequests
  <2>2. \A f, p, k : AllRead(f, p, k)' <=> AllRead(f, p, k)
    BY <1>3 DEF AllRead, AnswersHead
  <2>3. \A f, flow, m, k, es : TookResponses(f, flow, m, k, es)' <=> TookResponses(f, flow, m, k, es)
    BY <1>3, <2>2 DEF TookResponses
  <2>4. QED
    BY <1>3, <2>1, <2>3 DEF InStep
<1>8. ASSUME NEW f \in DOMAIN Traffic
      PROVE  StageTrue(f, flows, received[f], connection[f], events)'
  <2>1. StageTrue(f, flows', received'[f], connection'[f], events')
    BY <1>1 DEF TrueNext
  <2>2. PICK table, got, stage, es :
          table = flows' /\ got = received'[f] /\ stage = connection'[f] /\ es = events'
    OBVIOUS
  <2>3. StageTrue(f, table, got, stage, es)
    BY <2>1, <2>2
  <2>4. StageTrue(f, table, got, stage, es)'
    BY <1>5, <1>6, <1>7, <2>3 DEF StageTrue
  <2>5. QED
    BY <2>2, <2>4
<1>9. EventsTrue(events)'
  BY <1>1, <1>4 DEF TrueNext
<1>10. QED
  BY <1>1, <1>3, <1>8, <1>9 DEF TrueNow, TrueNext

\* Initially nothing was captured.
LEMMA InitTrue ==
  ASSUME Init, Faithful
  PROVE  TrueNow
<1>1. flows = <<>> /\ events = <<>> /\ misses = 0
  BY DEF Init
<1>2. DOMAIN <<>> = {} /\ 1..Len(<<>>) = {}
  OBVIOUS
<1>3. misses \in Nat /\ misses <= MaxMisses
  <2>1. MaxMisses \in Nat
    BY SniffAssumption DEF Init, MaxMisses
  <2>2. QED
    BY <1>1, <2>1
<1>4. EventsTrue(events)
  BY <1>1, <1>2 DEF EventsTrue
<1>5. IInv
  BY InitKeeps
<1>6. ASSUME NEW f \in DOMAIN Traffic
      PROVE  StageTrue(f, flows, received[f], connection[f], events)
  <2>1. f \in Flows
    BY <1>5, WireShape DEF IInv, Carries
  <2>2. connection[f] # "open"
    BY <2>1 DEF Init, Faithful, KeepsFlows
  <2>3. f \notin DOMAIN flows
    BY <1>1, <1>2
  <2>4. QED
    BY <2>2, <2>3 DEF StageTrue
<1>7. QED
  BY <1>3, <1>4, <1>6 DEF TrueNow

\* An event carries the response that the server gave to its request, whole and
\* with nothing else, in every scenario whose messages say where they end and are
\* readable, whose responses answer the requests in turn and after them, where the
\* capture shows nothing twice or shows all in order, and no limit of the engine
\* drops a flow or a stream.
THEOREM TrueResponses ==
  Spec => [](Faithful => EventsAreTrue)
<1> DEFINE Inv == IInv /\ (Faithful => OrdersNow /\ TrueNow)
<1>1. Faithful => Orderly
  BY DEF Faithful, Orderly
<1>2. Init => Inv
  BY <1>1, InitKeeps, InitOrders, InitTrue
<1>3. Inv /\ [Next]_vars => Inv'
  <2> SUFFICES ASSUME Inv, [Next]_vars PROVE Inv'
    OBVIOUS
  <2>1. IInv'
    BY NextKeeps
  <2>2. scenario' = scenario
    BY DEF Next, Handshake, Capture, Miss, Finish, Reset, GoQuiet, ExpireIdle, vars
  <2>3. Faithful' => Faithful
    BY <2>2, SameScenario
  <2>4. Faithful' => OrdersNow' /\ TrueNow'
    BY <1>1, <2>3, NextOrders, NextTrue
  <2>5. QED
    BY <2>1, <2>4
<1>4. Inv => (Faithful => EventsAreTrue)
  BY DEF TrueNow, EventsTrue, EventTrue, EventsAreTrue
<1>5. QED
  BY <1>2, <1>3, <1>4, PTL DEF Spec

-----------------------------------------------------------------------------
(* Nothing is missed: what the capture shows is passed or waits.           *)

\* The limit of what waits out of order holds a whole side.
Spacious == \A f \in DOMAIN Traffic, side \in Sides : Len(Wire[f][side]) <= PendingLimit

\* Both directions of a flow keep all that was received.
FlowIntact(flow, got) ==
  Intact(flow.client, got.client) /\ Intact(flow.server, got.server)

\* The invariant, and what a step of the same scenario leaves.
IntactNow ==
  misses = 0 /\ OnceOnly /\ Spacious =>
    \A f \in DOMAIN Traffic : connection[f] = "open" => FlowIntact(flows[f], received[f])
IntactNext ==
  misses' = 0 /\ OnceOnly /\ Spacious =>
    \A f \in DOMAIN Traffic : connection'[f] = "open" => FlowIntact(flows'[f], received'[f])

\* A direction whose stream is cut keeps what waits.
LEMMA SameIntact ==
  ASSUME NEW d, NEW e, NEW stream, SameBut(d, e, stream), NEW S, Intact(d, S)
  PROVE  Intact(e, S)
<1>1. At(e) = At(d) /\ e.pending = d.pending /\ Load(e) = Load(d)
  BY DEF SameBut, At, Load
<1>2. QED
  BY <1>1 DEF Intact, Held, Apart

\* The loops of process change nothing of a direction but its stream.
LEMMA ParseLeaves ==
  ASSUME NEW f, Carries(f), NEW side \in Sides, NEW fin,
         NEW flow \in FlowsOf(Traffic[f]), FlowInBudget(flow),
         NEW e, e = Parse(f, side, fin, flow)
  PROVE  /\ SameBut(flow.client, e.flow.client, e.flow.client.stream)
         /\ SameBut(flow.server, e.flow.server, e.flow.server.stream)
<1> DEFINE Good == {run \in GoodRuns(f, flow) :
                      /\ SameBut(flow.client, run.flow.client, run.flow.client.stream)
                      /\ SameBut(flow.server, run.flow.server, run.flow.server.stream)}
<1>1. Len(flow[side].stream) \in Nat
  <2>1. flow.client.stream \in Seq(UnitsOf(Traffic[f].client))
        /\ flow.server.stream \in Seq(UnitsOf(Traffic[f].server))
    BY DEF FlowsOf, Directions
  <2>2. Len(flow.client.stream) \in Nat /\ Len(flow.server.stream) \in Nat
    BY <2>1
  <2>3. QED
    BY <2>2 DEF Sides
<1>2. Running(flow) \in Good
  <2>1. PICK run : run = Running(flow)
    OBVIOUS
  <2>2. /\ run.flow = flow /\ run.events = <<>> /\ run.queued = {} /\ run.lost = {}
        /\ run \in Runs(Traffic[f])
    <3>1. <<>> \in Seq(Events)
      OBVIOUS
    <3>2. QED
      BY <2>1, <3>1 DEF Running, Runs
  <2>3. Conserved(f, flow, run)
    BY <2>2, NoneReported DEF Conserved
  <2>4. QED
    BY <2>1, <2>2, <2>3 DEF GoodRuns, SameBut
<1>3. ASSUME NEW run \in Good PROVE LoopTurn(f, side, fin, run) \in Good
  <2>1. /\ run \in GoodRuns(f, flow) /\ run \in Runs(Traffic[f])
        /\ SameBut(flow.client, run.flow.client, run.flow.client.stream)
        /\ SameBut(flow.server, run.flow.server, run.flow.server.stream)
    BY DEF GoodRuns
  <2>2. PICK x : x = LoopTurn(f, side, fin, run)
    OBVIOUS
  <2>3. CASE side = "client"
    <3>1. x = RequestTurn(f, run)
      BY <2>2, <2>3 DEF LoopTurn
    <3>2. PICK taken :
            taken = TakeMessage(run.flow.client.stream, Traffic[f].client, TRUE, FALSE, FALSE)
      OBVIOUS
    <3>3. x \in GoodRuns(f, flow) /\ RequestTurned(f, run, taken, x)
      BY <2>1, <3>1, <3>2, RequestTurnKeeps, RequestTurnIs
    <3>4. /\ SameBut(run.flow.client, x.flow.client, taken.stream)
          /\ x.flow.server = run.flow.server
      BY <3>3 DEF RequestTurned
    <3>5. QED
      BY <2>1, <2>2, <3>3, <3>4 DEF SameBut
  <2>4. CASE side = "server"
    <3>1. x = ResponseTurn(f, fin, run)
      BY <2>2, <2>4, SMTT(60) DEF LoopTurn
    <3>2. PICK taken : x = Answer(f, run, taken)
      BY <3>1 DEF ResponseTurn
    <3>3. x \in GoodRuns(f, flow) /\ Answered(f, run, taken, x)
      BY <2>1, <3>1, <3>2, ResponseTurnKeeps, AnswerIs
    <3>4. /\ SameBut(run.flow.server, x.flow.server, taken.stream)
          /\ x.flow.client = run.flow.client
      BY <3>3 DEF Answered
    <3>5. QED
      BY <2>1, <2>2, <3>3, <3>4 DEF SameBut
  <2>5. QED
    BY <2>3, <2>4 DEF Sides
<1> HIDE DEF Good
<1>4. e \in Good
  BY <1>1, <1>2, <1>3, ParseLoop
<1>5. QED
  BY <1>4 DEF Good

\* A segment of which nothing was received before leaves nothing out.
LEMMA SegmentIntact ==
  ASSUME NEW U, NEW w, ShortWire(U, w), Len(w) <= StreamLimit, Len(w) <= PendingLimit,
         NEW d \in Directions(U), InBudget(d), NEW S, S \subseteq 0..Len(w)-1,
         Wired(w, d, S), d.next # Unset, Intact(d, S),
         NEW segment \in SegmentsOf(Len(w)), segment.from <= segment.to, ~segment.syn,
         segment.from..segment.to-1 \intersect S = {},
         NEW R, R = With(S, segment.from, segment.to),
         NEW e, e = PushSegment(d, w, segment)
  PROVE  Intact(e, R)
<1>1. PICK n \in Nat : n = Len(w)
  BY DEF ShortWire
<1>2. PICK from \in 0..n, to \in 0..n : from = segment.from /\ to = segment.to
  BY <1>1 DEF SegmentsOf
<1>3. n + 1 < SeqSpace /\ SeqSpace \in Nat \ {0} /\ from \in Nat /\ to \in Nat
  BY <1>1, DirectionAssumption DEF ShortWire
<1>4. Follows(w, d, S) /\ d.next \notin DOMAIN d.pending
  BY DEF Wired
<1>5. CASE from < to
  <2>1. SeqAt(from) = from + 1
    <3>1. PICK m \in Int : m = from + 1
      BY <1>3
    <3>2. 0 <= m /\ m < SeqSpace
      BY <1>1, <1>2, <1>3, <3>1
    <3>3. m % SeqSpace = m
      BY <1>3, <3>2, ModSmall
    <3>4. QED
      BY <3>1, <3>3 DEF SeqAt
  <2>2. e = Push(d, from + 1, Part(w, from, to))
    BY <1>2, <1>5, <2>1 DEF PushSegment, Part
  <2>3. to \in 1..Len(w) /\ from \in 0..to-1 /\ R = With(S, from, to)
        /\ from..to-1 \intersect S = {}
    BY <1>1, <1>2, <1>5
  <2>4. QED
    BY <1>4, <2>2, <2>3, PushIntact
<1>6. CASE ~(from < to)
  <2>1. from = to
    BY <1>2, <1>3, <1>6
  <2>2. R = S
    BY <1>2, <1>3, <2>1 DEF With
  <2>3. e = d
    BY <1>2, <1>6 DEF PushSegment
  <2>4. QED
    BY <2>2, <2>3
<1>7. QED
  BY <1>5, <1>6

\* What process does to the flow of one connection it does to no other.
LEMMA OthersStay ==
  ASSUME IInv, KeepsFlows, NEW f \in DOMAIN Traffic, NEW side, NEW segment,
         Process(f, side, segment)
  PROVE  \A g \in DOMAIN flows' \ {f} : g \in DOMAIN flows /\ flows'[g] = flows[g]
<1>1. CASE ProcessReset(f)
  BY <1>1 DEF ProcessReset, Restrict
<1>2. CASE ProcessSegment(f, side, segment)
  <2>1. Victims(f) = {}
    BY NoVictims
  <2>2. PICK run : Leave(f, segment.rst, {}, run)
    BY <1>2, <2>1 DEF ProcessSegment
  <2>3. PICK others : others = Restrict(flows, DOMAIN flows \ {f})
    OBVIOUS
  <2>4. DOMAIN others = DOMAIN flows \ {f} /\ \A g \in DOMAIN others : others[g] = flows[g]
    BY <2>3 DEF Restrict
  <2>5. flows' = IF segment.rst THEN others ELSE Insert(others, f, run.flow)
    <3>1. {} \union {f} = {f}
      OBVIOUS
    <3>2. QED
      BY <2>2, <2>3, <3>1 DEF Leave
  <2>6. QED
    BY <2>4, <2>5 DEF Insert
<1>3. QED
  BY <1>1, <1>2 DEF Process

\* A segment of an open connection leaves nothing out of its flow.
LEMMA StepIntact ==
  ASSUME IInv, Faithful, TrueNow, OrdersNow, OnceOnly, Spacious,
         NEW f \in DOMAIN Traffic, connection[f] = "open", FlowIntact(flows[f], received[f]),
         NEW side \in Sides, NEW segment \in SegmentsOf(Len(Wire[f][side])),
         ProcessSegment(f, side, segment), ~segment.rst,
         Steps(flows[f][side], received[f][side], segment, Len(Wire[f][side])),
         NEW more, more = Adds(received[f], side, segment)
  PROVE  FlowIntact(flows'[f], more)
<1>1. PICK flow : flow = flows[f]
  OBVIOUS
<1>2. PICK got \in [Sides -> SUBSET Nat] : got = received[f]
  BY OpenKnown
<1>3. f \in DOMAIN flows /\ Known(f, flow, parsed, got) /\ InStep(f, flow, got, events)
  BY <1>1, <1>2, OpenKnown
<1>4. PICK pushed : pushed = Pushed(flow, side, Wire[f][side], segment)
  OBVIOUS
<1>5. PICK run : run = Parse(f, side, segment.fin, pushed)
  OBVIOUS
<1>6. flows'[f] = run.flow
  <2>1. Victims(f) = {}
    BY NoVictims DEF Faithful
  <2>2. pushed = [flow EXCEPT ![side] = PushSegment(@, Wire[f][side], segment)]
    BY <1>4 DEF Pushed
  <2>3. flow = IF f \in DOMAIN flows THEN flows[f] ELSE NewFlow
    BY <1>1, <1>3
  <2>4. Leave(f, segment.rst, {}, run)
    BY <1>5, <2>1, <2>2, <2>3 DEF ProcessSegment
  <2>5. QED
    BY <2>4 DEF Leave, Insert
<1>7. /\ flow \in FlowsOf(Traffic[f]) /\ FlowInBudget(flow)
      /\ Tracks(f, flow, parsed, got) /\ Seen(f, parsed, got)
      /\ flow.client.next # Unset /\ flow.server.next # Unset
  BY <1>3 DEF Known, InStep
<1>8. /\ Carries(f) /\ Len(Wire[f].client) <= StreamLimit /\ Len(Wire[f].server) <= StreamLimit
      /\ ShortWire(UnitsOf(Traffic[f].client), Wire[f].client)
      /\ ShortWire(UnitsOf(Traffic[f].server), Wire[f].server)
  BY FaithfulIs
<1>9. pushed \in FlowsOf(Traffic[f]) /\ FlowInBudget(pushed)
  BY <1>4, <1>7, <1>8, PushedShape DEF ShortWire
<1>10. /\ SameBut(pushed.client, run.flow.client, run.flow.client.stream)
       /\ SameBut(pushed.server, run.flow.server, run.flow.server.stream)
  <2>1. PICK fin : fin = segment.fin
    OBVIOUS
  <2>2. run = Parse(f, side, fin, pushed)
    BY <1>5, <2>1
  <2>3. QED
    BY <1>8, <1>9, <2>2, ParseLeaves
<1>11. PICK size \in Nat : size = Len(Wire[f][side])
  BY WireSegments
<1>12. segment.from \in Nat /\ segment.to \in Nat
  BY <1>11 DEF SegmentsOf
<1>13. /\ segment.from <= segment.to /\ ~segment.syn
       /\ segment.from..segment.to-1 \intersect got[side] = {}
  BY <1>2 DEF Steps
<1>14. Intact(flow.client, got.client) /\ Intact(flow.server, got.server)
  BY <1>1, <1>2 DEF FlowIntact
<1>15. more = Adds(got, side, segment)
  BY <1>2
<1>16. Len(Wire[f].client) <= PendingLimit /\ Len(Wire[f].server) <= PendingLimit
  BY DEF Spacious, Sides
<1>17. Intact(pushed.client, more.client) /\ Intact(pushed.server, more.server)
  <2>1. CASE side = "client"
    <3>1. more.client = With(got.client, segment.from, segment.to) /\ more.server = got.server
      BY <1>12, <1>15, <2>1, ReceivedIs
    <3>2. PICK c : c = PushSegment(flow.client, Wire[f].client, segment)
      OBVIOUS
    <3>3. pushed.client = c /\ pushed.server = flow.server
      <4>1. pushed = [flow EXCEPT !.client = c]
        BY <1>4, <2>1, <3>2 DEF Pushed
      <4>2. QED
        BY <1>7, <4>1 DEF FlowsOf
    <3>4. /\ flow.client \in Directions(UnitsOf(Traffic[f].client)) /\ InBudget(flow.client)
          /\ Wired(Wire[f].client, flow.client, got.client)
          /\ got.client \subseteq 0..Len(Wire[f].client)-1
          /\ segment \in SegmentsOf(Len(Wire[f].client))
          /\ segment.from..segment.to-1 \intersect got.client = {}
      BY <1>7, <1>13, <2>1 DEF FlowsOf, FlowInBudget, Tracks, Seen
    <3>5. Intact(c, more.client)
      BY <1>7, <1>8, <1>13, <1>14, <1>16, <3>1, <3>2, <3>4, SegmentIntact
    <3>6. QED
      BY <1>14, <3>1, <3>3, <3>5
  <2>2. CASE side = "server"
    <3>1. more.server = With(got.server, segment.from, segment.to) /\ more.client = got.client
      BY <1>12, <1>15, <2>2, ReceivedIs
    <3>2. PICK c : c = PushSegment(flow.server, Wire[f].server, segment)
      OBVIOUS
    <3>3. pushed.server = c /\ pushed.client = flow.client
      <4>1. pushed = [flow EXCEPT !.server = c]
        BY <1>4, <2>2, <3>2 DEF Pushed
      <4>2. QED
        BY <1>7, <4>1 DEF FlowsOf
    <3>4. /\ flow.server \in Directions(UnitsOf(Traffic[f].server)) /\ InBudget(flow.server)
          /\ Wired(Wire[f].server, flow.server, got.server)
          /\ got.server \subseteq 0..Len(Wire[f].server)-1
          /\ segment \in SegmentsOf(Len(Wire[f].server))
          /\ segment.from..segment.to-1 \intersect got.server = {}
      BY <1>7, <1>13, <2>2 DEF FlowsOf, FlowInBudget, Tracks, Seen
    <3>5. Intact(c, more.server)
      BY <1>7, <1>8, <1>13, <1>14, <1>16, <3>1, <3>2, <3>4, SegmentIntact
    <3>6. QED
      BY <1>14, <3>1, <3>3, <3>5
  <2>3. QED
    BY <2>1, <2>2 DEF Sides
<1>18. Intact(run.flow.client, more.client) /\ Intact(run.flow.server, more.server)
  BY <1>10, <1>17, SameIntact
<1>19. QED
  BY <1>6, <1>18 DEF FlowIntact

\* The flow of a connection to which nothing was sent.
LEMMA NewIntact ==
  ASSUME NEW f, NEW flow, flow \in FlowsOf(Traffic[f]), FlowInBudget(flow),
         flow.client.next # Unset, flow.server.next # Unset,
         NEW done, NEW got, Tracks(f, flow, done, got), got.client = {}, got.server = {}
  PROVE  FlowIntact(flow, got)
<1>1. /\ Follows(Wire[f].client, flow.client, {})
      /\ Follows(Wire[f].server, flow.server, {})
  BY DEF Tracks, Wired
<1>2. /\ flow.client \in Directions(UnitsOf(Traffic[f].client)) /\ InBudget(flow.client)
      /\ flow.server \in Directions(UnitsOf(Traffic[f].server)) /\ InBudget(flow.server)
  BY DEF FlowsOf, FlowInBudget
<1>3. Intact(flow.client, {}) /\ Intact(flow.server, {})
  BY <1>1, <1>2, NothingSent
<1>4. QED
  BY <1>3 DEF FlowIntact

\* What is done to one connection leaves the flows of the others intact.
LEMMA OthersIntact ==
  ASSUME IInv, Faithful, OrdersNext, IntactNow, misses = 0, OnceOnly, Spacious,
         NEW f \in DOMAIN Traffic, NEW side, NEW segment, Process(f, side, segment),
         NEW g \in DOMAIN Traffic \ {f}, connection'[g] = "open",
         connection[g] = "open", received'[g] = received[g]
  PROVE  FlowIntact(flows'[g], received'[g])
<1>1. KeepsFlows
  BY DEF Faithful
<1>2. g \in DOMAIN flows'
  BY <1>1 DEF OrdersNext, WiresOK, ConnectionOK
<1>3. flows'[g] = flows[g]
  BY <1>1, <1>2, OthersStay
<1>4. FlowIntact(flows[g], received[g])
  BY DEF IntactNow
<1>5. QED
  BY <1>3, <1>4

\* A segment that the socket shows leaves nothing out.
LEMMA CaptureIntact ==
  ASSUME IInv, Faithful, TrueNow, OrdersNow, OrdersNext, IntactNow,
         NEW f \in Flows, Capture(f)
  PROVE  IntactNext
<1> SUFFICES ASSUME misses' = 0, OnceOnly, Spacious,
                    NEW g \in DOMAIN Traffic, connection'[g] = "open"
             PROVE  FlowIntact(flows'[g], received'[g])
  BY DEF IntactNext
<1>1. connection[f] = "open" /\ f \in DOMAIN Traffic /\ connection' = connection
      /\ misses' = misses
  BY DEF Capture, IInv, Live
<1>2. PICK side \in Sides : \E s \in OnWire(f, side) :
        /\ Process(f, side, s)
        /\ received' = [received EXCEPT ![f][side] = @ \union (s.from..s.to-1)]
  BY DEF Capture
<1>3. PICK s \in OnWire(f, side) :
        /\ Process(f, side, s)
        /\ received' = [received EXCEPT ![f][side] = @ \union (s.from..s.to-1)]
  BY <1>2
<1>4. PICK more : more = Adds(received[f], side, s)
  OBVIOUS
<1>5. received' = [received EXCEPT ![f] = more]
  BY <1>3, <1>4 DEF Adds
<1>6. received \in [Flows -> [Sides -> SUBSET Nat]] /\ \A h \in DOMAIN Traffic : h \in Flows
  BY WireShape DEF OrdersNow, WiresOK, IInv, Carries
<1>7. CASE g = f
  <2>1. /\ s \in SegmentsOf(Len(Wire[f][side])) /\ s.from < s.to /\ ~s.rst
        /\ Steps(flows[f][side], received[f][side], s, Len(Wire[f][side]))
    BY <1>1, <1>4, OnWireTrue
  <2>2. ProcessSegment(f, side, s)
    BY <1>3, <2>1 DEF Process
  <2>3. FlowIntact(flows[f], received[f])
    BY <1>1 DEF IntactNow
  <2>4. FlowIntact(flows'[f], more)
    BY <1>1, <1>4, <2>1, <2>2, <2>3, StepIntact
  <2>5. received'[f] = more
    BY <1>5, <1>6
  <2>6. QED
    BY <1>7, <2>4, <2>5
<1>8. CASE g # f
  <2>1. received'[g] = received[g]
    BY <1>5, <1>6, <1>8
  <2>2. QED
    BY <1>1, <1>3, <1>8, <2>1, OthersIntact
<1>9. QED
  BY <1>7, <1>8

\* A FIN of its own leaves nothing out.
LEMMA FinishIntact ==
  ASSUME IInv, Faithful, TrueNow, OrdersNow, OrdersNext, IntactNow,
         NEW f \in Flows, Finish(f)
  PROVE  IntactNext
<1> SUFFICES ASSUME misses' = 0, OnceOnly, Spacious,
                    NEW g \in DOMAIN Traffic, connection'[g] = "open"
             PROVE  FlowIntact(flows'[g], received'[g])
  BY DEF IntactNext
<1>1. connection[f] = "open" /\ f \in DOMAIN Traffic /\ connection' = connection
      /\ misses' = misses /\ received' = received
  BY DEF Finish, IInv, Live
<1>2. PICK side \in Sides :
        LET size == Len(Wire[f][side]) IN
        /\ size <= Prefix(f, side) + MaxGap
        /\ Process(f, side, [Empty(size) EXCEPT !.fin = TRUE])
  BY DEF Finish
<1>3. PICK size \in Nat : size = Len(Wire[f][side])
  BY <1>1, WireSegments
<1>4. PICK segment : segment = [Empty(size) EXCEPT !.fin = TRUE]
  OBVIOUS
<1>5. Process(f, side, segment)
  BY <1>2, <1>3, <1>4
<1>6. CASE g = f
  <2>1. segment.from = size /\ segment.to = size /\ ~segment.syn /\ ~segment.rst
        /\ segment \in SegmentsOf(size)
    <3>1. PICK e \in SegmentsOf(size) : e = Empty(size)
      BY EmptyShape
    <3>2. e.from = size /\ e.to = size /\ ~e.syn /\ ~e.rst
      BY <3>1 DEF Empty
    <3>3. segment = [e EXCEPT !.fin = TRUE]
      BY <1>4, <3>1
    <3>4. QED
      BY <3>2, <3>3 DEF SegmentsOf
  <2>2. size..size-1 = {}
    OBVIOUS
  <2>3. PICK more : more = Adds(received[f], side, segment)
    OBVIOUS
  <2>4. received \in [Flows -> [Sides -> SUBSET Nat]]
    BY DEF OrdersNow, WiresOK
  <2>5. more = received[f]
    <3>1. received[f][side] \union (size..size-1) = received[f][side]
      BY <2>2
    <3>2. received[f] \in [Sides -> SUBSET Nat]
      BY <2>4
    <3>3. QED
      BY <2>1, <2>3, <3>1, <3>2 DEF Adds
  <2>6. Steps(flows[f][side], received[f][side], segment, Len(Wire[f][side]))
    <3>1. Seamless => size <= At(flows[f][side])
      BY <1>1, <1>2, <1>3, PrefixReached
    <3>2. segment.from..segment.to-1 \intersect received[f][side] = {}
      BY <2>1, <2>2
    <3>3. QED
      BY <1>3, <2>1, <3>1, <3>2 DEF Steps
  <2>7. ProcessSegment(f, side, segment) /\ segment \in SegmentsOf(Len(Wire[f][side]))
    BY <1>3, <1>5, <2>1 DEF Process
  <2>8. FlowIntact(flows[f], received[f])
    BY <1>1 DEF IntactNow
  <2>9. FlowIntact(flows'[f], more)
    BY <1>1, <2>1, <2>3, <2>6, <2>7, <2>8, StepIntact
  <2>10. QED
    BY <1>1, <1>6, <2>5, <2>9
<1>7. CASE g # f
  BY <1>1, <1>5, <1>7, OthersIntact
<1>8. QED
  BY <1>6, <1>7

\* A connection that is reset shows nothing more; the others stay.
LEMMA ResetIntact ==
  ASSUME IInv, Faithful, OrdersNow, OrdersNext, IntactNow, NEW f \in Flows, Reset(f)
  PROVE  IntactNext
<1> SUFFICES ASSUME misses' = 0, OnceOnly, Spacious,
                    NEW g \in DOMAIN Traffic, connection'[g] = "open"
             PROVE  FlowIntact(flows'[g], received'[g])
  BY DEF IntactNext
<1>1. connection[f] = "open" /\ f \in DOMAIN Traffic /\ misses' = misses
      /\ connection' = [connection EXCEPT ![f] = "reset"]
  BY DEF Reset, IInv, Live
<1>2. PICK side \in Sides : \E s \in OnWire(f, side) \union {Empty(Prefix(f, side))} :
        /\ Process(f, side, [s EXCEPT !.rst = TRUE])
        /\ received' = [received EXCEPT ![f][side] = @ \union (s.from..s.to-1)]
  BY DEF Reset
<1>3. PICK s \in OnWire(f, side) \union {Empty(Prefix(f, side))} :
        /\ Process(f, side, [s EXCEPT !.rst = TRUE])
        /\ received' = [received EXCEPT ![f][side] = @ \union (s.from..s.to-1)]
  BY <1>2
<1>4. received \in [Flows -> [Sides -> SUBSET Nat]]
      /\ connection \in [Flows -> {"new", "open", "reset", "gone"}]
      /\ (\A h \in DOMAIN Traffic : h \in Flows)
  BY WireShape DEF OrdersNow, WiresOK, IInv, Live, Carries
<1>5. g # f
  BY <1>1, <1>4
<1>6. connection[g] = "open" /\ received'[g] = received[g]
  BY <1>1, <1>3, <1>4, <1>5
<1>7. PICK segment : segment = [s EXCEPT !.rst = TRUE]
  OBVIOUS
<1>8. Process(f, side, segment)
  BY <1>3, <1>7
<1>9. QED
  BY <1>1, <1>5, <1>6, <1>8, OthersIntact

\* To a connection whose handshake ends nothing was sent.
LEMMA HandshakeIntact ==
  ASSUME IInv, IInv', Faithful, OrdersNow, OrdersNext, IntactNow,
         NEW f \in Flows, Handshake(f)
  PROVE  IntactNext
<1> SUFFICES ASSUME misses' = 0, OnceOnly, Spacious,
                    NEW g \in DOMAIN Traffic, connection'[g] = "open"
             PROVE  FlowIntact(flows'[g], received'[g])
  BY DEF IntactNext
<1>1. connection[f] = "new" /\ f \in DOMAIN Traffic /\ received' = received /\ misses' = misses
      /\ scenario' = scenario
  BY DEF Handshake, IInv, Live
<1>2. PICK side \in Sides :
        /\ Process(f, side, [Empty(0) EXCEPT !.syn = TRUE])
        /\ connection' = [connection EXCEPT ![f] = IF side = "server" THEN "open" ELSE @]
  BY DEF Handshake
<1>3. CASE g = f
  <2>1. ConnectionOK(f, flows', parsed', received'[f], "open")
    BY <1>3 DEF OrdersNext, WiresOK
  <2>2. received'[f].client = {} /\ received'[f].server = {}
    <3>1. ConnectionOK(f, flows, parsed, received[f], "new")
      BY <1>1 DEF OrdersNow, WiresOK
    <3>2. received[f].client = {} /\ received[f].server = {}
      BY <3>1 DEF ConnectionOK
    <3>3. QED
      BY <1>1, <3>2
  <2>3. PICK flow, got, done : flow = flows'[f] /\ got = received'[f] /\ done = parsed'
    OBVIOUS
  <2>4. /\ f \in DOMAIN flows' /\ flow.client.next # Unset /\ flow.server.next # Unset
        /\ Tracks(f, flow, done, got)
    BY <2>1, <2>3 DEF ConnectionOK, Faithful
  <2>5. flow \in FlowsOf(Traffic[f]) /\ FlowInBudget(flow)
    <3>1. Traffic' = Traffic
      BY <1>1, SameScenario
    <3>2. QED
      BY <2>3, <2>4, <3>1 DEF IInv, TableOK
  <2>6. FlowIntact(flow, got)
    BY <2>2, <2>3, <2>4, <2>5, NewIntact
  <2>7. QED
    BY <1>3, <2>3, <2>6
<1>4. CASE g # f
  <2>1. connection[g] = "open" /\ received'[g] = received[g]
    <3>1. connection \in [Flows -> {"new", "open", "reset", "gone"}] /\ g \in Flows
      BY WireShape DEF IInv, Live, Carries
    <3>2. QED
      BY <1>1, <1>2, <1>4, <3>1
  <2>2. PICK segment : segment = [Empty(0) EXCEPT !.syn = TRUE]
    OBVIOUS
  <2>3. Process(f, side, segment)
    BY <1>2, <2>2
  <2>4. QED
    BY <1>1, <1>4, <2>1, <2>3, OthersIntact
<1>5. QED
  BY <1>3, <1>4

\* A segment that is missed ends the claim; what else happens changes no open flow.
LEMMA OtherIntact ==
  ASSUME IInv, Faithful, TrueNow, OrdersNow, IntactNow,
         (\E f \in Flows : Miss(f) \/ GoQuiet(f)) \/ ExpireIdle \/ UNCHANGED vars
  PROVE  IntactNext
<1>1. CASE \E f \in Flows : Miss(f)
  <2>1. misses' = misses + 1
    BY <1>1 DEF Miss
  <2>2. misses' # 0
    BY <2>1 DEF TrueNow
  <2>3. QED
    BY <2>2 DEF IntactNext
<1>2. CASE \E f \in Flows : GoQuiet(f)
  <2>1. PICK f \in Flows : GoQuiet(f)
    BY <1>2
  <2>2. /\ flows' = flows /\ received' = received /\ misses' = misses
        /\ \A g \in Flows : connection'[g] = "open" => connection[g] = "open"
    BY <2>1 DEF GoQuiet, engineVars, IInv, Live
  <2>3. \A g \in DOMAIN Traffic : g \in Flows
    BY WireShape DEF IInv, Carries
  <2>4. QED
    BY <2>2, <2>3 DEF IntactNow, IntactNext
<1>3. CASE UNCHANGED vars
  BY <1>3 DEF vars, engineVars, IntactNow, IntactNext
<1>4. CASE ExpireIdle
  <2>1. /\ received' = received /\ connection' = connection /\ misses' = misses
        /\ "late" \notin Network
    BY <1>4 DEF ExpireIdle, Faithful, KeepsFlows
  <2>2. PICK n \in 1..Len(recency) :
          /\ \A i \in 1..n : connection[recency[i]] \notin {"new", "open"}
          /\ ExpireOldestFlows(n)
    BY <1>4, <2>1 DEF ExpireIdle
  <2>3. PICK order \in Seq(Flows) : order = recency
    BY DEF IInv, TableOK
  <2>4. PICK m \in Nat : m = Len(order)
    BY <2>3
  <2>5. n \in 1..m /\ n \in Nat
    BY <2>2, <2>3, <2>4
  <2>6. PICK expired : expired = SubSeq(order, 1, n)
    OBVIOUS
  <2>7. DOMAIN expired = 1..n /\ \A i \in 1..n : expired[i] = order[i]
    BY <2>4, <2>5, <2>6
  <2>8. flows' = Restrict(flows, DOMAIN flows \ ToSet(expired))
    BY <2>2, <2>3, <2>6 DEF ExpireOldestFlows
  <2>9. \A g \in DOMAIN flows \ ToSet(expired) : flows'[g] = flows[g]
    BY <2>8 DEF Restrict
  <2>10. \A g \in ToSet(expired) : connection[g] # "open"
    BY <2>2, <2>3, <2>7 DEF ToSet
  <2>11. ASSUME NEW g \in DOMAIN Traffic, connection[g] = "open" PROVE flows'[g] = flows[g]
    <3>1. g \in DOMAIN flows
      BY <2>11 DEF OrdersNow, WiresOK, ConnectionOK, Faithful
    <3>2. QED
      BY <2>9, <2>10, <2>11, <3>1
  <2>12. QED
    BY <2>1, <2>11 DEF IntactNow, IntactNext
<1>5. QED
  BY <1>1, <1>2, <1>3, <1>4

\* Every action leaves nothing out.
LEMMA NextIntact ==
  ASSUME IInv, IInv', Faithful, TrueNow, OrdersNow, IntactNow, [Next]_vars
  PROVE  IntactNow'
<1>1. OrdersNext
  <2>1. Orderly
    BY DEF Faithful, Orderly
  <2>2. QED
    BY <2>1, HandshakeOrders, CaptureOrders, MissOrders, FinishOrders, ResetActionOrders,
       OtherOrders DEF Next
<1>2. IntactNext
  BY <1>1, HandshakeIntact, CaptureIntact, FinishIntact, ResetIntact, OtherIntact DEF Next
<1>3. scenario' = scenario
  BY DEF Next, Handshake, Capture, Miss, Finish, Reset, GoQuiet, ExpireIdle, vars
<1>4. Traffic' = Traffic /\ Wire' = Wire /\ Network' = Network
  BY <1>3, SameScenario
<1>5. (OnceOnly' <=> OnceOnly) /\ (Spacious' <=> Spacious)
  BY <1>4 DEF OnceOnly, Spacious
<1>6. QED
  BY <1>2, <1>4, <1>5 DEF IntactNow, IntactNext

\* Initially no connection is open.
LEMMA InitIntact ==
  ASSUME Init, Faithful
  PROVE  IntactNow
<1>1. IInv
  BY InitKeeps
<1>2. \A f \in DOMAIN Traffic : f \in Flows
  BY <1>1, WireShape DEF IInv, Carries
<1>3. \A f \in DOMAIN Traffic : connection[f] # "open"
  BY <1>2 DEF Init, Faithful, KeepsFlows
<1>4. QED
  BY <1>3 DEF IntactNow

\* A direction that keeps all positions of a wire has passed them all.
LEMMA HeldAll ==
  ASSUME NEW U, NEW w, NEW size \in Nat, size = Len(w),
         NEW d \in Directions(U), NEW S, S = 0..size-1,
         Follows(w, d, S), d.next \notin DOMAIN d.pending, Intact(d, S)
  PROVE  At(d) = size
<1>1. At(d) \in 0..size /\ d.next # Unset
  BY DEF Follows
<1>2. d.next \in Int /\ DOMAIN d.pending \subseteq Int
  <2>1. DOMAIN d.pending \subseteq 0..SeqSpace-1
    BY DirectionShape
  <2>2. d.next \in Int
    BY DirectionAssumption DEF Directions, Unset
  <2>3. QED
    BY <2>1, <2>2
<1>3. PICK x \in Nat : x = At(d) /\ x <= size
  BY <1>1
<1>4. d.next = x + 1
  BY <1>2, <1>3 DEF At
<1>5. ASSUME x < size PROVE FALSE
  <2>1. x \in S
    BY <1>5
  <2>2. PICK s \in DOMAIN d.pending : s - 1 <= x
    BY <1>3, <2>1 DEF Intact, Held
  <2>3. x <= s - 1
    BY <1>3 DEF Intact, Apart
  <2>4. s = x + 1
    BY <1>2, <2>2, <2>3
  <2>5. QED
    BY <1>4, <2>4
<1>6. QED
  BY <1>3, <1>5

\* Of a side that has arrived all positions were received.
LEMMA WholeReceived ==
  ASSUME NEW f, NEW side, NEW size \in Nat, size = Len(Wire[f][side]),
         NEW S, S = received[f][side], S \subseteq 0..size-1
  PROVE  Prefix(f, side) = size => S = 0..size-1
<1>1. PICK p : p = Prefix(f, side)
  OBVIOUS
<1>2. FirstMissing(S, size, p)
  BY <1>1, PrefixMissing, ZenonT(60)
<1>3. QED
  BY <1>1, <1>2 DEF FirstMissing

\* When all of both sides was received and shown, the flow has passed it.
LEMMA AllPassed ==
  ASSUME IInv, Faithful, TrueNow, OrdersNow, IntactNow, Seamless \/ Spacious, Shown,
         NEW f \in DOMAIN Traffic, connection[f] = "open",
         \A side \in Sides : Prefix(f, side) = Len(Wire[f][side]),
         NEW flow, flow = flows[f], NEW got, got = received[f]
  PROVE  /\ At(flow.client) = Len(Wire[f].client) /\ ~Stuck(flow.client, got.client)
         /\ At(flow.server) = Len(Wire[f].server)
<1>1. /\ got \in [Sides -> SUBSET Nat] /\ Known(f, flow, parsed, got)
      /\ InStep(f, flow, got, events) /\ Reached(flow, got)
  BY OpenKnown
<1>2. "client" \in Sides /\ "server" \in Sides
  BY DEF Sides
<1>3. PICK n \in Nat, m \in Nat : n = Len(Wire[f].client) /\ m = Len(Wire[f].server)
  BY <1>2, WireSegments
<1>4. got.client \subseteq 0..n-1 /\ got.server \subseteq 0..m-1
  BY <1>1, <1>3 DEF Known, Seen
<1>5. got.client = 0..n-1
  <2>1. PICK side : side = "client"
    OBVIOUS
  <2>2. PICK S : S = received[f][side]
    OBVIOUS
  <2>3. /\ n = Len(Wire[f][side]) /\ S \subseteq 0..n-1 /\ S = got.client
        /\ Prefix(f, side) = n
    BY <1>2, <1>3, <1>4, <2>1, <2>2
  <2>4. S = 0..n-1
    BY <2>2, <2>3, WholeReceived, ZenonT(60)
  <2>5. QED
    BY <2>3, <2>4
<1>6. got.server = 0..m-1
  <2>1. PICK side : side = "server"
    OBVIOUS
  <2>2. PICK S : S = received[f][side]
    OBVIOUS
  <2>3. /\ m = Len(Wire[f][side]) /\ S \subseteq 0..m-1 /\ S = got.server
        /\ Prefix(f, side) = m
    BY <1>2, <1>3, <1>4, <2>1, <2>2
  <2>4. S = 0..m-1
    BY <2>2, <2>3, WholeReceived, ZenonT(60)
  <2>5. QED
    BY <2>3, <2>4
<1>7. /\ Wired(Wire[f].client, flow.client, got.client)
      /\ Wired(Wire[f].server, flow.server, got.server)
      /\ flow.client.next # Unset /\ flow.server.next # Unset
  BY <1>1 DEF Known, Tracks, InStep
<1>8. /\ Follows(Wire[f].client, flow.client, got.client)
      /\ flow.client.next \notin DOMAIN flow.client.pending
      /\ Follows(Wire[f].server, flow.server, got.server)
      /\ flow.server.next \notin DOMAIN flow.server.pending
  BY <1>7 DEF Wired
<1>9. /\ flow.client \in Directions(UnitsOf(Traffic[f].client))
      /\ flow.server \in Directions(UnitsOf(Traffic[f].server))
  BY <1>1 DEF Known, FlowsOf
<1>10. At(flow.client) = n /\ At(flow.server) = m
  <2>1. CASE Seamless
    <3>1. PICK x \in 0..n, y \in 0..m : x = At(flow.client) /\ y = At(flow.server)
      BY <1>3, <1>8 DEF Follows
    <3>2. 0..n-1 = 0..x-1 /\ 0..m-1 = 0..y-1
      BY <1>1, <1>5, <1>6, <2>1, <3>1 DEF Reached
    <3>3. x = n
      <4>1. x < n => x \in 0..n-1 /\ x \notin 0..x-1
        OBVIOUS
      <4>2. QED
        BY <3>2, <4>1
    <3>4. y = m
      <4>1. y < m => y \in 0..m-1 /\ y \notin 0..y-1
        OBVIOUS
      <4>2. QED
        BY <3>2, <4>1
    <3>5. QED
      BY <3>1, <3>3, <3>4
  <2>2. CASE ~Seamless
    <3>1. Spacious /\ OnceOnly /\ misses = 0
      BY <2>2 DEF Faithful, Shown
    <3>2. FlowIntact(flow, got)
      BY <3>1 DEF IntactNow
    <3>3. Intact(flow.client, got.client) /\ Intact(flow.server, got.server)
      BY <3>2 DEF FlowIntact
    <3>4. At(flow.client) = n
      BY <1>3, <1>5, <1>8, <1>9, <3>3, HeldAll
    <3>5. At(flow.server) = m
      BY <1>3, <1>6, <1>8, <1>9, <3>3, HeldAll
    <3>6. QED
      BY <3>4, <3>5
  <2>3. QED
    BY <2>1, <2>2
<1>11. n \notin got.client
  BY <1>5
<1>12. QED
  BY <1>3, <1>10, <1>11 DEF Stuck

\* Of an honest connection only the last response ends with it.
LEMMA UntilEndIsLast ==
  ASSUME NEW f, NEW i \in 1..Len(Traffic[f].server), ResponseHonest(f, i),
         UntilEnd(Traffic[f].server[i], AnswersHead(f, i))
  PROVE  i = Len(Traffic[f].server)
<1>1. PICK response, head : response = Traffic[f].server[i] /\ head = AnswersHead(f, i)
  OBVIOUS
<1>2. ~response.chunked /\ response.length = Unset /\ ~Bodiless(response, head)
  BY <1>1 DEF UntilEnd
<1>3. ~Bodiless(response, FALSE)
  BY <1>2 DEF Bodiless
<1>4. ~Delimited(response, FALSE, head) /\ ~Delimited(response, FALSE, FALSE)
  BY <1>2, <1>3 DEF Delimited
<1>5. QED
  BY <1>1, <1>4 DEF ResponseHonest

\* When all was received and shown, every response that needs no end of its
\* connection is in an event.
LEMMA AllShown ==
  ASSUME IInv, Faithful, TrueNow, OrdersNow, IntactNow, Seamless \/ Spacious
  PROVE  NothingIsMissed
<1> SUFFICES ASSUME Shown, NEW f \in Flows, connection[f] = "open",
                    \A side \in Sides : Prefix(f, side) = Len(Wire[f][side]),
                    NEW i \in 1..Len(Traffic[f].server),
                    Traffic[f].server[i].readable, ~Interim(Traffic[f].server[i].status),
                    ~UntilEnd(Traffic[f].server[i], AnswersHead(f, i))
             PROVE  Told(f, i, events)
  BY DEF NothingIsMissed, Told
<1>1. f \in DOMAIN Traffic
  BY DEF IInv, Live
<1>2. PICK flow, got : flow = flows[f] /\ got = received[f]
  OBVIOUS
<1>3. /\ ~Stuck(flow.client, got.client) /\ At(flow.server) = Len(Wire[f].server)
      /\ InStep(f, flow, got, events)
  BY <1>1, <1>2, AllPassed, OpenKnown
<1>4. \E m, k : k \in 0..Len(Traffic[f].server) /\ TookResponses(f, flow, m, k, events)
  BY <1>3 DEF InStep
<1>5. PICK m, k : k \in 0..Len(Traffic[f].server) /\ TookResponses(f, flow, m, k, events)
  BY <1>4
<1>6. PICK responses : responses = Traffic[f].server
  OBVIOUS
<1>7. responses \in Seq(Messages) /\ Wire[f].server = Units(responses) /\ Honest(f)
  BY <1>1, <1>6, FaithfulIs DEF Carries
<1>8. PICK size \in Nat : size = Len(responses)
  BY <1>7
<1>9. PICK edges : edges = Edges(responses)
  OBVIOUS
<1>10. Layout(responses, Units(responses), edges)
  BY <1>7, <1>9, EdgesAre
<1>11. Rises(edges, size) /\ At(flow.server) = edges[size]
  BY <1>3, <1>7, <1>8, <1>10 DEF Layout
<1>12. \A j \in 0..size : edges[j] \in Nat /\ (j < size => edges[j] < edges[size])
  <2>1. \A j \in 0..size : edges[j] \in Nat
    BY <1>11 DEF Rises
  <2>2. \A a, b \in 0..size : a < b => edges[a] < edges[b]
    BY <1>11, RisesCovers
  <2>3. size \in 0..size
    OBVIOUS
  <2>4. QED
    BY <2>1, <2>2, <2>3
<1>13. k < size => UntilEnd(responses[k + 1], AnswersHead(f, k + 1))
  <2>1. SUFFICES ASSUME k < size, ~UntilEnd(responses[k + 1], AnswersHead(f, k + 1))
                 PROVE  FALSE
    OBVIOUS
  <2>2. PICK p : p = At(flow.server)
    OBVIOUS
  <2>3. AllRead(f, p, k)
    BY <1>5, <2>2 DEF TookResponses
  <2>4. p < edges[k + 1]
    BY <1>6, <1>8, <1>9, <2>1, <2>3 DEF AllRead
  <2>5. k + 1 \in 0..size
    BY <1>5, <1>6, <1>8, <2>1
  <2>6. edges[k + 1] <= edges[size] /\ edges[size] \in Nat /\ edges[k + 1] \in Nat
    <3>1. PICK j \in 0..size : j = k + 1
      BY <2>5
    <3>2. j = size \/ j < size
      OBVIOUS
    <3>3. QED
      BY <1>8, <1>12, <3>1, <3>2
  <2>7. QED
    BY <1>11, <2>2, <2>4, <2>6
<1>14. k < size => k + 1 = size
  <2>1. SUFFICES ASSUME k < size PROVE k + 1 = size
    OBVIOUS
  <2>2. PICK j \in 1..size : j = k + 1
    BY <1>5, <1>6, <1>8, <2>1
  <2>3. ResponseHonest(f, j)
    BY <1>6, <1>7, <1>8 DEF Honest
  <2>4. UntilEnd(Traffic[f].server[j], AnswersHead(f, j))
    BY <1>6, <1>13, <2>1, <2>2
  <2>5. QED
    BY <1>6, <1>8, <2>2, <2>3, <2>4, UntilEndIsLast
<1>15. i \in 1..k
  <2>1. k \in 0..size /\ i \in 1..size
    BY <1>5, <1>6, <1>8
  <2>2. i # k + 1 \/ ~(k < size)
    BY <1>6, <1>13
  <2>3. QED
    BY <1>8, <1>14, <2>1, <2>2
<1>16. QED
  BY <1>5, <1>15 DEF TookResponses

\* Of a connection whose segments are all shown, every final response that the
\* parser accepts, and that needs no end of its connection, is in an event once all
\* has arrived.  It holds in the scenarios in which events are true, as long as what
\* may wait out of order is limited by no less than a side of a connection.
THEOREM NothingMissed ==
  Spec => []((Faithful /\ (Seamless \/ Spacious)) => NothingIsMissed)
<1> DEFINE Inv == IInv /\ (Faithful => OrdersNow /\ TrueNow /\ IntactNow)
<1>1. Faithful => Orderly
  BY DEF Faithful, Orderly
<1>2. Init => Inv
  BY <1>1, InitKeeps, InitOrders, InitTrue, InitIntact
<1>3. Inv /\ [Next]_vars => Inv'
  <2> SUFFICES ASSUME Inv, [Next]_vars PROVE Inv'
    OBVIOUS
  <2>1. IInv'
    BY NextKeeps
  <2>2. scenario' = scenario
    BY DEF Next, Handshake, Capture, Miss, Finish, Reset, GoQuiet, ExpireIdle, vars
  <2>3. Faithful' => Faithful
    BY <2>2, SameScenario
  <2>4. Faithful' => OrdersNow' /\ TrueNow' /\ IntactNow'
    BY <1>1, <2>1, <2>3, NextOrders, NextTrue, NextIntact
  <2>5. QED
    BY <2>1, <2>4
<1>4. Inv => ((Faithful /\ (Seamless \/ Spacious)) => NothingIsMissed)
  BY AllShown
<1>5. QED
  BY <1>2, <1>3, <1>4, PTL DEF Spec
=============================================================================
