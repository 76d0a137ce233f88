---------------------------- MODULE IngestProofs ----------------------------
(***************************************************************************)
(* Proofs about Ingest, for every number of senders, capacity, batch size, *)
(* event, failure and crash.  The inductive invariant IInv adds to the     *)
(* invariants that the runs check where the buffer and the channel must be *)
(* empty, what the open transaction holds, and that a buffer shorter than  *)
(* a batch waits for more.                                                 *)
(*                                                                         *)
(* Then proofs about SniffCommand, which implements Ingest, for every      *)
(* channel, batch, number of requests and mode: with what IInv says of the *)
(* writer, CommandInv is inductive.  The proofs about Ingest use none of   *)
(* the assumptions of SniffCommand, which names two of the senders.        *)
(***************************************************************************)
EXTENDS SniffCommand, SequenceTheorems, TLAPS

\* A stopped or dead writer holds nothing; a writer that is opening the
\* database has read nothing; a writer that is closing has the channel behind
\* it; the open transaction holds the first events of the buffer.
WriterInv ==
  /\ writer \in {"stopped", "dead"} => queue = <<>> /\ buffer = <<>>
  /\ writer = "opening" => buffer = <<>>
  /\ writer = "receiving" => Len(buffer) < BatchSize + streak
  /\ writer = "closing" => queue = <<>> /\ handles = {}
  /\ \A i \in 1..Len(staged) : staged[i] = buffer[i]

IInv ==
  /\ TypeOK
  /\ NoEventUnaccounted
  /\ MemoryBounded
  /\ WriterInv

-----------------------------------------------------------------------------
(* Lemmas about sequences of events.                                       *)

\* The events of a concatenation are those of its parts.
LEMMA EventsInConcat ==
  ASSUME NEW s \in Seq(Nat), NEW t \in Seq(Nat)
  PROVE  EventsIn(s \o t) = EventsIn(s) \union EventsIn(t)
<1>1. /\ Len(s) \in Nat /\ Len(t) \in Nat
      /\ Len(s \o t) = Len(s) + Len(t)
      /\ \A i \in 1..Len(s) + Len(t) :
           (s \o t)[i] = IF i <= Len(s) THEN s[i] ELSE t[i - Len(s)]
  BY ConcatProperties, LenProperties
<1>2. EventsIn(s \o t) \subseteq EventsIn(s) \union EventsIn(t)
  <2>1. SUFFICES ASSUME NEW i \in 1..Len(s) + Len(t)
                 PROVE  (s \o t)[i] \in EventsIn(s) \union EventsIn(t)
    BY <1>1 DEF EventsIn
  <2>2. CASE i <= Len(s)
    <3>1. i \in 1..Len(s)
      BY <1>1, <2>2
    <3>2. QED
      BY <1>1, <2>2, <3>1 DEF EventsIn
  <2>3. CASE ~(i <= Len(s))
    <3>1. i - Len(s) \in 1..Len(t)
      BY <1>1, <2>3
    <3>2. QED
      BY <1>1, <2>3, <3>1 DEF EventsIn
  <2>4. QED
    BY <2>2, <2>3
<1>3. EventsIn(s) \subseteq EventsIn(s \o t)
  <2>1. SUFFICES ASSUME NEW i \in 1..Len(s)
                 PROVE  s[i] \in EventsIn(s \o t)
    BY DEF EventsIn
  <2>2. i \in 1..Len(s) + Len(t) /\ (s \o t)[i] = s[i]
    BY <1>1
  <2>3. QED
    BY <1>1, <2>2 DEF EventsIn
<1>4. EventsIn(t) \subseteq EventsIn(s \o t)
  <2>1. SUFFICES ASSUME NEW i \in 1..Len(t)
                 PROVE  t[i] \in EventsIn(s \o t)
    BY DEF EventsIn
  <2>2. i + Len(s) \in 1..Len(s) + Len(t) /\ (s \o t)[i + Len(s)] = t[i]
    BY <1>1
  <2>3. QED
    BY <1>1, <2>2 DEF EventsIn
<1>5. QED
  BY <1>2, <1>3, <1>4

\* The events of a sequence with one more.
LEMMA EventsInAppend ==
  ASSUME NEW s \in Seq(Nat), NEW e \in Nat
  PROVE  EventsIn(Append(s, e)) = EventsIn(s) \union {e}
<1>1. Append(s, e) = s \o <<e>>
  BY AppendIsConcat
<1>2. <<e>> \in Seq(Nat) /\ EventsIn(<<e>>) = {e}
  BY DEF EventsIn
<1>3. QED
  BY <1>1, <1>2, EventsInConcat

\* The empty sequence holds no event.
LEMMA EventsInEmpty == EventsIn(<<>>) = {}
  BY DEF EventsIn

\* An event later than all the others keeps a sequence increasing.
LEMMA IncreasingAppend ==
  ASSUME NEW s \in Seq(Nat), NEW e \in Nat, Increasing(s),
         \A x \in EventsIn(s) : x < e
  PROVE  Increasing(Append(s, e))
<1>1. /\ Len(s) \in Nat
      /\ Len(Append(s, e)) = Len(s) + 1
      /\ \A i \in 1..Len(s) : Append(s, e)[i] = s[i] /\ s[i] < e
      /\ Append(s, e)[Len(s) + 1] = e
  BY AppendProperties, LenProperties DEF EventsIn
<1>2. SUFFICES ASSUME NEW i \in 1..Len(s) + 1, NEW j \in 1..Len(s) + 1, i < j
               PROVE  Append(s, e)[i] < Append(s, e)[j]
  BY <1>1 DEF Increasing
<1>3. CASE j = Len(s) + 1
  BY <1>1, <1>2, <1>3
<1>4. CASE j \in 1..Len(s)
  BY <1>1, <1>2, <1>4 DEF Increasing
<1>5. QED
  BY <1>1, <1>3, <1>4

\* The first part of an increasing sequence is increasing.
LEMMA IncreasingFront ==
  ASSUME NEW s \in Seq(Nat), NEW t \in Seq(Nat), Increasing(s \o t)
  PROVE  Increasing(s)
<1>1. /\ Len(s) \in Nat /\ Len(t) \in Nat
      /\ Len(s \o t) = Len(s) + Len(t)
      /\ \A i \in 1..Len(s) : i \in 1..Len(s) + Len(t) /\ (s \o t)[i] = s[i]
  BY ConcatProperties, LenProperties
<1>2. SUFFICES ASSUME NEW i \in 1..Len(s), NEW j \in 1..Len(s), i < j
               PROVE  s[i] < s[j]
  BY DEF Increasing
<1>3. (s \o t)[i] < (s \o t)[j]
  BY <1>1, <1>2 DEF Increasing
<1>4. QED
  BY <1>1, <1>3

\* No event of the first part of an increasing sequence is in the second.
LEMMA IncreasingDisjoint ==
  ASSUME NEW s \in Seq(Nat), NEW t \in Seq(Nat), Increasing(s \o t)
  PROVE  EventsIn(s) \intersect EventsIn(t) = {}
<1>1. /\ Len(s) \in Nat /\ Len(t) \in Nat
      /\ Len(s \o t) = Len(s) + Len(t)
      /\ \A i \in 1..Len(s) : i \in 1..Len(s) + Len(t) /\ (s \o t)[i] = s[i]
      /\ \A i \in 1..Len(t) : /\ i + Len(s) \in 1..Len(s) + Len(t)
                              /\ (s \o t)[i + Len(s)] = t[i]
  BY ConcatProperties, LenProperties
<1>2. SUFFICES ASSUME NEW i \in 1..Len(s), NEW j \in 1..Len(t)
               PROVE  s[i] # t[j]
  BY DEF EventsIn
<1>3. (s \o t)[i] < (s \o t)[j + Len(s)]
  <2>1. /\ i \in 1..Len(s \o t) /\ j + Len(s) \in 1..Len(s \o t)
        /\ i < j + Len(s)
    BY <1>1
  <2>2. QED
    BY <2>1 DEF Increasing
<1>4. s[i] \in Nat /\ t[j] \in Nat
  BY ElementOfSeq
<1>5. QED
  BY <1>1, <1>3, <1>4, SMTT(60)

\* Concatenation is associative, for sequences of events.
LEMMA Associative ==
  \A s, t, u \in Seq(Nat) : (s \o t) \o u = s \o (t \o u)
BY ConcatAssociative, SMTT(60)

\* The head of the channel moves to the end of the buffer.
LEMMA MoveHead ==
  ASSUME NEW b \in Seq(Nat), NEW q \in Seq(Nat), q # <<>>
  PROVE  Append(b, Head(q)) \o Tail(q) = b \o q
<1>1. /\ Head(q) \in Nat /\ Tail(q) \in Seq(Nat)
      /\ q = <<Head(q)>> \o Tail(q)
  <2>1. /\ Head(q) \in Nat /\ Tail(q) \in Seq(Nat)
        /\ Len(Tail(q)) = Len(q) - 1 /\ Len(q) \in Nat \ {0}
        /\ \A i \in 1..Len(Tail(q)) : Tail(q)[i] = q[i + 1]
        /\ Head(q) = q[1]
    BY HeadTailProperties, EmptySeq
  <2>2. /\ <<Head(q)>> \in Seq(Nat) /\ Len(<<Head(q)>>) = 1
        /\ <<Head(q)>>[1] = Head(q)
    BY <2>1
  <2>3. /\ <<Head(q)>> \o Tail(q) \in Seq(Nat)
        /\ Len(<<Head(q)>> \o Tail(q)) = Len(q)
        /\ \A i \in 1..Len(q) : (<<Head(q)>> \o Tail(q))[i] =
             IF i <= 1 THEN <<Head(q)>>[i] ELSE Tail(q)[i - 1]
    BY <2>1, <2>2, ConcatProperties
  <2>4. \A i \in 1..Len(q) : (<<Head(q)>> \o Tail(q))[i] = q[i]
    BY <2>1, <2>2, <2>3
  <2>5. QED
    BY <2>1, <2>3, <2>4, SeqEqual
<1>2. Append(b, Head(q)) = b \o <<Head(q)>>
  BY <1>1, AppendIsConcat
<1>3. <<Head(q)>> \in Seq(Nat)
  BY <1>1
<1>4. QED
  BY <1>1, <1>2, <1>3, Associative, SMTT(60)

-----------------------------------------------------------------------------
(* The pipeline as a whole: an event enters at its end or leaves it.       *)

\* NoEventUnaccounted, and the step of every action that keeps the pipeline
\* and the histories.
LEMMA SamePipeline ==
  ASSUME NoEventUnaccounted, Pipeline' = Pipeline,
         UNCHANGED <<produced, refused, forgotten>>
  PROVE  NoEventUnaccounted'
BY DEF NoEventUnaccounted, EventsIn, Increasing

\* The pipeline is a sequence of events, and associative.
LEMMA PipelineParts ==
  ASSUME TypeOK
  PROVE  /\ Pipeline \in Seq(Nat)
         /\ buffer \o queue \in Seq(Nat)
         /\ rows \o buffer \in Seq(Nat)
         /\ Pipeline = rows \o (buffer \o queue)
<1>1. rows \in Seq(Nat) /\ buffer \in Seq(Nat) /\ queue \in Seq(Nat)
  BY DEF TypeOK
<1>2. rows \o buffer \in Seq(Nat) /\ buffer \o queue \in Seq(Nat)
  BY <1>1, ConcatProperties
<1>3. (rows \o buffer) \o queue \in Seq(Nat)
  BY <1>1, <1>2, ConcatProperties
<1>4. (rows \o buffer) \o queue = rows \o (buffer \o queue)
  BY <1>1, Associative, Zenon
<1>5. QED
  BY <1>2, <1>3, <1>4 DEF Pipeline

\* The events of the pipeline are at most produced.
LEMMA PipelineBelow ==
  ASSUME TypeOK, NoEventUnaccounted
  PROVE  /\ \A x \in EventsIn(Pipeline) : x \in Nat /\ x <= produced
         /\ produced + 1 \notin EventsIn(Pipeline) \union refused \union forgotten
BY DEF TypeOK, NoEventUnaccounted

\* What the buffer and the channel hold goes to the forgotten.
LEMMA ForgetWaiting ==
  ASSUME TypeOK, NoEventUnaccounted,
         rows' = rows, buffer' = <<>>, queue' = <<>>,
         forgotten' = forgotten \union EventsIn(buffer) \union EventsIn(queue),
         UNCHANGED <<produced, refused>>
  PROVE  NoEventUnaccounted'
<1> DEFINE held == buffer \o queue
<1>1. /\ rows \in Seq(Nat) /\ held \in Seq(Nat)
      /\ Pipeline = rows \o held
  BY PipelineParts DEF TypeOK
<1>2. EventsIn(held) = EventsIn(buffer) \union EventsIn(queue)
  BY EventsInConcat DEF TypeOK
<1>3. EventsIn(Pipeline) = EventsIn(rows) \union EventsIn(held)
  BY <1>1, EventsInConcat
<1>4. Pipeline' = rows
  <2>1. rows \o <<>> = rows
    BY <1>1, ConcatEmptySeq
  <2>2. QED
    BY <2>1 DEF Pipeline
<1>5. Increasing(rows) /\ EventsIn(rows) \intersect EventsIn(held) = {}
  <2>1. Increasing(rows \o held)
    BY <1>1 DEF NoEventUnaccounted
  <2>2. QED
    BY <1>1, <2>1, IncreasingFront, IncreasingDisjoint
<1>6. EventsIn(Pipeline)' = EventsIn(rows) /\ Increasing(Pipeline)'
  BY <1>4, <1>5 DEF EventsIn, Increasing
<1>7. QED
  <2>1. /\ 1..produced = EventsIn(rows) \union EventsIn(held)
                         \union refused \union forgotten
        /\ (EventsIn(rows) \union EventsIn(held)) \intersect refused = {}
        /\ (EventsIn(rows) \union EventsIn(held)) \intersect forgotten = {}
        /\ refused \intersect forgotten = {}
    BY <1>3 DEF NoEventUnaccounted
  <2>2. forgotten' = forgotten \union EventsIn(held)
    BY <1>2
  <2>3. QED
    BY <2>1, <2>2, <1>5, <1>6 DEF NoEventUnaccounted

-----------------------------------------------------------------------------
(* One lemma per action that moves events.                                 *)

\* A sent event joins the end of the pipeline or the refused.
LEMMA SendAccounted ==
  ASSUME IInv, NEW h \in Handles, SendEvent(h)
  PROVE  NoEventUnaccounted' /\ queue' \in Seq(Nat) /\ Len(queue') <= Capacity
<1> DEFINE e == produced + 1
<1>1. TypeOK /\ NoEventUnaccounted /\ MemoryBounded
  BY DEF IInv
<1>2. e \in Nat /\ produced \in Nat /\ produced' = e
  BY <1>1 DEF TypeOK, SendEvent
<1>3. /\ Pipeline \in Seq(Nat)
      /\ \A x \in EventsIn(Pipeline) : x \in Nat /\ x < e
      /\ e \notin EventsIn(Pipeline) \union refused \union forgotten
  BY <1>1, <1>2, PipelineParts, PipelineBelow
<1>4. 1..e = (1..produced) \union {e}
  BY <1>2
<1>5. CASE HasRoom /\ queue' = Append(queue, e) /\ UNCHANGED refused
  <2>1. Pipeline' = Append(Pipeline, e)
    <3>1. rows \o buffer \in Seq(Nat) /\ queue \in Seq(Nat) /\ <<e>> \in Seq(Nat)
      BY <1>1, <1>2, PipelineParts DEF TypeOK
    <3>2. Pipeline' = (rows \o buffer) \o (queue \o <<e>>)
      BY <1>5, <1>2, <3>1, AppendIsConcat DEF SendEvent, Pipeline
    <3>3. (rows \o buffer) \o (queue \o <<e>>) = ((rows \o buffer) \o queue) \o <<e>>
      BY <3>1, Associative, Zenon
    <3>4. QED
      BY <1>2, <1>3, <3>2, <3>3, AppendIsConcat DEF Pipeline
  <2>2. EventsIn(Pipeline)' = EventsIn(Pipeline) \union {e}
    <3>1. EventsIn(Append(Pipeline, e)) = EventsIn(Pipeline) \union {e}
      BY <1>2, <1>3, EventsInAppend
    <3>2. QED
      BY <2>1, <3>1 DEF EventsIn
  <2>3. Increasing(Pipeline)'
    <3>1. Increasing(Append(Pipeline, e))
      BY <1>1, <1>2, <1>3, IncreasingAppend DEF NoEventUnaccounted
    <3>2. QED
      BY <2>1, <3>1 DEF Increasing
  <2>4. queue' \in Seq(Nat) /\ Len(queue') <= Capacity
    <3>1. Len(queue') = Len(queue) + 1 /\ queue' \in Seq(Nat) /\ Len(queue) \in Nat
      BY <1>1, <1>2, <1>5, AppendProperties, LenProperties DEF TypeOK
    <3>2. QED
      BY <1>5, <3>1, IngestAssumption DEF HasRoom
  <2>5. UNCHANGED forgotten
    BY DEF SendEvent, historyVars
  <2>6. QED
    BY <1>1, <1>2, <1>3, <1>4, <1>5, <2>2, <2>3, <2>4, <2>5 DEF NoEventUnaccounted
<1>6. CASE refused' = refused \union {e} /\ UNCHANGED queue
  <2>1. Pipeline' = Pipeline /\ UNCHANGED forgotten
    BY <1>6 DEF SendEvent, Pipeline, historyVars
  <2>2. EventsIn(Pipeline)' = EventsIn(Pipeline) /\ (Increasing(Pipeline)' <=> Increasing(Pipeline))
    BY <2>1 DEF EventsIn, Increasing
  <2>3. queue' \in Seq(Nat) /\ Len(queue') <= Capacity
    BY <1>1, <1>6 DEF TypeOK, MemoryBounded
  <2>4. QED
    BY <1>1, <1>2, <1>3, <1>4, <1>6, <2>1, <2>2, <2>3 DEF NoEventUnaccounted
<1>7. QED
  BY <1>5, <1>6 DEF SendEvent

\* The head of the channel becomes the last of the buffer.
LEMMA ReceiveAccounted ==
  ASSUME IInv, Receive
  PROVE  /\ NoEventUnaccounted'
         /\ queue' \in Seq(Nat) /\ Len(queue') <= Capacity
         /\ buffer' \in Seq(Nat) /\ Len(buffer') = Len(buffer) + 1
         /\ \A i \in 1..Len(buffer) : buffer'[i] = buffer[i]
         /\ buffer' \o queue' = buffer \o queue
<1>1. /\ TypeOK /\ NoEventUnaccounted /\ MemoryBounded
      /\ queue # <<>> /\ queue \in Seq(Nat) /\ buffer \in Seq(Nat)
      /\ rows \in Seq(Nat)
  BY DEF IInv, TypeOK, Receive
<1>2. /\ Head(queue) \in Nat /\ Tail(queue) \in Seq(Nat)
      /\ Len(Tail(queue)) = Len(queue) - 1 /\ Len(queue) \in Nat
  BY <1>1, HeadTailProperties, LenProperties
<1>3. /\ Append(buffer, Head(queue)) \in Seq(Nat)
      /\ Len(Append(buffer, Head(queue))) = Len(buffer) + 1
      /\ \A i \in 1..Len(buffer) : Append(buffer, Head(queue))[i] = buffer[i]
  BY <1>1, <1>2, AppendProperties
<1>4. Append(buffer, Head(queue)) \o Tail(queue) = buffer \o queue
  BY <1>1, MoveHead
<1>5. /\ queue' = Tail(queue) /\ buffer' = Append(buffer, Head(queue))
      /\ UNCHANGED <<rows, produced, refused, forgotten>>
  BY DEF Receive, callerVars, historyVars
<1>6. Pipeline' = Pipeline
  <2>1. Pipeline = rows \o (buffer \o queue)
    BY <1>1, PipelineParts
  <2>2. rows \o (Append(buffer, Head(queue)) \o Tail(queue))
          = (rows \o Append(buffer, Head(queue))) \o Tail(queue)
    <3>1. /\ rows \in Seq(Nat) /\ Append(buffer, Head(queue)) \in Seq(Nat)
          /\ Tail(queue) \in Seq(Nat)
      BY <1>1, <1>2, <1>3
    <3>2. QED
      BY <3>1, Associative, Zenon
  <2>3. QED
    BY <1>4, <1>5, <2>1, <2>2 DEF Pipeline
<1>7. Len(queue') <= Capacity
  BY <1>1, <1>2, <1>5, IngestAssumption DEF MemoryBounded
<1>8. QED
  BY <1>1, <1>2, <1>3, <1>4, <1>5, <1>6, <1>7, SamePipeline

\* A committed transaction holds exactly the buffer.
LEMMA CommitAccounted ==
  ASSUME IInv, Commit
  PROVE  /\ NoEventUnaccounted'
         /\ rows' = rows \o buffer /\ rows' \in Seq(Nat)
         /\ buffer' = <<>> /\ staged' = <<>>
<1>1. /\ TypeOK /\ NoEventUnaccounted /\ WriterInv
      /\ rows \in Seq(Nat) /\ queue \in Seq(Nat)
      /\ staged \in Seq(Nat) /\ buffer \in Seq(Nat)
  BY DEF IInv, TypeOK
<1>2. staged = buffer
  BY <1>1, SeqEqual DEF Commit, WriterInv
<1>3. /\ rows' = rows \o buffer /\ buffer' = <<>> /\ staged' = <<>>
      /\ UNCHANGED <<queue, produced, refused, forgotten>>
  BY <1>2 DEF Commit, Committed, AfterCommit, callerVars
<1>4. rows \o buffer \in Seq(Nat) /\ (rows \o buffer) \o <<>> = rows \o buffer
  BY <1>1, ConcatProperties, ConcatEmptySeq
<1>5. Pipeline' = Pipeline
  BY <1>3, <1>4 DEF Pipeline
<1>6. QED
  BY <1>1, <1>3, <1>4, <1>5, SamePipeline

-----------------------------------------------------------------------------
(* The invariant.                                                          *)

\* The pipeline starts in the invariant: nothing was sent, nothing is held.
LEMMA InvInit == Init => IInv
<1>1. SUFFICES ASSUME Init PROVE IInv
  OBVIOUS
<1>2. <<>> \in Seq(Nat) /\ Len(<<>>) = 0
  BY EmptySeq
<1>3. TypeOK
  BY <1>1, <1>2 DEF Init, TypeOK, WriterStates
<1>4. Pipeline = <<>>
  <2>1. <<>> \o <<>> = <<>>
    BY <1>2, ConcatEmptySeq
  <2>2. QED
    BY <1>1, <2>1 DEF Init, Pipeline
<1>5. NoEventUnaccounted
  BY <1>1, <1>4 DEF Init, NoEventUnaccounted, EventsIn, Increasing
<1>6. MemoryBounded /\ WriterInv
  BY <1>1, <1>2, IngestAssumption DEF Init, MemoryBounded, WriterInv
<1>7. QED
  BY <1>3, <1>5, <1>6 DEF IInv

\* Every step preserves the invariant.
LEMMA InvStep == IInv /\ [Next]_vars => IInv'
<1> SUFFICES ASSUME IInv, [Next]_vars PROVE IInv'
  OBVIOUS
<1> USE DEF callerVars, historyVars, InFlush
<1>t. /\ TypeOK /\ NoEventUnaccounted /\ MemoryBounded /\ WriterInv
      /\ Len(buffer) \in Nat /\ Len(queue) \in Nat /\ Len(staged) \in Nat
      /\ rows \in Seq(Nat) /\ streak \in Nat /\ failures \in Nat
  BY LenProperties DEF IInv, TypeOK
<1>e. <<>> \in Seq(Nat) /\ Len(<<>>) = 0
  BY EmptySeq
<1>1. ASSUME NEW h \in Handles, CloneSender(h) \/ DropSender(h) PROVE IInv'
  <2>1. Pipeline' = Pipeline
    BY <1>1 DEF CloneSender, DropSender, Pipeline
  <2>2. NoEventUnaccounted'
    BY <1>t, <1>1, <2>1, SamePipeline DEF CloneSender, DropSender
  <2>3. TypeOK' /\ MemoryBounded' /\ WriterInv'
    BY <1>t, <1>1 DEF CloneSender, DropSender, TypeOK, MemoryBounded, WriterInv
  <2>4. QED
    BY <2>2, <2>3 DEF IInv
<1>2. ASSUME NEW h \in Handles, SendEvent(h) PROVE IInv'
  <2>1. NoEventUnaccounted' /\ queue' \in Seq(Nat) /\ Len(queue') <= Capacity
    BY <1>2, SendAccounted
  <2>2. UNCHANGED <<handles, writer, buffer, staged, rows, forgotten,
                    failures, streak, crashes>>
    BY <1>2 DEF SendEvent
  <2>3. TypeOK'
    <3>1. produced' \in Nat
      BY <1>t, <1>2 DEF SendEvent, TypeOK
    <3>2. refused' \in SUBSET Nat
      BY <2>1, <3>1 DEF NoEventUnaccounted
    <3>3. QED
      BY <1>t, <2>1, <2>2, <3>1, <3>2 DEF TypeOK
  <2>4. MemoryBounded'
    BY <1>t, <2>1, <2>2 DEF MemoryBounded
  <2>5. WriterInv'
    <3>1. writer \in {"stopped", "dead"} => queue' = queue
      BY <1>2 DEF SendEvent, Receiving
    <3>2. writer # "closing"
      BY <1>t, <1>2 DEF SendEvent, WriterInv
    <3>3. QED
      BY <1>t, <2>2, <3>1, <3>2 DEF WriterInv
  <2>6. QED
    BY <2>1, <2>3, <2>4, <2>5 DEF IInv
<1>3. ASSUME OpenDatabase \/ ReceiveTimeout \/ Disconnected PROVE IInv'
  <2>1. Pipeline' = Pipeline
    BY <1>3 DEF OpenDatabase, ReceiveTimeout, Disconnected, Pipeline
  <2>2. NoEventUnaccounted'
    BY <1>t, <1>3, <2>1, SamePipeline
       DEF OpenDatabase, ReceiveTimeout, Disconnected
  <2>3. writer' \in WriterStates
    BY <1>3 DEF OpenDatabase, ReceiveTimeout, Disconnected, OnDisconnect,
                WriterStates
  <2>4. TypeOK'
    BY <1>t, <1>3, <2>3 DEF OpenDatabase, ReceiveTimeout, Disconnected, TypeOK
  <2>5. MemoryBounded'
    BY <1>t, <1>3 DEF OpenDatabase, ReceiveTimeout, Disconnected, MemoryBounded
  <2>6. WriterInv'
    BY <1>t, <1>e, <1>3, IngestAssumption
       DEF OpenDatabase, ReceiveTimeout, Disconnected, OnDisconnect, WriterInv
  <2>7. QED
    BY <2>2, <2>4, <2>5, <2>6 DEF IInv
<1>4. ASSUME OpenFails \/ Crash PROVE IInv'
  <2>1. /\ rows' = rows /\ buffer' = <<>> /\ queue' = <<>> /\ staged' = <<>>
        /\ forgotten' = forgotten \union EventsIn(buffer) \union EventsIn(queue)
        /\ crashes' = crashes + 1 /\ writer' \in {"stopped", "dead"}
        /\ UNCHANGED <<produced, refused, failures, streak>>
        /\ handles' \in {handles, {}}
    BY <1>t, <1>4, EventsInEmpty DEF OpenFails, Crash, WriterInv, TypeOK
  <2>2. NoEventUnaccounted'
    BY <1>t, <2>1, ForgetWaiting
  <2>3. forgotten' \in SUBSET Nat
    BY <1>t, <2>1, <2>2 DEF TypeOK, NoEventUnaccounted
  <2>4. TypeOK'
    BY <1>t, <1>e, <2>1, <2>3 DEF TypeOK, WriterStates
  <2>5. MemoryBounded' /\ WriterInv'
    BY <1>t, <1>e, <2>1, IngestAssumption DEF MemoryBounded, WriterInv
  <2>6. QED
    BY <2>2, <2>4, <2>5 DEF IInv
<1>5. ASSUME Receive PROVE IInv'
  <2>1. /\ NoEventUnaccounted'
        /\ queue' \in Seq(Nat) /\ Len(queue') <= Capacity
        /\ buffer' \in Seq(Nat) /\ Len(buffer') = Len(buffer) + 1
        /\ \A i \in 1..Len(buffer) : buffer'[i] = buffer[i]
    BY <1>5, ReceiveAccounted
  <2>2. /\ writer = "receiving" /\ writer' \in {"flushing", "receiving"}
        /\ writer' = "receiving" => Len(buffer) + 1 < BatchSize
        /\ staged = <<>>
        /\ UNCHANGED <<produced, handles, refused, staged, rows, forgotten,
                       failures, streak, crashes>>
    BY <1>t, <1>5, IngestAssumption DEF Receive, BatchDue, TypeOK
  <2>3. TypeOK'
    BY <1>t, <1>e, <2>1, <2>2 DEF TypeOK, WriterStates
  <2>4. MemoryBounded' /\ WriterInv'
    BY <1>t, <1>e, <2>1, <2>2, IngestAssumption DEF MemoryBounded, WriterInv
  <2>5. QED
    BY <2>1, <2>3, <2>4 DEF IInv
<1>6. ASSUME InsertRow PROVE IInv'
  <2>1. /\ UNCHANGED <<produced, handles, refused, queue, writer, buffer, rows,
                       forgotten, failures, streak, crashes>>
        /\ staged' = Append(staged, buffer[Len(staged) + 1])
        /\ Len(staged) + 1 \in 1..Len(buffer) /\ InFlush
    BY <1>t, <1>6 DEF InsertRow
  <2>2. /\ staged' \in Seq(Nat) /\ Len(staged') = Len(staged) + 1
        /\ \A i \in 1..Len(staged) : staged'[i] = staged[i]
        /\ staged'[Len(staged) + 1] = buffer[Len(staged) + 1]
    <3>1. buffer[Len(staged) + 1] \in Nat /\ staged \in Seq(Nat)
      BY <1>t, <2>1, ElementOfSeq DEF TypeOK
    <3>2. QED
      BY <2>1, <3>1, AppendProperties
  <2>3. Pipeline' = Pipeline
    BY <2>1 DEF Pipeline
  <2>4. NoEventUnaccounted'
    BY <1>t, <2>1, <2>3, SamePipeline
  <2>5. TypeOK'
    BY <1>t, <2>1, <2>2, SMTT(60) DEF TypeOK
  <2>6. MemoryBounded' /\ WriterInv'
    BY <1>t, <2>1, <2>2 DEF MemoryBounded, WriterInv
  <2>7. QED
    BY <2>4, <2>5, <2>6 DEF IInv
<1>7. ASSUME Commit PROVE IInv'
  <2>1. /\ NoEventUnaccounted' /\ rows' \in Seq(Nat)
        /\ buffer' = <<>> /\ staged' = <<>>
    BY <1>7, CommitAccounted
  <2>2. /\ UNCHANGED <<produced, handles, refused, queue, forgotten, failures,
                       crashes>>
        /\ streak' = 0
        /\ writer' = IF writer = "closing" THEN "stopped" ELSE "receiving"
    BY <1>7 DEF Commit
  <2>3. TypeOK'
    BY <1>t, <1>e, <2>1, <2>2 DEF TypeOK, WriterStates
  <2>4. MemoryBounded' /\ WriterInv'
    BY <1>t, <1>e, <2>1, <2>2, IngestAssumption DEF MemoryBounded, WriterInv
  <2>5. QED
    BY <2>1, <2>3, <2>4 DEF IInv
<1>8. ASSUME FlushFails PROVE IInv'
  <2>1. /\ UNCHANGED <<produced, handles, refused, queue, rows, crashes>>
        /\ failures' = failures + 1 /\ streak' = streak + 1 /\ staged' = <<>>
    BY <1>8 DEF FlushFails, NoTransaction, AfterRollback
  <2>2. CASE writer = "closing"
    <3>1. /\ writer' = "stopped" /\ buffer' = <<>> /\ queue = <<>>
          /\ forgotten' = forgotten \union EventsIn(buffer)
      BY <1>t, <1>8, <2>2 DEF FlushFails, WriterInv
    <3>2. forgotten' = forgotten \union EventsIn(buffer) \union EventsIn(queue)
      BY <3>1, EventsInEmpty
    <3>3. NoEventUnaccounted'
      BY <1>t, <2>1, <3>1, <3>2, ForgetWaiting
    <3>4. forgotten' \in SUBSET Nat
      BY <1>t, <2>1, <3>3 DEF TypeOK, NoEventUnaccounted
    <3>5. TypeOK'
      BY <1>t, <1>e, <2>1, <3>1, <3>4 DEF TypeOK, WriterStates
    <3>6. MemoryBounded' /\ WriterInv'
      BY <1>t, <1>e, <2>1, <3>1, IngestAssumption DEF MemoryBounded, WriterInv
    <3>7. QED
      BY <3>3, <3>5, <3>6 DEF IInv
  <2>3. CASE writer = "flushing"
    <3>1. writer' = "receiving" /\ buffer' = buffer /\ forgotten' = forgotten
      BY <1>8, <2>3 DEF FlushFails, AfterFailure
    <3>2. Pipeline' = Pipeline
      BY <2>1, <3>1 DEF Pipeline
    <3>3. NoEventUnaccounted'
      BY <1>t, <2>1, <3>1, <3>2, SamePipeline
    <3>4. TypeOK'
      BY <1>t, <1>e, <2>1, <3>1 DEF TypeOK, WriterStates
    <3>5. MemoryBounded' /\ WriterInv'
      BY <1>t, <1>e, <2>1, <3>1, IngestAssumption DEF MemoryBounded, WriterInv
    <3>6. QED
      BY <3>3, <3>4, <3>5 DEF IInv
  <2>4. QED
    BY <1>8, <2>2, <2>3 DEF FlushFails
<1>9. ASSUME Restart PROVE IInv'
  <2>1. /\ UNCHANGED <<produced, refused, queue, buffer, staged, rows, forgotten,
                       failures, crashes>>
        /\ writer \in {"stopped", "dead"} /\ writer' = "opening" /\ streak' = 0
        /\ handles' \in SUBSET Handles
    BY <1>9 DEF Restart
  <2>2. Pipeline' = Pipeline
    BY <2>1 DEF Pipeline
  <2>3. NoEventUnaccounted'
    BY <1>t, <2>1, <2>2, SamePipeline
  <2>4. TypeOK' /\ MemoryBounded' /\ WriterInv'
    BY <1>t, <1>e, <2>1, IngestAssumption
       DEF TypeOK, WriterStates, MemoryBounded, WriterInv
  <2>5. QED
    BY <2>3, <2>4 DEF IInv
<1>10. CASE UNCHANGED vars
  <2>1. Pipeline' = Pipeline
    BY <1>10 DEF vars, Pipeline
  <2>2. NoEventUnaccounted'
    BY <1>t, <1>10, <2>1, SamePipeline DEF vars
  <2>3. TypeOK' /\ MemoryBounded' /\ WriterInv'
    BY <1>t, <1>10 DEF vars, TypeOK, MemoryBounded, WriterInv
  <2>4. QED
    BY <2>2, <2>3 DEF IInv
<1>11. QED
  BY <1>1, <1>2, <1>3, <1>4, <1>5, <1>6, <1>7, <1>8, <1>9, <1>10
     DEF Next, WriterStep, Flush

\* The inductive invariant holds throughout, for every value of the constants.
THEOREM Invariant == Spec => []IInv
<1>1. Init => IInv
  BY InvInit
<1>2. IInv /\ [Next]_vars => IInv'
  BY InvStep
<1>3. QED
  BY <1>1, <1>2, PTL DEF Spec

-----------------------------------------------------------------------------
(* The properties the runs check.                                          *)

\* Type correctness of the ingest pipeline.
THEOREM TypeCorrect == Spec => []TypeOK
<1>1. IInv => TypeOK
  BY DEF IInv
<1>2. QED
  BY <1>1, Invariant, PTL

\* Every call of send_event is accounted for, once.
THEOREM Accounting == Spec => []NoEventUnaccounted
<1>1. IInv => NoEventUnaccounted
  BY DEF IInv
<1>2. QED
  BY <1>1, Invariant, PTL

\* The table holds every event at most once and in the order of the calls.
THEOREM OnceInOrder == Spec => []StoredOnceInOrder
<1>1. IInv => StoredOnceInOrder
  <2>1. SUFFICES ASSUME IInv PROVE Increasing(rows)
    BY DEF StoredOnceInOrder
  <2>2. rows \in Seq(Nat) /\ buffer \o queue \in Seq(Nat)
    BY <2>1, PipelineParts DEF IInv, TypeOK
  <2>3. Increasing(rows \o (buffer \o queue))
    BY <2>1, PipelineParts DEF IInv, NoEventUnaccounted
  <2>4. QED
    BY <2>2, <2>3, IncreasingFront
<1>2. QED
  BY <1>1, Invariant, PTL

\* The channel and the buffer are bounded, but for failed flushes.
THEOREM Memory == Spec => []MemoryBounded
<1>1. IInv => MemoryBounded
  BY DEF IInv
<1>2. QED
  BY <1>1, Invariant, PTL

\* The table only ever grows by a whole buffer, which is then empty.
THEOREM Batches == Spec => WholeBatches
<1>1. IInv /\ [Next]_vars
        => (rows' # rows => rows' = rows \o buffer /\ buffer' = <<>>)
  <2>1. SUFFICES ASSUME IInv, [Next]_vars, rows' # rows
                 PROVE  rows' = rows \o buffer /\ buffer' = <<>>
    OBVIOUS
  <2>2. Commit
    BY <2>1 DEF vars, Next, WriterStep, Flush, CloneSender, DropSender, SendEvent,
                OpenDatabase, OpenFails, Receive, ReceiveTimeout, Disconnected,
                InsertRow, FlushFails, AfterRollback, Crash, Restart
  <2>3. QED
    BY <2>1, <2>2, CommitAccounted
<1>2. QED
  BY <1>1, Invariant, PTL DEF Spec, WholeBatches

\* A writer that stops of its own accord, with no failed flush outstanding,
\* leaves every accepted event in the table.
THEOREM CleanStop == Spec => CleanStopStoresAll
<1>1. IInv /\ IInv' /\ [Next]_vars
        => (/\ writer # "stopped" /\ writer' = "stopped"
            /\ streak' = 0 /\ crashes' = crashes
            => EventsIn(rows') \union refused' \union forgotten = 1..produced')
  <2>1. SUFFICES ASSUME IInv, IInv', [Next]_vars,
                        writer # "stopped", writer' = "stopped",
                        streak' = 0, crashes' = crashes
                 PROVE  EventsIn(rows') \union refused' \union forgotten
                          = 1..produced'
    OBVIOUS
  <2>2. streak \in Nat /\ crashes \in Nat
    BY <2>1 DEF IInv, TypeOK
  <2>3. Commit \/ Disconnected
    BY <2>1, <2>2
       DEF vars, Next, WriterStep, Flush, CloneSender, DropSender, SendEvent,
           OpenDatabase, OpenFails, Receive, ReceiveTimeout, Disconnected,
           InsertRow, FlushFails, Crash, Restart
  <2>4. forgotten' = forgotten
    BY <2>3 DEF Commit, Disconnected, historyVars
  <2>5. Pipeline' = rows'
    <3>1. rows' \in Seq(Nat) /\ queue' = <<>> /\ buffer' = <<>>
      BY <2>1 DEF IInv, TypeOK, WriterInv
    <3>2. rows' \o <<>> = rows'
      BY <3>1, ConcatEmptySeq
    <3>3. QED
      BY <3>1, <3>2 DEF Pipeline
  <2>6. EventsIn(Pipeline)' = EventsIn(rows')
    BY <2>5 DEF EventsIn
  <2>7. QED
    BY <2>1, <2>4, <2>6 DEF IInv, NoEventUnaccounted
<1>2. QED
  BY <1>1, Invariant, PTL DEF Spec, CleanStopStoresAll

-----------------------------------------------------------------------------
(* The pipeline implements the log.                                        *)

\* The events waiting in the log are those of the buffer, then of the channel.
Waiting == buffer \o queue

\* Part of a sequence.
LEMMA PartOf ==
  ASSUME NEW u \in Seq(Nat), NEW m \in 1..Len(u) + 1, NEW n \in 0..Len(u),
         m <= n + 1
  PROVE  /\ SubSeq(u, m, n) \in Seq(Nat)
         /\ Len(SubSeq(u, m, n)) = n - m + 1
         /\ \A i \in 1..n - m + 1 : SubSeq(u, m, n)[i] = u[m + i - 1]
<1>1. Len(u) \in Nat
  BY LenProperties
<1>2. m \in Int /\ n \in Int /\ m..n \subseteq 1..Len(u)
  BY <1>1
<1>3. \A i \in m..n : u[i] \in Nat
  BY <1>2, ElementOfSeq
<1>4. /\ SubSeq(u, m, n) \in Seq(Nat)
      /\ Len(SubSeq(u, m, n)) = IF m <= n THEN n - m + 1 ELSE 0
      /\ \A i \in 1..n - m + 1 : SubSeq(u, m, n)[i] = u[m + i - 1]
  BY <1>2, <1>3, SubSeqProperties
<1>5. QED
  BY <1>2, <1>4, SMTT(60)

\* The front and the back of a concatenation.
LEMMA ConcatParts ==
  ASSUME NEW s \in Seq(Nat), NEW t \in Seq(Nat)
  PROVE  /\ SubSeq(s \o t, 1, Len(s)) = s
         /\ SubSeq(s \o t, Len(s) + 1, Len(s \o t)) = t
<1> DEFINE u == s \o t
           front == SubSeq(u, 1, Len(s))
           back == SubSeq(u, Len(s) + 1, Len(u))
<1>1. /\ Len(s) \in Nat /\ Len(t) \in Nat
      /\ u \in Seq(Nat) /\ Len(u) = Len(s) + Len(t)
      /\ \A i \in 1..Len(s) : u[i] = s[i]
      /\ \A i \in 1..Len(t) : u[Len(s) + i] = t[i]
  BY ConcatProperties, LenProperties
<1> HIDE DEF u
<1>2. front = s
  <2>1. /\ 1 \in 1..Len(u) + 1 /\ Len(s) \in 0..Len(u) /\ 1 <= Len(s) + 1
        /\ Len(s) - 1 + 1 = Len(s)
    BY <1>1
  <2>2. /\ front \in Seq(Nat) /\ Len(front) = Len(s)
        /\ \A i \in 1..Len(s) : front[i] = u[1 + i - 1]
    BY <1>1, <2>1, PartOf
  <2>3. \A i \in 1..Len(s) : front[i] = s[i]
    BY <1>1, <2>2
  <2>4. QED
    BY <2>2, <2>3, SeqEqual
<1>3. back = t
  <2>1. /\ Len(s) + 1 \in 1..Len(u) + 1 /\ Len(u) \in 0..Len(u)
        /\ Len(s) + 1 <= Len(u) + 1
        /\ Len(u) - (Len(s) + 1) + 1 = Len(t)
    BY <1>1
  <2>2. /\ back \in Seq(Nat) /\ Len(back) = Len(t)
        /\ \A i \in 1..Len(t) : back[i] = u[Len(s) + 1 + i - 1]
    BY <1>1, <2>1, PartOf, ZenonT(60)
  <2>3. \A i \in 1..Len(t) : back[i] = t[i]
    BY <1>1, <2>2
  <2>4. QED
    BY <2>2, <2>3, SeqEqual
<1>4. QED
  BY <1>2, <1>3 DEF u

\* What is forgotten at once is everything that waits.
LEMMA ForgetsAll ==
  ASSUME TypeOK, rows' = rows, buffer' = <<>>, queue' = <<>>,
         forgotten' = forgotten \union EventsIn(buffer) \union EventsIn(queue),
         UNCHANGED <<produced, refused>>
  PROVE  [Log!Next]_Log!logVars
<1>1. Waiting \in Seq(Nat)
      /\ EventsIn(Waiting) = EventsIn(buffer) \union EventsIn(queue)
  BY PipelineParts, EventsInConcat DEF TypeOK, Waiting
<1>2. Waiting' = <<>>
  BY ConcatEmptySeq, EmptySeq DEF Waiting
<1>3. CASE Waiting = <<>>
  <2>1. forgotten' = forgotten
    BY <1>1, <1>3, EventsInEmpty
  <2>2. QED
    BY <1>2, <1>3, <2>1 DEF Log!logVars, Waiting
<1>4. CASE Waiting # <<>>
  <2>1. Log!Forget
    BY <1>1, <1>2, <1>4 DEF Log!Forget, Waiting, EventsIn
  <2>2. QED
    BY <2>1 DEF Log!Next
<1>5. QED
  BY <1>3, <1>4

\* A step of the pipeline is a step of the log or leaves it as it was.
LEMMA LogStep == IInv /\ [Next]_vars => [Log!Next]_Log!logVars
<1> SUFFICES ASSUME IInv, [Next]_vars PROVE [Log!Next]_Log!logVars
  OBVIOUS
<1> USE DEF callerVars, historyVars
<1>t. /\ TypeOK /\ NoEventUnaccounted /\ WriterInv
      /\ produced \in Nat /\ queue \in Seq(Nat) /\ buffer \in Seq(Nat)
      /\ rows \in Seq(Nat) /\ staged \in Seq(Nat)
      /\ Len(buffer) \in Nat /\ Len(queue) \in Nat
  BY LenProperties DEF IInv, TypeOK
<1>1. ASSUME UNCHANGED <<produced, rows, refused, forgotten>>, Waiting' = Waiting
      PROVE  [Log!Next]_Log!logVars
  BY <1>1 DEF Log!logVars, Waiting
<1>2. ASSUME NEW h \in Handles, SendEvent(h) PROVE [Log!Next]_Log!logVars
  <2>1. CASE queue' = Append(queue, produced + 1) /\ UNCHANGED refused
    <3>1. /\ produced + 1 \in Nat /\ <<produced + 1>> \in Seq(Nat)
          /\ buffer \o queue \in Seq(Nat)
      BY <1>t, PipelineParts
    <3>2. buffer \o Append(queue, produced + 1) = Append(buffer \o queue, produced + 1)
      <4>1. buffer \o (queue \o <<produced + 1>>) = (buffer \o queue) \o <<produced + 1>>
        BY <1>t, <3>1, Associative, ZenonT(60)
      <4>2. QED
        BY <1>t, <3>1, <4>1, AppendIsConcat
    <3>3. Log!Accept
      BY <1>2, <2>1, <3>2 DEF SendEvent, Log!Accept
    <3>4. QED
      BY <3>3 DEF Log!Next
  <2>2. CASE refused' = refused \union {produced + 1} /\ UNCHANGED queue
    <3>1. Log!Refuse
      BY <1>2, <2>2 DEF SendEvent, Log!Refuse
    <3>2. QED
      BY <3>1 DEF Log!Next
  <2>3. QED
    BY <1>2, <2>1, <2>2 DEF SendEvent
<1>3. ASSUME Receive PROVE [Log!Next]_Log!logVars
  <2>1. Waiting' = Waiting
    BY <1>t, <1>3, MoveHead DEF Receive, Waiting
  <2>2. QED
    BY <1>1, <1>3, <2>1 DEF Receive
<1>4. ASSUME Commit PROVE [Log!Next]_Log!logVars
  <2>1. /\ rows' = rows \o buffer /\ buffer' = <<>>
        /\ UNCHANGED <<queue, produced, refused, forgotten>>
    BY <1>4, CommitAccounted DEF Commit
  <2>2. Waiting' = queue
    BY <1>t, <2>1, ConcatEmptySeq DEF Waiting
  <2>3. CASE buffer = <<>>
    <3>1. rows' = rows /\ Waiting' = Waiting
      BY <1>t, <2>1, <2>3, ConcatEmptySeq DEF Waiting
    <3>2. QED
      BY <1>1, <2>1, <3>1
  <2>4. CASE buffer # <<>>
    <3>1. Len(buffer) \in 1..Len(Waiting)
      <4>1. Len(Waiting) = Len(buffer) + Len(queue)
        BY <1>t, ConcatProperties DEF Waiting
      <4>2. Len(buffer) # 0
        BY <1>t, <2>4, EmptySeq
      <4>3. QED
        BY <1>t, <4>1, <4>2
    <3>2. /\ SubSeq(Waiting, 1, Len(buffer)) = buffer
          /\ SubSeq(Waiting, Len(buffer) + 1, Len(Waiting)) = queue
      BY <1>t, ConcatParts DEF Waiting
    <3>3. Log!Persist(Len(buffer))
      BY <2>1, <2>2, <3>2 DEF Log!Persist, Waiting
    <3>4. QED
      BY <3>1, <3>3 DEF Log!Next, Waiting
  <2>5. QED
    BY <2>3, <2>4
<1>5. ASSUME OpenFails \/ Crash PROVE [Log!Next]_Log!logVars
  <2>1. /\ rows' = rows /\ buffer' = <<>> /\ queue' = <<>>
        /\ forgotten' = forgotten \union EventsIn(buffer) \union EventsIn(queue)
        /\ UNCHANGED <<produced, refused>>
    BY <1>t, <1>5, EventsInEmpty DEF OpenFails, Crash, WriterInv
  <2>2. QED
    BY <1>t, <2>1, ForgetsAll
<1>6. ASSUME FlushFails PROVE [Log!Next]_Log!logVars
  <2>1. CASE writer = "closing"
    <3>1. /\ rows' = rows /\ buffer' = <<>> /\ queue' = <<>>
          /\ forgotten' = forgotten \union EventsIn(buffer) \union EventsIn(queue)
          /\ UNCHANGED <<produced, refused>>
      BY <1>t, <1>6, <2>1, EventsInEmpty DEF FlushFails, AfterRollback, WriterInv
    <3>2. QED
      BY <1>t, <3>1, ForgetsAll
  <2>2. CASE writer = "flushing"
    BY <1>1, <1>6, <2>2 DEF FlushFails, AfterRollback, AfterFailure, Waiting
  <2>3. QED
    BY <1>6, <2>1, <2>2 DEF FlushFails
<1>7. ASSUME \/ \E h \in Handles : CloneSender(h) \/ DropSender(h)
             \/ OpenDatabase \/ ReceiveTimeout \/ Disconnected \/ InsertRow
             \/ Restart \/ UNCHANGED vars
      PROVE  [Log!Next]_Log!logVars
  BY <1>1, <1>7 DEF CloneSender, DropSender, OpenDatabase, ReceiveTimeout,
                    Disconnected, InsertRow, Restart, vars, Waiting
<1>8. QED
  BY <1>2, <1>3, <1>4, <1>5, <1>6, <1>7 DEF Next, WriterStep, Flush

\* The pipeline is an at-most-once, lossy, append-only log.
THEOREM Refinement == Spec => ImplementsEventLog
<1>1. Init => Log!Init
  <2>1. <<>> \o <<>> = <<>>
    BY EmptySeq, ConcatEmptySeq
  <2>2. QED
    BY <2>1 DEF Init, Log!Init
<1>2. IInv /\ [Next]_vars => [Log!Next]_Log!logVars
  BY LogStep
<1>3. QED
  BY <1>1, <1>2, Invariant, PTL DEF Spec, ImplementsEventLog, Log!Spec

-----------------------------------------------------------------------------
(* The command: the parts of its invariant.                                *)

\* The capture thread begins once, holds events only while it reports, and has
\* a result when it is gone.
ThreadInv ==
  /\ main = "starting" => sniffer = "unborn"
  /\ sniffer = "finished" <=> result # "none"
  /\ inHand > 0 => Reporting

\* A segment is asked for only while the flag is set, and the flag stays cleared.
LateInv ==
  /\ late > 0 => ~running
  /\ sniffer = "receiving" => late = 0

\* main returns Ok only behind the writer; a process in which nothing died
\* forgets no more than the last flush, if that fails.
EndInv ==
  /\ main = "returning" => verdict = "error"
  /\ main = "ended" /\ verdict = "ok" => writer = "stopped"
  /\ crashes = 0 /\ forgotten # {} => writer = "stopped" /\ streak > 0

CommandInv ==
  /\ CommandTypeOK
  /\ RequestsReported
  /\ CaptureStops
  /\ ThreadInv
  /\ LateInv
  /\ EndInv

-----------------------------------------------------------------------------
(* The command implements the pipeline: what is proved of Ingest holds in  *)
(* the process of `reqlens sniff`.                                         *)

\* What one step of the command does to the pipeline.
LEMMA StepOfIngest == [CommandNext]_allVars => [Next]_vars
<1> SUFFICES ASSUME [CommandNext]_allVars PROVE [Next]_vars
  OBVIOUS
<1>h. "main" \in Handles /\ "sniffer" \in Handles
  BY SniffCommandAssumption
<1>1. CASE SnifferStep
  <2>1. CASE OpenSocketFails \/ StopCapturing \/ ReceiveFails \/ SnifferPanics
    BY <1>h, <2>1 DEF OpenSocketFails, StopCapturing, ReceiveFails, SnifferPanics,
                      Finishes, Leaves, Next
  <2>2. CASE Report
    BY <1>h, <2>2 DEF Report, Next
  <2>3. CASE \/ OpenSocket \/ KeepCapturing \/ ReceiveNothing \/ ProcessSegment
             \/ ExpireIdle \/ TurnEnds \/ ReportEnds
    BY <2>3 DEF OpenSocket, KeepCapturing, ReceiveNothing, ProcessSegment,
                ExpireIdle, TurnEnds, ReportEnds
  <2>4. QED
    BY <1>1, <2>1, <2>2, <2>3 DEF SnifferStep
<1>2. CASE MainStep
  <2>1. CASE StartCapture
    BY <1>h, <2>1 DEF StartCapture, Next
  <2>2. CASE RegisterFails \/ CaptureEnds \/ StartupFails \/ JoinSniffer
    <3>1. DropSender("main")
      BY <2>2 DEF RegisterFails, CaptureEnds, StartupFails, JoinSniffer,
                  GoesToJoin, ReturnsError, DropsSender, Leaves
    <3>2. QED
      BY <1>h, <3>1 DEF Next
  <2>3. CASE OpenDashboard \/ JoinWriter
    BY <2>3 DEF OpenDashboard, JoinWriter
  <2>4. CASE ProcessEnds
    BY <2>4 DEF ProcessEnds, Next
  <2>5. QED
    BY <1>2, <2>1, <2>2, <2>3, <2>4 DEF MainStep
<1>3. CASE Write
  BY <1>3 DEF Write, Next
<1>4. CASE LeaveDashboard \/ Signal
  BY <1>4 DEF LeaveDashboard, Signal
<1>5. CASE Killed
  BY <1>5 DEF Killed, Next
<1>6. CASE UNCHANGED allVars
  BY <1>6 DEF allVars
<1>7. QED
  BY <1>1, <1>2, <1>3, <1>4, <1>5, <1>6 DEF CommandNext

\* Every behaviour of the command is one of the pipeline: the order in which main
\* and the capture take, use and drop their senders is one Ingest allows.
THEOREM CommandImplementsIngest == CommandSpec => ImplementsIngest
<1>1. CommandInit => Init
  BY DEF CommandInit
<1>2. [CommandNext]_allVars => [Next]_vars
  BY StepOfIngest
<1>3. QED
  BY <1>1, <1>2, PTL DEF CommandSpec, ImplementsIngest, Spec

\* So what is proved of the pipeline holds in the process of `reqlens sniff`.
LEMMA PipelineOfCommand == CommandSpec => []IInv
BY CommandImplementsIngest, Invariant, PTL DEF ImplementsIngest

\* In particular its events are stored at most once and in the order in which
\* the capture reported them,
THEOREM CommandStores == CommandSpec => []StoredOnceInOrder
BY CommandImplementsIngest, OnceInOrder, PTL DEF ImplementsIngest

\* and each of them is in the table, in memory, refused or forgotten.
THEOREM CommandAccounts == CommandSpec => []NoEventUnaccounted
BY CommandImplementsIngest, Accounting, PTL DEF ImplementsIngest

-----------------------------------------------------------------------------
(* The invariant of the command.                                           *)

LEMMA CommandInvInit == CommandInit /\ IInv => CommandInv
BY SniffCommandAssumption
   DEF CommandInit, IInv, CommandInv, CommandTypeOK, MainStates, SnifferStates,
       RequestsReported, CaptureStops, ThreadInv, LateInv, EndInv, Init

\* A step that leaves the threads of the command alone.
LEMMA WriteInv ==
  ASSUME CommandInv, IInv, IInv', Write
  PROVE  CommandInv'
<1>1. /\ WriterStep /\ UNCHANGED commandVars /\ main # "ended"
      /\ UNCHANGED <<produced, handles, refused>>
  BY DEF Write, Alive, WriterStep, OpenDatabase, OpenFails, Receive, ReceiveTimeout,
         Disconnected, Flush, InsertRow, Commit, FlushFails, callerVars
<1>2. TypeOK /\ TypeOK' /\ crashes \in Nat /\ streak \in Nat
  BY DEF IInv, TypeOK
<1>3. CommandTypeOK' /\ RequestsReported' /\ CaptureStops' /\ ThreadInv' /\ LateInv'
  BY <1>1, <1>2 DEF commandVars, mainVars, snifferVars, CommandInv, CommandTypeOK,
                    RequestsReported, CaptureStops, ThreadInv, LateInv, Reporting
<1>4. EndInv'
  <2>1. crashes' = 0 /\ forgotten' # {} => writer' = "stopped" /\ streak' > 0
    BY <1>1, <1>2
       DEF CommandInv, EndInv, WriterStep, OpenDatabase, OpenFails, Receive,
           ReceiveTimeout, Disconnected, Flush, InsertRow, Commit, FlushFails,
           InFlush, historyVars
  <2>2. QED
    BY <1>1, <2>1 DEF commandVars, mainVars, CommandInv, EndInv
<1>5. QED
  BY <1>3, <1>4 DEF CommandInv

\* A step of the capture leaves main and the writer's side of the pipeline alone.
LEMMA SnifferStepInv ==
  ASSUME CommandInv, IInv, IInv', SnifferStep
  PROVE  CommandInv'
<1> USE DEF Moves, mainVars
<1>t. /\ TypeOK /\ TypeOK' /\ CommandTypeOK /\ MaxRequests \in Nat
      /\ produced \in Nat /\ waiting \in Nat /\ inHand \in Nat /\ observed \in Nat
      /\ waiting <= MaxRequests /\ inHand <= MaxRequests /\ observed <= MaxRequests
      /\ late \in Nat /\ late <= 1 /\ mode \in Modes /\ running \in BOOLEAN
  <2>1. TypeOK /\ TypeOK'
    BY DEF IInv
  <2>2. CommandTypeOK /\ late <= 1
    BY DEF CommandInv, CaptureStops
  <2>3. produced \in Nat
    BY <2>1 DEF TypeOK
  <2>4. QED
    BY <2>1, <2>2, <2>3, SniffCommandAssumption DEF CommandTypeOK
<1>p. /\ sniffer # "finished" /\ result = "none" /\ main # "starting" /\ main # "ended"
      /\ sniffer \in SnifferStates
      /\ observed = produced + inHand + waiting
      /\ inHand > 0 => Reporting
      /\ late > 0 => ~running
      /\ sniffer = "receiving" => late = 0
  <2>1. main # "ended" /\ sniffer # "finished" /\ sniffer # "unborn"
    BY DEF SnifferStep, OpenSocket, OpenSocketFails, KeepCapturing, StopCapturing,
           ReceiveNothing, ProcessSegment, ReceiveFails, SnifferPanics, ExpireIdle,
           TurnEnds, Report, ReportEnds, Finishes, Reporting, Alive
  <2>2. QED
    BY <1>t, <2>1 DEF CommandInv, RequestsReported, ThreadInv, LateInv, CommandTypeOK
<1>1. /\ UNCHANGED <<mode, running, main, verdict>>
      /\ UNCHANGED <<writer, rows, forgotten, streak, crashes>>
      /\ handles' \subseteq handles
  BY DEF SnifferStep, OpenSocket, OpenSocketFails, KeepCapturing, StopCapturing,
         ReceiveNothing, ProcessSegment, ReceiveFails, SnifferPanics, ExpireIdle,
         TurnEnds, Report, ReportEnds, Finishes, Leaves, DropSender, SendEvent,
         vars, historyVars
<1>2. EndInv'
  BY <1>1 DEF CommandInv, EndInv
<1>3. CASE OpenSocketFails \/ StopCapturing \/ ReceiveFails \/ SnifferPanics
  <2>1. /\ sniffer' = "finished" /\ handles' = handles \ {"sniffer"}
        /\ result' \in {"ok", "error", "panic"}
        /\ UNCHANGED <<produced, waiting, inHand, observed, late>>
        /\ ~Reporting
    BY <1>3 DEF OpenSocketFails, StopCapturing, ReceiveFails, SnifferPanics, Finishes,
                Leaves, DropSender, Reporting
  <2>2. inHand = 0
    BY <1>t, <1>p, <2>1
  <2>3. QED
    BY <1>t, <1>p, <1>1, <1>2, <2>1, <2>2
       DEF CommandInv, CommandTypeOK, SnifferStates, RequestsReported, CaptureStops,
           ThreadInv, LateInv, Reporting
<1>4. CASE Report
  <2>1. /\ inHand' = inHand - 1 /\ inHand > 0 /\ produced' = produced + 1 /\ Reporting
        /\ UNCHANGED <<handles, sniffer, result, waiting, observed, late>>
    BY <1>4 DEF Report, SendEvent
  <2>2. QED
    BY <1>t, <1>p, <1>1, <1>2, <2>1
       DEF CommandInv, CommandTypeOK, SnifferStates, RequestsReported, CaptureStops,
           ThreadInv, LateInv, Reporting
<1>5. CASE ProcessSegment
  <2>1. /\ sniffer' = "reporting" /\ UNCHANGED <<produced, handles, result>>
        /\ late = 0 /\ inHand = 0
        /\ late' = IF running THEN late ELSE late + 1
    BY <1>5, <1>t, <1>p DEF ProcessSegment, vars, Reporting
  <2>2. PICK new \in 0..(MaxRequests - observed) : \E answered \in 0..(waiting + new) :
          /\ observed' = observed + new
          /\ waiting' = waiting + new - answered
          /\ inHand' = answered
    BY <1>5 DEF ProcessSegment
  <2>3. /\ observed' \in 0..MaxRequests
        /\ waiting' \in 0..MaxRequests /\ inHand' \in 0..MaxRequests
        /\ observed' = produced + inHand' + waiting'
    BY <1>t, <1>p, <2>1, <2>2
  <2>4. CaptureStops' /\ LateInv' /\ late' \in Nat
    BY <1>t, <1>p, <1>1, <2>1 DEF CaptureStops, LateInv
  <2>5. CommandTypeOK'
    BY <1>t, <1>1, <2>1, <2>3, <2>4 DEF CommandTypeOK, SnifferStates
  <2>6. RequestsReported' /\ ThreadInv'
    BY <1>p, <1>1, <2>1, <2>3 DEF RequestsReported, ThreadInv, Reporting
  <2>7. QED
    BY <1>2, <2>4, <2>5, <2>6 DEF CommandInv
<1>6. CASE ExpireIdle
  <2>1. /\ sniffer' = "expiring" /\ UNCHANGED <<produced, handles, result, observed, late>>
        /\ inHand = 0
    BY <1>6, <1>t, <1>p DEF ExpireIdle, vars, Reporting
  <2>2. PICK expired \in 1..waiting : waiting' = waiting - expired /\ inHand' = expired
    BY <1>6 DEF ExpireIdle
  <2>3. /\ waiting' \in 0..MaxRequests /\ inHand' \in 0..MaxRequests
        /\ observed = produced + inHand' + waiting'
    BY <1>t, <1>p, <2>1, <2>2
  <2>4. QED
    BY <1>t, <1>p, <1>1, <1>2, <2>1, <2>3
       DEF CommandInv, CommandTypeOK, SnifferStates, RequestsReported, CaptureStops,
           ThreadInv, LateInv, Reporting
<1>7. CASE \/ OpenSocket \/ KeepCapturing \/ ReceiveNothing \/ TurnEnds \/ ReportEnds
  <2>1. /\ UNCHANGED <<produced, handles, result, waiting, inHand, observed, late>>
        /\ inHand = 0
        /\ sniffer' \in {"checking", "receiving", "cleaning"}
        /\ sniffer' = "receiving" => running
    BY <1>7, <1>t, <1>p
       DEF OpenSocket, KeepCapturing, ReceiveNothing, TurnEnds, ReportEnds, NextTurn,
           Reported, vars, Reporting
  <2>2. QED
    BY <1>t, <1>p, <1>1, <1>2, <2>1
       DEF CommandInv, CommandTypeOK, SnifferStates, RequestsReported, CaptureStops,
           ThreadInv, LateInv, Reporting
<1>8. QED
  BY <1>3, <1>4, <1>5, <1>6, <1>7 DEF SnifferStep

\* A step of main, a signal or the death of the process leaves the events in the
\* hands of the capture, if it has any.
LEMMA MainStepInv ==
  ASSUME CommandInv, IInv, IInv', MainStep \/ LeaveDashboard \/ Signal \/ Killed
  PROVE  CommandInv'
<1> USE DEF mainVars, snifferVars
<1>t. /\ TypeOK' /\ CommandTypeOK /\ produced \in Nat /\ inHand \in Nat
  <2>1. TypeOK /\ TypeOK'
    BY DEF IInv
  <2>2. CommandTypeOK
    BY DEF CommandInv
  <2>3. produced \in Nat
    BY <2>1 DEF TypeOK
  <2>4. QED
    BY <2>1, <2>2, <2>3 DEF CommandTypeOK
<1>1. CASE StartCapture
  <2>1. /\ main = "starting" /\ main' \in {"watching", "capturing"}
        /\ sniffer' = "opening" /\ handles' = handles \union {"sniffer"}
        /\ UNCHANGED <<mode, running, verdict, result, waiting, inHand, observed, late,
                       produced, writer, forgotten, streak, crashes>>
    BY <1>1 DEF StartCapture, CloneSender, historyVars
  <2>2. sniffer = "unborn" /\ result = "none" /\ inHand = 0
    BY <1>t, <2>1 DEF CommandInv, ThreadInv, Reporting
  <2>3. CommandTypeOK'
    BY <1>t, <2>1 DEF CommandTypeOK, MainStates, SnifferStates
  <2>4. RequestsReported' /\ CaptureStops' /\ ThreadInv' /\ LateInv' /\ EndInv'
    BY <2>1, <2>2 DEF CommandInv, RequestsReported, CaptureStops, ThreadInv, LateInv,
                      EndInv, Reporting
  <2>5. QED
    BY <2>3, <2>4 DEF CommandInv
<1>2. CASE RegisterFails \/ CaptureEnds \/ StartupFails \/ JoinSniffer
  <2>1. /\ handles' = handles \ {"main"}
        /\ UNCHANGED <<mode, sniffer, result, waiting, inHand, observed, late,
                       produced, writer, forgotten, streak, crashes>>
        /\ running' = running \/ running' = FALSE
        /\ \/ main' = "joiningWriter" /\ verdict' \in {"ok", "error"}
           \/ main' = "returning" /\ verdict' = "error"
    BY <1>2 DEF RegisterFails, CaptureEnds, StartupFails, JoinSniffer, GoesToJoin,
                ReturnsError, MainMoves, DropsSender, Leaves, DropSender, historyVars
  <2>2. CommandTypeOK'
    BY <1>t, <2>1 DEF CommandTypeOK, MainStates
  <2>3. LateInv'
    BY <2>1 DEF CommandInv, LateInv
  <2>4. RequestsReported' /\ CaptureStops' /\ ThreadInv' /\ EndInv'
    BY <2>1 DEF CommandInv, RequestsReported, CaptureStops, ThreadInv, EndInv, Reporting
  <2>5. QED
    BY <2>2, <2>3, <2>4 DEF CommandInv
<1>3. CASE OpenDashboard \/ LeaveDashboard \/ JoinWriter \/ Signal
  <2>1. /\ UNCHANGED <<mode, sniffer, result, waiting, inHand, observed, late, handles,
                       produced, writer, forgotten, streak, crashes>>
        /\ running' = running \/ running' = FALSE
        /\ \/ main' = "tui" /\ UNCHANGED verdict
           \/ main' = "joiningSniffer" /\ verdict' \in {"ok", "error"}
           \/ main = "joiningWriter" /\ main' = "ended" /\ UNCHANGED verdict
                /\ writer = "stopped"
           \/ UNCHANGED <<main, verdict>>
    BY <1>3 DEF OpenDashboard, LeaveDashboard, JoinWriter, Signal, MainMoves,
                WriterEnded, vars, historyVars
  <2>2. "main" \in handles => main' \notin {"joiningWriter", "returning", "ended"}
    BY <2>1, <1>t DEF CommandTypeOK
  <2>3. CommandTypeOK'
    BY <1>t, <2>1, <2>2, ZenonT(60) DEF CommandTypeOK, MainStates
  <2>4. LateInv'
    BY <2>1 DEF CommandInv, LateInv
  <2>5. RequestsReported' /\ CaptureStops' /\ ThreadInv' /\ EndInv'
    BY <2>1 DEF CommandInv, RequestsReported, CaptureStops, ThreadInv, EndInv, Reporting
  <2>6. QED
    BY <2>3, <2>4, <2>5 DEF CommandInv
<1>4. CASE ProcessEnds \/ Killed
  <2>1. /\ UNCHANGED <<mode, running, sniffer, result, waiting, inHand, observed, late,
                       produced>>
        /\ main' = "ended" /\ verdict' \in {"error", "killed"}
        /\ \/ UNCHANGED <<handles, forgotten, crashes, streak, writer>>
           \/ handles' = {} /\ crashes' = crashes + 1
    BY <1>4 DEF ProcessEnds, Killed, MainMoves, Crash, vars, historyVars, CommandInv,
                EndInv
  <2>2. "main" \in handles' => main \notin {"joiningWriter", "returning", "ended"}
    BY <2>1, <1>t DEF CommandTypeOK
  <2>3. "main" \notin handles'
    BY <1>4, <1>t, <2>1 DEF ProcessEnds, Killed, Crash, MainMoves, CommandTypeOK
  <2>4. CommandTypeOK'
    BY <1>t, <2>1, <2>3 DEF CommandTypeOK, MainStates
  <2>5. crashes' = 0 /\ forgotten' # {} => writer' = "stopped" /\ streak' > 0
    <3>1. crashes \in Nat
      BY DEF IInv, TypeOK
    <3>2. QED
      BY <2>1, <3>1 DEF CommandInv, EndInv
  <2>6. RequestsReported' /\ CaptureStops' /\ ThreadInv' /\ LateInv' /\ EndInv'
    BY <2>1, <2>5 DEF CommandInv, RequestsReported, CaptureStops, ThreadInv, LateInv,
                      EndInv, Reporting
  <2>7. QED
    BY <2>4, <2>6 DEF CommandInv
<1>5. QED
  BY <1>1, <1>2, <1>3, <1>4 DEF MainStep

LEMMA CommandInvStep ==
  CommandInv /\ IInv /\ IInv' /\ [CommandNext]_allVars => CommandInv'
<1> SUFFICES ASSUME CommandInv, IInv, IInv', [CommandNext]_allVars PROVE CommandInv'
  OBVIOUS
<1>1. CASE UNCHANGED allVars
  <2>1. TypeOK'
    BY DEF IInv
  <2>2. QED
    BY <1>1, <2>1
       DEF allVars, vars, commandVars, mainVars, snifferVars, CommandInv, CommandTypeOK,
           RequestsReported, CaptureStops, ThreadInv, LateInv, EndInv, Reporting
<1>2. QED
  BY <1>1, SnifferStepInv, MainStepInv, WriteInv DEF CommandNext

-----------------------------------------------------------------------------
(* Theorems.                                                               *)

\* The invariant holds in every reachable state.
THEOREM CommandInvariant == CommandSpec => [](IInv /\ CommandInv)
<1>1. CommandInit /\ IInv => CommandInv
  BY CommandInvInit
<1>2. CommandInv /\ IInv /\ IInv' /\ [CommandNext]_allVars => CommandInv'
  BY CommandInvStep
<1>3. QED
  BY <1>1, <1>2, PipelineOfCommand, PTL DEF CommandSpec

\* Type correctness of the command, and its senders live no longer than their
\* owners use them.
THEOREM CommandTypeCorrect == CommandSpec => []CommandTypeOK
<1>1. CommandInv => CommandTypeOK
  BY DEF CommandInv
<1>2. QED
  BY <1>1, CommandInvariant, PTL

\* A request the engine parsed is reported once, or still waits.
THEOREM CommandReports == CommandSpec => []RequestsReported
<1>1. CommandInv => RequestsReported
  BY DEF CommandInv
<1>2. QED
  BY <1>1, CommandInvariant, PTL

\* At most one segment is processed after the flag is cleared.
THEOREM CommandStopsCapture == CommandSpec => []CaptureStops
<1>1. CommandInv => CaptureStops
  BY DEF CommandInv
<1>2. QED
  BY <1>1, CommandInvariant, PTL

\* A command that ends without an error has stored all that was accepted: its
\* writer has stopped with an empty buffer behind an empty channel, and nothing
\* is forgotten, so every event sent is a row or was refused.
THEOREM CommandDrains == CommandSpec => []CleanEndStoresAll
<1>1. IInv /\ CommandInv => CleanEndStoresAll
  <2>1. SUFFICES ASSUME IInv, CommandInv,
                        main = "ended", verdict = "ok", streak = 0, crashes = 0
                 PROVE  EventsIn(rows) \union refused = 1..produced
    BY DEF CleanEndStoresAll
  <2>2. /\ TypeOK /\ NoEventUnaccounted /\ WriterInv
        /\ rows \in Seq(Nat)
    BY <2>1 DEF IInv, TypeOK
  <2>3. writer = "stopped" /\ forgotten = {}
    BY <2>1 DEF CommandInv, EndInv
  <2>4. queue = <<>> /\ buffer = <<>>
    BY <2>2, <2>3 DEF WriterInv
  <2>5. Pipeline = rows
    BY <2>2, <2>4, ConcatEmptySeq DEF Pipeline
  <2>6. QED
    BY <2>2, <2>3, <2>5 DEF NoEventUnaccounted
<1>2. QED
  BY <1>1, CommandInvariant, PTL
=============================================================================
