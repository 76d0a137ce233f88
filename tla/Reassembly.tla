----------------------------- MODULE Reassembly -----------------------------
(***************************************************************************)
(* One Direction of the sniffer against the network.  A sender numbers the *)
(* bytes of its stream 0, 1, 2, ...; the capture shows their segments in   *)
(* any order, any number of times, or never, and may begin after the       *)
(* connection did.  The content of a byte is its position, so what comes   *)
(* out can be compared with what went in.  The parser takes bytes from the *)
(* front of the reassembled stream.                                        *)
(***************************************************************************)
EXTENDS Direction

CONSTANTS
  Cuts,          \* where segments may begin and end; the last cut is the end
  Repacketise,   \* retransmissions may span several cuts
  InitialSeqs,   \* sequence numbers the SYN may have
  ParserReads    \* the parser takes messages out of the stream

ASSUME ReassemblyAssumption ==
  /\ IsFiniteSet(Cuts) /\ Cuts \subseteq Nat /\ 0 \in Cuts
  /\ Repacketise \in BOOLEAN
  /\ InitialSeqs \subseteq 0..SeqSpace-1
  /\ ParserReads \in BOOLEAN
  \* No sequence number stands for two bytes of the stream.
  /\ \A c \in Cuts : c < SeqSpace

VARIABLES
  initialSeq,    \* sequence number of the SYN
  direction,     \* the Direction
  cursor,        \* history: position next_sequence stands for, or Unset
  seen           \* history: positions captured and not refused, from the origin on

vars == <<initialSeq, direction, cursor, seen>>

SeqAt(position) == (initialSeq + 1 + position) % SeqSpace

\* The segments the sender cuts its stream into.
Segments ==
  {s \in Cuts \X Cuts :
     /\ s[1] < s[2]
     /\ Repacketise \/ ~\E c \in Cuts : s[1] < c /\ c < s[2]}

Bytes(from, to) == [i \in 1..(to - from) |-> from + i - 1]

\* How far next_sequence moved.
Moved == (direction'.next - direction.next) % SeqSpace

Init ==
  /\ initialSeq \in InitialSeqs
  /\ direction = NewDirection
  /\ cursor = Unset
  /\ seen = {}

\* The capture shows the SYN, which carries no data.
SynSegment ==
  /\ direction' = PushSyn(direction, initialSeq)
  /\ cursor' = IF cursor = Unset THEN 0 ELSE cursor
  /\ UNCHANGED <<initialSeq, seen>>

\* The limits of the code refuse a segment that is ahead of the stream.
Refused(from, to) ==
  /\ cursor # Unset /\ from > cursor
  /\ \/ ~HasBudget(direction, Bytes(from, to))
     \/ SeqAt(from) \in DOMAIN direction.pending

\* The stream has just overflowed: everything that waited is gone.
Overflowed == direction'.next # direction.next /\ direction'.stream = <<>>

\* The direction becomes new when the capture shows bytes from..to-1.
Arrival(new, from, to) ==
  /\ direction' = new
  /\ cursor' = IF direction'.next = Unset THEN Unset
               ELSE IF cursor = Unset
                    THEN from + ((direction'.next - SeqAt(from)) % SeqSpace)
                    ELSE cursor + Moved
  /\ seen' = IF Overflowed THEN {}
             ELSE IF Refused(from, to) THEN seen
             ELSE seen \union {p \in from..to-1 : cursor # Unset => p >= cursor}
  /\ UNCHANGED initialSeq

\* The capture shows a segment with data.
DataSegment(from, to) ==
  Arrival(Push(direction, SeqAt(from), Bytes(from, to)), from, to)

\* take_http_message drains a message from the front of the stream, or clears
\* the stream when it does not begin like HTTP.
ParserTakes(n) ==
  /\ ParserReads
  /\ n \in 1..Len(direction.stream)
  /\ direction' = [direction EXCEPT !.stream = SubSeq(@, n + 1, Len(@))]
  /\ UNCHANGED <<initialSeq, cursor, seen>>

Next ==
  \/ SynSegment
  \/ \E s \in Segments : DataSegment(s[1], s[2])
  \/ \E n \in 1..StreamLimit : ParserTakes(n)

Spec == Init /\ [][Next]_vars

-----------------------------------------------------------------------------
\* The bytes that wait out of order.
PendingSizes ==
  SumFunction([s \in DOMAIN direction.pending |-> Len(direction.pending[s])])

\* The record keeps its shape, and next_sequence is the sequence number of the
\* byte the direction waits for.
TypeOK ==
  /\ direction.next \in {Unset} \union 0..SeqSpace-1
  /\ DOMAIN direction.pending \subseteq 0..SeqSpace-1
  /\ cursor = Unset <=> direction.next = Unset
  /\ cursor # Unset => direction.next = SeqAt(cursor)

\* The stream the parser reads is a run of consecutive bytes of the sender
\* that ends where the direction waits: nothing is reordered, repeated or
\* skipped, however segments were reordered, repeated, recut or dropped.
StreamIsContiguous ==
  LET stream == direction.stream IN
  \A i \in 1..Len(stream) : stream[i] = cursor - Len(stream) + i - 1

\* The state is well formed, the two limits hold, and pending_bytes counts what the map holds.
BudgetsKept ==
  /\ TypeOK
  /\ Len(direction.stream) <= StreamLimit
  /\ direction.pendingBytes = PendingSizes
  /\ PendingSizes <= PendingLimit

\* A waiting segment begins before the byte the direction waits for, because
\* a retransmission that was cut differently came first.
Overtaken ==
  \E s \in DOMAIN direction.pending : (s - SeqAt(0)) % SeqSpace < cursor

\* The stream crosses the end of the sequence space.
Wraps == \E c \in Cuts : SeqAt(0) + c >= SeqSpace

\* The direction never waits for a byte the capture has shown it within its
\* limits: what was seen out of order is delivered as soon as the gap before it
\* closes.  A stream that leaves the sequence space has no such luck, for push
\* compares plain numbers and takes what is ahead for old.
SeenIsDelivered ==
  cursor # Unset /\ ~Overtaken /\ ~Wraps => cursor \notin seen
=============================================================================
