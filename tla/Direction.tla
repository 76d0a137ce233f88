------------------------------ MODULE Direction ------------------------------
(***************************************************************************)
(* struct Direction of src/src/sniff/engine.rs: the TCP reassembly of one  *)
(* direction of one flow, as operators on a record.  A payload is a        *)
(* sequence of units; what a unit is, is up to the module that uses this   *)
(* one, and the two limits are counted in units.                           *)
(*                                                                         *)
(* An operator whose name ends in a word for a fault (Unwrapped,           *)
(* Unchecked, Uncounted...) is a wrong variant of the definition below it, *)
(* kept to show that the properties notice the fault.                      *)
(***************************************************************************)
EXTENDS Integers, Sequences, FiniteSets, Functions

CONSTANTS
  SeqSpace,        \* sequence numbers are 0..SeqSpace-1 (2^32 in the code)
  StreamLimit,   \* MAX_STREAM_BUFFER
  PendingLimit   \* MAX_OUT_OF_ORDER_BYTES

ASSUME DirectionAssumption ==
  /\ SeqSpace \in Nat \ {0}
  /\ StreamLimit \in Nat
  /\ PendingLimit \in Nat

\* next_sequence is None.
Unset == -1

NewDirection ==
  [next |-> Unset, pending |-> <<>>, pendingBytes |-> 0, stream |-> <<>>]

\* A map with one entry more: Entry::insert of pending, or_insert_with of flows.
Insert(map, key, value) ==
  [k \in DOMAIN map \union {key} |-> IF k = key THEN value ELSE map[k]]

\* A payload that does not fit loses the whole stream, the payload and what
\* waits out of order.
FitsUnchecked(d, payload) == TRUE
Fits(d, payload) == Len(d.stream) + Len(payload) <= StreamLimit

AppendPayload(d, payload) ==
  IF Fits(d, payload)
  THEN [d EXCEPT !.stream = @ \o payload]
  ELSE [d EXCEPT !.stream = <<>>, !.pending = <<>>, !.pendingBytes = 0]

\* append, and next_sequence moves past the payload in either case.
Advance(d, payload) ==
  [AppendPayload(d, payload) EXCEPT !.next = (d.next + Len(payload)) % SeqSpace]

\* Take a payload out of the out-of-order map, and of the count of its bytes.
TakeUncounted(d, sequence) ==
  [d EXCEPT !.pending = Restrict(@, DOMAIN @ \ {sequence})]
TakePending(d, sequence) ==
  LET size == Len(d.pending[sequence]) IN
  [d EXCEPT !.pending = Restrict(@, DOMAIN @ \ {sequence}),
            !.pendingBytes = IF @ >= size THEN @ - size ELSE 0]

\* One turn of the loop of drain_pending: only a payload that starts exactly
\* at next_sequence leaves the map.
DrainNothing(d) == d
DrainOne(d) ==
  IF d.next \in DOMAIN d.pending
  THEN Advance(TakePending(d, d.next), d.pending[d.next])
  ELSE d

DrainPending(d) ==
  LET turns == Cardinality(DOMAIN d.pending)
      after[n \in 0..turns] == IF n = 0 THEN d ELSE DrainOne(after[n - 1])
  IN  after[turns]

\* A payload ahead of next_sequence waits in the map if the budget allows it
\* and its sequence number is not taken.
HasBudgetUnchecked(d, payload) == TRUE
HasBudget(d, payload) == d.pendingBytes + Len(payload) <= PendingLimit

StashInStream(d, sequence, payload) == Advance(d, payload)
Stash(d, sequence, payload) ==
  IF HasBudget(d, payload) /\ sequence \notin DOMAIN d.pending
  THEN [d EXCEPT !.pending = Insert(@, sequence, payload),
                 !.pendingBytes = @ + Len(payload)]
  ELSE d

\* The units of a payload that starts before next_sequence and was delivered
\* in part.
NotTrimmed(payload, alreadySeen) == payload
Trim(payload, alreadySeen) == SubSeq(payload, alreadySeen + 1, Len(payload))

\* Direction::push with a payload.  The comparison with next_sequence is the
\* one of u32, not that of TCP sequence arithmetic.
Push(d, sequence, payload) ==
  LET expected == IF d.next = Unset THEN sequence ELSE d.next
      started == [d EXCEPT !.next = expected]
      alreadySeen == (expected - sequence) % SeqSpace
  IN  IF sequence < expected
      THEN IF alreadySeen >= Len(payload)
           THEN started
           ELSE DrainPending(Advance(started, Trim(payload, alreadySeen)))
      ELSE IF sequence = expected
           THEN DrainPending(Advance(started, payload))
           ELSE Stash(started, sequence, payload)

\* Direction::push without a payload: a SYN fixes the origin, once; any other
\* empty segment changes nothing.
PushSyn(d, sequence) ==
  [d EXCEPT !.next = IF @ = Unset THEN (sequence + 1) % SeqSpace ELSE @]
=============================================================================
