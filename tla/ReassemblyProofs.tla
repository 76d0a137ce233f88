-------------------------- MODULE ReassemblyProofs ---------------------------
(***************************************************************************)
(* Proofs about Reassembly, for every sequence space, every two limits,    *)
(* every way to cut the stream into segments and every order, repetition   *)
(* and loss of them.  The inductive invariant IInv finds the position of   *)
(* the sender's stream that the direction waits for, the cursor: the       *)
(* stream it holds ends there, all that waits is a genuine part of the     *)
(* sender's stream, and, unless the sequence numbers wrap, every position  *)
(* the capture showed at or behind the cursor waits.                       *)
(***************************************************************************)
EXTENDS Reassembly, DirectionProofs

\* The sequence number of a position, when q is that of the SYN.
Place(q, position) == (q + 1 + position) % SeqSpace

\* The sequence number of a position wraps at most once.
LEMMA PlaceIs ==
  ASSUME NEW q \in 0..SeqSpace-1, NEW p \in 0..SeqSpace-1
  PROVE  /\ Place(q, p) \in 0..SeqSpace-1
         /\ Place(q, p) = IF q + 1 + p < SeqSpace THEN q + 1 + p ELSE q + 1 + p - SeqSpace
<1>1. SeqSpace \in Nat \ {0}
  BY DirectionAssumption
<1>2. PICK a \in Int : a = q + 1 + p
  BY <1>1
<1>3. 0 <= a /\ a < 2 * SeqSpace
  BY <1>1, <1>2
<1>4. /\ a % SeqSpace \in 0..SeqSpace-1
      /\ 0 <= a /\ a < SeqSpace => a % SeqSpace = a
      /\ SeqSpace <= a /\ a < 2 * SeqSpace => a % SeqSpace = a - SeqSpace
  BY <1>1, ModSmall
<1>5. Place(q, p) = a % SeqSpace
  BY <1>2 DEF Place
<1>6. QED
  BY <1>1, <1>2, <1>3, <1>4, <1>5

\* Two positions of the stream have different sequence numbers.
LEMMA PlaceInjective ==
  ASSUME NEW q \in 0..SeqSpace-1, NEW p \in 0..SeqSpace-1, NEW r \in 0..SeqSpace-1,
         Place(q, p) = Place(q, r)
  PROVE  p = r
<1>1. SeqSpace \in Nat \ {0}
  BY DirectionAssumption
<1>2. Place(q, p) = IF q + 1 + p < SeqSpace THEN q + 1 + p ELSE q + 1 + p - SeqSpace
  BY PlaceIs
<1>3. Place(q, r) = IF q + 1 + r < SeqSpace THEN q + 1 + r ELSE q + 1 + r - SeqSpace
  BY PlaceIs
<1>4. PICK a \in Int, b \in Int : a = q + 1 + p /\ b = q + 1 + r
  BY <1>1
<1>5. PICK x \in Int : x = Place(q, p)
  BY PlaceIs
<1>6. x = IF a < SeqSpace THEN a ELSE a - SeqSpace
  BY <1>1, <1>2, <1>4, <1>5
<1>7. x = IF b < SeqSpace THEN b ELSE b - SeqSpace
  BY <1>1, <1>3, <1>4, <1>5
<1>8. a = b
  BY <1>1, <1>4, <1>6, <1>7
<1>9. QED
  BY <1>4, <1>8

\* The sequence number that many bytes further on.
LEMMA PlaceAdd ==
  ASSUME NEW q \in 0..SeqSpace-1, NEW p \in 0..SeqSpace-1, NEW r \in 0..SeqSpace-1, p <= r
  PROVE  (Place(q, p) + (r - p)) % SeqSpace = Place(q, r)
<1>1. SeqSpace \in Nat \ {0}
  BY DirectionAssumption
<1>2. Place(q, p) = IF q + 1 + p < SeqSpace THEN q + 1 + p ELSE q + 1 + p - SeqSpace
  BY PlaceIs
<1>3. Place(q, r) = IF q + 1 + r < SeqSpace THEN q + 1 + r ELSE q + 1 + r - SeqSpace
  BY PlaceIs
<1>4. PICK a \in Int : a = Place(q, p) + (r - p)
  BY <1>1, <1>2
<1>5. /\ 0 <= a /\ a < SeqSpace => a % SeqSpace = a
      /\ SeqSpace <= a /\ a < 2 * SeqSpace => a % SeqSpace = a - SeqSpace
  BY <1>1, ModSmall
<1>6. QED
  BY <1>1, <1>2, <1>3, <1>4, <1>5

\* How far it is from one position to another.
LEMMA PlaceDistance ==
  ASSUME NEW q \in 0..SeqSpace-1, NEW p \in 0..SeqSpace-1, NEW r \in 0..SeqSpace-1
  PROVE  (Place(q, r) - Place(q, p)) % SeqSpace = IF p <= r THEN r - p ELSE r - p + SeqSpace
<1>1. SeqSpace \in Nat \ {0}
  BY DirectionAssumption
<1>2. Place(q, p) = IF q + 1 + p < SeqSpace THEN q + 1 + p ELSE q + 1 + p - SeqSpace
  BY PlaceIs
<1>3. Place(q, r) = IF q + 1 + r < SeqSpace THEN q + 1 + r ELSE q + 1 + r - SeqSpace
  BY PlaceIs
<1>a. Place(q, p) \in 0..SeqSpace-1 /\ Place(q, r) \in 0..SeqSpace-1
  BY PlaceIs
<1>4. PICK a \in Int : a = Place(q, r) - Place(q, p)
  BY <1>1, <1>a
<1>5. /\ 0 <= a /\ a < SeqSpace => a % SeqSpace = a
      /\ -SeqSpace <= a /\ a < 0 => a % SeqSpace = a + SeqSpace
  BY <1>1, ModSmall
<1>6. QED
  BY <1>1, <1>2, <1>3, <1>4, <1>5

\* The ends of segments are positions of the stream.
LEMMA CutIsPosition == \A c \in Cuts : c \in Nat /\ c \in 0..SeqSpace-1
BY ReassemblyAssumption, DirectionAssumption

-----------------------------------------------------------------------------
(* Payloads.                                                               *)

\* The bytes of a segment are its positions in order.
LEMMA BytesShape ==
  ASSUME NEW from \in Nat, NEW to \in Nat, from <= to
  PROVE  /\ Bytes(from, to) \in Seq(Nat)
         /\ Len(Bytes(from, to)) = to - from
         /\ \A i \in 1..to-from : Bytes(from, to)[i] = from + i - 1
<1>1. to - from \in Nat
  OBVIOUS
<1>2. \A i \in 1..to-from : from + i - 1 \in Nat
  OBVIOUS
<1>3. Bytes(from, to) \in [1..to-from -> Nat]
  BY <1>2 DEF Bytes
<1>4. QED
  BY <1>1, <1>3 DEF Bytes

\* What push cuts off is what was delivered before.
LEMMA TrimBytes ==
  ASSUME NEW from \in Nat, NEW c \in Nat, NEW to \in Nat, from <= c, c <= to
  PROVE  Trim(Bytes(from, to), c - from) = Bytes(c, to)
<1> DEFINE s == Bytes(from, to)
           k == c - from + 1
<1>1. s \in Seq(Nat) /\ Len(s) = to - from /\ \A i \in 1..to-from : s[i] = from + i - 1
  BY BytesShape
<1>2. Trim(s, c - from) = SubSeq(s, k, to - from)
  BY <1>1 DEF Trim
<1> HIDE DEF s
<1>3. k \in 1..to-from+1
  OBVIOUS
<1>4. SubSeq(s, k, to - from) = [i \in 1..(to - from) - k + 1 |-> s[k + i - 1]]
  BY <1>1, <1>3
<1>5. (to - from) - k + 1 = to - c
  OBVIOUS
<1>6. \A i \in 1..to-c : s[k + i - 1] = c + i - 1
  <2> TAKE i \in 1..to-c
  <2>1. k + i - 1 \in 1..to-from /\ from + (k + i - 1) - 1 = c + i - 1
    OBVIOUS
  <2>2. QED
    BY <1>1, <2>1
<1>7. QED
  BY <1>2, <1>4, <1>5, <1>6 DEF Bytes, s

-----------------------------------------------------------------------------
(* A direction and the stream of its sender.                               *)

\* The stream holds consecutive bytes and ends before position c.
EndsAt(d, c) == \A i \in 1..Len(d.stream) : d.stream[i] = c - Len(d.stream) + i - 1

\* Bytes from..to-1 wait out of order.
Holds(q, d, from, to) ==
  Place(q, from) \in DOMAIN d.pending /\ d.pending[Place(q, from)] = Bytes(from, to)

\* Everything that waits is a segment of the sender, under its sequence number.
Genuine(q, d) ==
  \A s \in DOMAIN d.pending :
    \E from, to \in Cuts : from < to /\ s = Place(q, from) /\ d.pending[s] = Bytes(from, to)

\* The direction waits for the byte at position c.
Waits(q, d, c) ==
  /\ d \in Directions(Nat)
  /\ InBudget(d)
  /\ d.next = Place(q, c)
  /\ EndsAt(d, c)
  /\ Genuine(q, d)

\* The positions of S that are not delivered wait out of order.
Covers(q, d, c, S) ==
  \A p \in S :
    p >= c => \E from, to \in Cuts : from <= p /\ p < to /\ Holds(q, d, from, to)

\* A payload behind a stream.
LEMMA ConcatShape ==
  ASSUME NEW s \in Seq(Nat), NEW p \in Seq(Nat)
  PROVE  /\ Len(s \o p) = Len(s) + Len(p)
         /\ \A i \in 1..Len(s) : (s \o p)[i] = s[i]
         /\ \A i \in 1..Len(p) : (s \o p)[Len(s) + i] = p[i]
OBVIOUS

\* A stream that ends where a payload begins is continued by it.
LEMMA AppendEnds ==
  ASSUME NEW d, NEW e, NEW c \in Nat, NEW to \in Nat, c <= to,
         d.stream \in Seq(Nat), EndsAt(d, c), Appended(d, Bytes(c, to), e)
  PROVE  EndsAt(e, to)
<1> DEFINE p == Bytes(c, to)
           s == d.stream
<1>1. p \in Seq(Nat) /\ Len(p) = to - c /\ \A i \in 1..to-c : p[i] = c + i - 1
  BY BytesShape
<1>2. e.stream = s \o p
  BY DEF Appended
<1>3. \A i \in 1..Len(s) : s[i] = c - Len(s) + i - 1
  BY DEF EndsAt
<1>a. Len(s) \in Nat /\ s \in Seq(Nat)
  OBVIOUS
<1> HIDE DEF p, s
<1>b. PICK n \in Nat : n = Len(s)
  BY <1>a
<1>4. Len(s \o p) = n + (to - c)
  <2>1. Len(s \o p) = Len(s) + Len(p)
    BY <1>1, <1>a, ConcatShape
  <2>2. QED
    BY <1>1, <1>b, <2>1
<1>5. ASSUME NEW i \in 1..n + (to - c)
      PROVE  (s \o p)[i] = to - (n + (to - c)) + i - 1
  <2>1. CASE i <= n
    <3>1. (s \o p)[i] = s[i]
      BY <1>1, <1>a, <1>b, <2>1
    <3>2. s[i] = c - n + i - 1
      BY <1>3, <1>b, <2>1
    <3>3. QED
      BY <3>1, <3>2
  <2>2. CASE i > n
    <3>1. i - n \in 1..to-c
      BY <2>2
    <3>a. (s \o p)[n + (i - n)] = p[i - n]
      BY <1>1, <1>a, <1>b, <3>1, ConcatShape
    <3>2. (s \o p)[i] = p[i - n]
      <4>1. n + (i - n) = i
        OBVIOUS
      <4>2. QED
        BY <3>a, <4>1
    <3>3. p[i - n] = c + (i - n) - 1
      BY <1>1, <3>1
    <3>4. QED
      BY <3>2, <3>3
  <2>3. i <= n \/ i > n
    OBVIOUS
  <2>4. QED
    BY <2>1, <2>2, <2>3
<1>6. QED
  BY <1>2, <1>4, <1>5 DEF EndsAt

\* A stream that was lost ends anywhere.
LEMMA LostKeeps ==
  ASSUME NEW q, NEW e, NEW c, Lost(e)
  PROVE  EndsAt(e, c) /\ Genuine(q, e)
<1>1. Len(e.stream) = 0
  BY DEF Lost
<1>2. DOMAIN e.pending = {}
  BY NothingWaits DEF Lost
<1>3. QED
  BY <1>1, <1>2 DEF EndsAt, Genuine

\* The payload at position c is delivered: the direction waits for its end.
LEMMA AdvanceWaits ==
  ASSUME NEW q \in 0..SeqSpace-1, NEW d, NEW c \in Cuts, Waits(q, d, c),
         NEW to \in Cuts, c < to,
         NEW e, e = Advance(d, Bytes(c, to))
  PROVE  /\ Waits(q, e, to)
         /\ Lost(e) \/ e.pending = d.pending
<1>1. c \in Nat /\ to \in Nat /\ c \in 0..SeqSpace-1 /\ to \in 0..SeqSpace-1
  BY CutIsPosition
<1>2. Bytes(c, to) \in Seq(Nat) /\ Len(Bytes(c, to)) = to - c
  BY <1>1, BytesShape
<1>3. d \in Directions(Nat) /\ InBudget(d) /\ d.next = Place(q, c) /\ EndsAt(d, c) /\ Genuine(q, d)
  BY DEF Waits
<1>4. d.next # Unset
  BY <1>1, <1>3, PlaceIs DEF Unset
<1>5. /\ e \in Directions(Nat) /\ InBudget(e)
      /\ e.next = (d.next + Len(Bytes(c, to))) % SeqSpace
      /\ Lost(e) \/ Appended(d, Bytes(c, to), e)
      /\ Lost(e) \/ e.pending = d.pending
  BY <1>2, <1>3, <1>4, AdvanceKeeps
<1>6. e.next = Place(q, to)
  <2>1. c <= to
    BY <1>1
  <2>2. (Place(q, c) + (to - c)) % SeqSpace = Place(q, to)
    BY <1>1, <2>1, PlaceAdd
  <2>3. QED
    BY <1>2, <1>3, <1>5, <2>2
<1>7. CASE Lost(e)
  BY <1>5, <1>6, <1>7, LostKeeps DEF Waits
<1>8. CASE ~Lost(e)
  <2>1. Appended(d, Bytes(c, to), e) /\ e.pending = d.pending
    BY <1>5, <1>8
  <2>2. d.stream \in Seq(Nat) /\ c <= to
    BY <1>1, <1>3 DEF Directions
  <2>3. EndsAt(e, to)
    BY <1>1, <1>3, <2>1, <2>2, AppendEnds
  <2>4. Genuine(q, e)
    BY <1>3, <2>1 DEF Genuine
  <2>5. QED
    BY <1>5, <1>6, <2>1, <2>3, <2>4 DEF Waits
<1>9. QED
  BY <1>7, <1>8

\* Either the stream was lost, or what is not delivered waits.
Ahead(q, d, c, S) == Lost(d) \/ Covers(q, d, c, S)

\* Moving past bytes does not uncover what waits behind them.
LEMMA AdvanceCovers ==
  ASSUME NEW q, NEW d, NEW e, NEW c \in Nat, NEW to \in Nat, c <= to, NEW S, NEW R,
         S \subseteq Nat, R \subseteq Nat, Covers(q, d, c, S), e.pending = d.pending,
         \A p \in R : p \in S \/ p < to
  PROVE  Covers(q, e, to, R)
<1> SUFFICES ASSUME NEW p \in R, p >= to
             PROVE  \E f, t \in Cuts : f <= p /\ p < t /\ Holds(q, e, f, t)
  BY DEF Covers
<1>1. p \in S
  <2>1. CASE p \in S
    BY <2>1
  <2>2. CASE p < to
    <3>1. p \in Nat
      OBVIOUS
    <3>2. QED
      BY <2>2, <3>1
  <2>3. QED
    BY <2>1, <2>2
<1>2. p >= c
  BY <1>1
<1>3. PICK f \in Cuts, t \in Cuts : f <= p /\ p < t /\ Holds(q, d, f, t)
  BY <1>1, <1>2 DEF Covers
<1>4. Holds(q, e, f, t)
  BY <1>3 DEF Holds
<1>5. QED
  BY <1>3, <1>4

\* A turn of drain_pending that finds a payload delivers it.
LEMMA DrainOneWaits ==
  ASSUME NEW q \in 0..SeqSpace-1, NEW d, NEW c \in Cuts, Waits(q, d, c),
         d.next \in DOMAIN d.pending,
         NEW S, S \subseteq Nat, Ahead(q, d, c, S),
         NEW e, e = DrainOne(d)
  PROVE  \E to \in Cuts : c < to /\ Waits(q, e, to) /\ Ahead(q, e, to, S)
<1>1. d \in Directions(Nat) /\ InBudget(d) /\ d.next = Place(q, c) /\ Genuine(q, d)
  BY DEF Waits
<1>2. PICK from \in Cuts, to \in Cuts :
        from < to /\ d.next = Place(q, from) /\ d.pending[d.next] = Bytes(from, to)
  BY <1>1 DEF Genuine
<1>3. /\ c \in Nat /\ from \in Nat /\ to \in Nat
      /\ c \in 0..SeqSpace-1 /\ from \in 0..SeqSpace-1
  BY CutIsPosition
<1>4. from = c
  BY <1>1, <1>2, <1>3, PlaceInjective
<1>5. PICK t : t = TakePending(d, d.next)
  OBVIOUS
<1>6. /\ t \in Directions(Nat) /\ InBudget(t) /\ t.next = d.next /\ t.stream = d.stream
      /\ DOMAIN t.pending = DOMAIN d.pending \ {d.next}
      /\ \A r \in DOMAIN t.pending : t.pending[r] = d.pending[r]
  BY <1>1, <1>5, TakeKeeps
<1>7. Waits(q, t, c)
  <2>1. EndsAt(t, c)
    BY <1>6 DEF Waits, EndsAt
  <2>2. Genuine(q, t)
    BY <1>1, <1>6 DEF Genuine
  <2>3. QED
    BY <1>1, <1>6, <2>1, <2>2 DEF Waits
<1>8. e = Advance(t, Bytes(c, to))
  BY <1>2, <1>4, <1>5 DEF DrainOne
<1>9. c < to /\ Waits(q, e, to) /\ (Lost(e) \/ e.pending = t.pending)
  BY <1>2, <1>4, <1>7, <1>8, AdvanceWaits
<1>10. CASE Lost(e)
  BY <1>9, <1>10 DEF Ahead
<1>11. CASE ~Lost(e)
  <2>1. ~Lost(d)
    BY NothingWaits DEF Lost
  <2>2. Covers(q, d, c, S)
    BY <2>1 DEF Ahead
  <2>3. ASSUME NEW p \in S, p >= to
        PROVE  \E f, g \in Cuts : f <= p /\ p < g /\ Holds(q, e, f, g)
    <3>1. p \in Nat /\ p >= c
      BY <1>3, <1>9, <2>3
    <3>2. PICK f \in Cuts, g \in Cuts : f <= p /\ p < g /\ Holds(q, d, f, g)
      BY <2>2, <3>1 DEF Covers
    <3>3. Place(q, f) # d.next
      <4>1. SUFFICES ASSUME Place(q, f) = Place(q, c) PROVE FALSE
        BY <1>1
      <4>2. f \in Nat /\ g \in Nat /\ f \in 0..SeqSpace-1
        BY CutIsPosition
      <4>3. f = c
        BY <1>3, <4>1, <4>2, PlaceInjective
      <4>4. Bytes(c, g) = Bytes(c, to)
        BY <1>1, <1>2, <1>4, <3>2, <4>3 DEF Holds
      <4>5. c <= g /\ c <= to
        BY <1>3, <1>9, <3>1, <3>2, <4>2
      <4>6. Len(Bytes(c, g)) = g - c /\ Len(Bytes(c, to)) = to - c
        BY <1>3, <4>2, <4>5, BytesShape
      <4>7. g = to
        BY <1>3, <4>2, <4>4, <4>6, SMTT(60)
      <4>8. QED
        BY <1>3, <2>3, <3>1, <3>2, <4>7
    <3>4. Holds(q, e, f, g)
      BY <1>6, <1>9, <1>11, <3>2, <3>3 DEF Holds
    <3>5. QED
      BY <3>2, <3>4
  <2>4. Covers(q, e, to, S)
    BY <2>3 DEF Covers
  <2>5. QED
    BY <1>9, <2>4 DEF Ahead
<1>12. QED
  BY <1>10, <1>11

\* The loop delivers all that can be delivered.
LEMMA DrainWaits ==
  ASSUME NEW q \in 0..SeqSpace-1, NEW d, NEW c \in Cuts, Waits(q, d, c),
         NEW S, S \subseteq Nat, Ahead(q, d, c, S),
         NEW e, e = DrainPending(d)
  PROVE  /\ e.next \notin DOMAIN e.pending
         /\ \E to \in Cuts : c <= to /\ Waits(q, e, to) /\ Ahead(q, e, to, S)
<1> DEFINE Good(x) == \E to \in Cuts : c <= to /\ Waits(q, x, to) /\ Ahead(q, x, to, S)
           I == {x \in Directions(Nat) : Good(x)}
<1>1. ASSUME NEW x \in I PROVE x \in Directions(Nat) /\ InBudget(x) /\ x.next # Unset
  <2>1. PICK to \in Cuts : Waits(q, x, to)
    OBVIOUS
  <2>2. to \in 0..SeqSpace-1
    BY CutIsPosition
  <2>3. Place(q, to) # Unset
    BY <2>2, PlaceIs DEF Unset
  <2>4. QED
    BY <2>1, <2>3 DEF Waits
<1>2. ASSUME NEW x \in I, x.next \in DOMAIN x.pending PROVE DrainOne(x) \in I
  <2>1. PICK b \in Cuts : c <= b /\ Waits(q, x, b) /\ Ahead(q, x, b, S)
    OBVIOUS
  <2>2. PICK y : y = DrainOne(x)
    OBVIOUS
  <2>3. PICK to \in Cuts : b < to /\ Waits(q, y, to) /\ Ahead(q, y, to, S)
    BY <1>2, <2>1, <2>2, DrainOneWaits
  <2>4. c <= to
    BY <2>1, <2>3, CutIsPosition
  <2>5. y \in Directions(Nat)
    BY <2>3 DEF Waits
  <2>6. QED
    BY <2>2, <2>3, <2>4, <2>5
<1>3. d \in I
  <2>1. c <= c
    BY CutIsPosition
  <2>2. d \in Directions(Nat)
    BY DEF Waits
  <2>3. QED
    BY <2>1, <2>2
<1> HIDE DEF I
<1>4. e \in I /\ e.next \notin DOMAIN e.pending
  BY <1>1, <1>2, <1>3, DrainReaches
<1>5. QED
  BY <1>4 DEF I

\* Bytes that push takes at once bring along what they were waited for by.
LEMMA DeliverWaits ==
  ASSUME NEW q \in 0..SeqSpace-1, NEW d, NEW c \in Cuts, Waits(q, d, c),
         NEW to \in Cuts, c < to,
         NEW S, S \subseteq Nat, Covers(q, d, c, S),
         NEW R, R \subseteq Nat, \A p \in R : p \in S \/ p < to,
         NEW e, e = DrainPending(Advance(d, Bytes(c, to)))
  PROVE  /\ e.next \notin DOMAIN e.pending
         /\ \E k \in Cuts : c < k /\ Waits(q, e, k) /\ Ahead(q, e, k, R)
<1>1. c \in Nat /\ to \in Nat /\ c <= to
  BY CutIsPosition
<1>2. PICK a : a = Advance(d, Bytes(c, to))
  OBVIOUS
<1>3. Waits(q, a, to) /\ (Lost(a) \/ a.pending = d.pending)
  BY <1>2, AdvanceWaits
<1>4. a.pending = d.pending => Covers(q, a, to, R)
  BY <1>1, AdvanceCovers
<1>5. Ahead(q, a, to, R)
  BY <1>3, <1>4 DEF Ahead
<1>6. e = DrainPending(a)
  BY <1>2
<1>7. /\ e.next \notin DOMAIN e.pending
      /\ \E k \in Cuts : to <= k /\ Waits(q, e, k) /\ Ahead(q, e, k, R)
  BY <1>3, <1>5, <1>6, DrainWaits
<1>8. PICK k \in Cuts : to <= k /\ Waits(q, e, k) /\ Ahead(q, e, k, R)
  BY <1>7
<1>9. k \in Nat /\ c < k
  BY <1>1, <1>8, CutIsPosition
<1>10. QED
  BY <1>7, <1>8, <1>9

\* The bytes that are ahead of the direction join what waits, or are refused.
LEMMA StashWaits ==
  ASSUME NEW q \in 0..SeqSpace-1, NEW d, NEW c \in Cuts, Waits(q, d, c),
         d.next \notin DOMAIN d.pending,
         NEW from \in Cuts, NEW to \in Cuts, from < to, from # c,
         NEW S, S \subseteq Nat, Covers(q, d, c, S),
         NEW R, R \subseteq Nat,
         \A p \in R : p \in S \/ (from <= p /\ p < to),
         ~HasBudget(d, Bytes(from, to)) \/ Place(q, from) \in DOMAIN d.pending => R \subseteq S,
         NEW e, e = Stash(d, Place(q, from), Bytes(from, to))
  PROVE  /\ e.next \notin DOMAIN e.pending
         /\ Waits(q, e, c)
         /\ Covers(q, e, c, R)
<1>1. /\ c \in Nat /\ from \in Nat /\ to \in Nat /\ from <= to
      /\ c \in 0..SeqSpace-1 /\ from \in 0..SeqSpace-1
  BY CutIsPosition
<1> DEFINE s == Place(q, from)
           payload == Bytes(from, to)
<1>2. d \in Directions(Nat) /\ InBudget(d) /\ d.next = Place(q, c) /\ EndsAt(d, c) /\ Genuine(q, d)
  BY DEF Waits
<1>3. s \in 0..SeqSpace-1 /\ payload \in Seq(Nat)
  BY <1>1, PlaceIs, BytesShape
<1>4. s # d.next
  BY <1>1, <1>2, PlaceInjective
<1>5. CASE HasBudget(d, payload) /\ s \notin DOMAIN d.pending
  <2>1. /\ e \in Directions(Nat) /\ InBudget(e)
        /\ e.next = d.next /\ e.stream = d.stream
        /\ e.pending[s] = payload /\ s \in DOMAIN e.pending /\ Taken(e, s, d)
    BY <1>2, <1>3, <1>5, StashKeeps
  <2>2. EndsAt(e, c)
    BY <1>2, <2>1 DEF EndsAt
  <2>3. ASSUME NEW r \in DOMAIN e.pending
        PROVE  \E f, t \in Cuts : f < t /\ r = Place(q, f) /\ e.pending[r] = Bytes(f, t)
    <3>1. CASE r = s
      BY <2>1, <3>1
    <3>2. CASE r # s
      <4>1. r \in DOMAIN d.pending /\ e.pending[r] = d.pending[r]
        BY <2>1, <3>2 DEF Taken
      <4>2. QED
        BY <1>2, <4>1 DEF Genuine
    <3>3. QED
      BY <3>1, <3>2
  <2>4. Waits(q, e, c)
    BY <1>2, <2>1, <2>2, <2>3 DEF Waits, Genuine
  <2>5. e.next \notin DOMAIN e.pending
    BY <1>4, <2>1 DEF Taken
  <2>6. ASSUME NEW p \in R, p >= c
        PROVE  \E f, t \in Cuts : f <= p /\ p < t /\ Holds(q, e, f, t)
    <3>1. CASE p \in S
      <4>1. PICK f \in Cuts, t \in Cuts : f <= p /\ p < t /\ Holds(q, d, f, t)
        BY <2>6, <3>1 DEF Covers
      <4>2. Holds(q, e, f, t)
        BY <2>1, <4>1 DEF Holds, Taken
      <4>3. QED
        BY <4>1, <4>2
    <3>2. CASE from <= p /\ p < to
      <4>1. Holds(q, e, from, to)
        BY <2>1 DEF Holds
      <4>2. QED
        BY <3>2, <4>1
    <3>3. QED
      BY <3>1, <3>2
  <2>7. QED
    BY <2>4, <2>5, <2>6 DEF Covers
<1>6. CASE ~(HasBudget(d, payload) /\ s \notin DOMAIN d.pending)
  <2>1. e = d
    BY <1>6 DEF Stash
  <2>2. R \subseteq S
    BY <1>6
  <2>3. Covers(q, d, c, R)
    BY <2>2 DEF Covers
  <2>4. QED
    BY <2>1, <2>3
<1>7. QED
  BY <1>5, <1>6

\* push without an origin: the payload is taken at once.
LEMMA FirstPushWaits ==
  ASSUME NEW q \in 0..SeqSpace-1,
         NEW d \in Directions(Nat), InBudget(d), d.next = Unset, Lost(d),
         NEW from \in Cuts, NEW to \in Cuts, from < to,
         NEW R, R \subseteq Nat, \A p \in R : p < to,
         NEW e, e = Push(d, Place(q, from), Bytes(from, to))
  PROVE  /\ e.next \notin DOMAIN e.pending
         /\ \E k \in Cuts : from < k /\ Waits(q, e, k) /\ Ahead(q, e, k, R)
<1>1. from \in Nat /\ from \in 0..SeqSpace-1
  BY CutIsPosition
<1> DEFINE s == Place(q, from)
<1>2. s \in 0..SeqSpace-1
  BY <1>1, PlaceIs
<1>3. PICK t : t = Started(d, s)
  OBVIOUS
<1>4. /\ t \in Directions(Nat) /\ InBudget(t)
      /\ t.pending = d.pending /\ t.stream = d.stream /\ t.next = s
  BY <1>2, <1>3, StartedKeeps, SMTT(60)
<1>5. Lost(t)
  BY <1>4 DEF Lost
<1>6. EndsAt(t, from) /\ Genuine(q, t)
  BY <1>5, LostKeeps
<1>7. Waits(q, t, from)
  BY <1>4, <1>6 DEF Waits
<1>8. e = DrainPending(Advance(t, Bytes(from, to)))
  <2>1. ~(s < s)
    BY <1>2, DirectionAssumption
  <2>2. QED
    BY <1>3, <2>1, PushCases
<1>9. PICK S : S = {}
  OBVIOUS
<1>10. S \subseteq Nat /\ Covers(q, t, from, S) /\ \A p \in R : p \in S \/ p < to
  BY <1>9 DEF Covers
<1>11. QED
  BY <1>7, <1>8, <1>10, DeliverWaits

\* No sequence number of the stream is behind that of an earlier byte.
Straight(q) == \A c \in Cuts : Place(q, 0) + c < SeqSpace

\* Without a wrap the sequence numbers compare as the positions do.
LEMMA StraightOrder ==
  ASSUME NEW q \in 0..SeqSpace-1, Straight(q), NEW b \in Cuts, NEW c \in Cuts
  PROVE  Place(q, b) < Place(q, c) <=> b < c
<1>1. SeqSpace \in Nat \ {0} /\ 0 \in 0..SeqSpace-1
  BY DirectionAssumption
<1>2. b \in 0..SeqSpace-1 /\ c \in 0..SeqSpace-1
  BY CutIsPosition
<1>3. PICK o \in 0..SeqSpace-1 : o = Place(q, 0)
  BY <1>1, PlaceIs
<1>4. o + b < SeqSpace /\ o + c < SeqSpace
  BY <1>3 DEF Straight
<1>5. o = IF q + 1 < SeqSpace THEN q + 1 ELSE q + 1 - SeqSpace
  <2>1. Place(q, 0) = IF q + 1 + 0 < SeqSpace THEN q + 1 + 0 ELSE q + 1 + 0 - SeqSpace
    BY <1>1, PlaceIs
  <2>2. QED
    BY <1>1, <1>3, <2>1
<1>6. Place(q, b) = IF q + 1 + b < SeqSpace THEN q + 1 + b ELSE q + 1 + b - SeqSpace
  BY <1>2, PlaceIs
<1>7. Place(q, c) = IF q + 1 + c < SeqSpace THEN q + 1 + c ELSE q + 1 + c - SeqSpace
  BY <1>2, PlaceIs
<1>8. Place(q, b) = o + b
  BY <1>1, <1>2, <1>4, <1>5, <1>6
<1>9. Place(q, c) = o + c
  BY <1>1, <1>2, <1>4, <1>5, <1>7
<1>10. QED
  BY <1>1, <1>2, <1>8, <1>9

\* Only what the direction waits for, what waits and the stream matter.
LEMMA SameWaits ==
  ASSUME NEW q, NEW d, NEW c, Waits(q, d, c),
         NEW e \in Directions(Nat), InBudget(e),
         e.next = d.next, e.stream = d.stream, e.pending = d.pending
  PROVE  Waits(q, e, c) /\ \A S : Covers(q, d, c, S) => Covers(q, e, c, S)
<1>1. d.next = Place(q, c) /\ EndsAt(d, c) /\ Genuine(q, d)
  BY DEF Waits
<1>2. EndsAt(e, c)
  BY <1>1 DEF EndsAt
<1>3. Genuine(q, e)
  BY <1>1 DEF Genuine
<1>4. \A S : Covers(q, d, c, S) => Covers(q, e, c, S)
  BY DEF Covers, Holds
<1>5. QED
  BY <1>1, <1>2, <1>3, <1>4 DEF Waits

\* push, when the direction waits for position c: what waits or was delivered
\* before does so afterwards, and the new bytes with it unless they are refused.
\* R is what must be covered now and S what was covered before; nothing is said
\* of a stream that crosses the end of the sequence space.
LEMMA PushWaits ==
  ASSUME NEW q \in 0..SeqSpace-1, NEW d, NEW c \in Cuts, Waits(q, d, c),
         d.next \notin DOMAIN d.pending,
         NEW from \in Cuts, NEW to \in Cuts, from < to,
         NEW S, S \subseteq Nat, Covers(q, d, c, S),
         NEW R, R \subseteq Nat, Straight(q) \/ R = {},
         \A p \in R : p \in S \/ (from <= p /\ p < to),
         from > c /\ (~HasBudget(d, Bytes(from, to)) \/ Place(q, from) \in DOMAIN d.pending)
           => R \subseteq S,
         NEW e, e = Push(d, Place(q, from), Bytes(from, to))
  PROVE  /\ e.next \notin DOMAIN e.pending
         /\ \E k \in Cuts :
              /\ c <= k /\ Waits(q, e, k)
              /\ Covers(q, e, k, R) \/ (c < k /\ Lost(e))
<1>1. /\ c \in Nat /\ from \in Nat /\ to \in Nat /\ c <= c /\ from <= to
      /\ c \in 0..SeqSpace-1 /\ from \in 0..SeqSpace-1 /\ to \in 0..SeqSpace-1
      /\ SeqSpace \in Nat \ {0}
  BY CutIsPosition, DirectionAssumption
<1>2. PICK s \in 0..SeqSpace-1 : s = Place(q, from)
  BY <1>1, PlaceIs
<1>3. PICK expected \in 0..SeqSpace-1 : expected = Place(q, c)
  BY <1>1, PlaceIs
<1>4. PICK payload : payload = Bytes(from, to)
  OBVIOUS
<1>5. Len(payload) = to - from
  BY <1>1, <1>4, BytesShape
<1>6. /\ d \in Directions(Nat) /\ InBudget(d) /\ d.next = expected /\ d.next # Unset
      /\ EndsAt(d, c) /\ Genuine(q, d)
  BY <1>1, <1>3 DEF Waits, Unset
<1>7. PICK t : t = Started(d, s)
  OBVIOUS
<1>8. /\ t \in Directions(Nat) /\ InBudget(t)
      /\ t.pending = d.pending /\ t.stream = d.stream /\ t.pendingBytes = d.pendingBytes
      /\ t.next = d.next
  <2>1. t \in Directions(Nat) /\ InBudget(t)
    BY <1>6, <1>7, StartedKeeps
  <2>2. t.pending = d.pending /\ t.stream = d.stream /\ t.pendingBytes = d.pendingBytes
    BY <1>6, <1>7, StartedKeeps
  <2>3. t.next = IF d.next = Unset THEN s ELSE d.next
    BY <1>6, <1>7, StartedKeeps
  <2>4. QED
    BY <1>6, <2>1, <2>2, <2>3
<1>9. Waits(q, t, c) /\ Covers(q, t, c, S) /\ t.next \notin DOMAIN t.pending
  <2>1. Waits(q, t, c) /\ Covers(q, t, c, S)
    BY <1>8, SameWaits
  <2>2. QED
    BY <1>8, <2>1
<1>10. PICK seenBytes : seenBytes = (expected - s) % SeqSpace
  OBVIOUS
<1>11. seenBytes = IF from <= c THEN c - from ELSE c - from + SeqSpace
  BY <1>1, <1>2, <1>3, <1>10, PlaceDistance
<1>12. e = Push(d, s, payload) /\ expected = IF d.next = Unset THEN s ELSE d.next
  BY <1>2, <1>4, <1>6
<1>13. ASSUME c < to, e = DrainPending(Advance(t, Bytes(c, to)))
       PROVE  /\ e.next \notin DOMAIN e.pending
              /\ \E k \in Cuts : c < k /\ Waits(q, e, k) /\ Ahead(q, e, k, R)
  <2>1. \A p \in R : p \in S \/ p < to
    OBVIOUS
  <2>2. QED
    BY <1>9, <1>13, <2>1, DeliverWaits
<1>14. CASE s < expected /\ seenBytes >= Len(payload)
  <2>1. e = t
    BY <1>7, <1>10, <1>12, <1>14, PushCases
  <2>2. ASSUME NEW p \in R, p >= c PROVE p \in S
    <3>1. Straight(q)
      OBVIOUS
    <3>2. from < c
      BY <1>2, <1>3, <1>14, <3>1, StraightOrder
    <3>3. to <= c
      BY <1>1, <1>5, <1>11, <1>14, <3>2
    <3>a. p \in Nat
      OBVIOUS
    <3>4. ~(p < to)
      BY <1>1, <2>2, <3>3, <3>a
    <3>5. p \in S \/ (from <= p /\ p < to)
      OBVIOUS
    <3>6. QED
      BY <3>4, <3>5
  <2>3. \A p \in R : p >= c => p \in S
    BY <2>2
  <2>4. Covers(q, t, c, R)
    BY <1>9, <2>3 DEF Covers
  <2>5. QED
    BY <1>1, <1>9, <2>1, <2>4
<1>15. CASE s < expected /\ ~(seenBytes >= Len(payload))
  <2>1. e = DrainPending(Advance(t, Trim(payload, seenBytes)))
    BY <1>7, <1>10, <1>12, <1>15, PushCases
  <2>2. from <= c /\ c < to /\ seenBytes = c - from
    BY <1>1, <1>5, <1>11, <1>15
  <2>3. Trim(payload, seenBytes) = Bytes(c, to)
    <3>1. c <= to
      BY <1>1, <2>2
    <3>2. Trim(Bytes(from, to), c - from) = Bytes(c, to)
      BY <1>1, <2>2, <3>1, TrimBytes
    <3>3. QED
      BY <1>4, <2>2, <3>2
  <2>4. QED
    BY <1>1, <1>13, <2>1, <2>2, <2>3, CutIsPosition DEF Ahead
<1>16. CASE ~(s < expected) /\ s = expected
  <2>1. from = c
    BY <1>1, <1>2, <1>3, <1>16, PlaceInjective
  <2>2. e = DrainPending(Advance(t, payload))
    BY <1>7, <1>10, <1>12, <1>16, PushCases
  <2>3. QED
    BY <1>1, <1>4, <1>13, <2>1, <2>2, CutIsPosition DEF Ahead
<1>17. CASE ~(s < expected) /\ s # expected
  <2>1. e = Stash(t, s, payload)
    BY <1>7, <1>10, <1>12, <1>17, PushCases
  <2>2. from # c
    BY <1>2, <1>3, <1>17
  <2>3. ~HasBudget(t, payload) \/ s \in DOMAIN t.pending => R \subseteq S
    <3>1. CASE R = {}
      BY <3>1
    <3>2. CASE Straight(q)
      <4>1. ~(from < c)
        BY <1>2, <1>3, <1>17, <3>2, StraightOrder
      <4>2. from > c
        BY <1>1, <2>2, <4>1
      <4>3. HasBudget(t, payload) <=> HasBudget(d, payload)
        BY <1>8 DEF HasBudget
      <4>4. QED
        BY <1>2, <1>4, <1>8, <4>2, <4>3
    <3>3. QED
      BY <3>1, <3>2
  <2>4. e.next \notin DOMAIN e.pending /\ Waits(q, e, c) /\ Covers(q, e, c, R)
    BY <1>2, <1>4, <1>9, <2>1, <2>2, <2>3, StashWaits
  <2>5. QED
    BY <1>1, <2>4
<1>18. QED
  BY <1>14, <1>15, <1>16, <1>17

\* The parser takes from the front: what is left ends where it did.
LEMMA TakeEnds ==
  ASSUME NEW d, NEW e, NEW c \in Nat, d.stream \in Seq(Nat), EndsAt(d, c),
         NEW n \in 1..Len(d.stream), e.stream = SubSeq(d.stream, n + 1, Len(d.stream))
  PROVE  /\ e.stream \in Seq(Nat) /\ Len(e.stream) = Len(d.stream) - n
         /\ EndsAt(e, c)
<1> DEFINE s == d.stream
<1>1. PICK m \in Nat : m = Len(s)
  OBVIOUS
<1>2. \A i \in 1..m : s[i] = c - m + i - 1
  BY <1>1 DEF EndsAt
<1>3. n \in 1..m /\ s \in Seq(Nat)
  BY <1>1
<1>4. e.stream = SubSeq(s, n + 1, m)
  BY <1>1
<1> HIDE DEF s
<1>5. n + 1 \in 1..m+1
  BY <1>3
<1>6. /\ SubSeq(s, n + 1, m) \in Seq(Nat)
      /\ Len(SubSeq(s, n + 1, m)) = m - n
      /\ \A i \in 1..m-n : SubSeq(s, n + 1, m)[i] = s[n + i]
  BY <1>1, <1>3, <1>5, SMTT(60)
<1>7. ASSUME NEW i \in 1..m-n PROVE e.stream[i] = c - (m - n) + i - 1
  <2>1. n + i \in 1..m
    BY <1>3
  <2>2. s[n + i] = c - m + (n + i) - 1
    BY <1>2, <2>1
  <2>3. e.stream[i] = s[n + i]
    BY <1>4, <1>6
  <2>4. n \in Nat /\ i \in Nat
    BY <1>3
  <2>5. c - m + (n + i) - 1 = c - (m - n) + i - 1
    BY <2>4
  <2>6. QED
    BY <2>2, <2>3, <2>5
<1>8. QED
  BY <1>1, <1>4, <1>6, <1>7 DEF EndsAt, s

-----------------------------------------------------------------------------
(* The invariant.                                                          *)

\* Before the capture shows anything of the stream.
Idle(d, c, S) ==
  /\ c = Unset /\ d.next = Unset
  /\ d \in Directions(Nat) /\ InBudget(d)
  /\ Lost(d) /\ S = {}

\* Afterwards.
Following(q, d, c, S) ==
  /\ c \in Cuts
  /\ Waits(q, d, c)
  /\ Straight(q) => Covers(q, d, c, S)

\* What holds between two steps: the direction waits for the byte at cursor,
\* nothing that waits out of order is what it waits for, and what was seen and
\* is not delivered waits out of order.
IInv ==
  /\ initialSeq \in 0..SeqSpace-1
  /\ seen \in SUBSET Nat
  /\ direction.next \notin DOMAIN direction.pending
  /\ Idle(direction, cursor, seen) \/ Following(initialSeq, direction, cursor, seen)

\* SeqAt of the module is Place from its first sequence number.
LEMMA SeqAtIsPlace == \A p : SeqAt(p) = Place(initialSeq, p)
BY DEF SeqAt, Place

\* Wraps of the module is the opposite of Straight.
LEMMA WrapsIsNotStraight == initialSeq \in 0..SeqSpace-1 => (Wraps <=> ~Straight(initialSeq))
<1> SUFFICES ASSUME initialSeq \in 0..SeqSpace-1 PROVE Wraps <=> ~Straight(initialSeq)
  OBVIOUS
<1>1. SeqSpace \in Nat \ {0} /\ 0 \in 0..SeqSpace-1
  BY DirectionAssumption
<1>2. SeqAt(0) = Place(initialSeq, 0)
  BY SeqAtIsPlace
<1>3. PICK o \in 0..SeqSpace-1 : o = Place(initialSeq, 0)
  BY <1>1, PlaceIs
<1>4. \A c \in Cuts : o + c >= SeqSpace <=> ~(o + c < SeqSpace)
  BY <1>1, CutIsPosition
<1>5. QED
  BY <1>2, <1>3, <1>4 DEF Wraps, Straight

\* Nothing was captured when the capture begins.
LEMMA InitInvariant == Init => IInv
<1> SUFFICES ASSUME Init PROVE IInv
  OBVIOUS
<1>1. initialSeq \in 0..SeqSpace-1
  BY ReassemblyAssumption DEF Init
<1>2. direction \in Directions(Nat) /\ InBudget(direction)
  BY NewDirectionKeeps DEF Init
<1>3. direction.next = Unset /\ Lost(direction)
  BY DEF Init, NewDirection, Lost
<1>4. direction.next \notin DOMAIN direction.pending
  BY <1>3, NothingWaits DEF Lost
<1>5. Idle(direction, cursor, seen)
  BY <1>2, <1>3 DEF Init, Idle
<1>6. QED
  BY <1>1, <1>4, <1>5 DEF IInv, Init

\* A SYN, first or repeated, keeps the invariant.
LEMMA SynKeeps ==
  ASSUME IInv, SynSegment
  PROVE  IInv'
<1>1. /\ initialSeq' = initialSeq /\ seen' = seen
      /\ direction' = PushSyn(direction, initialSeq)
      /\ cursor' = IF cursor = Unset THEN 0 ELSE cursor
  BY DEF SynSegment
<1>2. initialSeq \in 0..SeqSpace-1 /\ seen \in SUBSET Nat
  BY DEF IInv
<1>3. initialSeq \in Int
  BY <1>2, DirectionAssumption
<1>4. CASE Idle(direction, cursor, seen)
  <2>1. direction \in Directions(Nat) /\ InBudget(direction) /\ direction.next = Unset
    BY <1>4 DEF Idle
  <2>2. direction' \in Directions(Nat) /\ InBudget(direction')
    BY <1>1, <1>3, <2>1, PushSynKeeps
  <2>3. direction'.pending = direction.pending /\ direction'.stream = direction.stream
    BY <1>1, <1>3, <2>1, PushSynKeeps
  <2>4. direction'.next = (initialSeq + 1) % SeqSpace
    BY <1>1, <1>3, <2>1, PushSynKeeps
  <2>5. Lost(direction')
    BY <1>4, <2>3 DEF Idle, Lost
  <2>6. direction'.next = Place(initialSeq, 0)
    BY <1>3, <2>4 DEF Place
  <2>7. cursor' = 0 /\ 0 \in Cuts
    BY <1>1, <1>4, ReassemblyAssumption DEF Idle
  <2>8. EndsAt(direction', 0) /\ Genuine(initialSeq, direction')
    BY <2>5, LostKeeps
  <2>9. Covers(initialSeq, direction', 0, seen)
    BY <1>4 DEF Idle, Covers
  <2>10. Following(initialSeq, direction', cursor', seen)
    BY <2>2, <2>6, <2>7, <2>8, <2>9 DEF Following, Waits
  <2>11. direction'.next \notin DOMAIN direction'.pending
    BY <2>5, NothingWaits DEF Lost
  <2>12. QED
    BY <1>1, <1>2, <2>10, <2>11 DEF IInv
<1>5. CASE Following(initialSeq, direction, cursor, seen)
  <2>1. cursor \in Cuts /\ Waits(initialSeq, direction, cursor)
    BY <1>5 DEF Following
  <2>2. cursor \in 0..SeqSpace-1 /\ cursor \in Nat
    BY <2>1, CutIsPosition
  <2>3. direction \in Directions(Nat) /\ InBudget(direction) /\ direction.next # Unset
    BY <1>2, <2>1, <2>2, PlaceIs DEF Waits, Unset
  <2>4. direction' \in Directions(Nat) /\ InBudget(direction')
    BY <1>1, <1>3, <2>3, PushSynKeeps
  <2>5. direction'.pending = direction.pending /\ direction'.stream = direction.stream
    BY <1>1, <1>3, <2>3, PushSynKeeps
  <2>6. direction'.next = direction.next
    BY <1>1, <1>3, <2>3, PushSynKeeps
  <2>7. cursor' = cursor
    BY <1>1, <2>2 DEF Unset
  <2>8. Following(initialSeq, direction', cursor, seen)
    BY <1>5, <2>1, <2>4, <2>5, <2>6, SameWaits DEF Following
  <2>9. direction'.next \notin DOMAIN direction'.pending
    BY <2>5, <2>6 DEF IInv
  <2>10. QED
    BY <1>1, <1>2, <2>7, <2>8, <2>9 DEF IInv
<1>6. QED
  BY <1>4, <1>5 DEF IInv

\* The parser takes from the front of the stream and nothing else.
LEMMA ParserKeeps ==
  ASSUME IInv, NEW n \in 1..StreamLimit, ParserTakes(n)
  PROVE  IInv'
<1>1. /\ initialSeq' = initialSeq /\ seen' = seen /\ cursor' = cursor
      /\ n \in 1..Len(direction.stream)
      /\ direction' = [direction EXCEPT !.stream = SubSeq(direction.stream, n + 1, Len(direction.stream))]
  BY DEF ParserTakes
<1>2. initialSeq \in 0..SeqSpace-1 /\ seen \in SUBSET Nat
  BY DEF IInv
<1>3. ~Idle(direction, cursor, seen)
  BY <1>1 DEF Idle, Lost
<1>4. Following(initialSeq, direction, cursor, seen)
  BY <1>3 DEF IInv
<1>5. cursor \in Cuts /\ Waits(initialSeq, direction, cursor) /\ cursor \in Nat
  BY <1>4, CutIsPosition DEF Following
<1>6. /\ direction \in Directions(Nat) /\ InBudget(direction)
      /\ direction.next = Place(initialSeq, cursor)
      /\ EndsAt(direction, cursor) /\ Genuine(initialSeq, direction)
  BY <1>5 DEF Waits
<1>7. /\ direction'.next = direction.next /\ direction'.pending = direction.pending
      /\ direction'.pendingBytes = direction.pendingBytes
      /\ direction'.stream = SubSeq(direction.stream, n + 1, Len(direction.stream))
  BY <1>1, <1>6 DEF Directions
<1>8. direction.stream \in Seq(Nat)
  BY <1>6 DEF Directions
<1>9. /\ direction'.stream \in Seq(Nat)
      /\ Len(direction'.stream) = Len(direction.stream) - n
      /\ EndsAt(direction', cursor)
  BY <1>1, <1>5, <1>6, <1>7, <1>8, TakeEnds
<1>10. direction' \in Directions(Nat)
  <2>1. \A q \in Seq(Nat) : [direction EXCEPT !.stream = q] \in Directions(Nat)
    BY <1>6 DEF Directions
  <2>2. QED
    BY <1>1, <1>7, <1>9, <2>1
<1>11. InBudget(direction')
  <2>1. Len(direction'.stream) <= StreamLimit
    BY <1>1, <1>6, <1>8, <1>9, DirectionAssumption DEF InBudget
  <2>2. QED
    BY <1>6, <1>7, <2>1 DEF InBudget, Waiting
<1>12. Genuine(initialSeq, direction')
  BY <1>6, <1>7 DEF Genuine
<1>13. Waits(initialSeq, direction', cursor)
  BY <1>6, <1>7, <1>9, <1>10, <1>11, <1>12 DEF Waits
<1>14. \A S : Covers(initialSeq, direction, cursor, S) => Covers(initialSeq, direction', cursor, S)
  BY <1>7 DEF Covers, Holds
<1>15. Following(initialSeq, direction', cursor, seen)
  BY <1>4, <1>13, <1>14 DEF Following
<1>16. QED
  BY <1>1, <1>2, <1>7, <1>15 DEF IInv

\* How far next_sequence moved says where the direction is now.
LEMMA MovedTo ==
  ASSUME NEW q \in 0..SeqSpace-1, NEW c \in Cuts, NEW k \in Cuts, c <= k
  PROVE  c + ((Place(q, k) - Place(q, c)) % SeqSpace) = k
<1>1. c \in 0..SeqSpace-1 /\ k \in 0..SeqSpace-1 /\ c \in Nat /\ k \in Nat
  BY CutIsPosition
<1>2. (Place(q, k) - Place(q, c)) % SeqSpace = k - c
  BY <1>1, PlaceDistance
<1>3. QED
  BY <1>1, <1>2

\* Two positions of the stream have two sequence numbers.
LEMMA PlacesDiffer ==
  ASSUME NEW q \in 0..SeqSpace-1, NEW c \in Cuts, NEW k \in Cuts, c < k
  PROVE  Place(q, c) # Place(q, k)
<1>1. c \in 0..SeqSpace-1 /\ k \in 0..SeqSpace-1 /\ c \in Nat /\ k \in Nat
  BY CutIsPosition
<1>2. c # k
  BY <1>1
<1>3. QED
  BY <1>1, <1>2, PlaceInjective

\* Data, when the capture has shown nothing before.
LEMMA FirstDataKeeps ==
  ASSUME IInv, Idle(direction, cursor, seen),
         NEW from \in Cuts, NEW to \in Cuts, from < to, DataSegment(from, to)
  PROVE  IInv'
<1> DEFINE q == initialSeq
           R == from..to-1
<1>1. q \in 0..SeqSpace-1
  BY DEF IInv
<1>2. /\ direction \in Directions(Nat) /\ InBudget(direction)
      /\ direction.next = Unset /\ Lost(direction) /\ cursor = Unset /\ seen = {}
  BY DEF Idle
<1>3. from \in Nat /\ to \in Nat
  BY CutIsPosition
<1>4. R \subseteq Nat /\ \A p \in R : p < to
  BY <1>3
<1>5. /\ q' = q
      /\ direction' = Push(direction, Place(q, from), Bytes(from, to))
      /\ cursor' = IF direction'.next = Unset THEN Unset
                   ELSE from + ((direction'.next - Place(q, from)) % SeqSpace)
      /\ seen' = IF Overflowed THEN {} ELSE R
  <2>1. ~Refused(from, to)
    BY <1>2 DEF Refused
  <2>2. seen \union {p \in R : cursor # Unset => p >= cursor} = R
    BY <1>2
  <2>3. QED
    BY <1>2, <2>1, <2>2, SeqAtIsPlace DEF DataSegment, Arrival
<1> HIDE DEF R
<1>6. /\ direction'.next \notin DOMAIN direction'.pending
      /\ \E k \in Cuts : from < k /\ Waits(q, direction', k) /\ Ahead(q, direction', k, R)
  BY <1>1, <1>2, <1>4, <1>5, FirstPushWaits
<1>7. PICK k \in Cuts : from < k /\ Waits(q, direction', k) /\ Ahead(q, direction', k, R)
  BY <1>6
<1>8. k \in Nat /\ k \in 0..SeqSpace-1 /\ from <= k
  BY <1>3, <1>7, CutIsPosition
<1>9. direction'.next = Place(q, k) /\ direction'.next # Unset
  BY <1>1, <1>7, <1>8, PlaceIs DEF Waits, Unset
<1>10. cursor' = k
  BY <1>1, <1>5, <1>8, <1>9, MovedTo
<1>11. seen' \subseteq Nat /\ Covers(q, direction', k, seen')
  <2>1. CASE Overflowed
    <3>1. seen' = {}
      BY <1>5, <2>1
    <3>2. QED
      BY <3>1 DEF Covers
  <2>2. CASE ~Overflowed
    <3>1. seen' = R
      BY <1>5, <2>2
    <3>2. ~Lost(direction')
      BY <1>2, <1>9, <2>2 DEF Overflowed, Lost
    <3>3. QED
      BY <1>4, <1>7, <3>1, <3>2 DEF Ahead
  <2>3. QED
    BY <2>1, <2>2
<1>12. Following(q, direction', cursor', seen')
  BY <1>7, <1>10, <1>11 DEF Following
<1>13. QED
  BY <1>1, <1>5, <1>6, <1>11, <1>12 DEF IInv

\* Data, when the direction waits for a position.
LEMMA LaterDataKeeps ==
  ASSUME IInv, Following(initialSeq, direction, cursor, seen),
         NEW from \in Cuts, NEW to \in Cuts, from < to, DataSegment(from, to)
  PROVE  IInv'
<1> DEFINE q == initialSeq
           c == cursor
           new == {p \in from..to-1 : p >= c}
           kept == IF Refused(from, to) THEN seen ELSE seen \union new
<1>1. q \in 0..SeqSpace-1 /\ seen \subseteq Nat /\ direction.next \notin DOMAIN direction.pending
  BY DEF IInv
<1>2. c \in Cuts /\ Waits(q, direction, c) /\ (Straight(q) => Covers(q, direction, c, seen))
  BY DEF Following
<1>3. c \in Nat /\ from \in Nat /\ to \in Nat /\ c # Unset /\ c \in 0..SeqSpace-1
  BY <1>2, CutIsPosition DEF Unset
<1>4. direction.next = Place(q, c) /\ direction.next # Unset
  BY <1>1, <1>2, <1>3, PlaceIs DEF Waits, Unset
<1>5. /\ q' = q
      /\ direction' = Push(direction, Place(q, from), Bytes(from, to))
      /\ cursor' = IF direction'.next = Unset THEN Unset
                   ELSE c + ((direction'.next - direction.next) % SeqSpace)
      /\ seen' = IF Overflowed THEN {} ELSE kept
  <2>1. {p \in from..to-1 : cursor # Unset => p >= cursor} = new
    BY <1>3
  <2>2. QED
    BY <1>3, <2>1, SeqAtIsPlace DEF DataSegment, Arrival, Moved
<1>6. PICK S : S = IF Straight(q) THEN seen ELSE {}
  OBVIOUS
<1>7. PICK R : R = IF Straight(q) THEN kept ELSE {}
  OBVIOUS
<1>8. new \subseteq Nat
  BY <1>3
<1>9. kept \subseteq Nat
  BY <1>1, <1>8
<1>10. S \subseteq Nat /\ Covers(q, direction, c, S)
  BY <1>1, <1>2, <1>6 DEF Covers
<1>11. R \subseteq Nat /\ (Straight(q) \/ R = {})
  BY <1>7, <1>9
<1>12. ASSUME NEW p \in R PROVE p \in S \/ (from <= p /\ p < to)
  <2>1. Straight(q) /\ S = seen /\ p \in kept
    BY <1>6, <1>7, <1>12
  <2>2. CASE p \in seen
    BY <2>1, <2>2
  <2>3. CASE p \in new
    BY <1>3, <2>3
  <2>4. QED
    BY <2>1, <2>2, <2>3
<1>13. ASSUME from > c,
              ~HasBudget(direction, Bytes(from, to)) \/ Place(q, from) \in DOMAIN direction.pending
       PROVE  R \subseteq S
  <2>1. Refused(from, to)
    BY <1>3, <1>13, SeqAtIsPlace DEF Refused
  <2>2. kept = seen
    BY <2>1
  <2>3. QED
    BY <1>6, <1>7, <2>2
<1> HIDE DEF kept, new
<1>14. /\ direction'.next \notin DOMAIN direction'.pending
       /\ \E k \in Cuts : /\ c <= k /\ Waits(q, direction', k)
                          /\ Covers(q, direction', k, R) \/ (c < k /\ Lost(direction'))
  BY <1>1, <1>2, <1>5, <1>10, <1>11, <1>12, <1>13, PushWaits
<1>15. PICK k \in Cuts : /\ c <= k /\ Waits(q, direction', k)
                         /\ Covers(q, direction', k, R) \/ (c < k /\ Lost(direction'))
  BY <1>14
<1>16. k \in Nat /\ k \in 0..SeqSpace-1
  BY CutIsPosition
<1>17. direction'.next = Place(q, k) /\ direction'.next # Unset
  BY <1>1, <1>15, <1>16, PlaceIs DEF Waits, Unset
<1>18. cursor' = k
  BY <1>1, <1>2, <1>4, <1>5, <1>15, <1>17, MovedTo
<1>19. seen' \subseteq Nat
  BY <1>5, <1>9
<1>20. Straight(q) => Covers(q, direction', k, seen')
  <2>1. CASE Overflowed
    <3>1. seen' = {}
      BY <1>5, <2>1
    <3>2. QED
      BY <3>1 DEF Covers
  <2>2. CASE ~Overflowed
    <3>1. seen' = kept
      BY <1>5, <2>2
    <3>2. ~(c < k /\ Lost(direction'))
      <4>1. SUFFICES ASSUME c < k, Lost(direction') PROVE FALSE
        OBVIOUS
      <4>2. Place(q, c) # Place(q, k)
        BY <1>1, <1>2, <4>1, PlacesDiffer
      <4>3. Overflowed
        BY <1>4, <1>17, <4>1, <4>2 DEF Overflowed, Lost
      <4>4. QED
        BY <2>2, <4>3
    <3>3. Covers(q, direction', k, R)
      BY <1>15, <3>2
    <3>4. QED
      BY <1>7, <3>1, <3>3
  <2>3. QED
    BY <2>1, <2>2
<1>21. Following(q, direction', cursor', seen')
  BY <1>15, <1>18, <1>20 DEF Following
<1>22. QED
  BY <1>1, <1>5, <1>14, <1>19, <1>21 DEF IInv

\* Every step keeps the invariant.
LEMMA NextKeeps == IInv /\ [Next]_vars => IInv'
<1> SUFFICES ASSUME IInv, [Next]_vars PROVE IInv'
  OBVIOUS
<1>1. CASE SynSegment
  BY <1>1, SynKeeps
<1>2. ASSUME NEW s \in Segments, DataSegment(s[1], s[2]) PROVE IInv'
  <2>1. s[1] \in Cuts /\ s[2] \in Cuts /\ s[1] < s[2]
    BY DEF Segments
  <2>2. CASE Idle(direction, cursor, seen)
    BY <1>2, <2>1, <2>2, FirstDataKeeps
  <2>3. CASE Following(initialSeq, direction, cursor, seen)
    BY <1>2, <2>1, <2>3, LaterDataKeeps
  <2>4. QED
    BY <2>2, <2>3 DEF IInv
<1>3. ASSUME NEW n \in 1..StreamLimit, ParserTakes(n) PROVE IInv'
  BY <1>3, ParserKeeps
<1>4. CASE UNCHANGED vars
  BY <1>4 DEF vars, IInv
<1>5. QED
  BY <1>1, <1>2, <1>3, <1>4 DEF Next

\* The inductive invariant holds in every state: SynSegment, DataSegment and the
\* parser keep it, in whatever order the network delivers.
THEOREM Invariant == Spec => []IInv
BY InitInvariant, NextKeeps, PTL DEF Spec

\* In every behaviour, for every size of the sequence space, every two limits
\* and every way of cutting the stream: push, append and drain_pending keep
\* MAX_STREAM_BUFFER and MAX_OUT_OF_ORDER_BYTES, pending_bytes is the number of
\* bytes that wait, and next_sequence is the number of the byte waited for.
THEOREM Budgets == Spec => []BudgetsKept
<1>1. IInv => BudgetsKept
  <2> SUFFICES ASSUME IInv PROVE BudgetsKept
    OBVIOUS
  <2>1. direction \in Directions(Nat) /\ InBudget(direction)
    BY DEF IInv, Idle, Following, Waits
  <2>2. DOMAIN direction.pending \subseteq 0..SeqSpace-1
    BY <2>1, DirectionShape
  <2>3. direction.next \in {Unset} \union 0..SeqSpace-1
    BY <2>1 DEF Directions
  <2>4. CASE Idle(direction, cursor, seen)
    <3>1. TypeOK
      BY <2>2, <2>3, <2>4 DEF TypeOK, Idle
    <3>2. QED
      BY <2>1, <3>1 DEF BudgetsKept, InBudget, Waiting, PendingSizes
  <2>5. CASE Following(initialSeq, direction, cursor, seen)
    <3>1. cursor \in Cuts /\ direction.next = Place(initialSeq, cursor)
      BY <2>5 DEF Following, Waits
    <3>a. cursor \in 0..SeqSpace-1 /\ initialSeq \in 0..SeqSpace-1
      BY <3>1, CutIsPosition DEF IInv
    <3>b. Place(initialSeq, cursor) \in 0..SeqSpace-1
      BY <3>a, PlaceIs
    <3>2. cursor # Unset /\ direction.next # Unset
      BY <3>1, <3>a, <3>b DEF Unset
    <3>3. TypeOK
      BY <2>2, <2>3, <3>1, <3>2, SeqAtIsPlace DEF TypeOK
    <3>4. QED
      BY <2>1, <3>3 DEF BudgetsKept, InBudget, Waiting, PendingSizes
  <2>6. QED
    BY <2>4, <2>5 DEF IInv
<1>2. QED
  BY <1>1, Invariant, PTL

\* What the parser reads is a run of consecutive bytes of the sender that ends
\* where the direction waits, whatever the network did to its segments.
THEOREM Contiguous == Spec => []StreamIsContiguous
<1>1. IInv => StreamIsContiguous
  <2> SUFFICES ASSUME IInv PROVE StreamIsContiguous
    OBVIOUS
  <2>1. CASE Idle(direction, cursor, seen)
    BY <2>1 DEF StreamIsContiguous, Idle, Lost
  <2>2. CASE Following(initialSeq, direction, cursor, seen)
    BY <2>2 DEF StreamIsContiguous, Following, Waits, EndsAt
  <2>3. QED
    BY <2>1, <2>2 DEF IInv
<1>2. QED
  BY <1>1, Invariant, PTL

\* drain_pending leaves nothing behind: while no waiting segment was overtaken,
\* the byte the direction waits for is one the capture has not shown it.
THEOREM Delivered == Spec => []SeenIsDelivered
<1>1. IInv => SeenIsDelivered
  <2> SUFFICES ASSUME IInv, cursor # Unset, ~Overtaken, ~Wraps, cursor \in seen PROVE FALSE
    BY DEF SeenIsDelivered
  <2> DEFINE q == initialSeq
  <2>1. q \in 0..SeqSpace-1 /\ direction.next \notin DOMAIN direction.pending
    BY DEF IInv
  <2>2. Following(q, direction, cursor, seen)
    BY DEF IInv, Idle
  <2>3. /\ cursor \in Cuts /\ direction.next = Place(q, cursor)
        /\ Covers(q, direction, cursor, seen)
    BY <2>1, <2>2, WrapsIsNotStraight DEF Following, Waits
  <2>4. cursor \in Nat /\ cursor >= cursor
    BY <2>3, CutIsPosition
  <2>5. PICK from \in Cuts, to \in Cuts : from <= cursor /\ Holds(q, direction, from, to)
    BY <2>3, <2>4 DEF Covers
  <2>6. from # cursor
    BY <2>1, <2>3, <2>5 DEF Holds
  <2>7. from \in Nat /\ from \in 0..SeqSpace-1 /\ 0 \in 0..SeqSpace-1 /\ 0 <= from
    BY CutIsPosition, DirectionAssumption
  <2>8. (Place(q, from) - Place(q, 0)) % SeqSpace = from
    <3>1. (Place(q, from) - Place(q, 0)) % SeqSpace = from - 0
      BY <2>1, <2>7, PlaceDistance
    <3>2. QED
      BY <2>7, <3>1
  <2>9. from < cursor
    BY <2>4, <2>5, <2>6, <2>7
  <2>10. Overtaken
    BY <2>5, <2>8, <2>9, SeqAtIsPlace DEF Overtaken, Holds
  <2>11. QED
    BY <2>10
<1>2. QED
  BY <1>1, Invariant, PTL
=============================================================================
