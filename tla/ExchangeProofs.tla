--------------------------- MODULE ExchangeProofs ---------------------------
(***************************************************************************)
(* Proofs about Exchange, for every set of messages that are what          *)
(* MessageAssumption says peers send, every size of the reads and every    *)
(* limit.  The argument is about places in octets: what was read is what   *)
(* the peer meant, as far as both go, and what a search finds in one it    *)
(* finds in the other, if it is far enough.  So the loop over the chunks   *)
(* finds the chunks the peer made and no others, whatever they look like,  *)
(* and ends where they end (ChunkedFound).  With that a reader knows when  *)
(* to stop (ReaderKnows), and IInv is inductive.                           *)
(***************************************************************************)
EXTENDS Exchange, FiniteSetTheorems, SequenceTheorems, TLAPS

-----------------------------------------------------------------------------
(* Induction.                                                              *)

\* A set of natural numbers that is not empty has a least element.
LEMMA LeastPlace ==
  ASSUME NEW S \in SUBSET Nat, S # {}
  PROVE  /\ Min(S) \in S
         /\ \A n \in S : Min(S) <= n
<1> DEFINE Less == {ss \in Nat \X Nat : ss[1] < ss[2]}
<1>1. IsWellFoundedOn(Less, Nat)
  BY NatLessThanWellFounded DEF OpToRel
<1> HIDE DEF Less
<1>2. PICK n \in S : \A m \in S : <<m, n>> \notin Less
  BY <1>1, WFMin
<1>3. \A m \in S : ~(m < n)
  BY <1>2 DEF Less
<1>4. \E x \in S : \A y \in S : x <= y
  BY <1>3
<1>5. QED
  BY <1>4 DEF Min

\* Induction, on membership in a set.
LEMMA InductivePlaces ==
  ASSUME NEW S, 0 \in S, \A n \in Nat : n \in S => n + 1 \in S
  PROVE  Nat \subseteq S
<1> SUFFICES ASSUME Nat \ S # {} PROVE FALSE
  OBVIOUS
<1>1. PICK n \in Nat \ S : \A m \in Nat \ S : n <= m
  BY LeastPlace
<1>2. n # 0 /\ n - 1 \in Nat
  BY <1>1
<1>3. n - 1 \in S
  BY <1>1, <1>2
<1>4. QED
  BY <1>1, <1>2, <1>3

-----------------------------------------------------------------------------
(* Places.                                                                 *)

\* The octets of part begin at a place.
BeginsAt(octets, place, part) ==
  /\ place + Len(part) <= Len(octets)
  /\ \A k \in 1..Len(part) : octets[place + k] = part[k]

\* Place finds the first place from start, or none if there is none.
LEMMA PlaceIs ==
  ASSUME NEW octets \in Seq(Octet), NEW start \in Nat, NEW part \in Seq(Octet),
         NEW place, place = Place(octets, start, part)
  PROVE  \/ /\ place = Nowhere
            /\ \A i \in Nat : i >= start => ~BeginsAt(octets, i, part)
         \/ /\ place \in Nat /\ place >= start /\ BeginsAt(octets, place, part)
            /\ \A i \in Nat : i >= start /\ i < place => ~BeginsAt(octets, i, part)
<1> DEFINE places == {i \in start..(Len(octets) - Len(part)) :
                        \A k \in 1..Len(part) : octets[i + k] = part[k]}
<1>1. \A i \in Nat : i \in places <=> i >= start /\ BeginsAt(octets, i, part)
  BY DEF BeginsAt
<1>2. places \in SUBSET Nat
  OBVIOUS
<1>3. place = IF places = {} THEN Nowhere ELSE Min(places)
  BY DEF Place
<1>4. PICK S \in SUBSET Nat : S = places
  BY <1>2
<1>5. \A i \in Nat : i \in S <=> i >= start /\ BeginsAt(octets, i, part)
  BY <1>1, <1>4
<1>6. place = IF S = {} THEN Nowhere ELSE Min(S)
  BY <1>3, <1>4
<1> HIDE DEF places
<1>7. CASE S = {}
  BY <1>5, <1>6, <1>7
<1>8. CASE S # {}
  <2>1. Min(S) \in S /\ \A n \in S : Min(S) <= n
    BY <1>8, LeastPlace
  <2>2. place \in S /\ \A n \in S : place <= n
    BY <1>6, <1>8, <2>1
  <2>3. QED
    BY <1>5, <2>2
<1>9. QED
  BY <1>7, <1>8

\* A place is the first one if no earlier one is.
LEMMA PlaceFirst ==
  ASSUME NEW octets \in Seq(Octet), NEW start \in Nat, NEW part \in Seq(Octet),
         NEW i \in Nat, i >= start, BeginsAt(octets, i, part),
         \A j \in Nat : j >= start /\ j < i => ~BeginsAt(octets, j, part)
  PROVE  Place(octets, start, part) = i
<1>1. PICK place : place = Place(octets, start, part)
  OBVIOUS
<1>2. QED
  BY <1>1, PlaceIs DEF Nowhere

\* Where one begins, the search ends at once.
LEMMA PlaceHere ==
  ASSUME NEW octets \in Seq(Octet), NEW start \in Nat, NEW part \in Seq(Octet)
  PROVE  Place(octets, start, part) = start <=> BeginsAt(octets, start, part)
<1>1. PICK place : place = Place(octets, start, part)
  OBVIOUS
<1>2. \/ /\ place = Nowhere
         /\ \A i \in Nat : i >= start => ~BeginsAt(octets, i, part)
      \/ /\ place \in Nat /\ place >= start /\ BeginsAt(octets, place, part)
         /\ \A i \in Nat : i >= start /\ i < place => ~BeginsAt(octets, i, part)
  BY <1>1, PlaceIs
<1>3. QED
  BY <1>1, <1>2 DEF Nowhere

\* The octets of one are those of the other, as far as both go.
Agree(octets, others) ==
  \A i \in Nat : i >= 1 /\ i <= Len(octets) /\ i <= Len(others) => octets[i] = others[i]

\* What begins at a place of one begins there in the other.
LEMMA BeginsInBoth ==
  ASSUME NEW octets \in Seq(Octet), NEW others \in Seq(Octet), Agree(octets, others),
         NEW part \in Seq(Octet), NEW i \in Nat,
         i + Len(part) <= Len(octets), i + Len(part) <= Len(others)
  PROVE  BeginsAt(octets, i, part) <=> BeginsAt(others, i, part)
<1>1. \A k \in 1..Len(part) : octets[i + k] = others[i + k]
  <2>1. TAKE k \in 1..Len(part)
  <2>2. i + k \in Nat /\ i + k >= 1 /\ i + k <= Len(octets) /\ i + k <= Len(others)
    OBVIOUS
  <2>3. QED
    BY <2>2 DEF Agree
<1>2. QED
  BY <1>1 DEF BeginsAt

\* What is found in octets that agree is found in both, as far as they go.
LEMMA PlaceInBoth ==
  ASSUME NEW octets \in Seq(Octet), NEW others \in Seq(Octet), Agree(octets, others),
         NEW start \in Nat, NEW part \in Seq(Octet),
         Place(others, start, part) # Nowhere
  PROVE  Place(octets, start, part) =
           IF Place(others, start, part) + Len(part) <= Len(octets)
           THEN Place(others, start, part)
           ELSE Nowhere
<1>1. PICK place : place = Place(others, start, part)
  OBVIOUS
<1>2. /\ place \in Nat /\ place >= start /\ BeginsAt(others, place, part)
      /\ \A i \in Nat : i >= start /\ i < place => ~BeginsAt(others, i, part)
  BY <1>1, PlaceIs
<1>3. place + Len(part) <= Len(others)
  BY <1>2 DEF BeginsAt
<1>4. CASE place + Len(part) <= Len(octets)
  <2>1. BeginsAt(octets, place, part)
    BY <1>2, <1>3, <1>4, BeginsInBoth
  <2>2. \A i \in Nat : i >= start /\ i < place => ~BeginsAt(octets, i, part)
    BY <1>2, <1>3, <1>4, BeginsInBoth
  <2>3. Place(octets, start, part) = place
    BY <1>2, <2>1, <2>2, PlaceFirst
  <2>4. QED
    BY <1>1, <1>4, <2>3
<1>5. CASE ~(place + Len(part) <= Len(octets))
  <2>1. PICK found : found = Place(octets, start, part)
    OBVIOUS
  <2>2. ASSUME found # Nowhere PROVE FALSE
    <3>1. found \in Nat /\ found >= start /\ BeginsAt(octets, found, part)
      BY <2>1, <2>2, PlaceIs
    <3>2. found + Len(part) <= Len(octets)
      BY <3>1 DEF BeginsAt
    <3>3. found < place
      BY <1>2, <1>5, <3>1, <3>2
    <3>4. BeginsAt(others, found, part)
      BY <1>3, <3>1, <3>2, <3>3, <1>2, BeginsInBoth
    <3>5. QED
      BY <1>2, <3>1, <3>3, <3>4
  <2>3. QED
    BY <1>1, <1>5, <2>1, <2>2
<1>6. QED
  BY <1>4, <1>5

-----------------------------------------------------------------------------
(* Functions that call themselves.                                         *)

FollowsNext(f, n, next, g, none) ==
  \A c \in 0..n : f[c] = g[<<c, IF next[c] <= n THEN f[next[c]] ELSE none>>]
FollowsLast(f, n, start, g) ==
  f = [c \in 0..n |-> IF c = 0 THEN start ELSE g[<<c, f[c - 1]>>]]

\* A function on 0..n whose values come from values at larger places exists.
LEMMA BackwardFunction ==
  ASSUME NEW n \in Nat, NEW V, NEW none \in V,
         NEW next \in [0..n -> Nat], \A c \in 0..n : next[c] > c,
         NEW g \in [(0..n) \X V -> V]
  PROVE  \E f \in [0..n -> V] : FollowsNext(f, n, next, g, none)
<1> DEFINE Value(f, c) == g[<<c, IF next[c] <= n THEN f[next[c]] ELSE none>>]
           Defined == {k \in Nat : k <= n + 1 =>
                         \E f \in [0..n -> V] :
                           \A c \in 0..n : c >= n + 1 - k => f[c] = Value(f, c)}
<1>1. ASSUME NEW f \in [0..n -> V], NEW c \in 0..n PROVE Value(f, c) \in V
  <2>1. (IF next[c] <= n THEN f[next[c]] ELSE none) \in V
    OBVIOUS
  <2>2. QED
    BY <2>1
<1>2. 0 \in Defined
  <2>1. [c \in 0..n |-> none] \in [0..n -> V]
    OBVIOUS
  <2>2. \A c \in 0..n : ~(c >= n + 1 - 0)
    OBVIOUS
  <2>3. QED
    BY <2>1, <2>2
<1>3. ASSUME NEW k \in Nat, k \in Defined PROVE k + 1 \in Defined
  <2>1. SUFFICES ASSUME k + 1 <= n + 1
                 PROVE \E f \in [0..n -> V] :
                         \A c \in 0..n : c >= n + 1 - (k + 1) => f[c] = Value(f, c)
    OBVIOUS
  <2>2. PICK f \in [0..n -> V] :
          \A c \in 0..n : c >= n + 1 - k => f[c] = Value(f, c)
    BY <1>3, <2>1
  <2>3. n - k \in 0..n
    BY <2>1
  <2>4. PICK d \in 0..n : d = n - k
    BY <2>3
  <2>5. PICK v \in V : v = Value(f, d)
    BY <1>1
  <2>6. PICK e \in [0..n -> V] : e = [f EXCEPT ![d] = v]
    OBVIOUS
  <2>7. ASSUME NEW c \in 0..n, c >= d PROVE e[c] = Value(e, c)
    <3>1. next[c] \in Nat /\ next[c] > d
      BY <2>7
    <3>2. next[c] <= n => e[next[c]] = f[next[c]]
      BY <2>6, <3>1
    <3>3. Value(e, c) = Value(f, c)
      BY <3>2
    <3>4. e[c] = Value(f, c)
      <4>1. CASE c = d
        BY <2>5, <2>6, <4>1
      <4>2. CASE c # d
        <5>1. c >= n + 1 - k
          BY <2>4, <2>7, <4>2
        <5>2. e[c] = f[c]
          BY <2>6, <4>2
        <5>3. QED
          BY <2>2, <5>1, <5>2
      <4>3. QED
        BY <4>1, <4>2
    <3>5. QED
      BY <3>3, <3>4
  <2>8. QED
    BY <2>4, <2>7
<1> HIDE DEF Defined
<1>4. Nat \subseteq Defined
  BY <1>2, <1>3, InductivePlaces
<1>5. n + 1 \in Defined
  BY <1>4
<1>6. QED
  BY <1>5 DEF Defined, FollowsNext

\* And so does one on 0..n whose values come from those before.
LEMMA ForwardFunction ==
  ASSUME NEW n \in Nat, NEW V, NEW start \in V, NEW g \in [(1..n) \X V -> V]
  PROVE  \E f \in [0..n -> V] : FollowsLast(f, n, start, g)
<1>1. PICK next \in [0..n -> Nat] : \A c \in 0..n : next[c] = c + 1
  <2>1. [c \in 0..n |-> c + 1] \in [0..n -> Nat]
    OBVIOUS
  <2>2. QED
    BY <2>1
<1>2. PICK back \in [(0..n) \X V -> V] :
        \A c \in 0..n, v \in V : back[<<c, v>>] = IF c = n THEN start ELSE g[<<n - c, v>>]
  <2>1. [p \in (0..n) \X V |-> IF p[1] = n THEN start ELSE g[<<n - p[1], p[2]>>]]
          \in [(0..n) \X V -> V]
    OBVIOUS
  <2>2. QED
    BY <2>1
<1>3. PICK b \in [0..n -> V] : FollowsNext(b, n, next, back, start)
  <2>1. \A c \in 0..n : next[c] > c
    BY <1>1
  <2>2. QED
    BY <2>1, BackwardFunction
<1>4. PICK f \in [0..n -> V] : f = [c \in 0..n |-> b[n - c]]
  <2>1. [c \in 0..n |-> b[n - c]] \in [0..n -> V]
    OBVIOUS
  <2>2. QED
    BY <2>1
<1>5. ASSUME NEW c \in 0..n
      PROVE f[c] = IF c = 0 THEN start ELSE g[<<c, f[c - 1]>>]
  <2>1. PICK m \in 0..n : m = n - c
    OBVIOUS
  <2>2. f[c] = b[m]
    BY <1>4, <2>1
  <2>3. PICK v \in V : v = IF next[m] <= n THEN b[next[m]] ELSE start
    <3>1. next[m] <= n => next[m] \in 0..n
      OBVIOUS
    <3>2. QED
      BY <3>1
  <2>4. f[c] = back[<<m, v>>]
    BY <1>3, <2>2, <2>3 DEF FollowsNext
  <2>5. back[<<m, v>>] = IF m = n THEN start ELSE g[<<n - m, v>>]
    BY <1>2
  <2>6. CASE c = 0
    BY <2>1, <2>4, <2>5, <2>6
  <2>7. CASE c # 0
    <3>1. next[m] = n - (c - 1) /\ n - m = c /\ m # n /\ c - 1 \in 0..n
      BY <1>1, <2>1, <2>7
    <3>2. f[c - 1] = b[n - (c - 1)]
      BY <1>4, <3>1
    <3>3. v = f[c - 1]
      BY <2>3, <3>1, <3>2
    <3>4. QED
      BY <2>4, <2>5, <2>7, <3>1, <3>3
  <2>8. QED
    BY <2>6, <2>7
<1>6. QED
  BY <1>5 DEF FollowsLast

-----------------------------------------------------------------------------
(* The chunks of a body.                                                   *)

\* from_str_radix gives a number.
LEMMA FromHexType ==
  ASSUME NEW digits \in Seq(Digits)
  PROVE  FromHex(digits) \in Nat
<1> DEFINE IsValue(f) == f = [c \in 0..Len(digits) |->
                                IF c = 0 THEN 0 ELSE 16 * f[c - 1] + HexDigit[digits[c]]]
<1>1. PICK n \in Nat : n = Len(digits)
  OBVIOUS
<1>2. \A c \in 1..n : HexDigit[digits[c]] \in Nat
  <2>1. \A d \in Digits : HexDigit[d] \in Nat
    BY DEF Digits, HexDigit
  <2>2. \A c \in 1..n : digits[c] \in Digits
    BY <1>1
  <2>3. QED
    BY <2>1, <2>2
<1>3. \E f : IsValue(f)
  <2>1. PICK g \in [(1..n) \X Nat -> Nat] :
          \A c \in 1..n, v \in Nat : g[<<c, v>>] = 16 * v + HexDigit[digits[c]]
    <3>1. [p \in (1..n) \X Nat |-> 16 * p[2] + HexDigit[digits[p[1]]]]
            \in [(1..n) \X Nat -> Nat]
      BY <1>2
    <3>2. QED
      BY <3>1
  <2>2. PICK f \in [0..n -> Nat] : FollowsLast(f, n, 0, g)
    BY ForwardFunction
  <2>3. \A c \in 1..n : f[c - 1] \in Nat
    OBVIOUS
  <2>4. f = [c \in 0..n |-> IF c = 0 THEN 0 ELSE 16 * f[c - 1] + HexDigit[digits[c]]]
    BY <2>1, <2>2, <2>3 DEF FollowsLast
  <2>5. QED
    BY <1>1, <2>4
<1>4. PICK f : f = CHOOSE h : IsValue(h)
  OBVIOUS
<1>5. IsValue(f)
  BY <1>3, <1>4
<1>6. Nat \subseteq {k \in Nat : k <= n => f[k] \in Nat}
  <2>1. 0 \in {k \in Nat : k <= n => f[k] \in Nat}
    BY <1>1, <1>5
  <2>2. ASSUME NEW k \in Nat, k <= n => f[k] \in Nat
        PROVE k + 1 <= n => f[k + 1] \in Nat
    <3>1. SUFFICES ASSUME k + 1 <= n PROVE f[k + 1] \in Nat
      OBVIOUS
    <3>2. f[k + 1] = 16 * f[k] + HexDigit[digits[k + 1]]
      BY <1>1, <1>5, <3>1
    <3>3. QED
      BY <1>2, <2>2, <3>1, <3>2
  <2>3. PICK S : S = {k \in Nat : k <= n => f[k] \in Nat}
    OBVIOUS
  <2>4. 0 \in S /\ \A k \in Nat : k \in S => k + 1 \in S
    BY <2>1, <2>2, <2>3
  <2>5. QED
    BY <2>3, <2>4, InductivePlaces
<1>7. FromHex(digits) = f[n]
  BY <1>1, <1>4 DEF FromHex
<1>8. QED
  BY <1>1, <1>6, <1>7

\* The octets of the framing are octets.
LEMMA Sent == CR \in Octet /\ LF \in Octet /\ ";" \in Octet /\ Digits \subseteq Octet
<1>1. PICK b : b = BlankLine
  OBVIOUS
<1>2. 1 \in DOMAIN b /\ 2 \in DOMAIN b /\ b[1] = CR /\ b[2] = LF
  BY <1>1 DEF BlankLine
<1>3. {CR, LF} \subseteq ToSet(b)
  BY <1>2 DEF ToSet
<1>4. ToSet(BlankLine) \union Digits \union {";"} \subseteq Octet
  BY MessageAssumption
<1>5. QED
  BY <1>1, <1>3, <1>4

\* And so are the words made of them sequences of octets.
LEMMA Words == /\ CrLf \in Seq(Octet) /\ Len(CrLf) = 2
               /\ BlankLine \in Seq(Octet) /\ Len(BlankLine) = 4
<1>1. PICK c \in Octet, l \in Octet : c = CR /\ l = LF
  BY Sent
<1>2. /\ <<c, l>> \in Seq(Octet) /\ Len(<<c, l>>) = 2
      /\ <<c, l, c, l>> \in Seq(Octet) /\ Len(<<c, l, c, l>>) = 4
  OBVIOUS
<1>3. QED
  BY <1>1, <1>2 DEF CrLf, BlankLine

LEMMA ChunkSizeType ==
  ASSUME NEW line \in Seq(Octet)
  PROVE  ChunkSize(line) \in Nat \union {Nowhere}
<1>1. PICK mark \in Seq(Octet) : mark = <<";">> /\ Len(mark) = 1
  <2>1. PICK c \in Octet : c = ";"
    BY Sent
  <2>2. <<c>> \in Seq(Octet) /\ Len(<<c>>) = 1
    OBVIOUS
  <2>3. QED
    BY <2>1, <2>2
<1>2. PICK extension : extension = Place(line, 0, mark)
  OBVIOUS
<1>3. PICK digits \in Seq(Octet) :
        digits = IF extension = Nowhere THEN line ELSE SubSeq(line, 1, extension)
  <2>1. extension # Nowhere => extension \in Nat /\ BeginsAt(line, extension, mark)
    BY <1>2, PlaceIs
  <2>2. extension # Nowhere => extension \in Nat /\ extension <= Len(line)
    <3>1. BeginsAt(line, extension, mark) => extension + 1 <= Len(line)
      BY <1>1 DEF BeginsAt
    <3>2. QED
      BY <2>1, <3>1
  <2>3. ASSUME extension # Nowhere PROVE SubSeq(line, 1, extension) \in Seq(Octet)
    <3>1. PICK n \in Nat : n = extension /\ n <= Len(line)
      BY <2>2, <2>3
    <3>2. SubSeq(line, 1, n) \in Seq(Octet)
      BY <3>1
    <3>3. QED
      BY <3>1, <3>2
  <2>4. QED
    BY <2>3
<1>4. ChunkSize(line) = IF digits = <<>> \/ ~(ToSet(digits) \subseteq Digits)
                        THEN Nowhere ELSE FromHex(digits)
  BY <1>1, <1>2, <1>3 DEF ChunkSize
<1>5. ToSet(digits) \subseteq Digits => digits \in Seq(Digits)
  BY DEF ToSet
<1>6. QED
  BY <1>4, <1>5, FromHexType

\* What a chunk begins with: the end of its size line, and its size.
LEMMA LineIs ==
  ASSUME NEW octets \in Seq(Octet), NEW cursor \in Nat,
         NEW line, line = FindCrlf(octets, cursor)
  PROVE  /\ line = Nowhere \/ (line \in Nat /\ line >= cursor /\ line + 2 <= Len(octets))
         /\ SizeAt(octets, cursor) \in Nat \union {Nowhere}
<1>1. line = Nowhere \/ (line \in Nat /\ line >= cursor /\ line + 2 <= Len(octets))
  <2>1. CrLf \in Seq(Octet) /\ Len(CrLf) = 2
    BY Words
  <2>2. line = Place(octets, cursor, CrLf)
    BY DEF FindCrlf
  <2>3. line # Nowhere => line \in Nat /\ line >= cursor /\ BeginsAt(octets, line, CrLf)
    BY <2>1, <2>2, PlaceIs
  <2>4. QED
    BY <2>1, <2>3 DEF BeginsAt
<1>2. SubSeq(octets, cursor + 1, line) \in Seq(Octet)
  <2>1. CASE line = Nowhere
    BY <2>1 DEF Nowhere
  <2>2. CASE line # Nowhere
    BY <1>1, <2>2
  <2>3. QED
    BY <2>1, <2>2
<1>3. SizeAt(octets, cursor) \in Nat \union {Nowhere}
  BY <1>2, ChunkSizeType DEF SizeAt
<1>4. QED
  BY <1>1, <1>3

\* The end of the data of the chunk whose size line begins at cursor.
DataEnd(octets, cursor) == FindCrlf(octets, cursor) + 2 + SizeAt(octets, cursor)

\* There is a chunk, of a body that goes on behind it.
GoesOn(octets, cursor) ==
  /\ FindCrlf(octets, cursor) # Nowhere
  /\ SizeAt(octets, cursor) \notin {Nowhere, 0}
  /\ DataEnd(octets, cursor) + 2 <= Len(octets)

\* What the two loops over the chunks find from cursor on.
CompleteAt(octets, from, cursor) ==
  IF FindCrlf(octets, cursor) = Nowhere THEN "no"
  ELSE IF SizeAt(octets, cursor) = Nowhere THEN "invalid"
  ELSE IF SizeAt(octets, cursor) = 0
       THEN IF TrailersEnd(octets, FindCrlf(octets, cursor) + 2) THEN "yes" ELSE "no"
  ELSE IF DataEnd(octets, cursor) + 2 > Len(octets) THEN "no"
  ELSE IF Place(octets, DataEnd(octets, cursor), CrLf) # DataEnd(octets, cursor)
       THEN "invalid"
  ELSE from[DataEnd(octets, cursor) + 2]
IsComplete(octets, from) ==
  from = [cursor \in 0..Len(octets) |-> CompleteAt(octets, from, cursor)]

DecodedAt(octets, from, cursor) ==
  IF \/ FindCrlf(octets, cursor) = Nowhere \/ SizeAt(octets, cursor) \in {Nowhere, 0}
     \/ DataEnd(octets, cursor) + 2 > Len(octets)
  THEN <<>>
  ELSE SubSeq(octets, FindCrlf(octets, cursor) + 3, DataEnd(octets, cursor))
         \o from[DataEnd(octets, cursor) + 2]
IsDecoded(octets, from) ==
  from = [cursor \in 0..Len(octets) |-> DecodedAt(octets, from, cursor)]

\* A chunk that goes on does so at a larger place, within the octets.
LEMMA GoesForward ==
  ASSUME NEW octets \in Seq(Octet), NEW cursor \in 0..Len(octets), GoesOn(octets, cursor)
  PROVE  /\ FindCrlf(octets, cursor) \in Nat
         /\ FindCrlf(octets, cursor) >= cursor
         /\ SizeAt(octets, cursor) \in Nat
         /\ DataEnd(octets, cursor) + 2 \in 0..Len(octets)
         /\ DataEnd(octets, cursor) + 2 > cursor
<1>1. PICK line : line = FindCrlf(octets, cursor)
  OBVIOUS
<1>2. PICK size : size = SizeAt(octets, cursor)
  OBVIOUS
<1>3. cursor \in Nat
  OBVIOUS
<1>4. /\ line = Nowhere \/ (line \in Nat /\ line >= cursor /\ line + 2 <= Len(octets))
      /\ size \in Nat \union {Nowhere}
  BY <1>1, <1>2, <1>3, LineIs
<1>5. line \in Nat /\ line >= cursor /\ size \in Nat /\ line + 2 + size + 2 <= Len(octets)
  BY <1>1, <1>2, <1>4 DEF GoesOn, DataEnd
<1>6. QED
  BY <1>1, <1>2, <1>5 DEF DataEnd

\* Where the chunk behind begins; past the end where there is none.
LEMMA NextExists ==
  ASSUME NEW octets \in Seq(Octet)
  PROVE  \E next \in [0..Len(octets) -> Nat] :
           \A c \in 0..Len(octets) :
             /\ next[c] > c
             /\ next[c] = IF GoesOn(octets, c) THEN DataEnd(octets, c) + 2
                          ELSE Len(octets) + 1
<1>1. [c \in 0..Len(octets) |->
         IF GoesOn(octets, c) THEN DataEnd(octets, c) + 2 ELSE Len(octets) + 1]
        \in [0..Len(octets) -> Nat]
  BY GoesForward
<1>2. \A c \in 0..Len(octets) :
        (IF GoesOn(octets, c) THEN DataEnd(octets, c) + 2 ELSE Len(octets) + 1) > c
  BY GoesForward
<1>3. QED
  BY <1>1, <1>2

\* has_complete_chunked_body is a loop that is well defined.
LEMMA CompleteIs ==
  ASSUME NEW octets \in Seq(Octet)
  PROVE  \E from : IsComplete(octets, from) /\ HasCompleteChunkedBody(octets) = from[0]
<1> DEFINE n == Len(octets)
           V == {"yes", "no", "invalid"}
<1>1. PICK next \in [0..n -> Nat] :
        \A c \in 0..n :
          /\ next[c] > c
          /\ next[c] = IF GoesOn(octets, c) THEN DataEnd(octets, c) + 2 ELSE n + 1
  BY NextExists
<1>2. PICK g \in [(0..n) \X V -> V] :
        \A c \in 0..n, v \in V :
          g[<<c, v>>] = CompleteAt(octets, [k \in {DataEnd(octets, c) + 2} |-> v], c)
  <2>1. ASSUME NEW c \in 0..n, NEW v \in V
        PROVE  CompleteAt(octets, [k \in {DataEnd(octets, c) + 2} |-> v], c) \in V
    BY DEF CompleteAt
  <2>2. [p \in (0..n) \X V |->
           CompleteAt(octets, [k \in {DataEnd(octets, p[1]) + 2} |-> p[2]], p[1])]
          \in [(0..n) \X V -> V]
    BY <2>1
  <2>3. QED
    BY <2>2
<1>3. PICK f \in [0..n -> V] : FollowsNext(f, n, next, g, "no")
  <2>1. "no" \in V /\ n \in Nat /\ \A c \in 0..n : next[c] > c
    BY <1>1
  <2> HIDE DEF V
  <2>2. QED
    BY <2>1, BackwardFunction
<1>4. ASSUME NEW c \in 0..n PROVE f[c] = CompleteAt(octets, f, c)
  <2>1. PICK v \in V : v = IF next[c] <= n THEN f[next[c]] ELSE "no"
    OBVIOUS
  <2>2. f[c] = CompleteAt(octets, [k \in {DataEnd(octets, c) + 2} |-> v], c)
    BY <1>2, <1>3, <2>1 DEF FollowsNext
  <2>3. CASE GoesOn(octets, c)
    <3>1. DataEnd(octets, c) + 2 <= n
      BY <2>3, GoesForward
    <3>2. v = f[DataEnd(octets, c) + 2]
      BY <1>1, <2>1, <2>3, <3>1
    <3>3. QED
      BY <2>2, <3>2 DEF CompleteAt
  <2>4. CASE ~GoesOn(octets, c)
    <3>1. DataEnd(octets, c) \in Int
      <4>1. PICK line : line = FindCrlf(octets, c)
        OBVIOUS
      <4>2. c \in Nat
        OBVIOUS
      <4>3. line \in Int /\ SizeAt(octets, c) \in Int
        BY <4>1, <4>2, LineIs DEF Nowhere
      <4>4. QED
        BY <4>1, <4>3 DEF DataEnd
    <3>2. QED
      BY <2>2, <2>4, <3>1 DEF GoesOn, CompleteAt
  <2>5. QED
    BY <2>3, <2>4
<1>5. \E from : IsComplete(octets, from)
  BY <1>4 DEF IsComplete
<1>6. PICK from : from = CHOOSE h : IsComplete(octets, h)
  OBVIOUS
<1>7. HasCompleteChunkedBody(octets) = from[0]
  BY <1>6 DEF HasCompleteChunkedBody, IsComplete, CompleteAt, DataEnd
<1>8. QED
  BY <1>5, <1>6, <1>7

\* decode_chunked_body is a loop that is well defined.
LEMMA DecodedIs ==
  ASSUME NEW octets \in Seq(Octet)
  PROVE  \E from : IsDecoded(octets, from) /\ DecodeChunkedBody(octets) = from[0]
<1> DEFINE n == Len(octets)
           V == Seq(Octet)
<1>1. PICK next \in [0..n -> Nat] :
        \A c \in 0..n :
          /\ next[c] > c
          /\ next[c] = IF GoesOn(octets, c) THEN DataEnd(octets, c) + 2 ELSE n + 1
  BY NextExists
<1>2. PICK g \in [(0..n) \X V -> V] :
        \A c \in 0..n, v \in V :
          g[<<c, v>>] = IF GoesOn(octets, c)
                        THEN SubSeq(octets, FindCrlf(octets, c) + 3, DataEnd(octets, c))
                               \o v
                        ELSE <<>>
  <2>1. ASSUME NEW c \in 0..n, NEW v \in V, GoesOn(octets, c)
        PROVE  SubSeq(octets, FindCrlf(octets, c) + 3, DataEnd(octets, c)) \o v \in V
    <3>1. PICK line \in Nat : line = FindCrlf(octets, c)
      BY <2>1, GoesForward
    <3>2. PICK end \in Nat : end = DataEnd(octets, c) /\ end <= n
      BY <2>1, GoesForward DEF DataEnd
    <3>3. SubSeq(octets, line + 3, end) \in V
      BY <3>2
    <3>4. QED
      BY <3>1, <3>2, <3>3
  <2>2. [p \in (0..n) \X V |->
           IF GoesOn(octets, p[1])
           THEN SubSeq(octets, FindCrlf(octets, p[1]) + 3, DataEnd(octets, p[1])) \o p[2]
           ELSE <<>>]
          \in [(0..n) \X V -> V]
    <3>1. <<>> \in V
      OBVIOUS
    <3> HIDE DEF V
    <3>2. QED
      BY <2>1, <3>1
  <2>3. QED
    BY <2>2
<1>3. PICK f \in [0..n -> V] : FollowsNext(f, n, next, g, <<>>)
  <2>1. <<>> \in V /\ n \in Nat /\ \A c \in 0..n : next[c] > c
    BY <1>1
  <2> HIDE DEF V
  <2>2. QED
    BY <2>1, BackwardFunction
<1>4. ASSUME NEW c \in 0..n PROVE f[c] = DecodedAt(octets, f, c)
  <2>1. PICK v \in V : v = IF next[c] <= n THEN f[next[c]] ELSE <<>>
    <3>1. <<>> \in V
      OBVIOUS
    <3> HIDE DEF V
    <3>2. QED
      BY <3>1
  <2>2. f[c] = g[<<c, v>>]
    BY <1>3, <2>1 DEF FollowsNext
  <2>3. CASE GoesOn(octets, c)
    <3>1. DataEnd(octets, c) + 2 <= n
      BY <2>3, GoesForward
    <3>2. v = f[DataEnd(octets, c) + 2]
      BY <1>1, <2>1, <2>3, <3>1
    <3>3. f[c] = SubSeq(octets, FindCrlf(octets, c) + 3, DataEnd(octets, c)) \o v
      BY <1>2, <2>2, <2>3
    <3>4. ~(DataEnd(octets, c) + 2 > n)
      BY <2>3, GoesForward
    <3>5. QED
      BY <2>3, <3>2, <3>3, <3>4 DEF DecodedAt, GoesOn
  <2>4. CASE ~GoesOn(octets, c)
    <3>1. DataEnd(octets, c) \in Int
      <4>1. PICK line : line = FindCrlf(octets, c)
        OBVIOUS
      <4>2. c \in Nat
        OBVIOUS
      <4>3. line \in Int /\ SizeAt(octets, c) \in Int
        BY <4>1, <4>2, LineIs DEF Nowhere
      <4>4. QED
        BY <4>1, <4>3 DEF DataEnd
    <3>2. f[c] = <<>>
      BY <1>2, <2>2, <2>4
    <3>3. QED
      BY <2>4, <3>1, <3>2 DEF GoesOn, DecodedAt
  <2>5. QED
    BY <2>3, <2>4
<1>5. \E from : IsDecoded(octets, from)
  BY <1>4 DEF IsDecoded
<1>6. PICK from : from = CHOOSE h : IsDecoded(octets, h)
  OBVIOUS
<1>7. DecodeChunkedBody(octets) = from[0]
  BY <1>6 DEF DecodeChunkedBody, IsDecoded, DecodedAt, DataEnd
<1>8. QED
  BY <1>5, <1>6, <1>7

-----------------------------------------------------------------------------
(* Octets that are those a peer meant, as far as they go.                  *)

\* Their parts are the same.
LEMMA PartAgrees ==
  ASSUME NEW octets \in Seq(Octet), NEW others \in Seq(Octet), Agree(octets, others),
         NEW first \in Nat, NEW last \in Nat, first >= 1,
         last <= Len(octets), last <= Len(others)
  PROVE  SubSeq(octets, first, last) = SubSeq(others, first, last)
<1>1. \A i \in first..last : octets[i] = others[i]
  <2>1. TAKE i \in first..last
  <2>2. i \in Nat /\ i >= 1 /\ i <= Len(octets) /\ i <= Len(others)
    OBVIOUS
  <2>3. QED
    BY <2>2 DEF Agree
<1>2. \A i \in first..last : octets[i] \in Octet /\ others[i] \in Octet
  OBVIOUS
<1>3. PICK s, t : s = SubSeq(octets, first, last) /\ t = SubSeq(others, first, last)
  OBVIOUS
<1>4. /\ s \in Seq(Octet) /\ Len(s) = IF first <= last THEN last - first + 1 ELSE 0
      /\ \A i \in 1..(last - first + 1) : s[i] = octets[first + i - 1]
  BY <1>2, <1>3, SubSeqProperties
<1>5. /\ t \in Seq(Octet) /\ Len(t) = IF first <= last THEN last - first + 1 ELSE 0
      /\ \A i \in 1..(last - first + 1) : t[i] = others[first + i - 1]
  BY <1>2, <1>3, SubSeqProperties
<1>6. \A i \in 1..Len(s) : s[i] = t[i]
  <2>1. TAKE i \in 1..Len(s)
  <2>2. i \in 1..(last - first + 1) /\ first + i - 1 \in first..last
    BY <1>4
  <2>3. QED
    BY <1>1, <1>4, <1>5, <2>2
<1>7. QED
  BY <1>3, <1>4, <1>5, <1>6, SeqEqual

\* A size line is found in both, or not yet.
LEMMA LineAgrees ==
  ASSUME NEW octets \in Seq(Octet), NEW others \in Seq(Octet), Agree(octets, others),
         NEW cursor \in Nat, NEW line \in Nat, FindCrlf(others, cursor) = line
  PROVE  IF line + 2 <= Len(octets)
         THEN /\ FindCrlf(octets, cursor) = line
              /\ SizeAt(octets, cursor) = SizeAt(others, cursor)
         ELSE FindCrlf(octets, cursor) = Nowhere
<1>1. CrLf \in Seq(Octet) /\ Len(CrLf) = 2
  BY Words
<1>2. Place(others, cursor, CrLf) # Nowhere
  BY DEF FindCrlf, Nowhere
<1>3. FindCrlf(octets, cursor) = IF line + 2 <= Len(octets) THEN line ELSE Nowhere
  BY <1>1, <1>2, PlaceInBoth DEF FindCrlf
<1>4. line + 2 <= Len(others)
  BY LineIs, SMTT(60) DEF Nowhere
<1>5. CASE line + 2 <= Len(octets)
  <2>1. SubSeq(octets, cursor + 1, line) = SubSeq(others, cursor + 1, line)
    BY <1>4, <1>5, PartAgrees
  <2>2. QED
    BY <1>3, <1>5, <2>1 DEF SizeAt
<1>6. QED
  BY <1>3, <1>5

\* The size line of a chunk is where it is said to be.
HasLine(m, c) ==
  /\ FindCrlf(m.meant, c.at) = c.at + c.line
  /\ SizeAt(m.meant, c.at) = c.size

\* What a chunk in the middle adds.
Adds(m, octets, from, dec, c, d) ==
  \/ /\ d.at > Len(octets) /\ d.at <= Len(m.meant)
     /\ from[c.at] = "no"
  \/ /\ d.at <= Len(octets) /\ d.at <= Len(m.meant)
     /\ from[c.at] = from[d.at]
     /\ dec[c.at] = SubSeq(m.body, c.from + 1, d.from) \o dec[d.at]

\* A chunk that is complete hands on to the one behind it; one that is not says so.
LEMMA ChunkAdds ==
  ASSUME NEW m, m.meant \in Seq(Octet), NEW c \in ChunkRecords, NEW d \in ChunkRecords,
         HasLine(m, c), IsChunk(m, c), NextChunk(c, d),
         NEW octets \in Seq(Octet), Agree(octets, m.meant), c.at <= Len(octets),
         NEW from, IsComplete(octets, from), NEW dec, IsDecoded(octets, dec)
  PROVE  Adds(m, octets, from, dec, c, d)
<1>1. PICK at \in Nat, line \in Nat, size \in Nat, start \in Nat :
        at = c.at /\ line = c.at + c.line /\ size = c.size /\ start = c.from
  <2>1. /\ c.at \in Nat /\ c.line \in Nat /\ c.from \in Nat
        /\ c.size \in Nat \union {Nowhere}
    BY DEF ChunkRecords
  <2>2. c.size > 0
    BY DEF IsChunk
  <2>3. c.size \in Nat
    BY <2>1, <2>2 DEF Nowhere
  <2>4. c.at + c.line \in Nat
    BY <2>1
  <2>5. QED
    BY <2>1, <2>3, <2>4
<1>2. PICK meant \in Seq(Octet) : meant = m.meant
  OBVIOUS
<1>3. /\ FindCrlf(meant, at) = line /\ SizeAt(meant, at) = size /\ size > 0
  BY <1>1, <1>2 DEF HasLine, IsChunk
<1>4. PICK end \in Nat : end = line + 2 + size /\ end = EndOf(c)
  BY <1>1, SMTT(60) DEF EndOf, DataOf, ChunkRecords
<1>5. /\ d.at = end + 2 /\ d.from = start + size
      /\ SubSeq(meant, line + 3, end) = SubSeq(m.body, start + 1, start + size)
      /\ Place(meant, end, CrLf) = end
  <2>1. DataOf(c) = line + 2 /\ EndOf(c) = end
    BY <1>1, <1>4 DEF DataOf
  <2>2. /\ SubSeq(meant, (line + 2) + 1, end) = SubSeq(m.body, start + 1, start + size)
        /\ Place(meant, end, CrLf) = end
    BY <1>1, <1>2, <2>1 DEF IsChunk
  <2>3. d.at = end + 2 /\ d.from = start + size
    BY <1>1, <2>1 DEF NextChunk
  <2>4. (line + 2) + 1 = line + 3
    OBVIOUS
  <2>5. QED
    BY <2>2, <2>3, <2>4
<1>6. CrLf \in Seq(Octet) /\ Len(CrLf) = 2
  BY Words
<1>7. BeginsAt(meant, end, CrLf)
  BY <1>5, <1>6, PlaceHere
<1>8. end + 2 <= Len(meant)
  BY <1>6, <1>7 DEF BeginsAt
<1>9. at \in 0..Len(octets)
  BY <1>1
<1>10. from[at] = CompleteAt(octets, from, at) /\ dec[at] = DecodedAt(octets, dec, at)
  BY <1>9 DEF IsComplete, IsDecoded
<1>11. CASE ~(line + 2 <= Len(octets))
  <2>1. FindCrlf(octets, at) = Nowhere
    BY <1>2, <1>3, <1>11, LineAgrees
  <2>2. from[at] = "no"
    BY <1>10, <2>1 DEF CompleteAt
  <2>3. end + 2 > Len(octets)
    BY <1>4, <1>11
  <2>4. QED
    BY <1>1, <1>2, <1>5, <1>8, <2>2, <2>3 DEF Adds
<1>12. CASE line + 2 <= Len(octets)
  <2>1. FindCrlf(octets, at) = line /\ SizeAt(octets, at) = size
    BY <1>2, <1>3, <1>12, LineAgrees
  <2>2. line # Nowhere /\ size # Nowhere /\ size # 0 /\ DataEnd(octets, at) = end
    BY <1>3, <1>4, <2>1 DEF Nowhere, DataEnd
  <2>3. CASE end + 2 > Len(octets)
    <3>1. from[at] = "no"
      BY <1>10, <2>1, <2>2, <2>3 DEF CompleteAt
    <3>2. QED
      BY <1>1, <1>2, <1>5, <1>8, <2>3, <3>1 DEF Adds
  <2>4. CASE end + 2 <= Len(octets)
    <3>1. ~(end + 2 > Len(octets))
      BY <2>4
    <3>2. Place(octets, end, CrLf) = end
      BY <1>2, <1>6, <1>7, <1>8, <2>4, BeginsInBoth, PlaceHere
    <3>3. from[at] = from[end + 2]
      BY <1>10, <2>1, <2>2, <3>1, <3>2 DEF CompleteAt
    <3>4. dec[at] = SubSeq(octets, line + 3, end) \o dec[end + 2]
      BY <1>10, <2>1, <2>2, <3>1 DEF DecodedAt
    <3>5. SubSeq(octets, line + 3, end) = SubSeq(meant, line + 3, end)
      <4>1. line + 3 \in Nat /\ line + 3 >= 1 /\ end <= Len(octets) /\ end <= Len(meant)
        BY <1>8, <2>4
      <4>2. QED
        BY <1>2, <4>1, PartAgrees, SMTT(60)
    <3>6. QED
      BY <1>1, <1>2, <1>5, <1>8, <2>4, <3>3, <3>4, <3>5 DEF Adds
  <2>5. QED
    BY <2>3, <2>4
<1>13. QED
  BY <1>11, <1>12

\* The last chunk is complete with the end of what is meant, and adds nothing.
LEMMA LastAdds ==
  ASSUME NEW m, m.meant \in Seq(Octet), NEW c \in ChunkRecords,
         HasLine(m, c), IsLastChunk(m, c),
         NEW octets \in Seq(Octet), Agree(octets, m.meant), c.at <= Len(octets),
         NEW from, IsComplete(octets, from), NEW dec, IsDecoded(octets, dec)
  PROVE  /\ from[c.at] = IF Len(octets) >= Len(m.meant) THEN "yes" ELSE "no"
         /\ dec[c.at] = <<>>
<1>1. PICK at \in Nat, line \in Nat : at = c.at /\ line = c.at + c.line
  BY DEF ChunkRecords
<1>2. PICK meant \in Seq(Octet) : meant = m.meant /\ Agree(octets, meant)
  OBVIOUS
<1>3. FindCrlf(meant, at) = line /\ SizeAt(meant, at) = 0
  BY <1>1, <1>2 DEF HasLine, IsLastChunk
<1>4. PICK data \in Nat : data = line + 2 /\ data = DataOf(c)
  BY <1>1 DEF DataOf
<1>5. IF Place(meant, data, CrLf) = data
      THEN Len(meant) = data + 2
      ELSE Len(meant) >= data + 4 /\ Place(meant, data, BlankLine) = Len(meant) - 4
  BY <1>2, <1>4 DEF IsLastChunk
<1>6. /\ CrLf \in Seq(Octet) /\ Len(CrLf) = 2
      /\ BlankLine \in Seq(Octet) /\ Len(BlankLine) = 4
  BY Words
<1>7. at \in 0..Len(octets)
  BY <1>1
<1>8. from[at] = CompleteAt(octets, from, at) /\ dec[at] = DecodedAt(octets, dec, at)
  BY <1>7 DEF IsComplete, IsDecoded
<1>9. Len(meant) >= data + 2
  BY <1>5
<1>10. TrailersEnd(octets, data) <=> Len(octets) >= Len(meant)
  <2>1. CASE Place(meant, data, CrLf) = data
    <3>1. BeginsAt(meant, data, CrLf) /\ Len(meant) = data + 2
      BY <1>5, <1>6, <2>1, PlaceHere
    <3>2. CASE Len(octets) >= Len(meant)
      <4>1. BeginsAt(octets, data, CrLf)
        <5>1. data + Len(CrLf) <= Len(octets) /\ data + Len(CrLf) <= Len(meant)
          BY <1>6, <3>1, <3>2
        <5>2. QED
          BY <1>2, <1>6, <3>1, <5>1, BeginsInBoth
      <4>2. Place(octets, data, CrLf) = data
        BY <1>6, <4>1, PlaceHere
      <4>3. QED
        BY <3>2, <4>2 DEF TrailersEnd
    <3>3. CASE ~(Len(octets) >= Len(meant))
      <4>1. ~BeginsAt(octets, data, CrLf)
        BY <1>6, <3>1, <3>3 DEF BeginsAt
      <4>2. \A i \in Nat : i >= data => ~BeginsAt(octets, i, BlankLine)
        BY <1>6, <3>1, <3>3 DEF BeginsAt
      <4>3. Place(octets, data, BlankLine) = Nowhere
        BY <1>6, <4>2, PlaceIs
      <4>4. Place(octets, data, CrLf) # data
        BY <1>6, <4>1, PlaceHere
      <4>5. QED
        BY <3>3, <4>3, <4>4 DEF TrailersEnd
    <3>4. QED
      BY <3>2, <3>3
  <2>2. CASE Place(meant, data, CrLf) # data
    <3>1. PICK place \in Nat : place = Len(meant) - 4 /\ place >= data
      BY <1>5, <2>2, SMTT(60)
    <3>2. Place(meant, data, BlankLine) = place /\ place # Nowhere
      BY <1>5, <2>2, <3>1, SMTT(60) DEF Nowhere
    <3>3. Place(octets, data, BlankLine) =
            IF place + Len(BlankLine) <= Len(octets) THEN place ELSE Nowhere
      BY <1>2, <1>6, <3>2, PlaceInBoth
    <3>4. Place(octets, data, BlankLine) # Nowhere <=> Len(octets) >= Len(meant)
      <4>1. place + Len(BlankLine) <= Len(octets) <=> Len(octets) >= Len(meant)
        BY <1>6, <3>1
      <4>2. QED
        BY <3>2, <3>3, <4>1
    <3>5. BeginsAt(octets, data, CrLf) => BeginsAt(meant, data, CrLf)
      <4>1. BeginsAt(octets, data, CrLf) => data + 2 <= Len(octets)
        BY <1>6 DEF BeginsAt
      <4>2. data + 2 <= Len(meant)
        BY <1>9
      <4>3. SUFFICES ASSUME BeginsAt(octets, data, CrLf) PROVE BeginsAt(meant, data, CrLf)
        OBVIOUS
      <4>4. data + Len(CrLf) <= Len(octets) /\ data + Len(CrLf) <= Len(meant)
        BY <1>6, <4>1, <4>2, <4>3
      <4>5. QED
        BY <1>2, <1>6, <4>3, <4>4, BeginsInBoth
    <3>6. Place(octets, data, CrLf) # data
      BY <1>6, <2>2, <3>5, PlaceHere
    <3>7. QED
      BY <3>4, <3>6 DEF TrailersEnd
  <2>3. QED
    BY <2>1, <2>2
<1>11. CASE ~(line + 2 <= Len(octets))
  <2>1. FindCrlf(octets, at) = Nowhere
    BY <1>2, <1>3, <1>11, LineAgrees
  <2>2. ~(Len(octets) >= Len(meant))
    BY <1>4, <1>9, <1>11
  <2>3. QED
    BY <1>1, <1>2, <1>8, <2>1, <2>2 DEF CompleteAt, DecodedAt
<1>12. CASE line + 2 <= Len(octets)
  <2>1. FindCrlf(octets, at) = line /\ SizeAt(octets, at) = 0
    BY <1>2, <1>3, <1>12, LineAgrees
  <2>2. line # Nowhere /\ 0 # Nowhere
    BY DEF Nowhere
  <2>3. from[at] = IF TrailersEnd(octets, data) THEN "yes" ELSE "no"
    BY <1>4, <1>8, <2>1, <2>2 DEF CompleteAt
  <2>4. dec[at] = <<>>
    BY <1>8, <2>1 DEF DecodedAt
  <2>5. QED
    BY <1>1, <1>2, <1>10, <2>3, <2>4
<1>13. QED
  BY <1>11, <1>12

\* A broken chunk is never complete.
LEMMA BrokenStops ==
  ASSUME NEW m, m.meant \in Seq(Octet), NEW c \in ChunkRecords,
         HasLine(m, c), IsBrokenChunk(m, c),
         NEW octets \in Seq(Octet), Agree(octets, m.meant), c.at <= Len(octets),
         NEW from, IsComplete(octets, from)
  PROVE  from[c.at] # "yes"
<1>1. PICK at \in Nat, line \in Nat, size \in Nat \union {Nowhere} :
        at = c.at /\ line = c.at + c.line /\ size = c.size
  <2>1. c.at \in Nat /\ c.line \in Nat /\ c.size \in Nat \union {Nowhere}
    BY DEF ChunkRecords
  <2>2. c.at + c.line \in Nat
    BY <2>1
  <2>3. QED
    BY <2>1, <2>2
<1>2. PICK meant \in Seq(Octet) : meant = m.meant /\ Agree(octets, meant)
  OBVIOUS
<1>3. FindCrlf(meant, at) = line /\ SizeAt(meant, at) = size
  BY <1>1, <1>2 DEF HasLine
<1>4. at \in 0..Len(octets)
  BY <1>1
<1>5. from[at] = CompleteAt(octets, from, at)
  BY <1>4 DEF IsComplete
<1>6. CASE ~(line + 2 <= Len(octets))
  <2>1. FindCrlf(octets, at) = Nowhere
    BY <1>2, <1>3, <1>6, LineAgrees
  <2>2. QED
    BY <1>1, <1>5, <2>1 DEF CompleteAt
<1>7. CASE line + 2 <= Len(octets)
  <2>1. FindCrlf(octets, at) = line /\ SizeAt(octets, at) = size
    BY <1>2, <1>3, <1>7, LineAgrees
  <2>2. line # Nowhere
    BY DEF Nowhere
  <2>3. CASE size = Nowhere
    BY <1>1, <1>5, <2>1, <2>2, <2>3 DEF CompleteAt
  <2>4. CASE size # Nowhere
    <3>1. /\ size \in Nat /\ size > 0 /\ size # 0
          /\ EndOf(c) + 2 <= Len(meant) /\ Place(meant, EndOf(c), CrLf) # EndOf(c)
      BY <1>1, <1>2, <2>4 DEF IsBrokenChunk, ChunkRecords
    <3>2. PICK end \in Nat : end = line + 2 + size /\ end = EndOf(c)
      BY <1>1, <3>1 DEF EndOf, DataOf, ChunkRecords
    <3>3. DataEnd(octets, at) = end
      BY <2>1, <3>2 DEF DataEnd
    <3>4. CASE end + 2 > Len(octets)
      BY <1>1, <1>5, <2>1, <2>2, <2>4, <3>1, <3>3, <3>4 DEF CompleteAt
    <3>5. CASE ~(end + 2 > Len(octets))
      <4>1. CrLf \in Seq(Octet) /\ Len(CrLf) = 2
        BY Words
      <4>2. ~BeginsAt(meant, end, CrLf)
        BY <3>1, <3>2, <4>1, PlaceHere, ZenonT(60)
      <4>3. end + 2 <= Len(octets) /\ end + 2 <= Len(meant)
        BY <3>1, <3>2, <3>5
      <4>4. ~BeginsAt(octets, end, CrLf)
        BY <1>2, <4>1, <4>2, <4>3, BeginsInBoth
      <4>5. Place(octets, end, CrLf) # end
        BY <4>1, <4>4, PlaceHere
      <4>6. QED
        BY <1>1, <1>5, <2>1, <2>2, <2>4, <3>1, <3>3, <3>5, <4>5 DEF CompleteAt
    <3>6. QED
      BY <3>4, <3>5
  <2>5. QED
    BY <2>3, <2>4
<1>8. QED
  BY <1>6, <1>7

\* A message that ends with its last chunk, and what the two loops find of it from
\* one of its chunks on.
Ends(m) == IsLastChunk(m, Last(m.chunks))
Found(m, octets, from, dec, c) ==
  /\ c.at <= Len(octets) /\ from[c.at] = "yes" =>
       /\ Ends(m) /\ Len(octets) >= Len(m.meant) /\ c.from <= Len(m.body)
       /\ dec[c.at] = SubSeq(m.body, c.from + 1, Len(m.body))
  /\ c.at <= Len(octets) /\ Ends(m) => from[c.at] \in {"yes", "no"}
  /\ Ends(m) => c.at <= Len(m.meant)
  /\ Ends(m) /\ Len(octets) >= Len(m.meant) => from[c.at] = "yes"

\* What Found says holds of the last chunk,
LEMMA FoundLast ==
  ASSUME NEW m, m.meant \in Seq(Octet), m.body \in Seq(Octet),
         NEW c \in ChunkRecords, c = Last(m.chunks), HasLine(m, c),
         IsLastChunk(m, c) \/ IsBrokenChunk(m, c),
         NEW octets \in Seq(Octet), Agree(octets, m.meant),
         NEW from, IsComplete(octets, from), NEW dec, IsDecoded(octets, dec)
  PROVE  Found(m, octets, from, dec, c)
<1>1. c.at \in Nat /\ c.line \in Nat
  BY DEF ChunkRecords
<1>2. CASE IsLastChunk(m, c)
  <2>1. c.at <= Len(m.meant)
    <3>1. Len(m.meant) >= DataOf(c)
      BY <1>1, <1>2 DEF IsLastChunk, DataOf
    <3>2. QED
      BY <1>1, <3>1 DEF DataOf
  <2>2. c.from = Len(m.body) /\ c.from <= Len(m.body)
    BY <1>2 DEF IsLastChunk
  <2>3. SubSeq(m.body, c.from + 1, Len(m.body)) = <<>>
    BY <2>2
  <2>4. Len(octets) >= Len(m.meant) => c.at <= Len(octets)
    BY <1>1, <2>1
  <2>5. c.at <= Len(octets) =>
          /\ from[c.at] = IF Len(octets) >= Len(m.meant) THEN "yes" ELSE "no"
          /\ dec[c.at] = <<>>
    BY <1>2, LastAdds
  <2>6. QED
    BY <1>2, <2>1, <2>2, <2>3, <2>4, <2>5 DEF Found, Ends
<1>3. CASE ~IsLastChunk(m, c)
  <2>1. c.at <= Len(octets) => from[c.at] # "yes"
    BY <1>3, BrokenStops
  <2>2. QED
    BY <1>3, <2>1 DEF Found, Ends
<1>4. QED
  BY <1>2, <1>3

\* and of each one, if it is of the one behind it.
LEMMA FoundBefore ==
  ASSUME NEW m, m.meant \in Seq(Octet), m.body \in Seq(Octet),
         NEW c \in ChunkRecords, NEW d \in ChunkRecords,
         HasLine(m, c), IsChunk(m, c), NextChunk(c, d),
         NEW octets \in Seq(Octet), Agree(octets, m.meant),
         NEW from, IsComplete(octets, from), NEW dec, IsDecoded(octets, dec),
         Found(m, octets, from, dec, d)
  PROVE  Found(m, octets, from, dec, c)
<1>1. /\ c.at \in Nat /\ d.at \in Nat /\ c.from \in Nat /\ d.from \in Nat
      /\ d.at > c.at /\ d.from >= c.from
  <2>1. /\ c.at \in Nat /\ d.at \in Nat /\ c.from \in Nat /\ d.from \in Nat
        /\ c.line \in Nat /\ c.size \in Nat
    BY DEF ChunkRecords, IsChunk, Nowhere
  <2>2. d.at = c.at + c.line + 2 + c.size + 2 /\ d.from = c.from + c.size
    BY DEF NextChunk, EndOf, DataOf
  <2>3. QED
    BY <2>1, <2>2, SMTT(60)
<1>2. Ends(m) => c.at <= Len(m.meant)
  BY <1>1 DEF Found
<1>3. CASE c.at > Len(octets)
  BY <1>1, <1>2, <1>3 DEF Found
<1>4. CASE c.at <= Len(octets)
  <2>1. Adds(m, octets, from, dec, c, d)
    BY <1>4, ChunkAdds
  <2>2. CASE d.at > Len(octets)
    <3>1. from[c.at] = "no" /\ ~(Len(octets) >= Len(m.meant))
      BY <1>1, <2>1, <2>2 DEF Adds
    <3>2. QED
      BY <1>2, <3>1 DEF Found
  <2>3. CASE ~(d.at > Len(octets))
    <3>1. /\ d.at <= Len(octets) /\ from[c.at] = from[d.at]
          /\ dec[c.at] = SubSeq(m.body, c.from + 1, d.from) \o dec[d.at]
      BY <1>1, <2>1, <2>3 DEF Adds
    <3>2. ASSUME from[c.at] = "yes"
          PROVE  /\ c.from <= Len(m.body)
                 /\ dec[c.at] = SubSeq(m.body, c.from + 1, Len(m.body))
      <4>1. /\ d.from <= Len(m.body)
            /\ dec[d.at] = SubSeq(m.body, d.from + 1, Len(m.body))
        BY <3>1, <3>2 DEF Found
      <4>2. SubSeq(m.body, c.from + 1, d.from) \o SubSeq(m.body, d.from + 1, Len(m.body))
              = SubSeq(m.body, c.from + 1, Len(m.body))
        <5>1. PICK body \in Seq(Octet), n \in Nat : body = m.body /\ n = Len(body)
          OBVIOUS
        <5>2. /\ c.from + 1 \in 1 .. n + 1 /\ d.from \in (c.from + 1) - 1 .. n
              /\ n \in d.from .. n
          BY <1>1, <4>1, <5>1, SMTT(60)
        <5>3. QED
          BY <5>1, <5>2, ConcatAdjacentSubSeq
      <4>3. dec[c.at] = SubSeq(m.body, c.from + 1, Len(m.body))
        BY <3>1, <4>1, <4>2, Zenon
      <4>4. QED
        BY <1>1, <4>1, <4>3
    <3>3. QED
      BY <1>2, <3>1, <3>2 DEF Found
  <2>4. QED
    BY <2>2, <2>3
<1>5. QED
  BY <1>1, <1>3, <1>4

\* What the two loops find of a message: only the end of what is meant is an end,
\* and what is decoded then is the body.
LEMMA ChunkedFound ==
  ASSUME NEW m, m.meant \in Seq(Octet), m.body \in Seq(Octet), ChunkedAsMeant(m),
         NEW octets \in Seq(Octet), Agree(octets, m.meant)
  PROVE  /\ HasCompleteChunkedBody(octets) = "yes" =>
              /\ Len(octets) >= Len(m.meant)
              /\ DecodeChunkedBody(octets) = m.body
         /\ m.whole => HasCompleteChunkedBody(octets) =
                         IF Len(octets) >= Len(m.meant) THEN "yes" ELSE "no"
<1>1. PICK from : IsComplete(octets, from) /\ HasCompleteChunkedBody(octets) = from[0]
  BY CompleteIs
<1>2. PICK dec : IsDecoded(octets, dec) /\ DecodeChunkedBody(octets) = dec[0]
  BY DecodedIs
<1>3. PICK chunk \in Seq(ChunkRecords) : chunk = m.chunks /\ chunk # <<>>
  BY DEF ChunkedAsMeant
<1>4. PICK n \in Nat : n = Len(chunk) /\ n >= 1
  BY <1>3
<1>5. /\ \A i \in 1..n : chunk[i] \in ChunkRecords /\ HasLine(m, chunk[i])
      /\ \A i \in 1..(n - 1) : IsChunk(m, chunk[i]) /\ NextChunk(chunk[i], chunk[i + 1])
      /\ chunk[1].at = 0 /\ chunk[1].from = 0
      /\ IsLastChunk(m, chunk[n]) \/ (~m.whole /\ IsBrokenChunk(m, chunk[n]))
      /\ chunk[n] = Last(m.chunks)
  BY <1>3, <1>4 DEF ChunkedAsMeant, HasLine, Last
<1>6. PICK S : S = {k \in Nat : k <= n - 1 => Found(m, octets, from, dec, chunk[n - k])}
  OBVIOUS
<1>7. 0 \in S
  <2>1. Found(m, octets, from, dec, chunk[n])
    BY <1>1, <1>2, <1>4, <1>5, FoundLast
  <2>2. n - 0 = n
    OBVIOUS
  <2>3. QED
    BY <1>6, <2>1, <2>2
<1>8. ASSUME NEW k \in Nat, k \in S PROVE k + 1 \in S
  <2>1. SUFFICES ASSUME k + 1 <= n - 1
                 PROVE Found(m, octets, from, dec, chunk[n - (k + 1)])
    BY <1>6
  <2>2. PICK i \in 1..(n - 1) : i = n - (k + 1) /\ i + 1 = n - k /\ i + 1 \in 1..n
    BY <2>1
  <2>3. Found(m, octets, from, dec, chunk[i + 1])
    BY <1>6, <1>8, <2>1, <2>2
  <2>4. PICK c \in ChunkRecords, d \in ChunkRecords :
          c = chunk[i] /\ d = chunk[i + 1] /\ HasLine(m, c)
          /\ IsChunk(m, c) /\ NextChunk(c, d)
    BY <1>5, <2>2, SMTT(60)
  <2>5. Found(m, octets, from, dec, c)
    BY <1>1, <1>2, <2>3, <2>4, FoundBefore
  <2>6. QED
    BY <2>2, <2>4, <2>5
<1>9. Nat \subseteq S
  BY <1>7, <1>8, InductivePlaces
<1>10. Found(m, octets, from, dec, chunk[1])
  <2>1. n - 1 \in S /\ n - (n - 1) = 1
    BY <1>4, <1>9
  <2>2. QED
    BY <1>6, <2>1
<1>11. 0 <= Len(octets)
  OBVIOUS
<1>12. SubSeq(m.body, 0 + 1, Len(m.body)) = m.body
  BY SubSeqFull
<1>13. m.whole => Ends(m)
  BY <1>5 DEF Ends
<1>14. QED
  BY <1>1, <1>2, <1>5, <1>10, <1>11, <1>12, <1>13 DEF Found

-----------------------------------------------------------------------------
(* What was read is the beginning of what was sent.                        *)

\* A part of octets is octets.
LEMMA PartIs ==
  ASSUME NEW s \in Seq(Octet), NEW first \in Nat, first >= 1,
         NEW last \in Nat, last <= Len(s),
         NEW part, part = SubSeq(s, first, last)
  PROVE  /\ part \in Seq(Octet)
         /\ Len(part) = IF first <= last THEN last - first + 1 ELSE 0
         /\ \A i \in 1..Len(part) : part[i] = s[first + i - 1]
<1>1. \A i \in first..last : s[i] \in Octet
  OBVIOUS
<1>2. /\ part \in Seq(Octet) /\ Len(part) = IF first <= last THEN last - first + 1 ELSE 0
      /\ \A i \in 1..(last - first + 1) : part[i] = s[first + i - 1]
  BY <1>1, SubSeqProperties
<1>3. \A i \in 1..Len(part) : i \in 1..(last - first + 1)
  BY <1>2
<1>4. QED
  BY <1>2, <1>3

\* Octets behind octets are octets.
LEMMA JoinIs ==
  ASSUME NEW s \in Seq(Octet), NEW t \in Seq(Octet), NEW both, both = s \o t
  PROVE  /\ both \in Seq(Octet) /\ Len(both) = Len(s) + Len(t)
         /\ \A i \in 1..Len(both) : both[i] = IF i <= Len(s) THEN s[i] ELSE t[i - Len(s)]
BY ConcatProperties

\* Three pieces of octets are joined in either order.
LEMMA Associative ==
  \A s, t, u \in Seq(Octet) : (s \o t) \o u = s \o (t \o u)
BY ConcatAssociative, SMTT(60)

\* A read takes octets from the front of what is unread to the end of what is read.
LEMMA ReadOn ==
  ASSUME NEW read \in Seq(Octet), NEW rest \in Seq(Octet), NEW n \in 1..Len(rest)
  PROVE  /\ read \o SubSeq(rest, 1, n) \in Seq(Octet)
         /\ From(rest, n) \in Seq(Octet)
         /\ Len(read \o SubSeq(rest, 1, n)) = Len(read) + n
         /\ (read \o SubSeq(rest, 1, n)) \o From(rest, n) = read \o rest
<1>1. PICK front \in Seq(Octet) : front = SubSeq(rest, 1, n) /\ Len(front) = n
  <2>1. PICK front : front = SubSeq(rest, 1, n)
    OBVIOUS
  <2>2. front \in Seq(Octet) /\ Len(front) = n
    BY <2>1, PartIs
  <2>3. QED
    BY <2>1, <2>2
<1>2. PICK back \in Seq(Octet) : back = SubSeq(rest, n + 1, Len(rest))
  <2>1. PICK back : back = SubSeq(rest, n + 1, Len(rest))
    OBVIOUS
  <2>2. back \in Seq(Octet)
    BY <2>1, PartIs, SMTT(60)
  <2>3. QED
    BY <2>1, <2>2
<1>3. front \o back = rest
  <2>1. 1 \in 1..(Len(rest) + 1) /\ n \in (1 - 1)..Len(rest) /\ Len(rest) \in n..Len(rest)
    OBVIOUS
  <2>2. front \o back = SubSeq(rest, 1, Len(rest))
    BY <1>1, <1>2, <2>1, ConcatAdjacentSubSeq
  <2>3. SubSeq(rest, 1, Len(rest)) = rest
    BY SubSeqFull
  <2>4. QED
    BY <2>2, <2>3
<1>4. (read \o front) \o back = read \o rest
  <2>1. (read \o front) \o back = read \o (front \o back)
    BY Associative, ZenonT(60)
  <2>2. QED
    BY <1>3, <2>1
<1>5. PICK both : both = read \o front
  OBVIOUS
<1>6. both \in Seq(Octet) /\ Len(both) = Len(read) + n
  BY <1>1, <1>5, JoinIs
<1>7. QED
  BY <1>1, <1>2, <1>4, <1>5, <1>6 DEF From

\* What stands in front agrees with the whole, and is it if nothing follows.
LEMMA FrontOf ==
  ASSUME NEW read \in Seq(Octet), NEW rest \in Seq(Octet), NEW all, all = read \o rest
  PROVE  /\ all \in Seq(Octet) /\ Len(all) = Len(read) + Len(rest)
         /\ Agree(read, all)
         /\ rest = <<>> \/ Len(read) = Len(all) => read = all
<1>1. /\ all \in Seq(Octet) /\ Len(all) = Len(read) + Len(rest)
      /\ \A i \in 1..Len(all) :
           all[i] = IF i <= Len(read) THEN read[i] ELSE rest[i - Len(read)]
  BY JoinIs
<1>2. Agree(read, all)
  BY <1>1 DEF Agree
<1>3. ASSUME rest = <<>> \/ Len(read) = Len(all) PROVE read = all
  <2>1. Len(read) = Len(all)
    BY <1>1, <1>3
  <2>2. \A i \in 1..Len(read) : read[i] = all[i]
    BY <1>1
  <2>3. QED
    BY <1>1, <2>1, <2>2, SeqEqual
<1>4. QED
  BY <1>1, <1>2, <1>3

\* A prefix agrees with what it is a prefix of.
LEMMA PrefixAgrees ==
  ASSUME NEW s \in Seq(Octet), NEW t \in Seq(Octet), IsPrefix(s, t)
  PROVE  Agree(s, t) /\ Agree(t, s)
<1>1. Len(s) <= Len(t) /\ SubSeq(s, 1, Len(s)) = SubSeq(t, 1, Len(s))
  BY DEF IsPrefix
<1>2. \A i \in 1..Len(s) :
        s[i] = SubSeq(s, 1, Len(s))[i] /\ t[i] = SubSeq(t, 1, Len(s))[i]
  BY <1>1
<1>3. \A i \in 1..Len(s) : s[i] = t[i]
  BY <1>1, <1>2
<1>4. QED
  BY <1>1, <1>3 DEF Agree

\* What was read of a message is what its peer meant, as far as both go.
LEMMA ReadIsMeant ==
  ASSUME NEW m, AsMeant(m), NEW read \in Seq(Octet), NEW rest \in Seq(Octet),
         read \o rest = m.wire
  PROVE  Agree(read, m.meant)
<1>1. m.wire \in Seq(Octet) /\ m.meant \in Seq(Octet)
  BY DEF AsMeant
<1>2. PICK wire \in Seq(Octet), meant \in Seq(Octet) : wire = m.wire /\ meant = m.meant
  BY <1>1
<1>3. IsPrefix(wire, meant) \/ IsPrefix(meant, wire)
  BY <1>2 DEF AsMeant
<1>4. Agree(wire, meant)
  BY <1>3, PrefixAgrees
<1>5. Agree(read, wire) /\ Len(wire) = Len(read) + Len(rest)
  BY <1>2, FrontOf
<1>6. \A i \in Nat : i >= 1 /\ i <= Len(read) /\ i <= Len(meant) => read[i] = meant[i]
  BY <1>4, <1>5 DEF Agree
<1>7. QED
  BY <1>2, <1>6 DEF Agree

\* The header block ends where the peer ended it, whatever pieces it came in.
LEMMA HeadEnds ==
  ASSUME NEW octets \in Seq(Octet), NEW rest \in Seq(Octet),
         NEW head \in Seq(Octet), NEW wire \in Seq(Octet), octets \o rest = head \o wire,
         NEW h \in Nat, h = Len(head), h >= 4, Place(head, 0, BlankLine) = h - 4
  PROVE  Place(octets, 0, BlankLine) = IF Len(octets) >= h THEN h - 4 ELSE Nowhere
<1>1. PICK blank \in Seq(Octet) : blank = BlankLine /\ Len(blank) = 4
  BY Words
<1>2. PICK all : all = head \o wire /\ all = octets \o rest
  OBVIOUS
<1>3. /\ all \in Seq(Octet) /\ Len(all) = h + Len(wire)
      /\ \A i \in 1..Len(all) : all[i] = IF i <= h THEN head[i] ELSE wire[i - h]
  <2>1. all = head \o wire
    BY <1>2
  <2>2. /\ all \in Seq(Octet) /\ Len(all) = Len(head) + Len(wire)
        /\ \A i \in 1..Len(all) : all[i] = IF i <= Len(head) THEN head[i]
                                          ELSE wire[i - Len(head)]
    BY <2>1, JoinIs
  <2>3. QED
    BY <2>2
<1>4. /\ Len(all) = Len(octets) + Len(rest) /\ Agree(octets, all)
      /\ \A i \in 1..Len(all) : all[i] = IF i <= Len(octets) THEN octets[i]
                                        ELSE rest[i - Len(octets)]
  <2>1. all = octets \o rest
    BY <1>2
  <2>2. Agree(octets, all)
    BY <2>1, FrontOf
  <2>3. /\ Len(all) = Len(octets) + Len(rest)
        /\ \A i \in 1..Len(all) : all[i] = IF i <= Len(octets) THEN octets[i]
                                          ELSE rest[i - Len(octets)]
    BY <2>1, JoinIs, SMTT(60)
  <2>4. QED
    BY <2>2, <2>3
<1>5. Agree(all, head)
  BY <1>3 DEF Agree
<1>6. Place(all, 0, blank) = h - 4
  <2>1. Place(head, 0, blank) = h - 4 /\ Place(head, 0, blank) # Nowhere
    BY <1>1 DEF Nowhere
  <2>2. Place(all, 0, blank) =
          IF Place(head, 0, blank) + Len(blank) <= Len(all) THEN Place(head, 0, blank)
          ELSE Nowhere
    BY <1>3, <1>5, <2>1, PlaceInBoth
  <2>3. (h - 4) + 4 <= Len(all)
    BY <1>3
  <2>4. QED
    BY <1>1, <2>1, <2>2, <2>3
<1>7. Place(octets, 0, blank) = IF Len(octets) >= h THEN h - 4 ELSE Nowhere
  <2>1. Place(all, 0, blank) # Nowhere
    BY <1>6 DEF Nowhere
  <2>2. Place(octets, 0, blank) =
          IF Place(all, 0, blank) + Len(blank) <= Len(octets) THEN Place(all, 0, blank)
          ELSE Nowhere
    BY <1>3, <1>4, <2>1, PlaceInBoth
  <2>3. (h - 4) + 4 <= Len(octets) <=> Len(octets) >= h
    OBVIOUS
  <2>4. QED
    BY <1>1, <1>6, <2>2, <2>3
<1>8. QED
  BY <1>1, <1>7

\* What was read behind a header block is the front of the body's octets.
Continues(octets, rest, head, wire) == octets \o rest = head \o wire
Splits(octets, rest, h, wire) ==
  /\ From(octets, h) \in Seq(Octet)
  /\ Len(From(octets, h)) = Len(octets) - h
  /\ From(octets, h) \o rest = wire

LEMMA RestOfBody ==
  ASSUME NEW octets \in Seq(Octet), NEW rest \in Seq(Octet),
         NEW head \in Seq(Octet), NEW wire \in Seq(Octet),
         Continues(octets, rest, head, wire), Len(octets) >= Len(head)
  PROVE  Splits(octets, rest, Len(head), wire)
<1>1. PICK h \in Nat : h = Len(head)
  OBVIOUS
<1>2. PICK all, back, both :
        /\ all = octets \o rest /\ all = head \o wire
        /\ h = Len(head) /\ Len(octets) >= h
        /\ back = From(octets, h) /\ both = back \o rest
  <2>1. octets \o rest = head \o wire
    BY Zenon DEF Continues
  <2>2. QED
    BY <1>1, <2>1, Zenon
<1>3. /\ all \in Seq(Octet) /\ Len(all) = h + Len(wire)
      /\ \A i \in 1..Len(all) : all[i] = IF i <= h THEN head[i] ELSE wire[i - h]
  <2>1. all = head \o wire
    BY <1>2
  <2>2. /\ all \in Seq(Octet) /\ Len(all) = Len(head) + Len(wire)
        /\ \A i \in 1..Len(all) : all[i] = IF i <= Len(head) THEN head[i]
                                          ELSE wire[i - Len(head)]
    BY <2>1, JoinIs
  <2>3. QED
    BY <1>2, <2>2
<1>4. /\ Len(all) = Len(octets) + Len(rest)
      /\ \A i \in 1..Len(all) : all[i] = IF i <= Len(octets) THEN octets[i]
                                        ELSE rest[i - Len(octets)]
  <2>1. all = octets \o rest
    BY <1>2
  <2>2. QED
    BY <2>1, JoinIs, SMTT(60)
<1>5. PICK n \in Nat, first \in Nat : n = Len(octets) /\ first = h + 1
  OBVIOUS
<1>6. back = SubSeq(octets, first, n)
  BY <1>2, <1>5 DEF From
<1>7. /\ back \in Seq(Octet) /\ Len(back) = IF first <= n THEN n - first + 1 ELSE 0
      /\ \A i \in 1..Len(back) : back[i] = octets[first + i - 1]
  <2>1. first \in Nat /\ first >= 1 /\ n \in Nat /\ n <= Len(octets)
    BY <1>5
  <2>2. QED
    BY <1>6, <2>1, PartIs, SMTT(60)
<1>8. PICK b \in Nat, r \in Nat, w \in Nat :
        /\ b = Len(back) /\ r = Len(rest) /\ w = Len(wire)
        /\ n >= h /\ b = n - h /\ n + r = h + w
  <2>1. n >= h /\ n + Len(rest) = h + Len(wire)
    BY <1>2, <1>3, <1>4, <1>5
  <2>2. Len(back) = n - h
    <3>1. first <= n \/ n = h
      BY <1>5, <2>1
    <3>2. QED
      BY <1>5, <1>7, <3>1
  <2>3. Len(back) \in Nat /\ Len(rest) \in Nat /\ Len(wire) \in Nat
    BY <1>7
  <2>4. QED
    BY <2>1, <2>2, <2>3
<1>9. /\ both \in Seq(Octet) /\ Len(both) = b + r
      /\ \A i \in 1..Len(both) : both[i] = IF i <= b THEN back[i] ELSE rest[i - b]
  <2>1. back \in Seq(Octet)
    BY <1>7
  <2>2. /\ both \in Seq(Octet) /\ Len(both) = Len(back) + Len(rest)
        /\ \A i \in 1..Len(both) : both[i] = IF i <= Len(back) THEN back[i]
                                            ELSE rest[i - Len(back)]
    BY <1>2, <2>1, JoinIs
  <2>3. QED
    BY <1>8, <2>2
<1>10. Len(both) = w
  BY <1>8, <1>9
<1>11. ASSUME NEW i \in 1..w PROVE both[i] = wire[i]
  <2>1. PICK j \in 1..(h + w) : j = h + i /\ ~(j <= h) /\ j - h = i
    <3>1. h \in Nat /\ w \in Nat
      OBVIOUS
    <3>2. h + i \in 1..(h + w) /\ ~(h + i <= h) /\ (h + i) - h = i
      BY <3>1
    <3>3. QED
      BY <3>2
  <2>2. /\ all[j] = IF j <= h THEN head[j] ELSE wire[j - h]
        /\ all[j] = IF j <= n THEN octets[j] ELSE rest[j - n]
    <3>1. j \in 1..Len(all)
      BY <1>3, <1>8
    <3>2. QED
      BY <1>3, <1>4, <1>5, <3>1
  <2>3. all[j] = wire[i]
    BY <2>1, <2>2
  <2>4. both[i] = IF i <= b THEN back[i] ELSE rest[i - b]
    BY <1>9, <1>10
  <2>5. CASE i <= b
    <3>1. i \in 1..Len(back)
      BY <1>8, <2>5
    <3>2. back[i] = octets[first + i - 1]
      BY <1>7, <3>1, Zenon
    <3>3. first + i - 1 = j /\ j <= n
      BY <1>5, <1>8, <2>1, <2>5
    <3>4. QED
      BY <2>2, <2>3, <2>4, <2>5, <3>2, <3>3
  <2>6. CASE ~(i <= b)
    <3>1. i - b = j - n /\ ~(j <= n)
      BY <1>8, <2>1, <2>6
    <3>2. QED
      BY <2>2, <2>3, <2>4, <2>6, <3>1
  <2>7. QED
    BY <2>5, <2>6
<1>12. both = wire
  BY <1>8, <1>9, <1>10, <1>11, SeqEqual
<1>13. QED
  <2>1. h \in Nat /\ h = Len(head) /\ back = From(octets, h)
    BY <1>2
  <2>2. back \in Seq(Octet)
    BY <1>7
  <2>3. Len(back) = Len(octets) - h
    BY <1>5, <1>8
  <2>4. back \o rest = wire
    BY <1>2, <1>12, Zenon
  <2>5. QED
    BY <2>1, <2>2, <2>3, <2>4, Zenon DEF Splits

\* A header block that does not end does not end in a part of it.
LEMMA HeadIsOpen ==
  ASSUME NEW octets \in Seq(Octet), NEW rest \in Seq(Octet), NEW head \in Seq(Octet),
         octets \o rest = head, Place(head, 0, BlankLine) = Nowhere
  PROVE  Place(octets, 0, BlankLine) = Nowhere
<1>1. PICK blank \in Seq(Octet) : blank = BlankLine /\ Len(blank) = 4
  BY Words
<1>2. Len(head) = Len(octets) + Len(rest) /\ Agree(octets, head)
  BY FrontOf
<1>3. PICK none, found : none = Place(head, 0, blank) /\ found = Place(octets, 0, blank)
  OBVIOUS
<1>4. \A i \in Nat : i >= 0 => ~BeginsAt(head, i, blank)
  BY <1>1, <1>3, PlaceIs DEF Nowhere
<1>5. ASSUME found # Nowhere PROVE FALSE
  <2>1. found \in Nat /\ BeginsAt(octets, found, blank)
    BY <1>3, <1>5, PlaceIs
  <2>2. found + Len(blank) <= Len(octets) /\ found + Len(blank) <= Len(head)
    BY <1>1, <1>2, <2>1 DEF BeginsAt
  <2>3. BeginsAt(head, found, blank)
    BY <1>2, <2>1, <2>2, BeginsInBoth
  <2>4. QED
    BY <1>4, <2>1, <2>3
<1>6. QED
  BY <1>1, <1>3, <1>5

-----------------------------------------------------------------------------
(* Header fields and what is recorded.                                     *)

\* The fields build_upstream_headers keeps are fields of the client, and none of
\* them is one that it drops.
LEMMA KeptIs ==
  ASSUME NEW F, NEW fields \in Seq(F)
  PROVE  Kept(fields) \in Seq({f \in F : f.name \notin Dropped})
<1> DEFINE V == Seq({f \in F : f.name \notin Dropped})
           Step(c, v) == IF fields[c].name \in Dropped THEN v ELSE Append(v, fields[c])
           IsKept(f) == f = [c \in 0..Len(fields) |->
                               IF c = 0 THEN <<>> ELSE Step(c, f[c - 1])]
<1>1. PICK n \in Nat : n = Len(fields)
  OBVIOUS
<1>2. <<>> \in V
  BY EmptySeq
<1>3. ASSUME NEW c \in 1..n, NEW v \in V PROVE Step(c, v) \in V
  <2>1. fields[c] \in F
    BY <1>1
  <2>2. CASE fields[c].name \in Dropped
    BY <2>2
  <2>3. CASE fields[c].name \notin Dropped
    <3>1. fields[c] \in {f \in F : f.name \notin Dropped}
      BY <2>1, <2>3
    <3>2. PICK G : G = {f \in F : f.name \notin Dropped}
      OBVIOUS
    <3>3. PICK x \in G : x = fields[c]
      BY <3>1, <3>2
    <3>4. v \in Seq(G)
      BY <3>2
    <3>5. Append(v, x) \in Seq(G)
      BY <3>4
    <3>6. QED
      BY <2>3, <3>2, <3>5, <3>3
  <2>4. QED
    BY <2>2, <2>3
<1> HIDE DEF V, Step
<1>4. PICK g \in [(1..n) \X V -> V] : \A c \in 1..n, v \in V : g[<<c, v>>] = Step(c, v)
  <2>1. [p \in (1..n) \X V |-> Step(p[1], p[2])] \in [(1..n) \X V -> V]
    BY <1>3
  <2>2. QED
    BY <2>1
<1>5. PICK f \in [0..n -> V] : FollowsLast(f, n, <<>>, g)
  BY <1>2, ForwardFunction
<1>6. IsKept(f)
  <2>1. \A c \in 1..n : f[c - 1] \in V
    OBVIOUS
  <2>2. f = [c \in 0..n |-> IF c = 0 THEN <<>> ELSE g[<<c, f[c - 1]>>]]
    BY <1>5 DEF FollowsLast
  <2>3. f = [c \in 0..n |-> IF c = 0 THEN <<>> ELSE Step(c, f[c - 1])]
    BY <1>4, <2>1, <2>2
  <2>4. QED
    BY <1>1, <2>3
<1>7. PICK h : h = CHOOSE e : IsKept(e)
  OBVIOUS
<1>8. IsKept(h)
  BY <1>6, <1>7
<1>9. PICK S : S = {k \in Nat : k <= n => h[k] \in V}
  OBVIOUS
<1>10. 0 \in S
  BY <1>1, <1>2, <1>8, <1>9
<1>11. ASSUME NEW k \in Nat, k \in S PROVE k + 1 \in S
  <2>1. SUFFICES ASSUME k + 1 <= n PROVE h[k + 1] \in V
    BY <1>9
  <2>2. k + 1 \in 1..n /\ h[k] \in V
    BY <1>9, <1>11, <2>1
  <2>3. h[k + 1] = Step(k + 1, h[k])
    BY <1>1, <1>8, <2>2
  <2>4. QED
    BY <1>3, <2>2, <2>3
<1>12. Nat \subseteq S
  BY <1>10, <1>11, InductivePlaces
<1>13. h[n] \in V
  BY <1>9, <1>12
<1>14. Kept(fields) = h[n]
  BY <1>1, <1>7 DEF Kept, Step
<1>15. QED
  BY <1>13, <1>14 DEF V

\* A field that may go to the upstream with this body; agree says whether the lengths
\* the client gave were those of the body.
Fits(f, body, agree) ==
  /\ f.name # "transfer-encoding"
  /\ agree /\ f.name = "content-length" => f.value = Len(body)

\* Every field of the request that is sent on fits its body, and its length is among
\* them if the client framed it.
LEMMA UpstreamFieldsFit ==
  ASSUME NEW fields, fields \in Seq(ToSet(fields)), NEW body, NEW agree \in BOOLEAN,
         agree => \A i \in Named(fields, "content-length") : fields[i].value = Len(body)
  PROVE  LET all == UpstreamRequest(fields, body).fields
         IN  /\ \A i \in 1..Len(all) : Fits(all[i], body, agree)
             /\ DOMAIN all = 1..Len(all)
             /\ ContentLength(fields) # Nowhere \/ IsChunkedEncoding(fields) =>
                  \E i \in Named(all, "content-length") : all[i].value = Len(body)
<1> DEFINE all == UpstreamRequest(fields, body).fields
<1>1. PICK F : F = ToSet(fields)
  OBVIOUS
<1>2. PICK s \in Seq(F) : s = fields
  BY <1>1
<1>3. PICK K : K = {f \in F : f.name \notin Dropped}
  OBVIOUS
<1>4. ASSUME NEW f \in K PROVE Fits(f, body, agree)
  <2>1. f \in F /\ f.name \notin Dropped
    BY <1>3
  <2>2. PICK i \in DOMAIN fields : f = fields[i]
    BY <1>1, <2>1 DEF ToSet
  <2>3. agree /\ f.name = "content-length" => f.value = Len(body)
    BY <2>2 DEF Named
  <2>4. f.name # "transfer-encoding"
    BY <2>1 DEF Dropped, HopByHop
  <2>5. QED
    BY <2>3, <2>4 DEF Fits
<1>5. PICK kept \in Seq(K) : kept = Kept(fields)
  BY <1>2, <1>3, KeptIs
<1>6. PICK value : BuildUpstreamHeaders(fields) =
        kept \o <<Field("host", "upstream"), Field("x-forwarded-for", value),
                  Field("connection", "close")>>
  BY <1>5 DEF BuildUpstreamHeaders
<1>7. PICK host, chain, close, length :
        /\ host = Field("host", "upstream") /\ chain = Field("x-forwarded-for", value)
        /\ close = Field("connection", "close") /\ length = LengthOfBody(body)
  OBVIOUS
<1>8. /\ Fits(host, body, agree) /\ Fits(chain, body, agree)
      /\ Fits(close, body, agree) /\ Fits(length, body, agree)
  BY <1>7 DEF Fits, Field, LengthOfBody
<1>9. PICK G : G = K \union {host, chain, close, length}
  OBVIOUS
<1>10. \A f \in G : Fits(f, body, agree)
  BY <1>4, <1>8, <1>9
<1>11. kept \in Seq(G)
  <2>1. K \subseteq G
    BY <1>9
  <2>2. QED
    BY <2>1, SeqMonotonic
<1>12. PICK three \in Seq(G) : three = <<host, chain, close>>
  <2>1. host \in G /\ chain \in G /\ close \in G
    BY <1>9
  <2>2. <<host, chain, close>> \in Seq(G)
    BY <2>1
  <2>3. QED
    BY <2>2
<1>13. PICK built \in Seq(G) : built = BuildUpstreamHeaders(fields)
  <2>1. BuildUpstreamHeaders(fields) = kept \o three
    BY <1>6, <1>7, <1>12
  <2>2. kept \o three \in Seq(G)
    BY <1>11, <1>12, ConcatProperties
  <2>3. QED
    BY <2>1, <2>2
<1>14. PICK last \in Seq(G) :
         last = IF ContentLength(fields) # Nowhere \/ IsChunkedEncoding(fields)
                THEN <<LengthOfBody(body)>> ELSE <<>>
  <2>1. length \in G
    BY <1>9
  <2>2. <<length>> \in Seq(G) /\ <<>> \in Seq(G)
    BY <2>1
  <2>3. QED
    BY <1>7, <2>2
<1>15. all = built \o last
  BY <1>13, <1>14 DEF UpstreamRequest
<1>16. PICK a : a = all
  OBVIOUS
<1>17. a \in Seq(G)
  <2>1. built \o last \in Seq(G)
    BY ConcatProperties
  <2>2. QED
    BY <1>15, <1>16, <2>1
<1>18. DOMAIN a = 1..Len(a) /\ \A i \in 1..Len(a) : a[i] \in G
  BY <1>17, LenProperties, ElementOfSeq
<1>19. ASSUME ContentLength(fields) # Nowhere \/ IsChunkedEncoding(fields)
       PROVE  \E i \in Named(a, "content-length") : a[i].value = Len(body)
  <2>1. length \in G /\ length.name = "content-length" /\ length.value = Len(body)
    BY <1>7, <1>9 DEF LengthOfBody, Field
  <2>2. last = <<length>>
    BY <1>7, <1>14, <1>19
  <2>3. PICK one \in Seq(G) : one = last /\ Len(one) = 1 /\ one[1] = length
    BY <2>1, <2>2
  <2>4. PICK n \in Nat : n = Len(built)
    OBVIOUS
  <2>5. Len(a) = n + 1 /\ a[n + 1] = one[1]
    <3>1. a = built \o one
      BY <1>15, <1>16, <2>3
    <3>2. /\ Len(a) = Len(built) + Len(one)
          /\ \A i \in 1..(Len(built) + Len(one)) :
               a[i] = IF i <= Len(built) THEN built[i] ELSE one[i - Len(built)]
      BY <3>1, ConcatProperties
    <3>3. PICK i \in Nat : i = n + 1
      OBVIOUS
    <3>4. i \in 1..(Len(built) + Len(one)) /\ ~(i <= Len(built)) /\ i - Len(built) = 1
      BY <2>3, <2>4, <3>3
    <3>5. a[i] = one[1]
      BY <3>2, <3>4
    <3>6. QED
      BY <2>3, <2>4, <3>2, <3>3, <3>5
  <2>6. n + 1 \in DOMAIN a
    BY <1>18, <2>4, <2>5
  <2>7. QED
    BY <2>1, <2>3, <2>5, <2>6 DEF Named
<1>20. QED
  BY <1>10, <1>16, <1>18, <1>19

\* process_body marks what it keeps of a body for what it is.
LEMMA ProcessedIs ==
  ASSUME NEW body \in Seq(Octet)
  PROVE  RecordedOf(ProcessBody(body), body)
<1>1. PICK n \in Nat : n = Len(body)
  OBVIOUS
<1>2. MaxBody \in Nat /\ MaxBody > 0
  BY ExchangeAssumption
<1>3. PICK limited : limited = IF n > MaxBody THEN LimitBody(body) ELSE body
  OBVIOUS
<1>4. PICK p : p = ProcessBody(body)
  OBVIOUS
<1>5. p = IF n = 0 THEN [marker |-> "none", text |-> <<>>]
          ELSE IF ~IsText(limited) THEN [marker |-> "[BINARY]", text |-> <<>>]
          ELSE IF n > MaxBody THEN [marker |-> "[TRUNCATED]", text |-> limited]
          ELSE [marker |-> "text", text |-> limited]
  BY <1>1, <1>3, <1>4 DEF ProcessBody
<1>6. body = <<>> <=> n = 0
  BY <1>1, EmptySeq
<1>7. CASE n = 0
  <2>1. p = [marker |-> "none", text |-> <<>>]
    BY <1>5, <1>7, Zenon
  <2>2. p.marker = "none"
    BY <2>1
  <2>3. IsText(body)
    <3>1. 1..Len(body) = {}
      BY <1>1, <1>7
    <3>2. QED
      BY <3>1 DEF IsText
  <2>4. QED
    BY <1>4, <1>6, <1>7, <2>2, <2>3 DEF RecordedOf
<1>8. CASE n # 0 /\ ~IsText(limited)
  <2>1. p.marker = "[BINARY]" /\ (n <= MaxBody => ~IsText(body))
    BY <1>2, <1>3, <1>5, <1>8
  <2>2. IsText(body) => LetterIsCut(body)
    <3>1. SUFFICES ASSUME IsText(body), ~LetterIsCut(body) PROVE IsText(limited)
      BY <1>8
    <3>2. n > MaxBody /\ limited = SubSeq(body, 1, MaxBody)
      BY <1>2, <1>3, <2>1, <3>1 DEF LimitBody
    <3>3. /\ Len(limited) = MaxBody
          /\ \A i \in 1..MaxBody : limited[i] = body[i]
      BY <1>1, <1>2, <3>2
    <3>4. ASSUME NEW i \in 1..MaxBody
          PROVE  /\ limited[i] # "binary"
                 /\ limited[i] = "n tilde 1" => i < MaxBody /\ limited[i + 1] = "n tilde 2"
                 /\ limited[i] = "n tilde 2" => i > 1 /\ limited[i - 1] = "n tilde 1"
      <4>1. i \in 1..Len(body) /\ limited[i] = body[i]
        BY <1>1, <1>2, <3>2, <3>3
      <4>2. /\ body[i] # "binary"
            /\ body[i] = "n tilde 1" => body[i + 1] = "n tilde 2"
            /\ body[i] = "n tilde 2" => i > 1 /\ body[i - 1] = "n tilde 1"
        BY <3>1, <4>1 DEF IsText
      <4>3. body[i] = "n tilde 1" => i # MaxBody
        BY <1>1, <3>1, <3>2 DEF LetterIsCut
      <4>4. i # MaxBody => limited[i + 1] = body[i + 1]
        BY <1>2, <3>3
      <4>5. i > 1 => limited[i - 1] = body[i - 1]
        BY <1>2, <3>3
      <4>6. ASSUME limited[i] = "n tilde 1"
            PROVE  i < MaxBody /\ limited[i + 1] = "n tilde 2"
        <5>1. i # MaxBody
          BY <4>1, <4>3, <4>6
        <5>2. i < MaxBody
          BY <1>2, <5>1
        <5>3. QED
          BY <4>1, <4>2, <4>4, <4>6, <5>1, <5>2
      <4>7. ASSUME limited[i] = "n tilde 2"
            PROVE  i > 1 /\ limited[i - 1] = "n tilde 1"
        BY <4>1, <4>2, <4>5, <4>7
      <4>8. QED
        BY <4>1, <4>2, <4>6, <4>7
    <3>5. QED
      BY <3>3, <3>4 DEF IsText
  <2>3. QED
    BY <1>1, <1>4, <1>6, <1>8, <2>1, <2>2 DEF RecordedOf
<1>9. CASE n # 0 /\ IsText(limited) /\ n > MaxBody
  <2>1. p.marker = "[TRUNCATED]" /\ p.text = limited
    BY <1>5, <1>9
  <2>2. limited = SubSeq(body, 1, MaxBody)
    BY <1>3, <1>9 DEF LimitBody
  <2>3. QED
    BY <1>1, <1>2, <1>4, <1>6, <1>9, <2>1, <2>2 DEF RecordedOf
<1>10. CASE n # 0 /\ IsText(limited) /\ ~(n > MaxBody)
  <2>1. p.marker = "text" /\ p.text = body /\ IsText(body)
    BY <1>3, <1>5, <1>10
  <2>2. QED
    BY <1>1, <1>4, <1>6, <1>10, <2>1 DEF RecordedOf
<1>11. QED
  BY <1>7, <1>8, <1>9, <1>10

\* The smaller and the larger of two numbers.
LEMMA OfTwo ==
  ASSUME NEW a \in Int, NEW b \in Int
  PROVE  /\ Min({a, b}) \in Int /\ Min({a, b}) <= a /\ Min({a, b}) <= b
         /\ Max({a, b}) \in Int /\ Max({a, b}) >= a /\ Max({a, b}) >= b
<1>1. \E x \in {a, b} : \A y \in {a, b} : x <= y
  OBVIOUS
<1>2. \E x \in {a, b} : \A y \in {a, b} : x >= y
  OBVIOUS
<1>3. QED
  BY <1>1, <1>2 DEF Min, Max

\* The larger of the two sizes of a read.
LEMMA OfReads ==
  /\ Max({HeadRead, BodyRead}) \in Int
  /\ Max({HeadRead, BodyRead}) >= HeadRead /\ Max({HeadRead, BodyRead}) >= BodyRead
<1>1. PICK a \in Int, b \in Int : a = HeadRead /\ b = BodyRead
  BY ExchangeAssumption
<1>2. Max({a, b}) \in Int /\ Max({a, b}) >= a /\ Max({a, b}) >= b
  BY OfTwo
<1>3. QED
  BY <1>1, <1>2

-----------------------------------------------------------------------------
(* What a reader knows of the body it reads.                               *)

\* Of a body whose length was given.
LEMMA FixedKnows ==
  ASSUME NEW m, AsMeant(m), ~IsChunkedEncoding(m.fields),
         ContentLength(m.fields) # Nowhere,
         NEW read \in Seq(Octet), NEW rest \in Seq(Octet),
         NEW wire \in Seq(Octet), wire = m.wire, wire = read \o rest
  PROVE  /\ ContentLength(m.fields) = Len(m.body) /\ Len(m.body) \in Nat
         /\ Len(read) = Len(m.body) => read = m.body /\ (m.whole => read = m.wire)
         /\ m.whole => Len(read) <= Len(m.body) /\ Len(m.body) <= BodyLimit
         /\ m.whole /\ rest = <<>> => Len(read) = Len(m.body)
<1>1. ContentLength(m.fields) = Len(m.body)
  BY DEF AsMeant
<1>2. m.body \in Seq(Octet) /\ m.meant = m.body
  BY DEF AsMeant
<1>3. PICK body \in Seq(Octet) : body = m.body
  BY <1>2
<1>4. /\ Len(wire) = Len(read) + Len(rest)
      /\ rest = <<>> \/ Len(read) = Len(wire) => read = wire
  BY FrontOf
<1>5. Agree(read, body)
  BY <1>2, <1>3, ReadIsMeant
<1>6. ASSUME Len(read) = Len(body) PROVE read = body
  <2>1. \A i \in 1..Len(read) : read[i] = body[i]
    BY <1>5, <1>6 DEF Agree
  <2>2. QED
    BY <1>6, <2>1, SeqEqual
<1>7. m.whole => wire = body /\ Len(body) <= BodyLimit
  BY <1>2, <1>3 DEF AsMeant
<1>8. Len(read) \in Nat /\ Len(rest) \in Nat /\ Len(body) \in Nat
  OBVIOUS
<1>9. m.whole => Len(read) <= Len(body)
  BY <1>4, <1>7, <1>8
<1>10. m.whole /\ rest = <<>> => Len(read) = Len(body)
  BY <1>4, <1>7
<1>11. Len(read) = Len(body) /\ m.whole => read = wire
  BY <1>6, <1>7
<1>12. QED
  BY <1>1, <1>3, <1>6, <1>7, <1>8, <1>9, <1>10, <1>11

\* Of a body in chunks.
LEMMA ChunkedKnows ==
  ASSUME NEW m, AsMeant(m), IsChunkedEncoding(m.fields),
         NEW read \in Seq(Octet), NEW rest \in Seq(Octet),
         NEW wire \in Seq(Octet), wire = m.wire, wire = read \o rest
  PROVE  /\ HasCompleteChunkedBody(read) = "yes" =>
              DecodeChunkedBody(read) = m.body /\ (m.whole => read = m.wire)
         /\ m.whole => /\ HasCompleteChunkedBody(read) \in {"yes", "no"}
                       /\ Len(m.body) <= BodyLimit
         /\ m.whole /\ rest = <<>> => HasCompleteChunkedBody(read) = "yes"
<1>1. m.meant \in Seq(Octet) /\ m.body \in Seq(Octet) /\ ChunkedAsMeant(m)
  BY DEF AsMeant
<1>2. PICK meant \in Seq(Octet) : meant = m.meant
  BY <1>1
<1>3. /\ Len(wire) = Len(read) + Len(rest)
      /\ rest = <<>> \/ Len(read) = Len(wire) => read = wire
  BY FrontOf
<1>4. Agree(read, m.meant)
  BY ReadIsMeant
<1>5. PICK complete : complete = HasCompleteChunkedBody(read)
  OBVIOUS
<1>6. /\ complete = "yes" => Len(read) >= Len(meant) /\ DecodeChunkedBody(read) = m.body
      /\ m.whole => complete = IF Len(read) >= Len(meant) THEN "yes" ELSE "no"
  BY <1>1, <1>2, <1>4, <1>5, ChunkedFound
<1>7. m.whole => wire = meant /\ Len(m.body) <= BodyLimit
  BY <1>2 DEF AsMeant
<1>8. Len(read) \in Nat /\ Len(rest) \in Nat /\ Len(meant) \in Nat
  OBVIOUS
<1>9. ASSUME m.whole, complete = "yes" PROVE read = wire
  <2>1. Len(read) >= Len(wire)
    BY <1>6, <1>7, <1>9
  <2>2. Len(read) = Len(wire)
    BY <1>3, <1>8, <2>1
  <2>3. QED
    BY <1>3, <2>2
<1>10. ASSUME m.whole, rest = <<>> PROVE complete = "yes"
  <2>1. Len(read) >= Len(meant)
    BY <1>3, <1>7, <1>8, <1>10
  <2>2. QED
    BY <1>6, <1>10, <2>1
<1>11. QED
  BY <1>2, <1>5, <1>6, <1>7, <1>9, <1>10

-----------------------------------------------------------------------------
(* The inductive invariant.                                                *)

\* What was decoded of the request is what its client meant, while it is needed.
SentIsMeant ==
  phase \in {"upstream head", "upstream body", "answered"} => sent = request.body

IInv ==
  /\ BodyBounded
  /\ raw \in Seq(Octet) /\ unread \in Seq(Octet)
  /\ SentIsMeant
  /\ ForwardedIsSent
  /\ DeliveredIsReply
  /\ RecordedIsExchanged
  /\ WholeIsAnswered

\* What both kinds of message are.
IsRequest(m) == AsMeant(m) /\ (IsUnframed(m) => m.body = <<>>)
IsResponse(m) ==
  AsMeant(m) /\ (IsUnframed(m) => m.wire = m.body /\ (m.whole => m.ends = "closes"))

\* No peer sends the message that stands for none.
LEMMA NoMessageIsNone == \A m : AsMeant(m) => m # NoMessage
<1>1. NoMessage.ends = "absent"
  BY DEF NoMessage
<1>2. \A m : AsMeant(m) => m.ends \in {"closes", "stays"}
  BY DEF AsMeant
<1>3. "absent" \notin {"closes", "stays"}
  OBVIOUS
<1>4. QED
  BY <1>1, <1>2, <1>3

\* Whose message is read, and what it is.
LEMMA PeerIs ==
  ASSUME TypeOK, InHead \/ InBody
  PROVE  /\ AsMeant(Peer)
         /\ IsRequest(request)
         /\ phase \in {"client head", "client body"} => Peer = request
         /\ phase \in {"upstream head", "upstream body"} =>
              Peer = response /\ IsResponse(response) /\ response # NoMessage
         /\ phase \in {"client head", "client body", "upstream head", "upstream body"}
<1>1. IsRequest(request)
  BY MessageAssumption DEF TypeOK, IsRequest
<1>2. phase \in {"client head", "client body"} => Peer = request
  BY DEF Peer
<1>3. phase \in {"upstream head", "upstream body"} =>
        Peer = response /\ response \in Responses /\ response # NoMessage
  BY DEF Peer, TypeOK
<1>4. response \in Responses => IsResponse(response)
  BY MessageAssumption DEF IsResponse
<1>5. phase \in {"client head", "client body", "upstream head", "upstream body"}
  BY DEF InHead, InBody
<1>6. QED
  BY <1>1, <1>2, <1>3, <1>4, <1>5 DEF IsRequest, IsResponse

\* Which reader takes the body, and how it goes on.
LEMMA FramingIs ==
  /\ Framing = "chunked" => IsChunkedEncoding(Peer.fields) /\ Progress = AsChunked
  /\ Framing = "fixed" =>
       /\ ~IsChunkedEncoding(Peer.fields) /\ ContentLength(Peer.fields) # Nowhere
       /\ Progress = AsFixed(ContentLength(Peer.fields))
  /\ Framing = "none" => IsUnframed(Peer) /\ phase = "client body" /\ Progress = "done"
  /\ Framing = "until eof" =>
       /\ IsUnframed(Peer) /\ phase # "client body"
       /\ Progress = IF TooLong THEN "bad" ELSE "more"
  /\ Framing \in {"chunked", "fixed", "none", "until eof"}
<1>1. Framing = "chunked" => IsChunkedEncoding(Peer.fields)
  BY DEF Framing
<1>2. Framing = "fixed" =>
        ~IsChunkedEncoding(Peer.fields) /\ ContentLength(Peer.fields) # Nowhere
  BY DEF Framing
<1>3. Framing = "none" => IsUnframed(Peer) /\ phase = "client body"
  BY DEF Framing, IsUnframed
<1>4. Framing = "until eof" => IsUnframed(Peer) /\ phase # "client body"
  BY DEF Framing, IsUnframed
<1>5. Framing \in {"chunked", "fixed", "none", "until eof"}
  BY DEF Framing
<1>6. /\ Framing = "chunked" => Progress = AsChunked
      /\ Framing = "fixed" => Progress = AsFixed(ContentLength(Peer.fields))
      /\ Framing = "none" => Progress = "done"
      /\ Framing = "until eof" => Progress = IF TooLong THEN "bad" ELSE "more"
  BY DEF Progress
<1>7. QED
  BY <1>1, <1>2, <1>3, <1>4, <1>5, <1>6

\* What the reader of a body knows: when it is done it has the body that was meant,
\* what is whole is never bad, and it does not wait for more than there is.
LEMMA ReaderKnows ==
  ASSUME IInv, InBody
  PROVE  /\ Progress = "done" => /\ Body = Peer.body
                                 /\ Framing # "none" /\ Peer.whole => raw = Peer.wire
         /\ Framing = "until eof" /\ unread = <<>> => Body = Peer.body /\ raw = Peer.wire
         /\ Progress = "bad" => ~Peer.whole
         /\ Progress = "more" /\ unread = <<>> /\ Peer.whole =>
              Framing = "until eof" /\ Peer.ends = "closes"
         /\ Progress = "done" => Framing # "until eof"
<1>1. raw \in Seq(Octet) /\ unread \in Seq(Octet) /\ TypeOK
  BY DEF IInv, BodyBounded
<1>2. raw \o unread = Peer.wire
  BY <1>1 DEF TypeOK
<1>3. AsMeant(Peer)
  BY <1>1, PeerIs
<1>4. PICK m : m = Peer
  OBVIOUS
<1>5. PICK wire \in Seq(Octet) : AsMeant(m) /\ wire = m.wire /\ wire = raw \o unread
  <2>1. AsMeant(m) /\ m.wire = raw \o unread
    BY <1>2, <1>3, <1>4
  <2>2. m.wire \in Seq(Octet)
    BY <2>1 DEF AsMeant
  <2>3. QED
    BY <2>1, <2>2
<1>6. CASE Framing = "chunked"
  <2>1. /\ IsChunkedEncoding(m.fields) /\ Progress = AsChunked
        /\ Body = DecodeChunkedBody(raw)
    BY <1>4, <1>6, FramingIs DEF Body
  <2>2. /\ HasCompleteChunkedBody(raw) = "yes" =>
             DecodeChunkedBody(raw) = m.body /\ (m.whole => raw = m.wire)
        /\ m.whole => /\ HasCompleteChunkedBody(raw) \in {"yes", "no"}
                      /\ Len(m.body) <= BodyLimit
        /\ m.whole /\ unread = <<>> => HasCompleteChunkedBody(raw) = "yes"
    BY <1>1, <1>5, <2>1, ChunkedKnows
  <2>3. Progress = IF HasCompleteChunkedBody(raw) = "no" THEN "more"
                   ELSE IF /\ HasCompleteChunkedBody(raw) = "yes"
                           /\ Len(DecodeChunkedBody(raw)) <= BodyLimit THEN "done"
                   ELSE "bad"
    BY <2>1 DEF AsChunked
  <2>4. QED
    BY <1>4, <1>6, <2>1, <2>2, <2>3
<1>7. CASE Framing = "fixed"
  <2>1. /\ ~IsChunkedEncoding(m.fields) /\ ContentLength(m.fields) # Nowhere
        /\ Progress = AsFixed(ContentLength(m.fields)) /\ Body = raw
    BY <1>4, <1>7, FramingIs DEF Body
  <2>2. /\ ContentLength(m.fields) = Len(m.body) /\ Len(m.body) \in Nat
        /\ Len(raw) = Len(m.body) => raw = m.body /\ (m.whole => raw = m.wire)
        /\ m.whole => Len(raw) <= Len(m.body) /\ Len(m.body) <= BodyLimit
        /\ m.whole /\ unread = <<>> => Len(raw) = Len(m.body)
    BY <1>1, <1>5, <2>1, FixedKnows
  <2>3. PICK read \in Nat, length \in Nat : read = Len(raw) /\ length = Len(m.body)
    BY <1>1, <2>2
  <2>4. Progress = IF length > BodyLimit \/ read > length THEN "bad"
                   ELSE IF read = length THEN "done" ELSE "more"
    BY <2>1, <2>2, <2>3 DEF AsFixed
  <2>5. BodyLimit \in Nat
    BY ExchangeAssumption
  <2>6. Progress = "bad" => ~m.whole
    BY <2>2, <2>3, <2>4, <2>5
  <2>7. Progress = "done" => read = length
    BY <2>4
  <2>8. Progress = "more" => read # length
    BY <2>4
  <2>9. QED
    BY <1>4, <1>7, <2>1, <2>2, <2>3, <2>6, <2>7, <2>8
<1>8. CASE Framing = "none"
  <2>1. IsUnframed(m) /\ phase = "client body" /\ Progress = "done" /\ Body = <<>>
    BY <1>4, <1>8, FramingIs DEF Body
  <2>2. m = request /\ IsRequest(request)
    BY <1>1, <1>4, <2>1, PeerIs
  <2>3. m.body = <<>>
    BY <2>1, <2>2 DEF IsRequest
  <2>4. QED
    BY <1>4, <1>8, <2>1, <2>3
<1>9. CASE Framing = "until eof"
  <2>1. /\ IsUnframed(m) /\ phase # "client body" /\ Body = raw
        /\ Progress = IF TooLong THEN "bad" ELSE "more"
    BY <1>4, <1>9, FramingIs DEF Body
  <2>2. m = response /\ IsResponse(response)
    BY <1>1, <1>4, <2>1, PeerIs DEF InBody
  <2>3. m.wire = m.body /\ (m.whole => m.ends = "closes")
    BY <2>1, <2>2 DEF IsResponse
  <2>4. wire = raw \o unread
    BY <1>5
  <2>5. /\ Len(wire) = Len(raw) + Len(unread)
        /\ unread = <<>> => raw = wire
    BY <1>1, <2>4, FrontOf
  <2>6. ASSUME m.whole PROVE ~TooLong
    <3>1. m.body = m.wire /\ Len(m.body) <= BodyLimit
      BY <1>5, <2>3, <2>6 DEF AsMeant
    <3>2. Len(wire) <= BodyLimit
      BY <1>5, <3>1
    <3>3. Len(raw) \in Nat /\ Len(unread) \in Nat /\ BodyLimit \in Nat
      BY <1>1, ExchangeAssumption
    <3>4. Len(raw) <= BodyLimit
      BY <2>5, <3>2, <3>3
    <3>5. QED
      BY <3>3, <3>4 DEF TooLong
  <2>7. Progress = "done" => FALSE
    BY <2>1
  <2>8. Progress = "bad" => ~m.whole
    BY <2>1, <2>6
  <2>9. QED
    BY <1>4, <1>5, <1>9, <2>1, <2>3, <2>5, <2>7, <2>8
<1>10. QED
  BY <1>6, <1>7, <1>8, <1>9, FramingIs

-----------------------------------------------------------------------------
(* The steps.                                                              *)

RawBounded ==
  InBody /\ Framing # "chunked" => Len(raw) <= BodyLimit + Max({HeadRead, BodyRead})

\* A header block whose end was not read is not all that was sent, or has no end.
LEMMA HeadIsShort ==
  ASSUME TypeOK, raw \in Seq(Octet), unread \in Seq(Octet), InHead
  PROVE  /\ Peer.head \in Seq(Octet) /\ Peer.wire \in Seq(Octet)
         /\ \/ /\ Len(Peer.head) >= 4
               /\ Place(Peer.head, 0, BlankLine) = Len(Peer.head) - 4
               /\ Len(raw) < Len(Peer.head)
            \/ /\ Place(Peer.head, 0, BlankLine) = Nowhere
               /\ Peer.wire = <<>> /\ ~Peer.whole
         /\ unread = <<>> => ~Peer.whole
<1>1. AsMeant(Peer)
  BY PeerIs
<1>2. PICK head \in Seq(Octet), wire \in Seq(Octet) : head = Peer.head /\ wire = Peer.wire
  BY <1>1 DEF AsMeant
<1>3. raw \o unread = head \o wire
  BY <1>2 DEF TypeOK
<1>4. \/ Len(head) >= 4 /\ Place(head, 0, BlankLine) = Len(head) - 4
      \/ Place(head, 0, BlankLine) = Nowhere /\ wire = <<>> /\ ~Peer.whole
  BY <1>1, <1>2 DEF AsMeant, HeadAsMeant
<1>5. CASE Len(head) >= 4 /\ Place(head, 0, BlankLine) = Len(head) - 4
  <2>1. PICK h \in Nat : h = Len(head) /\ h >= 4 /\ Place(head, 0, BlankLine) = h - 4
    BY <1>5
  <2>2. Place(raw, 0, BlankLine) = IF Len(raw) >= h THEN h - 4 ELSE Nowhere
    BY <1>3, <2>1, HeadEnds
  <2>3. Place(raw, 0, BlankLine) = Nowhere
    BY DEF TypeOK
  <2>4. Len(raw) \in Nat /\ Len(raw) < h
    BY <2>1, <2>2, <2>3 DEF Nowhere
  <2>5. ASSUME unread = <<>> PROVE FALSE
    <3>1. PICK all : all = raw \o unread /\ all = head \o wire
      BY <1>3
    <3>2. Len(all) = Len(raw) + Len(unread)
      BY <3>1, JoinIs
    <3>3. Len(all) = Len(head) + Len(wire)
      BY <3>1, JoinIs
    <3>4. Len(unread) = 0 /\ Len(wire) \in Nat
      BY <2>5, EmptySeq
    <3>5. QED
      BY <2>1, <2>4, <3>2, <3>3, <3>4
  <2>6. QED
    BY <1>2, <1>5, <2>1, <2>4, <2>5
<1>6. CASE Place(head, 0, BlankLine) = Nowhere /\ wire = <<>> /\ ~Peer.whole
  BY <1>2, <1>6
<1>7. QED
  BY <1>4, <1>5, <1>6

\* A step that leaves the outputs alone and ends nothing keeps what is said of them.
LEMMA OutputsKept ==
  ASSUME IInv, UNCHANGED <<request, response, outputVars>>,
         phase' \notin {"answered"},
         phase' \in {"upstream head", "upstream body"} =>
           phase \in {"upstream head", "upstream body"}
  PROVE  SentIsMeant' /\ ForwardedIsSent' /\ DeliveredIsReply' /\ RecordedIsExchanged'
<1>1. /\ request' = request /\ response' = response /\ sent' = sent
      /\ forwarded' = forwarded /\ phase' # "answered"
  BY DEF outputVars
<1>2. ForwardedIsSent /\ SentIsMeant
  BY DEF IInv
<1>3. SentIsMeant'
  BY <1>1, <1>2 DEF SentIsMeant
<1>4. ForwardedIsSent'
  BY <1>1, <1>2 DEF ForwardedIsSent
<1>5. DeliveredIsReply' /\ RecordedIsExchanged'
  BY <1>1 DEF DeliveredIsReply, RecordedIsExchanged
<1>6. QED
  BY <1>3, <1>4, <1>5

\* An end keeps the invariant, if the message that is read is not whole.
LEMMA EndsKeeps ==
  ASSUME IInv, InHead \/ InBody, ~Peer.whole,
         phase' = IF phase = "client body" THEN "refused" ELSE "dropped",
         UNCHANGED <<request, response, outputVars>>,
         raw' \in Seq(Octet), unread' \in Seq(Octet)
  PROVE  IInv'
<1>1. TypeOK
  BY DEF IInv, BodyBounded
<1>2. /\ phase' = IF phase = "client body" THEN "refused" ELSE "dropped"
      /\ request' = request /\ response' = response
      /\ UNCHANGED <<request, response, outputVars>>
  OBVIOUS
<1>3. phase' \in {"refused", "dropped"}
  BY <1>2
<1>4. ~InHead' /\ ~InBody'
  BY <1>3 DEF InHead, InBody
<1>5. TypeOK'
  BY <1>1, <1>2, <1>3, <1>4 DEF TypeOK
<1>6. BodyBounded'
  BY <1>4, <1>5 DEF BodyBounded
<1>7. SentIsMeant' /\ ForwardedIsSent' /\ DeliveredIsReply' /\ RecordedIsExchanged'
  BY <1>2, <1>3, OutputsKept
<1>8. WholeIsAnswered'
  <2>1. CASE phase \in {"client head", "client body"}
    <3>1. ~request.whole
      BY <1>1, <2>1, PeerIs
    <3>2. QED
      BY <1>2, <3>1 DEF WholeIsAnswered
  <2>2. CASE phase \in {"upstream head", "upstream body"}
    <3>1. ~response.whole /\ response # NoMessage
      BY <1>1, <2>2, PeerIs
    <3>2. phase' = "dropped"
      BY <1>2, <2>2
    <3>3. QED
      BY <1>2, <3>1, <3>2 DEF WholeIsAnswered
  <2>3. QED
    BY <1>1, <2>1, <2>2, PeerIs
<1>9. QED
  BY <1>6, <1>7, <1>8 DEF IInv

\* So does failing.
LEMMA FailsKeeps ==
  ASSUME IInv, InHead \/ InBody, ~Peer.whole, Fails
  PROVE  IInv'
<1>1. raw \in Seq(Octet) /\ unread \in Seq(Octet)
  BY DEF IInv
<1>2. /\ phase' = IF phase = "client body" THEN "refused" ELSE "dropped"
      /\ raw' = raw /\ unread' = unread
      /\ UNCHANGED <<request, response, outputVars>>
  BY DEF Fails
<1>3. QED
  BY <1>1, <1>2, EndsKeeps

\* What is whole is never bad;
LEMMA BodyIsBadKeeps == IInv /\ BodyIsBad => IInv'
<1> SUFFICES ASSUME IInv, BodyIsBad PROVE IInv'
  OBVIOUS
<1>1. InBody /\ Progress = "bad" /\ Fails
  BY DEF BodyIsBad
<1>2. ~Peer.whole
  BY <1>1, ReaderKnows
<1>3. QED
  BY <1>1, <1>2, FailsKeeps

\* nor is a peer that closes early one that has sent all;
LEMMA ClosedEarlyKeeps == IInv /\ ClosedEarly => IInv'
<1> SUFFICES ASSUME IInv, ClosedEarly PROVE IInv'
  OBVIOUS
<1>1. TypeOK /\ raw \in Seq(Octet) /\ unread \in Seq(Octet)
  BY DEF IInv, BodyBounded
<1>2. unread = <<>> /\ Fails
  BY DEF ClosedEarly
<1>3. InHead \/ (InBody /\ Framing # "until eof" /\ Progress = "more")
  BY DEF ClosedEarly
<1>4. CASE InHead
  BY <1>1, <1>2, <1>4, HeadIsShort, FailsKeeps
<1>5. CASE InBody /\ Framing # "until eof" /\ Progress = "more"
  <2>1. ~Peer.whole
    BY <1>2, <1>5, ReaderKnows
  <2>2. QED
    BY <1>2, <1>5, <2>1, FailsKeeps
<1>6. QED
  BY <1>3, <1>4, <1>5

\* nor is one that stays silent.
LEMMA TimesOutKeeps == IInv /\ TimesOut => IInv'
<1> SUFFICES ASSUME IInv, TimesOut PROVE IInv'
  OBVIOUS
<1>1. TypeOK /\ raw \in Seq(Octet) /\ unread \in Seq(Octet)
  BY DEF IInv, BodyBounded
<1>2. unread = <<>> /\ Fails /\ Peer.ends = "stays"
  BY DEF TimesOut
<1>3. InHead \/ (InBody /\ Progress = "more")
  BY DEF TimesOut
<1>4. CASE InHead
  BY <1>1, <1>2, <1>4, HeadIsShort, FailsKeeps
<1>5. CASE InBody /\ Progress = "more"
  <2>1. Peer.ends # "closes"
    BY <1>2
  <2>2. ~Peer.whole
    BY <1>2, <1>5, <2>1, ReaderKnows
  <2>3. QED
    BY <1>2, <1>5, <2>2, FailsKeeps
<1>6. QED
  BY <1>3, <1>4, <1>5

\* The header block ends where it was sent to end, and a whole one is never too long.
LEMMA ReadHeadKeeps == IInv /\ ReadHead => IInv'
<1> SUFFICES ASSUME IInv, ReadHead PROVE IInv'
  OBVIOUS
<1>1. TypeOK /\ raw \in Seq(Octet) /\ unread \in Seq(Octet)
  BY DEF IInv, BodyBounded
<1>2. InHead /\ UNCHANGED <<request, response, outputVars>>
  BY DEF ReadHead
<1>3. PICK head \in Seq(Octet), wire \in Seq(Octet), h \in Nat :
        /\ head = Peer.head /\ wire = Peer.wire /\ h = Len(head)
        /\ \/ h >= 4 /\ Place(head, 0, BlankLine) = h - 4 /\ Len(raw) < h
           \/ Place(head, 0, BlankLine) = Nowhere /\ wire = <<>> /\ ~Peer.whole
  <2>1. PICK head \in Seq(Octet), wire \in Seq(Octet) :
          /\ head = Peer.head /\ wire = Peer.wire
          /\ \/ /\ Len(head) >= 4 /\ Place(head, 0, BlankLine) = Len(head) - 4
                /\ Len(raw) < Len(head)
             \/ Place(head, 0, BlankLine) = Nowhere /\ wire = <<>> /\ ~Peer.whole
    BY <1>1, <1>2, HeadIsShort
  <2>2. PICK h \in Nat : h = Len(head)
    BY <2>1
  <2>3. QED
    BY <2>1, <2>2
<1>4. Peer.whole => Peer.parses /\ h <= HeadLimit + 1
  BY <1>1, <1>2, <1>3, PeerIs DEF AsMeant
<1>5. raw \o unread = head \o wire
  BY <1>1, <1>2, <1>3 DEF TypeOK
<1>6. PICK n \in 1..HeadRead :
        /\ n <= Len(unread) /\ unread' = From(unread, n)
        /\ LET octets == raw \o SubSeq(unread, 1, n)
               end == EndOfHead(raw, SubSeq(unread, 1, n))
           IN  IF end # Nowhere
               THEN /\ raw' = Rest(octets, end)
                    /\ phase' = IF ~Peer.parses THEN "dropped"
                                ELSE IF phase = "client head" THEN "client body"
                                ELSE "upstream body"
               ELSE /\ raw' = octets
                    /\ phase' = IF Len(octets) > HeadLimit THEN "dropped" ELSE phase
  BY DEF ReadHead, Arrives
<1>7. /\ HeadRead \in Nat /\ HeadRead > 0 /\ BodyRead \in Nat
      /\ BodyLimit \in Nat /\ HeadLimit \in Nat
  BY ExchangeAssumption
<1>8. n \in 1..Len(unread)
  <2>1. n <= Len(unread)
    BY <1>6, Zenon
  <2>2. Len(unread) \in Nat
    BY <1>1
  <2>3. QED
    BY <1>7, <2>1, <2>2
<1>9. PICK octets \in Seq(Octet), rest \in Seq(Octet) :
        /\ octets = raw \o SubSeq(unread, 1, n) /\ rest = From(unread, n)
        /\ Len(octets) = Len(raw) + n /\ octets \o rest = raw \o unread
  BY <1>1, <1>8, ReadOn, ZenonT(60)
<1>10. PICK end : end = Place(octets, 0, BlankLine)
  OBVIOUS
<1>11. /\ unread' = rest
       /\ IF end # Nowhere
          THEN /\ raw' = From(octets, end + 4)
               /\ phase' = IF ~Peer.parses THEN "dropped"
                           ELSE IF phase = "client head" THEN "client body"
                           ELSE "upstream body"
          ELSE /\ raw' = octets
               /\ phase' = IF Len(octets) > HeadLimit THEN "dropped" ELSE phase
  BY <1>6, <1>9, <1>10 DEF EndOfHead, Rest
<1>12. octets \o rest = head \o wire
  BY <1>5, <1>9
<1>13. phase \in {"client head", "upstream head"} /\ phase # "client body"
  BY <1>2 DEF InHead
<1>14. request' = request /\ response' = response
  BY <1>2
<1>15. CASE end # Nowhere
  <2>1. h >= 4 /\ Place(head, 0, BlankLine) = h - 4 /\ Len(raw) < h
    <3>1. ASSUME Place(head, 0, BlankLine) = Nowhere, wire = <<>> PROVE FALSE
      <4>1. octets \o rest = head
        BY <1>12, <3>1, ConcatEmptySeq
      <4>2. QED
        BY <1>10, <1>15, <3>1, <4>1, HeadIsOpen
    <3>2. QED
      BY <1>3, <3>1
  <2>2. /\ octets \o rest = head \o wire /\ h = Len(head) /\ h >= 4
        /\ Place(head, 0, BlankLine) = h - 4
    BY <1>3, <1>12, <2>1
  <2>3. Len(octets) >= h /\ end + 4 = h
    <3>1. Place(octets, 0, BlankLine) = IF Len(octets) >= h THEN h - 4 ELSE Nowhere
      BY <2>2, HeadEnds
    <3>2. Place(octets, 0, BlankLine) # Nowhere
      BY <1>10, <1>15
    <3>3. Len(octets) >= h /\ Place(octets, 0, BlankLine) = h - 4
      BY <3>1, <3>2
    <3>4. QED
      BY <1>3, <1>10, <3>3
  <2>4. /\ raw' = From(octets, h)
        /\ phase' = IF ~Peer.parses THEN "dropped"
                    ELSE IF phase = "client head" THEN "client body" ELSE "upstream body"
    BY <1>11, <1>15, <2>3
  <2>5. /\ raw' \in Seq(Octet) /\ unread' \in Seq(Octet) /\ raw' \o unread' = wire
        /\ Len(raw') = Len(octets) - h
    <3>1. Continues(octets, rest, head, wire)
      BY <1>12, Zenon DEF Continues
    <3>2. h = Len(head) /\ Len(octets) >= Len(head)
      BY <1>3, <2>3
    <3>3. Splits(octets, rest, h, wire)
      BY <3>1, <3>2, RestOfBody
    <3>4. QED
      BY <1>11, <2>4, <3>3, Zenon DEF Splits
  <2>6. CASE ~Peer.parses
    <3>1. ~Peer.whole /\ phase' = "dropped"
      BY <1>4, <2>4, <2>6
    <3>2. QED
      BY <1>2, <1>13, <2>5, <3>1, EndsKeeps
  <2>7. CASE Peer.parses
    <3>1. phase' = IF phase = "client head" THEN "client body" ELSE "upstream body"
      BY <2>4, <2>7
    <3>2. Peer' = Peer
      BY <1>13, <1>14, <3>1 DEF Peer
    <3>3. phase' \in {"client body", "upstream body"} /\ ~InHead'
      BY <3>1 DEF InHead
    <3>4. phase' = "upstream body" => phase = "upstream head"
      BY <1>13, <3>1
    <3>5. TypeOK'
      BY <1>1, <1>3, <1>14, <2>5, <3>2, <3>3, <3>4 DEF TypeOK
    <3>6. RawBounded'
      <4>1. PICK m \in Int : m = Max({HeadRead, BodyRead}) /\ m >= HeadRead
        BY <1>7, OfReads
      <4>2. PICK before \in Nat, all \in Nat : before = Len(raw) /\ all = Len(octets)
        BY <1>1
      <4>3. before < h /\ all = before + n /\ Len(raw') = all - h
        BY <1>9, <2>1, <2>5, <4>2
      <4>4. Len(raw') <= BodyLimit + m
        BY <1>7, <4>1, <4>3
      <4>5. QED
        BY <4>1, <4>4 DEF RawBounded
    <3>7. SentIsMeant' /\ ForwardedIsSent' /\ DeliveredIsReply' /\ RecordedIsExchanged'
      <4>1. phase' \in {"upstream head", "upstream body"} =>
              phase \in {"upstream head", "upstream body"}
        BY <3>3, <3>4
      <4>2. phase' \notin {"answered"}
        BY <3>3
      <4>3. QED
        BY <1>2, <4>1, <4>2, OutputsKept
    <3>8. WholeIsAnswered'
      BY <3>3 DEF WholeIsAnswered
    <3>9. QED
      BY <2>5, <3>5, <3>6, <3>7, <3>8 DEF IInv, BodyBounded, RawBounded
  <2>8. QED
    BY <2>6, <2>7
<1>16. CASE end = Nowhere
  <2>1. raw' = octets /\ phase' = IF Len(octets) > HeadLimit THEN "dropped" ELSE phase
    BY <1>11, <1>16
  <2>2. CASE Len(octets) > HeadLimit
    <3>1. ASSUME Peer.whole PROVE FALSE
      <4>1. h >= 4 /\ Place(head, 0, BlankLine) = h - 4 /\ h <= HeadLimit + 1
        BY <1>3, <1>4, <3>1
      <4>2. end = IF Len(octets) >= h THEN h - 4 ELSE Nowhere
        <5>1. h = Len(head)
          BY <1>3
        <5>2. QED
          BY <1>10, <1>12, <4>1, <5>1, HeadEnds
      <4>3. Len(octets) >= h
        BY <1>7, <2>2, <4>1
      <4>4. QED
        BY <1>16, <4>1, <4>2, <4>3 DEF Nowhere
    <3>2. phase' = "dropped"
      BY <2>1, <2>2
    <3>3. raw' \in Seq(Octet) /\ unread' \in Seq(Octet)
      BY <1>11, <2>1
    <3>4. QED
      BY <1>2, <1>13, <3>1, <3>2, <3>3, EndsKeeps
  <2>3. CASE ~(Len(octets) > HeadLimit)
    <3>1. phase' = phase
      BY <2>1, <2>3
    <3>2. Peer' = Peer
      BY <1>13, <1>14, <3>1 DEF Peer
    <3>3. InHead' /\ ~InBody'
      BY <1>13, <3>1 DEF InHead, InBody
    <3>4. raw' \o unread' = Peer'.head \o Peer'.wire
      BY <1>3, <1>11, <1>12, <2>1, <3>2
    <3>5. Place(raw', 0, BlankLine) = Nowhere
      BY <1>10, <1>16, <2>1
    <3>6. TypeOK'
      BY <1>1, <1>14, <3>1, <3>3, <3>4, <3>5 DEF TypeOK
    <3>7. RawBounded'
      BY <3>3 DEF RawBounded
    <3>8. SentIsMeant' /\ ForwardedIsSent' /\ DeliveredIsReply' /\ RecordedIsExchanged'
      BY <1>2, <1>13, <3>1, OutputsKept
    <3>9. WholeIsAnswered'
      BY <1>13, <3>1 DEF WholeIsAnswered
    <3>10. QED
      BY <1>11, <2>1, <3>6, <3>7, <3>8, <3>9 DEF IInv, BodyBounded, RawBounded
  <2>4. QED
    BY <2>2, <2>3
<1>17. QED
  BY <1>15, <1>16

\* A read of a body takes what comes next, and never more than is wanted.
LEMMA ReadBodyKeeps == IInv /\ ReadBody => IInv'
<1> SUFFICES ASSUME IInv, ReadBody PROVE IInv'
  OBVIOUS
<1>1. TypeOK /\ raw \in Seq(Octet) /\ unread \in Seq(Octet)
  BY DEF IInv, BodyBounded
<1>2. /\ InBody /\ Progress = "more"
      /\ UNCHANGED <<phase, request, response, outputVars>>
  BY DEF ReadBody
<1>3. PICK n \in 1..Wanted :
        /\ n <= Len(unread) /\ unread' = From(unread, n)
        /\ raw' = raw \o SubSeq(unread, 1, n)
  BY DEF ReadBody, Arrives
<1>4. /\ HeadRead \in Nat /\ BodyRead \in Nat /\ BodyLimit \in Nat
  BY ExchangeAssumption
<1>5. phase' = phase /\ request' = request /\ response' = response
  BY <1>2
<1>6. n \in 1..Len(unread)
  <2>1. n \in Int /\ n >= 1
    OBVIOUS
  <2>2. Len(unread) \in Nat
    BY <1>1
  <2>3. QED
    BY <1>3, <2>1, <2>2
<1>7. PICK octets \in Seq(Octet), rest \in Seq(Octet) :
        /\ octets = raw \o SubSeq(unread, 1, n) /\ rest = From(unread, n)
        /\ Len(octets) = Len(raw) + n /\ octets \o rest = raw \o unread
  BY <1>1, <1>6, ReadOn, ZenonT(60)
<1>8. raw' = octets /\ unread' = rest
  BY <1>3, <1>7
<1>9. Peer' = Peer
  BY <1>5 DEF Peer
<1>10. InBody' /\ ~InHead'
  BY <1>2, <1>5 DEF InBody, InHead
<1>11. raw \o unread = Peer.wire
  BY <1>1, <1>2 DEF TypeOK
<1>12. raw' \o unread' = Peer'.wire
  BY <1>7, <1>8, <1>9, <1>11
<1>13. TypeOK'
  BY <1>1, <1>5, <1>10, <1>12 DEF TypeOK
<1>14. Framing' = Framing
  BY <1>5, <1>9 DEF Framing
<1>15. PICK read \in Nat : read = Len(raw)
  BY <1>1
<1>16. PICK m \in Int : m = Max({HeadRead, BodyRead}) /\ m >= HeadRead /\ m >= BodyRead
  BY OfReads
<1>17. Len(octets) = read + n /\ n \in Int
  BY <1>7, <1>15
<1>18. ASSUME Framing # "chunked" PROVE read + n <= BodyLimit + m
  <2>1. CASE Framing = "fixed"
    <3>1. /\ ~IsChunkedEncoding(Peer.fields) /\ ContentLength(Peer.fields) # Nowhere
          /\ Progress = AsFixed(ContentLength(Peer.fields))
      BY <2>1, FramingIs
    <3>2. AsMeant(Peer)
      BY <1>1, <1>2, PeerIs
    <3>3. PICK length \in Nat : length = ContentLength(Peer.fields)
      <4>1. PICK body \in Seq(Octet) : body = Peer.body
        BY <3>2 DEF AsMeant
      <4>2. ContentLength(Peer.fields) = Len(body)
        BY <3>1, <3>2, <4>1 DEF AsMeant
      <4>3. QED
        BY <4>1, <4>2
    <3>4. ~(length > BodyLimit) /\ ~(read > length)
      BY <1>2, <1>15, <3>1, <3>3 DEF AsFixed
    <3>5. PICK left \in Int : left = length - read
      BY <3>3
    <3>6. Wanted = Min({BodyRead, left})
      BY <1>15, <2>1, <3>3, <3>5 DEF Wanted
    <3>7. n <= left
      <4>1. PICK size \in Int : size = BodyRead
        BY <1>4
      <4>2. Min({size, left}) \in Int /\ Min({size, left}) <= left
        BY OfTwo
      <4>3. Wanted \in Int /\ Wanted <= left
        BY <3>6, <4>1, <4>2
      <4>4. n <= Wanted
        BY <4>3
      <4>5. QED
        BY <1>17, <4>3, <4>4
    <3>8. QED
      BY <1>4, <1>16, <1>17, <3>4, <3>5, <3>7
  <2>2. CASE Framing = "until eof"
    <3>1. ~TooLong
      BY <1>2, <2>2, FramingIs
    <3>2. read <= BodyLimit
      BY <1>4, <1>15, <3>1 DEF TooLong
    <3>3. Wanted = BodyRead
      BY <2>2 DEF Wanted
    <3>4. n <= BodyRead
      BY <1>4, <3>3
    <3>5. QED
      BY <1>4, <1>16, <1>17, <3>2, <3>4
  <2>3. CASE Framing = "none"
    BY <1>2, <2>3, FramingIs
  <2>4. QED
    BY <1>18, <2>1, <2>2, <2>3, FramingIs
<1>19. RawBounded'
  BY <1>8, <1>14, <1>16, <1>17, <1>18 DEF RawBounded
<1>20. phase \in {"client body", "upstream body"}
  BY <1>2 DEF InBody
<1>21. SentIsMeant' /\ ForwardedIsSent' /\ DeliveredIsReply' /\ RecordedIsExchanged'
  <2>1. UNCHANGED <<request, response, outputVars>>
    BY <1>2
  <2>2. phase' \notin {"answered"}
    BY <1>5, <1>20
  <2>3. QED
    BY <1>5, <2>1, <2>2, OutputsKept
<1>22. WholeIsAnswered'
  BY <1>5, <1>20 DEF WholeIsAnswered
<1>23. QED
  BY <1>8, <1>13, <1>19, <1>21, <1>22 DEF IInv, BodyBounded, RawBounded

\* The header block of a message that was just sent is waited for.
LEMMA HeadBegins ==
  ASSUME NEW m, AsMeant(m)
  PROVE  /\ m.head \o m.wire \in Seq(Octet) /\ <<>> \in Seq(Octet)
         /\ <<>> \o (m.head \o m.wire) = m.head \o m.wire
         /\ Place(<<>>, 0, BlankLine) = Nowhere
<1>1. PICK wire \in Seq(Octet) : wire = m.wire
  BY DEF AsMeant
<1>2. PICK head \in Seq(Octet) : head = m.head
  BY DEF AsMeant
<1>3. PICK all : all = head \o wire
  OBVIOUS
<1>4. all \in Seq(Octet)
  BY <1>3, JoinIs
<1>5. PICK none \in Seq(Octet) : none = <<>> /\ Len(none) = 0
  BY EmptySeq
<1>6. <<>> \o all = all
  BY <1>4, ConcatEmptySeq
<1>7. PICK blank \in Seq(Octet) : blank = BlankLine /\ Len(blank) = 4
  BY Words
<1>8. \A i \in Nat : i >= 0 => ~BeginsAt(none, i, blank)
  BY <1>5, <1>7 DEF BeginsAt
<1>9. PICK place : place = Place(none, 0, blank)
  OBVIOUS
<1>10. place = Nowhere
  BY <1>8, <1>9, PlaceIs
<1>11. QED
  BY <1>1, <1>2, <1>3, <1>4, <1>5, <1>6, <1>7, <1>9, <1>10

\* What is sent on is the body that was meant, in fields that fit it.
LEMMA ForwardKeeps == IInv /\ Forward => IInv'
<1> SUFFICES ASSUME IInv, Forward PROVE IInv'
  OBVIOUS
<1>1. TypeOK /\ raw \in Seq(Octet) /\ unread \in Seq(Octet)
  BY DEF IInv, BodyBounded
<1>2. /\ phase = "client body" /\ Progress = "done" /\ sent' = Body
      /\ forwarded' = UpstreamRequest(request.fields, Body)
      /\ phase' = "upstream head" /\ response' \in Responses
      /\ raw' = <<>> /\ unread' = response'.head \o response'.wire
      /\ request' = request
  BY DEF Forward
<1>3. InBody
  BY <1>2 DEF InBody
<1>4. Peer = request /\ IsRequest(request)
  BY <1>1, <1>2, <1>3, PeerIs
<1>5. Body = request.body
  BY <1>2, <1>3, <1>4, ReaderKnows
<1>6. PICK m : m = response'
  OBVIOUS
<1>7. AsMeant(m)
  BY <1>2, <1>6, MessageAssumption
<1>8. /\ m.head \o m.wire \in Seq(Octet) /\ <<>> \in Seq(Octet)
      /\ <<>> \o (m.head \o m.wire) = m.head \o m.wire
      /\ Place(<<>>, 0, BlankLine) = Nowhere
  BY <1>7, HeadBegins
<1>9. raw' \in Seq(Octet) /\ unread' \in Seq(Octet)
  BY <1>2, <1>6, <1>8
<1>10. InHead' /\ ~InBody' /\ Peer' = response'
  BY <1>2 DEF InHead, InBody, Peer
<1>11. m # NoMessage
  BY <1>7, NoMessageIsNone
<1>12. raw' \o unread' = Peer'.head \o Peer'.wire
  BY <1>2, <1>6, <1>8, <1>10
<1>13. TypeOK'
  BY <1>1, <1>2, <1>6, <1>8, <1>10, <1>11, <1>12 DEF TypeOK
<1>14. RawBounded'
  BY <1>10 DEF RawBounded
<1>15. SentIsMeant'
  BY <1>2, <1>5 DEF SentIsMeant
<1>16. ForwardedIsSent'
  <2>1. PICK body : body = request.body
    OBVIOUS
  <2>2. PICK fields : fields = request.fields
    OBVIOUS
  <2>3. PICK agree \in BOOLEAN : agree <=> LengthsAgree(request)
    BY DEF LengthsAgree
  <2>4. /\ fields \in Seq(ToSet(fields))
        /\ agree => \A i \in Named(fields, "content-length") : fields[i].value = Len(body)
    BY <1>4, <2>1, <2>2, <2>3 DEF IsRequest, AsMeant, LengthsAgree
  <2>5. PICK all : all = UpstreamRequest(fields, body).fields
    OBVIOUS
  <2>6. /\ \A i \in 1..Len(all) : Fits(all[i], body, agree)
        /\ DOMAIN all = 1..Len(all)
        /\ ContentLength(fields) # Nowhere \/ IsChunkedEncoding(fields) =>
             \E i \in Named(all, "content-length") : all[i].value = Len(body)
    BY <2>4, <2>5, UpstreamFieldsFit
  <2>7. forwarded'.fields = all /\ forwarded'.body = body
    <3>1. forwarded' = UpstreamRequest(fields, body)
      BY <1>2, <1>5, <2>1, <2>2
    <3>2. UpstreamRequest(fields, body).body = body
      BY DEF UpstreamRequest
    <3>3. QED
      BY <2>5, <3>1, <3>2
  <2>8. LengthsAgree(request) => LengthsAgree(forwarded')
    BY <2>3, <2>6, <2>7 DEF Fits, LengthsAgree, Named
  <2>9. Named(all, "transfer-encoding") = {}
    BY <2>6 DEF Fits, Named
  <2>10. ~IsUnframed(request) =>
           \E i \in Named(all, "content-length") : all[i].value = Len(body)
    BY <2>2, <2>6 DEF IsUnframed
  <2>11. QED
    BY <1>2, <2>1, <2>7, <2>8, <2>9, <2>10 DEF ForwardedIsSent, LengthsAgree
<1>17. DeliveredIsReply' /\ RecordedIsExchanged' /\ WholeIsAnswered'
  BY <1>2 DEF DeliveredIsReply, RecordedIsExchanged, WholeIsAnswered
<1>18. QED
  BY <1>9, <1>13, <1>14, <1>15, <1>16, <1>17 DEF IInv, BodyBounded, RawBounded

\* What is passed back is the reply that was read, and what is recorded are both bodies.
LEMMA DeliverKeeps == IInv /\ Deliver => IInv'
<1> SUFFICES ASSUME IInv, Deliver PROVE IInv'
  OBVIOUS
<1>1. /\ TypeOK /\ raw \in Seq(Octet) /\ unread \in Seq(Octet)
      /\ SentIsMeant /\ ForwardedIsSent
  BY DEF IInv, BodyBounded
<1>2. /\ phase = "upstream body" /\ phase' = "answered"
      /\ delivered' = response.head \o raw
      /\ event' = [request |-> ProcessBody(sent), response |-> ProcessBody(Body)]
      /\ request' = request /\ response' = response /\ unread' = unread /\ raw' = raw
      /\ sent' = sent /\ forwarded' = forwarded
  BY DEF Deliver, ForwardBody, RecordedBody
<1>3. Progress = "done" \/ (Framing = "until eof" /\ unread = <<>>)
  BY DEF Deliver
<1>4. InBody
  BY <1>2 DEF InBody
<1>5. /\ Peer = response /\ response # NoMessage
      /\ IsResponse(response) /\ IsRequest(request)
  BY <1>1, <1>2, <1>4, PeerIs
<1>6. Framing # "none"
  BY <1>2, FramingIs
<1>7. Body = response.body /\ (response.whole => raw = response.wire)
  BY <1>3, <1>4, <1>5, <1>6, ReaderKnows
<1>8. ~InHead' /\ ~InBody'
  BY <1>2 DEF InHead, InBody
<1>9. TypeOK'
  BY <1>1, <1>2, <1>5, <1>8 DEF TypeOK
<1>10. RawBounded'
  BY <1>8 DEF RawBounded
<1>11. sent = request.body
  BY <1>1, <1>2 DEF SentIsMeant
<1>12. SentIsMeant'
  BY <1>2, <1>11 DEF SentIsMeant
<1>13. ForwardedIsSent'
  BY <1>1, <1>2 DEF ForwardedIsSent
<1>14. DeliveredIsReply'
  BY <1>2, <1>7 DEF DeliveredIsReply
<1>15. RecordedIsExchanged'
  <2>1. PICK before, after : before = request.body /\ after = response.body
    OBVIOUS
  <2>2. before \in Seq(Octet) /\ after \in Seq(Octet)
    BY <1>5, <2>1 DEF IsRequest, IsResponse, AsMeant
  <2>3. RecordedOf(ProcessBody(before), before) /\ RecordedOf(ProcessBody(after), after)
    BY <2>2, ProcessedIs
  <2>4. event'.request = ProcessBody(before) /\ event'.response = ProcessBody(after)
    BY <1>2, <1>7, <1>11, <2>1
  <2>5. QED
    BY <1>2, <2>1, <2>3, <2>4 DEF RecordedIsExchanged
<1>16. WholeIsAnswered'
  BY <1>2 DEF WholeIsAnswered
<1>17. QED
  BY <1>1, <1>2, <1>9, <1>10, <1>12, <1>13, <1>14, <1>15, <1>16
     DEF IInv, BodyBounded, RawBounded

\* A connection begins with nothing read.
LEMMA InitEstablishes == Init => IInv
<1> SUFFICES ASSUME Init PROVE IInv
  OBVIOUS
<1>1. /\ phase = "client head" /\ request \in Requests /\ response = NoMessage
      /\ unread = request.head \o request.wire /\ raw = <<>> /\ forwarded = Nothing
  BY DEF Init
<1>2. AsMeant(request)
  BY <1>1, MessageAssumption
<1>3. /\ request.head \o request.wire \in Seq(Octet) /\ <<>> \in Seq(Octet)
      /\ <<>> \o (request.head \o request.wire) = request.head \o request.wire
      /\ Place(<<>>, 0, BlankLine) = Nowhere
  BY <1>2, HeadBegins
<1>4. raw \in Seq(Octet) /\ unread \in Seq(Octet)
  BY <1>1, <1>3
<1>5. InHead /\ ~InBody /\ Peer = request
  BY <1>1 DEF InHead, InBody, Peer
<1>6. raw \o unread = Peer.head \o Peer.wire /\ Place(raw, 0, BlankLine) = Nowhere
  BY <1>1, <1>3, <1>5
<1>7. TypeOK
  BY <1>1, <1>5, <1>6 DEF TypeOK
<1>8. BodyBounded
  BY <1>5, <1>7 DEF BodyBounded
<1>9. SentIsMeant /\ DeliveredIsReply /\ RecordedIsExchanged /\ WholeIsAnswered
  BY <1>1 DEF SentIsMeant, DeliveredIsReply, RecordedIsExchanged, WholeIsAnswered
<1>10. ForwardedIsSent
  BY <1>1 DEF ForwardedIsSent
<1>11. QED
  BY <1>4, <1>8, <1>9, <1>10 DEF IInv

\* A step that changes nothing.
LEMMA StutterKeeps == IInv /\ UNCHANGED vars => IInv'
<1> SUFFICES ASSUME IInv, UNCHANGED vars PROVE IInv'
  OBVIOUS
<1>1. /\ phase' = phase /\ request' = request /\ response' = response /\ unread' = unread
      /\ raw' = raw /\ sent' = sent /\ forwarded' = forwarded /\ delivered' = delivered
      /\ event' = event
  BY DEF vars
<1>2. Peer' = Peer /\ InHead' = InHead /\ InBody' = InBody
  BY <1>1 DEF Peer, InHead, InBody
<1>3. Framing' = Framing
  BY <1>1, <1>2 DEF Framing
<1>4. TypeOK'
  BY <1>1, <1>2 DEF IInv, BodyBounded, TypeOK
<1>5. BodyBounded'
  BY <1>1, <1>2, <1>3, <1>4 DEF IInv, BodyBounded
<1>6. SentIsMeant' /\ ForwardedIsSent'
  BY <1>1 DEF IInv, SentIsMeant, ForwardedIsSent
<1>7. DeliveredIsReply' /\ WholeIsAnswered'
  BY <1>1 DEF IInv, DeliveredIsReply, WholeIsAnswered
<1>8. RecordedIsExchanged'
  BY <1>1 DEF IInv, RecordedIsExchanged
<1>9. QED
  BY <1>1, <1>5, <1>6, <1>7, <1>8 DEF IInv

-----------------------------------------------------------------------------
(* Theorems.                                                               *)

\* The invariant holds in every reachable state.
THEOREM Invariant == Spec => []IInv
<1>1. Init => IInv
  BY InitEstablishes
<1>2. IInv /\ [Next]_vars => IInv'
  BY ReadHeadKeeps, ReadBodyKeeps, BodyIsBadKeeps, ClosedEarlyKeeps, TimesOutKeeps,
     ForwardKeeps, DeliverKeeps, StutterKeeps DEF Next
<1>3. QED
  BY <1>1, <1>2, PTL DEF Spec

\* The state is well formed, what was read and what was not are the octets of the
\* peer in their order, and a body that is not chunked stays below the limit.
THEOREM Bounded == Spec => []BodyBounded
<1>1. IInv => BodyBounded
  BY DEF IInv
<1>2. QED
  BY <1>1, Invariant, PTL

\* The upstream gets the body the client meant with its length, beside which no other
\* is told unless the client gave one: no limit, no look-alike of a line end and no
\* piece of a read makes the proxy forward anything else.
THEOREM Forwarded == Spec => []ForwardedIsSent
<1>1. IInv => ForwardedIsSent
  BY DEF IInv
<1>2. QED
  BY <1>1, Invariant, PTL

\* The client gets the reply as it was sent, from the first octet to the last.
THEOREM Delivered == Spec => []DeliveredIsReply
<1>1. IInv => DeliveredIsReply
  BY DEF IInv
<1>2. QED
  BY <1>1, Invariant, PTL

\* What is recorded of both bodies is what their senders meant, whole within MaxBody
\* and its beginning, marked, beyond; a text as binary only if the cut leaves half of
\* a letter, and no other body as a text.
THEOREM Recorded == Spec => []RecordedIsExchanged
<1>1. IInv => RecordedIsExchanged
  BY DEF IInv
<1>2. QED
  BY <1>1, Invariant, PTL

\* What is whole is never turned away: no limit, timeout or end of the stream is
\* taken for an error of a peer that made none.
THEOREM Answered == Spec => []WholeIsAnswered
<1>1. IInv => WholeIsAnswered
  BY DEF IInv
<1>2. QED
  BY <1>1, Invariant, PTL
=============================================================================
