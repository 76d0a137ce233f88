--------------------------- MODULE DirectionProofs ---------------------------
(***************************************************************************)
(* Lemmas about Direction, the TCP reassembly of one direction, for every  *)
(* sequence space, every two limits and every set of units: push and       *)
(* drain_pending stay within MAX_STREAM_BUFFER and MAX_OUT_OF_ORDER_BYTES, *)
(* count what waits, and end with nothing left that could be delivered.    *)
(*                                                                         *)
(* The operators loop and sum.  The theorems of induction of the library   *)
(* take a predicate, which the provers cannot instantiate; a set is a      *)
(* value, so the first lemmas state induction for membership in a set, and *)
(* from it that loops and sums written as functions exist, keep their      *)
(* invariants and add up.                                                  *)
(*                                                                         *)
(* Follows relates a direction to the wire that its segments are parts of; *)
(* push keeps it as long as the sequence numbers do not wrap (PushTakes),  *)
(* and leaves nothing out that was received (PushIntact).  The last        *)
(* section is about sequences in general.                                  *)
(***************************************************************************)
EXTENDS Direction, SequencesExt, FiniteSetTheorems, TLAPS

\* A set of natural numbers that is not empty has a least element.
LEMMA LeastNatural ==
  ASSUME NEW S \in SUBSET Nat, S # {}
  PROVE  \E n \in S : \A m \in S : n <= m
<1> DEFINE Less == {ss \in Nat \X Nat : ss[1] < ss[2]}
<1>1. IsWellFoundedOn(Less, Nat)
  BY NatLessThanWellFounded DEF OpToRel
<1> HIDE DEF Less
<1>2. PICK n \in S : \A m \in S : <<m, n>> \notin Less
  BY <1>1, WFMin
<1>3. \A m \in S : ~(m < n)
  BY <1>2 DEF Less
<1>4. QED
  BY <1>3

\* Induction, on membership in a set: the provers cannot instantiate the
\* operator of NatInduction, but a set is a value.
LEMMA InductiveSet ==
  ASSUME NEW S, 0 \in S, \A n \in Nat : n \in S => n + 1 \in S
  PROVE  Nat \subseteq S
<1> SUFFICES ASSUME Nat \ S # {} PROVE FALSE
  OBVIOUS
<1>1. PICK n \in Nat \ S : \A m \in Nat \ S : n <= m
  BY LeastNatural
<1>2. n # 0 /\ n - 1 \in Nat
  BY <1>1
<1>3. n - 1 \in S
  BY <1>1, <1>2
<1>4. QED
  BY <1>1, <1>2, <1>3

-----------------------------------------------------------------------------
(* Loops, written as functions of the number of turns.                     *)

\* run[n] is what the loop has after n turns.
IsLoop(run, turns, start, step) ==
  run = [n \in 0..turns |-> IF n = 0 THEN start ELSE step[<<n, run[n - 1]>>]]

\* A loop whose turns stay in a set is well defined.
LEMMA LoopExists ==
  ASSUME NEW turns \in Nat, NEW Q, NEW start \in Q, NEW step \in [(1..turns) \X Q -> Q]
  PROVE  \E run \in [0..turns -> Q] : IsLoop(run, turns, start, step)
<1> DEFINE Runs(run, k) ==
             /\ run \in [0..k -> Q]
             /\ run[0] = start
             /\ \A n \in 1..k : run[n] = step[<<n, run[n - 1]>>]
           S == {k \in Nat : k <= turns => \E run : Runs(run, k)}
<1>1. 0 \in S
  <2> DEFINE run == [n \in 0..0 |-> start]
  <2>1. run \in [0..0 -> Q] /\ run[0] = start /\ 1..0 = {}
    OBVIOUS
  <2>2. Runs(run, 0)
    BY <2>1
  <2>3. QED
    BY <2>2
<1>2. ASSUME NEW k \in Nat, k \in S PROVE k + 1 \in S
  <2> SUFFICES ASSUME k + 1 <= turns PROVE \E run : Runs(run, k + 1)
    OBVIOUS
  <2>1. PICK f : Runs(f, k)
    BY <1>2
  <2>2. f \in [0..k -> Q] /\ f[0] = start /\ \A n \in 1..k : f[n] = step[<<n, f[n - 1]>>]
    BY <2>1
  <2> HIDE DEF Runs
  <2> DEFINE g == [n \in 0..k+1 |-> IF n <= k THEN f[n] ELSE step[<<k + 1, f[k]>>]]
  <2>3. k + 1 \in 1..turns /\ f[k] \in Q
    BY <2>2
  <2>4. step[<<k + 1, f[k]>>] \in Q
    BY <2>3
  <2>5. g \in [0..k+1 -> Q]
    BY <2>2, <2>4
  <2>6. g[0] = start
    BY <2>2
  <2>7. ASSUME NEW n \in 1..k+1 PROVE g[n] = step[<<n, g[n - 1]>>]
    <3>1. CASE n <= k
      <4>1. n \in 1..k /\ n \in 0..k+1 /\ n - 1 \in 0..k+1 /\ n - 1 <= k
        BY <3>1
      <4>2. g[n] = f[n] /\ g[n - 1] = f[n - 1]
        BY <4>1
      <4>3. QED
        BY <2>2, <4>1, <4>2
    <3>2. CASE ~(n <= k)
      <4>1. n = k + 1 /\ n \in 0..k+1 /\ n - 1 \in 0..k+1 /\ n - 1 = k
        BY <3>2
      <4>2. g[n] = step[<<k + 1, f[k]>>] /\ g[n - 1] = f[k]
        BY <3>2, <4>1
      <4>3. QED
        BY <4>1, <4>2
    <3>3. QED
      BY <3>1, <3>2
  <2> HIDE DEF g
  <2>8. Runs(g, k + 1)
    BY <2>5, <2>6, <2>7 DEF Runs
  <2>9. QED
    BY <2>8
<1> HIDE DEF S
<1>3. turns \in S
  BY <1>1, <1>2, InductiveSet
<1>4. PICK run : Runs(run, turns)
  BY <1>3 DEF S
<1>5. ASSUME NEW n \in 0..turns
      PROVE  run[n] = IF n = 0 THEN start ELSE step[<<n, run[n - 1]>>]
  <2>1. CASE n = 0
    BY <1>4, <2>1
  <2>2. CASE n # 0
    <3>1. n \in 1..turns
      BY <2>2
    <3>2. QED
      BY <1>4, <2>2, <3>1
  <2>3. QED
    BY <2>1, <2>2
<1>6. run \in [0..turns -> Q]
  BY <1>4
<1> HIDE DEF Runs
<1>7. IsLoop(run, turns, start, step)
  BY <1>5, <1>6 DEF IsLoop
<1>8. QED
  BY <1>6, <1>7

\* What every turn hands on holds after the last one.
LEMMA LoopInvariant ==
  ASSUME NEW turns \in Nat, NEW run, NEW Q, run[0] \in Q[0],
         \A n \in 1..turns : run[n - 1] \in Q[n - 1] => run[n] \in Q[n]
  PROVE  run[turns] \in Q[turns]
<1> DEFINE S == {n \in Nat : n <= turns => run[n] \in Q[n]}
<1>1. 0 \in S
  OBVIOUS
<1>2. ASSUME NEW n \in Nat, n \in S PROVE n + 1 \in S
  <2> SUFFICES ASSUME n + 1 <= turns PROVE run[n + 1] \in Q[n + 1]
    OBVIOUS
  <2>1. n + 1 \in 1..turns /\ (n + 1) - 1 = n /\ n <= turns
    OBVIOUS
  <2>2. run[n] \in Q[n]
    BY <1>2, <2>1
  <2>3. QED
    BY <2>1, <2>2
<1> HIDE DEF S
<1>3. turns \in S
  BY <1>1, <1>2, InductiveSet
<1>4. QED
  BY <1>3 DEF S

\* Induction on the subsets of a finite set.
LEMMA InductiveSubsets ==
  ASSUME NEW S, IsFiniteSet(S), NEW P, {} \in P,
         \A T \in SUBSET S : T # {} /\ (\A x \in T : T \ {x} \in P) => T \in P
  PROVE  SUBSET S \subseteq P
<1> SUFFICES ASSUME (SUBSET S) \ P # {} PROVE FALSE
  OBVIOUS
<1>1. IsWellFoundedOn(StrictSubsetOrdering(S), SUBSET S)
  BY FS_StrictSubsetOrderingWellFounded, FS_FiniteSubsetsOfFinite
<1>2. PICK T \in (SUBSET S) \ P :
        \A U \in (SUBSET S) \ P : <<U, T>> \notin StrictSubsetOrdering(S)
  BY <1>1, WFMin
<1>3. ASSUME NEW x \in T PROVE T \ {x} \in P
  <2>1. T \ {x} \in SUBSET S /\ T \in SUBSET S /\ T \ {x} # T
    BY <1>2
  <2>2. <<T \ {x}, T>> \in StrictSubsetOrdering(S)
    BY <2>1 DEF StrictSubsetOrdering
  <2>3. QED
    BY <1>2, <2>1, <2>2
<1>4. QED
  BY <1>2, <1>3

-----------------------------------------------------------------------------
(* Sums over finite sets: SumFunction is a fold in an order of its own, and *)
(* these lemmas say that the order does not matter.                         *)

Chosen(s) == CHOOSE x \in s : TRUE

\* The function whose value at S is the sum of f over S.
IsSum(sum, f, S) ==
  sum = [s \in SUBSET S |-> IF s = {} THEN 0 ELSE f[Chosen(s)] + sum[s \ {Chosen(s)}]]

\* A sum over a finite set is well defined.
LEMMA SumExists ==
  ASSUME NEW S, IsFiniteSet(S), NEW f
  PROVE  \E sum : IsSum(sum, f, S)
<1> DEFINE Small(n) == {s \in SUBSET S : Cardinality(s) <= n}
           Value(sum, s) == IF s = {} THEN 0 ELSE f[Chosen(s)] + sum[s \ {Chosen(s)}]
           Sums(sum, n) == sum = [s \in Small(n) |-> Value(sum, s)]
           P == {n \in Nat : \E sum : Sums(sum, n)}
<1>1. \A s \in SUBSET S : IsFiniteSet(s) /\ Cardinality(s) \in Nat
                            /\ (Cardinality(s) = 0 <=> s = {})
  BY FS_Subset, FS_CardinalityType, FS_EmptySet
<1>2. \A s \in SUBSET S : s # {} =>
        Chosen(s) \in s /\ s \ {Chosen(s)} \in SUBSET S
          /\ Cardinality(s \ {Chosen(s)}) = Cardinality(s) - 1
  BY <1>1, FS_RemoveElement DEF Chosen
<1>3. 0 \in P
  <2> DEFINE sum == [s \in Small(0) |-> 0]
  <2>1. \A s \in Small(0) : s = {}
    BY <1>1
  <2>2. sum = [s \in Small(0) |-> Value(sum, s)]
    BY <2>1
  <2>3. Sums(sum, 0)
    BY <2>2
  <2>4. QED
    BY <2>3
<1>4. ASSUME NEW n \in Nat, n \in P PROVE n + 1 \in P
  <2>1. PICK old : Sums(old, n)
    BY <1>4
  <2> DEFINE new == [s \in Small(n + 1) |-> Value(old, s)]
  <2>2. ASSUME NEW s \in Small(n + 1), s # {}
        PROVE  new[s \ {Chosen(s)}] = old[s \ {Chosen(s)}]
    <3>1. s \ {Chosen(s)} \in Small(n) /\ s \ {Chosen(s)} \in Small(n + 1)
      BY <1>1, <1>2, <2>2
    <3>2. old[s \ {Chosen(s)}] = Value(old, s \ {Chosen(s)})
      BY <2>1, <3>1
    <3>3. QED
      BY <3>1, <3>2
  <2>3. \A s \in Small(n + 1) : Value(old, s) = Value(new, s)
    BY <2>2
  <2>4. Sums(new, n + 1)
    BY <2>3
  <2> HIDE DEF new, Sums
  <2>5. QED
    BY <2>4
<1>5. PICK sum : Sums(sum, Cardinality(S))
  <2> HIDE DEF Sums
  <2>1. Nat \subseteq P
    BY <1>3, <1>4, InductiveSet
  <2>2. QED
    BY <1>1, <2>1
<1>6. Small(Cardinality(S)) = SUBSET S
  BY <1>1, FS_Subset
<1>7. QED
  BY <1>5, <1>6 DEF IsSum

\* SumFunction of the library is such a sum.
LEMMA SumIs ==
  ASSUME NEW S, IsFiniteSet(S), NEW f, DOMAIN f = S
  PROVE  \E sum : IsSum(sum, f, S) /\ SumFunction(f) = sum[S]
<1> DEFINE sum == CHOOSE it : IsSum(it, f, S)
<1>1. IsSum(sum, f, S)
  BY SumExists
<1>2. SumFunction(f) = sum[S]
  BY DEF SumFunction, SumFunctionOnSet, FoldFunctionOnSet, MapThenFoldSet, IsSum, Chosen
<1>3. QED
  BY <1>1, <1>2

\* The sum of natural numbers is one, for every part of the set.
LEMMA SumType ==
  ASSUME NEW S, IsFiniteSet(S), NEW f \in [S -> Nat], NEW sum, IsSum(sum, f, S)
  PROVE  sum[{}] = 0 /\ \A T \in SUBSET S : sum[T] \in Nat
<1> DEFINE P == {T \in SUBSET S : sum[T] \in Nat}
<1>1. sum[{}] = 0
  BY DEF IsSum
<1>2. ASSUME NEW T \in SUBSET S, T # {}, \A x \in T : T \ {x} \in P
      PROVE  T \in P
  <2>1. Chosen(T) \in T
    BY <1>2 DEF Chosen
  <2>2. sum[T] = f[Chosen(T)] + sum[T \ {Chosen(T)}]
    BY <1>2 DEF IsSum
  <2>3. QED
    BY <1>2, <2>1, <2>2
<1>3. {} \in P
  BY <1>1
<1> HIDE DEF P
<1>4. SUBSET S \subseteq P
  BY <1>2, <1>3, InductiveSubsets
<1>5. QED
  BY <1>1, <1>4 DEF P

\* Chosen element may be the first to be added.
LEMMA SumSplits ==
  ASSUME NEW S, IsFiniteSet(S), NEW f \in [S -> Nat], NEW sum, IsSum(sum, f, S)
  PROVE  \A T \in SUBSET S : \A x \in T : sum[T] = f[x] + sum[T \ {x}]
<1> DEFINE P == {T \in SUBSET S : \A x \in T : sum[T] = f[x] + sum[T \ {x}]}
<1>1. ASSUME NEW T \in SUBSET S, T # {}, \A x \in T : T \ {x} \in P
      PROVE  T \in P
  <2>1. PICK y \in T : y = Chosen(T)
    BY <1>1 DEF Chosen
  <2>2. sum[T] = f[y] + sum[T \ {y}]
    BY <1>1, <2>1 DEF IsSum
  <2>3. ASSUME NEW x \in T PROVE sum[T] = f[x] + sum[T \ {x}]
    <3>1. CASE x = y
      BY <2>2, <3>1
    <3>2. CASE x # y
      <4>1. (T \ {x}) \ {y} = (T \ {y}) \ {x}
        OBVIOUS
      <4>2. sum[T \ {y}] = f[x] + sum[(T \ {y}) \ {x}]
        BY <1>1, <3>2
      <4>3. sum[T \ {x}] = f[y] + sum[(T \ {y}) \ {x}]
        BY <1>1, <3>2, <4>1
      <4>4. sum[(T \ {y}) \ {x}] \in Nat /\ f[x] \in Nat /\ f[y] \in Nat
        BY SumType
      <4>5. QED
        BY <2>2, <4>2, <4>3, <4>4
    <3>3. QED
      BY <3>1, <3>2
  <2>4. QED
    BY <2>3
<1>2. {} \in P
  OBVIOUS
<1> HIDE DEF P
<1>3. SUBSET S \subseteq P
  BY <1>1, <1>2, InductiveSubsets
<1>4. QED
  BY <1>3 DEF P

\* The sum over a part of the set is that of the part.
LEMMA SumAgrees ==
  ASSUME NEW S, IsFiniteSet(S), NEW f, NEW sum, IsSum(sum, f, S),
         NEW R \in SUBSET S, NEW g, NEW part, IsSum(part, g, R),
         \A x \in R : g[x] = f[x]
  PROVE  part[R] = sum[R]
<1> DEFINE P == {T \in SUBSET R : part[T] = sum[T]}
<1>1. ASSUME NEW T \in SUBSET R, T # {}, \A x \in T : T \ {x} \in P
      PROVE  T \in P
  <2>1. Chosen(T) \in T
    BY <1>1 DEF Chosen
  <2>2. sum[T] = f[Chosen(T)] + sum[T \ {Chosen(T)}]
    BY <1>1 DEF IsSum
  <2>3. part[T] = g[Chosen(T)] + part[T \ {Chosen(T)}]
    BY <1>1 DEF IsSum
  <2>4. QED
    BY <1>1, <2>1, <2>2, <2>3
<1>2. {} \in P
  BY DEF IsSum
<1>3. IsFiniteSet(R)
  BY FS_Subset
<1> HIDE DEF P
<1>4. SUBSET R \subseteq P
  BY <1>1, <1>2, <1>3, InductiveSubsets
<1>5. QED
  BY <1>4 DEF P

\* A sum is a number, that of nothing is 0, and one term can be taken out.
LEMMA SumOfNaturals ==
  ASSUME NEW S, IsFiniteSet(S), NEW f \in [S -> Nat]
  PROVE  /\ SumFunction(f) \in Nat
         /\ S = {} => SumFunction(f) = 0
         /\ \A x \in S : \A g \in [S \ {x} -> Nat] :
              (\A y \in S \ {x} : g[y] = f[y])
                => SumFunction(f) = f[x] + SumFunction(g)
<1>1. PICK sum : IsSum(sum, f, S) /\ SumFunction(f) = sum[S]
  BY SumIs
<1>2. sum[{}] = 0 /\ sum[S] \in Nat
  BY <1>1, SumType
<1>3. ASSUME NEW x \in S, NEW g \in [S \ {x} -> Nat], \A y \in S \ {x} : g[y] = f[y]
      PROVE  SumFunction(f) = f[x] + SumFunction(g)
  <2>1. IsFiniteSet(S \ {x})
    BY FS_RemoveElement
  <2>2. PICK part : IsSum(part, g, S \ {x}) /\ SumFunction(g) = part[S \ {x}]
    BY <2>1, SumIs
  <2>3. part[S \ {x}] = sum[S \ {x}]
    BY <1>1, <1>3, <2>2, SumAgrees
  <2>4. sum[S] = f[x] + sum[S \ {x}]
    BY <1>1, SumSplits
  <2>5. QED
    BY <1>1, <2>2, <2>3, <2>4
<1>4. QED
  BY <1>1, <1>2, <1>3

\* The remainder, for numbers at most one turn away.
LEMMA ModSmall ==
  ASSUME NEW N \in Nat \ {0}, NEW a \in Int
  PROVE  /\ a % N \in 0..N-1
         /\ 0 <= a /\ a < N => a % N = a
         /\ N <= a /\ a < 2 * N => a % N = a - N
         /\ -N <= a /\ a < 0 => a % N = a + N
OBVIOUS

-----------------------------------------------------------------------------
(* drain_pending.                                                          *)

\* The loop is well defined.
LEMMA TurnsExist ==
  ASSUME NEW turns \in Nat, NEW d
  PROVE  \E after : after = [n \in 0..turns |-> IF n = 0 THEN d ELSE DrainOne(after[n - 1])]
<1> DEFINE Runs(f, k) == f = [n \in 0..k |-> IF n = 0 THEN d ELSE DrainOne(f[n - 1])]
           S == {k \in Nat : \E f : Runs(f, k)}
<1>1. 0 \in S
  <2> DEFINE f == [n \in 0..0 |-> d]
  <2>1. Runs(f, 0)
    OBVIOUS
  <2>2. QED
    BY <2>1
<1>2. ASSUME NEW k \in Nat, k \in S PROVE k + 1 \in S
  <2>1. PICK f : Runs(f, k)
    BY <1>2
  <2> HIDE DEF Runs
  <2> DEFINE g == [n \in 0..k+1 |-> IF n <= k THEN f[n] ELSE DrainOne(f[k])]
  <2>2. ASSUME NEW n \in 0..k+1 PROVE g[n] = IF n = 0 THEN d ELSE DrainOne(g[n - 1])
    <3>1. CASE n = 0
      BY <2>1, <3>1 DEF Runs
    <3>2. CASE n \in 1..k
      BY <2>1, <3>2 DEF Runs
    <3>3. CASE n = k + 1
      BY <3>3
    <3>4. QED
      BY <3>1, <3>2, <3>3
  <2>3. Runs(g, k + 1)
    BY <2>2 DEF Runs
  <2>4. QED
    BY <2>3
<1>3. QED
  BY <1>1, <1>2, InductiveSet

\* What holds before the loop, and after every turn if it held before it, holds
\* behind the loop.  Q[n] is the set of directions for which it holds after n
\* turns.
LEMMA DrainInduction ==
  ASSUME NEW d, IsFiniteSet(DOMAIN d.pending), NEW Q, d \in Q[0],
         \A n \in Nat : \A e \in Q[n] : DrainOne(e) \in Q[n + 1]
  PROVE  DrainPending(d) \in Q[Cardinality(DOMAIN d.pending)]
<1> DEFINE turns == Cardinality(DOMAIN d.pending)
           IsRun(f) == f = [n \in 0..turns |-> IF n = 0 THEN d ELSE DrainOne(f[n - 1])]
           after == CHOOSE f : IsRun(f)
<1>1. turns \in Nat
  BY FS_CardinalityType
<1>2. DrainPending(d) = after[turns]
  BY DEF DrainPending
<1>3. IsRun(after)
  <2>1. \E f : IsRun(f)
    BY <1>1, TurnsExist, ZenonT(60)
  <2> HIDE DEF IsRun
  <2>2. QED
    BY <2>1
<1> HIDE DEF after, turns
<1> DEFINE P == {n \in Nat : n <= turns => after[n] \in Q[n]}
<1>4. 0 \in P
  BY <1>1, <1>3
<1>5. ASSUME NEW n \in Nat, n \in P PROVE n + 1 \in P
  <2> SUFFICES ASSUME n + 1 <= turns PROVE after[n + 1] \in Q[n + 1]
    OBVIOUS
  <2>1. n \in 0..turns /\ n + 1 \in 0..turns /\ n + 1 # 0 /\ (n + 1) - 1 = n
    BY <1>1
  <2>2. after[n + 1] = DrainOne(after[n])
    BY <1>3, <2>1
  <2>3. after[n] \in Q[n]
    BY <1>5, <2>1
  <2>4. QED
    BY <2>2, <2>3
<1> HIDE DEF P, IsRun
<1>6. turns \in P
  BY <1>1, <1>4, <1>5, InductiveSet
<1>7. QED
  BY <1>1, <1>2, <1>6 DEF P, turns

-----------------------------------------------------------------------------
(* The operations, on directions whose units are from a set.               *)

Maps(Unit) == UNION {[D -> Seq(Unit)] : D \in SUBSET (0..SeqSpace-1)}

Directions(Unit) ==
  [ next : {Unset} \union 0..SeqSpace-1,
    pending : Maps(Unit),
    pendingBytes : Nat,
    stream : Seq(Unit) ]

\* The bytes that wait out of order.
Waiting(d) == SumFunction([s \in DOMAIN d.pending |-> Len(d.pending[s])])

\* The two limits hold and pending_bytes counts what waits.
InBudget(d) ==
  /\ Len(d.stream) <= StreamLimit
  /\ d.pendingBytes = Waiting(d)
  /\ Waiting(d) <= PendingLimit

\* A payload went behind the stream d had; or the stream was lost with all that
\* waited.
Appended(d, payload, e) == e.stream = d.stream \o payload
Lost(e) == e.stream = <<>> /\ e.pending = <<>>

\* The map of e is that of d without one entry.
Taken(d, sequence, e) ==
  /\ DOMAIN e.pending = DOMAIN d.pending \ {sequence}
  /\ \A r \in DOMAIN e.pending : e.pending[r] = d.pending[r]

\* What a direction without anything out of order is.
LEMMA NothingWaits ==
  ASSUME NEW Unit
  PROVE  /\ <<>> \in Maps(Unit)
         /\ DOMAIN <<>> = {}
         /\ \A d : d.pending = <<>> => Waiting(d) = 0
<1>1. DOMAIN <<>> = {}
  OBVIOUS
<1>2. <<>> \in [{} -> Seq(Unit)]
  BY <1>1
<1>3. {} \in SUBSET (0..SeqSpace-1)
  OBVIOUS
<1>4. ASSUME NEW d, d.pending = <<>> PROVE Waiting(d) = 0
  <2> DEFINE sizes == [s \in DOMAIN d.pending |-> Len(d.pending[s])]
  <2>1. DOMAIN d.pending = {}
    BY <1>4
  <2>2. sizes \in [{} -> Nat]
    BY <2>1
  <2>3. IsFiniteSet({})
    BY FS_EmptySet
  <2> HIDE DEF sizes
  <2>4. SumFunction(sizes) = 0
    BY <2>2, <2>3, SumOfNaturals
  <2>5. QED
    BY <2>4 DEF Waiting, sizes
<1>5. QED
  BY <1>1, <1>2, <1>3, <1>4 DEF Maps

\* What waits is a finite map from sequence numbers to payloads.
LEMMA DirectionShape ==
  ASSUME NEW Unit, NEW d \in Directions(Unit)
  PROVE  /\ DOMAIN d.pending \subseteq 0..SeqSpace-1
         /\ IsFiniteSet(DOMAIN d.pending)
         /\ d.pending \in [DOMAIN d.pending -> Seq(Unit)]
         /\ \A s \in DOMAIN d.pending : Len(d.pending[s]) \in Nat
         /\ Waiting(d) \in Nat
<1>1. PICK D \in SUBSET (0..SeqSpace-1) : d.pending \in [D -> Seq(Unit)]
  BY DEF Directions, Maps
<1>2. IsFiniteSet(D)
  <2>1. IsFiniteSet(0..SeqSpace-1)
    BY DirectionAssumption, FS_Interval
  <2>2. QED
    BY <2>1, FS_Subset
<1>3. DOMAIN d.pending = D
  BY <1>1
<1>4. \A s \in DOMAIN d.pending : Len(d.pending[s]) \in Nat
  BY <1>1
<1>5. [s \in D |-> Len(d.pending[s])] \in [D -> Nat]
  BY <1>3, <1>4
<1>6. Waiting(d) \in Nat
  BY <1>2, <1>3, <1>5, SumOfNaturals DEF Waiting
<1>7. QED
  BY <1>1, <1>2, <1>3, <1>4, <1>6

\* A payload that leaves the map takes its bytes with it.
LEMMA TakeWaiting ==
  ASSUME NEW Unit, NEW d \in Directions(Unit), NEW e \in Directions(Unit),
         NEW s \in DOMAIN d.pending, DOMAIN e.pending = DOMAIN d.pending \ {s},
         \A r \in DOMAIN e.pending : e.pending[r] = d.pending[r]
  PROVE  Waiting(d) = Len(d.pending[s]) + Waiting(e)
<1> DEFINE D == DOMAIN d.pending
           f == [r \in D |-> Len(d.pending[r])]
           g == [r \in D \ {s} |-> Len(e.pending[r])]
<1>1. IsFiniteSet(D) /\ f \in [D -> Nat]
  BY DirectionShape
<1>2. g \in [D \ {s} -> Nat] /\ \A r \in D \ {s} : g[r] = f[r]
  BY DirectionShape
<1>3. Waiting(d) = SumFunction(f) /\ Waiting(e) = SumFunction(g) /\ f[s] = Len(d.pending[s])
  BY DEF Waiting
<1> HIDE DEF D, f, g
<1>4. s \in D
  BY DEF D
<1>5. SumFunction(f) = f[s] + SumFunction(g)
  BY <1>1, <1>2, <1>4, SumOfNaturals
<1>6. QED
  BY <1>3, <1>5

\* Taking a payload out of the map takes its bytes out of the count.
LEMMA TakeKeeps ==
  ASSUME NEW Unit, NEW d \in Directions(Unit), InBudget(d), NEW s \in DOMAIN d.pending,
         NEW e, e = TakePending(d, s)
  PROVE  /\ e \in Directions(Unit)
         /\ InBudget(e)
         /\ e.next = d.next /\ e.stream = d.stream
         /\ DOMAIN e.pending = DOMAIN d.pending \ {s}
         /\ \A r \in DOMAIN e.pending : e.pending[r] = d.pending[r]
<1>1. /\ e.next = d.next /\ e.stream = d.stream
      /\ e.pending = Restrict(d.pending, DOMAIN d.pending \ {s})
      /\ e.pendingBytes = IF d.pendingBytes >= Len(d.pending[s])
                          THEN d.pendingBytes - Len(d.pending[s]) ELSE 0
  BY DEF TakePending, Directions
<1>a. \A m \in Maps(Unit), n \in Nat :
        [d EXCEPT !.pending = m, !.pendingBytes = n] \in Directions(Unit)
  BY DEF Directions
<1>b. e = [d EXCEPT !.pending = e.pending, !.pendingBytes = e.pendingBytes]
  BY <1>1 DEF TakePending
<1>2. /\ DOMAIN e.pending = DOMAIN d.pending \ {s}
      /\ \A r \in DOMAIN e.pending : e.pending[r] = d.pending[r]
  BY <1>1 DEF Restrict
<1>3. e.pending \in [DOMAIN d.pending \ {s} -> Seq(Unit)]
  BY <1>1, DirectionShape DEF Restrict
<1>4. DOMAIN d.pending \ {s} \in SUBSET (0..SeqSpace-1) /\ Len(d.pending[s]) \in Nat
  BY DirectionShape
<1>5. e.pending \in Maps(Unit)
  BY <1>3, <1>4 DEF Maps
<1>6. d.pendingBytes \in Nat /\ d.next \in {Unset} \union 0..SeqSpace-1 /\ d.stream \in Seq(Unit)
  BY DEF Directions
<1>7. e.pendingBytes \in Nat
  BY <1>1, <1>4, <1>6
<1>8. e \in Directions(Unit)
  BY <1>a, <1>b, <1>5, <1>7, ZenonT(60)
<1>9. Waiting(d) = Len(d.pending[s]) + Waiting(e) /\ Waiting(e) \in Nat
  BY <1>2, <1>8, TakeWaiting, DirectionShape
<1>10. InBudget(e)
  BY <1>1, <1>4, <1>6, <1>9, DirectionAssumption DEF InBudget
<1>11. QED
  BY <1>1, <1>2, <1>8, <1>10

\* next_sequence moves past the payload, which is appended or, if it does not
\* fit, lost with all that was there.
LEMMA AdvanceKeeps ==
  ASSUME NEW Unit, NEW d \in Directions(Unit), InBudget(d), d.next # Unset,
         NEW payload \in Seq(Unit),
         NEW e, e = Advance(d, payload)
  PROVE  /\ e \in Directions(Unit)
         /\ InBudget(e)
         /\ e.next = (d.next + Len(payload)) % SeqSpace
         /\ Lost(e) \/ Appended(d, payload, e)
         /\ Lost(e) \/ e.pending = d.pending
<1>1. /\ d.pendingBytes \in Nat /\ d.next \in 0..SeqSpace-1 /\ d.stream \in Seq(Unit)
      /\ d.pending \in Maps(Unit)
  BY DEF Directions
<1>2. (d.next + Len(payload)) % SeqSpace \in 0..SeqSpace-1
  <2>1. SeqSpace \in Nat \ {0} /\ d.next + Len(payload) \in Int
    BY <1>1, DirectionAssumption
  <2>2. QED
    BY <2>1, ModSmall
<1>a. \A x \in Directions(Unit), n \in 0..SeqSpace-1 :
        [x EXCEPT !.next = n] \in Directions(Unit)
  BY DEF Directions
<1>3. CASE Fits(d, payload)
  <2>1. /\ e.next = (d.next + Len(payload)) % SeqSpace /\ e.pending = d.pending
        /\ e.pendingBytes = d.pendingBytes /\ e.stream = d.stream \o payload
    BY <1>3 DEF Advance, AppendPayload, Directions
  <2>2. e \in Directions(Unit)
    <3>1. AppendPayload(d, payload) \in Directions(Unit)
      <4>1. AppendPayload(d, payload) = [d EXCEPT !.stream = d.stream \o payload]
        BY <1>3 DEF AppendPayload
      <4>2. \A q \in Seq(Unit) : [d EXCEPT !.stream = q] \in Directions(Unit)
        BY DEF Directions
      <4>3. d.stream \o payload \in Seq(Unit)
        BY <1>1
      <4>4. QED
        BY <4>1, <4>2, <4>3
    <3>2. QED
      BY <1>2, <1>a, <3>1 DEF Advance
  <2>3. Len(d.stream \o payload) <= StreamLimit
    BY <1>1, <1>3 DEF Fits
  <2>4. InBudget(e)
    BY <2>1, <2>3 DEF InBudget, Waiting
  <2>5. QED
    BY <2>1, <2>2, <2>4 DEF Appended
<1>4. CASE ~Fits(d, payload)
  <2>1. /\ e.next = (d.next + Len(payload)) % SeqSpace /\ e.pending = <<>>
        /\ e.pendingBytes = 0 /\ e.stream = <<>>
    BY <1>4 DEF Advance, AppendPayload, Directions
  <2>2. e \in Directions(Unit)
    <3>1. AppendPayload(d, payload) \in Directions(Unit)
      <4>1. AppendPayload(d, payload) = [d EXCEPT !.stream = <<>>, !.pending = <<>>, !.pendingBytes = 0]
        BY <1>4 DEF AppendPayload
      <4>2. \A q \in Seq(Unit), m \in Maps(Unit), n \in Nat :
              [d EXCEPT !.stream = q, !.pending = m, !.pendingBytes = n] \in Directions(Unit)
        BY DEF Directions
      <4>3. <<>> \in Seq(Unit) /\ <<>> \in Maps(Unit) /\ 0 \in Nat
        BY NothingWaits
      <4>4. QED
        BY <4>1, <4>2, <4>3, ZenonT(60)
    <3>2. QED
      BY <1>2, <1>a, <3>1 DEF Advance
  <2>3. InBudget(e)
    BY <2>1, NothingWaits, DirectionAssumption DEF InBudget
  <2>4. QED
    BY <2>1, <2>2, <2>3 DEF Lost
<1>5. QED
  BY <1>3, <1>4

\* One turn: nothing, or the payload that starts at next_sequence leaves the map
\* for the stream, or is lost with all that was there.
LEMMA DrainOneKeeps ==
  ASSUME NEW Unit, NEW d \in Directions(Unit), InBudget(d), d.next # Unset,
         NEW e, e = DrainOne(d)
  PROVE  /\ e \in Directions(Unit)
         /\ InBudget(e)
         /\ d.next \notin DOMAIN d.pending => e = d
         /\ d.next \in DOMAIN d.pending =>
              /\ e.next = (d.next + Len(d.pending[d.next])) % SeqSpace
              /\ Lost(e) \/ Appended(d, d.pending[d.next], e)
              /\ Lost(e) \/ Taken(d, d.next, e)
<1>1. CASE d.next \notin DOMAIN d.pending
  BY <1>1 DEF DrainOne
<1>2. CASE d.next \in DOMAIN d.pending
  <2>1. PICK t : t = TakePending(d, d.next)
    OBVIOUS
  <2>2. PICK payload : payload = d.pending[d.next]
    OBVIOUS
  <2>3. /\ t \in Directions(Unit) /\ InBudget(t) /\ t.next = d.next /\ t.stream = d.stream
        /\ DOMAIN t.pending = DOMAIN d.pending \ {d.next}
        /\ \A r \in DOMAIN t.pending : t.pending[r] = d.pending[r]
    BY <1>2, <2>1, TakeKeeps
  <2>4. payload \in Seq(Unit)
    BY <1>2, <2>2, DirectionShape
  <2>5. e = Advance(t, payload)
    BY <1>2, <2>1, <2>2 DEF DrainOne
  <2>6. t.next # Unset
    BY <2>3
  <2>7. /\ e \in Directions(Unit) /\ InBudget(e)
        /\ e.next = (t.next + Len(payload)) % SeqSpace
        /\ Lost(e) \/ Appended(t, payload, e)
        /\ Lost(e) \/ e.pending = t.pending
    BY <2>3, <2>4, <2>5, <2>6, AdvanceKeeps
  <2>8. Appended(t, payload, e) => Appended(d, payload, e)
    BY <2>3 DEF Appended
  <2>9. e.pending = t.pending => Taken(d, d.next, e)
    BY <2>3 DEF Taken
  <2>10. QED
    BY <1>2, <2>2, <2>3, <2>7, <2>8, <2>9
<1>3. QED
  BY <1>1, <1>2

\* What the turns of drain_pending keep holds behind it, and then nothing waits
\* at next_sequence: every turn but the last takes a payload out of the map, and
\* the loop has as many turns as the map has payloads.
LEMMA DrainReaches ==
  ASSUME NEW Unit,
         NEW I, \A x \in I : x \in Directions(Unit) /\ InBudget(x) /\ x.next # Unset,
         \A x \in I : x.next \in DOMAIN x.pending => DrainOne(x) \in I,
         NEW d \in I,
         NEW e, e = DrainPending(d)
  PROVE  /\ e \in I
         /\ e.next \notin DOMAIN e.pending
<1> DEFINE turns == Cardinality(DOMAIN d.pending)
           Done(x) == x.next \notin DOMAIN x.pending
           Q == [n \in Nat |-> {x \in I : Done(x) \/ Cardinality(DOMAIN x.pending) + n <= turns}]
<1>1. IsFiniteSet(DOMAIN d.pending)
  BY DirectionShape
<1>2. turns \in Nat
  BY <1>1, FS_CardinalityType
<1>3. d \in Q[0]
  BY <1>2
<1>4. ASSUME NEW n \in Nat, NEW x \in Q[n] PROVE DrainOne(x) \in Q[n + 1]
  <2>1. x \in I /\ x \in Directions(Unit) /\ InBudget(x) /\ x.next # Unset
    OBVIOUS
  <2>2. PICK y : y = DrainOne(x)
    OBVIOUS
  <2>3. CASE Done(x)
    <3>1. y = x
      BY <2>1, <2>2, <2>3, DrainOneKeeps
    <3>2. QED
      BY <2>1, <2>2, <2>3, <3>1
  <2>4. CASE ~Done(x)
    <3>1. y \in I
      BY <2>1, <2>2, <2>4
    <3>2. CASE Lost(y)
      <4>1. Done(y)
        BY <3>2, NothingWaits DEF Lost
      <4>2. QED
        BY <2>2, <3>1, <4>1
    <3>3. CASE ~Lost(y)
      <4>1. Taken(x, x.next, y)
        BY <2>1, <2>2, <2>4, <3>3, DrainOneKeeps
      <4>2. IsFiniteSet(DOMAIN x.pending)
        BY <2>1, DirectionShape
      <4>3. /\ Cardinality(DOMAIN y.pending) = Cardinality(DOMAIN x.pending) - 1
            /\ Cardinality(DOMAIN x.pending) \in Nat
        BY <2>4, <4>1, <4>2, FS_RemoveElement, FS_CardinalityType, ZenonT(60) DEF Taken
      <4>4. Cardinality(DOMAIN x.pending) + n <= turns
        BY <2>4
      <4>5. Cardinality(DOMAIN y.pending) + (n + 1) <= turns
        BY <1>2, <4>3, <4>4
      <4>6. QED
        BY <2>2, <3>1, <4>5
    <3>4. QED
      BY <3>2, <3>3
  <2>5. QED
    BY <2>3, <2>4
<1> HIDE DEF Q
<1>5. e \in Q[turns]
  BY <1>1, <1>3, <1>4, DrainInduction
<1>6. e \in I /\ (Done(e) \/ Cardinality(DOMAIN e.pending) + turns <= turns)
  BY <1>2, <1>5 DEF Q
<1>7. CASE ~Done(e)
  <2>1. IsFiniteSet(DOMAIN e.pending)
    BY <1>6, DirectionShape
  <2>2. Cardinality(DOMAIN e.pending) \in Nat
    BY <2>1, FS_CardinalityType
  <2>3. Cardinality(DOMAIN e.pending) = 0
    BY <1>2, <1>6, <1>7, <2>2
  <2>4. DOMAIN e.pending = {}
    BY <2>1, <2>3, FS_EmptySet
  <2>5. QED
    BY <1>7, <2>4
<1>8. QED
  BY <1>6, <1>7

\* drain_pending keeps the limits and the count.
LEMMA DrainPendingKeeps ==
  ASSUME NEW Unit, NEW d \in Directions(Unit), InBudget(d), d.next # Unset,
         NEW e, e = DrainPending(d)
  PROVE  e \in Directions(Unit) /\ InBudget(e) /\ e.next # Unset
<1> DEFINE I == {x \in Directions(Unit) : InBudget(x) /\ x.next # Unset}
<1>1. \A x \in I : x \in Directions(Unit) /\ InBudget(x) /\ x.next # Unset
  OBVIOUS
<1>2. ASSUME NEW x \in I, x.next \in DOMAIN x.pending PROVE DrainOne(x) \in I
  <2>1. PICK y : y = DrainOne(x)
    OBVIOUS
  <2>2. y \in Directions(Unit) /\ InBudget(y) /\ y.next = (x.next + Len(x.pending[x.next])) % SeqSpace
    BY <1>2, <2>1, DrainOneKeeps
  <2>3. y.next # Unset
    <3>1. x.next \in 0..SeqSpace-1 /\ Len(x.pending[x.next]) \in Nat
      BY <1>2, DirectionShape DEF Directions
    <3>2. x.next + Len(x.pending[x.next]) \in Int
      BY <3>1, DirectionAssumption
    <3>3. (x.next + Len(x.pending[x.next])) % SeqSpace \in 0..SeqSpace-1
      BY <3>2, DirectionAssumption, ModSmall
    <3>4. QED
      BY <2>2, <3>3 DEF Unset
  <2>4. QED
    BY <2>1, <2>2, <2>3
<1>3. d \in I
  OBVIOUS
<1> HIDE DEF I
<1>4. e \in I
  BY <1>1, <1>2, <1>3, DrainReaches
<1>5. QED
  BY <1>1, <1>4

\* A payload ahead of next_sequence waits if there is room and a place for it.
LEMMA StashKeeps ==
  ASSUME NEW Unit, NEW d \in Directions(Unit), InBudget(d),
         NEW s \in 0..SeqSpace-1, NEW payload \in Seq(Unit),
         NEW e, e = Stash(d, s, payload)
  PROVE  /\ e \in Directions(Unit)
         /\ InBudget(e)
         /\ e.next = d.next /\ e.stream = d.stream
         /\ HasBudget(d, payload) /\ s \notin DOMAIN d.pending =>
              /\ e.pending[s] = payload
              /\ s \in DOMAIN e.pending
              /\ Taken(e, s, d)
         /\ ~HasBudget(d, payload) \/ s \in DOMAIN d.pending => e = d
<1>1. CASE HasBudget(d, payload) /\ s \notin DOMAIN d.pending
  <2> DEFINE D == DOMAIN d.pending
  <2>1. /\ e.next = d.next /\ e.stream = d.stream
        /\ e.pending = Insert(d.pending, s, payload)
        /\ e.pendingBytes = d.pendingBytes + Len(payload)
    BY <1>1 DEF Stash, Directions
  <2>2. D \subseteq 0..SeqSpace-1 /\ d.pending \in [D -> Seq(Unit)]
    BY DirectionShape
  <2>3. /\ e.pending[s] = payload
        /\ DOMAIN e.pending = D \union {s}
        /\ \A r \in D : e.pending[r] = d.pending[r]
    BY <1>1, <2>1, <2>2 DEF Insert
  <2>4. e.pending \in [D \union {s} -> Seq(Unit)]
    <3>1. \A r \in D : d.pending[r] \in Seq(Unit)
      BY <2>2
    <3>2. e.pending = [r \in D \union {s} |-> IF r = s THEN payload ELSE d.pending[r]]
      BY <1>1, <2>1, <2>2 DEF Insert
    <3>3. QED
      BY <3>1, <3>2
  <2>5. D \union {s} \in SUBSET (0..SeqSpace-1)
    BY <2>2
  <2>6. e.pending \in Maps(Unit)
    BY <2>4, <2>5 DEF Maps
  <2>7. d.pendingBytes \in Nat /\ Len(payload) \in Nat
    BY DEF Directions
  <2>8. e \in Directions(Unit)
    <3>1. \A m \in Maps(Unit), n \in Nat :
            [d EXCEPT !.pending = m, !.pendingBytes = n] \in Directions(Unit)
      BY DEF Directions
    <3>2. e = [d EXCEPT !.pending = e.pending, !.pendingBytes = e.pendingBytes]
      BY <1>1, <2>1 DEF Stash
    <3>3. e.pendingBytes \in Nat
      BY <2>1, <2>7
    <3>4. QED
      BY <2>6, <3>1, <3>2, <3>3, ZenonT(60)
  <2>9. Taken(e, s, d)
    BY <1>1, <2>3 DEF Taken
  <2>10. Waiting(e) = Len(payload) + Waiting(d) /\ Waiting(d) \in Nat
    <3>1. s \in DOMAIN e.pending
      BY <2>3
    <3>2. Waiting(e) = Len(e.pending[s]) + Waiting(d)
      BY <2>8, <2>9, <3>1, TakeWaiting DEF Taken
    <3>3. QED
      BY <2>3, <3>2, DirectionShape
  <2>11. InBudget(e)
    BY <1>1, <2>1, <2>7, <2>10, DirectionAssumption DEF InBudget, HasBudget
  <2>12. QED
    BY <1>1, <2>1, <2>3, <2>8, <2>9, <2>11
<1>2. CASE ~(HasBudget(d, payload) /\ s \notin DOMAIN d.pending)
  BY <1>2 DEF Stash
<1>3. QED
  BY <1>1, <1>2

\* So does a push without a payload, which may fix the origin.
LEMMA PushSynKeeps ==
  ASSUME NEW Unit, NEW d \in Directions(Unit), InBudget(d), NEW s \in Int,
         NEW e, e = PushSyn(d, s)
  PROVE  /\ e \in Directions(Unit)
         /\ InBudget(e)
         /\ e.pending = d.pending /\ e.stream = d.stream
         /\ e.next = IF d.next = Unset THEN (s + 1) % SeqSpace ELSE d.next
<1>1. (s + 1) % SeqSpace \in 0..SeqSpace-1
  BY ModSmall, DirectionAssumption
<1>2. \A n \in {Unset} \union 0..SeqSpace-1 : [d EXCEPT !.next = n] \in Directions(Unit)
  BY DEF Directions
<1>3. d.next \in {Unset} \union 0..SeqSpace-1
  BY DEF Directions
<1>4. e \in Directions(Unit)
  BY <1>1, <1>2, <1>3 DEF PushSyn
<1>5. /\ e.pending = d.pending /\ e.stream = d.stream /\ e.pendingBytes = d.pendingBytes
      /\ e.next = IF d.next = Unset THEN (s + 1) % SeqSpace ELSE d.next
  BY DEF PushSyn, Directions
<1>6. InBudget(e)
  BY <1>5 DEF InBudget, Waiting
<1>7. QED
  BY <1>4, <1>5, <1>6

\* The direction with its origin, if it had none.
Started(d, sequence) == [d EXCEPT !.next = IF d.next = Unset THEN sequence ELSE d.next]

\* The first payload fixes the origin and changes nothing else.
LEMMA StartedKeeps ==
  ASSUME NEW Unit, NEW d \in Directions(Unit), InBudget(d), NEW s \in 0..SeqSpace-1,
         NEW e, e = Started(d, s)
  PROVE  /\ e \in Directions(Unit)
         /\ InBudget(e)
         /\ e.pending = d.pending /\ e.stream = d.stream /\ e.pendingBytes = d.pendingBytes
         /\ e.next = IF d.next = Unset THEN s ELSE d.next
         /\ e.next \in 0..SeqSpace-1
<1>1. \A n \in {Unset} \union 0..SeqSpace-1 : [d EXCEPT !.next = n] \in Directions(Unit)
  BY DEF Directions
<1>2. d.next \in {Unset} \union 0..SeqSpace-1
  BY DEF Directions
<1>3. e \in Directions(Unit)
  BY <1>1, <1>2 DEF Started
<1>4. /\ e.pending = d.pending /\ e.stream = d.stream /\ e.pendingBytes = d.pendingBytes
      /\ e.next = IF d.next = Unset THEN s ELSE d.next
  BY DEF Started, Directions
<1>5. InBudget(e)
  BY <1>4 DEF InBudget, Waiting
<1>6. QED
  BY <1>2, <1>3, <1>4, <1>5

\* The three ways push goes with a payload.
LEMMA PushCases ==
  ASSUME NEW d, NEW sequence, NEW payload,
         NEW t, t = Started(d, sequence),
         NEW expected, expected = IF d.next = Unset THEN sequence ELSE d.next,
         NEW seen, seen = (expected - sequence) % SeqSpace,
         NEW e, e = Push(d, sequence, payload)
  PROVE  /\ sequence < expected /\ seen >= Len(payload) => e = t
         /\ sequence < expected /\ ~(seen >= Len(payload)) =>
              e = DrainPending(Advance(t, Trim(payload, seen)))
         /\ ~(sequence < expected) /\ sequence = expected =>
              e = DrainPending(Advance(t, payload))
         /\ ~(sequence < expected) /\ sequence # expected => e = Stash(t, sequence, payload)
BY DEF Push, Started

\* push keeps the limits and the count, and leaves next_sequence set.
LEMMA PushKeeps ==
  ASSUME NEW Unit, NEW d \in Directions(Unit), InBudget(d),
         NEW s \in 0..SeqSpace-1, NEW payload \in Seq(Unit),
         NEW e, e = Push(d, s, payload)
  PROVE  e \in Directions(Unit) /\ InBudget(e) /\ e.next # Unset
<1>1. PICK t : t = Started(d, s)
  OBVIOUS
<1>2. PICK expected : expected = IF d.next = Unset THEN s ELSE d.next
  OBVIOUS
<1>3. PICK seen : seen = (expected - s) % SeqSpace
  OBVIOUS
<1>4. t \in Directions(Unit) /\ InBudget(t) /\ t.next # Unset /\ expected \in 0..SeqSpace-1
  BY <1>1, <1>2, StartedKeeps DEF Unset
<1>5. ASSUME NEW p \in Seq(Unit), e = DrainPending(Advance(t, p))
      PROVE  e \in Directions(Unit) /\ InBudget(e) /\ e.next # Unset
  <2>1. PICK a : a = Advance(t, p)
    OBVIOUS
  <2>2. a \in Directions(Unit) /\ InBudget(a) /\ a.next = (t.next + Len(p)) % SeqSpace
    BY <1>4, <2>1, AdvanceKeeps
  <2>3. t.next + Len(p) \in Int
    BY <1>4 DEF Directions
  <2>4. a.next # Unset
    <3>1. (t.next + Len(p)) % SeqSpace \in 0..SeqSpace-1
      BY <2>3, ModSmall, DirectionAssumption
    <3>2. QED
      BY <2>2, <3>1 DEF Unset
  <2>5. QED
    BY <1>5, <2>1, <2>2, <2>4, DrainPendingKeeps
<1>6. seen \in Nat
  BY <1>3, <1>4, ModSmall, DirectionAssumption
<1>7. seen < Len(payload) => Trim(payload, seen) \in Seq(Unit)
  BY <1>6 DEF Trim
<1>8. CASE s < expected /\ seen >= Len(payload)
  <2>1. e = t
    BY <1>1, <1>2, <1>3, <1>8, PushCases
  <2>2. QED
    BY <1>4, <2>1
<1>9. CASE s < expected /\ ~(seen >= Len(payload))
  <2>1. e = DrainPending(Advance(t, Trim(payload, seen)))
    BY <1>1, <1>2, <1>3, <1>9, PushCases
  <2>2. Trim(payload, seen) \in Seq(Unit)
    BY <1>6, <1>7, <1>9
  <2>3. QED
    BY <1>5, <2>1, <2>2
<1>10. CASE ~(s < expected) /\ s = expected
  <2>1. e = DrainPending(Advance(t, payload))
    BY <1>1, <1>2, <1>3, <1>10, PushCases
  <2>2. QED
    BY <1>5, <2>1
<1>11. CASE ~(s < expected) /\ s # expected
  <2>1. e = Stash(t, s, payload)
    BY <1>1, <1>2, <1>3, <1>11, PushCases
  <2>2. QED
    BY <1>4, <2>1, StashKeeps
<1>12. QED
  BY <1>8, <1>9, <1>10, <1>11

\* Direction::default is within the limits.
LEMMA NewDirectionKeeps ==
  ASSUME NEW Unit
  PROVE  NewDirection \in Directions(Unit) /\ InBudget(NewDirection)
<1>1. NewDirection \in Directions(Unit)
  BY NothingWaits DEF Directions, NewDirection
<1>2. NewDirection.pending = <<>> /\ NewDirection.pendingBytes = 0 /\ NewDirection.stream = <<>>
  BY DEF NewDirection
<1>3. Waiting(NewDirection) = 0
  BY <1>2, NothingWaits
<1>4. QED
  BY <1>1, <1>2, <1>3, DirectionAssumption DEF InBudget

\* The parser takes from a stream what it reads, or clears it.
LEMMA ParsedKeeps ==
  ASSUME NEW Unit, NEW d \in Directions(Unit), InBudget(d),
         NEW rest \in Seq(Unit), Len(rest) <= Len(d.stream),
         NEW e, e = [d EXCEPT !.stream = rest]
  PROVE  /\ e \in Directions(Unit)
         /\ InBudget(e)
         /\ e.next = d.next /\ e.pending = d.pending /\ e.stream = rest
<1>1. e \in Directions(Unit)
  BY DEF Directions
<1>2. /\ e.next = d.next /\ e.pending = d.pending /\ e.pendingBytes = d.pendingBytes
      /\ e.stream = rest
  BY DEF Directions
<1>3. Len(e.stream) <= StreamLimit
  <2>1. Len(rest) \in Nat /\ Len(d.stream) \in Nat
    BY DEF Directions
  <2>2. QED
    BY <1>2, <2>1, DirectionAssumption DEF InBudget
<1>4. InBudget(e)
  BY <1>2, <1>3 DEF InBudget, Waiting
<1>5. QED
  BY <1>1, <1>2, <1>4

-----------------------------------------------------------------------------
(* A direction and what its sender sent.  The sequence numbers of a short  *)
(* wire do not wrap, so that position p has number p + 1.                  *)

ShortWire(U, w) == w \in Seq(U) /\ Len(w) + 1 < SeqSpace

\* The units from..to-1 of a wire.
Part(w, from, to) == SubSeq(w, from + 1, to)

\* The position a direction waits for, that of the first unit of its stream, and
\* the units it has passed or holds back.
At(d) == d.next - 1
Start(d) == At(d) - Len(d.stream)
Load(d) == d.pendingBytes + At(d)

\* A stream is the units of the wire before position p.
EndsIn(w, stream, p) ==
  /\ Len(stream) <= p
  /\ \A i \in 1..Len(stream) : stream[i] = w[p - Len(stream) + i]

\* What waits out of order are parts of the wire, made of positions of S.
WaitingParts(w, pending, S) ==
  \A s \in DOMAIN pending :
    \E to \in s..Len(w) : /\ s >= 1 /\ pending[s] = Part(w, s - 1, to)
                          /\ s-1..to-1 \subseteq S

\* The direction has passed a prefix of the wire, all of it in S.
Follows(w, d, S) ==
  /\ d.next # Unset
  /\ At(d) \in 0..Len(w)
  /\ EndsIn(w, d.stream, At(d))
  /\ WaitingParts(w, d.pending, S)
  /\ 0..At(d)-1 \subseteq S

\* The positions of S and those of a part.
With(S, from, to) == S \union (from..to-1)

\* Every position of S that is not passed waits out of order.
Held(d, S) ==
  \A q \in S : q >= At(d) =>
    \E s \in DOMAIN d.pending : s - 1 <= q /\ q < s - 1 + Len(d.pending[s])

\* What waits out of order is not passed, and no position of it waits twice.
Apart(d) ==
  /\ \A s \in DOMAIN d.pending : At(d) <= s - 1
  /\ \A s, t \in DOMAIN d.pending : s < t => s + Len(d.pending[s]) <= t

\* The direction went on, its stream did not grow at the front, and when all
\* that was sent fits its stream nothing was lost.
Moves(U, w, d, e, S) ==
  /\ e \in Directions(U) /\ InBudget(e) /\ Follows(w, e, S)
  /\ At(d) <= At(e)
  /\ Start(d) <= Start(e)
  /\ StreamLimit >= Len(w) => /\ Start(e) = Start(d)
                              /\ Load(e) = Load(d)
                              /\ Held(d, S) => Held(e, S)
                              /\ Apart(d) => Apart(e)

\* The counts of a direction are numbers.
LEMMA Counts ==
  ASSUME NEW U, NEW d \in Directions(U)
  PROVE  /\ Len(d.stream) \in Nat /\ d.pendingBytes \in Nat
         /\ At(d) \in Int /\ Start(d) \in Int /\ Load(d) \in Int
<1>1. Len(d.stream) \in Nat /\ d.pendingBytes \in Nat
  BY DEF Directions
<1>2. d.next \in Int
  BY DirectionAssumption DEF Directions, Unset
<1>3. QED
  BY <1>1, <1>2 DEF At, Start, Load

\* A part of a wire has the units of its positions.
LEMMA PartShape ==
  ASSUME NEW U, NEW w \in Seq(U), NEW to \in 0..Len(w), NEW from \in 0..to
  PROVE  /\ Part(w, from, to) \in Seq(U)
         /\ Len(Part(w, from, to)) = to - from
         /\ \A i \in 1..to-from : Part(w, from, to)[i] = w[from + i]
<1>1. PICK n \in Nat : n = Len(w)
  OBVIOUS
<1>2. from + 1 \in 1..n+1 /\ to \in 0..n
  BY <1>1
<1>3. SubSeq(w, from + 1, to) = [i \in 1..to-(from+1)+1 |-> w[from + 1 + i - 1]]
  BY <1>1, <1>2
<1>4. to - (from + 1) + 1 = to - from /\ \A i \in 1..to-from : from + 1 + i - 1 = from + i
  BY <1>2
<1>5. \A i \in 1..to-from : from + i \in 1..n
  BY <1>1
<1>6. SubSeq(w, from + 1, to) = [i \in 1..to-from |-> w[from + i]]
  BY <1>3, <1>4
<1>7. [i \in 1..to-from |-> w[from + i]] \in [1..to-from -> U]
  BY <1>1, <1>5
<1>8. to - from \in Nat
  BY <1>2
<1>9. QED
  BY <1>6, <1>7, <1>8 DEF Part

\* Cutting the front of a part leaves the part that is behind it.
LEMMA PartTrim ==
  ASSUME NEW U, NEW w \in Seq(U), NEW to \in 0..Len(w), NEW from \in 0..to, NEW at \in from..to
  PROVE  Trim(Part(w, from, to), at - from) = Part(w, at, to)
<1> DEFINE s == Part(w, from, to)
           t == Part(w, at, to)
<1>1. s \in Seq(U) /\ Len(s) = to - from /\ \A i \in 1..to-from : s[i] = w[from + i]
  BY PartShape
<1>2. at \in 0..to /\ from \in Nat /\ to \in Nat
  OBVIOUS
<1>3. t \in Seq(U) /\ Len(t) = to - at /\ \A i \in 1..to-at : t[i] = w[at + i]
  BY <1>2, PartShape
<1> HIDE DEF s, t
<1>4. Trim(s, at - from) = SubSeq(s, at - from + 1, to - from)
  BY <1>1 DEF Trim
<1>5. PICK k \in Nat : k = at - from
  BY <1>2
<1>6. PICK m \in Nat : m = to - from /\ k \in 0..m
  BY <1>2, <1>5
<1>b. s \in Seq(U) /\ Len(s) = m /\ k \in 0..m /\ m \in Nat
  BY <1>1, <1>6
<1> DEFINE u == SubSeq(s, k + 1, m)
<1>7. u \in Seq(U) /\ Len(u) = m - k /\ \A i \in 1..m-k : u[i] = s[k + i]
  BY <1>b
<1> HIDE DEF u
<1>8. m - k = to - at /\ m - k \in Nat
  BY <1>2, <1>5, <1>6
<1>9. \A i \in 1..m-k : u[i] = t[i]
  <2> TAKE i \in 1..m-k
  <2>1. k + i \in 1..to-from /\ from + (k + i) = at + i /\ i \in 1..to-at
    BY <1>2, <1>5, <1>6
  <2>2. QED
    BY <1>1, <1>3, <1>7, <2>1
<1>10. u = t
  BY <1>3, <1>7, <1>8, <1>9
<1>11. Trim(s, at - from) = u
  BY <1>4, <1>5, <1>6 DEF u
<1>12. QED
  BY <1>10, <1>11 DEF s, t

\* u is s with t behind it.
Joined(s, t, u) ==
  /\ Len(u) = Len(s) + Len(t)
  /\ \A i \in 1..Len(s) : u[i] = s[i]
  /\ \A i \in 1..Len(t) : u[Len(s) + i] = t[i]

\* A concatenation is the one sequence after the other.
LEMMA ConcatJoins ==
  ASSUME NEW U, NEW s \in Seq(U), NEW t \in Seq(U)
  PROVE  Joined(s, t, s \o t)
<1>1. /\ Len(s \o t) = Len(s) + Len(t)
      /\ \A i \in 1..Len(s) : (s \o t)[i] = s[i]
      /\ \A i \in 1..Len(t) : (s \o t)[Len(s) + i] = t[i]
  OBVIOUS
<1>2. QED
  BY <1>1, Zenon DEF Joined

\* A stream that ends where a part begins is continued by it.
LEMMA PartContinues ==
  ASSUME NEW U, NEW w \in Seq(U), NEW to \in 0..Len(w), NEW p \in 0..to,
         NEW stream \in Seq(U), EndsIn(w, stream, p),
         NEW part, part = Part(w, p, to), NEW longer, Joined(stream, part, longer)
  PROVE  Len(longer) = Len(stream) + (to - p) /\ EndsIn(w, longer, to)
<1>1. part \in Seq(U) /\ Len(part) = to - p /\ \A i \in 1..to-p : part[i] = w[p + i]
  BY PartShape
<1>2. PICK n \in Nat : n = Len(stream)
  OBVIOUS
<1>3. n <= p /\ \A i \in 1..n : stream[i] = w[p - n + i]
  BY <1>2 DEF EndsIn
<1>4. /\ Len(longer) = n + (to - p)
      /\ \A i \in 1..n : longer[i] = stream[i]
      /\ \A i \in 1..to-p : longer[n + i] = part[i]
  BY <1>1, <1>2 DEF Joined
<1>5. ASSUME NEW i \in 1..n + (to - p) PROVE longer[i] = w[to - (n + (to - p)) + i]
  <2>1. to - (n + (to - p)) + i = p - n + i
    BY <1>2
  <2>2. CASE i <= n
    BY <1>3, <1>4, <2>1, <2>2
  <2>3. CASE ~(i <= n)
    <3>1. i - n \in 1..to-p /\ n + (i - n) = i /\ p + (i - n) = p - n + i
      BY <1>2, <2>3
    <3>2. longer[i] = part[i - n] /\ part[i - n] = w[p + (i - n)]
      BY <1>1, <1>4, <3>1
    <3>3. QED
      BY <2>1, <3>1, <3>2
  <2>4. QED
    BY <2>2, <2>3
<1>6. n + (to - p) <= to
  BY <1>2, <1>3
<1>7. QED
  BY <1>2, <1>4, <1>5, <1>6 DEF EndsIn

\* A stream that was lost ends anywhere, and nothing waits behind it.
LEMMA LostFollows ==
  ASSUME NEW w, NEW S, NEW e, Lost(e), NEW p \in Nat
  PROVE  Len(e.stream) = 0 /\ EndsIn(w, e.stream, p) /\ WaitingParts(w, e.pending, S)
<1>1. Len(e.stream) = 0
  BY DEF Lost
<1>2. DOMAIN e.pending = {}
  BY NothingWaits DEF Lost
<1>3. QED
  BY <1>1, <1>2 DEF EndsIn, WaitingParts

\* The part at the position a direction waits for is delivered.
LEMMA AdvanceFollows ==
  ASSUME NEW U, NEW w, ShortWire(U, w),
         NEW d \in Directions(U), InBudget(d), NEW S, Follows(w, d, S),
         NEW to \in At(d)..Len(w), At(d)..to-1 \subseteq S,
         NEW e, e = Advance(d, Part(w, At(d), to))
  PROVE  /\ e \in Directions(U) /\ InBudget(e) /\ Follows(w, e, S)
         /\ At(e) = to
         /\ Start(d) <= Start(e)
         /\ StreamLimit >= Len(w) => Start(e) = Start(d) /\ e.pending = d.pending
<1> DEFINE p == At(d)
           part == Part(w, p, to)
<1>1. PICK n \in Nat : n = Len(w)
  BY DEF ShortWire
<1>2. p \in 0..n /\ d.next = p + 1 /\ to \in p..n /\ n + 1 < SeqSpace /\ SeqSpace \in Nat
  BY <1>1, DirectionAssumption DEF ShortWire, Follows, At, Directions, Unset
<1>a. w \in Seq(U) /\ to \in 0..Len(w) /\ p \in 0..to /\ to \in Nat /\ SeqSpace \in Nat \ {0}
  BY <1>1, <1>2 DEF ShortWire
<1>b. p = At(d) /\ part = Part(w, p, to) /\ e = Advance(d, part) /\ p..to-1 \subseteq S
  OBVIOUS
<1> HIDE DEF p, part
<1>3. part \in Seq(U) /\ Len(part) = to - p
  BY <1>a, <1>b, PartShape
<1>4. /\ e \in Directions(U) /\ InBudget(e)
      /\ e.next = (d.next + Len(part)) % SeqSpace
      /\ Lost(e) \/ Appended(d, part, e)
      /\ Lost(e) \/ e.pending = d.pending
  BY <1>3, <1>b, AdvanceKeeps DEF Follows
<1>5. e.next = to + 1
  <2>1. PICK a \in Int : a = d.next + Len(part)
    BY <1>2, <1>3
  <2>2. a = to + 1 /\ 0 <= a /\ a < SeqSpace
    BY <1>2, <1>3, <2>1
  <2>3. a % SeqSpace = a
    BY <1>a, <2>1, <2>2, ModSmall
  <2>4. QED
    BY <1>4, <2>1, <2>2, <2>3
<1>6. At(e) = to /\ e.next # Unset
  BY <1>2, <1>5 DEF At, Unset, p
<1>7. d.stream \in Seq(U) /\ EndsIn(w, d.stream, p) /\ WaitingParts(w, d.pending, S) /\ 0..p-1 \subseteq S
  BY <1>b DEF Follows, Directions
<1>8. 0..to-1 \subseteq S
  <2>1. \A q \in 0..to-1 : q \in 0..p-1 \/ q \in p..to-1
    BY <1>2
  <2>2. QED
    BY <1>7, <1>b, <2>1
<1>9. PICK m \in Nat : m = Len(d.stream) /\ m <= p
  BY <1>7 DEF EndsIn
<1>10. CASE Lost(e)
  <2>1. Len(e.stream) = 0 /\ EndsIn(w, e.stream, to) /\ WaitingParts(w, e.pending, S)
    BY <1>a, <1>10, LostFollows
  <2>2. Start(e) = to /\ Start(d) = p - m
    BY <1>2, <1>6, <1>9, <1>b, <2>1 DEF Start
  <2>3. StreamLimit >= Len(w) => Start(e) = Start(d) /\ e.pending = d.pending
    <3>1. SUFFICES ASSUME StreamLimit >= n PROVE Start(e) = Start(d) /\ e.pending = d.pending
      BY <1>1
    <3>2. m + (to - p) <= n
      BY <1>1, <1>2, <1>9
    <3>3. Fits(d, part)
      BY <1>1, <1>2, <1>3, <1>9, <3>1, <3>2, DirectionAssumption DEF Fits
    <3>4. /\ e.pending = d.pending
          /\ e.stream = d.stream \o part
      BY <1>b, <3>3 DEF Advance, AppendPayload, Directions
    <3>5. Joined(d.stream, part, d.stream \o part)
      BY <1>3, <1>7, ConcatJoins
    <3>6. Len(e.stream) = m + (to - p)
      BY <1>3, <1>9, <3>4, <3>5 DEF Joined
    <3>7. QED
      BY <1>2, <1>6, <1>9, <1>b, <2>1, <3>4, <3>6, SMTT(60) DEF Start
  <2>4. QED
    BY <1>1, <1>2, <1>4, <1>6, <1>8, <1>9, <2>1, <2>2, <2>3 DEF Follows
<1>11. CASE ~Lost(e)
  <2>1. e.stream = d.stream \o part /\ e.pending = d.pending
    BY <1>4, <1>11 DEF Appended
  <2>2. Joined(d.stream, part, e.stream)
    <3>1. Joined(d.stream, part, d.stream \o part)
      BY <1>3, <1>7, ConcatJoins
    <3>2. QED
      BY <2>1, <3>1
  <2>3. Len(e.stream) = Len(d.stream) + (to - p) /\ EndsIn(w, e.stream, to)
    <3>1. PICK a \in Seq(U) : a = d.stream
      BY <1>7
    <3>2. PICK b : b = e.stream
      OBVIOUS
    <3>3. EndsIn(w, a, p)
      BY <1>7, <3>1
    <3>4. Joined(a, part, b)
      BY <2>2, <3>1, <3>2
    <3>5. Len(b) = Len(a) + (to - p) /\ EndsIn(w, b, to)
      BY <1>a, <1>b, <3>3, <3>4, PartContinues
    <3>6. QED
      BY <3>1, <3>2, <3>5
  <2>4. Start(e) = Start(d)
    BY <1>2, <1>6, <1>9, <1>b, <2>3 DEF Start
  <2>5. Start(d) <= Start(e)
    BY <1>2, <1>9, <1>b, <2>4 DEF Start
  <2>6. WaitingParts(w, e.pending, S)
    BY <1>7, <2>1
  <2>7. QED
    BY <1>1, <1>2, <1>4, <1>6, <1>8, <2>1, <2>3, <2>4, <2>5, <2>6 DEF Follows
<1>12. QED
  BY <1>10, <1>11

\* What waits at the position a direction waits for is a part that begins there.
LEMMA PartAtNext ==
  ASSUME NEW U, NEW w, ShortWire(U, w),
         NEW d \in Directions(U), NEW S, Follows(w, d, S), d.next \in DOMAIN d.pending
  PROVE  \E to \in At(d)+1..Len(w) : /\ d.pending[d.next] = Part(w, At(d), to)
                                     /\ At(d)..to-1 \subseteq S
<1>1. PICK to \in d.next..Len(w) :
        d.next >= 1 /\ d.pending[d.next] = Part(w, d.next - 1, to) /\ d.next-1..to-1 \subseteq S
  BY DEF Follows, WaitingParts
<1>2. d.next \in Nat /\ Len(w) \in Nat
  BY DirectionAssumption DEF ShortWire, Follows, Directions
<1>3. to \in At(d)+1..Len(w)
  BY <1>2 DEF At
<1>4. QED
  BY <1>1, <1>3 DEF At

\* A turn of drain_pending that finds a payload delivers it.
LEMMA DrainOneMoves ==
  ASSUME NEW U, NEW w, ShortWire(U, w),
         NEW d \in Directions(U), InBudget(d), NEW S \in SUBSET Nat, Follows(w, d, S),
         d.next \in DOMAIN d.pending,
         NEW e, e = DrainOne(d)
  PROVE  Moves(U, w, d, e, S)
<1>1. PICK to \in At(d)+1..Len(w) : /\ d.pending[d.next] = Part(w, At(d), to)
                                    /\ At(d)..to-1 \subseteq S
  BY PartAtNext
<1>2. PICK t : t = TakePending(d, d.next)
  OBVIOUS
<1>3. /\ t \in Directions(U) /\ InBudget(t) /\ t.next = d.next /\ t.stream = d.stream
      /\ DOMAIN t.pending = DOMAIN d.pending \ {d.next}
      /\ \A r \in DOMAIN t.pending : t.pending[r] = d.pending[r]
  BY <1>2, TakeKeeps
<1>4. At(t) = At(d) /\ Start(t) = Start(d)
  BY <1>3 DEF At, Start
<1>5. Follows(w, t, S)
  BY <1>3, <1>4 DEF Follows, WaitingParts
<1>6. e = Advance(t, Part(w, At(t), to))
  BY <1>1, <1>2, <1>4 DEF DrainOne
<1>7. /\ At(d) \in 0..Len(w) /\ Len(w) \in Nat /\ Len(d.stream) \in Nat
      /\ to \in At(d)..Len(w) /\ to \in At(t)..Len(w) /\ At(t)..to-1 \subseteq S
  BY <1>1, <1>4 DEF Follows, ShortWire, Directions
<1>8. /\ e \in Directions(U) /\ InBudget(e) /\ Follows(w, e, S)
      /\ At(e) = to
      /\ Start(t) <= Start(e)
      /\ StreamLimit >= Len(w) => Start(e) = Start(t) /\ e.pending = t.pending
  BY <1>3, <1>5, <1>6, <1>7, AdvanceFollows
<1>9. Len(d.pending[d.next]) = to - At(d)
  <2>1. w \in Seq(U) /\ to \in 0..Len(w) /\ At(d) \in 0..to
    BY <1>7 DEF ShortWire
  <2>2. QED
    BY <1>1, <2>1, PartShape
<1>10. ASSUME StreamLimit >= Len(w)
       PROVE  Load(e) = Load(d) /\ (Held(d, S) => Held(e, S)) /\ (Apart(d) => Apart(e))
  <2>1. e.pending = t.pending
    BY <1>8, <1>10
  <2>2. e.pendingBytes = t.pendingBytes
    BY <1>3, <1>8, <2>1 DEF InBudget, Waiting
  <2>3. Waiting(d) = Len(d.pending[d.next]) + Waiting(t)
    BY <1>3, TakeWaiting
  <2>4. d.pendingBytes = (to - At(d)) + t.pendingBytes
    BY <1>3, <1>9, <2>3 DEF InBudget
  <2>5. Load(e) = Load(d)
    <3>1. t.pendingBytes \in Nat
      BY <1>3 DEF Directions
    <3>2. QED
      BY <1>7, <1>8, <2>2, <2>4, <3>1 DEF Load
  <2>6. ASSUME Held(d, S), NEW q \in S, q >= At(e)
        PROVE  \E s \in DOMAIN e.pending : s - 1 <= q /\ q < s - 1 + Len(e.pending[s])
    <3>1. q \in S /\ q \in Nat /\ q >= to
      BY <1>8, <2>6
    <3>2. q >= At(d)
      BY <1>7, <3>1
    <3>3. PICK s \in DOMAIN d.pending : s - 1 <= q /\ q < s - 1 + Len(d.pending[s])
      BY <2>6, <3>2 DEF Held
    <3>4. s # d.next
      BY <1>7, <1>9, <3>1, <3>3 DEF At
    <3>5. s \in DOMAIN t.pending /\ t.pending[s] = d.pending[s]
      BY <1>3, <3>4
    <3>6. QED
      BY <2>1, <3>3, <3>5
  <2>7. ASSUME Apart(d) PROVE Apart(e)
    <3>1. PICK p \in Nat, r \in Nat : p = At(d) /\ r = d.next /\ r = p + 1
      BY <1>7, DirectionAssumption DEF At, Directions, Follows, Unset
    <3>2. DOMAIN d.pending \subseteq Nat
      BY DirectionAssumption DEF Directions, Maps
    <3>3. \A s \in DOMAIN e.pending :
            s \in DOMAIN d.pending /\ s # r /\ e.pending[s] = d.pending[s]
      BY <1>3, <2>1, <3>1
    <3>4. ASSUME NEW s \in DOMAIN e.pending PROVE At(e) <= s - 1
      <4>1. s \in Nat /\ s # r /\ p <= s - 1
        BY <2>7, <3>1, <3>2, <3>3 DEF Apart
      <4>2. r < s
        BY <3>1, <4>1
      <4>3. r + (to - p) <= s
        BY <1>9, <2>7, <3>1, <3>3, <4>2 DEF Apart
      <4>4. QED
        BY <1>7, <1>8, <3>1, <4>1, <4>3
    <3>5. QED
      BY <2>7, <3>3, <3>4 DEF Apart
  <2>8. QED
    BY <2>5, <2>6, <2>7 DEF Held
<1>11. QED
  BY <1>4, <1>7, <1>8, <1>10 DEF Moves

\* A direction has not moved, and one move behind another is a move.
LEMMA MovesFrom ==
  ASSUME NEW U, NEW w, NEW S, NEW d \in Directions(U), InBudget(d), Follows(w, d, S)
  PROVE  /\ Moves(U, w, d, d, S)
         /\ \A x, y : Moves(U, w, d, x, S) /\ Moves(U, w, x, y, S) => Moves(U, w, d, y, S)
<1>1. \A x \in Directions(U) : Follows(w, x, S) => At(x) \in Int /\ Start(x) \in Int
  <2>1. SUFFICES ASSUME NEW x \in Directions(U), Follows(w, x, S) PROVE At(x) \in Int /\ Start(x) \in Int
    OBVIOUS
  <2>2. Len(x.stream) \in Nat /\ x.next \in Int
    BY DirectionAssumption DEF Directions, Unset
  <2>3. QED
    BY <2>2 DEF At, Start
<1>2. Moves(U, w, d, d, S)
  <2>1. At(d) \in Int /\ Start(d) \in Int
    BY <1>1
  <2>2. QED
    BY <2>1 DEF Moves
<1>3. ASSUME NEW x, NEW y, Moves(U, w, d, x, S), Moves(U, w, x, y, S) PROVE Moves(U, w, d, y, S)
  <2>1. /\ At(d) \in Int /\ Start(d) \in Int /\ At(x) \in Int /\ Start(x) \in Int
        /\ At(y) \in Int /\ Start(y) \in Int
    BY <1>1, <1>3 DEF Moves
  <2>2. At(d) <= At(y) /\ Start(d) <= Start(y)
    BY <1>3, <2>1 DEF Moves
  <2>3. QED
    BY <1>3, <2>2 DEF Moves
<1>4. QED
  BY <1>2, <1>3

\* drain_pending delivers what follows and leaves nothing at the position the
\* direction waits for.
LEMMA DrainMoves ==
  ASSUME NEW U, NEW w, ShortWire(U, w), NEW S \in SUBSET Nat,
         NEW d \in Directions(U), InBudget(d), Follows(w, d, S),
         NEW e, e = DrainPending(d)
  PROVE  Moves(U, w, d, e, S) /\ e.next \notin DOMAIN e.pending
<1> DEFINE I == {x \in Directions(U) : Moves(U, w, d, x, S)}
<1>1. d \in I
  BY MovesFrom
<1>2. \A x \in I : x \in Directions(U) /\ InBudget(x) /\ x.next # Unset
  BY DEF Moves, Follows
<1>3. ASSUME NEW x \in I, x.next \in DOMAIN x.pending PROVE DrainOne(x) \in I
  <2>1. x \in Directions(U) /\ InBudget(x) /\ Follows(w, x, S) /\ Moves(U, w, d, x, S)
    BY DEF Moves
  <2>2. Moves(U, w, x, DrainOne(x), S)
    BY <1>3, <2>1, DrainOneMoves
  <2>3. Moves(U, w, d, DrainOne(x), S)
    BY <2>1, <2>2, MovesFrom
  <2>4. QED
    BY <2>2, <2>3 DEF Moves
<1> HIDE DEF I
<1>4. e \in I /\ e.next \notin DOMAIN e.pending
  BY <1>1, <1>2, <1>3, DrainReaches
<1>5. QED
  BY <1>4 DEF I

\* A larger set of positions serves as well.
LEMMA FollowsMore ==
  ASSUME NEW w, NEW d, NEW S, NEW R, S \subseteq R, Follows(w, d, S)
  PROVE  Follows(w, d, R)
BY DEF Follows, WaitingParts

\* A part ahead of the direction waits, or is refused.
LEMMA StashFollows ==
  ASSUME NEW U, NEW w, ShortWire(U, w), NEW S \in SUBSET Nat,
         NEW d \in Directions(U), InBudget(d), Follows(w, d, S), d.next \notin DOMAIN d.pending,
         NEW to \in 1..Len(w), NEW from \in 0..to-1, from > At(d),
         NEW part, part = Part(w, from, to),
         NEW R, R = With(S, from, to),
         NEW place, place = from + 1,
         NEW e, e = Stash(d, place, part)
  PROVE  /\ e \in Directions(U) /\ InBudget(e) /\ Follows(w, e, R)
         /\ e.next \notin DOMAIN e.pending
         /\ e.next = d.next /\ e.stream = d.stream
         /\ Load(e) <= Load(d) + (to - from)
         /\ HasBudget(d, part) /\ place \notin DOMAIN d.pending =>
              (Held(d, S) => Held(e, R))
         /\ from..to-1 \intersect S = {} /\ Apart(d) => Apart(e)
<1>1. PICK n \in Nat : n = Len(w)
  BY DEF ShortWire
<1>2. /\ to \in 1..n /\ from \in 0..to-1 /\ n + 1 < SeqSpace /\ SeqSpace \in Nat
      /\ from + 1 \in 0..SeqSpace-1
  BY <1>1, DirectionAssumption DEF ShortWire
<1>3. part \in Seq(U) /\ Len(part) = to - from
  <2>1. w \in Seq(U) /\ to \in 0..Len(w) /\ from \in 0..to
    BY <1>1, <1>2 DEF ShortWire
  <2>2. QED
    BY <2>1, PartShape
<1>4. /\ e \in Directions(U)
      /\ InBudget(e)
      /\ e.next = d.next /\ e.stream = d.stream
      /\ HasBudget(d, part) /\ from + 1 \notin DOMAIN d.pending =>
           /\ e.pending[from + 1] = part
           /\ from + 1 \in DOMAIN e.pending
           /\ Taken(e, from + 1, d)
      /\ ~HasBudget(d, part) \/ from + 1 \in DOMAIN d.pending => e = d
  BY <1>2, <1>3, StashKeeps
<1>5. At(e) = At(d) /\ At(d) \in Int /\ d.next \in Int /\ d.next # from + 1 /\ d.pendingBytes \in Nat
  <2>1. d.next \in Int /\ d.pendingBytes \in Nat
    BY <1>2 DEF Directions, Unset
  <2>2. QED
    BY <1>2, <1>4, <2>1 DEF At
<1>6. Follows(w, d, R)
  BY FollowsMore DEF With
<1>7. CASE ~(HasBudget(d, part) /\ from + 1 \notin DOMAIN d.pending)
  <2>1. e = d
    BY <1>4, <1>7
  <2>2. Load(d) <= Load(d) + (to - from)
    BY <1>2, <1>5 DEF Load
  <2>3. QED
    BY <1>4, <1>6, <1>7, <2>1, <2>2
<1>8. CASE HasBudget(d, part) /\ from + 1 \notin DOMAIN d.pending
  <2>1. /\ e.pending[from + 1] = part
        /\ from + 1 \in DOMAIN e.pending
        /\ DOMAIN d.pending = DOMAIN e.pending \ {from + 1}
        /\ \A r \in DOMAIN d.pending : d.pending[r] = e.pending[r]
    BY <1>4, <1>8 DEF Taken
  <2>2. WaitingParts(w, e.pending, R)
    <3>1. SUFFICES ASSUME NEW s \in DOMAIN e.pending
                   PROVE  \E t \in s..Len(w) : /\ s >= 1 /\ e.pending[s] = Part(w, s - 1, t)
                                               /\ s-1..t-1 \subseteq R
      BY DEF WaitingParts
    <3>2. CASE s = from + 1
      <4>1. to \in s..Len(w) /\ s >= 1 /\ s - 1 = from /\ from..to-1 \subseteq R
        BY <1>1, <1>2, <3>2 DEF With
      <4>2. QED
        BY <2>1, <3>2, <4>1
    <3>3. CASE s # from + 1
      BY <1>6, <2>1, <3>3 DEF Follows, WaitingParts
    <3>4. QED
      BY <3>2, <3>3
  <2>3. Follows(w, e, R)
    BY <1>4, <1>5, <1>6, <2>2 DEF Follows
  <2>4. e.next \notin DOMAIN e.pending
    BY <1>4, <1>5, <2>1
  <2>5. Load(e) <= Load(d) + (to - from)
    <3>1. Waiting(e) = Len(e.pending[from + 1]) + Waiting(d)
      BY <1>4, <2>1, TakeWaiting
    <3>2. e.pendingBytes = (to - from) + d.pendingBytes
      BY <1>3, <1>4, <2>1, <3>1 DEF InBudget
    <3>3. QED
      BY <1>2, <1>5, <3>2 DEF Load
  <2>6. ASSUME Held(d, S), NEW q \in R, q >= At(e)
        PROVE  \E s \in DOMAIN e.pending : s - 1 <= q /\ q < s - 1 + Len(e.pending[s])
    <3>1. CASE q \in S
      <4>1. PICK s \in DOMAIN d.pending : s - 1 <= q /\ q < s - 1 + Len(d.pending[s])
        BY <1>5, <2>6, <3>1 DEF Held
      <4>2. QED
        BY <2>1, <4>1
    <3>2. CASE q \in from..to-1
      <4>1. from + 1 - 1 <= q /\ q < from + 1 - 1 + Len(e.pending[from + 1])
        BY <1>2, <1>3, <2>1, <3>2
      <4>2. QED
        BY <2>1, <4>1
    <3>3. QED
      BY <3>1, <3>2 DEF With
  <2>7. ASSUME from..to-1 \intersect S = {}, Apart(d) PROVE Apart(e)
    <3>1. DOMAIN e.pending \subseteq Nat
      BY <1>2, <1>4, DirectionShape
    <3>2. ASSUME NEW s \in DOMAIN d.pending
          PROVE  s \in Nat /\ (s < from + 1 => s + Len(d.pending[s]) <= from + 1)
                 /\ (from + 1 < s => to + 1 <= s)
      <4>1. PICK t \in s..n : s >= 1 /\ d.pending[s] = Part(w, s - 1, t) /\ s-1..t-1 \subseteq S
        BY <1>1 DEF Follows, WaitingParts
      <4>2. s \in Nat
        BY <2>1, <3>1
      <4>3. Len(d.pending[s]) = t - (s - 1)
        <5>1. PICK r \in Nat : r = s - 1
          BY <4>1, <4>2
        <5>2. w \in Seq(U) /\ t \in 0..Len(w) /\ r \in 0..t
          BY <1>1, <1>2, <4>1, <4>2, <5>1 DEF ShortWire
        <5>3. Len(Part(w, r, t)) = t - r
          BY <5>2, PartShape, ZenonT(60)
        <5>4. QED
          BY <4>1, <5>1, <5>3
      <4>4. ASSUME s < from + 1 PROVE t <= from
        <5>1. SUFFICES ASSUME from < t PROVE FALSE
          BY <1>2, <4>1, <4>2
        <5>2. from \in s-1..t-1 /\ from \in from..to-1
          BY <1>2, <4>1, <4>2, <4>4, <5>1
        <5>3. QED
          BY <2>7, <4>1, <5>2
      <4>5. ASSUME from + 1 < s PROVE to + 1 <= s
        <5>1. SUFFICES ASSUME s - 1 < to PROVE FALSE
          BY <1>2, <4>2
        <5>2. s - 1 \in s-1..t-1 /\ s - 1 \in from..to-1
          BY <1>2, <4>1, <4>2, <4>5, <5>1
        <5>3. QED
          BY <2>7, <4>1, <5>2
      <4>6. QED
        BY <1>2, <4>1, <4>2, <4>3, <4>4, <4>5
    <3>3. \A s \in DOMAIN e.pending : s = from + 1 \/ s \in DOMAIN d.pending
      BY <2>1
    <3>4. Len(e.pending[from + 1]) = to - from
      BY <1>3, <2>1
    <3>5. ASSUME NEW s \in DOMAIN e.pending PROVE At(e) <= s - 1
      BY <1>2, <1>5, <2>7, <3>3 DEF Apart
    <3>6. ASSUME NEW s \in DOMAIN e.pending, NEW t \in DOMAIN e.pending, s < t
          PROVE  s + Len(e.pending[s]) <= t
      <4>1. CASE s = from + 1
        <5>1. t \in DOMAIN d.pending /\ from + 1 < t
          BY <1>2, <3>3, <3>6, <4>1
        <5>2. to + 1 <= t
          BY <3>2, <5>1
        <5>3. t \in Nat /\ Len(e.pending[s]) = to - from
          BY <3>2, <3>4, <4>1, <5>1
        <5>4. from \in Nat /\ to \in Nat
          BY <1>2
        <5>5. PICK l \in Int : l = Len(e.pending[s]) /\ l = to - from
          BY <5>3, <5>4
        <5>6. s + l <= t
          BY <4>1, <5>2, <5>3, <5>4, <5>5
        <5>7. QED
          BY <5>5, <5>6
      <4>2. CASE t = from + 1 /\ s # from + 1
        BY <2>1, <3>2, <3>3, <3>6, <4>2
      <4>3. CASE t # from + 1 /\ s # from + 1
        BY <2>1, <2>7, <3>3, <3>6, <4>3 DEF Apart
      <4>4. QED
        BY <4>1, <4>2, <4>3
    <3>7. QED
      BY <3>5, <3>6 DEF Apart
  <2>8. QED
    BY <1>4, <2>3, <2>4, <2>5, <2>6, <2>7 DEF Held
<1>9. QED
  BY <1>7, <1>8

\* What a payload changes, when the direction that is to take it is t and the
\* payload is the part from..to-1.
Takes(U, w, t, from, to, e, S, R) ==
  /\ e \in Directions(U) /\ InBudget(e) /\ Follows(w, e, R)
  /\ e.next \notin DOMAIN e.pending
  /\ At(t) <= At(e)
  /\ Start(t) <= Start(e)
  /\ StreamLimit >= Len(w) => Start(e) = Start(t)
  /\ from > At(t) \/ to <= At(t) => e.stream = t.stream /\ At(e) = At(t)
  /\ from <= At(t) => to <= At(e)
  /\ StreamLimit >= Len(w) /\ from >= At(t) => Load(e) <= Load(t) + (to - from)
  /\ /\ StreamLimit >= Len(w)
     /\ from > At(t) => HasBudget(t, Part(w, from, to)) /\ from + 1 \notin DOMAIN t.pending
     /\ Held(t, S)
     => Held(e, R)
  /\ StreamLimit >= Len(w) /\ from..to-1 \intersect S = {} /\ Apart(t) => Apart(e)

\* A part behind the one the direction waits for is delivered, with what waits.
LEMMA DeliverTakes ==
  ASSUME NEW U, NEW w, ShortWire(U, w), NEW S \in SUBSET Nat,
         NEW t \in Directions(U), InBudget(t), Follows(w, t, S), t.next \notin DOMAIN t.pending,
         NEW to \in 1..Len(w), NEW from \in 0..to-1, from <= At(t), At(t) < to,
         NEW R, R = With(S, from, to),
         NEW e, e = DrainPending(Advance(t, Part(w, At(t), to)))
  PROVE  Takes(U, w, t, from, to, e, S, R)
<1>1. PICK n \in Nat : n = Len(w)
  BY DEF ShortWire
<1>2. /\ to \in 1..n /\ from \in 0..to-1 /\ At(t) \in 0..n /\ R \in SUBSET Nat
      /\ t.pendingBytes \in Nat /\ Len(t.stream) \in Nat
  BY <1>1 DEF Follows, Directions, With
<1>3. PICK a : a = Advance(t, Part(w, At(t), to))
  OBVIOUS
<1>4. /\ Follows(w, t, R) /\ to \in At(t)..Len(w) /\ At(t)..to-1 \subseteq R
  BY <1>1, <1>2, FollowsMore DEF With
<1>5. /\ a \in Directions(U) /\ InBudget(a) /\ Follows(w, a, R)
      /\ At(a) = to
      /\ Start(t) <= Start(a)
      /\ StreamLimit >= Len(w) => Start(a) = Start(t) /\ a.pending = t.pending
  BY <1>3, <1>4, AdvanceFollows
<1>6. Moves(U, w, a, e, R) /\ e.next \notin DOMAIN e.pending
  BY <1>2, <1>3, <1>5, DrainMoves
<1>7. /\ At(e) \in Int /\ Start(e) \in Int /\ Start(a) \in Int /\ Start(t) \in Int
      /\ a.pendingBytes \in Nat /\ Load(a) \in Int /\ Load(t) \in Int
  <2>1. e \in Directions(U)
    BY <1>6 DEF Moves
  <2>2. QED
    BY <1>5, <2>1, Counts
<1>8. /\ e \in Directions(U) /\ InBudget(e) /\ Follows(w, e, R)
      /\ to <= At(e) /\ Start(a) <= Start(e)
      /\ StreamLimit >= Len(w) => /\ Start(e) = Start(a)
                                  /\ Load(e) = Load(a)
                                  /\ Held(a, R) => Held(e, R)
                                  /\ Apart(a) => Apart(e)
  BY <1>5, <1>6 DEF Moves
<1>9. ASSUME StreamLimit >= Len(w)
      PROVE  Load(a) = Load(t) + (to - At(t)) /\ (Held(t, S) => Held(a, R))
  <2>1. a.pending = t.pending
    BY <1>5, <1>9
  <2>2. a.pendingBytes = t.pendingBytes
    BY <1>5, <2>1 DEF InBudget, Waiting
  <2>3. Load(a) = Load(t) + (to - At(t))
    BY <1>2, <1>5, <2>2 DEF Load
  <2>4. ASSUME Held(t, S), NEW q \in R, q >= At(a)
        PROVE  \E s \in DOMAIN a.pending : s - 1 <= q /\ q < s - 1 + Len(a.pending[s])
    <3>1. q >= to /\ q \in Nat
      BY <1>2, <1>5, <2>4
    <3>2. q \in S /\ q >= At(t)
      BY <1>2, <3>1 DEF With
    <3>3. QED
      BY <2>1, <2>4, <3>2 DEF Held
  <2>5. QED
    BY <2>3, <2>4 DEF Held
<1>10. At(t) <= At(e) /\ Start(t) <= Start(e)
  BY <1>2, <1>5, <1>7, <1>8
<1>11. ~(from > At(t) \/ to <= At(t))
  BY <1>2
<1>12. StreamLimit >= Len(w) => Start(e) = Start(t)
  BY <1>5, <1>8
<1>13. StreamLimit >= Len(w) /\ from >= At(t) => Load(e) <= Load(t) + (to - from)
  <2>1. SUFFICES ASSUME StreamLimit >= Len(w), from >= At(t) PROVE Load(e) <= Load(t) + (to - from)
    OBVIOUS
  <2>2. Load(e) = Load(t) + (to - At(t)) /\ from = At(t)
    BY <1>2, <1>8, <1>9, <2>1
  <2>3. QED
    BY <1>2, <1>7, <2>2
<1>14. StreamLimit >= Len(w) /\ Held(t, S) => Held(e, R)
  BY <1>8, <1>9
<1>15. ASSUME StreamLimit >= Len(w), from..to-1 \intersect S = {}, Apart(t) PROVE Apart(e)
  <2>1. a.pending = t.pending
    BY <1>5, <1>15
  <2>2. ASSUME NEW s \in DOMAIN a.pending PROVE to <= s - 1
    <3>1. PICK u \in s..n : s >= 1 /\ s-1..u-1 \subseteq S
      BY <1>1, <2>1 DEF Follows, WaitingParts
    <3>2. s \in Nat
      <4>1. DOMAIN a.pending \subseteq 0..SeqSpace-1
        BY <1>5, DirectionShape
      <4>2. QED
        BY <4>1, DirectionAssumption
    <3>3. At(t) <= s - 1
      BY <1>15, <2>1 DEF Apart
    <3>4. s - 1 \in S
      BY <1>2, <3>1, <3>2
    <3>5. s - 1 \notin from..to-1
      BY <1>15, <3>4
    <3>6. QED
      BY <1>2, <3>2, <3>3, <3>5
  <2>3. Apart(a)
    BY <1>5, <1>15, <2>1, <2>2 DEF Apart
  <2>4. QED
    BY <1>8, <1>15, <2>3
<1>16. QED
  BY <1>6, <1>8, <1>10, <1>11, <1>12, <1>13, <1>14, <1>15 DEF Takes

\* Direction::push with a part of the wire, in terms of positions.
LEMMA PushTakes ==
  ASSUME NEW U, NEW w, ShortWire(U, w), NEW S \in SUBSET Nat,
         NEW to \in 1..Len(w), NEW from \in 0..to-1,
         NEW d, NEW t, t = Started(d, from + 1),
         t \in Directions(U), InBudget(t), Follows(w, t, S), t.next \notin DOMAIN t.pending,
         t.next = IF d.next = Unset THEN from + 1 ELSE d.next,
         NEW R, R = With(S, from, to),
         NEW e, e = Push(d, from + 1, Part(w, from, to))
  PROVE  Takes(U, w, t, from, to, e, S, R)
<1>1. PICK n \in Nat : n = Len(w)
  BY DEF ShortWire
<1>2. /\ to \in 1..n /\ from \in 0..to-1 /\ n + 1 < SeqSpace /\ SeqSpace \in Nat \ {0}
      /\ w \in Seq(U) /\ to \in 0..Len(w) /\ from \in 0..to
  BY <1>1, DirectionAssumption DEF ShortWire
<1>3. At(t) \in 0..n /\ t.next = At(t) + 1 /\ Len(t.stream) \in Nat /\ t.pendingBytes \in Nat
  BY <1>1, <1>2 DEF Follows, Directions, At, Unset
<1>4. PICK part \in Seq(U) : part = Part(w, from, to) /\ Len(part) = to - from
  BY <1>2, PartShape
<1>5. PICK seen \in Int : seen = At(t) - from
  BY <1>2, <1>3
<1>6. ASSUME from < At(t) PROVE (t.next - (from + 1)) % SeqSpace = seen
  <2>1. t.next - (from + 1) = seen /\ 0 <= seen /\ seen < SeqSpace
    BY <1>2, <1>3, <1>5, <1>6, SMTT(60)
  <2>2. QED
    BY <1>2, <2>1, ModSmall
<1>7. /\ from < At(t) /\ seen >= to - from => e = t
      /\ from < At(t) /\ ~(seen >= to - from) =>
           e = DrainPending(Advance(t, Trim(part, seen)))
      /\ from = At(t) => e = DrainPending(Advance(t, part))
      /\ from > At(t) => e = Stash(t, from + 1, part)
  <2>1. PICK s \in Int : s = from + 1
    BY <1>2
  <2>2. PICK x : x = t.next
    OBVIOUS
  <2>3. PICK y : y = (x - s) % SeqSpace
    OBVIOUS
  <2>4. e = Push(d, s, part) /\ t = Started(d, s) /\ x = (IF d.next = Unset THEN s ELSE d.next)
    BY <1>4, <2>1, <2>2
  <2>5. /\ s < x /\ y >= Len(part) => e = t
        /\ s < x /\ ~(y >= Len(part)) => e = DrainPending(Advance(t, Trim(part, y)))
        /\ ~(s < x) /\ s = x => e = DrainPending(Advance(t, part))
        /\ ~(s < x) /\ s # x => e = Stash(t, s, part)
    BY <2>3, <2>4, PushCases
  <2>6. s < x <=> from < At(t)
    BY <1>2, <1>3, <2>1, <2>2
  <2>7. s = x <=> from = At(t)
    BY <1>2, <1>3, <2>1, <2>2
  <2>8. from < At(t) => y = seen
    BY <1>6, <2>1, <2>2, <2>3
  <2>9. from > At(t) => ~(s < x) /\ s # x
    BY <1>2, <1>3, <2>6, <2>7
  <2>10. from = At(t) => ~(s < x) /\ s = x
    BY <1>2, <1>3, <2>6, <2>7
  <2>11. QED
    BY <1>4, <2>1, <2>5, <2>6, <2>8, <2>9, <2>10
<1>8. CASE from < At(t) /\ seen >= to - from
  <2>1. e = t /\ to <= At(t)
    BY <1>2, <1>3, <1>5, <1>7, <1>8
  <2>2. Follows(w, t, R)
    BY FollowsMore DEF With
  <2>3. ASSUME Held(t, S) PROVE Held(t, R)
    <3>1. SUFFICES ASSUME NEW q \in R, q >= At(t)
                   PROVE  \E s \in DOMAIN t.pending : s - 1 <= q /\ q < s - 1 + Len(t.pending[s])
      BY DEF Held
    <3>2. q \in S
      BY <1>2, <1>3, <2>1, <3>1 DEF With
    <3>3. QED
      BY <2>3, <3>1, <3>2 DEF Held
  <2>4. At(t) <= At(t) /\ Start(t) <= Start(t) /\ Start(t) = Start(t) /\ ~(from >= At(t))
    BY <1>2, <1>3, <1>8 DEF Start
  <2>5. QED
    BY <2>1, <2>2, <2>3, <2>4 DEF Takes
<1>9. CASE from <= At(t) /\ At(t) < to
  <2>1. e = DrainPending(Advance(t, Part(w, At(t), to)))
    <3>1. CASE from = At(t)
      BY <1>4, <1>7, <3>1
    <3>2. CASE from < At(t)
      <4>1. ~(seen >= to - from)
        BY <1>2, <1>3, <1>5, <1>9
      <4>2. At(t) \in from..to
        BY <1>2, <1>3, <1>9
      <4>3. Trim(Part(w, from, to), At(t) - from) = Part(w, At(t), to)
        BY <1>2, <4>2, PartTrim
      <4>4. QED
        BY <1>4, <1>5, <1>7, <3>2, <4>1, <4>3
    <3>3. QED
      BY <1>2, <1>3, <1>9, <3>1, <3>2
  <2>2. QED
    BY <1>9, <2>1, DeliverTakes
<1>10. CASE from > At(t)
  <2>1. e = Stash(t, from + 1, part)
    BY <1>7, <1>10
  <2>2. /\ e \in Directions(U) /\ InBudget(e) /\ Follows(w, e, R)
        /\ e.next \notin DOMAIN e.pending
        /\ e.next = t.next /\ e.stream = t.stream
        /\ Load(e) <= Load(t) + (to - from)
        /\ HasBudget(t, part) /\ from + 1 \notin DOMAIN t.pending =>
             (Held(t, S) => Held(e, R))
        /\ from..to-1 \intersect S = {} /\ Apart(t) => Apart(e)
    <3>1. PICK place : place = from + 1
      OBVIOUS
    <3>2. e = Stash(t, place, part)
      BY <2>1, <3>1
    <3>3. QED
      BY <1>4, <1>10, <3>1, <3>2, StashFollows
  <2>3. At(e) = At(t) /\ Start(e) = Start(t)
    BY <2>2 DEF At, Start
  <2>4. At(t) <= At(e) /\ Start(t) <= Start(e) /\ ~(from <= At(t))
    BY <1>2, <1>3, <1>10, <2>3 DEF Start
  <2>5. QED
    BY <1>4, <1>10, <2>2, <2>3, <2>4 DEF Takes
<1>11. QED
  <2>1. (from < At(t) /\ seen >= to - from) \/ (from <= At(t) /\ At(t) < to) \/ from > At(t)
    BY <1>2, <1>3, <1>5, SMTT(60)
  <2>2. QED
    BY <1>8, <1>9, <1>10, <2>1

\* All that was sent is passed or waits, each position once.
Intact(d, S) == Held(d, S) /\ Load(d) <= Cardinality(S) /\ Apart(d)

\* A direction to which nothing was sent.
LEMMA NothingSent ==
  ASSUME NEW U, NEW w, NEW d \in Directions(U), InBudget(d), Follows(w, d, {})
  PROVE  Intact(d, {})
<1>1. At(d) = 0
  <2>1. At(d) \in Int /\ 0 <= At(d)
    BY Counts DEF Follows
  <2>2. 0..At(d)-1 \subseteq {}
    BY DEF Follows
  <2>3. ~(0 <= At(d) - 1)
    BY <2>1, <2>2
  <2>4. QED
    BY <2>1, <2>3
<1>2. DOMAIN d.pending = {}
  <2>1. SUFFICES ASSUME NEW s \in DOMAIN d.pending PROVE FALSE
    OBVIOUS
  <2>2. PICK to \in s..Len(w) : s - 1..to - 1 \subseteq {}
    BY DEF Follows, WaitingParts
  <2>3. s \in Nat
    <3>1. DOMAIN d.pending \subseteq 0..SeqSpace-1
      BY DirectionShape
    <3>2. QED
      BY <3>1, DirectionAssumption
  <2>4. s - 1 \in s - 1..to - 1
    BY <2>2, <2>3
  <2>5. QED
    BY <2>2, <2>4
<1>3. d.pendingBytes = 0
  <2>1. PICK map : map = d.pending
    OBVIOUS
  <2>2. map \in [{} -> Seq(U)]
    BY <1>2, <2>1, DirectionShape
  <2>3. map = <<>>
    BY <2>2
  <2>4. QED
    BY <2>1, <2>3, NothingWaits DEF InBudget
<1>4. Load(d) = 0 /\ Cardinality({}) = 0
  BY <1>1, <1>3, FS_EmptySet DEF Load
<1>5. QED
  BY <1>2, <1>4 DEF Intact, Held, Apart

\* A part that was not sent before leaves nothing out, when the limits hold all
\* that is sent.
LEMMA PushIntact ==
  ASSUME NEW U, NEW w, ShortWire(U, w), Len(w) <= StreamLimit, Len(w) <= PendingLimit,
         NEW S, S \subseteq 0..Len(w)-1,
         NEW to \in 1..Len(w), NEW from \in 0..to-1, from..to-1 \intersect S = {},
         NEW d \in Directions(U), InBudget(d), Follows(w, d, S), d.next \notin DOMAIN d.pending,
         Intact(d, S),
         NEW R, R = With(S, from, to),
         NEW e, e = Push(d, from + 1, Part(w, from, to))
  PROVE  Intact(e, R)
<1>1. PICK n \in Nat : n = Len(w)
  BY DEF ShortWire
<1>2. /\ to \in 1..n /\ from \in 0..to-1 /\ StreamLimit \in Nat /\ PendingLimit \in Nat
      /\ w \in Seq(U) /\ S \in SUBSET Nat /\ At(d) \in 0..n /\ d.pendingBytes \in Nat
  BY <1>1, DirectionAssumption DEF ShortWire, Follows, Directions
<1>3. Takes(U, w, d, from, to, e, S, R)
  <2>1. d = Started(d, from + 1) /\ d.next # Unset
    BY DEF Started, Directions, Follows
  <2>2. d.next = IF d.next = Unset THEN from + 1 ELSE d.next
    BY <2>1
  <2>3. QED
    BY <1>2, <2>1, <2>2, PushTakes
<1>4. /\ IsFiniteSet(S) /\ IsFiniteSet(R) /\ Cardinality(S) \in Nat /\ Cardinality(R) \in Nat
      /\ Cardinality(R) = Cardinality(S) + (to - from) /\ Cardinality(R) <= n
  <2>1. /\ IsFiniteSet(0..n-1) /\ Cardinality(0..n-1) = n
        /\ IsFiniteSet(from..to-1) /\ Cardinality(from..to-1) = to - from
    <3>1. PICK a \in Int, b \in Int, c \in Int, g \in Int :
            a = 0 /\ b = n - 1 /\ c = to - 1 /\ g = from
      BY <1>2
    <3>2. /\ IsFiniteSet(a..b) /\ Cardinality(a..b) = IF a > b THEN 0 ELSE b - a + 1
      BY FS_Interval
    <3>3. /\ IsFiniteSet(g..c) /\ Cardinality(g..c) = IF g > c THEN 0 ELSE c - g + 1
      BY FS_Interval
    <3>4. QED
      BY <1>2, <3>1, <3>2, <3>3
  <2>2. R \subseteq 0..n-1 /\ S \subseteq 0..n-1
    BY <1>1, <1>2 DEF With
  <2>3. IsFiniteSet(S) /\ IsFiniteSet(R) /\ Cardinality(R) <= n
    <3>1. PICK all : all = 0..n-1
      OBVIOUS
    <3>2. IsFiniteSet(all) /\ Cardinality(all) = n /\ R \in SUBSET all /\ S \in SUBSET all
      BY <2>1, <2>2, <3>1
    <3>3. QED
      BY <3>2, FS_Subset
  <2>4. Cardinality(S) \in Nat /\ Cardinality(R) \in Nat
    BY <2>3, FS_CardinalityType
  <2>5. Cardinality(S \union (from..to-1)) = Cardinality(S) + (to - from) - Cardinality(S \intersect (from..to-1))
    BY <2>1, <2>3, FS_Union
  <2>6. S \intersect (from..to-1) = {} /\ Cardinality({}) = 0
    BY FS_EmptySet
  <2>7. R = S \union (from..to-1)
    BY DEF With
  <2>8. Cardinality(R) = Cardinality(S) + (to - from) - 0
    BY <2>5, <2>6, <2>7
  <2>9. QED
    BY <1>2, <2>3, <2>4, <2>8
<1>5. Load(d) <= Cardinality(S) /\ Load(d) = d.pendingBytes + At(d)
  BY DEF Intact, Load
<1>6. from >= At(d)
  <2>1. SUFFICES ASSUME from < At(d) PROVE FALSE
    BY <1>2
  <2>2. from \in S /\ from \in from..to-1
    BY <1>2, <2>1 DEF Follows
  <2>3. QED
    BY <2>2
<1>7. from > At(d) => HasBudget(d, Part(w, from, to)) /\ from + 1 \notin DOMAIN d.pending
  <2>1. Len(Part(w, from, to)) = to - from
    <3>1. to \in 0..Len(w) /\ from \in 0..to
      BY <1>1, <1>2
    <3>2. QED
      BY <1>2, <3>1, PartShape, SMTT(60)
  <2>2. HasBudget(d, Part(w, from, to))
    BY <1>1, <1>2, <1>4, <1>5, <2>1, SMTT(60) DEF HasBudget
  <2>3. ASSUME from + 1 \in DOMAIN d.pending PROVE FALSE
    <3>1. PICK t \in from+1..Len(w) : from + 1 - 1..t - 1 \subseteq S
      BY <2>3, SMTT(60) DEF Follows, WaitingParts
    <3>2. from \in S /\ from \in from..to-1
      BY <1>1, <1>2, <3>1
    <3>3. QED
      BY <3>2
  <2>4. QED
    BY <2>2, <2>3
<1>8. /\ Load(e) <= Load(d) + (to - from)
      /\ Held(e, R) /\ Apart(e) /\ e \in Directions(U)
  <2>1. Held(d, S) /\ Apart(d) /\ StreamLimit >= Len(w)
    BY <1>1, <1>2 DEF Intact
  <2>2. QED
    BY <1>3, <1>6, <1>7, <2>1 DEF Takes
<1>9. Load(e) \in Int /\ Load(d) \in Int
  BY <1>8, Counts
<1>10. Load(e) <= Cardinality(R)
  <2>1. PICK a \in Int, b \in Int, c \in Nat, g \in Nat :
          a = Load(d) /\ b = Load(e) /\ c = Cardinality(S) /\ g = Cardinality(R)
    BY <1>4, <1>9
  <2>2. a <= c /\ b <= a + (to - from) /\ g = c + (to - from) /\ to \in Nat /\ from \in Nat
    BY <1>2, <1>4, <1>5, <1>8, <2>1
  <2>3. b <= g
    BY <2>2
  <2>4. QED
    BY <2>1, <2>3
<1>11. QED
  BY <1>8, <1>10 DEF Intact

-----------------------------------------------------------------------------
(* Sequences, and FlattenSeq, which is a loop.                              *)

\* An element more: what is in the sequence, and that none is there twice.
LEMMA SequenceAppend ==
  ASSUME NEW S, NEW s \in Seq(S), NEW x \in S
  PROVE  /\ Append(s, x) \in Seq(S)
         /\ ToSet(Append(s, x)) = ToSet(s) \union {x}
         /\ IsInjective(s) /\ x \notin ToSet(s) => IsInjective(Append(s, x))
<1> DEFINE t == Append(s, x)
<1>1. PICK n \in Nat : n = Len(s)
  OBVIOUS
<1>2. DOMAIN s = 1..n /\ DOMAIN t = 1..n+1 /\ t \in Seq(S)
  BY <1>1
<1>3. (\A i \in 1..n : t[i] = s[i]) /\ t[n + 1] = x
  BY <1>1
<1> HIDE DEF t
<1>4. ToSet(t) = ToSet(s) \union {x}
  <2>1. \A y \in ToSet(t) : y \in ToSet(s) \union {x}
    <3>1. SUFFICES ASSUME NEW i \in 1..n+1 PROVE t[i] \in ToSet(s) \union {x}
      BY <1>2 DEF ToSet
    <3>2. i \in 1..n \/ i = n + 1
      OBVIOUS
    <3>3. QED
      BY <1>2, <1>3, <3>2 DEF ToSet
  <2>2. \A y \in ToSet(s) : y \in ToSet(t)
    <3>1. SUFFICES ASSUME NEW i \in 1..n PROVE s[i] \in ToSet(t)
      BY <1>2 DEF ToSet
    <3>2. i \in 1..n+1 /\ t[i] = s[i]
      BY <1>3
    <3>3. QED
      BY <1>2, <3>2 DEF ToSet
  <2>3. x \in ToSet(t)
    <3>1. n + 1 \in 1..n+1
      OBVIOUS
    <3>2. QED
      BY <1>2, <1>3, <3>1 DEF ToSet
  <2>4. QED
    BY <2>1, <2>2, <2>3
<1>5. ASSUME IsInjective(s), x \notin ToSet(s) PROVE IsInjective(t)
  <2>1. \A i \in 1..n : s[i] # x
    BY <1>2, <1>5 DEF ToSet
  <2>2. SUFFICES ASSUME NEW i \in 1..n+1, NEW j \in 1..n+1, t[i] = t[j] PROVE i = j
    BY <1>2 DEF IsInjective
  <2>3. i \in 1..n \/ i = n + 1
    OBVIOUS
  <2>4. j \in 1..n \/ j = n + 1
    OBVIOUS
  <2>5. CASE i \in 1..n /\ j \in 1..n
    BY <1>2, <1>3, <1>5, <2>2, <2>5 DEF IsInjective
  <2>6. CASE ~(i \in 1..n /\ j \in 1..n)
    BY <1>3, <2>1, <2>2, <2>3, <2>4, <2>6
  <2>7. QED
    BY <2>5, <2>6
<1>6. QED
  BY <1>2, <1>4, <1>5 DEF t

\* A function on 1..n is a sequence.
LEMMA FunctionsAreSequences ==
  ASSUME NEW S, NEW n \in Nat, NEW s, s \in [1..n -> S]
  PROVE  s \in Seq(S) /\ Len(s) = n
OBVIOUS

\* The head and the tail hold what the sequence holds.
LEMMA SequenceTail ==
  ASSUME NEW S, NEW s \in Seq(S), s # <<>>
  PROVE  /\ Head(s) \in S
         /\ Tail(s) \in Seq(S)
         /\ ToSet(s) = {Head(s)} \union ToSet(Tail(s))
<1>1. PICK n \in Nat : n = Len(s)
  OBVIOUS
<1>2. n # 0
  BY <1>1
<1>a. Tail(s) \in Seq(S)
  BY <1>1, <1>2
<1>3. PICK t \in Seq(S) : t = Tail(s)
  BY <1>a
<1>4. DOMAIN s = 1..n /\ DOMAIN t = 1..n-1 /\ Head(s) = s[1] /\ s[1] \in S
  BY <1>1, <1>2, <1>3
<1>5. \A i \in 1..n-1 : t[i] = s[i + 1]
  BY <1>1, <1>2, <1>3
<1>6. \A y \in ToSet(s) : y = s[1] \/ y \in ToSet(t)
  <2>1. SUFFICES ASSUME NEW i \in 1..n, i # 1 PROVE s[i] \in ToSet(t)
    BY <1>4 DEF ToSet
  <2>2. i - 1 \in 1..n-1 /\ (i - 1) + 1 = i
    BY <2>1
  <2>3. t[i - 1] = s[i]
    BY <1>5, <2>2
  <2>4. QED
    BY <1>4, <2>2, <2>3 DEF ToSet
<1>7. \A y \in ToSet(t) : y \in ToSet(s)
  <2>1. SUFFICES ASSUME NEW i \in 1..n-1 PROVE t[i] \in ToSet(s)
    BY <1>4 DEF ToSet
  <2>2. i + 1 \in 1..n
    OBVIOUS
  <2>3. QED
    BY <1>4, <1>5, <2>2 DEF ToSet
<1>8. s[1] \in ToSet(s)
  <2>1. 1 \in 1..n
    BY <1>2
  <2>2. QED
    BY <1>4, <2>1 DEF ToSet
<1>9. QED
  BY <1>3, <1>4, <1>6, <1>7, <1>8

\* Two sequences hold what their concatenation holds.
LEMMA SequenceConcat ==
  ASSUME NEW S, NEW s \in Seq(S), NEW t \in Seq(S)
  PROVE  /\ s \o t \in Seq(S)
         /\ ToSet(s \o t) = ToSet(s) \union ToSet(t)
<1> DEFINE u == s \o t
<1>1. PICK m \in Nat, n \in Nat : m = Len(s) /\ n = Len(t)
  OBVIOUS
<1>2. u \in Seq(S) /\ Len(u) = m + n
  BY <1>1
<1>3. DOMAIN s = 1..m /\ DOMAIN t = 1..n /\ DOMAIN u = 1..m+n
  BY <1>1, <1>2
<1>4. \A i \in 1..m : u[i] = s[i]
  BY <1>1
<1>5. \A i \in 1..n : u[m + i] = t[i]
  BY <1>1
<1> HIDE DEF u
<1>6. \A y \in ToSet(u) : y \in ToSet(s) \/ y \in ToSet(t)
  <2>1. SUFFICES ASSUME NEW i \in 1..m+n PROVE u[i] \in ToSet(s) \/ u[i] \in ToSet(t)
    BY <1>3 DEF ToSet
  <2>2. CASE i <= m
    <3>1. i \in 1..m
      BY <2>2
    <3>2. QED
      BY <1>3, <1>4, <3>1 DEF ToSet
  <2>3. CASE ~(i <= m)
    <3>1. i - m \in 1..n /\ m + (i - m) = i
      BY <2>3
    <3>2. u[i] = t[i - m]
      BY <1>5, <3>1
    <3>3. QED
      BY <1>3, <3>1, <3>2 DEF ToSet
  <2>4. QED
    BY <2>2, <2>3
<1>7. \A y \in ToSet(s) : y \in ToSet(u)
  <2>1. SUFFICES ASSUME NEW i \in 1..m PROVE s[i] \in ToSet(u)
    BY <1>3 DEF ToSet
  <2>2. i \in 1..m+n
    OBVIOUS
  <2>3. QED
    BY <1>3, <1>4, <2>2 DEF ToSet
<1>8. \A y \in ToSet(t) : y \in ToSet(u)
  <2>1. SUFFICES ASSUME NEW i \in 1..n PROVE t[i] \in ToSet(u)
    BY <1>3 DEF ToSet
  <2>2. m + i \in 1..m+n
    OBVIOUS
  <2>3. QED
    BY <1>3, <1>5, <2>2 DEF ToSet
<1>9. QED
  BY <1>2, <1>6, <1>7, <1>8 DEF u

\* The front and the rest of a sequence.
Splits(s, n, a, b) ==
  /\ Len(a) = n
  /\ Len(b) = Len(s) - n
  /\ ToSet(s) = ToSet(a) \union ToSet(b)
  /\ IsInjective(s) => IsInjective(b)
  /\ IsInjective(s) => ToSet(a) \intersect ToSet(b) = {}

\* So do the front and the rest, and neither has what is in the other.
LEMMA SequenceSplit ==
  ASSUME NEW S, NEW s \in Seq(S), NEW n \in 0..Len(s),
         NEW a, a = SubSeq(s, 1, n), NEW b, b = SubSeq(s, n + 1, Len(s))
  PROVE  a \in Seq(S) /\ b \in Seq(S) /\ Splits(s, n, a, b)
<1>1. PICK m \in Nat : m = Len(s)
  OBVIOUS
<1>2. n \in 0..m /\ b = SubSeq(s, n + 1, m)
  BY <1>1
<1>3. a \in Seq(S) /\ Len(a) = n /\ \A i \in 1..n : a[i] = s[i]
  BY <1>1, <1>2
<1>4. b \in Seq(S) /\ Len(b) = m - n /\ \A i \in 1..m-n : b[i] = s[n + i]
  BY <1>1, <1>2
<1>5. DOMAIN s = 1..m /\ DOMAIN a = 1..n /\ DOMAIN b = 1..m-n
  BY <1>1, <1>2, <1>3, <1>4
<1>6. \A y \in ToSet(s) : y \in ToSet(a) \/ y \in ToSet(b)
  <2>1. SUFFICES ASSUME NEW i \in 1..m PROVE s[i] \in ToSet(a) \/ s[i] \in ToSet(b)
    BY <1>5 DEF ToSet
  <2>2. CASE i <= n
    <3>1. i \in 1..n
      BY <1>2, <2>2
    <3>2. QED
      BY <1>3, <1>5, <3>1 DEF ToSet
  <2>3. CASE ~(i <= n)
    <3>1. i - n \in 1..m-n /\ n + (i - n) = i
      BY <1>2, <2>3
    <3>2. b[i - n] = s[i]
      BY <1>4, <3>1
    <3>3. QED
      BY <1>5, <3>1, <3>2 DEF ToSet
  <2>4. QED
    BY <2>2, <2>3
<1>7. \A y \in ToSet(a) : \E i \in 1..n : i \in 1..m /\ y = s[i]
  BY <1>2, <1>3, <1>5 DEF ToSet
<1>8. \A y \in ToSet(b) : \E i \in 1..m-n : n + i \in 1..m /\ y = s[n + i]
  <2>1. \A i \in 1..m-n : n + i \in 1..m
    BY <1>2
  <2>2. \A y \in ToSet(b) : \E i \in 1..m-n : y = b[i]
    BY <1>5 DEF ToSet
  <2>3. QED
    BY <1>4, <2>1, <2>2
<1>9. ToSet(a) \subseteq ToSet(s) /\ ToSet(b) \subseteq ToSet(s)
  BY <1>5, <1>7, <1>8 DEF ToSet
<1>10. ASSUME IsInjective(s) PROVE IsInjective(b)
  <2>1. SUFFICES ASSUME NEW i \in 1..m-n, NEW j \in 1..m-n, b[i] = b[j] PROVE i = j
    BY <1>5 DEF IsInjective
  <2>2. n + i \in 1..m /\ n + j \in 1..m
    BY <1>2
  <2>3. n + i = n + j
    BY <1>4, <1>5, <1>10, <2>1, <2>2 DEF IsInjective
  <2>4. QED
    BY <1>2, <2>3
<1>11. ASSUME IsInjective(s) PROVE ToSet(a) \intersect ToSet(b) = {}
  <2>1. SUFFICES ASSUME NEW y, y \in ToSet(a), y \in ToSet(b) PROVE FALSE
    OBVIOUS
  <2>2. PICK i \in 1..n : i \in 1..m /\ y = s[i]
    BY <1>7, <2>1
  <2>3. PICK j \in 1..m-n : n + j \in 1..m /\ y = s[n + j]
    BY <1>8, <2>1
  <2>4. i = n + j
    BY <1>5, <1>11, <2>2, <2>3 DEF IsInjective
  <2>5. QED
    BY <1>2, <2>4
<1>12. ToSet(s) = ToSet(a) \union ToSet(b)
  BY <1>6, <1>9
<1>13. QED
  BY <1>1, <1>3, <1>4, <1>10, <1>11, <1>12 DEF Splits

\* What is in the parts is in the whole.
LEMMA FlattenShape ==
  ASSUME NEW S, NEW seqs \in Seq(Seq(S))
  PROVE  /\ FlattenSeq(seqs) \in Seq(S)
         /\ ToSet(FlattenSeq(seqs)) = UNION {ToSet(seqs[i]) : i \in 1..Len(seqs)}
<1>1. PICK m \in Nat : m = Len(seqs)
  OBVIOUS
<1>2. \A i \in 1..m : seqs[i] \in Seq(S)
  BY <1>1
<1>3. CASE m = 0
  <2>1. FlattenSeq(seqs) = <<>>
    <3>0. Len(seqs) = 0
      BY <1>1, <1>3
    <3>1. seqs = <<>>
      BY <3>0
    <3>2. QED
      BY <1>1, <1>3, <3>1 DEF FlattenSeq
  <2>2. ToSet(<<>>) = {} /\ 1..m = {}
    BY <1>3 DEF ToSet
  <2>3. QED
    BY <1>1, <2>1, <2>2
<1>4. CASE m # 0
  <2> DEFINE First(n) == UNION {ToSet(seqs[i]) : i \in 1..n}
             IsRun(f) == f = [i \in 1..m |-> IF i = 1 THEN seqs[i] ELSE f[i - 1] \o seqs[i]]
             flat == CHOOSE f : IsRun(f)
             turns == m - 1
             Q == [n \in Nat |-> {s \in Seq(S) : ToSet(s) = First(n + 1)}]
  <2>1. FlattenSeq(seqs) = flat[m]
    BY <1>1, <1>4 DEF FlattenSeq
  <2>2. turns \in Nat /\ turns + 1 = m /\ 1 \in 1..m
    BY <1>4
  <2>3. \E f : IsRun(f)
    <3> DEFINE step == [c \in (1..turns) \X Seq(S) |-> c[2] \o seqs[c[1] + 1]]
    <3>1. step \in [(1..turns) \X Seq(S) -> Seq(S)]
      <4>1. \A n \in 1..turns : n + 1 \in 1..m
        BY <2>2
      <4>2. QED
        BY <1>2, <4>1
    <3>2. \A n \in 1..turns, s \in Seq(S) : step[<<n, s>>] = s \o seqs[n + 1]
      OBVIOUS
    <3>3. seqs[1] \in Seq(S)
      BY <1>2, <2>2
    <3> HIDE DEF step, turns
    <3>4. PICK g \in [0..turns -> Seq(S)] : IsLoop(g, turns, seqs[1], step)
      BY <2>2, <3>1, <3>3, LoopExists
    <3> DEFINE f == [i \in 1..m |-> g[i - 1]]
    <3>5. ASSUME NEW i \in 1..m
          PROVE  f[i] = IF i = 1 THEN seqs[i] ELSE f[i - 1] \o seqs[i]
      <4>1. CASE i = 1
        <5>1. 0 \in 0..turns /\ g[0] = seqs[1]
          BY <2>2, <3>4 DEF IsLoop
        <5>2. QED
          BY <4>1, <5>1
      <4>2. CASE i # 1
        <5>1. i - 1 \in 1..turns /\ i - 1 \in 0..turns /\ (i - 1) - 1 \in 0..turns
              /\ i - 1 # 0 /\ i - 1 \in 1..m /\ (i - 1) + 1 = i
          BY <2>2, <4>2
        <5>2. g[i - 1] = step[<<i - 1, g[(i - 1) - 1]>>]
          BY <3>4, <5>1 DEF IsLoop
        <5>3. g[(i - 1) - 1] \in Seq(S)
          BY <5>1
        <5>4. g[i - 1] = g[(i - 1) - 1] \o seqs[i]
          BY <3>2, <5>1, <5>2, <5>3
        <5>5. QED
          BY <4>2, <5>1, <5>4
      <4>3. QED
        BY <4>1, <4>2
    <3>6. IsRun(f)
      BY <3>5
    <3>7. QED
      BY <3>6
  <2> HIDE DEF IsRun, turns
  <2>4. IsRun(flat)
    BY <2>3
  <2> HIDE DEF flat
  <2>5. flat[1] = seqs[1]
    BY <2>2, <2>4 DEF IsRun
  <2>6. ASSUME NEW n \in 1..turns
        PROVE  n \in 1..m /\ n + 1 \in 1..m /\ flat[n + 1] = flat[n] \o seqs[n + 1]
    <3>1. n \in 1..m /\ n + 1 \in 1..m /\ n + 1 # 1 /\ (n + 1) - 1 = n
      BY <2>2
    <3>2. QED
      BY <2>4, <3>1 DEF IsRun
  <2> DEFINE run == [n \in 0..turns |-> flat[n + 1]]
  <2>7. run[0] \in Q[0]
    <3>1. First(1) = ToSet(seqs[1])
      <4>1. 1..1 = {1}
        OBVIOUS
      <4>2. QED
        BY <4>1
    <3>2. run[0] = seqs[1]
      BY <2>2, <2>5
    <3>3. seqs[1] \in Seq(S)
      BY <1>2, <2>2
    <3>4. Q[0] = {s \in Seq(S) : ToSet(s) = First(1)}
      OBVIOUS
    <3>5. QED
      BY <3>1, <3>2, <3>3, <3>4
  <2>8. ASSUME NEW n \in 1..turns, run[n - 1] \in Q[n - 1] PROVE run[n] \in Q[n]
    <3>1. n \in 0..turns /\ n - 1 \in 0..turns /\ (n - 1) + 1 = n /\ n \in Nat /\ n - 1 \in Nat
      BY <2>2
    <3>2. run[n] = flat[n + 1] /\ run[n - 1] = flat[n]
      BY <3>1
    <3>3. flat[n] \in Seq(S) /\ ToSet(flat[n]) = First(n)
      BY <2>8, <3>1, <3>2
    <3>4. seqs[n + 1] \in Seq(S) /\ flat[n + 1] = flat[n] \o seqs[n + 1]
      BY <1>2, <2>6
    <3>5. flat[n + 1] \in Seq(S) /\ ToSet(flat[n + 1]) = ToSet(flat[n]) \union ToSet(seqs[n + 1])
      BY <3>3, <3>4, SequenceConcat
    <3>6. First(n + 1) = First(n) \union ToSet(seqs[n + 1])
      <4>1. \A i : i \in 1..n+1 <=> i \in 1..n \/ i = n + 1
        BY <3>1
      <4>2. QED
        BY <4>1
    <3>7. QED
      BY <3>1, <3>2, <3>3, <3>5, <3>6
  <2> HIDE DEF run, Q
  <2>9. run[turns] \in Q[turns]
    BY <2>2, <2>7, <2>8, LoopInvariant
  <2>10. run[turns] = flat[m]
    BY <2>2 DEF run
  <2>11. QED
    BY <1>1, <2>1, <2>2, <2>9, <2>10 DEF Q
<1>5. QED
  BY <1>3, <1>4

\* Every element is greater than those before it.
Increasing(s) == \A i, j \in 1..Len(s) : i < j => s[i] < s[j]

\* The sequence of a longer queue, and that of a shorter one.
LEMMA IncreasingAppend ==
  ASSUME NEW s \in Seq(Nat), Increasing(s), NEW x \in Nat, \A k \in 1..Len(s) : s[k] < x
  PROVE  Increasing(Append(s, x))
<1>1. PICK n \in Nat : n = Len(s)
  OBVIOUS
<1>2. PICK t : t = Append(s, x)
  OBVIOUS
<1>3. Len(t) = n + 1 /\ t[n + 1] = x /\ \A i \in 1..n : t[i] = s[i]
  BY <1>1, <1>2
<1>4. \A i, j \in 1..n+1 : i < j => t[i] < t[j]
  <2>1. SUFFICES ASSUME NEW i \in 1..n+1, NEW j \in 1..n+1, i < j PROVE t[i] < t[j]
    OBVIOUS
  <2>2. i \in 1..n /\ t[i] = s[i]
    BY <1>3, <2>1
  <2>3. CASE j = n + 1
    BY <1>1, <1>3, <2>2, <2>3
  <2>4. CASE j # n + 1
    <3>1. j \in 1..n /\ t[j] = s[j]
      BY <1>3, <2>4
    <3>2. QED
      BY <1>1, <2>1, <2>2, <3>1 DEF Increasing
  <2>5. QED
    BY <2>3, <2>4
<1>5. QED
  BY <1>2, <1>3, <1>4 DEF Increasing

\* What is left of an increasing queue is increasing, and comes after its head.
LEMMA IncreasingTail ==
  ASSUME NEW s \in Seq(Nat), Increasing(s), s # <<>>
  PROVE  /\ Increasing(Tail(s))
         /\ Len(s) \in Nat \ {0} /\ Len(Tail(s)) = Len(s) - 1 /\ Head(s) = s[1]
         /\ \A k \in 1..Len(s)-1 : Tail(s)[k] = s[k + 1] /\ Head(s) < Tail(s)[k]
<1>1. PICK n \in Nat : n = Len(s) /\ n # 0
  OBVIOUS
<1>2. PICK t : t = Tail(s)
  OBVIOUS
<1>3. Len(t) = n - 1 /\ Head(s) = s[1] /\ \A i \in 1..n-1 : t[i] = s[i + 1]
  BY <1>1, <1>2
<1>4. \A i \in 1..n-1 : i + 1 \in 1..n /\ 1 < i + 1 /\ 1 \in 1..n
  BY <1>1
<1>5. \A i \in 1..n-1 : Head(s) < t[i]
  BY <1>1, <1>3, <1>4 DEF Increasing
<1>6. \A i, j \in 1..n-1 : i < j => t[i] < t[j]
  <2>1. SUFFICES ASSUME NEW i \in 1..n-1, NEW j \in 1..n-1, i < j PROVE t[i] < t[j]
    OBVIOUS
  <2>2. i + 1 < j + 1
    BY <2>1
  <2>3. QED
    BY <1>1, <1>3, <1>4, <2>2 DEF Increasing
<1>7. QED
  BY <1>1, <1>2, <1>3, <1>5, <1>6 DEF Increasing

\* FlattenSeq puts one part after the other behind what it has.
FlattensBy(S, seqs, m, run) ==
  /\ run \in [0..m -> Seq(S)]
  /\ run[0] = <<>>
  /\ \A n \in 1..m : run[n] = run[n - 1] \o seqs[n]
  /\ FlattenSeq(seqs) = run[m]

\* FlattenSeq goes over its sequences in turn: the results of the turns exist, and
\* the last one is the flattened sequence.
LEMMA FlattenTurns ==
  ASSUME NEW S, NEW seqs \in Seq(Seq(S)), NEW m \in Nat, m = Len(seqs)
  PROVE  \E run : FlattensBy(S, seqs, m, run)
<1>1. \A i \in 1..m : seqs[i] \in Seq(S)
  OBVIOUS
<1> DEFINE step == [c \in (1..m) \X Seq(S) |-> c[2] \o seqs[c[1]]]
<1>2. step \in [(1..m) \X Seq(S) -> Seq(S)]
  BY <1>1
<1>3. \A n \in 1..m, s \in Seq(S) : step[<<n, s>>] = s \o seqs[n]
  OBVIOUS
<1>4. <<>> \in Seq(S)
  OBVIOUS
<1> HIDE DEF step
<1>5. PICK run \in [0..m -> Seq(S)] : IsLoop(run, m, <<>>, step)
  BY <1>2, <1>4, LoopExists
<1>6. run[0] = <<>>
  BY <1>5 DEF IsLoop
<1>7. ASSUME NEW n \in 1..m PROVE run[n] = run[n - 1] \o seqs[n] /\ run[n - 1] \in Seq(S)
  <2>1. n \in 0..m /\ n # 0 /\ n - 1 \in 0..m
    OBVIOUS
  <2>2. run[n] = step[<<n, run[n - 1]>>]
    BY <1>5, <2>1 DEF IsLoop
  <2>3. run[n - 1] \in Seq(S)
    BY <2>1
  <2>4. QED
    BY <1>3, <2>2, <2>3
<1>8. CASE m = 0
  <2>0. Len(seqs) = 0
    BY <1>8
  <2>1. seqs = <<>>
    BY <2>0
  <2>2. FlattenSeq(seqs) = <<>>
    BY <2>0, <2>1 DEF FlattenSeq
  <2>3. QED
    BY <1>5, <1>6, <1>7, <1>8, <2>2 DEF FlattensBy
<1>9. CASE m # 0
  <2> DEFINE IsRun(f) == f = [i \in 1..m |-> IF i = 1 THEN seqs[i] ELSE f[i - 1] \o seqs[i]]
             flat == CHOOSE f : IsRun(f)
             g == [i \in 1..m |-> run[i]]
  <2>1. FlattenSeq(seqs) = flat[m]
    BY <1>9 DEF FlattenSeq
  <2>2. run[1] = seqs[1]
    <3>0. 1 \in 1..m /\ 1 - 1 = 0
      BY <1>9
    <3>1. seqs[1] \in Seq(S)
      BY <1>1, <3>0
    <3>a. run[1] = run[1 - 1] \o seqs[1]
      BY <1>7, <3>0, Zenon
    <3>2. run[1] = <<>> \o seqs[1]
      BY <1>6, <3>0, <3>a, Zenon
    <3>3. \A s \in Seq(S) : <<>> \o s = s
      OBVIOUS
    <3>4. QED
      BY <3>1, <3>2, <3>3
  <2>3. ASSUME NEW i \in 1..m PROVE g[i] = IF i = 1 THEN seqs[i] ELSE g[i - 1] \o seqs[i]
    <3>1. CASE i = 1
      BY <2>2, <3>1
    <3>2. CASE i # 1
      <4>1. i - 1 \in 1..m
        BY <3>2
      <4>2. QED
        BY <1>7, <3>2, <4>1
    <3>3. QED
      BY <3>1, <3>2
  <2>4. IsRun(g)
    BY <2>3, SMTT(60)
  <2> HIDE DEF g
  <2>5. IsRun(flat)
    BY <2>4
  <2> HIDE DEF flat
  <2> DEFINE Q == [n \in Nat |-> {s \in Seq(S) : n = 0 \/ (n \in 1..m /\ s = flat[n])}]
  <2>6. ASSUME NEW n \in 1..m, run[n - 1] \in Q[n - 1] PROVE run[n] \in Q[n]
    <3>0. n \in Nat /\ n - 1 \in Nat /\ n # 0
      OBVIOUS
    <3>1. flat[n] = IF n = 1 THEN seqs[n] ELSE flat[n - 1] \o seqs[n]
      BY <2>5
    <3>2. CASE n = 1
      <4>1. run[n] = flat[n]
        BY <2>2, <3>1, <3>2
      <4>2. QED
        BY <3>0, <4>1
    <3>3. CASE n # 1
      <4>1. n - 1 # 0
        BY <3>3
      <4>2. run[n - 1] = flat[n - 1]
        BY <2>6, <3>0, <4>1
      <4>3. run[n] = flat[n]
        BY <1>7, <3>1, <3>3, <4>2
      <4>4. QED
        BY <3>0, <4>3
    <3>4. QED
      BY <3>2, <3>3
  <2>7. run[0] \in Q[0]
    OBVIOUS
  <2> HIDE DEF Q
  <2>8. run[m] \in Q[m]
    BY <2>6, <2>7, LoopInvariant
  <2>9. run[m] = flat[m]
    BY <1>9, <2>8 DEF Q
  <2>10. QED
    BY <1>5, <1>6, <1>7, <2>1, <2>9 DEF FlattensBy
<1>10. QED
  BY <1>8, <1>9

\* start[i] is the number of units of the first i of m messages.
Rises(start, m) ==
  /\ start \in [0..m -> Nat]
  /\ start[0] = 0
  /\ \A i \in 1..m : start[i - 1] < start[i]

\* Every position is in one message, and those of the later ones come later.
LEMMA RisesCovers ==
  ASSUME NEW m \in Nat, NEW start, Rises(start, m)
  PROVE  /\ \A i, j \in 0..m : i < j => start[i] < start[j]
         /\ \A p \in 1..start[m] : \E i \in 1..m : start[i - 1] < p /\ p <= start[i]
<1> DEFINE Q == [n \in Nat |-> {x \in Nat :
                   n <= m => /\ x = start[n]
                             /\ \A i \in 0..n-1 : start[i] < start[n]
                             /\ \A p \in 1..start[n] :
                                  \E i \in 1..n : start[i - 1] < p /\ p <= start[i]}]
<1>1. \A n \in 0..m : start[n] \in Nat
  BY DEF Rises
<1>2. 0 \in Nat /\ start[0] \in Q[0]
  BY <1>1 DEF Rises
<1>3. ASSUME NEW k \in Nat, k <= m PROVE start[k] \in Q[k]
  <2>1. start[0] \in Q[0]
    BY <1>2
  <2>2. ASSUME NEW n \in 1..k, start[n - 1] \in Q[n - 1] PROVE start[n] \in Q[n]
    <3>1. n \in 1..m /\ n - 1 \in 0..m /\ n \in 0..m /\ n \in Nat /\ n - 1 \in Nat /\ n - 1 <= m
      BY <1>3
    <3>2. /\ \A i \in 0..n-2 : start[i] < start[n - 1]
          /\ \A p \in 1..start[n - 1] :
               \E i \in 1..n-1 : start[i - 1] < p /\ p <= start[i]
      BY <2>2, <3>1
    <3>3. start[n - 1] < start[n] /\ start[n - 1] \in Nat /\ start[n] \in Nat
      BY <1>1, <3>1 DEF Rises
    <3>4. ASSUME NEW i \in 0..n-1 PROVE start[i] < start[n]
      <4>1. i \in 0..n-2 \/ i = n - 1
        BY <3>1
      <4>2. i \in 0..m
        BY <3>1
      <4>3. start[i] \in Nat
        BY <1>1, <4>2
      <4>4. QED
        BY <3>2, <3>3, <4>1, <4>3
    <3>5. ASSUME NEW p \in 1..start[n] PROVE \E i \in 1..n : start[i - 1] < p /\ p <= start[i]
      <4>1. CASE p <= start[n - 1]
        <5>1. PICK i \in 1..n-1 : start[i - 1] < p /\ p <= start[i]
          BY <3>2, <3>3, <4>1
        <5>2. i \in 1..n
          BY <3>1
        <5>3. QED
          BY <5>1, <5>2
      <4>2. CASE ~(p <= start[n - 1])
        <5>1. start[n - 1] < p /\ p <= start[n] /\ n \in 1..n
          BY <3>1, <3>3, <4>2
        <5>2. QED
          BY <5>1
      <4>3. QED
        BY <4>1, <4>2
    <3>6. QED
      BY <3>1, <3>3, <3>4, <3>5
  <2> HIDE DEF Q
  <2>3. QED
    BY <1>3, <2>1, <2>2, LoopInvariant
<1>4. ASSUME NEW k \in 0..m
      PROVE  /\ \A i \in 0..k-1 : start[i] < start[k]
             /\ \A p \in 1..start[k] : \E i \in 1..k : start[i - 1] < p /\ p <= start[i]
  <2>1. k \in Nat /\ k <= m
    OBVIOUS
  <2>2. start[k] \in Q[k]
    BY <1>3, <2>1
  <2>3. QED
    BY <2>1, <2>2
<1>5. \A i, j \in 0..m : i < j => start[i] < start[j]
  <2> SUFFICES ASSUME NEW i \in 0..m, NEW j \in 0..m, i < j PROVE start[i] < start[j]
    OBVIOUS
  <2>1. i \in 0..j-1
    OBVIOUS
  <2>2. QED
    BY <1>4, <2>1
<1>6. m \in 0..m
  OBVIOUS
<1>7. QED
  BY <1>4, <1>5, <1>6
=============================================================================
