---------------------------- MODULE FoldTheorems ----------------------------
(***************************************************************************)
(* What the proofs about this program's loops over sequences and sets rest *)
(* on: induction and recursion without parameters that are operators.  An  *)
(* inductive property is a set here, a recursive step a function.          *)
(*                                                                         *)
(* FoldLeft and the sums of FiniteSetsExt are recursive functions over the *)
(* subsets of a domain.  FoldExists shows that there is such a function,   *)
(* FoldValues that it computes what a loop computes.                       *)
(***************************************************************************)
EXTENDS SequencesExt, FiniteSetTheorems, SequenceTheorems, WellFoundedInduction, TLAPS

\* The order of the natural numbers, as a relation.
LEMMA NatLess ==
  \E R : IsWellFoundedOn(R, Nat) /\ \A x, y \in Nat : <<x, y>> \in R <=> x < y
<1> DEFINE R == OpToRel(<, Nat)
<1>1. IsWellFoundedOn(R, Nat)
  BY NatLessThanWellFounded
<1>2. \A x, y \in Nat : <<x, y>> \in R <=> x < y
  BY DEF OpToRel
<1> HIDE DEF R
<1> QED
  BY <1>1, <1>2

\* Every non-empty set of natural numbers has a least element.
LEMMA LeastNatural ==
  ASSUME NEW T, T \subseteq Nat, T # {}
  PROVE  \E x \in T : \A y \in T : x <= y
<1>1. PICK R : IsWellFoundedOn(R, Nat) /\ \A x, y \in Nat : <<x, y>> \in R <=> x < y
  BY NatLess
<1>2. IsWellFoundedOn(R, Nat)
  BY <1>1
<1>3. \E x \in T : \A y \in T : ~ (<<y, x>> \in R)
  BY <1>2, WFMin
<1>4. PICK x \in T : \A y \in T : ~ (<<y, x>> \in R)
  BY <1>3
<1>5. ASSUME NEW y \in T
      PROVE  x <= y
  <2>1. x \in Nat /\ y \in Nat /\ ~ (y < x)
    BY <1>1, <1>4
  <2> QED
    BY <2>1
<1> QED
  BY <1>5

\* Induction over the natural numbers, of sets.
LEMMA NatSetInduction ==
  ASSUME NEW S, 0 \in S, \A n \in Nat : n \in S => n + 1 \in S
  PROVE  Nat \subseteq S
<1> SUFFICES ASSUME Nat \ S # {}
             PROVE  FALSE
  OBVIOUS
<1>1. PICK n \in Nat \ S : \A m \in Nat \ S : n <= m
  <2> DEFINE T == Nat \ S
  <2>1. T \subseteq Nat /\ T # {}
    OBVIOUS
  <2> HIDE DEF T
  <2>2. \E x \in T : \A y \in T : x <= y
    BY <2>1, LeastNatural
  <2> QED
    BY <2>2 DEF T
<1>2. n - 1 \in Nat /\ n - 1 \in S
  BY <1>1
<1> QED
  BY <1>1, <1>2

\* A set of subsets that has the empty set, and every set all of whose subsets with one
\* element less it has, has every finite set.
LEMMA FiniteSetInduction ==
  ASSUME NEW S, IsFiniteSet(S), NEW C, {} \in C,
         \A T \in SUBSET S : T # {} /\ (\A x \in T : T \ {x} \in C) => T \in C
  PROVE  SUBSET S \subseteq C
<1> DEFINE N == {n \in Nat : \A T \in SUBSET S : Cardinality(T) = n => T \in C}
<1>1. 0 \in N
  <2> SUFFICES ASSUME NEW T \in SUBSET S, Cardinality(T) = 0
               PROVE  T \in C
    OBVIOUS
  <2> QED
    BY FS_Subset, FS_EmptySet
<1>2. ASSUME NEW n \in Nat, n \in N
      PROVE  n + 1 \in N
  <2> SUFFICES ASSUME NEW T \in SUBSET S, Cardinality(T) = n + 1
               PROVE  T \in C
    OBVIOUS
  <2>1. IsFiniteSet(T)
    BY FS_Subset
  <2>2. T # {}
    <3> SUFFICES ASSUME T = {}
                 PROVE  FALSE
      OBVIOUS
    <3>1. Cardinality(T) = 0
      BY FS_EmptySet
    <3> QED
      BY <3>1
  <2>3. ASSUME NEW x \in T
        PROVE  T \ {x} \in C
    <3>1. Cardinality(T \ {x}) = Cardinality(T) - 1
      BY <2>1, FS_RemoveElement
    <3>2. Cardinality(T \ {x}) = n
      BY <3>1
    <3> QED
      BY <1>2, <3>2
  <2> QED
    BY <2>2, <2>3
<1> HIDE DEF N
<1>3. Nat \subseteq N
  BY <1>1, <1>2, NatSetInduction
<1>4. ASSUME NEW T \in SUBSET S
      PROVE  T \in C
  <2>1. Cardinality(T) \in Nat
    BY FS_Subset, FS_CardinalityType
  <2> QED
    BY <1>3, <2>1 DEF N
<1> QED
  BY <1>4

-----------------------------------------------------------------------------
(***************************************************************************)
(* Recursion over the subsets of a finite set.                             *)
(***************************************************************************)
Picks(pick, S) == \A s \in SUBSET S : s # {} => pick[s] \in s

SetRecursion(it, S, base, step, pick) ==
  \A s \in SUBSET S :
    it[s] = IF s = {} THEN base ELSE step[<<it[s \ {pick[s]}], pick[s]>>]

\* Recursion over the subsets of a finite set, one element of the set at a time.
LEMMA FiniteSetRecursion ==
  ASSUME NEW S, IsFiniteSet(S), NEW V, NEW base \in V,
         NEW pick, Picks(pick, S), NEW step \in [V \X S -> V]
  PROVE  \E it \in [SUBSET S -> V] : SetRecursion(it, S, base, step, pick)
<1> DEFINE Layer(n) == {s \in SUBSET S : Cardinality(s) <= n}
           Value(it, s) == IF s = {} THEN base ELSE step[<<it[s \ {pick[s]}], pick[s]>>]
           N == {n \in Nat : \E it \in [Layer(n) -> V] : \A s \in Layer(n) : it[s] = Value(it, s)}
<1>0. \A s \in SUBSET S : Cardinality(s) \in Nat /\ IsFiniteSet(s)
  BY FS_Subset, FS_CardinalityType
<1>00. \A s \in SUBSET S : s # {} =>
         /\ s \ {pick[s]} \in SUBSET S
         /\ Cardinality(s \ {pick[s]}) = Cardinality(s) - 1
         /\ pick[s] \in S
  BY <1>0, FS_RemoveElement DEF Picks
<1>1. 0 \in N
  <2> DEFINE it == [s \in Layer(0) |-> base]
  <2>1. it \in [Layer(0) -> V]
    OBVIOUS
  <2>2. ASSUME NEW s \in Layer(0)
        PROVE  s = {}
    BY <1>0, FS_EmptySet
  <2>3. \A s \in Layer(0) : it[s] = Value(it, s)
    BY <2>2
  <2> QED
    BY <2>1, <2>3
<1>2. ASSUME NEW n \in Nat, n \in N
      PROVE  n + 1 \in N
  <2>1. PICK it \in [Layer(n) -> V] : \A s \in Layer(n) : it[s] = Value(it, s)
    BY <1>2
  <2> DEFINE more == [s \in Layer(n + 1) |-> Value(it, s)]
  <2>2. ASSUME NEW s \in Layer(n + 1), s # {}
        PROVE  s \ {pick[s]} \in Layer(n)
    BY <1>0, <1>00, <2>2
  <2>3. more \in [Layer(n + 1) -> V]
    <3> SUFFICES ASSUME NEW s \in Layer(n + 1)
                 PROVE  Value(it, s) \in V
      OBVIOUS
    <3>1. CASE s = {}
      BY <3>1
    <3>2. CASE s # {}
      <4>1. it[s \ {pick[s]}] \in V /\ pick[s] \in S
        BY <1>00, <2>2, <3>2
      <4> QED
        BY <3>2, <4>1
    <3> QED
      BY <3>1, <3>2
  <2>4. ASSUME NEW s \in Layer(n)
        PROVE  more[s] = it[s]
    <3>1. s \in Layer(n + 1)
      BY <1>0
    <3> QED
      BY <2>1, <3>1
  <2>5. ASSUME NEW s \in Layer(n + 1)
        PROVE  more[s] = Value(more, s)
    <3>1. CASE s = {}
      BY <3>1
    <3>2. CASE s # {}
      BY <2>2, <2>4, <3>2
    <3> QED
      BY <3>1, <3>2
  <2> HIDE DEF more
  <2>6. \E f \in [Layer(n + 1) -> V] : \A s \in Layer(n + 1) : f[s] = Value(f, s)
    BY <2>3, <2>5
  <2>7. n + 1 \in Nat
    OBVIOUS
  <2> HIDE DEF Layer, Value
  <2> QED
    BY <2>6, <2>7
<1> HIDE DEF N
<1>3. Nat \subseteq N
  BY <1>1, <1>2, NatSetInduction
<1>4. Cardinality(S) \in N
  BY <1>0, <1>3
<1>5. \A s \in SUBSET S : Cardinality(s) <= Cardinality(S)
  BY FS_Subset
<1>6. Layer(Cardinality(S)) = SUBSET S
  BY <1>5
<1> QED
  BY <1>4, <1>6 DEF N, SetRecursion

-----------------------------------------------------------------------------
(***************************************************************************)
(* Folds over sequences.                                                   *)
(***************************************************************************)

\* The largest index of a set of indices.
LEMMA MaxIsLargest ==
  ASSUME NEW n \in Nat, NEW s, s \subseteq 1 .. n, s # {}
  PROVE  Max(s) \in s /\ \A i \in s : i <= Max(s)
<1> DEFINE Below == {n - i : i \in s}
<1>1. Below \subseteq Nat /\ Below # {}
  <2>1. \A i \in s : n - i \in Nat
    OBVIOUS
  <2>2. PICK i \in s : TRUE
    OBVIOUS
  <2>3. n - i \in Below
    OBVIOUS
  <2> QED
    BY <2>1, <2>3
<1> HIDE DEF Below
<1>2. PICK b \in Below : \A c \in Below : b <= c
  BY <1>1, LeastNatural
<1>3. PICK i \in s : b = n - i
  BY DEF Below
<1>4. \A j \in s : i >= j
  <2> TAKE j \in s
  <2>1. n - j \in Below
    BY DEF Below
  <2> QED
    BY <1>2, <1>3, <2>1
<1>5. \E x \in s : \A y \in s : x >= y
  BY <1>4
<1>6. Max(s) \in s /\ \A y \in s : Max(s) >= y
  BY <1>5 DEF Max
<1> QED
  BY <1>6

\* An interval without its largest number.
LEMMA MaxOfInterval ==
  ASSUME NEW n \in Nat, n > 0
  PROVE  Max(1 .. n) = n /\ (1 .. n) \ {Max(1 .. n)} = 1 .. n - 1
<1> DEFINE s == 1 .. n
<1>1. Max(s) \in 1 .. n /\ \A i \in 1 .. n : i <= Max(s)
  <2>1. s \subseteq 1 .. n /\ s # {}
    OBVIOUS
  <2> HIDE DEF s
  <2>2. Max(s) \in s /\ \A i \in s : i <= Max(s)
    BY <2>1, MaxIsLargest
  <2> QED
    BY <2>2 DEF s
<1>2. Max(1 .. n) = n
  BY <1>1
<1> QED
  BY <1>2

\* it is what FoldLeft computes over n elements with a step that is a function.
SeqRecursion(it, n, base, step) ==
  \A s \in SUBSET (1 .. n) :
    it[s] = IF s = {} THEN base ELSE step[<<it[s \ {Max(s)}], Max(s)>>]

\* The recursion inside FoldLeft has a solution for every step and every length.
LEMMA FoldExists ==
  ASSUME NEW n \in Nat, NEW V, NEW base \in V, NEW step \in [V \X (1 .. n) -> V]
  PROVE  \E it \in [SUBSET (1 .. n) -> V] : SeqRecursion(it, n, base, step)
<1> DEFINE pick == [s \in SUBSET (1 .. n) |-> Max(s)]
           S == 1 .. n
<1>1. IsFiniteSet(S) /\ Picks(pick, S) /\ step \in [V \X S -> V]
  <2>1. IsFiniteSet(S)
    BY FS_Interval
  <2>2. ASSUME NEW s \in SUBSET S, s # {}
        PROVE  Max(s) \in s
    <3>1. s \subseteq 1 .. n
      OBVIOUS
    <3> QED
      BY <2>2, <3>1, MaxIsLargest
  <2> QED
    BY <2>1, <2>2 DEF Picks
<1> HIDE DEF S, pick
<1>2. PICK it \in [SUBSET S -> V] : SetRecursion(it, S, base, step, pick)
  BY <1>1, FiniteSetRecursion
<1>3. SeqRecursion(it, n, base, step)
  BY <1>2 DEF SetRecursion, SeqRecursion, S, pick
<1> QED
  BY <1>2, <1>3 DEF S

\* The same of an it that is known to take that step only from values in V.
SeqStep(it, n, V, base, step) ==
  /\ it[{}] = base
  /\ \A s \in SUBSET (1 .. n) :
       s # {} /\ it[s \ {Max(s)}] \in V => it[s] = step[<<it[s \ {Max(s)}], Max(s)>>]

\* v are the values of a loop over 1 .. n that ends with it's result.
Values(v, it, n, base, step) ==
  /\ v[0] = base
  /\ \A k \in 1 .. n : v[k] = step[<<v[k - 1], k>>]
  /\ v[n] = it[1 .. n]

\* Whatever solves it takes, on the way to its result, one value after the other.
LEMMA FoldValues ==
  ASSUME NEW n \in Nat, NEW V, NEW base \in V, NEW step \in [V \X (1 .. n) -> V], NEW it,
         SeqStep(it, n, V, base, step)
  PROVE  \E v \in [0 .. n -> V] : Values(v, it, n, base, step)
<1>1. ASSUME NEW k \in 1 .. n, it[1 .. k - 1] \in V
      PROVE  it[1 .. k] \in V /\ it[1 .. k] = step[<<it[1 .. k - 1], k>>]
  <2>1. 1 .. k \in SUBSET (1 .. n) /\ 1 .. k # {}
    OBVIOUS
  <2>2. Max(1 .. k) = k /\ (1 .. k) \ {Max(1 .. k)} = 1 .. k - 1
    BY MaxOfInterval
  <2>3. it[1 .. k] = step[<<it[1 .. k - 1], k>>]
    BY <1>1, <2>1, <2>2 DEF SeqStep
  <2> QED
    BY <1>1, <2>3
<1>2. 1 .. 0 = {}
  OBVIOUS
<1> DEFINE N == {k \in Nat : k <= n => it[1 .. k] \in V}
<1>3. 0 \in N
  BY <1>2 DEF SeqStep
<1>4. ASSUME NEW k \in Nat, k \in N
      PROVE  k + 1 \in N
  <2> SUFFICES ASSUME k + 1 <= n
               PROVE  it[1 .. k + 1] \in V
    OBVIOUS
  <2>1. k + 1 \in 1 .. n /\ (k + 1) - 1 = k
    OBVIOUS
  <2>2. it[1 .. k] \in V
    BY <1>4
  <2> QED
    BY <1>1, <2>1, <2>2
<1> HIDE DEF N
<1>5. Nat \subseteq N
  BY <1>3, <1>4, NatSetInduction
<1>6. \A k \in 0 .. n : it[1 .. k] \in V
  BY <1>5 DEF N
<1> DEFINE v == [k \in 0 .. n |-> it[1 .. k]]
<1>7. v \in [0 .. n -> V] /\ v[0] = base /\ v[n] = it[1 .. n]
  BY <1>2, <1>6 DEF SeqStep
<1>8. \A k \in 1 .. n : v[k] = step[<<v[k - 1], k>>]
  BY <1>1, <1>6
<1> HIDE DEF v
<1> QED
  BY <1>7, <1>8 DEF Values

\* The values of a loop from 1 to n.
LoopValues(v, n, base, step) == v[0] = base /\ \A k \in 1 .. n : v[k] = step[<<v[k - 1], k>>]

\* The same for a function that is defined by recursion over 0 .. n: there is one, ...
LEMMA LoopExists ==
  ASSUME NEW n \in Nat, NEW V, NEW base \in V, NEW step \in [V \X (1 .. n) -> V]
  PROVE  \E v \in [0 .. n -> V] : LoopValues(v, n, base, step)
<1>1. PICK it \in [SUBSET (1 .. n) -> V] : SeqRecursion(it, n, base, step)
  BY FoldExists
<1>2. SeqStep(it, n, V, base, step)
  BY <1>1 DEF SeqRecursion, SeqStep
<1>3. PICK v \in [0 .. n -> V] : Values(v, it, n, base, step)
  BY <1>2, FoldValues
<1> QED
  BY <1>3 DEF Values, LoopValues

\* ... and it does not leave a set that none of its steps leaves.
LEMMA LoopStays ==
  ASSUME NEW n \in Nat, NEW V, NEW v, v[0] \in V,
         \A k \in 1 .. n : v[k - 1] \in V => v[k] \in V
  PROVE  \A k \in 0 .. n : v[k] \in V
<1> DEFINE N == {k \in Nat : k <= n => v[k] \in V}
<1>1. 0 \in N
  OBVIOUS
<1>2. ASSUME NEW j \in Nat, j \in N
      PROVE  j + 1 \in N
  <2> SUFFICES ASSUME j + 1 <= n
               PROVE  v[j + 1] \in V
    OBVIOUS
  <2>1. j + 1 \in 1 .. n /\ (j + 1) - 1 = j
    OBVIOUS
  <2>2. v[j] \in V
    BY <1>2
  <2> QED
    BY <2>1, <2>2
<1> HIDE DEF N
<1>3. Nat \subseteq N
  BY <1>1, <1>2, NatSetInduction
<1> QED
  BY <1>3 DEF N

\* The same, with a set for each step.
LEMMA LoopFollows ==
  ASSUME NEW n \in Nat, NEW V, NEW v, v[0] \in V[0],
         \A k \in 1 .. n : v[k - 1] \in V[k - 1] => v[k] \in V[k]
  PROVE  \A k \in 0 .. n : v[k] \in V[k]
<1> DEFINE N == {k \in Nat : k <= n => v[k] \in V[k]}
<1>1. 0 \in N
  OBVIOUS
<1>2. ASSUME NEW j \in Nat, j \in N
      PROVE  j + 1 \in N
  <2> SUFFICES ASSUME j + 1 <= n
               PROVE  v[j + 1] \in V[j + 1]
    OBVIOUS
  <2>1. j + 1 \in 1 .. n /\ (j + 1) - 1 = j
    OBVIOUS
  <2>2. v[j] \in V[j]
    BY <1>2
  <2> QED
    BY <2>1, <2>2
<1> HIDE DEF N
<1>3. Nat \subseteq N
  BY <1>1, <1>2, NatSetInduction
<1> QED
  BY <1>3 DEF N

-----------------------------------------------------------------------------
(***************************************************************************)
(* Sequences in a row.                                                     *)
(***************************************************************************)

\* It does not matter which of three packets are put together first.
LEMMA Regrouped == \A a, b, c \in Seq(Nat) : (a \o b) \o c = a \o (b \o c)
BY ConcatAssociative

\* FlattenSeq appends one sequence after the other.
LEMMA FlattenValues ==
  ASSUME NEW n \in Nat, NEW w \in [1 .. n -> Seq(Nat)]
  PROVE  \E u \in [0 .. n -> Seq(Nat)] :
           /\ u[0] = <<>>
           /\ \A k \in 1 .. n : u[k] = u[k - 1] \o w[k]
           /\ FlattenSeq(w) = u[n]
<1> DEFINE V == Seq(Nat)
           step == [x \in V \X (1 .. n) |-> x[1] \o w[x[2]]]
<1>1. step \in [V \X (1 .. n) -> V]
  BY ConcatProperties
<1>2. <<>> \in V
  OBVIOUS
<1>3. PICK u \in [0 .. n -> V] : LoopValues(u, n, <<>>, step)
  <2> HIDE DEF V, step
  <2> QED
    BY <1>1, <1>2, LoopExists
<1>4. u[0] = <<>> /\ \A k \in 1 .. n : u[k] = u[k - 1] \o w[k]
  <2>1. u[0] = <<>>
    BY <1>3 DEF LoopValues
  <2>2. ASSUME NEW k \in 1 .. n
        PROVE  u[k] = u[k - 1] \o w[k]
    <3>1. u[k] = step[<<u[k - 1], k>>]
      BY <1>3 DEF LoopValues
    <3>2. <<u[k - 1], k>> \in V \X (1 .. n)
      OBVIOUS
    <3> QED
      BY <3>1, <3>2
  <2> QED
    BY <2>1, <2>2
<1>5. w \in Seq(V) /\ Len(w) = n
  OBVIOUS
<1>6. CASE n = 0
  <2>1. w = <<>>
    BY <1>5, <1>6, EmptySeq
  <2>2. FlattenSeq(w) = w
    BY <1>5, <1>6 DEF FlattenSeq
  <2> QED
    BY <1>4, <1>6, <2>1, <2>2
<1>7. CASE n # 0
  <2> DEFINE F(it) == [i \in 1 .. n |-> IF i = 1 THEN w[i] ELSE it[i - 1] \o w[i]]
             flatten == CHOOSE it : it = F(it)
             it0 == [i \in 1 .. n |-> u[i]]
  <2>1. FlattenSeq(w) = flatten[n]
    BY <1>5, <1>7, Zenon DEF FlattenSeq
  <2>2. u[1] = w[1]
    <3>1. 1 \in 1 .. n /\ 1 - 1 = 0
      BY <1>7
    <3>2. u[1] = <<>> \o w[1] /\ w[1] \in Seq(Nat)
      BY <1>4, <3>1
    <3> QED
      BY <3>2, ConcatEmptySeq
  <2>3. it0 = F(it0)
    <3>1. ASSUME NEW i \in 1 .. n
          PROVE  it0[i] = IF i = 1 THEN w[i] ELSE it0[i - 1] \o w[i]
      <4>1. CASE i = 1
        BY <2>2, <4>1
      <4>2. CASE i # 1
        <5>1. i - 1 \in 1 .. n
          BY <4>2
        <5>2. it0[i - 1] = u[i - 1] /\ it0[i] = u[i]
          BY <5>1
        <5> QED
          BY <1>4, <4>2, <5>2
      <4> QED
        BY <4>1, <4>2
    <3> QED
      BY <3>1
  <2> HIDE DEF F, it0
  <2>4. flatten = F(flatten)
    BY <2>3
  <2> HIDE DEF flatten
  <2> USE DEF F
  <2>5. \A i \in 1 .. n : flatten[i] = IF i = 1 THEN w[i] ELSE flatten[i - 1] \o w[i]
    BY <2>4
  <2> DEFINE N == {k \in Nat : k + 1 <= n => flatten[k + 1] = u[k + 1]}
  <2>6. 0 \in N
    BY <1>7, <2>2, <2>5
  <2>7. ASSUME NEW k \in Nat, k \in N
        PROVE  k + 1 \in N
    <3> SUFFICES ASSUME (k + 1) + 1 <= n
                 PROVE  flatten[(k + 1) + 1] = u[(k + 1) + 1]
      OBVIOUS
    <3> DEFINE i == (k + 1) + 1
    <3>1. i \in 1 .. n /\ i # 1 /\ i - 1 = k + 1
      OBVIOUS
    <3>2. flatten[i - 1] = u[i - 1]
      BY <2>7, <3>1
    <3> HIDE DEF i
    <3>3. flatten[i] = u[i]
      BY <1>4, <2>5, <3>1, <3>2
    <3> QED
      BY <3>3 DEF i
  <2> HIDE DEF N
  <2>8. Nat \subseteq N
    BY <2>6, <2>7, NatSetInduction
  <2>9. n - 1 \in Nat /\ n - 1 \in N /\ (n - 1) + 1 = n
    BY <1>7, <2>8
  <2>10. flatten[n] = u[n]
    BY <2>9 DEF N
  <2> QED
    BY <1>4, <2>1, <2>10
<1> QED
  BY <1>6, <1>7

\* What is left of sequences in a row, with something behind them, when the first k of
\* them are taken away.
LEMMA FlattenTails ==
  ASSUME NEW n \in Nat, NEW w \in [1 .. n -> Seq(Nat)], NEW rest \in Seq(Nat)
  PROVE  /\ FlattenSeq(w) \in Seq(Nat)
         /\ \E left \in [0 .. n -> Seq(Nat)] :
              /\ left[0] = FlattenSeq(w) \o rest
              /\ \A k \in 1 .. n : left[k - 1] = w[k] \o left[k]
              /\ left[n] = rest
<1>0. \A a, b, c \in Seq(Nat) : (a \o b) \o c = a \o (b \o c)
  BY Regrouped
<1>1. PICK u \in [0 .. n -> Seq(Nat)] :
         /\ u[0] = <<>>
         /\ \A k \in 1 .. n : u[k] = u[k - 1] \o w[k]
         /\ FlattenSeq(w) = u[n]
  BY FlattenValues
<1> DEFINE V == Seq(Nat)
           step == [x \in V \X (1 .. n) |-> w[n + 1 - x[2]] \o x[1]]
<1>2. step \in [V \X (1 .. n) -> V]
  <2> SUFFICES ASSUME NEW x \in V \X (1 .. n)
               PROVE  w[n + 1 - x[2]] \o x[1] \in V
    OBVIOUS
  <2>1. n + 1 - x[2] \in 1 .. n /\ x[1] \in V
    OBVIOUS
  <2>2. w[n + 1 - x[2]] \in V
    BY <2>1
  <2> QED
    BY <2>1, <2>2, ConcatProperties
<1>3. rest \in V
  OBVIOUS
<1>4. PICK v \in [0 .. n -> V] : LoopValues(v, n, rest, step)
  <2> HIDE DEF V, step
  <2> QED
    BY <1>2, <1>3, LoopExists
<1> DEFINE left == [k \in 0 .. n |-> v[n - k]]
<1>5. left \in [0 .. n -> Seq(Nat)] /\ left[n] = rest
  BY <1>4 DEF LoopValues
<1>6. ASSUME NEW k \in 1 .. n
      PROVE  left[k - 1] = w[k] \o left[k]
  <2> DEFINE j == n + 1 - k
  <2>1. j \in 1 .. n /\ n + 1 - j = k /\ j - 1 = n - k /\ j = n - (k - 1)
    OBVIOUS
  <2>2. v[j] = step[<<v[j - 1], j>>]
    BY <1>4, <2>1 DEF LoopValues
  <2> HIDE DEF j
  <2>3. v[j - 1] \in V
    BY <1>4, <2>1
  <2>4. v[j] = w[k] \o v[j - 1]
    BY <2>1, <2>2, <2>3
  <2>5. left[k - 1] = v[j] /\ left[k] = v[j - 1]
    BY <2>1
  <2> QED
    BY <2>4, <2>5
<1> HIDE DEF left
<1>7. ASSUME NEW k \in 1 .. n
      PROVE  u[k] \o left[k] = u[k - 1] \o left[k - 1]
  <2>1. k - 1 \in 0 .. n /\ k \in 0 .. n
    OBVIOUS
  <2>2. u[k - 1] \in Seq(Nat) /\ w[k] \in Seq(Nat) /\ left[k] \in Seq(Nat)
    BY <1>1, <1>5, <2>1
  <2>3. (u[k - 1] \o w[k]) \o left[k] = u[k - 1] \o (w[k] \o left[k])
    BY <1>0, <2>2, Zenon
  <2> QED
    BY <1>1, <1>6, <2>3
<1> DEFINE whole == [k \in 0 .. n |-> u[k] \o left[k]]
<1>8. ASSUME NEW k \in 1 .. n, whole[k - 1] \in {whole[0]}
      PROVE  whole[k] \in {whole[0]}
  <2>1. k - 1 \in 0 .. n /\ k \in 0 .. n
    OBVIOUS
  <2>2. whole[k - 1] = u[k - 1] \o left[k - 1] /\ whole[k] = u[k] \o left[k]
    BY <2>1
  <2> HIDE DEF whole
  <2> QED
    BY <1>7, <1>8, <2>2
<1>9. whole[0] = u[0] \o left[0] /\ whole[n] = u[n] \o left[n]
  OBVIOUS
<1> HIDE DEF whole
<1>10. whole[n] = whole[0]
  <2> DEFINE Same == {whole[0]}
  <2>1. whole[0] \in Same /\ \A k \in 1 .. n : whole[k - 1] \in Same => whole[k] \in Same
    BY <1>8
  <2> HIDE DEF Same
  <2>2. \A k \in 0 .. n : whole[k] \in Same
    BY <2>1, LoopStays
  <2> QED
    BY <2>2 DEF Same
<1>11. u[0] \o left[0] = left[0]
  <2>1. u[0] = <<>> /\ left[0] \in Seq(Nat)
    BY <1>1, <1>5
  <2> QED
    BY <2>1, ConcatEmptySeq
<1>12. left[0] = FlattenSeq(w) \o rest
  BY <1>1, <1>5, <1>9, <1>10, <1>11
<1>13. FlattenSeq(w) \in Seq(Nat)
  BY <1>1
<1> QED
  BY <1>5, <1>6, <1>12, <1>13

\* What is taken from the front of a sequence.
LEMMA PrefixTaken ==
  ASSUME NEW S, NEW e \in S, NEW s \in Seq(S)
  PROVE  Head(<<e>> \o s) = e /\ Tail(<<e>> \o s) = s
<1> DEFINE p == <<e>> \o s
<1>1. <<e>> \in Seq(S) /\ Len(<<e>>) = 1 /\ <<e>>[1] = e
  OBVIOUS
<1>2. p \in Seq(S) /\ Len(p) = Len(s) + 1 /\ \A i \in 1 .. Len(s) + 1 : p[i] = IF i <= 1 THEN e ELSE s[i - 1]
  BY <1>1, ConcatProperties
<1> HIDE DEF p
<1>3. Head(p) = p[1] /\ p # <<>> /\ Len(s) \in Nat
  BY <1>2
<1>4. Tail(p) \in Seq(S) /\ Len(Tail(p)) = Len(s) /\ \A i \in 1 .. Len(s) : Tail(p)[i] = p[i + 1]
  BY <1>2, <1>3, HeadTailProperties
<1>5. \A i \in 1 .. Len(s) : Tail(p)[i] = s[i]
  BY <1>2, <1>3, <1>4
<1>6. Tail(p) = s
  BY <1>4, <1>5, SeqEqual
<1> QED
  BY <1>2, <1>3, <1>6 DEF p

\* A list as StateDef writes it, with something behind it: its length, and its elements,
\* of which one after the other is taken away.
LaidOut(n, w, rest) ==
  /\ <<n>> \o FlattenSeq(w) \in Seq(Nat)
  /\ Head((<<n>> \o FlattenSeq(w)) \o rest) = n
  /\ \E left \in [0 .. n -> Seq(Nat)] :
       /\ left[0] = Tail((<<n>> \o FlattenSeq(w)) \o rest)
       /\ \A k \in 1 .. n : left[k - 1] = w[k] \o left[k]
       /\ left[n] = rest

LEMMA ListLayout ==
  ASSUME NEW n \in Nat, NEW w \in [1 .. n -> Seq(Nat)], NEW rest \in Seq(Nat)
  PROVE  LaidOut(n, w, rest)
<1> DEFINE flat == FlattenSeq(w)
           packet == (<<n>> \o flat) \o rest
<1>1. /\ flat \in Seq(Nat)
      /\ \E left \in [0 .. n -> Seq(Nat)] :
           /\ left[0] = flat \o rest
           /\ \A k \in 1 .. n : left[k - 1] = w[k] \o left[k]
           /\ left[n] = rest
  BY FlattenTails
<1> HIDE DEF flat, packet
<1>2. <<n>> \o flat \in Seq(Nat) /\ <<n>> \in Seq(Nat) /\ flat \o rest \in Seq(Nat)
  BY <1>1, ConcatProperties
<1>3. packet = <<n>> \o (flat \o rest)
  BY <1>1, <1>2, Regrouped DEF packet
<1>4. Head(packet) = n /\ Tail(packet) = flat \o rest
  BY <1>2, <1>3, PrefixTaken
<1> QED
  BY <1>1, <1>2, <1>4 DEF flat, packet, LaidOut

-----------------------------------------------------------------------------
(***************************************************************************)
(* Sums over finite sets.                                                  *)
(***************************************************************************)

\* it is what MapThenSumSet computes when f is what is summed.
SumRecursion(it, S, f) ==
  \A s \in SUBSET S :
    it[s] = IF s = {} THEN 0
            ELSE f[CHOOSE x \in s : TRUE] + it[s \ {CHOOSE x \in s : TRUE}]

LEMMA SumExists ==
  ASSUME NEW S, IsFiniteSet(S), NEW f \in [S -> Nat]
  PROVE  \E it \in [SUBSET S -> Nat] : SumRecursion(it, S, f)
<1> DEFINE pick == [s \in SUBSET S |-> CHOOSE x \in s : TRUE]
           step == [z \in Nat \X S |-> f[z[2]] + z[1]]
<1>1. Picks(pick, S)
  BY DEF Picks
<1>2. step \in [Nat \X S -> Nat]
  OBVIOUS
<1>3. PICK it \in [SUBSET S -> Nat] : SetRecursion(it, S, 0, step, pick)
  <2> HIDE DEF pick, step
  <2> QED
    BY <1>1, <1>2, FiniteSetRecursion
<1>4. ASSUME NEW s \in SUBSET S, s # {}
      PROVE  it[s] = f[CHOOSE x \in s : TRUE] + it[s \ {CHOOSE x \in s : TRUE}]
  <2>1. pick[s] = CHOOSE x \in s : TRUE
    OBVIOUS
  <2>2. pick[s] \in S /\ it[s \ {pick[s]}] \in Nat
    BY <1>1, <1>4 DEF Picks
  <2>3. it[s] = step[<<it[s \ {pick[s]}], pick[s]>>]
    BY <1>3, <1>4 DEF SetRecursion
  <2> QED
    <3> HIDE DEF pick
    <3>1. it[s] = f[pick[s]] + it[s \ {pick[s]}]
      BY <2>2, <2>3
    <3> QED
      BY <2>1, <3>1
<1>5. it[{}] = 0
  BY <1>3 DEF SetRecursion
<1> QED
  BY <1>4, <1>5 DEF SumRecursion

\* sum is the sum of f over each subset of S, in whatever order it is taken.
SumOf(sum, S, f) ==
  /\ sum \in [SUBSET S -> Nat]
  /\ sum[{}] = 0
  /\ \A T \in SUBSET S : \A x \in T : sum[T] = f[x] + sum[T \ {x}]

\* The order does not matter.
LEMMA SumAnyOrder ==
  ASSUME NEW S, IsFiniteSet(S), NEW f \in [S -> Nat],
         NEW sum \in [SUBSET S -> Nat], SumRecursion(sum, S, f)
  PROVE  SumOf(sum, S, f)
<1> DEFINE Free(T) == \A x \in T : sum[T] = f[x] + sum[T \ {x}]
           N == {n \in Nat : \A T \in SUBSET S : Cardinality(T) = n => Free(T)}
<1>0. \A T \in SUBSET S : IsFiniteSet(T) /\ Cardinality(T) \in Nat
  BY FS_Subset, FS_CardinalityType
<1>1. 0 \in N
  <2> SUFFICES ASSUME NEW T \in SUBSET S, Cardinality(T) = 0
               PROVE  Free(T)
    OBVIOUS
  <2>1. T = {}
    BY <1>0, FS_EmptySet
  <2> QED
    BY <2>1
<1>2. ASSUME NEW n \in Nat, n \in N
      PROVE  n + 1 \in N
  <2> SUFFICES ASSUME NEW T \in SUBSET S, Cardinality(T) = n + 1, NEW x \in T
               PROVE  sum[T] = f[x] + sum[T \ {x}]
    OBVIOUS
  <2>1. PICK y \in T : y = CHOOSE z \in T : TRUE
    OBVIOUS
  <2>2. sum[T] = f[y] + sum[T \ {y}]
    BY <2>1 DEF SumRecursion
  <2>3. CASE x = y
    BY <2>2, <2>3
  <2>4. CASE x # y
    <3>1. Cardinality(T \ {x}) = n /\ Cardinality(T \ {y}) = n
      <4>1. Cardinality(T \ {x}) = Cardinality(T) - 1 /\ Cardinality(T \ {y}) = Cardinality(T) - 1
        BY <1>0, FS_RemoveElement
      <4> QED
        BY <4>1
    <3>2. Free(T \ {x}) /\ Free(T \ {y})
      BY <1>2, <3>1
    <3>3. sum[T \ {x}] = f[y] + sum[(T \ {x}) \ {y}] /\ sum[T \ {y}] = f[x] + sum[(T \ {y}) \ {x}]
      BY <2>4, <3>2
    <3>4. (T \ {x}) \ {y} = (T \ {y}) \ {x}
      OBVIOUS
    <3>5. PICK fx \in Nat : fx = f[x]
      OBVIOUS
    <3>6. PICK fy \in Nat : fy = f[y]
      OBVIOUS
    <3>7. PICK rest \in Nat : rest = sum[(T \ {x}) \ {y}]
      OBVIOUS
    <3>8. sum[T] = fy + (fx + rest) /\ sum[T \ {x}] = fy + rest
      BY <2>2, <3>3, <3>4, <3>5, <3>6, <3>7
    <3>9. fy + (fx + rest) = fx + (fy + rest)
      OBVIOUS
    <3> QED
      BY <3>5, <3>8, <3>9
  <2> QED
    BY <2>3, <2>4
<1> HIDE DEF N
<1>3. Nat \subseteq N
  BY <1>1, <1>2, NatSetInduction
<1>4. ASSUME NEW T \in SUBSET S
      PROVE  Free(T)
  BY <1>0, <1>3 DEF N
<1>5. sum[{}] = 0
  BY DEF SumRecursion
<1> QED
  BY <1>4, <1>5 DEF SumOf

\* There is only one solution, so whatever solves the recursion is a sum.
LEMMA SumUnique ==
  ASSUME NEW S, IsFiniteSet(S), NEW f \in [S -> Nat],
         NEW it, SumRecursion(it, S, f), DOMAIN it = SUBSET S, it = [s \in SUBSET S |-> it[s]]
  PROVE  SumOf(it, S, f)
<1>1. PICK sum \in [SUBSET S -> Nat] : SumRecursion(sum, S, f)
  BY SumExists
<1> DEFINE C == {T \in SUBSET S : it[T] = sum[T]}
<1>2. {} \in C
  BY <1>1 DEF SumRecursion
<1>3. ASSUME NEW T \in SUBSET S, T # {}, \A x \in T : T \ {x} \in C
      PROVE  T \in C
  <2>1. PICK y \in T : y = CHOOSE z \in T : TRUE
    BY <1>3
  <2>2. it[T] = f[y] + it[T \ {y}] /\ sum[T] = f[y] + sum[T \ {y}]
    BY <1>1, <1>3, <2>1 DEF SumRecursion
  <2>3. it[T \ {y}] = sum[T \ {y}]
    BY <1>3
  <2> QED
    BY <2>2, <2>3
<1> HIDE DEF C
<1>4. SUBSET S \subseteq C
  BY <1>2, <1>3, FiniteSetInduction
<1>5. it = sum
  BY <1>4 DEF C
<1> QED
  BY <1>1, <1>5, SumAnyOrder

\* No summand is larger than the sum.
LEMMA SumBounds ==
  ASSUME NEW S, NEW f \in [S -> Nat], NEW sum, SumOf(sum, S, f), NEW x \in S
  PROVE  f[x] <= sum[S] /\ sum[S] \in Nat /\ \A y \in S : y # x => f[x] + f[y] <= sum[S]
<1>1. sum[S] = f[x] + sum[S \ {x}] /\ sum[S] \in Nat /\ sum[S \ {x}] \in Nat /\ f[x] \in Nat
  BY DEF SumOf
<1>2. ASSUME NEW y \in S, y # x
      PROVE  f[x] + f[y] <= sum[S]
  <2>1. sum[S \ {x}] = f[y] + sum[(S \ {x}) \ {y}]
    BY <1>2 DEF SumOf
  <2>2. PICK fx \in Nat : fx = f[x]
    OBVIOUS
  <2>3. PICK fy \in Nat : fy = f[y]
    OBVIOUS
  <2>4. PICK rest \in Nat : rest = sum[(S \ {x}) \ {y}]
    BY DEF SumOf
  <2>5. sum[S] = fx + (fy + rest)
    BY <1>1, <2>1, <2>2, <2>3, <2>4
  <2>6. fx + fy <= fx + (fy + rest)
    BY <2>2, <2>3, <2>4
  <2> QED
    BY <2>2, <2>3, <2>5, <2>6
<1>3. f[x] <= sum[S]
  <2>1. PICK fx \in Nat : fx = f[x]
    OBVIOUS
  <2>2. PICK rest \in Nat : rest = sum[S \ {x}]
    BY <1>1
  <2>3. fx <= fx + rest
    OBVIOUS
  <2> QED
    BY <1>1, <2>1, <2>2, <2>3
<1> QED
  BY <1>1, <1>2, <1>3

\* Equal summands, equal sums.
LEMMA SumAgrees ==
  ASSUME NEW S, IsFiniteSet(S), NEW f \in [S -> Nat], NEW g \in [S -> Nat],
         NEW sumf, SumOf(sumf, S, f), NEW sumg, SumOf(sumg, S, g),
         NEW T \in SUBSET S, \A x \in T : f[x] = g[x]
  PROVE  sumf[T] = sumg[T]
<1> DEFINE C == {U \in SUBSET T : sumf[U] = sumg[U]}
<1>1. {} \in C
  BY DEF SumOf
<1>2. ASSUME NEW U \in SUBSET T, U # {}, \A x \in U : U \ {x} \in C
      PROVE  U \in C
  <2>1. PICK x \in U : TRUE
    BY <1>2
  <2>2. sumf[U] = f[x] + sumf[U \ {x}] /\ sumg[U] = g[x] + sumg[U \ {x}]
    BY DEF SumOf
  <2>3. sumf[U \ {x}] = sumg[U \ {x}] /\ f[x] = g[x]
    BY <1>2
  <2> QED
    BY <2>2, <2>3
<1>3. IsFiniteSet(T)
  BY FS_Subset
<1> HIDE DEF C
<1>4. SUBSET T \subseteq C
  BY <1>1, <1>2, <1>3, FiniteSetInduction
<1> QED
  BY <1>4 DEF C

\* What one summand loses to another does not change the sum.
LEMMA SumShift ==
  ASSUME NEW S, IsFiniteSet(S), NEW f \in [S -> Nat], NEW g \in [S -> Nat],
         NEW sumf, SumOf(sumf, S, f), NEW sumg, SumOf(sumg, S, g),
         NEW a \in S, NEW b \in S, a # b, f[a] + f[b] = g[a] + g[b],
         \A x \in S : x # a /\ x # b => f[x] = g[x]
  PROVE  sumf[S] = sumg[S]
<1> DEFINE T == (S \ {a}) \ {b}
<1>1. sumf[S] = f[a] + sumf[S \ {a}] /\ sumg[S] = g[a] + sumg[S \ {a}]
  BY DEF SumOf
<1>2. sumf[S \ {a}] = f[b] + sumf[T] /\ sumg[S \ {a}] = g[b] + sumg[T]
  BY DEF SumOf
<1>3. sumf[T] = sumg[T]
  BY SumAgrees
<1>4. sumf[T] \in Nat /\ f[a] \in Nat /\ f[b] \in Nat /\ g[a] \in Nat /\ g[b] \in Nat
  BY DEF SumOf
<1> HIDE DEF T
<1> QED
  BY <1>1, <1>2, <1>3, <1>4

\* A bound on the summands from B, which all others are 0 outside of.
LEMMA SumAtMost ==
  ASSUME NEW S, IsFiniteSet(S), NEW f \in [S -> Nat], NEW sum, SumOf(sum, S, f),
         NEW B \in SUBSET S, NEW most \in Nat,
         \A x \in S : f[x] <= IF x \in B THEN most ELSE 0
  PROVE  sum[S] <= most * Cardinality(B)
<1> DEFINE C == {T \in SUBSET S : sum[T] <= most * Cardinality(T \cap B)}
<1>0. \A T \in SUBSET S : IsFiniteSet(T \cap B) /\ Cardinality(T \cap B) \in Nat
  <2> TAKE T \in SUBSET S
  <2>1. T \cap B \in SUBSET S
    OBVIOUS
  <2>2. IsFiniteSet(T \cap B)
    BY <2>1, FS_Subset
  <2> QED
    BY <2>2, FS_CardinalityType
<1>1. {} \in C
  <2>1. {} \cap B = {}
    OBVIOUS
  <2>2. sum[{}] = 0 /\ Cardinality({} \cap B) = 0
    BY <2>1, FS_EmptySet DEF SumOf
  <2>3. most * 0 = 0
    OBVIOUS
  <2> QED
    BY <2>2, <2>3
<1>2. ASSUME NEW T \in SUBSET S, T # {}, \A x \in T : T \ {x} \in C
      PROVE  T \in C
  <2>1. PICK x \in T : TRUE
    BY <1>2
  <2>2. sum[T] = f[x] + sum[T \ {x}] /\ f[x] \in Nat /\ sum[T \ {x}] \in Nat
    BY DEF SumOf
  <2>3. sum[T \ {x}] <= most * Cardinality((T \ {x}) \cap B)
    BY <1>2
  <2> DEFINE m == Cardinality((T \ {x}) \cap B)
  <2>4. m \in Nat
    BY <1>0
  <2>5. CASE x \in B
    <3>1. (T \cap B) \ {x} = (T \ {x}) \cap B /\ x \in T \cap B
      BY <2>5
    <3>2. m = Cardinality(T \cap B) - 1
      BY <1>0, <3>1, FS_RemoveElement
    <3>3. Cardinality(T \cap B) \in Nat
      BY <1>0
    <3> DEFINE k == Cardinality(T \cap B)
    <3> HIDE DEF m, k
    <3>4. k = m + 1
      BY <2>4, <3>2, <3>3 DEF k
    <3>5. most * k = most * m + most /\ most * m \in Nat
      BY <2>4, <3>4
    <3>6. f[x] <= most
      BY <2>5
    <3>7. sum[T] <= most * k
      BY <2>2, <2>3, <3>5, <3>6 DEF m
    <3> QED
      BY <3>7 DEF k
  <2>6. CASE x \notin B
    <3>1. T \cap B = (T \ {x}) \cap B
      BY <2>6
    <3>2. f[x] = 0
      BY <2>2, <2>6
    <3> QED
      BY <2>2, <2>3, <3>1, <3>2
  <2> QED
    BY <2>5, <2>6
<1> HIDE DEF C
<1>3. SUBSET S \subseteq C
  BY <1>1, <1>2, FiniteSetInduction
<1>4. S \cap B = B
  OBVIOUS
<1> QED
  BY <1>3, <1>4 DEF C

\* One more for each element of D.
LEMMA SumOneMore ==
  ASSUME NEW S, IsFiniteSet(S), NEW f \in [S -> Nat], NEW g \in [S -> Nat],
         NEW sumf, SumOf(sumf, S, f), NEW sumg, SumOf(sumg, S, g),
         NEW D \in SUBSET S, \A x \in S : g[x] = IF x \in D THEN f[x] + 1 ELSE f[x]
  PROVE  sumg[S] = sumf[S] + Cardinality(D)
<1> DEFINE C == {T \in SUBSET S : sumg[T] = sumf[T] + Cardinality(T \cap D)}
<1>0. \A T \in SUBSET S : IsFiniteSet(T \cap D) /\ Cardinality(T \cap D) \in Nat
  <2> TAKE T \in SUBSET S
  <2>1. T \cap D \in SUBSET S
    OBVIOUS
  <2>2. IsFiniteSet(T \cap D)
    BY <2>1, FS_Subset
  <2> QED
    BY <2>2, FS_CardinalityType
<1>1. {} \in C
  <2>1. {} \cap D = {}
    OBVIOUS
  <2>2. Cardinality({}) = 0
    BY FS_EmptySet
  <2> QED
    BY <2>1, <2>2 DEF SumOf
<1>2. ASSUME NEW T \in SUBSET S, T # {}, \A x \in T : T \ {x} \in C
      PROVE  T \in C
  <2>1. PICK x \in T : TRUE
    BY <1>2
  <2> DEFINE rest == T \ {x}
  <2>2. sumf[T] = f[x] + sumf[rest] /\ sumg[T] = g[x] + sumg[rest]
    BY DEF SumOf
  <2>3. sumg[rest] = sumf[rest] + Cardinality(rest \cap D)
    BY <1>2
  <2>4. PICK fx \in Nat : fx = f[x]
    OBVIOUS
  <2>5. PICK sf \in Nat : sf = sumf[rest]
    BY DEF SumOf
  <2>6. PICK c \in Nat : c = Cardinality(rest \cap D)
    BY <1>0
  <2>7. sumf[T] = fx + sf /\ sumg[T] = g[x] + (sf + c)
    BY <2>2, <2>3, <2>4, <2>5, <2>6
  <2>8. CASE x \in D
    <3>1. rest \cap D = (T \cap D) \ {x} /\ x \in T \cap D
      BY <2>8
    <3>2. Cardinality((T \cap D) \ {x}) = Cardinality(T \cap D) - 1
      BY <1>0, <3>1, FS_RemoveElement
    <3>3. Cardinality(T \cap D) = c + 1
      <4>1. PICK d \in Nat : d = Cardinality(T \cap D)
        BY <1>0
      <4>2. c = d - 1
        BY <2>6, <3>1, <3>2, <4>1
      <4> QED
        BY <4>1, <4>2
    <3>4. g[x] = fx + 1
      BY <2>4, <2>8
    <3>5. (fx + 1) + (sf + c) = (fx + sf) + (c + 1)
      OBVIOUS
    <3> QED
      BY <2>7, <3>3, <3>4, <3>5
  <2>9. CASE x \notin D
    <3>1. rest \cap D = T \cap D
      BY <2>9
    <3>2. g[x] = fx
      BY <2>4, <2>9
    <3>3. fx + (sf + c) = (fx + sf) + c
      OBVIOUS
    <3> QED
      BY <2>6, <2>7, <3>1, <3>2, <3>3
  <2> QED
    BY <2>8, <2>9
<1> HIDE DEF C
<1>3. SUBSET S \subseteq C
  BY <1>1, <1>2, FiniteSetInduction
<1>4. S \in C /\ S \cap D = D
  BY <1>3
<1> QED
  BY <1>4 DEF C

\* SumFunctionOnSet is such a sum.
LEMMA SumFunctionIs ==
  ASSUME NEW S, IsFiniteSet(S), NEW f \in [S -> Nat]
  PROVE  \E sum : SumOf(sum, S, f) /\ SumFunctionOnSet(f, S) = sum[S]
<1> DEFINE F(it) == [s \in SUBSET S |->
                       IF s = {} THEN 0
                       ELSE f[CHOOSE x \in s : TRUE] + it[s \ {CHOOSE x \in s : TRUE}]]
           fold == CHOOSE it : it = F(it)
<1>1. SumFunctionOnSet(f, S) = fold[S]
  BY Zenon DEF SumFunctionOnSet, FoldFunctionOnSet, MapThenFoldSet
<1>2. PICK it \in [SUBSET S -> Nat] : SumRecursion(it, S, f)
  BY SumExists
<1>3. it = F(it)
  BY <1>2 DEF SumRecursion
<1>4. fold = F(fold)
  BY <1>3
<1> HIDE DEF fold
<1>5. SumRecursion(fold, S, f) /\ DOMAIN fold = SUBSET S /\ fold = [s \in SUBSET S |-> fold[s]]
  <2>1. fold = [s \in SUBSET S |-> fold[s]]
    BY <1>4
  <2>2. ASSUME NEW s \in SUBSET S
        PROVE  fold[s] = IF s = {} THEN 0
                         ELSE f[CHOOSE x \in s : TRUE] + fold[s \ {CHOOSE x \in s : TRUE}]
    BY <1>4
  <2> QED
    BY <2>1, <2>2 DEF SumRecursion
<1>6. SumOf(fold, S, f)
  BY <1>5, SumUnique
<1> QED
  BY <1>1, <1>6

LEMMA SumFunctionBounds ==
  ASSUME NEW S, IsFiniteSet(S), NEW f \in [S -> Nat]
  PROVE  /\ SumFunctionOnSet(f, S) \in Nat
         /\ \A x \in S : f[x] <= SumFunctionOnSet(f, S)
<1>1. PICK sum : SumOf(sum, S, f) /\ SumFunctionOnSet(f, S) = sum[S]
  BY SumFunctionIs
<1>2. sum[S] \in Nat
  BY <1>1 DEF SumOf
<1>3. \A x \in S : f[x] <= sum[S]
  BY <1>1, SumBounds
<1> QED
  BY <1>1, <1>2, <1>3

LEMMA SumFunctionOneMore ==
  ASSUME NEW S, IsFiniteSet(S), NEW f \in [S -> Nat], NEW g \in [S -> Nat],
         NEW D \in SUBSET S, \A x \in S : g[x] = IF x \in D THEN f[x] + 1 ELSE f[x]
  PROVE  SumFunctionOnSet(g, S) = SumFunctionOnSet(f, S) + Cardinality(D)
<1>1. PICK sumf : SumOf(sumf, S, f) /\ SumFunctionOnSet(f, S) = sumf[S]
  BY SumFunctionIs
<1>2. PICK sumg : SumOf(sumg, S, g) /\ SumFunctionOnSet(g, S) = sumg[S]
  BY SumFunctionIs
<1> QED
  BY <1>1, <1>2, SumOneMore

\* One element alone has less.
LEMMA SumFunctionDrop ==
  ASSUME NEW S, IsFiniteSet(S), NEW f \in [S -> Nat], NEW g \in [S -> Nat],
         NEW a \in S, NEW k \in Nat, g[a] + k = f[a], \A x \in S : x # a => g[x] = f[x]
  PROVE  SumFunctionOnSet(g, S) + k = SumFunctionOnSet(f, S)
<1>1. PICK sumf : SumOf(sumf, S, f) /\ SumFunctionOnSet(f, S) = sumf[S]
  BY SumFunctionIs
<1>2. PICK sumg : SumOf(sumg, S, g) /\ SumFunctionOnSet(g, S) = sumg[S]
  BY SumFunctionIs
<1>3. sumf[S] = f[a] + sumf[S \ {a}] /\ sumg[S] = g[a] + sumg[S \ {a}]
  BY <1>1, <1>2 DEF SumOf
<1>4. sumf[S \ {a}] = sumg[S \ {a}]
  BY <1>1, <1>2, SumAgrees
<1>5. PICK n \in Nat : n = sumf[S \ {a}]
  BY <1>1 DEF SumOf
<1>6. f[a] \in Nat /\ g[a] \in Nat
  OBVIOUS
<1> QED
  BY <1>1, <1>2, <1>3, <1>4, <1>5, <1>6

\* The same everywhere.
LEMMA SumFunctionConstant ==
  ASSUME NEW S, IsFiniteSet(S), NEW c \in Nat
  PROVE  SumFunctionOnSet([x \in S |-> c], S) = Cardinality(S) * c
<1> DEFINE f == [x \in S |-> c]
<1>1. f \in [S -> Nat] /\ \A x \in S : f[x] = c
  OBVIOUS
<1> HIDE DEF f
<1>2. PICK sum : SumOf(sum, S, f) /\ SumFunctionOnSet(f, S) = sum[S]
  BY <1>1, SumFunctionIs
<1> DEFINE C == {T \in SUBSET S : sum[T] = Cardinality(T) * c}
<1>3. {} \in C
  <2>1. Cardinality({}) = 0
    BY FS_EmptySet
  <2> QED
    BY <1>2, <2>1 DEF SumOf
<1>4. ASSUME NEW T \in SUBSET S, T # {}, \A x \in T : T \ {x} \in C
      PROVE  T \in C
  <2>1. PICK x \in T : TRUE
    BY <1>4
  <2>2. sum[T] = c + sum[T \ {x}]
    BY <1>1, <1>2 DEF SumOf
  <2>3. IsFiniteSet(T)
    BY FS_Subset
  <2>4. PICK n \in Nat : n = Cardinality(T)
    BY <2>3, FS_CardinalityType
  <2>5. Cardinality(T \ {x}) = n - 1
    BY <2>3, <2>4, FS_RemoveElement
  <2>6. sum[T \ {x}] = (n - 1) * c
    BY <1>4, <2>5
  <2>7. c + (n - 1) * c = n * c
    OBVIOUS
  <2> QED
    BY <2>2, <2>4, <2>6, <2>7
<1> HIDE DEF C
<1>5. SUBSET S \subseteq C
  BY <1>3, <1>4, FiniteSetInduction
<1>6. sum[S] = Cardinality(S) * c
  BY <1>5 DEF C
<1> QED
  BY <1>2, <1>6 DEF f

-----------------------------------------------------------------------------
(***************************************************************************)
(* Queues: where the elements of a changed sequence come from.             *)
(***************************************************************************)

\* A queue whose first element was taken.
LEMMA TailElements ==
  ASSUME NEW S, NEW seq \in Seq(S), seq # <<>>
  PROVE  /\ 1 \in DOMAIN seq /\ Head(seq) = seq[1] /\ Head(seq) \in S
         /\ Tail(seq) \in Seq(S)
         /\ \A i \in DOMAIN Tail(seq) :
              /\ i \in Nat \ {0} /\ i + 1 \in DOMAIN seq
              /\ Tail(seq)[i] = seq[i + 1]
BY HeadTailProperties, LenProperties, EmptySeq

\* A queue with one more element.
LEMMA AppendElements ==
  ASSUME NEW S, NEW seq \in Seq(S), NEW e \in S
  PROVE  /\ Append(seq, e) \in Seq(S)
         /\ Len(seq) + 1 \in DOMAIN Append(seq, e) /\ Len(seq) + 1 \notin DOMAIN seq
         /\ Append(seq, e)[Len(seq) + 1] = e
         /\ \A i \in DOMAIN seq :
              i \in DOMAIN Append(seq, e) /\ Append(seq, e)[i] = seq[i]
         /\ \A i \in DOMAIN Append(seq, e) : i = Len(seq) + 1 \/ i \in DOMAIN seq
BY AppendProperties, LenProperties
=============================================================================
