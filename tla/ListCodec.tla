------------------------------ MODULE ListCodec ------------------------------
(***************************************************************************)
(* Lists in a packet: if whatever is written of one element is read back,  *)
(* so is a list.  The proofs instantiate this module for each kind of list *)
(* in a game state; Packed and Unpacked are StateDef's WriteList and       *)
(* ReadList, without an operator as a parameter.                           *)
(***************************************************************************)
EXTENDS Integers, Sequences, FoldTheorems

CONSTANTS
  Write(_),
  Read(_),  \* answers the value and the rest of the packet
  Pick(_)   \* the element of a set of indices that the fold in ReadList takes off

Got(value, rest) == [value |-> value, rest |-> rest]

Packed(list) == <<Len(list)>> \o FlattenSeq([i \in DOMAIN list |-> Write(list[i])])

Unpacked(n, packet) ==
  (CHOOSE it : it = [s \in SUBSET (1 .. n) |->
     IF s = {} THEN Got(<<>>, packet)
     ELSE [value |-> Append(it[s \ {Pick(s)}].value, Read(it[s \ {Pick(s)}].rest).value),
           rest |-> Read(it[s \ {Pick(s)}].rest).rest]])[1 .. n]

PicksOne(n) == \A s \in SUBSET (1 .. n) : s # {} => Pick(s) \in s

\* left[k] is the packet after k of n elements, got[k] what the fold has then.
Finds(left, list, n) == \A k \in 1 .. n : Read(left[k - 1]) = Got(list[k], left[k])

Collects(got, n) ==
  \A k \in 1 .. n :
    got[k] = [value |-> Append(got[k - 1].value, Read(got[k - 1].rest).value),
              rest |-> Read(got[k - 1].rest).rest]

\* Whatever is written after it, an element of K is read back.
ReadsBack(K) ==
  \A e \in K, q \in Seq(Nat) : Write(e) \in Seq(Nat) /\ Read(Write(e) \o q) = Got(e, q)

ListBack(list, rest) ==
  /\ Packed(list) \in Seq(Nat)
  /\ Head(Packed(list) \o rest) = Len(list)
  /\ Unpacked(Len(list), Tail(Packed(list) \o rest)) = Got(list, rest)

\* got[k] is what the fold in ReadList has after k of n elements.
LEMMA FoldReads ==
  ASSUME NEW n \in Nat, NEW got,
         \A s \in SUBSET (1 .. n) : s # {} => Pick(s) \in s,
         \A k \in 1 .. n :
           got[k] = [value |-> Append(got[k - 1].value, Read(got[k - 1].rest).value),
                     rest |-> Read(got[k - 1].rest).rest]
  PROVE  (CHOOSE it : it = [s \in SUBSET (1 .. n) |->
            IF s = {} THEN got[0]
            ELSE [value |-> Append(it[s \ {Pick(s)}].value, Read(it[s \ {Pick(s)}].rest).value),
                  rest |-> Read(it[s \ {Pick(s)}].rest).rest]])[1 .. n]
           = got[n]
<1> DEFINE S == 1 .. n
           base == got[0]
           Step(g) == [value |-> Append(g.value, Read(g.rest).value), rest |-> Read(g.rest).rest]
           F(it) == [s \in SUBSET S |-> IF s = {} THEN base ELSE Step(it[s \ {Pick(s)}])]
           read == CHOOSE it : it = F(it)
           it0 == [s \in SUBSET S |-> got[Cardinality(s)]]
<1>1. IsFiniteSet(S) /\ Cardinality(S) = n
  <2>1. IsFiniteSet(1 .. n) /\ Cardinality(1 .. n) = IF 1 > n THEN 0 ELSE n - 1 + 1
    BY FS_Interval
  <2> QED
    BY <2>1
<1>2. ASSUME NEW s \in SUBSET S
      PROVE  IsFiniteSet(s) /\ Cardinality(s) \in 0 .. n
  <2>1. IsFiniteSet(s) /\ Cardinality(s) <= Cardinality(S)
    BY <1>1, FS_Subset
  <2>2. Cardinality(s) \in Nat
    BY <2>1, FS_CardinalityType
  <2> QED
    BY <1>1, <2>1, <2>2
<1>3. ASSUME NEW s \in SUBSET S, s # {}
      PROVE  /\ s \ {Pick(s)} \in SUBSET S
             /\ Cardinality(s \ {Pick(s)}) = Cardinality(s) - 1
             /\ Cardinality(s) \in 1 .. n
  <2>1. Pick(s) \in s
    BY <1>3
  <2>2. Cardinality(s \ {Pick(s)}) = Cardinality(s) - 1 /\ s \ {Pick(s)} \in SUBSET S
    BY <1>2, <2>1, FS_RemoveElement
  <2>3. Cardinality(s \ {Pick(s)}) \in 0 .. n /\ Cardinality(s) \in 0 .. n
    BY <1>2, <2>2
  <2> QED
    BY <1>1, <2>2, <2>3
<1>4. \A k \in 1 .. n : got[k] = Step(got[k - 1])
  OBVIOUS
<1> HIDE DEF Step, S
<1>5. it0 = F(it0)
  <2>1. ASSUME NEW s \in SUBSET S
        PROVE  it0[s] = IF s = {} THEN base ELSE Step(it0[s \ {Pick(s)}])
    <3>1. CASE s = {}
      BY <3>1, FS_EmptySet
    <3>2. CASE s # {}
      <4>1. it0[s] = got[Cardinality(s)] /\ it0[s \ {Pick(s)}] = got[Cardinality(s) - 1]
        BY <1>3, <3>2
      <4> HIDE DEF it0
      <4> QED
        BY <1>3, <1>4, <3>2, <4>1
    <3> QED
      BY <3>1, <3>2
  <2> QED
    BY <2>1
<1> HIDE DEF it0, F
<1>6. read = F(read)
  BY <1>5
<1> HIDE DEF read
<1> USE DEF F
<1> DEFINE C == {s \in SUBSET S : read[s] = got[Cardinality(s)]}
<1>7. {} \in C
  BY <1>6, FS_EmptySet
<1>8. ASSUME NEW T \in SUBSET S, T # {}, \A x \in T : T \ {x} \in C
      PROVE  T \in C
  <2>1. read[T] = Step(read[T \ {Pick(T)}])
    BY <1>6, <1>8
  <2>2. read[T \ {Pick(T)}] = got[Cardinality(T \ {Pick(T)})]
    <3>1. Pick(T) \in T
      BY <1>8 DEF S
    <3>2. T \ {Pick(T)} \in C
      BY <1>8, <3>1
    <3> QED
      BY <3>2
  <2> QED
    BY <1>3, <1>4, <1>8, <2>1, <2>2
<1> HIDE DEF C
<1>9. SUBSET S \subseteq C
  <2> DEFINE all == S
  <2>1. /\ IsFiniteSet(all) /\ {} \in C
        /\ \A T \in SUBSET all : T # {} /\ (\A x \in T : T \ {x} \in C) => T \in C
    BY <1>1, <1>7, <1>8
  <2> HIDE DEF all
  <2>2. SUBSET all \subseteq C
    BY <2>1, FiniteSetInduction
  <2> QED
    BY <2>2 DEF all
<1>10. read[S] = got[n]
  BY <1>1, <1>9 DEF C
<1> QED
  BY <1>10 DEF read, Step, S

\* Reading a list one element after the other gets the list and what comes after it.
LEMMA ListGot ==
  ASSUME NEW n \in Nat, NEW X, NEW list \in [1 .. n -> X], NEW left, Finds(left, list, n)
  PROVE  \E got :
           got[0] = Got(<<>>, left[0]) /\ Collects(got, n) /\ got[n] = Got(list, left[n])
<1> DEFINE got == [k \in 0 .. n |-> [value |-> SubSeq(list, 1, k), rest |-> left[k]]]
<1>1. list \in Seq(X) /\ Len(list) = n
  OBVIOUS
<1>2. got[0] = [value |-> <<>>, rest |-> left[0]]
  BY SubSeqEmpty
<1>3. ASSUME NEW k \in 1 .. n
      PROVE  got[k] = [value |-> Append(got[k - 1].value, Read(got[k - 1].rest).value),
                       rest |-> Read(got[k - 1].rest).rest]
  <2>1. k - 1 \in 0 .. n /\ k \in 0 .. n /\ k \in DOMAIN list
    BY <1>1
  <2> DEFINE before == SubSeq(list, 1, k - 1)
             after == SubSeq(list, 1, k)
  <2>2. got[k - 1] = [value |-> before, rest |-> left[k - 1]]
    BY <2>1
  <2>3. Read(left[k - 1]) = [value |-> list[k], rest |-> left[k]]
    BY DEF Finds, Got
  <2>4. Append(before, list[k]) = after
    BY <1>1, <2>1, SubSeqRecursiveSecond
  <2>5. got[k] = [value |-> after, rest |-> left[k]]
    BY <2>1
  <2> HIDE DEF got, before, after
  <2>6. got[k - 1].value = before /\ got[k - 1].rest = left[k - 1]
    BY <2>2
  <2>7. /\ Read(got[k - 1].rest).value = list[k]
        /\ Read(got[k - 1].rest).rest = left[k]
    BY <2>3, <2>6
  <2> QED
    BY <2>4, <2>5, <2>6, <2>7
<1>4. got[n] = [value |-> list, rest |-> left[n]]
  <2>1. SubSeq(list, 1, n) = list
    BY <1>1, SubSeqFull
  <2>2. got[n] = [value |-> SubSeq(list, 1, n), rest |-> left[n]]
    OBVIOUS
  <2> HIDE DEF got
  <2> QED
    BY <2>1, <2>2, Zenon
<1> HIDE DEF got
<1>5. got[0] = Got(<<>>, left[0]) /\ got[n] = Got(list, left[n])
  BY <1>2, <1>4 DEF Got
<1>6. Collects(got, n)
  BY <1>3 DEF Collects
<1> QED
  BY <1>5, <1>6

\* A list is read back, whatever is written after it.
LEMMA ListReadsBack ==
  ASSUME NEW K, ReadsBack(K), NEW list \in Seq(K), NEW rest \in Seq(Nat), PicksOne(Len(list))
  PROVE  ListBack(list, rest)
<1> DEFINE n == Len(list)
           w == [i \in 1 .. n |-> Write(list[i])]
           packet == Packed(list) \o rest
<1>1. n \in Nat /\ list \in [1 .. n -> K] /\ DOMAIN list = 1 .. n
  OBVIOUS
<1>2. Packed(list) = <<n>> \o FlattenSeq(w)
  BY <1>1, Zenon DEF Packed
<1>3. \A i \in 1 .. n : w[i] = Write(list[i])
  OBVIOUS
<1>4. w \in [1 .. n -> Seq(Nat)]
  <2>1. ASSUME NEW i \in 1 .. n
        PROVE  Write(list[i]) \in Seq(Nat)
    <3>1. list[i] \in K /\ <<>> \in Seq(Nat)
      BY <1>1
    <3> QED
      BY <3>1 DEF ReadsBack
  <2> QED
    BY <2>1
<1> HIDE DEF w
<1>5. LaidOut(n, w, rest)
  <2> HIDE DEF n
  <2> QED
    BY <1>1, <1>4, ListLayout
<1>6. Packed(list) \in Seq(Nat) /\ Head(packet) = n
  BY <1>2, <1>5 DEF LaidOut
<1> HIDE DEF n
<1>7. PICK left \in [0 .. n -> Seq(Nat)] :
           /\ left[0] = Tail(packet)
           /\ \A k \in 1 .. n : left[k - 1] = w[k] \o left[k]
           /\ left[n] = rest
  BY <1>2, <1>5 DEF LaidOut
<1> HIDE DEF packet
<1>8. ASSUME NEW k \in 1 .. n
      PROVE  Read(left[k - 1]) = [value |-> list[k], rest |-> left[k]]
  <2>1. list[k] \in K /\ left[k] \in Seq(Nat)
    BY <1>1, <1>7
  <2>2. Read(Write(list[k]) \o left[k]) = Got(list[k], left[k])
    BY <2>1 DEF ReadsBack
  <2>3. left[k - 1] = Write(list[k]) \o left[k]
    BY <1>3, <1>7
  <2> QED
    BY <2>2, <2>3 DEF Got
<1>9. PICK got : got[0] = Got(<<>>, left[0]) /\ Collects(got, n) /\ got[n] = Got(list, left[n])
  <2>1. Finds(left, list, n)
    BY <1>8 DEF Finds, Got
  <2> QED
    BY <1>1, <2>1, ListGot
<1> DEFINE fold ==
             (CHOOSE it : it = [s \in SUBSET (1 .. n) |->
                IF s = {} THEN got[0]
                ELSE [value |-> Append(it[s \ {Pick(s)}].value,
                                       Read(it[s \ {Pick(s)}].rest).value),
                      rest |-> Read(it[s \ {Pick(s)}].rest).rest]])[1 .. n]
<1>10. fold = got[n]
  <2>1. \A s \in SUBSET (1 .. n) : s # {} => Pick(s) \in s
    BY DEF PicksOne, n
  <2> QED
    BY <1>1, <1>9, <2>1, FoldReads DEF Collects
<1>11. Got(<<>>, Tail(packet)) = got[0] /\ got[n] = Got(list, rest)
  BY <1>7, <1>9
<1>12. Unpacked(n, Tail(packet)) = fold
  BY <1>11, Zenon DEF Unpacked
<1> HIDE DEF fold
<1>13. Unpacked(n, Tail(packet)) = Got(list, rest)
  BY <1>10, <1>11, <1>12
<1> QED
  BY <1>6, <1>13 DEF ListBack, packet, n
==============================================================================
